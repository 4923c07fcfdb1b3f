-------------------------- MODULE EmploymentProofs --------------------------
(***************************************************************************)
(* Proofs about the employments, the terms of use and their interleavings, *)
(* for every set of users, companies and rows, every number of days and    *)
(* every delay.                                                            *)
(***************************************************************************)
EXTENDS UserAgreement, EmploymentConcurrent, FiniteSetTheorems, TLAPS

-----------------------------------------------------------------------------
(* What a request on the employments may do to a row that is there: its    *)
(* company and its first day stay, and so does its user once it has one;   *)
(* what was approved stays approved, what was refused stays refused unless *)
(* it was cancelled too, and an end is set on an open row that no later    *)
(* work follows, or taken back on the same day.                            *)

Table == [Employment -> Row \cup {Null}]

RowMoves(e) ==
  LET r == employments[e]  n == employments'[e]
  IN /\ n # Null
     /\ n.company = r.company
     /\ n.start = r.start
     /\ r.user # Null => n.user = r.user
     /\ r.status = "approved" => n.status = "approved"
     /\ r.status = "rejected" /\ ~r.dismissed => n.status = "rejected"
     /\ \/ n.end = r.end
        \/ r.end = Null /\ n.end \in Day /\ ~WorksAfter(r.user, r.company, n.end)
        \/ r.end = today /\ n.end = Null

RowsMove == \A e \in Rows(employments) : RowMoves(e)

\* A row stands for somebody with an account, or for an address.
HasSomebody(r, accounts) ==
  IF r.user = Null THEN r.email # Null /\ r.status = "pending"
  ELSE r.user \in accounts

LEMMA TypeParts ==
  TypeOK <=> /\ today \in Day
             /\ registered \subseteq User
             /\ employments \in Table
             /\ work \subseteq User \X Company \X Day
             /\ \A e \in Rows(employments) : HasSomebody(employments[e], registered)
BY DEF TypeOK, Table, HasSomebody

LEMMA RowShape ==
  ASSUME TypeOK, NEW e \in Rows(employments)
  PROVE  /\ e \in Employment
         /\ employments[e] \in Row
         /\ employments[e].user \in User \cup {Null}
         /\ employments[e].email \in User \cup {Null}
         /\ employments[e].company \in Company
         /\ employments[e].status \in Status
         /\ employments[e].start \in Day
         /\ employments[e].end \in Day \cup {Null}
         /\ employments[e].dismissed \in BOOLEAN
         /\ employments[e].admin \in BOOLEAN
         /\ employments[e].token \in BOOLEAN
         /\ HasSomebody(employments[e], registered)
<1>1. e \in Employment /\ employments[e] \in Row
  BY DEF TypeOK, Rows
<1> QED
  BY <1>1, TypeParts DEF Row

LEMMA Days == Day \subseteq Nat /\ Day \subseteq Int /\ 0 \in Day /\ Null \notin Day
BY DayAssumption, NullAssumption DEF Day

\* One row is changed, to what keeps the types and moves as allowed.
LEMMA OneRowMoves ==
  ASSUME TypeOK, NEW e \in Rows(employments), NEW n \in Row,
         employments' = [employments EXCEPT ![e] = n],
         registered \subseteq registered', registered' \subseteq User,
         today' = today, work' = work,
         HasSomebody(n, registered'),
         employments'[e] = n => RowMoves(e)
  PROVE  TypeOK' /\ RowsMove
<1>1. e \in Employment /\ employments \in Table
  BY DEF TypeOK, Table, Rows
<1>2. employments'[e] = n /\ \A f \in Employment \ {e} : employments'[f] = employments[f]
  BY <1>1 DEF Table
<1>3. employments' \in Table
  BY <1>1 DEF Table
<1>4. \A f \in Rows(employments) \ {e} : RowMoves(f)
  BY <1>2 DEF Rows, RowMoves
<1>5. \A f \in Rows(employments)' : HasSomebody(employments'[f], registered')
  <2> TAKE f \in Rows(employments)'
  <2>1. CASE f = e
    BY <1>2, <2>1
  <2>2. CASE f # e
    <3>1. f \in Rows(employments) /\ employments'[f] = employments[f]
      BY <1>2, <2>2 DEF Rows
    <3> QED
      BY <3>1, TypeParts DEF HasSomebody
  <2> QED
    BY <2>1, <2>2
<1>6. TypeOK'
  BY <1>3, <1>5, TypeParts DEF TypeOK, Table, HasSomebody
<1> QED
  BY <1>2, <1>4, <1>6 DEF RowsMove

LEMMA RowChanges ==
  ASSUME NEW r \in Row
  PROVE  /\ \A u \in User \cup {Null} : [r EXCEPT !.user = u] \in Row
         /\ \A u \in User \cup {Null} : [r EXCEPT !.email = u] \in Row
         /\ \A st \in Status : [r EXCEPT !.status = st] \in Row
         /\ \A d \in Day \cup {Null} : [r EXCEPT !.end = d] \in Row
         /\ \A b \in BOOLEAN : [r EXCEPT !.dismissed = b] \in Row
         /\ \A b \in BOOLEAN : [r EXCEPT !.admin = b] \in Row
BY DEF Row

LEMMA NewRows ==
  ASSUME today \in Day, NEW c \in Company, NEW adm \in BOOLEAN
  PROVE  /\ \A u \in User : ApprovedRow(u, c, adm) \in Row
         /\ \A u, mail \in User \cup {Null}, st \in Day, end \in Day \cup {Null} :
              Invitation(u, mail, c, st, end, adm) \in Row
BY DEF Row, Status, ApprovedRow, Invitation

\* A free row is taken.
LEMMA InsertMoves ==
  ASSUME TypeOK, NEW e \in Employment, employments[e] = Null, NEW n \in Row,
         employments' = Insert(employments, e, n),
         UNCHANGED <<today, registered, work>>,
         HasSomebody(n, registered)
  PROVE  TypeOK' /\ RowsMove
<1>1. employments' \in Table
  BY TypeParts DEF Insert, Table
<1>2. employments'[e] = n /\ \A f \in Employment \ {e} : employments'[f] = employments[f]
  BY TypeParts DEF Insert, Table
<1>3. \A f \in Rows(employments) : RowMoves(f)
  <2> TAKE f \in Rows(employments)
  <2>1. f \in Employment \ {e} /\ employments[f] # Null
    BY DEF Rows
  <2> QED
    BY <1>2, <2>1 DEF RowMoves
<1>4. \A f \in Rows(employments)' : HasSomebody(employments'[f], registered')
  <2> TAKE f \in Rows(employments)'
  <2>1. CASE f = e
    BY <1>2, <2>1
  <2>2. CASE f # e
    <3>1. f \in Employment /\ employments'[f] # Null
      BY DEF Rows
    <3>2. f \in Rows(employments) /\ employments'[f] = employments[f]
      BY <1>2, <2>2, <3>1 DEF Rows
    <3> QED
      BY <3>2, TypeParts DEF HasSomebody
  <2> QED
    BY <2>1, <2>2
<1> QED
  BY <1>1, <1>3, <1>4, TypeParts DEF TypeOK, Table, HasSomebody, RowsMove

LEMMA InviteMoves ==
  ASSUME TypeOK, NEW a \in User, NEW c \in Company, NEW e \in Employment,
         NEW p \in Worker, NEW byId \in BOOLEAN, NEW adm \in BOOLEAN,
         NEW st \in Day, NEW end \in Day \cup {Null},
         Invite(a, e, c, p, byId, st, end, adm)
  PROVE  TypeOK' /\ RowsMove
<1> DEFINE u == AccountOf(p)
           mail == IF byId THEN Null ELSE p
           n == Invitation(u, mail, c, st, end, adm)
<1>1. p \in User /\ u \in User \cup {Null} /\ mail \in User \cup {Null}
  BY PeopleAssumption DEF AccountOf
<1>2. n \in Row
  BY <1>1, NewRows, TypeParts
<1>3. HasSomebody(n, registered)
  BY <1>1, NullAssumption DEF Invite, Invitation, HasSomebody, AccountOf
<1>4. employments[e] = Null /\ employments' = Insert(employments, e, n)
      /\ UNCHANGED <<today, registered, work>>
  BY DEF Invite, Commit
<1> HIDE DEF n
<1> QED
  BY <1>2, <1>3, <1>4, InsertMoves

LEMMA BatchMoves ==
  ASSUME TypeOK, NEW a \in User, NEW c \in Company,
         NEW ids \in SUBSET Worker, NEW mails \in SUBSET Worker,
         NEW kept \in SUBSET (ids \cup mails), NEW rows \in [kept -> Employment],
         InviteBatch(a, c, ids, mails, rows)
  PROVE  TypeOK' /\ RowsMove
<1> DEFINE invited(p) == Invitation(IF p \in ids THEN p ELSE Null,
                                    IF p \in ids THEN Null ELSE p,
                                    c, today, Null, FALSE)
           who(e) == CHOOSE p \in DOMAIN rows : rows[p] = e
           taken(e) == \E p \in DOMAIN rows : rows[p] = e
<1>1. kept \subseteq User /\ ids \subseteq registered /\ Null \notin User
  BY PeopleAssumption, NullAssumption DEF InviteBatch
<1>2. \A p \in kept : invited(p) \in Row /\ HasSomebody(invited(p), registered)
  <2> TAKE p \in kept
  <2>1. invited(p) \in Row
    BY <1>1, NewRows, TypeParts
  <2>2. HasSomebody(invited(p), registered)
    BY <1>1 DEF Invitation, HasSomebody
  <2> QED
    BY <2>1, <2>2
<1>3. /\ employments' = [e \in Employment |->
                           IF taken(e) THEN invited(who(e)) ELSE employments[e]]
      /\ UNCHANGED <<today, registered, work>>
      /\ \A p \in kept : employments[rows[p]] = Null
  BY DEF InviteBatch, Commit
<1>4. \A e : taken(e) => who(e) \in kept /\ rows[who(e)] = e
  OBVIOUS
<1> HIDE DEF invited, who, taken
<1>5. employments \in Table
  BY TypeParts
<1>6. \A e \in Employment :
        \/ employments[e] = Null /\ employments'[e] \in Row
           /\ HasSomebody(employments'[e], registered)
        \/ employments'[e] = employments[e]
  BY <1>2, <1>3, <1>4
<1>7. employments' \in Table
  BY <1>3, <1>5, <1>6 DEF Table
<1>8. \A e \in Rows(employments) : RowMoves(e)
  BY <1>6 DEF Rows, RowMoves
<1>9. \A f \in Rows(employments)' : HasSomebody(employments'[f], registered')
  <2> TAKE f \in Rows(employments)'
  <2>1. \/ HasSomebody(employments'[f], registered)
        \/ f \in Rows(employments) /\ employments'[f] = employments[f]
    BY <1>6 DEF Rows
  <2> QED
    BY <1>3, <2>1, TypeParts DEF HasSomebody
<1> QED
  BY <1>3, <1>7, <1>8, <1>9, TypeParts DEF TypeOK, Table, HasSomebody, RowsMove

LEMMA ReviewMoves ==
  ASSUME TypeOK, NEW u \in User, NEW e \in Rows(employments),
         ValidateEmployment(u, e) \/ RejectEmployment(u, e)
  PROVE  TypeOK' /\ RowsMove
<1> DEFINE r == employments[e]
<1>1. /\ r \in Row /\ r.user = u /\ r.user # Null /\ r.status = "pending"
      /\ e \in Employment /\ u \in registered
  BY RowShape, NullAssumption DEF ValidateEmployment, RejectEmployment, Reviewable, HasSomebody
<1>2. CASE ValidateEmployment(u, e)
  <2> DEFINE n == Approved(r, u)
  <2>1. n \in Row
    BY <1>1, RowChanges DEF Approved, Status
  <2>2. HasSomebody(n, registered)
    BY <1>1 DEF Row, Approved, HasSomebody
  <2>3. /\ employments' = [employments EXCEPT ![e] = n]
        /\ UNCHANGED <<today, registered, work>>
    BY <1>2 DEF ValidateEmployment, Commit
  <2>4. ASSUME employments'[e] = n PROVE RowMoves(e)
    BY <1>1, <2>1, <2>4, NoRowAssumption DEF Row, RowMoves, Approved
  <2> HIDE DEF n
  <2> QED
    BY <2>1, <2>2, <2>3, <2>4, OneRowMoves, TypeParts
<1>3. CASE RejectEmployment(u, e)
  <2> DEFINE n == [r EXCEPT !.status = "rejected"]
  <2>1. n \in Row
    BY <1>1, RowChanges DEF Status
  <2>2. HasSomebody(n, registered)
    BY <1>1 DEF Row, HasSomebody
  <2>3. /\ employments' = [employments EXCEPT ![e] = n]
        /\ UNCHANGED <<today, registered, work>>
    BY <1>3 DEF RejectEmployment, Commit
  <2>4. ASSUME employments'[e] = n PROVE RowMoves(e)
    BY <1>1, <2>1, <2>4, NoRowAssumption DEF Row, RowMoves
  <2> HIDE DEF n
  <2> QED
    BY <2>1, <2>2, <2>3, <2>4, OneRowMoves, TypeParts
<1> QED
  BY <1>2, <1>3

LEMMA LinkMoves ==
  ASSUME TypeOK, NEW u \in User, NEW e \in Rows(employments),
         RedeemInvitation(u, e) \/ SignUpInvited(u, e)
  PROVE  TypeOK' /\ RowsMove
<1> DEFINE r == employments[e]
           mail == IF RedeemInvitation(u, e) /\ r.user # Null THEN r.email ELSE u
           n == [Approved(r, u) EXCEPT !.email = mail]
<1>1. r \in Row /\ e \in Employment /\ mail \in User \cup {Null}
  BY RowShape
<1>2. /\ r.user \in {u, Null} /\ r.status = "pending"
      /\ u \in registered' /\ registered \subseteq registered' /\ registered' \subseteq User
      /\ today' = today /\ work' = work
  BY <1>1, TypeParts DEF RedeemInvitation, SignUpInvited, Reviewable, Row
<1>3. employments' = [employments EXCEPT ![e] = n]
  <2>1. CASE RedeemInvitation(u, e)
    BY <2>1, NullAssumption DEF RedeemInvitation, Commit
  <2>2. CASE ~RedeemInvitation(u, e)
    BY <2>2 DEF SignUpInvited, Commit
  <2> QED
    BY <2>1, <2>2
<1> HIDE DEF mail
<1>4. n \in Row
  <2>1. Approved(r, u) \in Row
    BY <1>1, RowChanges DEF Approved, Status
  <2> QED
    BY <1>1, <2>1, RowChanges
<1>5. HasSomebody(n, registered')
  BY <1>1, <1>2, NullAssumption DEF Row, Approved, HasSomebody
<1>6. ASSUME employments'[e] = n PROVE RowMoves(e)
  BY <1>1, <1>2, <1>4, <1>6, NoRowAssumption DEF Row, RowMoves, Approved
<1> HIDE DEF n
<1> QED
  BY <1>2, <1>3, <1>4, <1>5, <1>6, OneRowMoves

LEMMA SignUpMoves ==
  ASSUME TypeOK, NEW u \in User, SignUp(u)
  PROVE  TypeOK' /\ RowsMove
<1>1. /\ employments' = Bound(employments, u) /\ registered' = registered \cup {u}
      /\ UNCHANGED <<today, work>>
  BY DEF SignUp, Commit
<1>2. \A e \in Rows(employments) :
        /\ e \in Employment /\ employments'[e] \in Row /\ employments'[e] # Null
        /\ RowMoves(e) /\ HasSomebody(employments'[e], registered')
  <2> TAKE e \in Rows(employments)
  <2> DEFINE r == employments[e]
  <2>1. e \in Employment /\ r \in Row /\ HasSomebody(r, registered)
    BY RowShape
  <2>2. CASE r.user = Null /\ r.email = u
    <3>1. employments'[e] = [r EXCEPT !.user = u]
      BY <1>1, <2>1, <2>2 DEF Bound
    <3>2. [r EXCEPT !.user = u] \in Row
      BY <2>1, RowChanges
    <3> QED
      BY <1>1, <2>1, <2>2, <3>1, <3>2, NoRowAssumption, NullAssumption
      DEF Row, RowMoves, HasSomebody
  <2>3. CASE ~(r.user = Null /\ r.email = u)
    <3>1. employments'[e] = r
      BY <1>1, <2>1, <2>3 DEF Bound
    <3> QED
      BY <1>1, <2>1, <3>1, NoRowAssumption DEF RowMoves, HasSomebody
  <2> QED
    BY <2>2, <2>3
<1>3. \A e \in Employment \ Rows(employments) : employments'[e] = Null
  BY <1>1 DEF Bound, Rows
<1>4. employments' \in Table
  BY <1>1, <1>2, <1>3 DEF Table, Bound
<1>5. Rows(employments)' \subseteq Rows(employments)
  BY <1>3 DEF Rows
<1> QED
  BY <1>1, <1>2, <1>4, <1>5, TypeParts DEF TypeOK, Table, HasSomebody, RowsMove

LEMMA TerminateMoves ==
  ASSUME TypeOK, NEW a \in User,
         NEW S \in SUBSET {e \in Rows(employments) :
                            Acknowledged(employments[e])
                            /\ employments[e].end = Null},
         NEW ends \in [S -> Day], Terminate(a, ends)
  PROVE  TypeOK' /\ RowsMove
<1>1. /\ employments' = [e \in Employment |->
                           IF e \in S
                             THEN [employments[e] EXCEPT !.end = ends[e]]
                             ELSE employments[e]]
      /\ UNCHANGED <<today, registered, work>>
      /\ \A e \in S : CanTerminate(a, e, ends[e])
  BY DEF Terminate, Commit
<1>2. \A e \in Rows(employments) :
        /\ e \in Employment /\ employments'[e] \in Row /\ employments'[e] # Null
        /\ RowMoves(e) /\ HasSomebody(employments'[e], registered')
  <2> TAKE e \in Rows(employments)
  <2> DEFINE r == employments[e]
  <2>1. e \in Employment /\ r \in Row /\ HasSomebody(r, registered)
    BY RowShape
  <2>2. CASE e \in S
    <3> DEFINE d == ends[e]
    <3>1. d \in Day /\ employments'[e] = [r EXCEPT !.end = d]
      BY <1>1, <2>1, <2>2
    <3>2. r.end = Null /\ ~WorksAfter(r.user, r.company, d)
      BY <1>1, <2>2 DEF CanTerminate
    <3>3. [r EXCEPT !.end = d] \in Row
      BY <2>1, <3>1, RowChanges
    <3> HIDE DEF d
    <3>4. /\ employments'[e].end = d
          /\ employments'[e].user = r.user /\ employments'[e].email = r.email
          /\ employments'[e].company = r.company /\ employments'[e].start = r.start
          /\ employments'[e].status = r.status
      BY <2>1, <3>1 DEF Row
    <3> QED
      BY <1>1, <2>1, <3>1, <3>2, <3>3, <3>4, NoRowAssumption
      DEF RowMoves, HasSomebody
  <2>3. CASE e \notin S
    <3>1. employments'[e] = r /\ registered' = registered
      BY <1>1, <2>1, <2>3
    <3>2. RowMoves(e)
      BY <2>1, <3>1, NoRowAssumption DEF RowMoves
    <3> QED
      BY <2>1, <3>1, <3>2, NoRowAssumption
  <2> QED
    BY <2>2, <2>3
<1>3. \A e \in Employment \ Rows(employments) : employments'[e] = Null
  <2> TAKE e \in Employment \ Rows(employments)
  <2>1. e \notin S
    OBVIOUS
  <2> QED
    BY <1>1, <2>1 DEF Rows
<1>4. employments' \in Table
  BY <1>1, <1>2, <1>3 DEF Table
<1>5. Rows(employments)' \subseteq Rows(employments)
  BY <1>3 DEF Rows
<1> QED
  BY <1>1, <1>2, <1>4, <1>5, TypeParts DEF TypeOK, Table, HasSomebody, RowsMove

LEMMA AdminMoves ==
  ASSUME TypeOK, NEW a \in User, NEW e \in Rows(employments),
         \/ CancelEmployment(a, e)
         \/ \E adm \in BOOLEAN : ChangeEmployeeRole(a, e, adm)
  PROVE  TypeOK' /\ RowsMove
<1> DEFINE r == employments[e]
<1>1. r \in Row /\ e \in Employment /\ HasSomebody(r, registered)
  BY RowShape
<1>2. CASE CancelEmployment(a, e)
  <2> DEFINE n == [r EXCEPT !.dismissed = TRUE]
  <2>1. n \in Row
    BY <1>1, RowChanges
  <2>2. HasSomebody(n, registered)
    BY <1>1 DEF Row, HasSomebody
  <2>3. /\ employments' = [employments EXCEPT ![e] = n]
        /\ UNCHANGED <<today, registered, work>>
    BY <1>2 DEF CancelEmployment, Commit
  <2>4. ASSUME employments'[e] = n PROVE RowMoves(e)
    BY <1>1, <2>1, <2>4, NoRowAssumption DEF Row, RowMoves
  <2> HIDE DEF n
  <2> QED
    BY <2>1, <2>2, <2>3, <2>4, OneRowMoves, TypeParts
<1>3. ASSUME NEW adm \in BOOLEAN, ChangeEmployeeRole(a, e, adm)
      PROVE  TypeOK' /\ RowsMove
  <2> DEFINE n == [r EXCEPT !.admin = adm]
  <2>1. n \in Row
    BY <1>1, RowChanges
  <2>2. HasSomebody(n, registered)
    BY <1>1 DEF Row, HasSomebody
  <2>3. /\ employments' = [employments EXCEPT ![e] = n]
        /\ UNCHANGED <<today, registered, work>>
    BY <1>3 DEF ChangeEmployeeRole, Commit
  <2>4. ASSUME employments'[e] = n PROVE RowMoves(e)
    BY <1>1, <2>1, <2>4, NoRowAssumption DEF Row, RowMoves
  <2> HIDE DEF n
  <2> QED
    BY <2>1, <2>2, <2>3, <2>4, OneRowMoves, TypeParts
<1> QED
  BY <1>2, <1>3

LEMMA ReattachMoves ==
  ASSUME TypeOK, NEW a \in User, NEW u \in Worker, NEW c \in Company,
         ReattachEmployment(a, u, c)
  PROVE  TypeOK' /\ RowsMove
<1>1. /\ u \in registered /\ u \in User /\ UNCHANGED <<today, registered, work>>
  BY PeopleAssumption DEF ReattachEmployment
<1>2. CASE Reactivate(u, c)
  <2>1. PICK e \in Cancelled(u, c) :
          employments' = [employments EXCEPT ![e].dismissed = FALSE,
                                             ![e].status = "approved"]
    BY <1>2 DEF Reactivate, Commit
  <2> DEFINE r == employments[e]
             n == [[r EXCEPT !.dismissed = FALSE] EXCEPT !.status = "approved"]
  <2>2. e \in Rows(employments) /\ r.user = u /\ r.dismissed
    BY DEF Cancelled, RowsOf
  <2>3. r \in Row /\ e \in Employment /\ employments \in Table
    BY <2>2, RowShape, TypeParts
  <2>4. n \in Row
    <3>1. [r EXCEPT !.dismissed = FALSE] \in Row
      BY <2>3, RowChanges
    <3> QED
      BY <3>1, RowChanges DEF Status
  <2>5. employments' = [employments EXCEPT ![e] = n]
    BY <2>1, <2>3 DEF Table
  <2>6. HasSomebody(n, registered)
    BY <1>1, <2>2, <2>3, NullAssumption DEF Row, HasSomebody
  <2>7. ASSUME employments'[e] = n PROVE RowMoves(e)
    BY <2>2, <2>3, <2>4, <2>7, NoRowAssumption DEF Row, RowMoves
  <2> HIDE DEF n
  <2> QED
    BY <1>1, <2>2, <2>4, <2>5, <2>6, <2>7, OneRowMoves, TypeParts
<1>3. CASE CancelTermination(u, c)
  <2>1. PICK e \in LatestEnded(u, c) :
          /\ employments[e].end = today
          /\ employments' = [employments EXCEPT ![e].end = Null]
    BY <1>3 DEF CancelTermination, Commit
  <2> DEFINE r == employments[e]
             n == [r EXCEPT !.end = Null]
  <2>2. e \in Rows(employments)
    BY DEF LatestEnded, Ended, RowsOf
  <2>3. r \in Row /\ e \in Employment /\ HasSomebody(r, registered)
    BY <2>2, RowShape
  <2>4. n \in Row
    BY <2>3, RowChanges
  <2>5. HasSomebody(n, registered)
    BY <2>3 DEF Row, HasSomebody
  <2>6. ASSUME employments'[e] = n PROVE RowMoves(e)
    BY <2>1, <2>3, <2>4, <2>6, NoRowAssumption DEF Row, RowMoves
  <2>7. employments' = [employments EXCEPT ![e] = n]
    BY <2>1
  <2> HIDE DEF n
  <2> QED
    BY <1>1, <2>2, <2>4, <2>5, <2>6, <2>7, OneRowMoves, TypeParts
<1>4. CASE BeginAgain(u, c)
  <2>1. PICK e \in LatestEnded(u, c), new \in Employment :
          /\ employments[new] = Null
          /\ employments' = Insert(employments, new,
                                   ApprovedRow(u, c, employments[e].admin))
    BY <1>4 DEF BeginAgain, Commit
  <2> DEFINE n == ApprovedRow(u, c, employments[e].admin)
  <2>2. e \in Rows(employments)
    BY DEF LatestEnded, Ended, RowsOf
  <2>3. employments[e].admin \in BOOLEAN
    BY <2>2, RowShape
  <2>4. n \in Row
    BY <1>1, <2>3, NewRows, TypeParts
  <2>5. HasSomebody(n, registered)
    BY <1>1, NullAssumption DEF ApprovedRow, HasSomebody
  <2> HIDE DEF n
  <2> QED
    BY <1>1, <2>1, <2>4, <2>5, InsertMoves DEF n
<1> QED
  BY <1>2, <1>3, <1>4 DEF ReattachEmployment

\* Days pass and work is recorded without a change of a row.
LEMMA OthersMove ==
  ASSUME TypeOK, NextDay \/ WorkStep \/ UNCHANGED vars
  PROVE  TypeOK' /\ RowsMove
<1>1. employments' = employments /\ registered' = registered
  BY DEF NextDay, WorkStep, RecordWork, RemoveWork, vars
<1>2. today' \in Day
  <2>1. CASE NextDay
    BY <2>1, DayAssumption DEF TypeOK, Day, NextDay
  <2>2. CASE WorkStep \/ UNCHANGED vars
    BY <2>2 DEF TypeOK, WorkStep, RecordWork, RemoveWork, vars
  <2> QED
    BY <2>1, <2>2
<1>3. work' \subseteq User \X Company \X Day
  <2>1. CASE NextDay \/ UNCHANGED vars
    BY <2>1 DEF TypeOK, NextDay, vars
  <2>2. ASSUME NEW u \in Worker, NEW c \in Company, NEW d \in Day,
               RecordWork(u, c, d) \/ RemoveWork(u, c, d)
        PROVE  work' \subseteq User \X Company \X Day
    <3>1. <<u, c, d>> \in User \X Company \X Day
      BY PeopleAssumption
    <3>2. work' \subseteq work \cup {<<u, c, d>>}
      BY <2>2 DEF RecordWork, RemoveWork
    <3> QED
      BY <3>1, <3>2 DEF TypeOK
  <2> QED
    BY <2>1, <2>2 DEF WorkStep
<1> QED
  BY <1>1, <1>2, <1>3 DEF TypeOK, RowsMove, RowMoves, Rows

LEMMA NextMoves ==
  ASSUME TypeOK, [Next]_vars
  PROVE  TypeOK' /\ RowsMove
<1>1. CASE InviteStep
  BY <1>1, InviteMoves, BatchMoves DEF InviteStep
<1>2. CASE AnswerStep
  BY <1>2, SignUpMoves, ReviewMoves, LinkMoves DEF AnswerStep
<1>3. CASE AdminStep
  BY <1>3, TerminateMoves, AdminMoves, ReattachMoves DEF AdminStep
<1>4. CASE NextDay \/ WorkStep \/ UNCHANGED vars
  BY <1>4, OthersMove
<1> QED
  BY <1>1, <1>2, <1>3, <1>4 DEF Next

\* What a request leaves of the accounts, the days and the work.
LEMMA NextKeeps ==
  ASSUME TypeOK, [Next]_vars
  PROVE  /\ registered \subseteq registered'
         /\ today' \in Day /\ today <= today'
         /\ \/ work' \subseteq work
            \/ /\ employments' = employments /\ today' = today
               /\ \E u \in Worker, c \in Company, d \in Day : RecordWork(u, c, d)
<1>1. today \in Int /\ today' \in Day
  BY NextMoves, Days DEF TypeOK
<1>2. CASE InviteStep \/ AdminStep
  <2>1. CASE InviteStep
    <3>1. \A a, e, c, p, byId, st, end, adm :
            Invite(a, e, c, p, byId, st, end, adm) => UNCHANGED <<today, registered, work>>
      BY DEF Invite
    <3>2. \A a, c, ids, mails, rows :
            InviteBatch(a, c, ids, mails, rows) => UNCHANGED <<today, registered, work>>
      BY DEF InviteBatch
    <3>3. UNCHANGED <<today, registered, work>>
      BY <2>1, <3>1, <3>2 DEF InviteStep
    <3> QED
      BY <1>1, <3>3
  <2>2. CASE AdminStep
    <3>1. UNCHANGED <<today, registered, work>>
      BY <2>2 DEF AdminStep, Terminate, CancelEmployment, ChangeEmployeeRole,
                  ReattachEmployment
    <3> QED
      BY <1>1, <3>1
  <2> QED
    BY <1>2, <2>1, <2>2
<1>3. CASE AnswerStep
  <2>1. UNCHANGED <<today, work>> /\ registered \subseteq registered'
    BY <1>3 DEF AnswerStep, SignUp, ValidateEmployment, RejectEmployment,
                RedeemInvitation, SignUpInvited
  <2> QED
    BY <1>1, <2>1
<1>4. CASE NextDay
  BY <1>1, <1>4 DEF NextDay
<1>5. ASSUME NEW u \in Worker, NEW c \in Company, NEW d \in Day,
             RecordWork(u, c, d) \/ RemoveWork(u, c, d)
      PROVE  /\ UNCHANGED <<today, registered, employments>>
             /\ work' \subseteq work \/ RecordWork(u, c, d)
  BY <1>5 DEF RecordWork, RemoveWork
<1>6. CASE UNCHANGED vars
  BY <1>1, <1>6 DEF vars
<1> QED
  BY <1>1, <1>2, <1>3, <1>4, <1>5, <1>6 DEF Next, WorkStep

-----------------------------------------------------------------------------
(* The suspensions.  What keeps them to those who refused is the first day *)
(* of the refusal: a delay that is over began then or later, and a job has *)
(* read only such users.                                                   *)

RefusedLongAgo(u) == refusedOn[u] # Null /\ refusedOn[u] + Delay <= today

Refusals ==
  /\ \A w \in work : w[3] <= today
  /\ \A u \in User : refusedOn[u] # Null => refusedOn[u] <= today
  /\ \A u \in User :
       agreements[u] # Null /\ agreements[u].status = "rejected" =>
         refusedOn[u] + Delay <= agreements[u].expires
  /\ job # Null => \A u \in job : RefusedLongAgo(u)

EmploymentInv == TypeOK /\ AgreementTypeOK /\ WorkIsCovered /\ Refusals

LEMMA WorkShape ==
  ASSUME TypeOK, NEW w \in work
  PROVE  w[1] \in User /\ w[2] \in Company /\ w[3] \in Day /\ w[3] \in Int /\ w[1] # Null
BY Days, NullAssumption DEF TypeOK

\* A move of the rows leaves the work covered.
LEMMA WorkStaysCovered ==
  ASSUME TypeOK, WorkIsCovered, RowsMove, TypeOK',
         refusedOn' = refusedOn, NEW w \in work
  PROVE  \E e \in RowsOf(employments, w[1], w[2])' :
           LET r == employments'[e]
           IN /\ r.status = "approved"
              /\ \/ Covers(r, w[3])
                 \/ /\ refusedOn'[w[1]] # Null
                    /\ r.start < w[3] /\ r.end # Null /\ w[3] = r.end + 1
<1>1. w[1] \in User /\ w[2] \in Company /\ w[3] \in Int /\ w[1] # Null
  BY WorkShape
<1>2. PICK e \in RowsOf(employments, w[1], w[2]) :
        /\ employments[e].status = "approved"
        /\ \/ Covers(employments[e], w[3])
           \/ /\ refusedOn[w[1]] # Null
              /\ employments[e].start < w[3] /\ employments[e].end # Null
              /\ w[3] = employments[e].end + 1
  BY DEF WorkIsCovered
<1> DEFINE r == employments[e]
           n == employments'[e]
<1>3. e \in Rows(employments) /\ r.user = w[1] /\ r.company = w[2]
  BY DEF RowsOf
<1>4. e \in Employment /\ r.start \in Int /\ (r.end = Null \/ r.end \in Int)
  BY <1>3, RowShape, Days
<1>5. RowMoves(e)
  BY <1>3 DEF RowsMove
<1>6. /\ n # Null /\ n.user = w[1] /\ n.company = w[2] /\ n.start = r.start
      /\ n.status = "approved"
  BY <1>1, <1>2, <1>3, <1>5 DEF RowMoves
<1>7. e \in RowsOf(employments, w[1], w[2])'
  BY <1>4, <1>6 DEF RowsOf, Rows
<1>8. \/ Covers(n, w[3])
      \/ refusedOn'[w[1]] # Null /\ n.start < w[3] /\ n.end # Null /\ w[3] = n.end + 1
  <2>1. CASE n.end = r.end
    BY <1>2, <1>6, <2>1 DEF Covers
  <2>2. CASE r.end = Null /\ n.end \in Day /\ ~WorksAfter(r.user, r.company, n.end)
    <3>1. ~(w[3] > n.end) /\ n.end \in Int
      BY <1>3, <2>2, Days DEF WorksAfter
    <3> QED
      BY <1>1, <1>2, <1>6, <2>2, <3>1 DEF Covers
  <2>3. CASE n.end = Null
    BY <1>1, <1>2, <1>4, <1>6, <2>3 DEF Covers
  <2> QED
    BY <1>5, <2>1, <2>2, <2>3 DEF RowMoves
<1> QED
  BY <1>6, <1>7, <1>8

LEMMA NextKeepsWork ==
  ASSUME TypeOK, WorkIsCovered, [Next]_vars, refusedOn' = refusedOn
  PROVE  WorkIsCovered'
<1>1. TypeOK' /\ RowsMove
  BY NextMoves
<1>2. \A w \in work \cap work' :
        \E e \in RowsOf(employments, w[1], w[2])' :
          LET r == employments'[e]
          IN /\ r.status = "approved"
             /\ \/ Covers(r, w[3])
                \/ /\ refusedOn'[w[1]] # Null
                   /\ r.start < w[3] /\ r.end # Null /\ w[3] = r.end + 1
  BY <1>1, WorkStaysCovered
<1>3. CASE work' \subseteq work
  BY <1>2, <1>3 DEF WorkIsCovered
<1>4. ASSUME employments' = employments,
             NEW u \in Worker, NEW c \in Company, NEW d \in Day, RecordWork(u, c, d)
      PROVE  WorkIsCovered'
  <2>1. work' = work \cup {<<u, c, d>>}
    BY <1>4 DEF RecordWork
  <2>2. PICK e \in RowsOf(employments, u, c) :
          Acknowledged(employments[e]) /\ Covers(employments[e], d)
    BY <1>4 DEF RecordWork, MayRecord, ActiveAt
  <2>3. e \in RowsOf(employments, u, c)' /\ employments'[e].status = "approved"
        /\ Covers(employments'[e], d)
    BY <1>4, <2>2 DEF RowsOf, Rows, Acknowledged
  <2> QED
    BY <1>2, <2>1, <2>3 DEF WorkIsCovered
<1> QED
  BY <1>3, <1>4, NextKeeps

LEMMA NextKeepsInv ==
  ASSUME EmploymentInv, [Next]_vars, UNCHANGED avars
  PROVE  EmploymentInv'
<1> USE DEF EmploymentInv
<1>1. TypeOK' /\ WorkIsCovered'
  BY NextMoves, NextKeepsWork DEF avars
<1>2. /\ agreements' = agreements /\ job' = job /\ refusedOn' = refusedOn
      /\ registered \subseteq registered'
  BY NextKeeps DEF avars
<1>3. AgreementTypeOK'
  BY <1>2 DEF AgreementTypeOK
<1>4. today \in Int /\ today' \in Int /\ today <= today' /\ Delay \in Int
  <2>1. today \in Day /\ today' \in Day /\ today <= today'
    BY NextKeeps, TypeParts
  <2> QED
    BY <2>1, Days, DelayAssumption
<1>5. \A w \in work' : w[3] <= today'
  <2>1. \A w \in work : w[3] \in Int /\ w[3] <= today
    BY WorkShape DEF Refusals
  <2>2. CASE work' \subseteq work
    BY <1>4, <2>1, <2>2
  <2>3. ASSUME NEW u \in Worker, NEW c \in Company, NEW d \in Day, RecordWork(u, c, d)
        PROVE  \A w \in work' : w[3] <= today'
    <3>1. d \in Int /\ d <= today /\ work' = work \cup {<<u, c, d>>}
      BY <2>3, Days DEF RecordWork, MayRecord
    <3> QED
      BY <1>4, <2>1, <3>1
  <2> QED
    BY <2>2, <2>3, NextKeeps
<1>6. \A u \in User : refusedOn[u] # Null => refusedOn[u] \in Int
  BY Days DEF AgreementTypeOK
<1>7. job # Null => \A u \in job : u \in User
  BY DEF AgreementTypeOK
<1>8. Refusals'
  BY <1>2, <1>4, <1>5, <1>6, <1>7 DEF Refusals, RefusedLongAgo
<1> QED
  BY <1>1, <1>3, <1>8

LEMMA ActiveShape ==
  ASSUME TypeOK, NEW u \in User, NEW e \in ActiveToday(u)
  PROVE  /\ e \in Rows(employments) /\ employments[e].user = u
         /\ Acknowledged(employments[e]) /\ Covers(employments[e], today)
         /\ employments[e].end = Null \/ today <= employments[e].end
BY DEF ActiveToday, ActiveAt, RowsOf, Covers

\* The rows that a suspension ends, and the others.
LEMMA SuspendedRows ==
  ASSUME TypeOK, NEW u \in User, Blacklist(u)
  PROVE  /\ employments' \in Table
         /\ Rows(employments)' = Rows(employments)
         /\ \A e \in Employment \ ActiveToday(u) : employments'[e] = employments[e]
         /\ \A e \in ActiveToday(u) :
              LET r == employments[e]  n == employments'[e]
              IN /\ r.start <= today - 1 /\ n.end = today - 1 /\ n.start = r.start
                 /\ n.user = r.user /\ n.company = r.company /\ n.email = r.email
                 /\ n.status = r.status /\ n.dismissed = r.dismissed
<1> DEFINE T == EndsYesterday(u)
<1>1. employments' = T /\ NoSimultaneous(T)
  BY DEF Blacklist, Commit
<1>2. employments \in Table /\ today \in Day /\ today \in Int
  BY TypeParts, Days
<1>3. T = [e \in Employment |->
             IF e \in ActiveToday(u)
               THEN [employments[e] EXCEPT !.end = today - 1] ELSE employments[e]]
  BY DEF EndsYesterday
<1> HIDE DEF T
<1>4. \A e \in Employment \ ActiveToday(u) : T[e] = employments[e]
  BY <1>3
<1>5. ASSUME NEW e \in ActiveToday(u)
      PROVE  /\ e \in Employment /\ T[e] \in Row /\ T[e] # Null
             /\ LET r == employments[e]  n == T[e]
                IN /\ r.start <= today - 1 /\ n.end = today - 1 /\ n.start = r.start
                   /\ n.user = r.user /\ n.company = r.company /\ n.email = r.email
                   /\ n.status = r.status /\ n.dismissed = r.dismissed
  <2> DEFINE r == employments[e]
  <2>1. e \in Rows(employments) /\ Acknowledged(r)
    BY ActiveShape
  <2>2. e \in Employment /\ r \in Row /\ r.start \in Day /\ r.start \in Int
    BY <2>1, RowShape, Days
  <2>3. T[e] = [r EXCEPT !.end = today - 1]
    BY <1>3, <2>2
  <2>4. /\ T[e].end = today - 1 /\ T[e].start = r.start
        /\ T[e].user = r.user /\ T[e].company = r.company /\ T[e].email = r.email
        /\ T[e].status = r.status /\ T[e].dismissed = r.dismissed
    BY <2>2, <2>3 DEF Row
  <2>5. today - 1 \in Day \/ today - 1 = -1
    BY <1>2, DayAssumption DEF Day
  <2>6. T[e] # Null
    <3>1. CASE today - 1 \in Day
      BY <2>2, <2>3, <3>1, RowChanges, NoRowAssumption
    <3>2. CASE today - 1 = -1
      BY <2>2, <2>3, <3>2, NoEndAssumption
    <3> QED
      BY <2>5, <3>1, <3>2
  <2>7. e \in Rows(T) /\ NotRejected(T[e]) /\ T[e].end # Null
    BY <1>2, <2>1, <2>2, <2>4, <2>6, NullAssumption DEF Rows, NotRejected, Acknowledged
  <2>8. r.start <= today - 1
    BY <1>1, <2>4, <2>7 DEF NoSimultaneous
  <2>9. today - 1 \in Day
    BY <1>2, <2>2, <2>5, <2>8 DEF Day
  <2>10. T[e] \in Row
    BY <2>2, <2>3, <2>9, RowChanges
  <2> QED
    BY <2>2, <2>4, <2>6, <2>8, <2>10
<1>6. T \in Table
  <2>1. \A e \in Employment : T[e] \in Row \cup {Null}
    BY <1>2, <1>4, <1>5 DEF Table
  <2> QED
    BY <1>3, <2>1 DEF Table
<1>7. Rows(T) = Rows(employments)
  <2>1. \A e \in Employment : T[e] # Null <=> employments[e] # Null
    <3> TAKE e \in Employment
    <3>1. CASE e \in ActiveToday(u)
      BY <1>5, <3>1, ActiveShape DEF Rows
    <3>2. CASE e \notin ActiveToday(u)
      BY <1>4, <3>2
    <3> QED
      BY <3>1, <3>2
  <2> QED
    BY <2>1 DEF Rows
<1>8. Rows(employments)' = Rows(T)
  BY <1>1 DEF Rows
<1> QED
  BY <1>1, <1>4, <1>5, <1>6, <1>7, <1>8

LEMMA SuspensionKeepsTypes ==
  ASSUME TypeOK, NEW u \in User, Blacklist(u)
  PROVE  TypeOK'
<1>1. UNCHANGED <<today, registered, work>>
  BY DEF Blacklist
<1>2. \A e \in Rows(employments)' : HasSomebody(employments'[e], registered')
  <2> TAKE e \in Rows(employments)'
  <2>1. e \in Rows(employments) /\ e \in Employment
    BY SuspendedRows DEF Rows
  <2>2. HasSomebody(employments[e], registered)
    BY <2>1, TypeParts
  <2>3. /\ employments'[e].user = employments[e].user
        /\ employments'[e].email = employments[e].email
        /\ employments'[e].status = employments[e].status
    BY <2>1, SuspendedRows
  <2> QED
    BY <1>1, <2>2, <2>3 DEF HasSomebody
<1> QED
  BY <1>1, <1>2, SuspendedRows, TypeParts DEF TypeOK, Table, HasSomebody

LEMMA SuspensionKeepsWork ==
  ASSUME EmploymentInv, NEW u \in User, Blacklist(u), RefusedLongAgo(u)
  PROVE  WorkIsCovered'
<1> USE DEF EmploymentInv
<1>1. UNCHANGED <<today, registered, work, refusedOn>>
  BY DEF Blacklist
<1>2. today \in Int
  BY TypeParts, Days
<1>3. SUFFICES ASSUME NEW w \in work
      PROVE \E e \in RowsOf(employments, w[1], w[2])' :
              LET r == employments'[e]
              IN /\ r.status = "approved"
                 /\ \/ Covers(r, w[3])
                    \/ /\ refusedOn'[w[1]] # Null
                       /\ r.start < w[3] /\ r.end # Null /\ w[3] = r.end + 1
  BY <1>1 DEF WorkIsCovered
<1>4. w[1] \in User /\ w[3] \in Int /\ w[3] <= today
  BY WorkShape DEF Refusals
<1>5. PICK e \in RowsOf(employments, w[1], w[2]) :
        /\ employments[e].status = "approved"
        /\ \/ Covers(employments[e], w[3])
           \/ /\ refusedOn[w[1]] # Null
              /\ employments[e].start < w[3] /\ employments[e].end # Null
              /\ w[3] = employments[e].end + 1
  BY DEF WorkIsCovered
<1> DEFINE r == employments[e]
           n == employments'[e]
<1>6. e \in Rows(employments) /\ r.user = w[1] /\ r.company = w[2] /\ e \in Employment
  BY DEF RowsOf, Rows
<1>7. r.start \in Int /\ (r.end = Null \/ r.end \in Int)
  BY <1>6, RowShape, Days
<1>8. CASE e \in ActiveToday(u)
  <2>1. r.user = u /\ (r.end = Null \/ today <= r.end)
    BY <1>8, ActiveShape
  <2>2. /\ r.start <= today - 1 /\ n.end = today - 1 /\ n.start = r.start
        /\ n.user = r.user /\ n.company = r.company /\ n.status = r.status
    BY <1>8, SuspendedRows
  <2>3. e \in RowsOf(employments, w[1], w[2])'
    BY <1>6, <2>2, SuspendedRows DEF RowsOf
  <2>4. Covers(r, w[3])
    BY <1>2, <1>4, <1>5, <1>7, <2>1
  <2>5. n.end # Null /\ n.end \in Int
    BY <1>2, <2>2, NullAssumption
  <2>6. CASE w[3] = today
    <3>1. refusedOn'[w[1]] # Null
      BY <1>1, <1>6, <2>1 DEF RefusedLongAgo
    <3>2. n.start < w[3] /\ w[3] = n.end + 1
      BY <1>2, <1>7, <2>2, <2>6
    <3> QED
      BY <1>5, <2>2, <2>3, <2>5, <3>1, <3>2
  <2>7. CASE w[3] # today
    <3>1. Covers(n, w[3])
      BY <1>2, <1>4, <1>7, <2>2, <2>4, <2>7 DEF Covers
    <3> QED
      BY <1>5, <2>2, <2>3, <3>1
  <2> QED
    BY <2>6, <2>7
<1>9. CASE e \notin ActiveToday(u)
  <2>1. n = r
    BY <1>6, <1>9, SuspendedRows
  <2>2. e \in RowsOf(employments, w[1], w[2])'
    BY <1>6, <2>1, SuspendedRows DEF RowsOf
  <2> QED
    BY <1>1, <1>5, <2>1, <2>2
<1> QED
  BY <1>8, <1>9

LEMMA SuspensionLeavesNone ==
  ASSUME TypeOK, NEW u \in User, Blacklist(u)
  PROVE  ActiveToday(u)' = {}
<1>1. today' = today /\ today \in Int
  BY TypeParts, Days DEF Blacklist
<1>2. SUFFICES ASSUME NEW c \in Company, NEW e \in ActiveAt(employments, u, c, today)'
               PROVE  FALSE
  BY DEF ActiveToday
<1>3. /\ e \in Rows(employments)' /\ employments'[e].user = u
      /\ employments'[e].company = c
      /\ Acknowledged(employments'[e]) /\ Covers(employments'[e], today)
  BY <1>1 DEF ActiveAt, RowsOf
<1>4. e \in Rows(employments) /\ e \in Employment
  BY <1>3, SuspendedRows DEF Rows
<1>5. CASE e \in ActiveToday(u)
  <2>1. employments'[e].end = today - 1
    BY <1>5, SuspendedRows
  <2> QED
    BY <1>1, <1>3, <2>1, NullAssumption DEF Covers
<1>6. CASE e \notin ActiveToday(u)
  <2>1. employments'[e] = employments[e]
    BY <1>4, <1>6, SuspendedRows
  <2>2. e \in ActiveAt(employments, u, c, today)
    BY <1>3, <1>4, <2>1 DEF ActiveAt, RowsOf
  <2> QED
    BY <1>6, <2>2 DEF ActiveToday
<1> QED
  BY <1>5, <1>6

LEMMA AgreementShape ==
  ASSUME NEW g \in Agreement
  PROVE  /\ g.status \in {"pending", "accepted", "rejected"}
         /\ g.expires = Null \/ g.expires \in Int
         /\ [g EXCEPT !.blacklisted = TRUE] \in Agreement
         /\ [g EXCEPT !.blacklisted = TRUE].status = g.status
         /\ [g EXCEPT !.blacklisted = TRUE].expires = g.expires
BY DEF Agreement

\* An account whose delay is over refused the terms that long ago.
LEMMA ExpiredRefused ==
  ASSUME EmploymentInv, NEW u \in User, agreements[u] # Null, Expired(agreements[u])
  PROVE  RefusedLongAgo(u)
<1> USE DEF EmploymentInv
<1>1. /\ refusedOn[u] # Null /\ refusedOn[u] + Delay <= agreements[u].expires
      /\ agreements[u].expires <= today /\ agreements[u].expires # Null
  BY DEF Refusals, AgreementTypeOK, Expired
<1>2. refusedOn[u] \in Int /\ today \in Int /\ Delay \in Int
  <2>1. refusedOn[u] \in Day /\ today \in Day
    BY <1>1, TypeParts DEF AgreementTypeOK
  <2>2. Delay \in Int
    BY DelayAssumption
  <2> QED
    BY <2>1, <2>2, Days
<1>3. agreements[u].expires \in Int
  BY <1>1, AgreementShape DEF AgreementTypeOK
<1> QED
  BY <1>1, <1>2, <1>3 DEF RefusedLongAgo

\* A suspension of somebody who refused keeps the invariant, whatever the job
\* is then left with of the users it had read.
LEMMA SuspensionKeepsInv ==
  ASSUME EmploymentInv, NEW u \in User, Blacklist(u), RefusedLongAgo(u),
         \/ job' = job
         \/ job # Null /\ u \in job /\ job' = JobWithout(u)
  PROVE  EmploymentInv'
<1> USE DEF EmploymentInv
<1>1. TypeOK' /\ WorkIsCovered'
  BY SuspensionKeepsTypes, SuspensionKeepsWork
<1>2. /\ UNCHANGED <<today, registered, work, refusedOn>>
      /\ agreements[u] # Null
      /\ agreements' = [agreements EXCEPT ![u].blacklisted = TRUE]
  BY DEF Blacklist
<1> DEFINE g == [agreements[u] EXCEPT !.blacklisted = TRUE]
<1>3. /\ agreements \in [User -> Agreement \cup {Null}] /\ agreements[u] \in Agreement
  BY <1>2 DEF AgreementTypeOK
<1>4. /\ g \in Agreement /\ g.status = agreements[u].status
      /\ g.expires = agreements[u].expires
  BY <1>3, AgreementShape
<1>5. agreements' = [agreements EXCEPT ![u] = g]
  BY <1>2
<1> HIDE DEF g
<1>6. job' \in ((SUBSET User) \ {{}}) \cup {Null}
  BY DEF AgreementTypeOK, JobWithout
<1>7. job' # Null => job # Null /\ job' \subseteq job
  BY DEF JobWithout
<1>8. AgreementTypeOK'
  BY <1>2, <1>3, <1>4, <1>5, <1>6 DEF AgreementTypeOK
<1>9. Refusals'
  BY <1>2, <1>3, <1>4, <1>5, <1>7 DEF Refusals, RefusedLongAgo
<1> QED
  BY <1>1, <1>8, <1>9

LEMMA AnswerKeepsInv ==
  ASSUME EmploymentInv, NEW u \in User,
         CreateAgreement(u) \/ AcceptCgu(u) \/ RejectCgu(u)
  PROVE  EmploymentInv'
<1> USE DEF EmploymentInv
<1>1. UNCHANGED vars /\ job' = job
  BY DEF CreateAgreement, AcceptCgu, RejectCgu
<1>2. /\ today \in Day /\ today \in Int /\ Delay \in Int /\ today + Delay \in Int
      /\ today # Null /\ today + Delay # Null /\ 0 <= Delay
  <2>1. today \in Day
    BY TypeParts
  <2>2. today \in Int /\ Delay \in Int /\ today + Delay \in Int /\ 0 <= Delay
    BY <2>1, Days, DelayAssumption
  <2> QED
    BY <2>1, <2>2, NullAssumption
<1>3. TypeOK' /\ UNCHANGED <<today, registered, work>>
  BY <1>1, NextMoves DEF vars
<1>4. /\ agreements \in [User -> Agreement \cup {Null}]
      /\ refusedOn \in [User -> Day \cup {Null}]
  BY DEF AgreementTypeOK
<1>5. PICK g \in Agreement :
        /\ agreements' = [agreements EXCEPT ![u] = g]
        /\ u \in registered
        /\ g.status = "rejected" => g.expires = today + Delay
        /\ \/ g.status # "rejected" /\ refusedOn' = refusedOn
           \/ g.status = "rejected"
              /\ refusedOn' = [refusedOn EXCEPT ![u] = IF @ = Null THEN today ELSE @]
  <2>1. CASE CreateAgreement(u)
    <3>1. PICK st \in {"pending", "accepted"} :
            agreements' = [agreements EXCEPT ![u] =
                             [status |-> st, expires |-> Null, blacklisted |-> FALSE]]
      BY <2>1 DEF CreateAgreement
    <3>2. [status |-> st, expires |-> Null, blacklisted |-> FALSE] \in Agreement
      BY DEF Agreement
    <3>3. u \in registered /\ refusedOn' = refusedOn
      BY <2>1 DEF CreateAgreement
    <3> QED
      BY <3>1, <3>2, <3>3
  <2>2. CASE AcceptCgu(u)
    <3>1. [status |-> "accepted", expires |-> Null, blacklisted |-> FALSE] \in Agreement
      BY DEF Agreement
    <3>2. u \in registered
      BY <2>2 DEF AcceptCgu, AgreementTypeOK
    <3> QED
      BY <2>2, <3>1, <3>2 DEF AcceptCgu
  <2>3. CASE RejectCgu(u)
    <3>1. [status |-> "rejected", expires |-> today + Delay, blacklisted |-> FALSE]
            \in Agreement
      BY <1>2 DEF Agreement
    <3>2. u \in registered
      BY <2>3 DEF RejectCgu, AgreementTypeOK
    <3> QED
      BY <2>3, <3>1, <3>2 DEF RejectCgu
  <2> QED
    BY <2>1, <2>2, <2>3
<1>6. /\ \A v \in User \ {u} : agreements'[v] = agreements[v]
      /\ agreements'[u] = g /\ agreements' \in [User -> Agreement \cup {Null}]
  BY <1>4, <1>5
<1>7. /\ refusedOn' \in [User -> Day \cup {Null}]
      /\ \A v \in User : refusedOn[v] # Null => refusedOn'[v] = refusedOn[v]
      /\ \A v \in User : refusedOn'[v] = refusedOn[v] \/ (v = u /\ refusedOn'[v] = today)
      /\ g.status = "rejected" => refusedOn'[u] # Null
  <2>1. CASE g.status # "rejected"
    <3>1. refusedOn' = refusedOn
      BY <1>5, <2>1
    <3> QED
      BY <1>4, <2>1, <3>1
  <2>2. CASE g.status = "rejected"
    <3>1. refusedOn' = [refusedOn EXCEPT ![u] = IF refusedOn[u] = Null THEN today
                                                ELSE refusedOn[u]]
      BY <1>5, <2>2
    <3> DEFINE d == IF refusedOn[u] = Null THEN today ELSE refusedOn[u]
    <3>2. d \in Day /\ d # Null /\ refusedOn' = [refusedOn EXCEPT ![u] = d]
      BY <1>2, <1>4, <3>1, Days
    <3>3. refusedOn[u] # Null => d = refusedOn[u]
      OBVIOUS
    <3>4. d = refusedOn[u] \/ d = today
      OBVIOUS
    <3> HIDE DEF d
    <3>5. refusedOn' \in [User -> Day \cup {Null}] /\ refusedOn'[u] = d
      BY <1>4, <3>2
    <3>6. \A v \in User \ {u} : refusedOn'[v] = refusedOn[v]
      BY <1>4, <3>2
    <3> QED
      BY <3>2, <3>3, <3>4, <3>5, <3>6
  <2> QED
    BY <2>1, <2>2
<1>8. AgreementTypeOK'
  BY <1>1, <1>2, <1>3, <1>5, <1>6, <1>7 DEF AgreementTypeOK
<1>9. Refusals'
  <2>1. \A v \in User : refusedOn'[v] # Null => refusedOn'[v] <= today
    BY <1>2, <1>7 DEF Refusals
  <2>2. \A v \in User :
          agreements'[v] # Null /\ agreements'[v].status = "rejected" =>
            refusedOn'[v] + Delay <= agreements'[v].expires
    <3> SUFFICES ASSUME NEW v \in User,
                        agreements'[v] # Null, agreements'[v].status = "rejected"
                 PROVE  refusedOn'[v] + Delay <= agreements'[v].expires
      OBVIOUS
    <3>1. CASE v = u
      <4>1. refusedOn'[u] # Null /\ agreements'[u].expires = today + Delay
        BY <1>5, <1>6, <1>7, <3>1
      <4>2. refusedOn'[u] \in Int /\ refusedOn'[u] <= today
        BY <1>7, <2>1, <4>1, Days
      <4> QED
        BY <1>2, <3>1, <4>1, <4>2
    <3>2. CASE v # u
      <4>1. refusedOn[v] # Null
        BY <1>6, <3>2 DEF AgreementTypeOK
      <4> QED
        BY <1>6, <1>7, <3>2, <4>1 DEF Refusals
    <3> QED
      BY <3>1, <3>2
  <2>3. job' # Null => \A v \in job' : v \in User /\ RefusedLongAgo(v)'
    <3>1. job # Null => \A v \in job : v \in User
      BY DEF AgreementTypeOK
    <3> QED
      BY <1>1, <1>3, <1>7, <3>1 DEF Refusals, RefusedLongAgo
  <2> QED
    BY <1>3, <2>1, <2>2, <2>3 DEF Refusals
<1>10. WorkIsCovered'
  <2>1. employments' = employments /\ work' = work
    BY <1>1 DEF vars
  <2>2. \A w \in work : w[1] \in User
    BY WorkShape
  <2> QED
    BY <1>7, <2>1, <2>2 DEF WorkIsCovered, RowsOf, Rows
<1> QED
  BY <1>3, <1>8, <1>9, <1>10

LEMMA JobStartKeepsInv ==
  ASSUME EmploymentInv, JobStart \/ \E u \in User : JobFails(u)
  PROVE  EmploymentInv'
<1> USE DEF EmploymentInv
<1>1. UNCHANGED <<vars, agreements, refusedOn>>
  BY DEF JobStart, JobFails
<1>2. TypeOK' /\ WorkIsCovered'
  <2>1. TypeOK'
    BY <1>1, NextMoves
  <2>2. WorkIsCovered'
    BY <1>1, NextKeepsWork
  <2> QED
    BY <2>1, <2>2
<1>3. /\ job' \in ((SUBSET User) \ {{}}) \cup {Null}
      /\ job' # Null => \A u \in job' : u \in User /\ RefusedLongAgo(u)
  <2>1. CASE JobStart
    <3>1. job' = Targets /\ Targets # {} /\ Targets \subseteq User
      BY <2>1 DEF JobStart, Targets
    <3>2. \A u \in Targets : RefusedLongAgo(u)
      BY ExpiredRefused DEF Targets
    <3> QED
      BY <3>1, <3>2
  <2>2. CASE \E u \in User : JobFails(u)
    BY <2>2 DEF JobFails
  <2> QED
    BY <2>1, <2>2
<1>4. /\ today' = today /\ registered' = registered /\ work' = work
      /\ agreements' = agreements /\ refusedOn' = refusedOn
  BY <1>1 DEF vars
<1> QED
  BY <1>2, <1>3, <1>4 DEF AgreementTypeOK, Refusals, RefusedLongAgo

LEMMA ANextKeepsInv == EmploymentInv /\ [ANext]_allVars => EmploymentInv'
<1> SUFFICES ASSUME EmploymentInv, [ANext]_allVars PROVE EmploymentInv'
  OBVIOUS
<1>1. CASE [Next]_vars /\ UNCHANGED avars
  BY <1>1, NextKeepsInv
<1>2. ASSUME NEW u \in User, CreateAgreement(u) \/ AcceptCgu(u) \/ RejectCgu(u)
      PROVE  EmploymentInv'
  BY <1>2, AnswerKeepsInv
<1>3. ASSUME NEW u \in User, Login(u)
      PROVE  EmploymentInv'
  BY <1>3, ExpiredRefused, SuspensionKeepsInv DEF Login
<1>4. ASSUME NEW u \in User, JobSuspends(u)
      PROVE  EmploymentInv'
  <2>1. RefusedLongAgo(u)
    BY <1>4 DEF JobSuspends, EmploymentInv, Refusals
  <2> QED
    BY <1>4, <2>1, SuspensionKeepsInv DEF JobSuspends
<1>5. CASE JobStart \/ \E u \in User : JobFails(u)
  BY <1>5, JobStartKeepsInv
<1> QED
  BY <1>1, <1>2, <1>3, <1>4, <1>5 DEF ANext, AgreementStep, allVars

LEMMA InitTypes ==
  ASSUME Init
  PROVE  TypeOK
<1>1. /\ today = 0 /\ registered = {Founder[c] : c \in Company} /\ work = {}
      /\ registered \subseteq User /\ today \in Day /\ Founder \in [Company -> User]
  BY Days, PeopleAssumption DEF Init
<1>2. PICK first \in [Company -> Employment] :
        employments =
          [e \in Employment |->
             IF \E c \in Company : first[c] = e
               THEN LET c == CHOOSE c \in Company : first[c] = e
                    IN ApprovedRow(Founder[c], c, TRUE)
               ELSE Null]
  BY DEF Init
<1>3. \A e \in Employment :
        \/ employments[e] = Null
        \/ \E c \in Company : employments[e] = ApprovedRow(Founder[c], c, TRUE)
  <2> TAKE e \in Employment
  <2> DEFINE who == CHOOSE c \in Company : first[c] = e
  <2>1. CASE \E c \in Company : first[c] = e
    <3>1. who \in Company
      BY <2>1
    <3>2. employments[e] = ApprovedRow(Founder[who], who, TRUE)
      BY <1>2, <2>1
    <3> QED
      BY <3>1, <3>2
  <2>2. CASE ~\E c \in Company : first[c] = e
    BY <1>2, <2>2
  <2> QED
    BY <2>1, <2>2
<1>4. \A c \in Company :
        LET r == ApprovedRow(Founder[c], c, TRUE)
        IN r \in Row /\ HasSomebody(r, registered)
  <2> TAKE c \in Company
  <2>1. Founder[c] \in User /\ Founder[c] \in registered /\ Founder[c] # Null
    BY <1>1, NullAssumption
  <2>2. ApprovedRow(Founder[c], c, TRUE) \in Row
    BY <1>1, <2>1, NewRows
  <2>3. HasSomebody(ApprovedRow(Founder[c], c, TRUE), registered)
    BY <2>1 DEF ApprovedRow, HasSomebody
  <2> QED
    BY <2>2, <2>3
<1>5. employments \in Table
  BY <1>2, <1>3, <1>4 DEF Table
<1>6. \A e \in Rows(employments) : HasSomebody(employments[e], registered)
  BY <1>3, <1>4 DEF Rows
<1> QED
  BY <1>1, <1>5, <1>6, TypeParts

LEMMA AInitInv == AInit => EmploymentInv
<1> SUFFICES ASSUME AInit PROVE EmploymentInv
  OBVIOUS
<1>1. TypeOK
  BY InitTypes DEF AInit
<1>2. AgreementTypeOK /\ Refusals
  BY DEF AInit, Init, AgreementTypeOK, Refusals
<1> QED
  BY <1>1, <1>2 DEF AInit, Init, EmploymentInv, WorkIsCovered

\* The tables of the employments and of the terms of use are sound at every
\* moment, and every recorded day lies in an approved employment but for the
\* day of a suspension: whatever the admins, the employees, the logins and
\* the daily job do, and in which order.
LEMMA RowsStaySound == ASpec => [](TypeOK /\ AgreementTypeOK /\ WorkIsCovered)
<1>1. EmploymentInv => TypeOK /\ AgreementTypeOK /\ WorkIsCovered
  BY DEF EmploymentInv
<1> QED
  BY <1>1, AInitInv, ANextKeepsInv, PTL DEF ASpec

-----------------------------------------------------------------------------
(* What was settled.                                                       *)

EndsStay ==
  \A e \in Rows(employments) :
    employments[e].end # Null /\ employments[e].end < today =>
      /\ employments'[e].end = employments[e].end
      /\ employments'[e].start = employments[e].start

RefusalsStay ==
  \A e \in Rows(employments) :
    employments[e].status = "rejected" /\ ~employments[e].dismissed =>
      employments'[e].status = "rejected"

LEMMA MovesSettle ==
  ASSUME TypeOK, RowsMove
  PROVE  EndsStay /\ RefusalsStay
<1>1. today \in Int
  BY TypeParts, Days
<1>2. \A e \in Rows(employments) : employments[e].end # Null => employments[e].end \in Int
  BY RowShape, Days
<1> QED
  BY <1>1, <1>2 DEF RowsMove, RowMoves, EndsStay, RefusalsStay

LEMMA SuspensionSettles ==
  ASSUME TypeOK, NEW u \in User, Blacklist(u)
  PROVE  EndsStay /\ RefusalsStay
<1>1. today \in Int
  BY TypeParts, Days
<1>2. \A e \in Rows(employments) :
        e \in Employment /\ (employments[e].end # Null => employments[e].end \in Int)
  BY RowShape, Days
<1>3. \A e \in ActiveToday(u) :
        employments[e].end = Null \/ today <= employments[e].end
  BY ActiveShape
<1> QED
  BY <1>1, <1>2, <1>3, SuspendedRows DEF EndsStay, RefusalsStay

SuspensionIsDue ==
  \A u \in User :
    ~Suspended(u) /\ Suspended(u)' =>
      refusedOn[u] # Null /\ refusedOn[u] + Delay <= today

SuspensionIsWhole ==
  \A u \in User : ~Suspended(u) /\ Suspended(u)' => ActiveToday(u)' = {}

\* Nobody is suspended by the other steps.
LEMMA AnswersDoNotSuspend ==
  ASSUME EmploymentInv, NEW u \in User,
         CreateAgreement(u) \/ AcceptCgu(u) \/ RejectCgu(u), NEW v \in User
  PROVE  Suspended(v)' => Suspended(v)
<1>1. agreements \in [User -> Agreement \cup {Null}]
  BY DEF EmploymentInv, AgreementTypeOK
<1>2. agreements'[u] # Null => ~agreements'[u].blacklisted
  <2>1. CASE CreateAgreement(u)
    BY <1>1, <2>1 DEF CreateAgreement
  <2>2. CASE AcceptCgu(u)
    BY <1>1, <2>2 DEF AcceptCgu
  <2>3. CASE RejectCgu(u)
    BY <1>1, <2>3 DEF RejectCgu
  <2> QED
    BY <2>1, <2>2, <2>3
<1>3. v # u => agreements'[v] = agreements[v]
  BY <1>1 DEF CreateAgreement, AcceptCgu, RejectCgu
<1> QED
  BY <1>2, <1>3 DEF Suspended

LEMMA OneIsSuspended ==
  ASSUME EmploymentInv, NEW u \in User, Blacklist(u), NEW v \in User \ {u}
  PROVE  Suspended(v)' => Suspended(v)
BY DEF EmploymentInv, AgreementTypeOK, Blacklist, Suspended

LEMMA SuspensionIsRight ==
  ASSUME EmploymentInv, NEW u \in User, Blacklist(u), RefusedLongAgo(u)
  PROVE  SuspensionIsDue /\ SuspensionIsWhole
<1>1. ActiveToday(u)' = {}
  BY SuspensionLeavesNone DEF EmploymentInv
<1> QED
  BY <1>1, OneIsSuspended DEF SuspensionIsDue, SuspensionIsWhole, RefusedLongAgo

LEMMA ANextSettles ==
  ASSUME EmploymentInv, [ANext]_allVars
  PROVE  /\ [EndsStay]_vars /\ [RefusalsStay]_vars
         /\ [SuspensionIsDue]_allVars /\ [SuspensionIsWhole]_allVars
<1>1. TypeOK
  BY DEF EmploymentInv
<1>2. CASE [Next]_vars /\ UNCHANGED avars
  <2>1. EndsStay /\ RefusalsStay
    BY <1>1, <1>2, NextMoves, MovesSettle
  <2>2. \A u \in User : Suspended(u)' => Suspended(u)
    BY <1>2 DEF avars, Suspended
  <2> QED
    BY <2>1, <2>2 DEF SuspensionIsDue, SuspensionIsWhole
<1>3. ASSUME NEW u \in User, CreateAgreement(u) \/ AcceptCgu(u) \/ RejectCgu(u)
      PROVE  UNCHANGED vars /\ SuspensionIsDue /\ SuspensionIsWhole
  <2>1. UNCHANGED vars
    BY <1>3 DEF CreateAgreement, AcceptCgu, RejectCgu
  <2> QED
    BY <1>3, <2>1, AnswersDoNotSuspend DEF SuspensionIsDue, SuspensionIsWhole
<1>4. ASSUME NEW u \in User, Login(u) \/ JobSuspends(u)
      PROVE  EndsStay /\ RefusalsStay /\ SuspensionIsDue /\ SuspensionIsWhole
  <2>1. Blacklist(u)
    BY <1>4 DEF Login, JobSuspends
  <2>2. RefusedLongAgo(u)
    BY <1>4, ExpiredRefused DEF Login, JobSuspends, EmploymentInv, Refusals
  <2> QED
    BY <1>1, <2>1, <2>2, SuspensionSettles, SuspensionIsRight
<1>5. CASE JobStart \/ \E u \in User : JobFails(u)
  <2>1. UNCHANGED vars /\ agreements' = agreements
    BY <1>5 DEF JobStart, JobFails
  <2> QED
    BY <2>1 DEF SuspensionIsDue, SuspensionIsWhole, Suspended
<1> QED
  BY <1>2, <1>3, <1>4, <1>5 DEF ANext, AgreementStep, allVars

\* The employments are sound at every moment (EmploymentsAreSound), past ends
\* and refusals are not taken back, and only a refusal of the terms that has
\* run its delay suspends an account, with an end of every employment, for
\* every delay and number of days.
THEOREM EmploymentsStaySound == ASpec => EmploymentsAreSound
<1>1. EmploymentInv /\ [ANext]_allVars =>
        /\ [EndsStay]_vars /\ [RefusalsStay]_vars
        /\ [SuspensionIsDue]_allVars /\ [SuspensionIsWhole]_allVars
  BY ANextSettles
<1> QED
  BY <1>1, RowsStaySound, AInitInv, ANextKeepsInv, PTL
  DEF ASpec, EmploymentsAreSound, EndedStaysEnded, RefusalStands,
      OnlyRefusersAreSuspended, SuspensionEndsEmployments, EndsStay, RefusalsStay,
      SuspensionIsDue, SuspensionIsWhole

-----------------------------------------------------------------------------
(* Requests that read in one step and commit in another.                   *)

\* What the requests write: an end, a cancellation, an answer, or the return
\* of a cancelled row, whatever became of the row since it was read.
MayChange(r, change) ==
  \/ \E d \in Day \cup {Null} : change = [end |-> d] /\ (d # Null => r.user # Null)
  \/ change = [dismissed |-> TRUE]
  \/ r.user # Null /\ \E st \in {"approved", "rejected"} : change = [status |-> st]
  \/ r.user # Null /\ change = [dismissed |-> FALSE, status |-> "approved"]

LEMMA ChangedRow ==
  ASSUME NEW r \in Row, NEW change, MayChange(r, change)
  PROVE  LET n == WithChange(r, change)
         IN /\ n \in Row /\ n.user = r.user /\ n.email = r.email
            /\ n.company = r.company /\ n.start = r.start
            /\ r.user = Null => n.status = r.status
            /\ n.end = IF "end" \in DOMAIN change THEN change["end"] ELSE r.end
<1> DEFINE Columns == {"user", "email", "company", "status", "start", "end",
                       "dismissed", "admin", "token"}
<1>1. DOMAIN r = Columns
  BY DEF Row
<1>2. ASSUME NEW d \in Day \cup {Null}, change = [end |-> d]
      PROVE  WithChange(r, change) = [r EXCEPT !.end = d]
  BY <1>1, <1>2 DEF Row, WithChange
<1>3. ASSUME NEW b \in BOOLEAN, change = [dismissed |-> b]
      PROVE  WithChange(r, change) = [r EXCEPT !.dismissed = b]
  BY <1>1, <1>3 DEF Row, WithChange
<1>4. ASSUME NEW st \in {"approved", "rejected"}, change = [status |-> st]
      PROVE  WithChange(r, change) = [r EXCEPT !.status = st]
  BY <1>1, <1>4 DEF Row, WithChange
<1>5. ASSUME NEW b \in BOOLEAN, change = [dismissed |-> b, status |-> "approved"]
      PROVE  WithChange(r, change)
               = [[r EXCEPT !.dismissed = b] EXCEPT !.status = "approved"]
  <2> DEFINE n == [[r EXCEPT !.dismissed = b] EXCEPT !.status = "approved"]
             W == WithChange(r, change)
  <2>1. W = [f \in Columns |-> IF f \in DOMAIN change THEN change[f] ELSE r[f]]
    BY <1>1 DEF WithChange
  <2>2. DOMAIN change = {"dismissed", "status"}
    BY <1>5
  <2>3. change["dismissed"] = b /\ change["status"] = "approved"
    BY <1>5
  <2>4. W = [f \in Columns |-> IF f = "dismissed" THEN b
                               ELSE IF f = "status" THEN "approved" ELSE r[f]]
    BY <2>1, <2>2, <2>3
  <2>5. n = [f \in Columns |-> IF f = "dismissed" THEN b
                               ELSE IF f = "status" THEN "approved" ELSE r[f]]
    BY <1>1 DEF Row
  <2> QED
    BY <2>4, <2>5
<1>6. /\ \A d \in Day \cup {Null} :
           LET n == [r EXCEPT !.end = d]
           IN /\ n \in Row /\ n.user = r.user /\ n.email = r.email
              /\ n.status = r.status /\ n.company = r.company /\ n.start = r.start
              /\ n.end = d
      /\ \A b \in BOOLEAN :
           LET n == [r EXCEPT !.dismissed = b]
           IN /\ n \in Row /\ n.user = r.user /\ n.email = r.email
              /\ n.status = r.status /\ n.company = r.company /\ n.start = r.start
              /\ n.end = r.end
      /\ \A st \in {"approved", "rejected"} :
           LET n == [r EXCEPT !.status = st]
           IN /\ n \in Row /\ n.user = r.user /\ n.email = r.email
              /\ n.company = r.company /\ n.start = r.start /\ n.end = r.end
  BY DEF Row, Status
<1>7. LET n == [[r EXCEPT !.dismissed = FALSE] EXCEPT !.status = "approved"]
      IN /\ n \in Row /\ n.user = r.user /\ n.email = r.email
         /\ n.company = r.company /\ n.start = r.start /\ n.end = r.end
  BY DEF Row, Status
<1>8. /\ \A d : "end" \in DOMAIN [end |-> d] /\ [end |-> d]["end"] = d
      /\ \A b : "end" \notin DOMAIN [dismissed |-> b]
      /\ \A st : "end" \notin DOMAIN [status |-> st]
      /\ "end" \notin DOMAIN [dismissed |-> FALSE, status |-> "approved"]
  OBVIOUS
<1>9. CASE \E d \in Day \cup {Null} : change = [end |-> d]
  <2>1. PICK d \in Day \cup {Null} : change = [end |-> d]
    BY <1>9
  <2> DEFINE n == [r EXCEPT !.end = d]
  <2>2. WithChange(r, change) = n
    BY <1>2, <2>1
  <2>3. /\ n \in Row /\ n.user = r.user /\ n.email = r.email
        /\ n.status = r.status /\ n.company = r.company /\ n.start = r.start
        /\ n.end = d
    BY <1>6
  <2>4. "end" \in DOMAIN change /\ change["end"] = d
    BY <2>1
  <2> HIDE DEF n
  <2> QED
    BY <2>2, <2>3, <2>4
<1>10. CASE change = [dismissed |-> TRUE]
  BY <1>3, <1>6, <1>8, <1>10
<1>11. CASE r.user # Null /\ \E st \in {"approved", "rejected"} : change = [status |-> st]
  BY <1>4, <1>6, <1>8, <1>11
<1>12. CASE r.user # Null /\ change = [dismissed |-> FALSE, status |-> "approved"]
  BY <1>5, <1>7, <1>8, <1>12
<1> QED
  BY <1>9, <1>10, <1>11, <1>12 DEF MayChange

LEMMA EndIsOfUser ==
  ASSUME NEW r, NEW change, MayChange(r, change), "end" \in DOMAIN change
  PROVE  /\ change["end"] \in Day \cup {Null}
         /\ change["end"] # Null => r.user # Null
<1>1. /\ \A b : "end" \notin DOMAIN [dismissed |-> b]
      /\ \A st : "end" \notin DOMAIN [status |-> st]
      /\ "end" \notin DOMAIN [dismissed |-> FALSE, status |-> "approved"]
  OBVIOUS
<1>2. PICK d \in Day \cup {Null} : change = [end |-> d] /\ (d # Null => r.user # Null)
  <2>1. CASE change = [dismissed |-> TRUE]
    BY <1>1, <2>1
  <2>2. CASE \E st \in {"approved", "rejected"} : change = [status |-> st]
    BY <1>1, <2>2
  <2>3. CASE change = [dismissed |-> FALSE, status |-> "approved"]
    BY <1>1, <2>3
  <2> QED
    BY <2>1, <2>2, <2>3 DEF MayChange
<1>3. change["end"] = d
  BY <1>2
<1> QED
  BY <1>2, <1>3

Writes(w) ==
  \/ /\ w.op = "update"
     /\ w.row \in Rows(employments)
     /\ MayChange(employments[w.row], w.change)
  \/ /\ w.op = "insert"
     /\ w.new \in Row /\ HasSomebody(w.new, registered)
  \/ /\ w.op = "record"
     /\ w.of \in User \X Company \X Day

Employed(x) ==
  \E e \in RowsOf(employments, x[1], x[2]) : Covers(employments[e], x[3])

\* The work an end has looked at is before it, and a request that records
\* work has found an employment, but for those that ran at the same time.
EndsAfterWork(w) ==
  \A x \in work \ beside : EndsJob(w, x[1], x[2]) => x[3] <= w.change["end"]

RecordsInside(w) == LogsWork(w) /\ ~w.met => Employed(w.of)

Right(w) == Writes(w) /\ EndsAfterWork(w) /\ RecordsInside(w)

WritesAreRight ==
  /\ DOMAIN tx = Process
  /\ \A p \in Process : tx[p] # Null => Right(tx[p])

ConcurrentInv == TypeOK /\ WorkIsEmployed /\ WritesAreRight

\* Rows do not leave the table, lose their user or move their start, so what
\* was read of a row that is still to be written stays true.
RowsStay ==
  /\ registered \subseteq registered'
  /\ \A e \in Rows(employments) :
       /\ employments'[e] # Null
       /\ employments'[e].company = employments[e].company
       /\ employments'[e].start = employments[e].start
       /\ employments[e].user # Null => employments'[e].user = employments[e].user

NoEndComesSooner ==
  \A e \in Rows(employments) :
    employments'[e].end \in {employments[e].end, Null}

LEMMA WritesStay ==
  ASSUME TypeOK, RowsStay, NEW w, Writes(w)
  PROVE  Writes(w)'
<1>1. CASE w.op = "update" /\ w.row \in Rows(employments)
           /\ MayChange(employments[w.row], w.change)
  <2>1. w.row \in Rows(employments)'
    BY <1>1 DEF RowsStay, Rows
  <2>2. MayChange(employments'[w.row], w.change)
    BY <1>1 DEF RowsStay, MayChange
  <2> QED
    BY <1>1, <2>1, <2>2 DEF Writes, MayChange
<1>2. CASE w.op = "insert" /\ w.new \in Row /\ HasSomebody(w.new, registered)
  BY <1>2 DEF Writes, RowsStay, HasSomebody
<1>3. CASE w.op = "record" /\ w.of \in User \X Company \X Day
  BY <1>3 DEF Writes
<1> QED
  BY <1>1, <1>2, <1>3 DEF Writes

\* Who an end concerns does not change while it is served.
LEMMA EndsStayOf ==
  ASSUME RowsStay, NEW w, Writes(w), NEW u \in User, NEW c, EndsJob(w, u, c)'
  PROVE  EndsJob(w, u, c) /\ w.change["end"] \in Day
<1>1. /\ w.op = "update" /\ "end" \in DOMAIN w.change /\ w.change["end"] # Null
      /\ employments'[w.row].user = u /\ employments'[w.row].company = c
  BY DEF EndsJob
<1>2. w.row \in Rows(employments) /\ MayChange(employments[w.row], w.change)
  BY <1>1 DEF Writes
<1>5. /\ w.change["end"] \in Day /\ employments[w.row].user # Null
  BY <1>1, <1>2, EndIsOfUser
<1>6. employments[w.row].user = u /\ employments[w.row].company = c
  BY <1>1, <1>2, <1>5 DEF RowsStay
<1>7. w # Null
  BY DEF EndsJob
<1> QED
  BY <1>1, <1>5, <1>6, <1>7 DEF EndsJob

\* A change of the rows that ends none of them sooner leaves the work, and
\* what was found of it, as it was.
LEMMA EmployedStays ==
  ASSUME TypeOK, RowsStay, NEW x \in User \X Company \X Day,
         NEW e \in RowsOf(employments, x[1], x[2]), Covers(employments[e], x[3]),
         employments'[e].end \in {employments[e].end, Null}
  PROVE  Employed(x)'
<1>1. /\ e \in Rows(employments) /\ employments[e].user = x[1]
      /\ employments[e].company = x[2] /\ x[1] # Null
  BY NullAssumption DEF RowsOf
<1>2. /\ employments'[e] # Null /\ employments'[e].start = employments[e].start
      /\ employments'[e].user = x[1] /\ employments'[e].company = x[2]
  BY <1>1 DEF RowsStay
<1>3. e \in RowsOf(employments, x[1], x[2])'
  BY <1>1, <1>2 DEF RowsOf, Rows
<1>4. Covers(employments'[e], x[3])
  BY <1>2 DEF Covers
<1> QED
  BY <1>3, <1>4 DEF Employed, Covers

LEMMA QuietKeepsWork ==
  ASSUME TypeOK, RowsStay, NoEndComesSooner,
         work' \ beside' \subseteq work \ beside
  PROVE  /\ WorkIsEmployed => WorkIsEmployed'
         /\ \A w : Right(w) => Right(w)'
<1>1. work \subseteq User \X Company \X Day
  BY TypeParts
<1>2. ASSUME NEW x \in User \X Company \X Day, Employed(x) PROVE Employed(x)'
  <2>1. PICK e \in RowsOf(employments, x[1], x[2]) : Covers(employments[e], x[3])
    BY <1>2 DEF Employed
  <2>2. e \in Rows(employments)
    BY DEF RowsOf
  <2> QED
    BY <2>1, <2>2, EmployedStays DEF NoEndComesSooner
<1>3. ASSUME WorkIsEmployed PROVE WorkIsEmployed'
  <2>1. ASSUME NEW x \in (work \ beside)' PROVE Employed(x)'
    BY <1>1, <1>2, <1>3 DEF WorkIsEmployed, Employed
  <2> QED
    BY <2>1 DEF WorkIsEmployed, Employed
<1>4. ASSUME NEW w, Right(w) PROVE Right(w)'
  <2>1. Writes(w) /\ EndsAfterWork(w) /\ RecordsInside(w)
    BY <1>4 DEF Right
  <2>2. ASSUME NEW x \in (work \ beside)', EndsJob(w, x[1], x[2])'
        PROVE  x[3] <= w.change["end"]
    <3>1. x \in work \ beside /\ x[1] \in User
      BY <1>1
    <3>2. EndsJob(w, x[1], x[2])
      BY <2>1, <2>2, <3>1, EndsStayOf
    <3> QED
      BY <2>1, <3>1, <3>2 DEF EndsAfterWork
  <2>3. LogsWork(w) /\ ~w.met => Employed(w.of)'
    BY <1>2, <2>1 DEF RecordsInside, LogsWork, Writes
  <2>4. EndsAfterWork(w)'
    BY <2>2 DEF EndsAfterWork
  <2>5. RecordsInside(w)'
    BY <2>3 DEF RecordsInside, LogsWork
  <2> QED
    BY <2>1, <2>4, <2>5, WritesStay DEF Right
<1> QED
  BY <1>3, <1>4

LEMMA MovesStay ==
  ASSUME TypeOK, RowsMove, registered \subseteq registered'
  PROVE  RowsStay
BY DEF RowsMove, RowMoves, RowsStay

LEMMA SlowKeepsInv ==
  ASSUME ConcurrentInv, SlowStep
  PROVE  ConcurrentInv'
<1>0. TypeOK
  BY DEF ConcurrentInv
<1>1. Next /\ NoEndComesSooner /\ work' \subseteq work
  <2>1. CASE NextDay
    BY <2>1 DEF SlowStep, Next, NextDay, NoEndComesSooner
  <2>2. ASSUME NEW a \in User, NEW c \in Company, NEW e \in Employment,
               NEW u \in Worker, Invite(a, e, c, u, FALSE, today, Null, FALSE)
        PROVE  Next /\ NoEndComesSooner /\ work' \subseteq work
    <3>1. today \in Day
      BY <1>0, TypeParts
    <3>2. InviteStep
      BY <2>2, <3>1 DEF InviteStep
    <3>3. PICK r : employments' = Insert(employments, e, r)
      BY <2>2 DEF Invite, Commit
    <3>4. NoEndComesSooner
      BY <1>0, <2>2, <3>3, TypeParts DEF Invite, NoEndComesSooner, Insert, Rows, Table
    <3> QED
      BY <2>2, <3>2, <3>4 DEF Next, Invite
  <2>3. ASSUME NEW u \in User, SignUp(u)
        PROVE  Next /\ NoEndComesSooner /\ work' \subseteq work
    <3>1. employments' = Bound(employments, u) /\ UNCHANGED work
      BY <2>3 DEF SignUp, Commit
    <3>2. ASSUME NEW e \in Rows(employments)
          PROVE  employments'[e].end = employments[e].end
      <4>1. employments[e] \in Row /\ e \in Employment
        BY <1>0, RowShape
      <4>2. [employments[e] EXCEPT !.user = u].end = employments[e].end
        BY <4>1 DEF Row
      <4> QED
        BY <3>1, <4>1, <4>2 DEF Bound
    <3> QED
      BY <2>3, <3>1, <3>2 DEF Next, AnswerStep, NoEndComesSooner
  <2>4. ASSUME NEW u \in Worker, NEW c \in Company, NEW d \in Day, RemoveWork(u, c, d)
        PROVE  Next /\ NoEndComesSooner /\ work' \subseteq work
    BY <2>4 DEF Next, WorkStep, RemoveWork, NoEndComesSooner
  <2> QED
    BY <2>1, <2>2, <2>3, <2>4 DEF SlowStep
<1>2. TypeOK' /\ RowsMove /\ registered \subseteq registered'
  BY <1>0, <1>1, NextMoves, NextKeeps
<1>3. RowsStay
  BY <1>0, <1>2, MovesStay
<1>4. tx' = tx /\ work' \ beside' \subseteq work \ beside
  BY <1>1 DEF SlowStep
<1>5. WorkIsEmployed' /\ WritesAreRight'
  BY <1>0, <1>1, <1>3, <1>4, QuietKeepsWork DEF ConcurrentInv, WritesAreRight
<1> QED
  BY <1>2, <1>5 DEF ConcurrentInv

LEMMA BeginIsRight ==
  ASSUME ConcurrentInv, BeginStep
  PROVE  \E p \in Process : \E w : Decide(p, w) /\ Right(w)
<1>1. PICK p \in Process, a \in User, u \in Worker, c \in Company :
        \/ BeginReattach(p, a, u, c)
        \/ \E d \in Day : BeginRecord(p, u, c, d)
        \/ \E e \in Rows(employments) :
             \/ \E d \in Day : BeginTerminate(p, a, e, d)
             \/ BeginCancel(p, a, e)
             \/ BeginReview(p, u, e)
  BY DEF BeginStep
<1>2. /\ TypeOK /\ u \in User /\ u # Null /\ today \in Day
      /\ work \subseteq User \X Company \X Day
  BY PeopleAssumption, NullAssumption, TypeParts DEF ConcurrentInv
\* Nothing else ends an employment or records work.
<1>3. ASSUME NEW w, Writes(w), w.op \in {"update", "insert"},
             w.op = "update" /\ "end" \in DOMAIN w.change => w.change["end"] = Null
      PROVE  Right(w)
  BY <1>3 DEF Right, EndsAfterWork, EndsJob, RecordsInside, LogsWork
<1>4. ASSUME NEW e \in Rows(employments), NEW d \in Day, BeginTerminate(p, a, e, d)
      PROVE  \E w : Decide(p, w) /\ Right(w)
  <2> DEFINE r == employments[e]
             w == Update(e, [end |-> d])
  <2>1. /\ Decide(p, w) /\ Acknowledged(r) /\ ~WorksAfter(r.user, r.company, d)
    BY <1>4 DEF BeginTerminate, CanTerminate
  <2>2. r.user # Null
    BY <1>2, <2>1, RowShape DEF HasSomebody, Acknowledged
  <2>3. w.op = "update" /\ w.row = e /\ w.change = [end |-> d] /\ w.change["end"] = d
    BY DEF Update
  <2>4. Writes(w)
    BY <2>2, <2>3 DEF Writes, MayChange
  <2>5. EndsAfterWork(w)
    <3> SUFFICES ASSUME NEW x \in work \ beside, EndsJob(w, x[1], x[2])
                 PROVE  x[3] <= d
      BY <2>3 DEF EndsAfterWork
    <3>1. r.user = x[1] /\ r.company = x[2]
      BY <2>3 DEF EndsJob
    <3>2. ~(x[3] > d)
      BY <2>1, <3>1 DEF WorksAfter
    <3>3. x[3] \in Int /\ d \in Int
      BY <1>2, Days
    <3> QED
      BY <3>2, <3>3
  <2>6. RecordsInside(w)
    BY <2>3 DEF RecordsInside, LogsWork
  <2> QED
    BY <2>1, <2>4, <2>5, <2>6 DEF Right
<1>5. ASSUME NEW e \in Rows(employments), BeginCancel(p, a, e)
      PROVE  \E w : Decide(p, w) /\ Right(w)
  <2> DEFINE w == Update(e, [dismissed |-> TRUE])
  <2>1. /\ w.op = "update" /\ w.row = e /\ w.change = [dismissed |-> TRUE]
        /\ "end" \notin DOMAIN w.change
    BY DEF Update
  <2>2. Writes(w)
    BY <2>1 DEF Writes, MayChange
  <2> QED
    BY <1>3, <1>5, <2>1, <2>2 DEF BeginCancel
<1>6. ASSUME NEW e \in Rows(employments), BeginReview(p, u, e)
      PROVE  \E w : Decide(p, w) /\ Right(w)
  <2>1. PICK st \in {"approved", "rejected"} : Decide(p, Update(e, [status |-> st]))
    BY <1>6 DEF BeginReview
  <2> DEFINE w == Update(e, [status |-> st])
  <2>2. employments[e].user # Null
    BY <1>2, <1>6 DEF BeginReview, Reviewable
  <2>3. /\ w.op = "update" /\ w.row = e /\ w.change = [status |-> st]
        /\ "end" \notin DOMAIN w.change
    BY DEF Update
  <2>4. Writes(w)
    BY <2>2, <2>3 DEF Writes, MayChange
  <2> QED
    BY <1>3, <2>1, <2>3, <2>4
<1>7. ASSUME BeginReattach(p, a, u, c)
      PROVE  \E w : Decide(p, w) /\ Right(w)
  <2>1. \A e \in RowsOf(employments, u, c) :
          e \in Rows(employments) /\ employments[e].user # Null
    BY <1>2 DEF RowsOf
  <2>2. ASSUME NEW e \in Cancelled(u, c),
               Decide(p, Update(e, [dismissed |-> FALSE, status |-> "approved"]))
        PROVE  \E w : Decide(p, w) /\ Right(w)
    <3> DEFINE w == Update(e, [dismissed |-> FALSE, status |-> "approved"])
    <3>1. e \in Rows(employments) /\ employments[e].user # Null
      BY <2>1 DEF Cancelled
    <3>2. /\ w.op = "update" /\ w.row = e
          /\ w.change = [dismissed |-> FALSE, status |-> "approved"]
          /\ "end" \notin DOMAIN w.change
      BY DEF Update
    <3>3. Writes(w)
      BY <3>1, <3>2 DEF Writes, MayChange
    <3> QED
      BY <1>3, <2>2, <3>2, <3>3
  <2>3. ASSUME NEW e \in LatestEnded(u, c), Decide(p, Update(e, [end |-> Null]))
        PROVE  \E w : Decide(p, w) /\ Right(w)
    <3> DEFINE w == Update(e, [end |-> Null])
    <3>1. e \in Rows(employments)
      BY <2>1 DEF LatestEnded, Ended
    <3>2. /\ w.op = "update" /\ w.row = e /\ w.change = [end |-> Null]
          /\ w.change["end"] = Null
      BY DEF Update
    <3>3. Writes(w)
      BY <3>1, <3>2 DEF Writes, MayChange
    <3> QED
      BY <1>3, <2>3, <3>2, <3>3
  <2>4. ASSUME NEW e \in LatestEnded(u, c),
               Decide(p, InsertNew(ApprovedRow(u, c, employments[e].admin)))
        PROVE  \E w : Decide(p, w) /\ Right(w)
    <3> DEFINE n == ApprovedRow(u, c, employments[e].admin)
               w == InsertNew(n)
    <3>1. e \in Rows(employments)
      BY <2>1 DEF LatestEnded, Ended
    <3>2. employments[e].admin \in BOOLEAN
      BY <1>2, <3>1, RowShape
    <3>3. n \in Row
      BY <1>2, <3>2, NewRows
    <3>4. HasSomebody(n, registered)
      BY <1>2, <1>7 DEF BeginReattach, ApprovedRow, HasSomebody
    <3> HIDE DEF n
    <3>5. w.op = "insert" /\ w.new = n
      BY DEF InsertNew
    <3>6. Writes(w)
      BY <3>3, <3>4, <3>5 DEF Writes
    <3> QED
      BY <1>3, <2>4, <3>5, <3>6 DEF n
  <2> QED
    BY <1>7, <2>2, <2>3, <2>4 DEF BeginReattach
<1>8. ASSUME NEW d \in Day, BeginRecord(p, u, c, d)
      PROVE  \E w : Decide(p, w) /\ Right(w)
  <2> DEFINE x == <<u, c, d>>
             w == WorkLog(x)
  <2>1. w.op = "record" /\ w.of = x
    BY DEF WorkLog
  <2>2. Writes(w)
    BY <1>2, <2>1 DEF Writes
  <2>3. PICK e \in ActiveAt(employments, u, c, d) : TRUE
    BY <1>8 DEF BeginRecord, MayRecord
  <2>4. e \in RowsOf(employments, u, c) /\ Covers(employments[e], d)
    BY <2>3 DEF ActiveAt
  <2>5. Employed(x)
    BY <2>4 DEF Employed
  <2>6. Right(w)
    BY <2>1, <2>2, <2>5 DEF Right, EndsAfterWork, EndsJob, RecordsInside
  <2> QED
    BY <1>8, <2>6 DEF BeginRecord
<1> QED
  BY <1>1, <1>4, <1>5, <1>6, <1>7, <1>8

LEMMA BeginKeepsInv ==
  ASSUME ConcurrentInv, BeginStep
  PROVE  ConcurrentInv'
<1>1. PICK p \in Process : \E w : Decide(p, w) /\ Right(w)
  BY BeginIsRight
<1>2. PICK w : Right(w) /\ tx' = [tx EXCEPT ![p] = w] /\ UNCHANGED <<vars, beside>>
  BY <1>1 DEF Decide
<1>3. /\ TypeOK /\ TypeOK' /\ RowsStay /\ NoEndComesSooner
      /\ work' \ beside' \subseteq work \ beside
  BY <1>2, NextMoves DEF ConcurrentInv, vars, RowsStay, NoEndComesSooner, Rows
<1>4. Right(w)' /\ \A q \in Process : tx[q] # Null => \A v : v = tx[q] => Right(v)'
  BY <1>2, <1>3, QuietKeepsWork DEF ConcurrentInv, WritesAreRight
<1>5. WritesAreRight'
  BY <1>2, <1>4 DEF ConcurrentInv, WritesAreRight
<1>6. WorkIsEmployed'
  BY <1>3, QuietKeepsWork DEF ConcurrentInv
<1> QED
  BY <1>3, <1>5, <1>6 DEF ConcurrentInv

\* An update that is committed changes one row, and of its dates the end only.
LEMMA UpdateMoves ==
  ASSUME ConcurrentInv, NEW p \in Process, CommitUpdate(p)
  PROVE  /\ TypeOK' /\ RowsStay
         /\ \A e \in Rows(employments) :
              \/ employments'[e].end \in {employments[e].end, Null}
              \/ /\ EndsJob(tx[p], employments[e].user, employments[e].company)
                 /\ employments[e].user # Null
                 /\ employments'[e].end = tx[p].change["end"]
                 /\ tx[p].change["end"] \in Day
<1> USE DEF ConcurrentInv
<1> DEFINE e == tx[p].row
           r == employments[e]
           n == WithChange(r, tx[p].change)
<1>1. /\ tx[p].op = "update" /\ employments' = [employments EXCEPT ![e] = n]
      /\ UNCHANGED <<today, registered, work>>
      /\ Writes(tx[p]) /\ tx[p] # Null
  BY DEF CommitUpdate, Commit, WritesAreRight, Right
<1>2. e \in Rows(employments) /\ MayChange(r, tx[p].change)
  BY <1>1 DEF Writes
<1>3. e \in Employment /\ r \in Row /\ HasSomebody(r, registered)
  BY <1>2, RowShape
<1>4. n \in Row /\ n.user = r.user /\ n.email = r.email
      /\ n.company = r.company /\ n.start = r.start
      /\ (r.user = Null => n.status = r.status)
      /\ n.end = IF "end" \in DOMAIN tx[p].change THEN tx[p].change["end"] ELSE r.end
  BY <1>2, <1>3, ChangedRow
<1>5. HasSomebody(n, registered) /\ n # Null
  BY <1>3, <1>4, NoRowAssumption DEF HasSomebody
<1>6. "end" \in DOMAIN tx[p].change =>
        /\ tx[p].change["end"] \in Day \cup {Null}
        /\ tx[p].change["end"] # Null => r.user # Null
  BY <1>2, EndIsOfUser
<1> HIDE DEF n
<1>7. employments \in Table /\ employments' \in Table /\ employments'[e] = n
      /\ \A f \in Employment \ {e} : employments'[f] = employments[f]
  BY <1>1, <1>3, <1>4, TypeParts DEF Table
<1>8. \A f \in Rows(employments)' : HasSomebody(employments'[f], registered')
  <2> TAKE f \in Rows(employments)'
  <2>1. f \in Employment /\ employments'[f] # Null
    BY DEF Rows
  <2>2. CASE f = e
    BY <1>1, <1>5, <1>7, <2>2
  <2>3. CASE f # e
    <3>1. f \in Rows(employments) /\ employments'[f] = employments[f]
      BY <1>7, <2>1, <2>3 DEF Rows
    <3> QED
      BY <1>1, <3>1, TypeParts DEF HasSomebody
  <2> QED
    BY <2>2, <2>3
<1>9. TypeOK'
  BY <1>1, <1>7, <1>8, TypeParts DEF TypeOK, Table, HasSomebody
<1>10. RowsStay
  BY <1>1, <1>4, <1>5, <1>7 DEF RowsStay, Rows
<1>11. ASSUME NEW f \in Rows(employments),
              employments'[f].end \notin {employments[f].end, Null}
       PROVE  /\ EndsJob(tx[p], employments[f].user, employments[f].company)
              /\ employments[f].user # Null
              /\ employments'[f].end = tx[p].change["end"]
              /\ tx[p].change["end"] \in Day
  <2>1. f = e
    BY <1>7, <1>11 DEF Rows
  <2>2. /\ "end" \in DOMAIN tx[p].change /\ n.end = tx[p].change["end"]
        /\ tx[p].change["end"] # Null
    BY <1>4, <1>7, <1>11, <2>1
  <2> QED
    BY <1>1, <1>6, <1>7, <2>1, <2>2 DEF EndsJob
<1> QED
  BY <1>9, <1>10, <1>11

LEMMA UpdateKeepsInv ==
  ASSUME ConcurrentInv, NEW p \in Process, CommitUpdate(p)
  PROVE  ConcurrentInv'
<1>1. /\ TypeOK /\ TypeOK' /\ RowsStay /\ work \subseteq User \X Company \X Day
      /\ work' = work /\ beside' = beside
  BY UpdateMoves, TypeParts DEF ConcurrentInv, CommitUpdate
<1>2. DOMAIN tx' = Process /\ tx'[p] = Null
  BY DEF CommitUpdate, Finish
<1>3. ASSUME NEW q \in Process, tx'[q] # Null
      PROVE  /\ q # p /\ tx[q] # Null
             /\ IF LogsWork(tx[q]) /\ EndsJob(tx[p], tx[q].of[1], tx[q].of[2])
                  THEN tx'[q] = [tx[q] EXCEPT !.met = TRUE]
                  ELSE tx'[q] = tx[q]
  BY <1>3 DEF CommitUpdate, Finish, LogsWork
<1>4. ASSUME NEW x \in User \X Company \X Day,
             NEW e \in RowsOf(employments, x[1], x[2]), Covers(employments[e], x[3]),
             ~Employed(x)'
      PROVE  /\ EndsJob(tx[p], x[1], x[2]) /\ ~(x[3] <= tx[p].change["end"])
  <2>1. e \in Rows(employments) /\ employments[e].user = x[1] /\ employments[e].company = x[2]
    BY DEF RowsOf
  <2>2. employments'[e].end \notin {employments[e].end, Null}
    BY <1>1, <1>4, EmployedStays
  <2>3. /\ EndsJob(tx[p], x[1], x[2]) /\ employments'[e].end = tx[p].change["end"]
        /\ employments[e].user # Null
    BY <2>1, <2>2, UpdateMoves
  <2>4. ASSUME x[3] <= tx[p].change["end"] PROVE FALSE
    <3>1. /\ employments'[e] # Null /\ employments'[e].start = employments[e].start
          /\ employments'[e].user = x[1] /\ employments'[e].company = x[2]
      BY <1>1, <2>1, <2>3 DEF RowsStay
    <3>2. e \in RowsOf(employments, x[1], x[2])'
      BY <2>1, <3>1 DEF RowsOf, Rows
    <3>3. Covers(employments[e], x[3])'
      BY <1>4, <2>3, <2>4, <3>1 DEF Covers
    <3> QED
      BY <1>4, <3>2, <3>3 DEF Employed
  <2> QED
    BY <2>3, <2>4
<1>5. WorkIsEmployed'
  <2> SUFFICES ASSUME NEW x \in work \ beside PROVE Employed(x)'
    BY <1>1 DEF WorkIsEmployed, Employed
  <2>1. x \in User \X Company \X Day
    BY <1>1
  <2>2. PICK e \in RowsOf(employments, x[1], x[2]) : Covers(employments[e], x[3])
    BY DEF ConcurrentInv, WorkIsEmployed
  <2>3. EndsJob(tx[p], x[1], x[2]) => x[3] <= tx[p].change["end"]
    BY DEF ConcurrentInv, WritesAreRight, Right, EndsAfterWork, CommitUpdate
  <2> QED
    BY <1>4, <2>1, <2>2, <2>3
<1>6. ASSUME NEW q \in Process, NEW w, w = tx'[q], w # Null
      PROVE  Right(w)'
  <2> DEFINE t == tx[q]
  <2>0. PICK v : v = t
    OBVIOUS
  <2>1. Writes(v) /\ EndsAfterWork(v) /\ RecordsInside(v)
    BY <1>3, <1>6, <2>0 DEF ConcurrentInv, WritesAreRight, Right
  <2>2. Writes(v)'
    BY <1>1, <2>1, WritesStay
  <2> HIDE DEF t
  <2>3. CASE LogsWork(v) /\ EndsJob(tx[p], v.of[1], v.of[2])
    <3>1. w = [v EXCEPT !.met = TRUE]
      BY <1>3, <1>6, <2>0, <2>3 DEF t
    <3>2. w.op = "record" /\ w.of = v.of
      BY <2>3, <3>1 DEF LogsWork
    <3>3. v.of \in User \X Company \X Day
      BY <2>1, <2>3 DEF Writes, LogsWork
    <3>4. ~(LogsWork(w)' /\ ~w.met)
      BY <2>3, <3>1 DEF LogsWork
    <3> QED
      BY <3>2, <3>3, <3>4 DEF Right, Writes, EndsAfterWork, EndsJob, RecordsInside
  <2>4. CASE ~(LogsWork(v) /\ EndsJob(tx[p], v.of[1], v.of[2]))
    <3>1. w = v
      BY <1>3, <1>6, <2>0, <2>4 DEF t
    <3>2. EndsAfterWork(v)'
      <4> SUFFICES ASSUME NEW x \in work \ beside, EndsJob(v, x[1], x[2])'
                   PROVE  x[3] <= v.change["end"]
        BY <1>1 DEF EndsAfterWork
      <4>1. EndsJob(v, x[1], x[2])
        BY <1>1, <2>1, EndsStayOf
      <4> QED
        BY <2>1, <4>1 DEF EndsAfterWork
    <3>3. RecordsInside(v)'
      <4> SUFFICES ASSUME LogsWork(v), ~v.met PROVE Employed(v.of)'
        BY DEF RecordsInside, LogsWork
      <4>1. v.of \in User \X Company \X Day
        BY <2>1 DEF Writes, LogsWork
      <4>2. PICK e \in RowsOf(employments, v.of[1], v.of[2]) :
              Covers(employments[e], v.of[3])
        BY <2>1 DEF RecordsInside, Employed
      <4> QED
        BY <1>4, <2>4, <4>1, <4>2
    <3> QED
      BY <2>2, <3>1, <3>2, <3>3 DEF Right
  <2> QED
    BY <2>3, <2>4
<1>7. WritesAreRight'
  BY <1>2, <1>6 DEF WritesAreRight
<1> QED
  BY <1>1, <1>5, <1>7 DEF ConcurrentInv

LEMMA InsertKeepsInv ==
  ASSUME ConcurrentInv, NEW p \in Process, CommitInsert(p)
  PROVE  ConcurrentInv'
<1> DEFINE n == tx[p].new
<1>0. TypeOK /\ WritesAreRight /\ tx[p] # Null /\ tx[p].op = "insert"
  BY DEF ConcurrentInv, CommitInsert
<1>1. PICK e \in Employment :
        employments[e] = Null /\ employments' = Insert(employments, e, n)
  BY DEF CommitInsert, Commit
<1>2. /\ UNCHANGED <<today, registered, work, beside>> /\ n \in Row
      /\ HasSomebody(n, registered)
  BY <1>0 DEF CommitInsert, WritesAreRight, Right, Writes
<1> HIDE DEF n
<1>3. TypeOK' /\ RowsMove
  BY <1>0, <1>1, <1>2, InsertMoves
<1>4. RowsStay
  BY <1>0, <1>2, <1>3, MovesStay
<1>5. NoEndComesSooner
  BY <1>0, <1>1, TypeParts DEF NoEndComesSooner, Insert, Rows, Table
<1>6. DOMAIN tx' = Process /\ \A q \in Process : tx'[q] # Null => tx'[q] = tx[q]
  BY <1>0 DEF CommitInsert, Finish, EndsJob
<1>7. WorkIsEmployed' /\ WritesAreRight'
  BY <1>0, <1>2, <1>4, <1>5, <1>6, QuietKeepsWork DEF ConcurrentInv, WritesAreRight
<1> QED
  BY <1>3, <1>7 DEF ConcurrentInv

LEMMA RecordKeepsInv ==
  ASSUME ConcurrentInv, NEW p \in Process, CommitRecord(p)
  PROVE  ConcurrentInv'
<1> DEFINE x == tx[p].of
<1>1. /\ LogsWork(tx[p]) /\ work' = work \cup {x} /\ UNCHANGED <<today, registered, employments>>
      /\ tx' = [tx EXCEPT ![p] = Null]
      /\ x \in beside' \/ /\ ~tx[p].met
                          /\ \A q \in Process : ~EndsJob(tx[q], x[1], x[2])
      /\ beside \subseteq beside'
  BY DEF CommitRecord
<1>2. TypeOK /\ Writes(tx[p]) /\ RecordsInside(tx[p]) /\ DOMAIN tx = Process
  BY <1>1 DEF ConcurrentInv, WritesAreRight, Right, LogsWork
<1>3. x \in User \X Company \X Day
  BY <1>1, <1>2 DEF Writes, LogsWork
<1>4. TypeOK'
  BY <1>1, <1>2, <1>3 DEF TypeOK, Rows
<1>5. x \in beside' \/ Employed(x)
  BY <1>1, <1>2 DEF RecordsInside
<1> HIDE DEF x
<1>6. WorkIsEmployed'
  <2> SUFFICES ASSUME NEW y \in work', y \notin beside' PROVE Employed(y)
    BY <1>1 DEF WorkIsEmployed, Employed, RowsOf, Rows, Covers
  <2>1. y = x \/ y \in work \ beside
    BY <1>1
  <2> QED
    BY <1>5, <2>1 DEF ConcurrentInv, WorkIsEmployed, Employed
<1>7. ASSUME NEW q \in Process, NEW w, w = tx'[q], w # Null
      PROVE  Right(w)'
  <2>1. w = tx[q]
    BY <1>1, <1>2, <1>7
  <2>2. Writes(w) /\ EndsAfterWork(w) /\ RecordsInside(w)
    BY <1>7, <2>1 DEF ConcurrentInv, WritesAreRight, Right
  <2>3. Writes(w)' /\ RecordsInside(w)'
    BY <1>1, <2>2 DEF Writes, MayChange, HasSomebody, RecordsInside, LogsWork, Employed,
                      RowsOf, Rows, Covers
  <2>4. EndsAfterWork(w)'
    <3> SUFFICES ASSUME NEW y \in work', y \notin beside', EndsJob(w, y[1], y[2])
                 PROVE  y[3] <= w.change["end"]
      BY <1>1 DEF EndsAfterWork, EndsJob
    <3>1. y \in work \ beside
      BY <1>1, <2>1
    <3> QED
      BY <2>2, <3>1 DEF EndsAfterWork
  <2> QED
    BY <2>2, <2>3, <2>4 DEF Right
<1>8. WritesAreRight'
  BY <1>1, <1>2, <1>7 DEF WritesAreRight
<1> QED
  BY <1>4, <1>6, <1>8 DEF ConcurrentInv

LEMMA CNextKeepsInv == ConcurrentInv /\ [CNext]_cvars => ConcurrentInv'
<1> SUFFICES ASSUME ConcurrentInv, [CNext]_cvars PROVE ConcurrentInv'
  OBVIOUS
<1>1. ASSUME UNCHANGED <<vars, beside>>, DOMAIN tx' = Process,
             \A p \in Process : tx'[p] # Null => tx'[p] = tx[p]
      PROVE  ConcurrentInv'
  <2>0. TypeOK
    BY DEF ConcurrentInv
  <2>1. TypeOK' /\ RowsStay /\ NoEndComesSooner
        /\ work' \ beside' \subseteq work \ beside
    BY <1>1, <2>0, NextMoves DEF vars, RowsStay, NoEndComesSooner, Rows
  <2>2. WorkIsEmployed' /\ WritesAreRight'
    BY <1>1, <2>0, <2>1, QuietKeepsWork DEF ConcurrentInv, WritesAreRight
  <2> QED
    BY <2>1, <2>2 DEF ConcurrentInv
<1>2. ASSUME NEW p \in Process, Rollback(p)
      PROVE  ConcurrentInv'
  <2>1. /\ UNCHANGED <<vars, beside>> /\ tx' = [tx EXCEPT ![p] = Null]
        /\ DOMAIN tx = Process
    BY <1>2 DEF Rollback, ConcurrentInv, WritesAreRight
  <2> QED
    BY <1>1, <2>1
<1>3. CASE UNCHANGED cvars
  <2>1. UNCHANGED <<vars, beside>> /\ tx' = tx /\ DOMAIN tx = Process
    BY <1>3 DEF cvars, ConcurrentInv, WritesAreRight
  <2> QED
    BY <1>1, <2>1
<1> QED
  BY <1>2, <1>3, BeginKeepsInv, SlowKeepsInv, UpdateKeepsInv, InsertKeepsInv,
     RecordKeepsInv DEF CNext, CommitStep

LEMMA CInitInv == CInit => ConcurrentInv
<1> SUFFICES ASSUME CInit PROVE ConcurrentInv
  OBVIOUS
<1>1. TypeOK /\ work = {}
  BY InitTypes DEF CInit, Init
<1>2. WritesAreRight
  BY DEF CInit, WritesAreRight
<1> QED
  BY <1>1, <1>2 DEF ConcurrentInv, WorkIsEmployed

\* Whatever was read before and is written late, the rows stay what their
\* columns allow, and work lies in an employment unless its request and an end
\* ran at the same time (WorkIsEmployed), for every number of worker processes:
\* an end that is still to be written follows the work, and work that is still
\* to be written lies in an employment until an end is committed.
THEOREM WorkStaysEmployed == CSpec => [](TypeOK /\ WorkIsEmployed)
<1>1. ConcurrentInv => TypeOK /\ WorkIsEmployed
  BY DEF ConcurrentInv
<1> QED
  BY <1>1, CInitInv, CNextKeepsInv, PTL DEF CSpec
=============================================================================
