----------------------------- MODULE Employment -----------------------------
(***************************************************************************)
(* Table employment: who works for which company, from when to when, with  *)
(* which rights, and the invitations, refusals, ends, cancellations and    *)
(* reattachments that change it.  The days a user recorded work for a      *)
(* company stand beside it, since a right to write is an employment over   *)
(* the period written and an end is refused when work follows it.          *)
(*                                                                         *)
(* One action is one mutation, served in one transaction; requests run     *)
(* one after the other here and EmploymentConcurrent interleaves them.     *)
(* A request that is refused rolls back and is no step.                    *)
(***************************************************************************)
EXTENDS Integers, FiniteSets

CONSTANTS
  User,        \* the persons; the address of a person is the person
  Worker,      \* bound: those who are invited and record work
  Company,
  Employment,  \* the identifiers of the rows of table employment
  Founder,     \* who signed each company up
  Null,        \* SQL NULL
  LastDay      \* bound: the days are 0..LastDay

ASSUME PeopleAssumption ==
  /\ Worker \subseteq User
  /\ Founder \in [Company -> User]
  /\ \A c, d \in Company : c # d => Founder[c] # Founder[d]

ASSUME DayAssumption == LastDay \in Nat

ASSUME NullAssumption == Null \notin User /\ Null \notin Int

VARIABLES
  today,        \* date.today()
  registered,   \* the persons who have an account
  employments,  \* table employment, by id
  work          \* the (user, company, day) with an activity

vars == <<today, registered, employments, work>>

-----------------------------------------------------------------------------
(* Rows.                                                                   *)

Day == 0..LastDay

Status == {"pending", "approved", "rejected"}

\* token says whether the row has an invite_token.
Row == [user : User \cup {Null}, email : User \cup {Null}, company : Company,
        status : Status, start : Day, end : Day \cup {Null},
        dismissed : BOOLEAN, admin : BOOLEAN, token : BOOLEAN]

ASSUME NoRowAssumption == Null \notin Row

Invitation(u, mail, c, s, e, adm) ==
  [user |-> u, email |-> mail, company |-> c, status |-> "pending",
   start |-> s, end |-> e, dismissed |-> FALSE, admin |-> adm,
   token |-> TRUE]

\* What sign_up_company and a reattachment create: nothing is left to accept.
ApprovedRow(u, c, adm) ==
  [user |-> u, email |-> Null, company |-> c, status |-> "approved",
   start |-> today, end |-> Null, dismissed |-> FALSE, admin |-> adm,
   token |-> FALSE]

-----------------------------------------------------------------------------
(* Queries.  T is a state of the table.                                    *)

Rows(T) == {e \in Employment : T[e] # Null}

RowsOf(T, u, c) == {e \in Rows(T) : T[e].user = u /\ T[e].company = c}

NotRejected(r) == r.status # "rejected" /\ ~r.dismissed

Acknowledged(r) == r.status = "approved" /\ ~r.dismissed

Covers(r, d) == r.start <= d /\ (r.end = Null \/ d <= r.end)

\* active_employments_at, without the pending ones.
ActiveAt(T, u, c, d) ==
  {e \in RowsOf(T, u, c) : Acknowledged(T[e]) /\ Covers(T[e], d)}

CompanyAdmin(a, c) ==
  \E e \in ActiveAt(employments, a, c, today) : employments[e].admin

-----------------------------------------------------------------------------
(* The constraint no_simultaneous_employments_for_the_same_company, which  *)
(* also refuses a range that ends before it starts.                        *)

RangesMeet(r, q) ==
  /\ r.end = Null \/ q.start <= r.end
  /\ q.end = Null \/ r.start <= q.end

NoSimultaneous(T) ==
  \A e \in Rows(T) : NotRejected(T[e]) =>
    /\ T[e].end # Null => T[e].start <= T[e].end
    /\ \A f \in Rows(T) \ {e} :
         /\ NotRejected(T[f])
         /\ T[f].user = T[e].user /\ T[e].user # Null
         /\ T[f].company = T[e].company
         => ~RangesMeet(T[e], T[f])

Commit(T) == NoSimultaneous(T) /\ employments' = T

Insert(T, e, r) == [T EXCEPT ![e] = r]

-----------------------------------------------------------------------------
Init ==
  /\ today = 0
  /\ registered = {Founder[c] : c \in Company}
  /\ \E first \in [Company -> Employment] :
       /\ \A c, d \in Company : c # d => first[c] # first[d]
       /\ employments =
            [e \in Employment |->
               IF \E c \in Company : first[c] = e
                 THEN LET c == CHOOSE c \in Company : first[c] = e
                      IN ApprovedRow(Founder[c], c, TRUE)
                 ELSE Null]
  /\ work = {}

NextDay ==
  /\ today < LastDay
  /\ today' = today + 1
  /\ UNCHANGED <<registered, employments, work>>

(* Invitations. *)

\* The user with this address; the rows of the others stay unbound.
AccountOf(p) == IF p \in registered THEN p ELSE Null

\* CreateEmployment, by the id of a user (byId) or by an address, with dates
\* of the admin's choice.  A person without an account is known by the
\* address only.
Invite(a, e, c, p, byId, s, end, adm) ==
  /\ CompanyAdmin(a, c)
  /\ employments[e] = Null
  /\ byId => p \in registered
  /\ LET u == AccountOf(p)
         mail == IF byId THEN Null ELSE p
     IN Commit(Insert(employments, e, Invitation(u, mail, c, s, end, adm)))
  /\ UNCHANGED <<today, registered, work>>

\* CreateWorkerEmploymentsFromEmails: ids are bound at once, addresses are
\* not, and the rows whose e-mail could not be sent are deleted before the
\* commit.  rows gives each invited person the row that stays.
InviteBatch(a, c, ids, mails, rows) ==
  /\ CompanyAdmin(a, c)
  /\ ids \subseteq registered
  /\ ids \cap mails = {}
  /\ \A p, q \in DOMAIN rows : p # q => rows[p] # rows[q]
  /\ \A p \in DOMAIN rows : employments[rows[p]] = Null
  /\ LET invited(p) == Invitation(IF p \in ids THEN p ELSE Null,
                                  IF p \in ids THEN Null ELSE p,
                                  c, today, Null, FALSE)
     IN Commit([e \in Employment |->
                  IF \E p \in DOMAIN rows : rows[p] = e
                    THEN invited(CHOOSE p \in DOMAIN rows : rows[p] = e)
                    ELSE employments[e]])
  /\ UNCHANGED <<today, registered, work>>

(* Answers. *)

Reviewable(r, u) == r.user = u /\ r.status = "pending" /\ ~r.dismissed

\* Employment.validate_by, once the row is bound to u.
Approved(r, u) == [r EXCEPT !.user = u, !.status = "approved"]

ValidateEmployment(u, e) ==
  /\ Reviewable(employments[e], u)
  /\ Commit([employments EXCEPT ![e] = Approved(@, u)])
  /\ UNCHANGED <<today, registered, work>>

RejectEmployment(u, e) ==
  /\ Reviewable(employments[e], u)
  /\ Commit([employments EXCEPT ![e].status = "rejected"])
  /\ UNCHANGED <<today, registered, work>>

\* RedeemInvitation: the link of the e-mail.  A row that is bound is
\* approved for its user, another one is bound to who follows the link.
RedeemInvitation(u, e) ==
  LET r == employments[e]
  IN /\ r.token
     /\ u \in registered
     /\ r.user \in {u, Null}
     /\ Reviewable([r EXCEPT !.user = u], u)
     /\ Commit([employments EXCEPT
                  ![e] = [Approved(@, u) EXCEPT
                            !.email = IF r.user = Null THEN u ELSE r.email]])
     /\ UNCHANGED <<today, registered, work>>

\* create_user with the link of an invitation: the account and the approval
\* are one transaction.
SignUpInvited(u, e) ==
  LET r == employments[e]
  IN /\ u \notin registered
     /\ r.token /\ r.user = Null
     /\ Reviewable([r EXCEPT !.user = u], u)
     /\ Commit([employments EXCEPT
                  ![e] = [Approved(@, u) EXCEPT !.email = u]])
     /\ registered' = registered \cup {u}
     /\ UNCHANGED <<today, work>>

\* bind_user_to_pending_employments: every unbound row of the address,
\* cancelled or not.
Bound(T, u) ==
  [e \in Employment |->
     IF e \in Rows(T) /\ T[e].user = Null /\ T[e].email = u
       THEN [T[e] EXCEPT !.user = u] ELSE T[e]]

\* create_user without a link.
SignUp(u) ==
  /\ u \notin registered
  /\ registered' = registered \cup {u}
  /\ Commit(Bound(employments, u))
  /\ UNCHANGED <<today, work>>

(* Ends. *)

WorksAfter(u, c, d) == \E w \in work : w[1] = u /\ w[2] = c /\ w[3] > d

\* Seeded fault: the activities that follow the end are not looked at.
CanTerminateBlindly(a, e, d) ==
  LET r == employments[e]
  IN /\ r.user # a
     /\ Acknowledged(r) /\ r.end = Null
     /\ r.start <= d

\* _terminate_single_employment.
CanTerminate(a, e, d) ==
  LET r == employments[e]
  IN /\ r.user # a
     /\ Acknowledged(r) /\ r.end = Null
     /\ r.start <= d
     /\ ~WorksAfter(r.user, r.company, d)

\* TerminateEmployment is a batch of one.  BatchTerminateEmployments reports
\* the rows that cannot be ended and ends the others, so it does what a batch
\* of these others does.
Terminate(a, ends) ==
  /\ DOMAIN ends # {}
  /\ \A e \in DOMAIN ends :
       /\ CompanyAdmin(a, employments[e].company)
       /\ CanTerminate(a, e, ends[e])
  /\ Commit([e \in Employment |->
               IF e \in DOMAIN ends
                 THEN [employments[e] EXCEPT !.end = ends[e]]
                 ELSE employments[e]])
  /\ UNCHANGED <<today, registered, work>>

\* CancelEmployment, of any row: the admin's own one too.
CancelEmployment(a, e) ==
  /\ CompanyAdmin(a, employments[e].company)
  /\ ~employments[e].dismissed
  /\ Commit([employments EXCEPT ![e].dismissed = TRUE])
  /\ UNCHANGED <<today, registered, work>>

ChangeEmployeeRole(a, e, adm) ==
  /\ CompanyAdmin(a, employments[e].company)
  /\ employments[e].user # a
  /\ employments[e].admin # adm
  /\ Commit([employments EXCEPT ![e].admin = adm])
  /\ UNCHANGED <<today, registered, work>>

(* ReattachEmployment, which takes the first of its three ways that fits. *)

Cancelled(u, c) ==
  {e \in RowsOf(employments, u, c) :
     employments[e].dismissed /\ employments[e].end = Null}

\* Neither the status nor the dismissal of the row is looked at.
Ended(u, c) ==
  {e \in RowsOf(employments, u, c) :
     employments[e].end # Null /\ employments[e].end <= today}

HasOpenRow(u, c) ==
  \E e \in RowsOf(employments, u, c) :
    Acknowledged(employments[e]) /\ employments[e].end = Null

\* A cancelled row is given back, whatever it was before.
Reactivate(u, c) ==
  \E e \in Cancelled(u, c) :
    Commit([employments EXCEPT ![e].dismissed = FALSE,
                               ![e].status = "approved"])

LatestEnded(u, c) ==
  {e \in Ended(u, c) :
     \A f \in Ended(u, c) : employments[f].end <= employments[e].end}

\* An end of the same day was a mistake and is taken back.
CancelTermination(u, c) ==
  \E e \in LatestEnded(u, c) :
    /\ employments[e].end = today
    /\ Commit([employments EXCEPT ![e].end = Null])

\* After an older end, a new employment begins, approved.
BeginAgain(u, c) ==
  \E e \in LatestEnded(u, c) :
    /\ employments[e].end < today
    /\ \E new \in Employment :
         /\ employments[new] = Null
         /\ Commit(Insert(employments, new,
                          ApprovedRow(u, c, employments[e].admin)))

ReattachEmployment(a, u, c) ==
  /\ CompanyAdmin(a, c)
  /\ u \in registered
  /\ \/ Reactivate(u, c)
     \/ /\ Cancelled(u, c) = {}
        /\ ~HasOpenRow(u, c)
        /\ CancelTermination(u, c) \/ BeginAgain(u, c)
  /\ UNCHANGED <<today, registered, work>>

(* Work, as check_actor_can_write_on_mission_over_period lets it be        *)
(* written: the user is employed on the day written and on this day.       *)

MayRecord(u, c, d) ==
  /\ d <= today
  /\ ActiveAt(employments, u, c, d) # {}
  /\ ActiveAt(employments, u, c, today) # {}

RecordWork(u, c, d) ==
  /\ MayRecord(u, c, d)
  /\ <<u, c, d>> \notin work
  /\ work' = work \cup {<<u, c, d>>}
  /\ UNCHANGED <<today, registered, employments>>

RemoveWork(u, c, d) ==
  /\ MayRecord(u, c, d)
  /\ <<u, c, d>> \in work
  /\ work' = work \ {<<u, c, d>>}
  /\ UNCHANGED <<today, registered, employments>>

-----------------------------------------------------------------------------
InviteStep ==
  \E a \in User, c \in Company :
    \/ \E e \in Employment, p \in Worker, byId, adm \in BOOLEAN,
          s \in Day, end \in Day \cup {Null} :
         Invite(a, e, c, p, byId, s, end, adm)
    \/ \E ids, mails \in SUBSET Worker :
         \E kept \in SUBSET (ids \cup mails) :
           \E rows \in [kept -> Employment] :
             kept # {} /\ InviteBatch(a, c, ids, mails, rows)

AnswerStep ==
  \E u \in User :
    \/ SignUp(u)
    \/ \E e \in Rows(employments) :
         \/ ValidateEmployment(u, e)
         \/ RejectEmployment(u, e)
         \/ RedeemInvitation(u, e)
         \/ SignUpInvited(u, e)

AdminStep ==
  \E a \in User :
    \/ \E S \in SUBSET {e \in Rows(employments) :
                         Acknowledged(employments[e])
                         /\ employments[e].end = Null} :
         \E ends \in [S -> Day] : Terminate(a, ends)
    \/ \E e \in Rows(employments) :
         \/ CancelEmployment(a, e)
         \/ \E adm \in BOOLEAN : ChangeEmployeeRole(a, e, adm)
    \/ \E u \in Worker, c \in Company :
         ReattachEmployment(a, u, c)

WorkStep ==
  \E u \in Worker, c \in Company, d \in Day :
    RecordWork(u, c, d) \/ RemoveWork(u, c, d)

Next == NextDay \/ InviteStep \/ AnswerStep \/ AdminStep \/ WorkStep

Spec == Init /\ [][Next]_vars

-----------------------------------------------------------------------------
(* Properties.                                                             *)

\* Every variable holds a value of its type; a row is bound to somebody with
\* an account, and one bound to nobody waits for an answer to its address.
TypeOK ==
  /\ today \in Day
  /\ registered \subseteq User
  /\ employments \in [Employment -> Row \cup {Null}]
  /\ work \subseteq User \X Company \X Day
  /\ \A e \in Rows(employments) :
       IF employments[e].user = Null
       THEN employments[e].email # Null /\ employments[e].status = "pending"
       ELSE employments[e].user \in registered

\* An employment that ended on an earlier day has ended for good: a
\* reattachment begins another one and changes no date of the past.
EndedStaysEnded ==
  [][\A e \in Rows(employments) :
       employments[e].end # Null /\ employments[e].end < today =>
         /\ employments'[e].end = employments[e].end
         /\ employments'[e].start = employments[e].start]_vars

\* What a user refused stays refused: another invitation has to be sent.
\* Only a reattachment of a row that was cancelled as well approves it.
RefusalStands ==
  [][\A e \in Rows(employments) :
       employments[e].status = "rejected" /\ ~employments[e].dismissed =>
         employments'[e].status = "rejected"]_vars
=============================================================================
