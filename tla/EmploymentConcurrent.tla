------------------------ MODULE EmploymentConcurrent ------------------------
(***************************************************************************)
(* Employment with several worker processes.  A request reads the tables   *)
(* and decides in one step and commits in another; under READ COMMITTED    *)
(* nothing it read is protected in between.  An UPDATE writes the columns  *)
(* the session changed and the exclusion constraint is checked against     *)
(* what is committed by then.  No constraint relates the work to the       *)
(* employments: a request that records work looks for an employment, one   *)
(* that ends an employment looks for the work that follows, and each may   *)
(* miss what the other has not committed yet.                              *)
(***************************************************************************)
EXTENDS Employment

CONSTANT Process   \* the worker processes

VARIABLES
  tx,             \* what each process is about to write, or Null
  beside          \* history: the work recorded while an end was served

cvars == <<vars, tx, beside>>

-----------------------------------------------------------------------------
(* Writes.  A change is a function from the columns to their new values.   *)

Update(e, change) == [op |-> "update", row |-> e, change |-> change]

InsertNew(r) == [op |-> "insert", new |-> r]

\* met: an end was committed since the request looked for an employment.
WorkLog(w) == [op |-> "record", of |-> w, met |-> FALSE]

EndsJob(t, u, c) ==
  /\ t # Null /\ t.op = "update"
  /\ "end" \in DOMAIN t.change /\ t.change["end"] # Null
  /\ employments[t.row].user = u /\ employments[t.row].company = c

LogsWork(t) == t # Null /\ t.op = "record"

WithChange(r, change) ==
  [f \in DOMAIN r |-> IF f \in DOMAIN change THEN change[f] ELSE r[f]]

-----------------------------------------------------------------------------
CInit == Init /\ tx = [p \in Process |-> Null] /\ beside = {}

\* p has read the tables and will write w.
Decide(p, w) ==
  /\ tx[p] = Null
  /\ tx' = [tx EXCEPT ![p] = w]
  /\ UNCHANGED <<vars, beside>>

BeginTerminate(p, a, e, d) ==
  /\ CompanyAdmin(a, employments[e].company)
  /\ CanTerminate(a, e, d)
  /\ Decide(p, Update(e, [end |-> d]))

BeginCancel(p, a, e) ==
  /\ CompanyAdmin(a, employments[e].company)
  /\ ~employments[e].dismissed
  /\ Decide(p, Update(e, [dismissed |-> TRUE]))

BeginReview(p, u, e) ==
  /\ Reviewable(employments[e], u)
  /\ \E s \in {"approved", "rejected"} : Decide(p, Update(e, [status |-> s]))

BeginReattach(p, a, u, c) ==
  /\ CompanyAdmin(a, c)
  /\ u \in registered
  /\ \/ \E e \in Cancelled(u, c) :
          Decide(p, Update(e, [dismissed |-> FALSE, status |-> "approved"]))
     \/ /\ Cancelled(u, c) = {}
        /\ ~HasOpenRow(u, c)
        /\ \E e \in LatestEnded(u, c) :
             IF employments[e].end = today
               THEN Decide(p, Update(e, [end |-> Null]))
               ELSE Decide(p, InsertNew(ApprovedRow(u, c,
                                                    employments[e].admin)))

BeginRecord(p, u, c, d) ==
  /\ MayRecord(u, c, d)
  /\ <<u, c, d>> \notin work
  /\ Decide(p, WorkLog(<<u, c, d>>))

Finish(p) ==
  tx' = [q \in Process |->
           IF q = p THEN Null
           ELSE IF LogsWork(tx[q]) /\ EndsJob(tx[p], tx[q].of[1], tx[q].of[2])
             THEN [tx[q] EXCEPT !.met = TRUE]
           ELSE tx[q]]

CommitUpdate(p) ==
  /\ tx[p] # Null /\ tx[p].op = "update"
  /\ Commit([employments EXCEPT ![tx[p].row] = WithChange(@, tx[p].change)])
  /\ Finish(p)
  /\ UNCHANGED <<today, registered, work, beside>>

CommitInsert(p) ==
  /\ tx[p] # Null /\ tx[p].op = "insert"
  /\ \E e \in Employment :
       /\ employments[e] = Null
       /\ Commit(Insert(employments, e, tx[p].new))
  /\ Finish(p)
  /\ UNCHANGED <<today, registered, work, beside>>

CommitRecord(p) ==
  LET w == tx[p].of
      crossed == tx[p].met \/ \E q \in Process : EndsJob(tx[q], w[1], w[2])
  IN /\ LogsWork(tx[p])
     /\ work' = work \cup {w}
     /\ beside' = IF crossed THEN beside \cup {w} ELSE beside
     /\ tx' = [tx EXCEPT ![p] = Null]
     /\ UNCHANGED <<today, registered, employments>>

\* A refusal of the database, an error or a killed process.
Rollback(p) ==
  /\ tx[p] # Null
  /\ tx' = [tx EXCEPT ![p] = Null]
  /\ UNCHANGED <<vars, beside>>

-----------------------------------------------------------------------------
BeginStep ==
  \E p \in Process, a \in User, u \in Worker, c \in Company :
    \/ BeginReattach(p, a, u, c)
    \/ \E d \in Day : BeginRecord(p, u, c, d)
    \/ \E e \in Rows(employments) :
         \/ \E d \in Day : BeginTerminate(p, a, e, d)
         \/ BeginCancel(p, a, e)
         \/ BeginReview(p, u, e)

CommitStep ==
  \E p \in Process :
    CommitUpdate(p) \/ CommitInsert(p) \/ CommitRecord(p) \/ Rollback(p)

\* Invitations, which begin this day and have no end here, sign-ups, work
\* that is cancelled and the days are as before, in one step.
SlowStep ==
  /\ \/ NextDay
     \/ \E a \in User, c \in Company, e \in Employment, u \in Worker :
          Invite(a, e, c, u, FALSE, today, Null, FALSE)
     \/ \E u \in User : SignUp(u)
     \/ \E u \in Worker, c \in Company, d \in Day : RemoveWork(u, c, d)
  /\ beside' = beside \cap work'
  /\ UNCHANGED tx

CNext == BeginStep \/ CommitStep \/ SlowStep

CSpec == CInit /\ [][CNext]_cvars

-----------------------------------------------------------------------------
(* Properties.                                                             *)

\* However requests interleave, the work recorded lies in an employment of
\* its user by the company, ended or cancelled since, but for the work whose
\* request ran at the same time as an end: whoever records after an end was
\* committed is refused, and an end that follows the work is.
WorkIsEmployed ==
  \A w \in work \ beside :
    \E e \in RowsOf(employments, w[1], w[2]) : Covers(employments[e], w[3])
=============================================================================
