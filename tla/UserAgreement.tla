---------------------------- MODULE UserAgreement ----------------------------
(***************************************************************************)
(* The terms of use beside the employments: a user who refuses them has    *)
(* some days to change his mind, after which the account is suspended      *)
(* (is_blacklisted) and the employments end.  The suspension is decided by *)
(* the login of the user and by a daily job, which reads the users to      *)
(* suspend once and suspends them one transaction after the other while    *)
(* requests are served.                                                    *)
(***************************************************************************)
EXTENDS Employment

CONSTANT Delay   \* CGU_DELETE_ACCOUNT_DELAY_IN_DAYS

ASSUME DelayAssumption == Delay \in Nat

VARIABLES
  agreements,   \* table user_agreement, for the current version of the terms
  job,          \* the users a running job has still to suspend, or Null
  refusedOn     \* history: the day of the first refusal of each user

avars == <<agreements, job, refusedOn>>

allVars == <<vars, avars>>

\* expires_at is the midnight that begins the day: it is over that day.
Agreement == [status : {"pending", "accepted", "rejected"},
              expires : Int \cup {Null}, blacklisted : BOOLEAN]

ASSUME NoAgreementAssumption == Null \notin Agreement

\* A row that ends before the first day is still no NULL.
ASSUME NoEndAssumption == \A r \in Row : [r EXCEPT !.end = -1] # Null

Expired(g) ==
  /\ g.status = "rejected" /\ ~g.blacklisted
  /\ g.expires # Null /\ g.expires <= today

-----------------------------------------------------------------------------
AInit ==
  /\ Init
  /\ agreements = [u \in User |-> Null]
  /\ job = Null
  /\ refusedOn = [u \in User |-> Null]

\* get_or_create, at the first query of the status; a sign-up creates the row
\* accepted.
CreateAgreement(u) ==
  /\ u \in registered
  /\ agreements[u] = Null
  /\ \E s \in {"pending", "accepted"} :
       agreements' = [agreements EXCEPT ![u] =
                        [status |-> s, expires |-> Null, blacklisted |-> FALSE]]
  /\ UNCHANGED <<vars, job, refusedOn>>

AcceptCgu(u) ==
  /\ agreements[u] # Null
  /\ agreements' = [agreements EXCEPT ![u] =
                      [status |-> "accepted", expires |-> Null,
                       blacklisted |-> FALSE]]
  /\ UNCHANGED <<vars, job, refusedOn>>

\* A new refusal gives the whole delay again.
RejectCgu(u) ==
  /\ agreements[u] # Null
  /\ agreements' = [agreements EXCEPT ![u] =
                      [status |-> "rejected", expires |-> today + Delay,
                       blacklisted |-> FALSE]]
  /\ refusedOn' = [refusedOn EXCEPT ![u] = IF @ = Null THEN today ELSE @]
  /\ UNCHANGED <<vars, job>>

\* The employments that blacklist_user ends.
ActiveToday(u) == UNION {ActiveAt(employments, u, c, today) : c \in Company}

EndsYesterday(u) ==
  [e \in Employment |->
     IF e \in ActiveToday(u)
       THEN [employments[e] EXCEPT !.end = today - 1]
       ELSE employments[e]]

\* UserAgreement.blacklist_user: it looks at the row of the user, not at the
\* reason it was called for.  The database refuses an employment that would
\* end before it starts, so a user who begins a job this day is not suspended.
Blacklist(u) ==
  /\ agreements[u] # Null
  /\ agreements' = [agreements EXCEPT ![u].blacklisted = TRUE]
  /\ Commit(EndsYesterday(u))
  /\ UNCHANGED <<today, registered, work, refusedOn>>

\* A login of an account whose delay is over suspends it.
Login(u) ==
  /\ agreements[u] # Null
  /\ Expired(agreements[u])
  /\ Blacklist(u)
  /\ UNCHANGED job

Targets == {u \in User : agreements[u] # Null /\ Expired(agreements[u])}

\* get_last_admins_and_blacklist_expiring_users.
JobStart ==
  /\ job = Null
  /\ Targets # {}
  /\ job' = Targets
  /\ UNCHANGED <<vars, agreements, refusedOn>>

JobWithout(u) == IF job = {u} THEN Null ELSE job \ {u}

JobSuspends(u) ==
  /\ job # Null /\ u \in job
  /\ Blacklist(u)
  /\ job' = JobWithout(u)

\* The error of one user ends the run.
JobFails(u) ==
  /\ job # Null /\ u \in job
  /\ ~NoSimultaneous(EndsYesterday(u))
  /\ job' = Null
  /\ UNCHANGED <<vars, agreements, refusedOn>>

-----------------------------------------------------------------------------
AgreementStep ==
  \E u \in User :
    \/ CreateAgreement(u) \/ AcceptCgu(u) \/ RejectCgu(u)
    \/ Login(u) \/ JobSuspends(u) \/ JobFails(u)

ANext == (Next /\ UNCHANGED avars) \/ AgreementStep \/ JobStart

ASpec == AInit /\ [][ANext]_allVars

-----------------------------------------------------------------------------
(* Properties.                                                             *)

\* Every variable holds a value of its type, a job that runs has users left
\* to suspend, and a refusal has its day and its delay.
AgreementTypeOK ==
  /\ agreements \in [User -> Agreement \cup {Null}]
  /\ job \in ((SUBSET User) \ {{}}) \cup {Null}
  /\ refusedOn \in [User -> Day \cup {Null}]
  /\ \A u \in User : agreements[u] # Null =>
       /\ u \in registered
       /\ agreements[u].status = "rejected" =>
            refusedOn[u] # Null /\ agreements[u].expires # Null

Suspended(u) == agreements[u] # Null /\ agreements[u].blacklisted

\* Whoever is suspended refused the terms at least the delay ago: neither the
\* login nor a job that works on what it read earlier suspends anybody else
\* (UserAgreement.is_user_blacklisted, the filter of the daily job).
OnlyRefusersAreSuspended ==
  [][\A u \in User :
       ~Suspended(u) /\ Suspended(u)' =>
         refusedOn[u] # Null /\ refusedOn[u] + Delay <= today]_allVars

\* A suspension leaves the user no employment on the day, whatever was
\* invited, accepted, ended or given back before
\* (test_blacklisting_user_removes_employments).
SuspensionEndsEmployments ==
  [][\A u \in User :
       ~Suspended(u) /\ Suspended(u)' => ActiveToday(u)' = {}]_allVars

\* Every day of work lies in an employment by the company that was approved,
\* be it ended or cancelled since: ends are refused before the last work, and
\* neither a cancellation nor a reattachment moves a start or an end away
\* from it.  Only a suspension ends employments on the day before, whatever
\* was recorded since: the work of that day alone is left outside, and only
\* that of a user who refused the terms.
WorkIsCovered ==
  \A w \in work :
    \E e \in RowsOf(employments, w[1], w[2]) :
      LET r == employments[e]
      IN /\ r.status = "approved"
         /\ \/ Covers(r, w[3])
            \/ /\ refusedOn[w[1]] # Null
               /\ r.start < w[3] /\ r.end # Null /\ w[3] = r.end + 1

\* In whatever order the admins, the employees, the suspensions and the job
\* come, the rows, the accounts and the agreements are as their columns allow,
\* and the work recorded is accounted for.  What was settled is not taken
\* back: past ends and refusals stay, and only a refusal of the terms that has
\* run its delay suspends, with an end of every employment.
EmploymentsAreSound ==
  /\ [](TypeOK /\ AgreementTypeOK /\ WorkIsCovered)
  /\ EndedStaysEnded
  /\ RefusalStands
  /\ OnlyRefusersAreSuspended
  /\ SuspensionEndsEmployments
=============================================================================
