---------------------------- MODULE StaffRequests ----------------------------
(***************************************************************************)
(* What the managers and the employees of one company ask for besides the  *)
(* employments themselves: reminders of an invitation, the request of an   *)
(* employee to be detached, the details and the settings of the company,   *)
(* and the line of business of each employee.                              *)
(*                                                                         *)
(* A request reads in one step and commits in another, and mails leave     *)
(* before the commit that records them: two requests at once may both pass *)
(* a check.  `raced` holds the employments on which that has happened; the *)
(* properties say what is true of the others.                              *)
(***************************************************************************)
EXTENDS Integers, Sequences, FiniteSets

CONSTANTS
  Hire,            \* the employments
  StaffRequest,    \* the requests served at once
  Business,        \* the lines of business
  Setting,         \* the settings of a company
  MinWait,         \* MIN_DELAY_BETWEEN_INVITATION_EMAILS
  Cooldown,        \* DETACHMENT_COOLDOWN_HOURS
  InactiveDelay,   \* INACTIVE_THRESHOLD_DAYS
  LastTurn,        \* bound: the clock
  MaxStaffRequests \* bound: the requests served

ASSUME WaitAssumption == MinWait \in Nat /\ Cooldown \in Nat

VARIABLES
  hires,     \* table employment
  firm,      \* the row of the company
  turn,      \* the clock
  asks,      \* what each request is at
  served,    \* how many requests were begun
  reminded,  \* history: when each invitee was last written to
  told,      \* history: when the managers were last told of a detachment
  meant,     \* history: the line of business last meant for each employee
  raced      \* history: see above

staffVars ==
  <<hires, firm, turn, asks, served, reminded, told, meant, raced>>

Never == -1

-----------------------------------------------------------------------------
(* Rows. *)

Unhired == [status |-> "absent"]

NewHire(business, now) ==
  [status |-> "pending", dismissed |-> FALSE, end |-> Never,
   worked |-> Never, business |-> business, received |-> now,
   invited |-> Never, first |-> Never, last |-> Never]

IsHired(h) == hires[h].status # "absent"

\* Employment.is_active.
IsActive(h) ==
  /\ hires[h].status = "approved" /\ ~hires[h].dismissed
  /\ hires[h].end = Never \/ hires[h].end >= turn

IsTerminated(h) == hires[h].end # Never /\ hires[h].end < turn

\* Employment.is_inactive, of a worker.
IsInactive(h) ==
  /\ IsActive(h)
  /\ hires[h].worked # Never /\ hires[h].worked < turn - InactiveDelay

\* Employment.status: the first that applies.
ShownStatus(h) ==
  CASE hires[h].dismissed -> "DISMISSED"
    [] ~hires[h].dismissed /\ hires[h].status = "rejected" -> "REJECTED"
    [] ~hires[h].dismissed /\ hires[h].status = "pending" -> "PENDING"
    [] ~hires[h].dismissed /\ hires[h].status = "approved" ->
         IF IsTerminated(h) THEN "TERMINATED"
         ELSE IF IsInactive(h) THEN "INACTIVE" ELSE "ACTIVE"

\* Seeded fault: the mails since the invitation are not looked at.
ReceivedAt(h) == hires[h].received

\* latest_invite_email_time or reception_time.
LatestInvite(h) ==
  IF hires[h].invited = Never THEN hires[h].received ELSE hires[h].invited

\* detachment_request: a reminder keeps requested_at.
Asked(r) ==
  [first |-> IF r.first = Never THEN r.at ELSE r.first, last |-> r.at]

-----------------------------------------------------------------------------
(* Requests. *)

Waiting == [kind |-> "none"]

Start(q, r) ==
  /\ asks[q] = Waiting
  /\ served < MaxStaffRequests
  /\ served' = served + 1
  /\ asks' = [asks EXCEPT ![q] = r]

End(q) == asks' = [asks EXCEPT ![q] = Waiting]

\* What a request has read, or done, and not committed.
Holds(r, h) ==
  \/ r.kind = "remind" /\ r.sent /\ r.todo[1] = h
  \/ r.kind = "detach" /\ r.hire = h
  \/ r.kind = "details"
  \/ r.kind = "hire" /\ r.hire = h

\* h, if another request of these kinds holds it.
Races(q, kinds, topic, h) ==
  {<<topic, h>> : p \in {p \in StaffRequest \ {q} :
                          asks[p].kind \in kinds /\ Holds(asks[p], h)}}

-----------------------------------------------------------------------------
StaffInit ==
  /\ firm \in [business : Business, workers : {0},
               settings : [Setting -> {FALSE}]]
  /\ hires \in [Hire -> {Unhired, NewHire(firm.business, 0)}]
  /\ turn = 0
  /\ asks = [q \in StaffRequest |-> Waiting]
  /\ served = 0
  /\ reminded = [h \in Hire |-> 0]
  /\ told = [h \in Hire |-> Never]
  /\ meant = [h \in Hire |-> firm.business]
  /\ raced = {}

(* SendInvitationsReminders: one mail and one commit for each employment,  *)
(* whatever its status.                                                    *)

BeginReminders(q, todo) ==
  /\ \A i \in DOMAIN todo : IsHired(todo[i])
  /\ Start(q, [kind |-> "remind", todo |-> todo, sent |-> FALSE])
  /\ UNCHANGED <<hires, firm, turn, reminded, told, meant, raced>>

\* The mail leaves.
Remind(q) ==
  LET h == asks[q].todo[1]
  IN /\ asks[q].kind = "remind" /\ ~asks[q].sent
     /\ turn - LatestInvite(h) >= MinWait
     /\ asks' = [asks EXCEPT ![q].sent = TRUE]
     /\ reminded' = [reminded EXCEPT ![h] = turn]
     /\ raced' = raced \cup Races(q, {"remind"}, "remind", h)
     /\ UNCHANGED <<hires, firm, turn, served, told, meant>>

Next1(q) ==
  IF Len(asks[q].todo) = 1
  THEN End(q)
  ELSE asks' = [asks EXCEPT ![q].todo = Tail(@), ![q].sent = FALSE]

\* The row of the mail is committed, with the time it was sent at.
CommitReminder(q) ==
  /\ asks[q].kind = "remind" /\ asks[q].sent
  /\ hires' = [hires EXCEPT ![asks[q].todo[1]].invited = turn]
  /\ Next1(q)
  /\ UNCHANGED <<firm, turn, served, reminded, told, meant, raced>>

SkipReminder(q) ==
  /\ asks[q].kind = "remind" /\ ~asks[q].sent
  /\ turn - LatestInvite(asks[q].todo[1]) < MinWait
  /\ Next1(q)
  /\ UNCHANGED <<hires, firm, turn, served, reminded, told, meant, raced>>

(* RequestDetachment: the mails to the managers leave before the commit.   *)

\* An active employee, whose managers were not told lately.
MayAsk(h) ==
  /\ IsHired(h) /\ IsActive(h)
  /\ hires[h].last = Never \/ turn - hires[h].last >= Cooldown

RequestDetachment(q, h) ==
  /\ MayAsk(h)
  /\ Start(q, [kind |-> "detach", hire |-> h, first |-> hires[h].first,
               at |-> turn])
  /\ told' = [told EXCEPT ![h] = turn]
  /\ raced' = raced \cup Races(q, {"detach"}, "detach", h)
  /\ UNCHANGED <<hires, firm, turn, reminded, meant>>

CommitDetachment(q) ==
  LET r == asks[q]
  IN /\ r.kind = "detach"
     /\ hires' = [hires EXCEPT ![r.hire].first = Asked(r).first,
                               ![r.hire].last = Asked(r).last]
     /\ End(q)
     /\ UNCHANGED <<firm, turn, served, reminded, told, meant, raced>>

-----------------------------------------------------------------------------
(* The company. *)

\* UpdateCompanyDetails: what is as it was is not written, and the employees
\* are only changed when the business of the company is.
UpdateCompanyDetails(q, business, workers, everyone) ==
  /\ Start(q, [kind |-> "details", business |-> business,
               workers |-> workers, was |-> firm.business,
               all |-> IF everyone THEN {h \in Hire : IsHired(h)} ELSE {}])
  /\ UNCHANGED <<hires, firm, turn, reminded, told, meant, raced>>

\* apply_business_type_to_company_employees: ended and dismissed ones too.
EmployeesOf(S) == S

CommitDetails(q) ==
  LET r == asks[q]
      changed == r.kind = "details" /\ r.business # r.was
      to == IF changed THEN EmployeesOf(r.all) ELSE {}
      said == IF changed THEN r.all ELSE {}
  IN /\ r.kind = "details"
     /\ firm' = [firm EXCEPT !.business = IF changed THEN r.business ELSE @,
                             !.workers = IF r.workers > 0 THEN r.workers
                                         ELSE @]
     /\ hires' = [h \in Hire |-> IF h \in to
                                 THEN [hires[h] EXCEPT !.business = r.business]
                                 ELSE hires[h]]
     /\ meant' = [h \in Hire |-> IF h \in said THEN r.business ELSE meant[h]]
     /\ raced' = raced \cup
          UNION {Races(q, {"details", "hire"}, "business", h) : h \in Hire}
     /\ End(q)
     /\ UNCHANGED <<turn, served, reminded, told>>

\* EditCompanySettings writes the columns whose value differs from what was
\* read, and no other.
WithEdit(r) ==
  [s \in Setting |-> IF s = r.name /\ r.value # r.read[s]
                     THEN r.value ELSE firm.settings[s]]

EditCompanySettings(q, s, v) ==
  /\ Start(q, [kind |-> "edit", name |-> s, value |-> v,
               read |-> firm.settings])
  /\ UNCHANGED <<hires, firm, turn, reminded, told, meant, raced>>

CommitEdit(q) ==
  /\ asks[q].kind = "edit"
  /\ firm' = [firm EXCEPT !.settings = WithEdit(asks[q])]
  /\ End(q)
  /\ UNCHANGED <<hires, turn, served, reminded, told, meant, raced>>

-----------------------------------------------------------------------------
(* The employments. *)

\* CreateEmployment takes the business of the company it read.
BeginHire(q, h) ==
  /\ ~IsHired(h)
  /\ \A p \in StaffRequest : ~(asks[p].kind = "hire" /\ asks[p].hire = h)
  /\ Start(q, [kind |-> "hire", hire |-> h, business |-> firm.business])
  /\ UNCHANGED <<hires, firm, turn, reminded, told, meant, raced>>

CommitHire(q) ==
  LET r == asks[q]
  IN /\ r.kind = "hire"
     /\ hires' = [hires EXCEPT ![r.hire] = NewHire(r.business, turn)]
     /\ reminded' = [reminded EXCEPT ![r.hire] = turn]
     /\ meant' = [meant EXCEPT ![r.hire] = firm.business]
     /\ raced' = raced \cup Races(q, {"details"}, "business", r.hire)
     /\ End(q)
     /\ UNCHANGED <<firm, turn, served, told>>

\* ChangeEmployeeBusinessType, read and committed at once.
ChangeEmployeeBusinessType(h, business) ==
  /\ IsHired(h)
  /\ hires[h].business # business
  /\ hires' = [hires EXCEPT ![h].business = business]
  /\ meant' = [meant EXCEPT ![h] = business]
  /\ raced' = raced \cup {<<"business", h>> :
                 p \in {p \in StaffRequest : asks[p].kind = "details"}}
  /\ UNCHANGED <<firm, turn, asks, served, reminded, told>>

\* Modelled in Employment: an answer, an end, a dismissal, work.
LiveOn(h) ==
  /\ IsHired(h)
  /\ \/ /\ hires[h].status = "pending"
        /\ \E s \in {"approved", "rejected"} :
             hires' = [hires EXCEPT ![h].status = s]
     \/ /\ hires[h].status = "approved" /\ hires[h].end = Never
        /\ hires' = [hires EXCEPT ![h].end = turn]
     \/ /\ ~hires[h].dismissed
        /\ hires' = [hires EXCEPT ![h].dismissed = TRUE]
     \/ /\ IsActive(h)
        /\ hires[h].worked # turn
        /\ hires' = [hires EXCEPT ![h].worked = turn]
  /\ UNCHANGED <<firm, turn, asks, served, reminded, told, meant, raced>>

\* An error of the mailer, a refused value, or the server stops.  The
\* managers told, or the employee reminded, were so for nothing.
FailRequest(q) ==
  /\ asks[q] # Waiting
  /\ raced' = raced \cup
       IF asks[q].kind = "detach" THEN {<<"detach", asks[q].hire>>}
       ELSE IF asks[q].kind = "remind" /\ asks[q].sent
            THEN {<<"remind", asks[q].todo[1]>>} ELSE {}
  /\ End(q)
  /\ UNCHANGED <<hires, firm, turn, served, reminded, told, meant>>

\* Requests are short: none is served over a turn.
NextTurn ==
  /\ turn < LastTurn
  /\ \A q \in StaffRequest : asks[q] = Waiting
  /\ turn' = turn + 1
  /\ UNCHANGED <<hires, firm, asks, served, reminded, told, meant, raced>>

StaffNext ==
  \/ \E q \in StaffRequest :
       \/ \E h \in Hire, g \in Hire : BeginReminders(q, <<h, g>>)
       \/ Remind(q) \/ CommitReminder(q) \/ SkipReminder(q)
       \/ \E h \in Hire : RequestDetachment(q, h) \/ BeginHire(q, h)
       \/ CommitDetachment(q) \/ CommitDetails(q) \/ CommitEdit(q)
       \/ \E b \in Business, n \in {0, 2}, everyone \in BOOLEAN :
            UpdateCompanyDetails(q, b, n, everyone)
       \/ \E s \in Setting, v \in BOOLEAN : EditCompanySettings(q, s, v)
       \/ CommitHire(q) \/ FailRequest(q)
  \/ \E h \in Hire, b \in Business : ChangeEmployeeBusinessType(h, b)
  \/ \E h \in Hire : LiveOn(h)
  \/ NextTurn

StaffSpec == StaffInit /\ [][StaffNext]_staffVars

-----------------------------------------------------------------------------
(* Properties. *)

\* The rows are as their columns allow; a detachment that was asked for has
\* both its dates, in order.
StaffTypeOK ==
  /\ \A h \in Hire : IsHired(h) =>
       /\ hires[h].status \in {"pending", "approved", "rejected"}
       /\ hires[h].business \in Business
       /\ (hires[h].first = Never) <=> (hires[h].last = Never)
       /\ hires[h].first <= hires[h].last
  /\ firm.business \in Business /\ firm.workers \in Nat
  /\ firm.settings \in [Setting -> BOOLEAN]

\* The status shown of an employee agrees with what he may do: it says active
\* or inactive when, and only when, he may work, his last day included.
StatusAgrees ==
  \A h \in Hire : IsHired(h) =>
    (IsActive(h) <=> ShownStatus(h) \in {"ACTIVE", "INACTIVE"})

\* An invitee is not reminded twice within the delay, however many managers
\* send reminders, and the same employment twice in one list; but for two
\* requests at once and a mail whose row was never committed.
RemindersAreSpaced ==
  [][\A q \in StaffRequest :
       asks[q].kind = "remind" /\ asks'[q].kind = "remind" =>
         LET h == asks[q].todo[1]
         IN ~asks[q].sent /\ asks'[q].sent =>
              \/ turn - reminded[h] >= MinWait
              \/ <<"remind", h>> \in raced']_staffVars

\* The managers are not told twice within the cooldown that one employee
\* wants to be detached, but for the same exceptions.
ManagersAreSpared ==
  [][\A q \in StaffRequest :
       asks[q].kind # "detach" /\ asks'[q].kind = "detach" =>
         LET h == asks'[q].hire
         IN \/ told[h] = Never \/ turn - told[h] >= Cooldown
            \/ <<"detach", h>> \in raced']_staffVars

\* A reminder of a detachment names the day it was first asked for: nothing
\* moves that day.
FirstRequestStays ==
  [][\A h \in Hire : IsHired(h) /\ hires[h].first # Never =>
       \/ hires'[h].first = hires[h].first
       \/ <<"detach", h>> \in raced']_staffVars

\* Every employee has the line of business last meant for him: by a manager
\* for him, by one who changed the company's for everyone, whatever the
\* state of his employment, or by the company when he was hired.
BusinessIsAsMeant ==
  \A h \in Hire : IsHired(h) =>
    hires[h].business = meant[h] \/ <<"business", h>> \in raced

\* Two managers who edit different settings at once do not undo each other.
EditsDoNotMix ==
  [][\A q \in StaffRequest, s \in Setting :
       asks[q].kind = "edit" /\ asks'[q] = Waiting /\ s # asks[q].name =>
         firm'.settings[s] = firm.settings[s]]_staffVars

\* Nobody is written to too often, what is shown of an employee is what he
\* may do, and neither two edits nor two requests undo one another, but for
\* the mails two requests at once may send.
StaffIsRespected ==
  /\ []StaffTypeOK
  /\ []StatusAgrees
  /\ []BusinessIsAsMeant
  /\ RemindersAreSpaced
  /\ ManagersAreSpared
  /\ FirstRequestStays
  /\ EditsDoNotMix
=============================================================================
