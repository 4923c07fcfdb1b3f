-------------------------- MODULE MissionValidation --------------------------
(***************************************************************************)
(* Who may still write on a mission, its validation by the employee and by *)
(* the company, and the hourly job that validates for those who did not.   *)
(*                                                                         *)
(* The activities are those of MissionWork: Timeline has their times.  One *)
(* action is one transaction; every user is employed by the company of the *)
(* missions all along and keeps the rights it has.                         *)
(***************************************************************************)
EXTENDS MissionWork, Integers, FiniteSets

CONSTANTS
  Manager,        \* the users of the company who record no activity
  Admin,          \* the users with admin rights in the company
  Submitter,      \* who created each mission
  TeamMode,       \* company.allow_team_mode
  Null,           \* the submitter of an automatic validation, a missing row
  EmployeeDelay,  \* EMPLOYEE_THRESHOLD_DAYS, in ticks of the clock
  AdminDelay,     \* ADMIN_THRESHOLD_DAYS, in ticks of the clock
  BatchSize       \* AUTO_VALIDATION_BATCH_SIZE

Actor == User \cup Manager

ASSUME PeopleAssumption ==
  /\ Admin \subseteq Actor
  /\ Submitter \in [Mission -> Actor]
  /\ TeamMode \in BOOLEAN
  /\ Null \notin Actor

ASSUME DelayAssumption ==
  /\ EmployeeDelay \in Nat
  /\ AdminDelay \in Nat
  /\ EmployeeDelay <= AdminDelay
  /\ BatchSize \in Nat \ {0}
  /\ Null \notin Nat

VARIABLES
  validations,  \* table mission_validation
  queue,        \* table mission_auto_validation: the age of each row
  revision,     \* parity of the writes on the activities of each user
  job           \* the run of job_process_auto_validations

vars == <<work, ended, holidays, validations, queue, revision, job>>

-----------------------------------------------------------------------------
Validation == [submitter : Actor \cup {Null}, user : User, mission : Mission,
               admin : BOOLEAN, auto : BOOLEAN]

\* A row is unique for a user, a mission and is_admin.
RowKey == User \X Mission \X BOOLEAN

\* Older rows behave alike.
OldestAge == AdminDelay + 1

Delay(k) == IF k[3] THEN AdminDelay ELSE EmployeeDelay

IsQueued(k) == queue[k] # Null

IsDue(k) == IsQueued(k) /\ queue[k] > Delay(k)

ValidationsFor(u, m) ==
  {v \in validations : v.user = u /\ v.mission = m}

ManuallyValidatedByAdmin(u, m) ==
  \E v \in ValidationsFor(u, m) : v.admin /\ ~v.auto

AutoValidated(u, m) == \E v \in ValidationsFor(u, m) : v.auto

ValidatedBySelf(u, m) == \E v \in ValidationsFor(u, m) : v.submitter = u

ValidatedByAdmin(u, m) == \E v \in ValidationsFor(u, m) : v.admin

-----------------------------------------------------------------------------
(* check_actor_can_write_on_mission_over_period                            *)

MayAccess(actor, m) ==
  \/ actor \in Admin
  \/ actor = Submitter[m]
  \/ actor \in User /\ work[<<actor, m>>] # "none"

\* Checks 6 and 7, which do not bind an admin.
IsOpenFor(actor, u, m) ==
  actor \notin Admin => ~AutoValidated(u, m) /\ ~ValidatedBySelf(u, m)

\* Seeded fault: the manual validation of an admin is not looked at.
MayWriteForIgnoringAdmin(actor, u, m) ==
  /\ MayAccess(actor, m)
  /\ \/ actor \in Admin
     \/ actor = u
     \/ actor = Submitter[m] /\ (TeamMode \/ work[<<u, m>>] # "none")
  /\ IsOpenFor(actor, u, m)

\* With for_user.
MayWriteFor(actor, u, m) ==
  /\ MayAccess(actor, m)
  /\ \/ actor \in Admin
     \/ actor = u
     \/ actor = Submitter[m] /\ (TeamMode \/ work[<<u, m>>] # "none")
  /\ ~ManuallyValidatedByAdmin(u, m)
  /\ IsOpenFor(actor, u, m)

\* Without for_user, the checks are about the validations of the actor.
MayWrite(actor, m) == MayAccess(actor, m) /\ IsOpenFor(actor, actor, m)

-----------------------------------------------------------------------------
(* The activities.                                                         *)

Revised(u, m) == revision' = [revision EXCEPT ![<<u, m>>] = 1 - @]

\* The first activity of a user on a mission queues an automatic validation.
LogActivity(actor, u, m, r, off) ==
  LET k == <<u, m, actor \in Admin>>
  IN /\ actor \in {u, Submitter[m]}
     /\ MayWriteFor(actor, u, m)
     /\ Log(u, m, r, off)
     /\ Revised(u, m)
     /\ IF work[<<u, m>>] = "none"
          THEN ~IsQueued(k) /\ queue' = [queue EXCEPT ![k] = 0]
          ELSE UNCHANGED queue
     /\ UNCHANGED <<validations, job>>

EditActivity(actor, u, m, r) ==
  /\ MayWriteFor(actor, u, m)
  /\ Edit(u, m, r)
  /\ Revised(u, m)
  /\ UNCHANGED <<validations, queue, job>>

\* CancelActivity and CancelMission.
CancelActivities(actor, u, m, r) ==
  /\ MayWriteFor(actor, u, m)
  /\ Cancel(u, m, r)
  /\ Revised(u, m)
  /\ UNCHANGED <<validations, queue, job>>

\* Seeded fault: the running activity is stopped whoever asks for it.
EndMissionUnchecked(actor, u, m) ==
  /\ MayWrite(actor, m)
  /\ End(u, m)
  /\ IF work[<<u, m>>] = "running" THEN Revised(u, m) ELSE UNCHANGED revision
  /\ UNCHANGED <<validations, queue, job>>

\* The end is authorised without the user; stopping what is running is then
\* checked as a correction by that user.
EndMission(actor, u, m) ==
  /\ MayWrite(actor, m)
  /\ End(u, m)
  /\ IF work[<<u, m>>] = "running"
       THEN MayWriteFor(u, u, m) /\ Revised(u, m)
       ELSE UNCHANGED revision
  /\ UNCHANGED <<validations, queue, job>>

-----------------------------------------------------------------------------
(* validate_mission                                                        *)

\* Seeded fault: the rows of the queue outlive the validation.
DequeuedNever(u, m, admin) ==
  IF m \in holidays \/ admin THEN queue
  ELSE [queue EXCEPT ![<<u, m, TRUE>>] = 0]

\* Seeded fault: the company's validation is not queued.
DequeuedForgettingAdmin(u, m, admin) ==
  IF m \in holidays THEN queue
  ELSE [queue EXCEPT ![<<u, m, FALSE>>] = Null, ![<<u, m, TRUE>>] = Null]

\* A validation removes what is queued for the user and, unless it is the
\* company's, queues the company's.  A day off leaves the queue alone.
Dequeued(u, m, admin) ==
  IF m \in holidays THEN queue
  ELSE [queue EXCEPT ![<<u, m, FALSE>>] = Null,
                     ![<<u, m, TRUE>>] = IF admin THEN Null ELSE 0]

\* The company validates after the employee, or its own mission, or when the
\* mission is more than ten days old or has been running for a day.
MayForce(actor, u, m, old) ==
  \/ ValidationsFor(u, m) # {}
  \/ actor \in {u, Submitter[m]}
  \/ old /\ Working(u, m)

\* The request may first log, correct or cancel activities of the user,
\* which is checked as such; in the end the user has closed activities.
StopsFor(actor, u, m) ==
  \/ work[<<u, m>>] = "stopped" /\ UNCHANGED revision
  \/ /\ MayWriteFor(actor, u, m)
     /\ ~Working(u, m) => m \notin holidays
     /\ Revised(u, m)

\* Seeded fault: a mission that is validated is not ended.
ValidateMissionOpen(actor, u, m, old) ==
  LET admin == actor \in Admin
  IN /\ MayWrite(actor, m)
     /\ IF admin THEN MayForce(actor, u, m, old)
                 ELSE actor = u /\ ~AutoValidated(u, m)
     /\ StopsFor(actor, u, m)
     /\ work' = [work EXCEPT ![<<u, m>>] = "stopped"]
     /\ validations' = validations \cup
          {[submitter |-> actor, user |-> u, mission |-> m,
            admin |-> admin, auto |-> FALSE]}
     /\ queue' = Dequeued(u, m, admin)
     /\ UNCHANGED <<ended, holidays, job>>

ValidateMission(actor, u, m, old) ==
  LET admin == actor \in Admin
  IN /\ MayWrite(actor, m)
     /\ IF admin THEN MayForce(actor, u, m, old)
                 ELSE actor = u /\ ~AutoValidated(u, m)
     /\ StopsFor(actor, u, m)
     /\ work' = [work EXCEPT ![<<u, m>>] = "stopped"]
     /\ ended' = ended \cup {<<u, m>>}
     /\ validations' = validations \cup
          {[submitter |-> actor, user |-> u, mission |-> m,
            admin |-> admin, auto |-> FALSE]}
     /\ queue' = Dequeued(u, m, admin)
     /\ UNCHANGED <<holidays, job>>

\* The mission is created by the request; an employee takes days off only
\* for himself.
LogHoliday(actor, u, m) ==
  /\ actor = Submitter[m]
  /\ actor \in Admin \/ actor = u
  /\ TakeDayOff(u, m)
  /\ validations' = validations \cup
       {[submitter |-> actor, user |-> u, mission |-> m,
         admin |-> actor \in Admin, auto |-> FALSE]}
  /\ Revised(u, m)
  /\ UNCHANGED <<queue, job>>

-----------------------------------------------------------------------------
(* job_process_auto_validations                                            *)

Idle == [phase |-> "idle", batch |-> {}, fresh |-> TRUE]

\* The oldest rows that are due, at most BatchSize of them.
Batches(admin) ==
  LET due == {k \in RowKey : k[3] = admin /\ IsDue(k)}
  IN {S \in SUBSET due :
        /\ Cardinality(S) <= BatchSize
        /\ S # due => Cardinality(S) = BatchSize
        /\ \A k \in S, l \in due \ S : queue[k] >= queue[l]}

JobReads(phase) ==
  \E S \in Batches(phase = "admin") :
    job' = [phase |-> phase, batch |-> S, fresh |-> TRUE]

JobStart ==
  /\ job = Idle
  /\ JobReads("employee")
  /\ UNCHANGED <<work, ended, holidays, validations, queue, revision>>

JobNextPhase ==
  /\ job.batch = {}
  /\ \/ job.phase = "employee" /\ JobReads("admin")
     \/ job.phase = "admin" /\ job' = Idle
  /\ UNCHANGED <<work, ended, holidays, validations, queue, revision>>

\* The objects read with the batch are read again after the first commit,
\* which raises for a row that was deleted meanwhile.
JobSees(k) == k \in job.batch /\ (job.fresh \/ IsDue(k))

JobHasDone(k) ==
  job' = [job EXCEPT !.batch = @ \ {k}, !.fresh = FALSE]

\* Nothing is left to validate: the row is removed.
JobDrops(k) ==
  /\ JobSees(k)
  /\ ~Working(k[1], k[2])
  /\ queue' = [queue EXCEPT ![k] = Null]
  /\ JobHasDone(k)
  /\ UNCHANGED <<work, ended, holidays, validations, revision>>

\* The mission is ended for the user if it is not, and validated.
JobValidates(k) ==
  LET u == k[1]
      m == k[2]
  IN /\ JobSees(k)
     /\ Working(u, m)
     /\ IF <<u, m>> \in ended THEN UNCHANGED <<work, ended, holidays>>
                              ELSE End(u, m)
     /\ IF <<u, m>> \notin ended /\ work[<<u, m>>] = "running"
          THEN Revised(u, m) ELSE UNCHANGED revision
     /\ validations' = validations \cup
          {[submitter |-> Null, user |-> u, mission |-> m,
            admin |-> k[3], auto |-> TRUE]}
     /\ queue' = Dequeued(u, m, k[3])
     /\ JobHasDone(k)

\* Any other error leaves the row for the next run.
JobKeeps(k) ==
  /\ JobSees(k)
  /\ JobHasDone(k)
  /\ UNCHANGED <<work, ended, holidays, validations, queue, revision>>

\* A row of the batch is gone, or the process is killed.
JobStops ==
  /\ job.phase # "idle"
  /\ job' = Idle
  /\ UNCHANGED <<work, ended, holidays, validations, queue, revision>>

Tick ==
  /\ queue' = [k \in RowKey |->
       IF IsQueued(k) /\ queue[k] < OldestAge THEN queue[k] + 1 ELSE queue[k]]
  /\ UNCHANGED <<work, ended, holidays, validations, revision, job>>

-----------------------------------------------------------------------------
Init ==
  /\ WorkInit
  /\ validations = {}
  /\ queue = [k \in RowKey |-> Null]
  /\ revision = [p \in User \X Mission |-> 0]
  /\ job = Idle

Request(actor) ==
  \E u \in User, m \in Mission :
    \/ \E r \in WorkState :
         \/ \E off \in BOOLEAN : LogActivity(actor, u, m, r, off)
         \/ EditActivity(actor, u, m, r)
         \/ CancelActivities(actor, u, m, r)
    \/ EndMission(actor, u, m)
    \/ \E old \in BOOLEAN : ValidateMission(actor, u, m, old)
    \/ LogHoliday(actor, u, m)

JobStep ==
  \/ JobStart
  \/ JobNextPhase
  \/ \E k \in RowKey : JobDrops(k) \/ JobValidates(k) \/ JobKeeps(k)
  \/ JobStops

Next == (\E actor \in Actor : Request(actor)) \/ JobStep \/ Tick

Spec == Init /\ [][Next]_vars

\* The clock ticks and cron starts the job every hour, which works through
\* its batch.  It is not killed in every run, and a row does not fail for
\* ever.
JobProcesses(k) == JobDrops(k) \/ JobValidates(k)

JobMoves ==
  \/ JobStart
  \/ JobNextPhase
  \/ \E k \in RowKey : JobDrops(k) \/ JobValidates(k) \/ JobKeeps(k)
  \/ JobStops /\ \E k \in job.batch : ~JobSees(k)

JobIsFair ==
  /\ WF_vars(Tick)
  /\ WF_vars(JobMoves)
  /\ SF_vars(JobNextPhase)
  /\ \A k \in RowKey : SF_vars(JobProcesses(k))

-----------------------------------------------------------------------------
(* Properties.                                                             *)

TypeOK ==
  /\ work \in [User \X Mission -> WorkState]
  /\ ended \subseteq User \X Mission
  /\ holidays \subseteq Mission
  /\ validations \subseteq Validation
  /\ queue \in [RowKey -> 0..OldestAge \cup {Null}]
  /\ revision \in [User \X Mission -> {0, 1}]
  /\ job \in [phase : {"idle", "employee", "admin"},
             batch : SUBSET RowKey, fresh : BOOLEAN]

\* "A company admin validated the mission activities for the user, no further
\* changes can be made": neither by a request nor by the job.
AdminWordIsFinal ==
  [][\A u \in User, m \in Mission :
       ManuallyValidatedByAdmin(u, m) =>
         revision'[<<u, m>>] = revision[<<u, m>>]]_vars

\* "The user validated his activities on the mission, only a company admin
\* can edit them", and likewise once they are validated automatically: no
\* request of a colleague reaches them, even after an admin reopened them.
OnlyAdminsReviseSettledWork ==
  [][\A u \in User \ Admin, m \in Mission :
       /\ AutoValidated(u, m) \/ ValidatedBySelf(u, m)
       /\ revision'[<<u, m>>] # revision[<<u, m>>]
       => ~\E actor \in Actor \ Admin : Request(actor)]_vars

\* What an admin validated has closed activities and is ended, and stays so:
\* the end, the validation and the activities are written and checked by
\* different requests.
AdminValidationIsClosed ==
  \A u \in User, m \in Mission :
    ManuallyValidatedByAdmin(u, m) =>
      work[<<u, m>>] = "stopped" /\ <<u, m>> \in ended

\* An employee's automatic validation is pending only while nobody validated
\* for that employee, so the job never validates again for the employee.
PendingEmployeeIsUnvalidated ==
  \A u \in User, m \in Mission \ holidays :
    IsQueued(<<u, m, FALSE>>) => ValidationsFor(u, m) = {}

\* The rows of days off, which a validation does not remove: the oldest of
\* the queue, they take their places of every batch.
Starves(admin) ==
  Cardinality({k \in RowKey : k[3] = admin /\ IsQueued(k) /\ k[2] \in holidays})
    >= BatchSize

Decided(u, m) ==
  ValidatedByAdmin(u, m) \/ work[<<u, m>>] = "cancelled" \/ m \in holidays

\* What is queued is decided one day, unless days off go on filling the
\* batch: the job validates for the employee and then for the company, unless
\* the company does or the activities are cancelled.  While fewer days off
\* are queued than a batch has places, no sequence of requests, and no other
\* mission that is queued, postpones it for ever.
QueuedIsDecided ==
  <>[](\A admin \in BOOLEAN : ~Starves(admin)) =>
    \A u \in User, m \in Mission :
      (m \notin holidays /\ \E admin \in BOOLEAN : IsQueued(<<u, m, admin>>))
        ~> Decided(u, m)

\* A row of the queue is gone once the job has validated what it asked for:
\* after the employee's automatic validation one row is left, the admin's.
AutoValidatedIsDequeued ==
  \A v \in validations :
    v.auto => ~IsQueued(<<v.user, v.mission, v.admin>>)
=============================================================================
