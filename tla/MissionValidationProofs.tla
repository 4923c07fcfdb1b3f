----------------------- MODULE MissionValidationProofs -----------------------
(***************************************************************************)
(* Proofs about MissionValidation for every set of users, missions and     *)
(* admins, every submitter, delay and size of the job's batch.             *)
(***************************************************************************)
EXTENDS MissionValidation, TLAPS

-----------------------------------------------------------------------------
(* Type correctness.                                                       *)

LEMMA KeyType ==
  \A u \in User, m \in Mission, b \in BOOLEAN : <<u, m, b>> \in RowKey
BY DEF RowKey

LEMMA LogType ==
  ASSUME TypeOK, NEW actor \in Actor, NEW u \in User, NEW m \in Mission,
         NEW r \in WorkState, NEW off \in BOOLEAN,
         LogActivity(actor, u, m, r, off)
  PROVE  TypeOK'
<1>0. (actor \in Admin) \in BOOLEAN
  OBVIOUS
<1> DEFINE k == <<u, m, actor \in Admin>>
<1>1. k \in RowKey
  BY <1>0, KeyType
<1>2. 0 \in 0..OldestAge
  BY DelayAssumption DEF OldestAge
<1>3. queue' \in {queue, [queue EXCEPT ![k] = 0]}
  BY DEF LogActivity
<1> HIDE DEF k
<1>4. queue' \in [RowKey -> 0..OldestAge \cup {Null}]
  BY <1>1, <1>2, <1>3 DEF TypeOK
<1> QED
  BY <1>4 DEF LogActivity, Log, Becomes, Revised, TypeOK

LEMMA DequeuedType ==
  ASSUME TypeOK, NEW u \in User, NEW m \in Mission, NEW admin \in BOOLEAN
  PROVE  Dequeued(u, m, admin) \in [RowKey -> 0..OldestAge \cup {Null}]
<1>1. <<u, m, TRUE>> \in RowKey /\ <<u, m, FALSE>> \in RowKey
  BY DEF RowKey
<1>2. 0 \in 0..OldestAge
  BY DelayAssumption DEF OldestAge
<1> QED
  BY <1>1, <1>2 DEF Dequeued, TypeOK

LEMMA ValidationType ==
  ASSUME TypeOK, NEW actor \in Actor \cup {Null}, NEW u \in User,
         NEW m \in Mission, NEW admin \in BOOLEAN, NEW auto \in BOOLEAN,
         validations' = validations \cup
           {[submitter |-> actor, user |-> u, mission |-> m,
             admin |-> admin, auto |-> auto]}
  PROVE  validations' \subseteq Validation
BY DEF TypeOK, Validation

LEMMA RequestType ==
  ASSUME TypeOK, NEW actor \in Actor, Request(actor)
  PROVE  TypeOK'
<1>1. ASSUME NEW u \in User, NEW m \in Mission, NEW r \in WorkState,
             NEW off \in BOOLEAN, LogActivity(actor, u, m, r, off)
      PROVE  TypeOK'
  BY <1>1, LogType
<1>2. ASSUME NEW u \in User, NEW m \in Mission, NEW r \in WorkState,
             EditActivity(actor, u, m, r)
      PROVE  TypeOK'
  BY <1>2 DEF EditActivity, Edit, Becomes, Revised, TypeOK
<1>6. ASSUME NEW u \in User, NEW m \in Mission, NEW r \in WorkState,
             CancelActivities(actor, u, m, r)
      PROVE  TypeOK'
  BY <1>6 DEF CancelActivities, Cancel, Revised, TypeOK
<1>3. ASSUME NEW u \in User, NEW m \in Mission, EndMission(actor, u, m)
      PROVE  TypeOK'
  BY <1>3 DEF EndMission, End, Revised, TypeOK, WorkState
<1>4. ASSUME NEW u \in User, NEW m \in Mission, NEW old \in BOOLEAN,
             ValidateMission(actor, u, m, old)
      PROVE  TypeOK'
  <2>1. (actor \in Admin) \in BOOLEAN
    OBVIOUS
  <2>2. validations' \subseteq Validation
    BY <1>4, <2>1, ValidationType DEF ValidateMission
  <2>3. queue' \in [RowKey -> 0..OldestAge \cup {Null}]
    BY <1>4, <2>1, DequeuedType DEF ValidateMission
  <2>4. revision' \in [User \X Mission -> {0, 1}]
    BY <1>4 DEF ValidateMission, StopsFor, Revised, TypeOK
  <2> QED
    BY <1>4, <2>2, <2>3, <2>4 DEF ValidateMission, TypeOK, WorkState
<1>5. ASSUME NEW u \in User, NEW m \in Mission, LogHoliday(actor, u, m)
      PROVE  TypeOK'
  <2>1. (actor \in Admin) \in BOOLEAN
    OBVIOUS
  <2>2. validations' \subseteq Validation
    BY <1>5, <2>1, ValidationType DEF LogHoliday
  <2> QED
    BY <1>5, <2>2 DEF LogHoliday, TakeDayOff, Revised, TypeOK, WorkState
<1> QED
  BY <1>1, <1>2, <1>3, <1>4, <1>5, <1>6 DEF Request

JobState == [phase : {"idle", "employee", "admin"},
             batch : SUBSET RowKey, fresh : BOOLEAN]

LEMMA JobReadsType ==
  ASSUME NEW phase \in {"employee", "admin"}, JobReads(phase)
  PROVE  job' \in JobState
<1>1. PICK S \in Batches(phase = "admin") :
        job' = [phase |-> phase, batch |-> S, fresh |-> TRUE]
  BY DEF JobReads
<1>2. S \in SUBSET RowKey
  BY DEF Batches
<1> QED
  BY <1>1, <1>2 DEF JobState

LEMMA JobType ==
  ASSUME TypeOK, JobStep
  PROVE  TypeOK'
<1>0. Idle \in JobState
  BY DEF Idle, JobState
<1>1. CASE JobStart
  BY <1>1, JobReadsType DEF JobStart, TypeOK, JobState
<1>2. CASE JobNextPhase
  BY <1>0, <1>2, JobReadsType DEF JobNextPhase, TypeOK, JobState
<1>3. CASE JobStops
  BY <1>0, <1>3 DEF JobStops, TypeOK, JobState
<1>4. ASSUME NEW k \in RowKey, JobHasDone(k)
      PROVE  job' \in JobState
  BY <1>4 DEF JobHasDone, TypeOK, JobState
<1>5. ASSUME NEW k \in RowKey, JobDrops(k)
      PROVE  TypeOK'
  BY <1>4, <1>5 DEF JobDrops, TypeOK, JobState
<1>6. ASSUME NEW k \in RowKey, JobKeeps(k)
      PROVE  TypeOK'
  BY <1>4, <1>6 DEF JobKeeps, TypeOK, JobState
<1>7. ASSUME NEW k \in RowKey, JobValidates(k)
      PROVE  TypeOK'
  <2>1. k[1] \in User /\ k[2] \in Mission /\ k[3] \in BOOLEAN
    BY DEF RowKey
  <2>2. validations' \subseteq Validation
    BY <1>7, <2>1, ValidationType DEF JobValidates
  <2>3. queue' \in [RowKey -> 0..OldestAge \cup {Null}]
    BY <1>7, <2>1, DequeuedType DEF JobValidates
  <2>4. revision' \in [User \X Mission -> {0, 1}]
    BY <1>7, <2>1 DEF JobValidates, Revised, TypeOK
  <2>5. /\ work' \in [User \X Mission -> WorkState]
        /\ ended' \subseteq User \X Mission
        /\ holidays' \subseteq Mission
    BY <1>7, <2>1 DEF JobValidates, End, TypeOK, WorkState
  <2>6. job' \in JobState
    BY <1>4, <1>7 DEF JobValidates
  <2> QED
    BY <2>2, <2>3, <2>4, <2>5, <2>6 DEF TypeOK, JobState
<1> QED
  BY <1>1, <1>2, <1>3, <1>5, <1>6, <1>7 DEF JobStep

LEMMA TickType ==
  ASSUME TypeOK, Tick
  PROVE  TypeOK'
<1>1. \A k \in RowKey : IsQueued(k) /\ queue[k] < OldestAge =>
                          queue[k] + 1 \in 0..OldestAge
  BY DelayAssumption DEF TypeOK, IsQueued, OldestAge
<1>2. queue' \in [RowKey -> 0..OldestAge \cup {Null}]
  BY <1>1 DEF Tick, TypeOK
<1> QED
  BY <1>2 DEF Tick, TypeOK

LEMMA TypeStep == TypeOK /\ [Next]_vars => TypeOK'
<1> SUFFICES ASSUME TypeOK, [Next]_vars
             PROVE  TypeOK'
  OBVIOUS
<1>1. CASE UNCHANGED vars
  BY <1>1 DEF TypeOK, vars
<1>2. CASE Next
  BY <1>2, RequestType, JobType, TickType DEF Next
<1> QED
  BY <1>1, <1>2

LEMMA TypeInitially == Init => TypeOK
BY DEF Init, WorkInit, WorkState, Idle, TypeOK

\* Every reachable state has the types of the tables (TypeOK).
THEOREM TypeCorrect == Spec => []TypeOK
<1>1. Init => TypeOK
  BY TypeInitially
<1>2. TypeOK /\ [Next]_vars => TypeOK'
  BY TypeStep
<1> QED
  BY <1>1, <1>2, PTL DEF Spec

-----------------------------------------------------------------------------
(* The actions, as far as the invariants look at them: which validation is *)
(* added and which work is written.                                        *)

\* One validation is added, for u on m.
Validates(actor, u, m, admin, auto) ==
  validations' = validations \cup
    {[submitter |-> actor, user |-> u, mission |-> m,
      admin |-> admin, auto |-> auto]}

LEMMA OtherValidations ==
  ASSUME NEW actor, NEW u, NEW m, NEW admin, NEW auto,
         Validates(actor, u, m, admin, auto),
         NEW v, NEW n, <<v, n>> # <<u, m>>
  PROVE  /\ ValidationsFor(v, n)' = ValidationsFor(v, n)
         /\ ManuallyValidatedByAdmin(v, n)' <=> ManuallyValidatedByAdmin(v, n)
<1>1. ValidationsFor(v, n)' = ValidationsFor(v, n)
  BY DEF Validates, ValidationsFor
<1> QED
  BY <1>1 DEF ManuallyValidatedByAdmin

\* An automatic validation is never an admin's own.
LEMMA AutomaticIsNotManual ==
  ASSUME NEW actor, NEW u, NEW m, NEW admin,
         Validates(actor, u, m, admin, TRUE),
         NEW v, NEW n
  PROVE  ManuallyValidatedByAdmin(v, n)' => ManuallyValidatedByAdmin(v, n)
BY DEF Validates, ManuallyValidatedByAdmin, ValidationsFor

\* The work of u on m is all that a step writes.
OnlyWorks(u, m) ==
  /\ \A v \in User, n \in Mission : <<v, n>> # <<u, m>> =>
       /\ work'[<<v, n>>] = work[<<v, n>>]
       /\ revision'[<<v, n>>] = revision[<<v, n>>]
       /\ <<v, n>> \in ended' <=> <<v, n>> \in ended

LEMMA WritesOne ==
  ASSUME TypeOK, NEW u \in User, NEW m \in Mission,
         \/ \E actor, r, off : LogActivity(actor, u, m, r, off)
         \/ \E actor, r : EditActivity(actor, u, m, r)
         \/ \E actor, r : CancelActivities(actor, u, m, r)
         \/ \E actor : EndMission(actor, u, m)
         \/ \E actor, old : ValidateMission(actor, u, m, old)
         \/ \E actor : LogHoliday(actor, u, m)
         \/ \E admin : JobValidates(<<u, m, admin>>)
  PROVE  OnlyWorks(u, m)
<1> USE DEF OnlyWorks, TypeOK, Revised
<1>1. ASSUME NEW actor, NEW r, NEW off, LogActivity(actor, u, m, r, off)
      PROVE  OnlyWorks(u, m)
  BY <1>1 DEF LogActivity, Log, Becomes
<1>2. ASSUME NEW actor, NEW r, EditActivity(actor, u, m, r)
      PROVE  OnlyWorks(u, m)
  BY <1>2 DEF EditActivity, Edit, Becomes
<1>3. ASSUME NEW actor, NEW r, CancelActivities(actor, u, m, r)
      PROVE  OnlyWorks(u, m)
  BY <1>3 DEF CancelActivities, Cancel
<1>4. ASSUME NEW actor, EndMission(actor, u, m)
      PROVE  OnlyWorks(u, m)
  BY <1>4 DEF EndMission, End
<1>5. ASSUME NEW actor, NEW old, ValidateMission(actor, u, m, old)
      PROVE  OnlyWorks(u, m)
  BY <1>5 DEF ValidateMission, StopsFor
<1>6. ASSUME NEW actor, LogHoliday(actor, u, m)
      PROVE  OnlyWorks(u, m)
  BY <1>6 DEF LogHoliday, TakeDayOff
<1>7. ASSUME NEW admin, JobValidates(<<u, m, admin>>)
      PROVE  OnlyWorks(u, m)
  BY <1>7 DEF JobValidates, End
<1> HIDE DEF OnlyWorks
<1> QED
  BY <1>1, <1>2, <1>3, <1>4, <1>5, <1>6, <1>7

-----------------------------------------------------------------------------
(* What an admin validated is closed: AdminValidationIsClosed is inductive *)
(* by itself, because every write looks at the validation before it looks  *)
(* at the work, and the end is refused once the mission is ended.          *)

LEMMA ClosedAfter ==
  ASSUME AdminValidationIsClosed, NEW u, NEW m, OnlyWorks(u, m),
         (\A v \in User, n \in Mission : <<v, n>> # <<u, m>> =>
            (ManuallyValidatedByAdmin(v, n)' => ManuallyValidatedByAdmin(v, n))),
         ManuallyValidatedByAdmin(u, m)' =>
           work'[<<u, m>>] = "stopped" /\ <<u, m>> \in ended'
  PROVE  AdminValidationIsClosed'
<1> SUFFICES ASSUME NEW v \in User, NEW n \in Mission,
                    ManuallyValidatedByAdmin(v, n)'
             PROVE  work'[<<v, n>>] = "stopped" /\ <<v, n>> \in ended'
  BY DEF AdminValidationIsClosed
<1>1. CASE <<v, n>> = <<u, m>>
  BY <1>1
<1>2. CASE <<v, n>> # <<u, m>>
  BY <1>2 DEF OnlyWorks, AdminValidationIsClosed
<1> QED
  BY <1>1, <1>2

LEMMA ClosedStep ==
  TypeOK /\ AdminValidationIsClosed /\ [Next]_vars => AdminValidationIsClosed'
<1> SUFFICES ASSUME TypeOK, AdminValidationIsClosed, [Next]_vars
             PROVE  AdminValidationIsClosed'
  OBVIOUS
<1>1. ASSUME UNCHANGED <<work, ended, validations>>
      PROVE  AdminValidationIsClosed'
  BY <1>1 DEF AdminValidationIsClosed, ManuallyValidatedByAdmin, ValidationsFor
<1>2. ASSUME UNCHANGED validations
      PROVE  \A v, n : ManuallyValidatedByAdmin(v, n)'
                         <=> ManuallyValidatedByAdmin(v, n)
  BY <1>2 DEF ManuallyValidatedByAdmin, ValidationsFor
<1>3. ASSUME NEW actor \in Actor, NEW u \in User, NEW m \in Mission,
             NEW r \in WorkState,
             \/ \E off \in BOOLEAN : LogActivity(actor, u, m, r, off)
             \/ EditActivity(actor, u, m, r)
             \/ CancelActivities(actor, u, m, r)
      PROVE  AdminValidationIsClosed'
  <2>1. ~ManuallyValidatedByAdmin(u, m) /\ UNCHANGED validations
    BY <1>3 DEF LogActivity, EditActivity, CancelActivities, MayWriteFor
  <2>2. OnlyWorks(u, m)
    BY <1>3, WritesOne
  <2> QED
    BY <1>2, <2>1, <2>2, ClosedAfter
<1>4. ASSUME NEW actor \in Actor, NEW u \in User, NEW m \in Mission,
             EndMission(actor, u, m)
      PROVE  AdminValidationIsClosed'
  <2>1. ~ManuallyValidatedByAdmin(u, m) /\ UNCHANGED validations
    BY <1>4 DEF EndMission, End, AdminValidationIsClosed
  <2>2. OnlyWorks(u, m)
    BY <1>4, WritesOne
  <2> QED
    BY <1>2, <2>1, <2>2, ClosedAfter
<1>5. ASSUME NEW actor \in Actor, NEW u \in User, NEW m \in Mission,
             NEW old \in BOOLEAN, ValidateMission(actor, u, m, old)
      PROVE  AdminValidationIsClosed'
  <2>0. Validates(actor, u, m, actor \in Admin, FALSE)
    BY <1>5 DEF ValidateMission, Validates
  <2>1. \A v \in User, n \in Mission : <<v, n>> # <<u, m>> =>
          (ManuallyValidatedByAdmin(v, n)' => ManuallyValidatedByAdmin(v, n))
    BY <2>0, OtherValidations, Zenon
  <2>2. work'[<<u, m>>] = "stopped" /\ <<u, m>> \in ended'
    BY <1>5 DEF ValidateMission, TypeOK
  <2>3. OnlyWorks(u, m)
    BY <1>5, WritesOne
  <2> QED
    BY <2>1, <2>2, <2>3, ClosedAfter
<1>6. ASSUME NEW actor \in Actor, NEW u \in User, NEW m \in Mission,
             LogHoliday(actor, u, m)
      PROVE  AdminValidationIsClosed'
  <2>0. Validates(actor, u, m, actor \in Admin, FALSE)
    BY <1>6 DEF LogHoliday, Validates
  <2>1. \A v \in User, n \in Mission : <<v, n>> # <<u, m>> =>
          (ManuallyValidatedByAdmin(v, n)' => ManuallyValidatedByAdmin(v, n))
    BY <2>0, OtherValidations, Zenon
  <2>2. work'[<<u, m>>] = "stopped" /\ <<u, m>> \in ended'
    BY <1>6 DEF LogHoliday, TakeDayOff, TypeOK
  <2>3. OnlyWorks(u, m)
    BY <1>6, WritesOne
  <2> QED
    BY <2>1, <2>2, <2>3, ClosedAfter
<1>7. ASSUME NEW u \in User, NEW m \in Mission, NEW admin \in BOOLEAN,
             JobValidates(<<u, m, admin>>)
      PROVE  AdminValidationIsClosed'
  <2>1. Validates(Null, u, m, admin, TRUE)
    BY <1>7 DEF JobValidates, Validates
  <2>2. ManuallyValidatedByAdmin(u, m) =>
          UNCHANGED <<work, ended>> /\ work[<<u, m>>] = "stopped"
                                   /\ <<u, m>> \in ended
    BY <1>7 DEF JobValidates, AdminValidationIsClosed
  <2>3. OnlyWorks(u, m)
    BY <1>7, WritesOne
  <2> QED
    BY <2>1, <2>2, <2>3, AutomaticIsNotManual, ClosedAfter
<1>8. ASSUME NEW k \in RowKey, JobValidates(k)
      PROVE  AdminValidationIsClosed'
  <2>1. PICK u \in User, m \in Mission, admin \in BOOLEAN : k = <<u, m, admin>>
    BY DEF RowKey
  <2> QED
    BY <1>7, <1>8, <2>1
<1> QED
  BY <1>1, <1>3, <1>4, <1>5, <1>6, <1>8
     DEF Next, Request, JobStep, JobStart, JobNextPhase, JobStops, JobDrops,
         JobKeeps, Tick, vars

\* What an admin validated has closed activities and is ended, and stays so
\* (AdminValidationIsClosed).
THEOREM AdminValidationStaysClosed == Spec => []AdminValidationIsClosed
<1>1. Init => AdminValidationIsClosed
  BY DEF Init, AdminValidationIsClosed, ManuallyValidatedByAdmin, ValidationsFor
<1>2. TypeOK /\ AdminValidationIsClosed /\ [Next]_vars
        => AdminValidationIsClosed'
  BY ClosedStep
<1> QED
  BY <1>1, <1>2, TypeCorrect, PTL DEF Spec

-----------------------------------------------------------------------------
(* PendingEmployeeIsUnvalidated needs one more fact: who is validated has  *)
(* had activities, so the first activity of a user, which queues the       *)
(* automatic validation, finds no validation.                              *)

ValidatedHasWorked ==
  \A u \in User, m \in Mission :
    ValidationsFor(u, m) # {} => work[<<u, m>>] # "none"

QueueInv == TypeOK /\ ValidatedHasWorked /\ PendingEmployeeIsUnvalidated

\* A step on u and m leaves the other rows of the queue or removes them.
OnlyQueues(u, m) ==
  \A v \in User, n \in Mission : <<v, n>> # <<u, m>> =>
    /\ ValidationsFor(v, n)' = ValidationsFor(v, n)
    /\ queue'[<<v, n, FALSE>>] # Null => queue[<<v, n, FALSE>>] # Null

LEMMA QueueAfter ==
  ASSUME QueueInv, TypeOK', NEW u, NEW m, OnlyWorks(u, m), OnlyQueues(u, m),
         holidays \subseteq holidays',
         ValidationsFor(u, m)' # {} => work'[<<u, m>>] # "none",
         m \notin holidays' /\ queue'[<<u, m, FALSE>>] # Null =>
           ValidationsFor(u, m)' = {}
  PROVE  QueueInv'
<1>1. ValidatedHasWorked'
  <2> SUFFICES ASSUME NEW v \in User, NEW n \in Mission,
                      ValidationsFor(v, n)' # {}
               PROVE  work'[<<v, n>>] # "none"
    BY DEF ValidatedHasWorked
  <2>1. CASE <<v, n>> = <<u, m>>
    BY <2>1
  <2>2. CASE <<v, n>> # <<u, m>>
    BY <2>2 DEF OnlyWorks, OnlyQueues, QueueInv, ValidatedHasWorked
  <2> QED
    BY <2>1, <2>2
<1>2. PendingEmployeeIsUnvalidated'
  <2> SUFFICES ASSUME NEW v \in User, NEW n \in Mission, n \notin holidays',
                      queue'[<<v, n, FALSE>>] # Null
               PROVE  ValidationsFor(v, n)' = {}
    BY DEF PendingEmployeeIsUnvalidated, IsQueued
  <2>1. CASE <<v, n>> = <<u, m>>
    BY <2>1
  <2>2. CASE <<v, n>> # <<u, m>>
    BY <2>2 DEF OnlyQueues, QueueInv, PendingEmployeeIsUnvalidated, IsQueued
  <2> QED
    BY <2>1, <2>2
<1> QED
  BY <1>1, <1>2 DEF QueueInv

LEMMA DequeuedRows ==
  ASSUME TypeOK, NEW u \in User, NEW m \in Mission, NEW admin \in BOOLEAN,
         queue' = Dequeued(u, m, admin)
  PROVE  /\ \A v \in User, n \in Mission : <<v, n>> # <<u, m>> =>
              queue'[<<v, n, FALSE>>] = queue[<<v, n, FALSE>>]
         /\ m \notin holidays => queue'[<<u, m, FALSE>>] = Null
<1>1. \A v \in User, n \in Mission : <<v, n, FALSE>> \in RowKey
  BY KeyType
<1> QED
  BY <1>1 DEF Dequeued, TypeOK

LEMMA QueueStep == QueueInv /\ [Next]_vars => QueueInv'
<1> SUFFICES ASSUME QueueInv, [Next]_vars
             PROVE  QueueInv'
  OBVIOUS
<1>0. TypeOK /\ TypeOK'
  BY TypeStep DEF QueueInv
<1>1. ASSUME UNCHANGED <<work, holidays, validations>>,
             \A k \in RowKey : queue'[k] # Null => queue[k] # Null
      PROVE  QueueInv'
  <2>1. \A v, n : ValidationsFor(v, n)' = ValidationsFor(v, n)
    BY <1>1 DEF ValidationsFor
  <2>2. \A v \in User, n \in Mission :
          queue'[<<v, n, FALSE>>] # Null => queue[<<v, n, FALSE>>] # Null
    BY <1>1, KeyType
  <2>3. ValidatedHasWorked'
    BY <1>1, <2>1 DEF QueueInv, ValidatedHasWorked
  <2>4. PendingEmployeeIsUnvalidated'
    BY <1>1, <2>1, <2>2 DEF QueueInv, PendingEmployeeIsUnvalidated, IsQueued
  <2> QED
    BY <1>0, <2>3, <2>4 DEF QueueInv
<1>2. ASSUME UNCHANGED validations
      PROVE  \A v, n : ValidationsFor(v, n)' = ValidationsFor(v, n)
  BY <1>2 DEF ValidationsFor
<1>3. ASSUME NEW actor \in Actor, NEW u \in User, NEW m \in Mission,
             NEW r \in WorkState, NEW off \in BOOLEAN,
             LogActivity(actor, u, m, r, off)
      PROVE  QueueInv'
  <2>1. OnlyWorks(u, m) /\ UNCHANGED validations
    BY <1>0, <1>3, WritesOne DEF LogActivity
  <2>2. /\ work'[<<u, m>>] # "none" /\ holidays \subseteq holidays'
        /\ \/ work[<<u, m>>] = "none"
           \/ UNCHANGED queue
    BY <1>0, <1>3 DEF LogActivity, Log, Becomes, TypeOK
  <2> DEFINE k == <<u, m, actor \in Admin>>
  <2>3. queue' \in {queue, [queue EXCEPT ![k] = 0]} /\ k[1] = u /\ k[2] = m
    BY <1>3 DEF LogActivity
  <2> HIDE DEF k
  <2>4. \A v \in User, n \in Mission : <<v, n>> # <<u, m>> =>
          queue'[<<v, n, FALSE>>] = queue[<<v, n, FALSE>>]
    <3> SUFFICES ASSUME NEW v \in User, NEW n \in Mission,
                        <<v, n>> # <<u, m>>
                 PROVE  queue'[<<v, n, FALSE>>] = queue[<<v, n, FALSE>>]
      OBVIOUS
    <3> DEFINE q == <<v, n, FALSE>>
    <3>1. q[1] = v /\ q[2] = n /\ q \in RowKey
      BY KeyType
    <3> HIDE DEF q
    <3>2. q # k
      BY <2>3, <3>1
    <3>3. queue'[q] = queue[q]
      BY <1>0, <2>3, <3>1, <3>2 DEF TypeOK
    <3> QED
      BY <3>3 DEF q
  <2>5. OnlyQueues(u, m)
    BY <1>2, <2>1, <2>4 DEF OnlyQueues
  <2>6. m \notin holidays' /\ queue'[<<u, m, FALSE>>] # Null =>
          ValidationsFor(u, m)' = {}
    BY <1>2, <2>1, <2>2
       DEF QueueInv, ValidatedHasWorked, PendingEmployeeIsUnvalidated, IsQueued
  <2> QED
    BY <1>0, <2>1, <2>2, <2>5, <2>6, QueueAfter
<1>4. ASSUME NEW actor \in Actor, NEW u \in User, NEW m \in Mission,
             NEW r \in WorkState,
             EditActivity(actor, u, m, r) \/ CancelActivities(actor, u, m, r)
      PROVE  QueueInv'
  <2>1. OnlyWorks(u, m) /\ UNCHANGED <<validations, queue, holidays>>
    BY <1>0, <1>4, WritesOne
       DEF EditActivity, Edit, CancelActivities, Cancel
  <2>2. work'[<<u, m>>] # "none"
    BY <1>0, <1>4 DEF EditActivity, Edit, Becomes, CancelActivities, Cancel,
                      Working, TypeOK
  <2>3. OnlyQueues(u, m)
    BY <1>2, <2>1 DEF OnlyQueues
  <2>4. m \notin holidays' /\ queue'[<<u, m, FALSE>>] # Null =>
          ValidationsFor(u, m)' = {}
    BY <1>2, <2>1 DEF QueueInv, PendingEmployeeIsUnvalidated, IsQueued
  <2> QED
    BY <1>0, <2>1, <2>2, <2>3, <2>4, QueueAfter
<1>5. ASSUME NEW actor \in Actor, NEW u \in User, NEW m \in Mission,
             EndMission(actor, u, m)
      PROVE  QueueInv'
  <2>1. OnlyWorks(u, m) /\ UNCHANGED <<validations, queue, holidays>>
    BY <1>0, <1>5, WritesOne DEF EndMission, End
  <2>2. work[<<u, m>>] # "none" => work'[<<u, m>>] # "none"
    BY <1>0, <1>5 DEF EndMission, End, TypeOK
  <2>3. OnlyQueues(u, m)
    BY <1>2, <2>1 DEF OnlyQueues
  <2>4. m \notin holidays' /\ queue'[<<u, m, FALSE>>] # Null =>
          ValidationsFor(u, m)' = {}
    BY <1>2, <2>1 DEF QueueInv, PendingEmployeeIsUnvalidated, IsQueued
  <2>5. ValidationsFor(u, m)' # {} => work'[<<u, m>>] # "none"
    BY <1>2, <2>1, <2>2 DEF QueueInv, ValidatedHasWorked
  <2> QED
    BY <1>0, <2>1, <2>3, <2>4, <2>5, QueueAfter
\* A validation by a user or by the job.
<1>6. ASSUME NEW submitter, NEW u \in User, NEW m \in Mission,
             NEW admin \in BOOLEAN, NEW auto \in BOOLEAN,
             Validates(submitter, u, m, admin, auto),
             queue' = Dequeued(u, m, admin), OnlyWorks(u, m),
             UNCHANGED holidays, work'[<<u, m>>] # "none"
      PROVE  QueueInv'
  <2>1. \A v \in User, n \in Mission : <<v, n>> # <<u, m>> =>
          ValidationsFor(v, n)' = ValidationsFor(v, n)
    BY <1>6, OtherValidations
  <2>2. OnlyQueues(u, m)
    BY <1>0, <1>6, <2>1, DequeuedRows DEF OnlyQueues
  <2>3. m \notin holidays' => queue'[<<u, m, FALSE>>] = Null
    BY <1>0, <1>6, DequeuedRows
  <2> QED
    BY <1>0, <1>6, <2>2, <2>3, QueueAfter
<1>7. ASSUME NEW actor \in Actor, NEW u \in User, NEW m \in Mission,
             NEW old \in BOOLEAN, ValidateMission(actor, u, m, old)
      PROVE  QueueInv'
  <2> DEFINE admin == actor \in Admin
  <2>1. /\ Validates(actor, u, m, admin, FALSE)
        /\ queue' = Dequeued(u, m, admin) /\ UNCHANGED holidays
    BY <1>7 DEF ValidateMission, Validates
  <2>2. admin \in BOOLEAN
    OBVIOUS
  <2>3. work'[<<u, m>>] # "none"
    BY <1>0, <1>7 DEF ValidateMission, TypeOK
  <2>4. OnlyWorks(u, m)
    BY <1>0, <1>7, WritesOne
  <2> HIDE DEF admin
  <2> QED
    BY <1>6, <2>1, <2>2, <2>3, <2>4
<1>8. ASSUME NEW actor \in Actor, NEW u \in User, NEW m \in Mission,
             LogHoliday(actor, u, m)
      PROVE  QueueInv'
  <2> DEFINE admin == actor \in Admin
             auto == FALSE
  <2>1. Validates(actor, u, m, admin, auto)
    BY <1>8 DEF LogHoliday, Validates
  <2> HIDE DEF admin, auto
  <2>2. \A v \in User, n \in Mission : <<v, n>> # <<u, m>> =>
          ValidationsFor(v, n)' = ValidationsFor(v, n)
    BY <2>1, OtherValidations
  <2>3. /\ UNCHANGED queue /\ m \in holidays' /\ holidays \subseteq holidays'
        /\ work'[<<u, m>>] # "none"
    BY <1>0, <1>8 DEF LogHoliday, TakeDayOff, TypeOK
  <2>4. OnlyWorks(u, m) /\ OnlyQueues(u, m)
    BY <1>0, <1>8, <2>2, <2>3, WritesOne DEF OnlyQueues
  <2> QED
    BY <1>0, <2>3, <2>4, QueueAfter
<1>9. ASSUME NEW k \in RowKey, JobValidates(k)
      PROVE  QueueInv'
  <2>1. PICK u \in User, m \in Mission, admin \in BOOLEAN : k = <<u, m, admin>>
    BY DEF RowKey
  <2>2. /\ Validates(Null, u, m, admin, TRUE)
        /\ queue' = Dequeued(u, m, admin) /\ UNCHANGED holidays
        /\ work'[<<u, m>>] # "none"
    BY <1>0, <1>9, <2>1 DEF JobValidates, Validates, Working, End, TypeOK
  <2>3. OnlyWorks(u, m)
    BY <1>0, <1>9, <2>1, WritesOne
  <2> QED
    BY <1>6, <2>2, <2>3
<1>10. ASSUME NEW k \in RowKey, JobDrops(k)
       PROVE  QueueInv'
  BY <1>0, <1>1, <1>10 DEF JobDrops, TypeOK
<1>11. CASE Tick
  BY <1>0, <1>1, <1>11 DEF Tick, IsQueued
<1> QED
  BY <1>1, <1>3, <1>4, <1>5, <1>7, <1>8, <1>9, <1>10, <1>11
     DEF Next, Request, JobStep, JobStart, JobNextPhase, JobStops, JobKeeps, vars

LEMMA QueueInitially == Init => QueueInv
<1>1. Init => ValidatedHasWorked /\ PendingEmployeeIsUnvalidated
  BY DEF Init, ValidatedHasWorked, PendingEmployeeIsUnvalidated, ValidationsFor
<1> QED
  BY <1>1, TypeInitially DEF QueueInv

LEMMA QueueInvariance == Spec => []QueueInv
<1>1. QueueInv /\ [Next]_vars => QueueInv'
  BY QueueStep
<1> QED
  BY <1>1, QueueInitially, PTL DEF Spec

\* An employee's automatic validation is pending only while nobody validated
\* for that employee (PendingEmployeeIsUnvalidated).
THEOREM PendingStaysUnvalidated == Spec => []PendingEmployeeIsUnvalidated
<1>1. QueueInv => PendingEmployeeIsUnvalidated
  BY DEF QueueInv
<1> QED
  BY <1>1, QueueInvariance, PTL

-----------------------------------------------------------------------------
(* What is settled is not revised.                                         *)

WordIsFinal ==
  \A u \in User, m \in Mission :
    ManuallyValidatedByAdmin(u, m) => revision'[<<u, m>>] = revision[<<u, m>>]

LEMMA FinalAfter ==
  ASSUME NEW u, NEW m, OnlyWorks(u, m),
         ManuallyValidatedByAdmin(u, m) =>
           revision'[<<u, m>>] = revision[<<u, m>>]
  PROVE  WordIsFinal
BY DEF OnlyWorks, WordIsFinal

LEMMA FinalStep ==
  TypeOK /\ AdminValidationIsClosed /\ [Next]_vars => [WordIsFinal]_vars
<1> SUFFICES ASSUME TypeOK, AdminValidationIsClosed, Next
             PROVE  WordIsFinal
  OBVIOUS
<1>1. ASSUME UNCHANGED revision
      PROVE  WordIsFinal
  BY <1>1 DEF WordIsFinal
<1>2. ASSUME NEW actor \in Actor, NEW u \in User, NEW m \in Mission,
             NEW r \in WorkState,
             \/ \E off \in BOOLEAN : LogActivity(actor, u, m, r, off)
             \/ EditActivity(actor, u, m, r)
             \/ CancelActivities(actor, u, m, r)
      PROVE  WordIsFinal
  <2>1. ~ManuallyValidatedByAdmin(u, m)
    BY <1>2 DEF LogActivity, EditActivity, CancelActivities, MayWriteFor
  <2>2. OnlyWorks(u, m)
    BY <1>2, WritesOne
  <2> QED
    BY <2>1, <2>2, FinalAfter
\* The end is refused once the mission is ended, as it is when validated.
<1>3. ASSUME NEW actor \in Actor, NEW u \in User, NEW m \in Mission,
             EndMission(actor, u, m)
      PROVE  WordIsFinal
  <2>1. ~ManuallyValidatedByAdmin(u, m)
    BY <1>3 DEF EndMission, End, AdminValidationIsClosed
  <2>2. OnlyWorks(u, m)
    BY <1>3, WritesOne
  <2> QED
    BY <2>1, <2>2, FinalAfter
<1>4. ASSUME NEW actor \in Actor, NEW u \in User, NEW m \in Mission,
             NEW old \in BOOLEAN, ValidateMission(actor, u, m, old)
      PROVE  WordIsFinal
  <2>1. ManuallyValidatedByAdmin(u, m) =>
          revision'[<<u, m>>] = revision[<<u, m>>]
    BY <1>4 DEF ValidateMission, StopsFor, MayWriteFor
  <2>2. OnlyWorks(u, m)
    BY <1>4, WritesOne
  <2> QED
    BY <2>1, <2>2, FinalAfter
\* A day off goes to a mission without work, so without validation.
<1>5. ASSUME NEW actor \in Actor, NEW u \in User, NEW m \in Mission,
             LogHoliday(actor, u, m)
      PROVE  WordIsFinal
  <2>1. ~ManuallyValidatedByAdmin(u, m)
    BY <1>5 DEF LogHoliday, TakeDayOff, Empty, AdminValidationIsClosed
  <2>2. OnlyWorks(u, m)
    BY <1>5, WritesOne
  <2> QED
    BY <2>1, <2>2, FinalAfter
<1>6. ASSUME NEW k \in RowKey, JobValidates(k)
      PROVE  WordIsFinal
  <2>1. PICK u \in User, m \in Mission, admin \in BOOLEAN : k = <<u, m, admin>>
    BY DEF RowKey
  <2>2. ManuallyValidatedByAdmin(u, m) =>
          revision'[<<u, m>>] = revision[<<u, m>>]
    BY <1>6, <2>1 DEF JobValidates, AdminValidationIsClosed
  <2>3. OnlyWorks(u, m)
    BY <1>6, <2>1, WritesOne
  <2> QED
    BY <2>2, <2>3, FinalAfter
<1> QED
  BY <1>1, <1>2, <1>3, <1>4, <1>5, <1>6
     DEF Next, Request, JobStep, JobStart, JobNextPhase, JobStops, JobDrops,
         JobKeeps, Tick

\* What an admin validated is never revised, by a request or by the job, as
\* long as requests are served one after the other (AdminWordIsFinal).
THEOREM AdminHasTheLastWord == Spec => AdminWordIsFinal
<1>1. TypeOK /\ AdminValidationIsClosed /\ [Next]_vars => [WordIsFinal]_vars
  BY FinalStep
<1> QED
  BY <1>1, TypeCorrect, AdminValidationStaysClosed, PTL
     DEF Spec, AdminWordIsFinal, WordIsFinal

OnlyAdminsRevise ==
  \A u \in User \ Admin, m \in Mission :
    /\ AutoValidated(u, m) \/ ValidatedBySelf(u, m)
    /\ revision'[<<u, m>>] # revision[<<u, m>>]
    => ~\E actor \in Actor \ Admin : Request(actor)

LEMMA SettledStep == QueueInv => OnlyAdminsRevise
<1> SUFFICES ASSUME QueueInv, NEW u \in User \ Admin, NEW m \in Mission,
                    AutoValidated(u, m) \/ ValidatedBySelf(u, m),
                    NEW actor \in Actor \ Admin, Request(actor)
             PROVE  revision'[<<u, m>>] = revision[<<u, m>>]
  BY DEF OnlyAdminsRevise
<1>0. TypeOK
  BY DEF QueueInv
<1>1. /\ ~IsOpenFor(actor, u, m) /\ ~IsOpenFor(u, u, m)
      /\ ValidationsFor(u, m) # {}
  BY DEF IsOpenFor, AutoValidated, ValidatedBySelf
<1>2. ASSUME NEW v \in User, NEW n \in Mission, OnlyWorks(v, n),
             <<v, n>> # <<u, m>>
      PROVE  revision'[<<u, m>>] = revision[<<u, m>>]
  BY <1>2 DEF OnlyWorks
<1>3. ASSUME NEW v \in User, NEW n \in Mission, NEW r \in WorkState,
             \/ \E off \in BOOLEAN : LogActivity(actor, v, n, r, off)
             \/ EditActivity(actor, v, n, r)
             \/ CancelActivities(actor, v, n, r)
      PROVE  revision'[<<u, m>>] = revision[<<u, m>>]
  <2>1. IsOpenFor(actor, v, n)
    BY <1>3 DEF LogActivity, EditActivity, CancelActivities, MayWriteFor
  <2>2. OnlyWorks(v, n)
    BY <1>0, <1>3, WritesOne
  <2> QED
    BY <1>1, <1>2, <2>1, <2>2
\* Stopping what runs is checked as a correction by the user.
<1>4. ASSUME NEW v \in User, NEW n \in Mission, EndMission(actor, v, n)
      PROVE  revision'[<<u, m>>] = revision[<<u, m>>]
  <2>1. IsOpenFor(v, v, n) \/ UNCHANGED revision
    BY <1>4 DEF EndMission, MayWriteFor
  <2>2. OnlyWorks(v, n)
    BY <1>0, <1>4, WritesOne
  <2> QED
    BY <1>1, <1>2, <2>1, <2>2
<1>5. ASSUME NEW v \in User, NEW n \in Mission, NEW old \in BOOLEAN,
             ValidateMission(actor, v, n, old)
      PROVE  revision'[<<u, m>>] = revision[<<u, m>>]
  <2>1. IsOpenFor(actor, v, n) \/ UNCHANGED revision
    BY <1>5 DEF ValidateMission, StopsFor, MayWriteFor
  <2>2. OnlyWorks(v, n)
    BY <1>0, <1>5, WritesOne
  <2> QED
    BY <1>1, <1>2, <2>1, <2>2
<1>6. ASSUME NEW v \in User, NEW n \in Mission, LogHoliday(actor, v, n)
      PROVE  revision'[<<u, m>>] = revision[<<u, m>>]
  <2>1. work[<<v, n>>] = "none"
    BY <1>6 DEF LogHoliday, TakeDayOff, Empty
  <2>2. <<v, n>> # <<u, m>>
    BY <1>1, <2>1 DEF QueueInv, ValidatedHasWorked
  <2>3. OnlyWorks(v, n)
    BY <1>0, <1>6, WritesOne
  <2> QED
    BY <1>2, <2>2, <2>3
<1> QED
  BY <1>3, <1>4, <1>5, <1>6 DEF Request

\* Once a user's work is validated by the user or automatically, no request
\* of an employee revises it (OnlyAdminsReviseSettledWork).
THEOREM SettledWorkIsForAdmins == Spec => OnlyAdminsReviseSettledWork
<1>1. QueueInv => [OnlyAdminsRevise]_vars
  BY SettledStep
<1> QED
  BY <1>1, QueueInvariance, PTL
     DEF OnlyAdminsReviseSettledWork, OnlyAdminsRevise
=============================================================================
