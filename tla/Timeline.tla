------------------------------ MODULE Timeline ------------------------------
(***************************************************************************)
(* The time-tracking core: the activities of the users on their missions,  *)
(* the versions each correction leaves behind and the mission ends.        *)
(*                                                                         *)
(* One action is one database transaction (atomic_transaction in           *)
(* app/controllers/utils.py): it either commits all its writes or is       *)
(* rolled back, so a refused request is simply a step that is not taken.   *)
(* Transactions run one after the other here; TimelineConcurrent           *)
(* interleaves them.  Who may write on a mission is the subject of module  *)
(* MissionValidation: here every request comes from an authorised actor,   *)
(* which allows more behaviours than the code does.                        *)
(***************************************************************************)
EXTENDS Integers, Sequences, FiniteSets

CONSTANTS
  User,         \* the workers whose time is recorded
  Mission,      \* the missions (the row of a mission is created before)
  Activity,     \* the identifiers of the rows of table activity
  WorkType,     \* drive, work, support, transfer
  Off,          \* the type of a day off
  Null,         \* SQL NULL: no end time, not dismissed, no row
  Instant,      \* the times a request may carry, in seconds
  Clock,        \* the readings of datetime.now(), in seconds
  Minute,       \* seconds in a minute: stored times have no seconds
  MaxAhead,     \* MAXIMUM_TIME_AHEAD_FOR_EVENT
  MaxVersions   \* bound: versions a row may have

ASSUME TimeAssumption ==
  /\ Instant \subseteq Int
  /\ Clock \subseteq Int
  /\ Minute \in Nat \ {0}
  /\ MaxAhead \in Nat \ {0}

ASSUME RowsAssumption ==
  /\ IsFiniteSet(Activity)
  /\ MaxVersions \in Nat \ {0}

ASSUME NullAssumption == Null \notin Int

VARIABLES
  now,          \* the clock of the server
  activities,   \* tables activity and activity_version, by activity id
  ends          \* table mission_end: the (user, mission) that are ended

vars == <<now, activities, ends>>

-----------------------------------------------------------------------------
(* Rows.                                                                   *)

Type == WorkType \cup {Off}

Version == [start : Int, end : Int \cup {Null}, at : Int]

Row == [user : User, mission : Mission, type : Type,
        start : Int, end : Int \cup {Null},
        dismissedAt : Int \cup {Null},
        versions : Seq(Version)]

\* A row that is not in the table is Null, which is no row.
ASSUME NoRowAssumption == Null \notin Row

\* Period drops the seconds of every time it stores.
ToMinute(t) == IF t = Null THEN Null ELSE t - (t % Minute)

NewVersion(s, e) == [start |-> ToMinute(s), end |-> ToMinute(e), at |-> now]

NewRow(u, m, ty, s, e) ==
  [user |-> u, mission |-> m, type |-> ty,
   start |-> ToMinute(s), end |-> ToMinute(e),
   dismissedAt |-> Null, versions |-> <<NewVersion(s, e)>>]

\* Seeded fault: the correction overwrites the latest version.
RevisedInPlace(row, s, e) ==
  [row EXCEPT !.start = ToMinute(s), !.end = ToMinute(e),
              !.versions = [@ EXCEPT ![Len(@)] = NewVersion(s, e)]]

\* Seeded fault: the version keeps the start the correction changed.
RevisedStaleVersion(row, s, e) ==
  [row EXCEPT !.start = ToMinute(s), !.end = ToMinute(e),
              !.versions = Append(@, NewVersion(row.start, e))]

Revised(row, s, e) ==
  [row EXCEPT !.start = ToMinute(s), !.end = ToMinute(e),
              !.versions = Append(@, NewVersion(s, e))]

Dismissed(row) == [row EXCEPT !.dismissedAt = now]

-----------------------------------------------------------------------------
(* Queries.  T is a state of the table: a transaction reads its own        *)
(* pending writes.                                                         *)

Logged(T) == {a \in Activity : T[a] # Null}

Live(T) == {a \in Logged(T) : T[a].dismissedAt = Null}

LiveOf(T, u) == {a \in Live(T) : T[a].user = u}

LiveIn(T, u, m) == {a \in LiveOf(T, u) : T[a].mission = m}

Running(T, a) == T[a].end = Null

IsHoliday(T, m) ==
  \E a \in Logged(T) : T[a].mission = m /\ T[a].type = Off

IsEmpty(T, m) == \A a \in Logged(T) : T[a].mission # m

\* x has ended when y starts.
EndsBefore(T, x, y) == ~Running(T, x) /\ T[x].end <= T[y].start

First(T, S) == CHOOSE a \in S : \A b \in S : T[a].start <= T[b].start

Last(T, S) == CHOOSE a \in S : \A b \in S : T[b].start <= T[a].start

\* The activity of the mission that covers instant t.
IsCurrentAt(T, a, t) ==
  /\ T[a].start <= t
  /\ ~Running(T, a) => T[a].end > t

-----------------------------------------------------------------------------
(* Checks.                                                                 *)

InTheFuture(t) == t # Null /\ t - now >= MaxAhead

\* The activities of u that are over when the mission period starts, and
\* those that start once it is over.
BeforePeriod(T, u, first) == {a \in LiveOf(T, u) : EndsBefore(T, a, first)}

AfterPeriod(T, u, last) == {a \in LiveOf(T, u) : EndsBefore(T, last, a)}

\* Seeded fault: only the activities inside the period are looked at.
PeriodIsFreeInside(T, u, m) ==
  LET mine == LiveIn(T, u, m)
  IN mine # {} =>
       \A c \in LiveOf(T, u) \ mine :
         EndsBefore(T, c, First(T, mine)) \/ EndsBefore(T, Last(T, mine), c)

\* The period of a mission runs from its first activity to the end of its
\* last one.  No activity of another mission may cross it, and the two
\* activities around it may not belong to one mission.
PeriodIsFree(T, u, m) ==
  LET mine   == LiveIn(T, u, m)
      first  == First(T, mine)
      last   == Last(T, mine)
      before == BeforePeriod(T, u, first)
      after  == AfterPeriod(T, u, last)
  IN mine # {} =>
       /\ \A c \in LiveOf(T, u) \ mine :
            EndsBefore(T, c, first) \/ EndsBefore(T, last, c)
       /\ before # {} /\ after # {} =>
            T[Last(T, before)].mission # T[First(T, after)].mission

\* The constraints of the database: activity_start_time_before_end_time
\* and, when the transaction commits, no_overlapping_acknowledged_activities.
DurationsArePositive(T) ==
  \A a \in Logged(T) : ~Running(T, a) => T[a].start < T[a].end

NoOverlap(T) ==
  \A a, b \in Live(T) :
    a # b /\ T[a].user = T[b].user =>
      EndsBefore(T, a, b) \/ EndsBefore(T, b, a)

Commit(T) ==
  /\ DurationsArePositive(T)
  /\ NoOverlap(T)
  /\ activities' = T

\* Seeded fault: a mission that runs again stays ended.
ReopenedNever(u, m, e) == ends

\* Seeded fault: every write takes the mission end back.
ReopenedAlways(u, m, e) == ends \ {<<u, m>>}

\* A write that leaves an activity open takes the mission end back.
Reopened(u, m, e) == IF e = Null THEN ends \ {<<u, m>>} ELSE ends

-----------------------------------------------------------------------------
Init ==
  /\ now \in Clock
  /\ activities = [a \in Activity |-> Null]
  /\ ends = {}

Tick ==
  /\ now' \in Clock
  /\ now' > now
  /\ UNCHANGED <<activities, ends>>

\* Seeded fault: nothing keeps an activity out of a holiday mission.
MayLogOnHoliday(m, ty, s, e) ==
  /\ ~InTheFuture(s) /\ ~InTheFuture(e)
  /\ ty = Off => IsEmpty(activities, m)

\* The checks of handle_activities_update that precede a creation.
MayLog(m, ty, s, e) ==
  /\ ~InTheFuture(s) /\ ~InTheFuture(e)
  /\ ~IsHoliday(activities, m)
  /\ ty = Off => IsEmpty(activities, m)

Insert(T, a, u, m, ty, s, e) == [T EXCEPT ![a] = NewRow(u, m, ty, s, e)]

Revise(T, a, s, e) == [T EXCEPT ![a] = Revised(@, s, e)]

Dismiss(T, S) == [a \in Activity |-> IF a \in S THEN Dismissed(T[a]) ELSE T[a]]

\* What the last step of handle_activities_update and the commit accept.
CheckedWrite(T, u, m) == PeriodIsFree(T, u, m) /\ Commit(T)

\* A new activity that closes none: switch mode is off, or nothing is
\* current at its start.
CanLog(a, u, m, ty, s, e, switch) ==
  /\ activities[a] = Null
  /\ MayLog(m, ty, s, e)
  /\ switch => /\ e = Null
               /\ \A c \in LiveIn(activities, u, m) :
                    ~IsCurrentAt(activities, c, s)

LogActivity(a, u, m, ty, s, e, switch) ==
  /\ CanLog(a, u, m, ty, s, e, switch)
  /\ CheckedWrite(Insert(activities, a, u, m, ty, s, e), u, m)
  /\ ends' = Reopened(u, m, e)
  /\ UNCHANGED now

\* Switch mode: the running activity c ends where the new one starts.  (If
\* c already has the type asked for, the request writes nothing.)
CanSwitch(a, c, ty, s) ==
  /\ activities[a] = Null
  /\ MayLog(activities[c].mission, ty, s, Null)
  /\ IsCurrentAt(activities, c, s)
  /\ Running(activities, c)
  /\ activities[c].type # ty
  /\ Len(activities[c].versions) < MaxVersions

Switch(T, a, c, ty, s) ==
  Insert(Revise(T, c, T[c].start, s),
         a, T[c].user, T[c].mission, ty, s, Null)

SwitchActivity(a, c, ty, s) ==
  LET u == activities[c].user
      m == activities[c].mission
  IN /\ CanSwitch(a, c, ty, s)
     /\ CheckedWrite(Switch(activities, a, c, ty, s), u, m)
     /\ ends' = Reopened(u, m, Null)
     /\ UNCHANGED now

\* A correction of the times of an activity.
CanEdit(a, s, e) ==
  /\ <<s, e>> # <<activities[a].start, activities[a].end>>
  /\ ~InTheFuture(s) /\ ~InTheFuture(e)
  /\ Len(activities[a].versions) < MaxVersions

EditActivity(a, s, e) ==
  LET u == activities[a].user
      m == activities[a].mission
  IN /\ CanEdit(a, s, e)
     /\ CheckedWrite(Revise(activities, a, s, e), u, m)
     /\ ends' = Reopened(u, m, e)
     /\ UNCHANGED now

\* A cancellation is not checked against the other missions and takes no
\* mission end back.
CancelActivity(a) ==
  /\ ~InTheFuture(activities[a].start)
  /\ Commit(Dismiss(activities, {a}))
  /\ UNCHANGED <<now, ends>>

\* CancelMission dismisses every activity of the user on the mission.
CancelMission(u, m) ==
  LET mine == LiveIn(activities, u, m)
  IN /\ mine # {}
     /\ \A a \in mine : ~InTheFuture(activities[a].start)
     /\ Commit(Dismiss(activities, mine))
     /\ UNCHANGED <<now, ends>>

\* end_mission_for_user refuses a time before the end of what is logged.
CanEnd(u, m, t) ==
  LET mine == LiveIn(activities, u, m)
      last == Last(activities, mine)
  IN /\ <<u, m>> \notin ends
     /\ mine # {} =>
          /\ activities[last].start <= t
          /\ ~Running(activities, last) => activities[last].end <= t

\* Seeded fault: the mission ends and its last activity still runs.
EndMissionRunning(u, m, t) ==
  /\ CanEnd(u, m, t)
  /\ ends' = ends \cup {<<u, m>>}
  /\ UNCHANGED <<now, activities>>

\* The last activity, if it still runs, ends with the mission.
EndMission(u, m, t) ==
  LET mine == LiveIn(activities, u, m)
      last == Last(activities, mine)
  IN /\ CanEnd(u, m, t)
     /\ IF mine # {} /\ Running(activities, last)
          THEN /\ ~InTheFuture(t)
               /\ Len(activities[last].versions) < MaxVersions
               /\ CheckedWrite(
                    Revise(activities, last, activities[last].start, t), u, m)
          ELSE UNCHANGED activities
     /\ ends' = ends \cup {<<u, m>>}
     /\ UNCHANGED now

\* Seeded fault: the columns of the mission end are swapped.
CloseMissionSwapped(u, m) ==
  /\ LiveIn(activities, u, m) # {}
  /\ \A a \in LiveIn(activities, u, m) : ~Running(activities, a)
  /\ <<u, m>> \notin ends
  /\ ends' = ends \cup {<<m, u>>}
  /\ UNCHANGED <<now, activities>>

\* Validating a mission that nobody ended also ends it.
CloseMission(u, m) ==
  LET mine == LiveIn(activities, u, m)
  IN /\ mine # {}
     /\ \A a \in mine : ~Running(activities, a)
     /\ <<u, m>> \notin ends
     /\ ends' = ends \cup {<<u, m>>}
     /\ UNCHANGED <<now, activities>>

\* A day off is logged in a mission of its own, which is validated, and so
\* ended, in the same transaction.
LogHoliday(a, u, m, s, e) ==
  /\ activities[a] = Null
  /\ e # Null
  /\ IsEmpty(activities, m) /\ \A v \in User : <<v, m>> \notin ends
  /\ MayLog(m, Off, s, e)
  /\ CheckedWrite(Insert(activities, a, u, m, Off, s, e), u, m)
  /\ ends' = ends \cup {<<u, m>>}
  /\ UNCHANGED now

Next ==
  \/ Tick
  \/ \E a \in Activity, u \in User, m \in Mission, ty \in Type,
        s \in Instant, e \in Instant \cup {Null}, switch \in BOOLEAN :
          LogActivity(a, u, m, ty, s, e, switch)
  \/ \E a \in Activity, c \in Live(activities), ty \in Type, s \in Instant :
          SwitchActivity(a, c, ty, s)
  \/ \E a \in Live(activities) :
       \/ CancelActivity(a)
       \/ \E s \in Instant \cup {activities[a].start},
             e \in Instant \cup {Null, activities[a].end} :
               EditActivity(a, s, e)
  \/ \E u \in User, m \in Mission :
       \/ CancelMission(u, m)
       \/ CloseMission(u, m)
       \/ \E t \in Instant : EndMission(u, m, t)
       \/ \E a \in Activity, s, e \in Instant : LogHoliday(a, u, m, s, e)

Spec == Init /\ [][Next]_vars

-----------------------------------------------------------------------------
(* What was known in the past.                                             *)

VersionsBefore(row, t) == {i \in DOMAIN row.versions : row.versions[i].at <= t}

\* The version of a row that was current at instant t, and the first one of
\* a row that was logged later.
VersionAt(row, t) ==
  LET known == VersionsBefore(row, t)
  IN row.versions[IF known = {} THEN 1
                  ELSE CHOOSE i \in known : \A j \in known : j <= i]

IsDismissedAt(row, t) == row.dismissedAt # Null /\ row.dismissedAt <= t

\* The timeline as it was recorded at instant t: the rows received by then.
\* The frozen exports, the alerts and the comparison with what an employee
\* validated read it.
KnownAt(T, t) ==
  [a \in {b \in Logged(T) : T[b].versions[1].at <= t /\ ~IsDismissedAt(T[b], t)}
     |-> VersionAt(T[a], t)]

\* What a controller is shown of a control made at t, who asks for the rows
\* logged afterwards too (include_posteriori_activities): the rows that start
\* by t, where the start is that of the row as it is now.
ControlAt(T, t) ==
  [a \in {b \in Logged(T) : T[b].start <= t /\ ~IsDismissedAt(T[b], t)}
     |-> VersionAt(T[a], t)]

-----------------------------------------------------------------------------
(* Properties.                                                             *)

\* Every row has the columns of its table and at most one end is kept for a
\* user and a mission.
TypeOK ==
  /\ now \in Clock
  /\ activities \in [Activity -> Row \cup {Null}]
  /\ ends \subseteq User \X Mission

\* The missions of a user follow one another: between two activities of one
\* mission there is never an activity of another mission.  The code checks
\* only the mission it writes to (_check_inter_mission_overlaps), so this is
\* about what every sequence of writes leaves.
DoNotInterleave(T) ==
  \A u \in User : \A a, b, c \in LiveOf(T, u) :
    /\ T[a].mission = T[b].mission
    /\ T[a].start < T[c].start
    /\ T[c].start < T[b].start
    => T[c].mission = T[a].mission

MissionsDoNotInterleave == DoNotInterleave(activities)

\* Once a mission is ended for a user, none of the user's activities on it
\* is running: a running activity can be left behind neither by the end nor
\* by a later log, correction or cancellation.
EndedMissionIsStopped ==
  \A u \in User, m \in Mission :
    <<u, m>> \in ends =>
      \A a \in LiveIn(activities, u, m) : ~Running(activities, a)

\* What the versions say of the present is what the activity rows say: the
\* rows and their history never drift apart.
VersionsTellThePresent ==
  /\ DOMAIN KnownAt(activities, now) = Live(activities)
  /\ \A a \in Live(activities) :
       LET v == KnownAt(activities, now)[a]
       IN v.start = activities[a].start /\ v.end = activities[a].end

\* A mission that records a day off holds nothing else, for any user.
HolidayMissionHoldsOneDay ==
  \A a, b \in Logged(activities) :
    /\ activities[a].mission = activities[b].mission
    /\ activities[a].type = Off
    => a = b

\* What a control made at t shows of table T is kept in table U.
ControlIsKept(T, U, t) ==
  LET before == ControlAt(T, t)
      after  == ControlAt(U, t)
  IN /\ \A a \in DOMAIN before \cap DOMAIN after : after[a] = before[a]
     /\ \A a \in DOMAIN before \ DOMAIN after : U[a].start > t
     /\ \A a \in DOMAIN after \ DOMAIN before : T[a] = Null \/ T[a].start > t

\* No write changes what was known at an earlier instant.  What a controller
\* reads of it changes by one thing only, the start of a row: what is logged
\* late, or moved, to before the control comes in, and what is moved after the
\* control goes out.  A correction changes no time the controller was shown of
\* a row that stays, and a cancellation takes none away
\* (Activity.version_at, freeze_activity_at, resolve_activities).
PastIsImmutable ==
  [][\A t \in Clock : t < now =>
       /\ KnownAt(activities', t) = KnownAt(activities, t)
       /\ ControlIsKept(activities, activities', t)]_vars

\* A mission end is taken back only by a write that leaves the user running
\* on that mission.
EndIsTakenBackByRunning ==
  [][\A u \in User, m \in Mission :
       <<u, m>> \in ends \ ends' =>
         \E a \in LiveIn(activities', u, m) : Running(activities', a)]_vars
=============================================================================
