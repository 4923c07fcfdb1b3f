---------------------------- MODULE Regulations ----------------------------
(***************************************************************************)
(* The regulatory alerts of one user: his work days, which group the       *)
(* activities of his missions by calendar day (domain/work_days.py), what  *)
(* the daily and weekly checks say of them (domain/regulations_per_day.py, *)
(* regulations_per_week) and which alerts a validation or a cancellation   *)
(* replaces (domain/regulations.py).                                       *)
(*                                                                         *)
(* Time is counted in slots from the midnight that starts day 0 in the     *)
(* time zone of the user, DayLength slots a day, the first NightLength of  *)
(* which are the night.  An activity has ended: a mission is validated     *)
(* only then, and holidays are left out of the query.  A layout maps each  *)
(* mission to its acknowledged activities in order; a cancelled mission    *)
(* has none.                                                               *)
(*                                                                         *)
(* The admin's alerts are computed from the missions an admin validated,   *)
(* the employee's from those the employee validated.  The thresholds are   *)
(* those of the regulation checks for the business of the user, in slots.  *)
(***************************************************************************)
EXTENDS Integers, Sequences, FiniteSets, SequencesExt

CONSTANTS
    Mission,        \* the missions of the user
    DayLength,      \* slots in a day
    NightLength,    \* slots of a day that are night work for the legislation
    Limits,         \* the variables of the regulation checks
    WeekLength,     \* days in a week
    Layouts,        \* the layouts the user may have logged
    MaxMoves        \* bound on the corrections of validated missions

VARIABLES
    layout,         \* the acknowledged activities of each mission
    validated,      \* [submitter type -> the missions validated]
    seen,           \* [mission -> its activities when the employee validated]
    alerts,         \* [submitter type -> rows of regulatory_alert]
    computed,       \* [submitter type -> days of regulation_computation]
    edits           \* corrections made after a validation

regulationVars ==
    <<layout, validated, seen, alerts, computed, edits>>

Submitter == {"admin", "employee"}
DailyCheck == {"minimumDailyRest", "maximumWorkDayTime", "enoughBreak"}
WeeklyCheck == {"maximumWorkedDaysInWeek", "maximumWorkInCalendarWeek"}

---------------------------------------------------------------------------
(* The work days.                                                          *)
NotWork == {"transfer"}

StartOfDay(day) == day * DayLength
EndOfDay(day) == StartOfDay(day + 1)
DayOf(time) == time \div DayLength

AtLeast(i, j) == IF i < j THEN j ELSE i
AtMost(i, j) == IF i < j THEN i ELSE j

(* The part of an activity between two times.                              *)
DurationOver(a, from, to) ==
    AtLeast(0, AtMost(a.end, to) - AtLeast(a.start, from))

(* Activities, which do not overlap, by start.                             *)
InOrder(activities) ==
    [i \in 1..Cardinality(activities) |->
        CHOOSE a \in activities :
            Cardinality({b \in activities : b.start < a.start}) = i - 1]

---------------------------------------------------------------------------
(* One WorkDay for each day from the first activity of a mission to its    *)
(* last, shared with the mission before when that one ended on it; the     *)
(* days without an activity are dropped at the end.                        *)
FirstDayOf(activities) == DayOf(activities[1].start)
LastDayOf(activities) == DayOf(Last(activities).end)

ActivitiesOn(day, activities) ==
    {a \in ToSet(activities) :
        a.start < EndOfDay(day) /\ a.end > StartOfDay(day)}

AddMissionOn(rows, day, activities) ==
    IF rows # <<>> /\ Last(rows).day = day
    THEN [rows EXCEPT ![Len(rows)].activities =
                          @ \cup ActivitiesOn(day, activities)]
    ELSE Append(rows, [day |-> day,
                       activities |-> ActivitiesOn(day, activities)])

AddMission(rows, activities) ==
    FoldLeft(LAMBDA r, day : AddMissionOn(r, day, activities), rows,
             [i \in 1..(LastDayOf(activities) - FirstDayOf(activities) + 1) |->
                 FirstDayOf(activities) + i - 1])

(* The missions of a scope, first activity first.                          *)
MissionsInOrder(plan, scope) ==
    LET first == InOrder({plan[m][1] : m \in {n \in scope : plan[n] # <<>>}})
    IN  [i \in DOMAIN first |-> plan[first[i].mission]]

GroupByDay(plan, scope) ==
    LET missions == MissionsInOrder(plan, scope)
        rows == FoldLeft(AddMission, <<>>, missions)
        worked == SelectSeq(rows, LAMBDA row : row.activities # {})
    IN  [i \in DOMAIN worked |->
            [worked[i] EXCEPT !.activities = InOrder(@)]]

RowsBetween(rows, from, until) ==
    SelectSeq(rows, LAMBDA row : row.day \in from..until)

---------------------------------------------------------------------------
RowStart(row) == AtLeast(row.activities[1].start, StartOfDay(row.day))
RowEnd(row) == AtMost(Last(row.activities).end, EndOfDay(row.day))

OverlapsPreviousDay(plan, row) ==
    plan[row.activities[1].mission][1].start < StartOfDay(row.day)
OverlapsNextDay(plan, row) ==
    Last(plan[Last(row.activities).mission]).end > EndOfDay(row.day)

(* compute_aggregate_durations, for the day of the row.                    *)
TotalOver(activities, from, to) ==
    FoldLeft(LAMBDA sum, a : sum + DurationOver(a, from, to), 0, activities)

ServiceDuration(row) == RowEnd(row) - RowStart(row)

WorkOf(activities) == SelectSeq(activities, LAMBDA a : a.kind \notin NotWork)

WorkDuration(row) ==
    TotalOver(WorkOf(row.activities), StartOfDay(row.day), EndOfDay(row.day))

NightDuration(row) ==
    TotalOver(WorkOf(row.activities), StartOfDay(row.day),
              StartOfDay(row.day) + NightLength)

---------------------------------------------------------------------------
(* The rows a daily check looks at.                                        *)
CurrentRows(rows, day) ==
    SelectSeq(rows, LAMBDA r : /\ RowStart(r) <= EndOfDay(day)
                               /\ RowEnd(r) > StartOfDay(day))

CurrentAndNextRows(rows, day) ==
    SelectSeq(rows, LAMBDA r : /\ RowStart(r) <= EndOfDay(day + 1)
                               /\ RowEnd(r) > StartOfDay(day))

AllActivities(rows) ==
    FoldLeft(LAMBDA all, r : all \o r.activities, <<>>, rows)

(* The pauses of at least LONG_BREAK_DURATION_IN_HOURS.                    *)
LongBreaks(activities) ==
    LET pauses == [i \in 1..(Len(activities) - 1) |->
                      [start |-> activities[i].end,
                       end |-> activities[i + 1].start]]
    IN  SelectSeq(pauses, LAMBDA p : p.end - p.start >= Limits.longBreak)

---------------------------------------------------------------------------
(* check_min_daily_rest: an activity of the day is covered by the long     *)
(* break that ends its period when that break has lasted long enough 24    *)
(* hours after the activity started.  The end of the last row counts as a  *)
(* long break.                                                             *)
Uncovered(activities, breaks, i, day) ==
    {a \in ToSet(activities) :
        /\ a.start < EndOfDay(day)
        /\ a.end >= StartOfDay(day)
        /\ a.start < breaks[i].end
        /\ i > 1 => a.start >= breaks[i - 1].end
        /\ a.start < breaks[i].start + Limits.longBreak - DayLength}

MinDailyRest(rows, day) ==
    LET activities == AllActivities(rows)
        end == RowEnd(Last(rows))
        breaks == Append(LongBreaks(activities),
                         [start |-> end, end |-> end + Limits.longBreak])
    IN  \/ rows = <<>>
        \/ \A i \in DOMAIN breaks : Uncovered(activities, breaks, i, day) = {}

---------------------------------------------------------------------------
(* check_max_work_day_time: the activities are walked through in order and *)
(* the counters start anew after each long break; what was exceeded before *)
(* is kept.  The amplitude is shared out between the activities of a row,  *)
(* here in units of 1/6 slot: a row has at most three activities.          *)
Unique(rows) == InOrder(ToSet(AllActivities(rows)))

Resets(activities) ==
    LET breaks == LongBreaks(activities)
    IN  {activities[Min({j \in DOMAIN activities :
                           activities[j].start >= breaks[i].end})] :
            i \in DOMAIN breaks}

RowOf(rows, a) ==
    Last(SelectSeq(rows, LAMBDA r : a \in ToSet(r.activities)))

MaxWorkDayTime(night, amplitude) ==
    IF night THEN Limits.maxNight
    ELSE IF Limits.trigger > 0 /\ amplitude > 6 * Limits.trigger
    THEN Limits.maxHighAmplitude
    ELSE Limits.maxDay

NoWalk == [amplitude |-> 0, worked |-> 0, night |-> FALSE, breach |-> FALSE]

Exceeded(walk) == walk.worked > MaxWorkDayTime(walk.night, walk.amplitude)

AtResetForgetful(walk) == NoWalk
AtReset(walk) == [NoWalk EXCEPT !.breach = walk.breach \/ Exceeded(walk)]

Counted(walk, row, a) ==
    [walk EXCEPT
        !.amplitude = @ + (6 * ServiceDuration(row)) \div Len(row.activities),
        !.night = @ \/ NightDuration(row) > 0,
        !.worked = IF a.kind \in NotWork THEN @ ELSE @ + (a.end - a.start)]

WorkDayWalk(rows) ==
    LET activities == Unique(rows)
        resets == Resets(activities)
        Step(walk, a) ==
            Counted(IF a \in resets THEN AtReset(walk) ELSE walk,
                    RowOf(rows, a), a)
    IN  FoldLeft(Step, NoWalk, activities)

MaxWorkTime(rows) ==
    LET walk == WorkDayWalk(rows) IN ~walk.breach /\ ~Exceeded(walk)

---------------------------------------------------------------------------
(* check_min_work_day_break and check_max_uninterrupted_work_time, merged  *)
(* by check_has_enough_break.  A transfer counts as a break of the second  *)
(* and not of the first.                                                   *)
BreakTime(activities) ==
    LET pause(i) == activities[i + 1].start - activities[i].end
        Step(sum, i) == IF pause(i) >= Limits.individualBreak
                        THEN sum + pause(i) ELSE sum
    IN  FoldLeft(Step, 0, [i \in 1..(Len(activities) - 1) |-> i])

EnoughWorkDayBreak(rows) ==
    LET work == FoldLeft(LAMBDA sum, r : sum + WorkDuration(r), 0, rows)
        pauses == BreakTime(AllActivities(rows))
    IN  /\ work > Limits.work1 /\ work <= Limits.work2 =>
               pauses >= Limits.break1
        /\ work > Limits.work1 /\ work > Limits.work2 =>
               pauses >= Limits.break2

NoRun == [length |-> 0, end |-> -1, tooLong |-> FALSE]

InRun(run, a) ==
    LET before == IF run.end = -1 \/ a.start > run.end THEN 0 ELSE run.length
        now == before + (a.end - a.start)
    IN  [length |-> now, end |-> a.end,
         tooLong |-> run.tooLong \/ now > Limits.uninterrupted]

UninterruptedWorkTime(rows) ==
    LET work == SelectSeq(Unique(rows), LAMBDA a : a.kind # "transfer")
    IN  ~FoldLeft(InRun, NoRun, work).tooLong

EnoughBreak(rows) == EnoughWorkDayBreak(rows) /\ UninterruptedWorkTime(rows)

(* compute_regulations_per_day: the checks that fail on a day.             *)
DayAlerts(rows, day) ==
    LET today == CurrentRows(rows, day)
    IN  {c \in DailyCheck :
            \/ /\ c = "minimumDailyRest"
               /\ ~MinDailyRest(CurrentAndNextRows(rows, day), day)
            \/ c = "maximumWorkDayTime" /\ ~MaxWorkTime(today)
            \/ c = "enoughBreak" /\ ~EnoughBreak(today)}

---------------------------------------------------------------------------
FirstDayOfWeek(day) == day - (day % WeekLength)
LastDayOfWeek(day) == FirstDayOfWeek(day) + WeekLength - 1

(* compute_weekly_rest_duration: a day without work adds to the break, a   *)
(* day whose first mission did not start before it closes it, and a day    *)
(* whose last mission ends on it opens the next one.                       *)
RestStep(l, rows, rest, day) ==
    LET row == CHOOSE r \in ToSet(rows) : r.day = day
        closed == rest.current + RowStart(row) - StartOfDay(day)
        kept == IF OverlapsPreviousDay(l, row)
                THEN rest
                ELSE [longest |-> AtLeast(rest.longest, closed), current |-> 0]
    IN  IF \A r \in ToSet(rows) : r.day # day
        THEN [rest EXCEPT !.current = @ + DayLength]
        ELSE IF OverlapsNextDay(l, row) THEN kept
        ELSE [kept EXCEPT !.current = EndOfDay(day) - RowEnd(row)]

WeekDays(monday) == [i \in 1..WeekLength |-> monday + i - 1]

WeeklyRest(l, rows, monday) ==
    LET rest == FoldLeft(LAMBDA r, day : RestStep(l, rows, r, day),
                         [longest |-> 0, current |-> 0], WeekDays(monday))
    IN  AtLeast(rest.longest, rest.current)

(* compute_regulations_per_week.                                           *)
WeekAlerts(l, rows, monday) ==
    LET week == RowsBetween(rows, monday, LastDayOfWeek(monday))
        work == FoldLeft(LAMBDA sum, r : sum + WorkDuration(r), 0, week)
    IN  {c \in WeeklyCheck :
            \/ /\ c = "maximumWorkedDaysInWeek"
               /\ \/ Len(week) > Limits.weekDays
                  \/ WeeklyRest(l, week, monday) < Limits.weekRest
            \/ c = "maximumWorkInCalendarWeek" /\ work > Limits.weekWork}

---------------------------------------------------------------------------
(* compute_regulations: the alerts of the days from the day before the     *)
(* period to its end, and of the weeks around, are deleted and made anew   *)
(* from the missions of the scope; the days are marked as computed, the    *)
(* first one only when it has work.                                        *)
DailyRows(rows, days) ==
    UNION {{[day |-> day, check |-> c] : c \in DayAlerts(rows, day)} :
              day \in days}

WeeklyRows(l, rows, mondays) ==
    UNION {{[day |-> day, check |-> c] : c \in WeekAlerts(l, rows, day)} :
              day \in mondays}

Mondays(from, to) ==
    {day \in FirstDayOfWeek(from)..LastDayOfWeek(to) : day % WeekLength = 0}

Outdated(row, from, to) ==
    IF row.check \in DailyCheck
    THEN row.day \in from..to
    ELSE row.day \in FirstDayOfWeek(from)..LastDayOfWeek(to)

RowsFor(l, scope, from, to) ==
    RowsBetween(GroupByDay(l, scope), FirstDayOfWeek(from),
                AtLeast(LastDayOfWeek(to), to + 1))

Recomputed(old, l, scope, start, to) ==
    LET from == start - 1
        rows == RowsFor(l, scope, from, to)
    IN  {row \in old : ~Outdated(row, from, to)}
            \cup DailyRows(rows, from..to)
            \cup WeeklyRows(l, rows, Mondays(from, to))

Marked(l, scope, start, to) ==
    LET from == start - 1
    IN  start..to \cup Mondays(from, to)
            \cup (IF CurrentRows(RowsFor(l, scope, from, to), from) # <<>>
                  THEN {from} ELSE {})

ComputeRegulations(submitter, l, scope, start, to) ==
    /\ alerts' = [alerts EXCEPT ![submitter] =
                     Recomputed(@, l, scope, start, to)]
    /\ computed' = [computed EXCEPT ![submitter] =
                       @ \cup Marked(l, scope, start, to)]

---------------------------------------------------------------------------
RegulationInit ==
    /\ layout \in Layouts
    /\ validated = [s \in Submitter |-> {}]
    /\ seen = [m \in Mission |-> <<>>]
    /\ alerts = [s \in Submitter |-> {}]
    /\ computed = [s \in Submitter |-> {}]
    /\ edits = 0

(* ValidateMission by the employee, for himself.  A second validation      *)
(* finds the row of the first, whose time stays.                           *)
EmployeeValidates(m) ==
    /\ layout[m] # <<>>
    /\ validated' = [validated EXCEPT !["employee"] = @ \cup {m}]
    /\ seen' = IF m \in validated["employee"] THEN seen
               ELSE [seen EXCEPT ![m] = layout[m]]
    /\ ComputeRegulations("employee", layout, validated'["employee"],
                          FirstDayOf(layout[m]), LastDayOf(layout[m]))
    /\ UNCHANGED <<layout, edits>>

(* ValidateMission by an admin: the period also covers the days of the     *)
(* version the employee validated.                                         *)
AdminPeriod(m) ==
    IF m \in validated["employee"]
    THEN [from |-> AtMost(FirstDayOf(layout[m]), FirstDayOf(seen[m])),
          to |-> AtLeast(LastDayOf(layout[m]), LastDayOf(seen[m]))]
    ELSE [from |-> FirstDayOf(layout[m]), to |-> LastDayOf(layout[m])]

AdminValidates(m) ==
    /\ layout[m] # <<>>
    /\ validated' = [validated EXCEPT !["admin"] = @ \cup {m}]
    /\ ComputeRegulations("admin", layout, validated'["admin"],
                          AdminPeriod(m).from, AdminPeriod(m).to)
    /\ UNCHANGED <<layout, seen, edits>>

(* CancelMission: an admin has the alerts of the days of the mission       *)
(* computed again, the employee, who may cancel until an admin validated,  *)
(* has not.                                                                *)
AdminCancels(m) ==
    /\ layout[m] # <<>>
    /\ layout' = [layout EXCEPT ![m] = <<>>]
    /\ ComputeRegulations("admin", layout', validated["admin"],
                          FirstDayOf(layout[m]), LastDayOf(layout[m]))
    /\ UNCHANGED <<validated, seen, edits>>

EmployeeCancels(m) ==
    /\ layout[m] # <<>>
    /\ m \notin validated["admin"]
    /\ layout' = [layout EXCEPT ![m] = <<>>]
    /\ UNCHANGED <<validated, seen, alerts, computed, edits>>

(* EditActivity by an admin, once the mission is validated: the alerts     *)
(* wait for the next validation.  The correction moves the mission a day   *)
(* later, clear of the other missions and of what the employee validated.   *)
Later(activities) ==
    [i \in DOMAIN activities |->
        [activities[i] EXCEPT !.start = @ + DayLength, !.end = @ + DayLength]]

Apart(activities, others) ==
    others # <<>> => \/ Last(activities).end <= others[1].start
                     \/ Last(others).end <= activities[1].start

Correct(m) ==
    /\ edits < MaxMoves
    /\ \E s \in Submitter : m \in validated[s]
    /\ layout[m] # <<>>
    /\ \A n \in Mission \ {m} : /\ Apart(Later(layout[m]), layout[n])
                               /\ Apart(Later(layout[m]), seen[n])
    /\ layout' = [layout EXCEPT ![m] = Later(@)]
    /\ edits' = edits + 1
    /\ UNCHANGED <<validated, seen, alerts, computed>>

(* compute_regulation_for_user, the command: the alerts are deleted and    *)
(* made anew, for each run of consecutive work days, the employee's from   *)
(* the version he validated.                                               *)
EmployeeVersion ==
    [m \in Mission |-> IF m \in validated["employee"] THEN seen[m] ELSE <<>>]

VersionFor(submitter) ==
    IF submitter = "admin" THEN layout ELSE EmployeeVersion

WorkedDays(l, scope) == {row.day : row \in ToSet(GroupByDay(l, scope))}

Runs(days) ==
    {r \in [start : days, end : days] :
        /\ r.start <= r.end
        /\ r.start..r.end \subseteq days
        /\ r.start - 1 \notin days
        /\ r.end + 1 \notin days}

ComputeForUser ==
    LET days(s) == WorkedDays(VersionFor(s), validated[s])
        rows(s) == FoldLeft(LAMBDA old, r : Recomputed(old, VersionFor(s),
                                               validated[s], r.start, r.end),
                            {}, InOrder(Runs(days(s))))
        marked(s) == UNION {Marked(VersionFor(s), validated[s], r.start, r.end) :
                               r \in Runs(days(s))}
    IN  /\ alerts' = [s \in Submitter |-> rows(s)]
        /\ computed' = [s \in Submitter |-> marked(s)]
        /\ UNCHANGED <<layout, validated, seen, edits>>

RegulationNext ==
    \/ \E m \in Mission : \/ EmployeeValidates(m)
                          \/ AdminValidates(m)
                          \/ AdminCancels(m)
                          \/ EmployeeCancels(m)
                          \/ Correct(m)
    \/ ComputeForUser

RegulationSpec == RegulationInit /\ [][RegulationNext]_regulationVars

---------------------------------------------------------------------------
(* The alerts of a whole computation over every day with work.             *)
AllDays(l, scope) ==
    LET days == WorkedDays(l, scope)
    IN  IF days = {} THEN {} ELSE (Min(days) - 1)..Max(days)

FreshAlerts(l, scope) ==
    LET rows == GroupByDay(l, scope)
        days == AllDays(l, scope)
    IN  DailyRows(rows, days)
            \cup WeeklyRows(l, rows, {FirstDayOfWeek(day) : day \in days})

(* Only validated missions count, an alert is of a known check, and the    *)
(* monday of a week carries its weekly alerts.                             *)
RegulationTypeOK ==
    /\ \A s \in Submitter : validated[s] \subseteq Mission
    /\ \A s \in Submitter : \A row \in alerts[s] :
           \/ row.check \in DailyCheck
           \/ row.check \in WeeklyCheck /\ row.day % WeekLength = 0
    /\ \A s \in Submitter : computed[s] \subseteq Int
    /\ \A m \in Mission : seen[m] # <<>> <=> m \in validated["employee"]
    /\ edits \in 0..MaxMoves

(* Each validation and each cancellation computes a few days and weeks     *)
(* only, yet as long as no mission was corrected after a validation the    *)
(* admin's alerts are those of a whole computation: the day before, the    *)
(* day after and the weeks around are enough (compute_regulations).        *)
AdminAlertsAreCurrent ==
    edits = 0 => alerts["admin"] = FreshAlerts(layout, validated["admin"])

(* An alert is read through the computation of its day                     *)
(* (RegulationComputationOutput.resolve_regulation_checks): the day before *)
(* the period, left unmarked when it is empty, never carries one.          *)
AlertsAreShown ==
    \A s \in Submitter : \A row \in alerts[s] : row.day \in computed[s]

(* The long breaks of the rows and the one assumed after the last row tell *)
(* what the whole timeline says: a day has no daily rest alert exactly     *)
(* when each activity of the day is followed by a rest of the required     *)
(* length that is over 24 hours after the activity started.                *)
Resting(activities, from) ==
    \A a \in ToSet(activities) :
        DurationOver(a, from, from + Limits.longBreak) = 0

DailyRestIsTaken ==
    LET rows == GroupByDay(layout, Mission)
        all == AllActivities(rows)
    IN  \A day \in WorkedDays(layout, Mission) :
            MinDailyRest(CurrentAndNextRows(rows, day), day)
              <=> \A a \in ToSet(all) :
                      a.start < EndOfDay(day) /\ a.end > StartOfDay(day) =>
                        \E from \in a.end..(a.start + DayLength - Limits.longBreak) :
                            Resting(all, from)

(* The walk with its counters says what the periods between long breaks    *)
(* say: some period exceeds its own limit (check_max_work_day_time, whose  *)
(* reset once erased the breach of the period before).                     *)
Periods(activities) ==
    {p \in SUBSET ToSet(activities) :
        /\ p # {}
        /\ \A a, b \in ToSet(activities) :
              /\ b.start >= a.end
              /\ \A c \in ToSet(activities) : c.end <= a.end \/ c.start >= b.start
              => IF b.start - a.end >= Limits.longBreak
                 THEN ~(a \in p /\ b \in p) ELSE (a \in p <=> b \in p)
        /\ \A a, b \in p : \A c \in ToSet(activities) :
              a.start <= c.start /\ c.start <= b.start => c \in p}

PeriodWalk(rows, period) ==
    FoldLeft(LAMBDA walk, a : Counted(walk, RowOf(rows, a), a), NoWalk,
             InOrder(period))

EveryPeriodCounts ==
    LET rows == GroupByDay(layout, Mission)
    IN  \A day \in WorkedDays(layout, Mission) :
            LET today == CurrentRows(rows, day)
            IN  MaxWorkTime(today)
                  <=> \A p \in Periods(Unique(today)) :
                          ~Exceeded(PeriodWalk(today, p))

\* The alerts kept are those of the work as it is until it is corrected, on
\* days that were computed, by checks that agree with what the rules ask.
AlertsAreRight ==
  /\ RegulationTypeOK
  /\ AdminAlertsAreCurrent
  /\ AlertsAreShown
  /\ DailyRestIsTaken
  /\ EveryPeriodCounts
===========================================================================
