---------------------------- MODULE AlertsSummary ----------------------------
(***************************************************************************)
(* The alerts a manager is shown: the summary of a month or a week with    *)
(* its groups and its trend (domain/regulatory_alerts_summary.py) and the  *)
(* numbers of the calendar (domain/regulation_computations.py), counted    *)
(* apart from the same rows.                                               *)
(*                                                                         *)
(* A computation is one day of those of Regulations, of which the alerts   *)
(* are kept: any may be raised.  Days are numbers, weeks and months so     *)
(* many of them.                                                           *)
(***************************************************************************)
EXTENDS Integers, FiniteSets, FiniteSetsExt

CONSTANTS
  Driver,          \* the users
  SummaryWeek,        \* days in a week
  MonthDays,       \* days in a month
  LastAlertDay,    \* bound: the days worked
  LegacyDay,       \* the last day computed with the checks of before
  MaxComputations  \* bound: the computations

VARIABLES
  alertRows,     \* regulatory_alert, of the administrators' version
  computedDays,  \* regulation_computation, likewise
  staff,         \* the users employed today
  computations   \* how many computations were made

summaryVars == <<alertRows, computedDays, staff, computations>>

\* What one daily check may have raised: the check and what its extra says.
DailyAlerts ==
  {[check |-> "minimumDailyRest", extra |-> "none"],
   [check |-> "maximumWorkDayTime", extra |-> "day"],
   [check |-> "maximumWorkDayTime", extra |-> "night"],
   [check |-> "enoughBreak", extra |-> "break"],
   [check |-> "enoughBreak", extra |-> "work"],
   [check |-> "enoughBreak", extra |-> "both"]}

\* The checks "enoughBreak" replaced.
LegacyAlerts ==
  {[check |-> "minimumWorkDayBreak", extra |-> "none"],
   [check |-> "maximumUninterruptedWorkTime", extra |-> "none"]}

WeeklyAlerts == {[check |-> "maximumWorkInCalendarWeek", extra |-> "none"]}

WeeklyChecks == {a.check : a \in WeeklyAlerts}

Monday(day) == day - (day % SummaryWeek)

\* The rows raised of a user's day by one computation: at most one by check.
AlertRowsOf(u, day, alerts) ==
  {[user |-> u, day |-> day, check |-> a.check, extra |-> a.extra] : a \in alerts}

\* compute_regulations deletes the alerts of the day and of its week.
RowsKept(u, day) ==
  {a \in alertRows : ~ /\ a.user = u
                       /\ IF a.check \in WeeklyChecks THEN a.day = Monday(day) ELSE a.day = day}

ComputeAlerts(u, day, daily, weekly) ==
  /\ computations < MaxComputations
  /\ \A a, b \in daily : a.check = b.check => a = b
  /\ computations' = computations + 1
  /\ alertRows' = RowsKept(u, day) \cup AlertRowsOf(u, day, daily) \cup AlertRowsOf(u, Monday(day), weekly)
  /\ computedDays' = computedDays \cup {<<u, day>>, <<u, Monday(day)>>}
  /\ UNCHANGED staff

LeaveStaff(u) ==
  /\ u \in staff
  /\ staff' = staff \ {u}
  /\ UNCHANGED <<alertRows, computedDays, computations>>

JoinStaff(u) ==
  /\ u \notin staff
  /\ staff' = staff \cup {u}
  /\ UNCHANGED <<alertRows, computedDays, computations>>

-----------------------------------------------------------------------------
(* get_regulatory_alerts_summary, of the window [from, to).                 *)

AlertsInWindow(from, to, users) ==
  {a \in alertRows : a.user \in users /\ from <= a.day /\ a.day < to}

HasComputationInWindow(from, to, users) ==
  \E c \in computedDays : c[1] \in users /\ from <= c[2] /\ c[2] < to

\* _count_double_alerts
DoubleAlerts(rows) == {a \in rows : a.extra = "both"}

\* Seeded fault: the alerts that count twice count once.
CountOnceInWindow(from, to, users) == Cardinality(AlertsInWindow(from, to, users))

\* _count_alerts_in_window, for the month before.
CountAlertsInWindow(from, to, users) ==
  LET rows == AlertsInWindow(from, to, users)
  IN  Cardinality(rows) + Cardinality(DoubleAlerts(rows))

\* _append_alerts_for_check: the groups an alert is shown in.
GroupsOf(a) ==
  CASE a.check = "enoughBreak" ->
         {g \in {"notEnoughBreak", "tooMuchUninterruptedWorkTime"} :
            \/ a.extra = "both"
            \/ a.extra = "break" /\ g = "notEnoughBreak"
            \/ a.extra = "work" /\ g = "tooMuchUninterruptedWorkTime"}
    [] a.check = "minimumWorkDayBreak" -> {"notEnoughBreak"}
    [] a.check = "maximumUninterruptedWorkTime" -> {"tooMuchUninterruptedWorkTime"}
    [] a.check = "maximumWorkDayTime" /\ a.extra = "night" -> {"maximumNightWorkDayTime"}
    [] OTHER -> {a.check}

AlertsGroup(type, rows) ==
  LET shown == {a \in rows : type \in GroupsOf(a)}
  IN  [type |-> type,
       nb |-> Cardinality(shown),
       details |-> {<<a.day, a.user>> : a \in shown}]

GroupTypes ==
  {"minimumDailyRest", "maximumWorkDayTime", "maximumNightWorkDayTime",
   "notEnoughBreak", "tooMuchUninterruptedWorkTime"} \cup WeeklyChecks

NoSummary == [total |-> 0, groups |-> {}]

Summary(from, to, users) ==
  LET rows == AlertsInWindow(from, to, users)
  IN  IF ~HasComputationInWindow(from, to, users) THEN NoSummary
      ELSE [total |-> Cardinality(rows) + Cardinality(DoubleAlerts(rows)),
            groups |-> {AlertsGroup(type, rows) : type \in GroupTypes}]

-----------------------------------------------------------------------------
(* get_company_admin_regulation_computations                                *)

DailyNumber(u, day) ==
  LET rows == {a \in alertRows : a.user = u /\ a.day = day /\ a.check \notin WeeklyChecks}
  IN  Cardinality(rows \ {a \in rows : a.check = "enoughBreak"})
      + Cardinality({a \in rows : a.check = "enoughBreak" /\ a.extra \in {"work", "both"}})
      + Cardinality({a \in rows : a.check = "enoughBreak" /\ a.extra \in {"break", "both"}})

WeeklyNumber(u, day) ==
  Cardinality({a \in alertRows : a.user = u /\ a.day = day /\ a.check \in WeeklyChecks})

\* An entry for each computation.
Calendar(from, to, users) ==
  {[user |-> c[1], day |-> c[2],
    daily |-> DailyNumber(c[1], c[2]), weekly |-> WeeklyNumber(c[1], c[2])] :
   c \in {d \in computedDays : d[1] \in users /\ from <= d[2] /\ d[2] < to}}

-----------------------------------------------------------------------------
SummaryInit ==
  /\ alertRows = {}
  /\ computedDays = {}
  /\ staff = Driver
  /\ computations = 0

SummaryNext ==
  \E u \in Driver :
    \/ LeaveStaff(u)
    \/ JoinStaff(u)
    \/ \E day \in 0..LastAlertDay, weekly \in SUBSET WeeklyAlerts :
         \E daily \in SUBSET (DailyAlerts \cup IF day <= LegacyDay THEN LegacyAlerts ELSE {}) :
           ComputeAlerts(u, day, daily, weekly)

SummarySpec == SummaryInit /\ [][SummaryNext]_summaryVars

-----------------------------------------------------------------------------
\* Every variable has its type, and the unique constraint of the alerts
\* holds: one row for a user, a day and a check.
SummaryTypeOK ==
  /\ staff \subseteq Driver
  /\ computations \in 0..MaxComputations
  /\ \A c \in computedDays : c[1] \in Driver /\ c[2] \in 0..LastAlertDay
  /\ \A a \in alertRows : a.user \in Driver /\ a.day \in 0..LastAlertDay
  /\ \A a, b \in alertRows : (a.user = b.user /\ a.day = b.day /\ a.check = b.check) => a = b

Months == 0..(LastAlertDay \div MonthDays)

MonthSummary(m) == Summary(m * MonthDays, (m + 1) * MonthDays, staff)

\* The total of a summary is the sum of the groups it is broken into, for
\* every month and every week: an alert of two parts counts in both.
GroupsAddUp ==
  LET addsUp(s) == s.total = MapThenSumSet(LAMBDA g : g.nb, s.groups)
  IN  /\ \A m \in Months : addsUp(MonthSummary(m))
      /\ \A w \in 0..(LastAlertDay \div SummaryWeek) :
           addsUp(Summary(w * SummaryWeek, (w + 1) * SummaryWeek, staff))

\* The alerts the calendar shows day by day add up to the total of the month,
\* although a weekly alert is kept at a Monday the month may not have worked.
CalendarAddsUp ==
  \A m \in Months :
    MonthSummary(m).total =
      MapThenSumSet(LAMBDA e : e.daily + e.weekly,
                    Calendar(m * MonthDays, (m + 1) * MonthDays, staff))

\* The trend compares a month with what was shown as the total of the month
\* before.
TrendIsLastTotal ==
  \A m \in Months :
    CountAlertsInWindow(m * MonthDays, (m + 1) * MonthDays, staff) = MonthSummary(m).total

\* The total of a month, its groups, its calendar and the trend of the next
\* month count the same alerts, while computations replace them.
SummaryAddsUp ==
  /\ SummaryTypeOK
  /\ GroupsAddUp
  /\ CalendarAddsUp
  /\ TrendIsLastTotal
=============================================================================
