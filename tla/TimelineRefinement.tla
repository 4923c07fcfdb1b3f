------------------------- MODULE TimelineRefinement -------------------------
(***************************************************************************)
(* Timeline implements MissionWork.                                        *)
(***************************************************************************)
EXTENDS Timeline

\* What a table T shows of user u on mission m.
WorkOf(T, u, m) ==
  IF \A a \in Logged(T) : ~(T[a].user = u /\ T[a].mission = m) THEN "none"
  ELSE IF LiveIn(T, u, m) = {} THEN "cancelled"
  ELSE IF \E a \in LiveIn(T, u, m) : Running(T, a) THEN "running"
  ELSE "stopped"

WorkShown(T) == [p \in User \X Mission |-> WorkOf(T, p[1], p[2])]

HolidaysShown(T) == {m \in Mission : IsHoliday(T, m)}

Work == INSTANCE MissionWork WITH
  work     <- WorkShown(activities),
  ended    <- ends,
  holidays <- HolidaysShown(activities)

\* Every write on the timeline, whatever the times and the rows it touches,
\* is one of the steps that the validation of missions is built on: rows are
\* never undismissed, a day off is alone, a mission that runs is not ended.
ImplementsMissionWork == Work!WorkSpec
=============================================================================
