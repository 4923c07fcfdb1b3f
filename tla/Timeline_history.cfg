\* Two users on one mission, two kinds of work, two readings of the clock
\* and times that fall inside a minute: what each write leaves in the
\* history, and every write against the steps of MissionWork.
CONSTANTS
  User = {u1, u2}
  Mission = {m1}
  Activity = {a1, a2}
  WorkType = {drive, work}
  Off = off
  Null = null
  Instant = {0, 3, 5}
  Clock = {3, 5}
  Minute = 2
  MaxAhead = 2
  MaxVersions = 2
SPECIFICATION Spec
SYMMETRY Renamings
\* The bounds on rows, versions and the clock make the model stop.
CHECK_DEADLOCK FALSE
INVARIANT TypeOK
INVARIANT VersionsTellThePresent
INVARIANT HolidayMissionHoldsOneDay
PROPERTY PastIsImmutable
PROPERTY ImplementsMissionWork
