\* A mission end and a new activity at once.
CONSTANTS
  User = {u1}
  Mission = {m1}
  Activity = {a1, a2}
  WorkType = {drive}
  Off = off
  Null = null
  Worker = {w1, w2}
  Instant = {0, 1, 2}
  Clock = {2}
  Minute = 1
  MaxAhead = 2
  MaxVersions = 2
SPECIFICATION ConcurrentSpec
SYMMETRY Names
\* The bounds on rows and versions make the model stop.
CHECK_DEADLOCK FALSE
INVARIANT EndedMissionIsStopped
