\* Three activities of one user over two missions at one reading of the
\* clock: every way of filling, correcting, cancelling and ending the slots
\* of a period, the smallest in which two missions can interleave.
CONSTANTS
  User = {u1}
  Mission = {m1, m2}
  Activity = {a1, a2, a3}
  WorkType = {drive}
  Off = off
  Null = null
  Instant = {0, 1, 2}
  Clock = {2}
  Minute = 1
  MaxAhead = 2
  MaxVersions = 2
SPECIFICATION Spec
VIEW Present
SYMMETRY Rows
\* The bounds on rows and versions make the model stop.
CHECK_DEADLOCK FALSE
INVARIANT MissionsDoNotInterleave
INVARIANT EndedMissionIsStopped
PROPERTY EndIsTakenBackByRunning
