\* Two requests at once on a mission of two activities: creations, switches,
\* corrections and cancellations that overlap, or mix, when both are committed.
CONSTANTS
  User = {u1}
  Mission = {m1}
  Activity = {a1, a2}
  WorkType = {drive, work}
  Off = off
  Null = null
  Worker = {w1, w2}
  Instant = {0, 1}
  Clock = {0, 1}
  Minute = 1
  MaxAhead = 1
  MaxVersions = 2
SPECIFICATION ConcurrentSpec
SYMMETRY Names
\* The bounds on rows and versions make the model stop.
CHECK_DEADLOCK FALSE
INVARIANT CorrectionsDoNotMix
PROPERTY NoCorrectionIsLost
