\* One driver on two missions and a day off that stays queued: three rows for
\* the two places of a batch, some deleted after the job has read them.
CONSTANTS
  driver = driver
  mate = mate
  boss = boss
  m1 = m1
  m2 = m2
  m3 = m3
  User = {driver}
  Manager = {}
  Admin = {}
  Mission = {m1, m2, m3}
  Submitter <- CreatedByDriver
  TeamMode = FALSE
  Null = null
  EmployeeDelay = 0
  AdminDelay = 0
  BatchSize = 2
SPECIFICATION BatchSpec
PROPERTY QueuedIsDecided
