\* A driver's correction that was authorised before the admin validated.
CONSTANTS
  driver = driver
  boss = boss
  User = {driver}
  Manager = {boss}
  Admin = {boss}
  Mission = {m1}
  Submitter <- CreatedByDriver
  TeamMode = FALSE
  Null = null
  EmployeeDelay = 0
  AdminDelay = 1
  BatchSize = 2
  Worker = {w1}
SPECIFICATION ConcurrentSpec
PROPERTY AdminWordIsFinal
