\* A driver, a team mate and an admin on one mission of the driver's.
CONSTANTS
  driver = driver
  mate = mate
  boss = boss
  m1 = m1
  m2 = m2
  m3 = m3
  User = {driver, mate}
  Manager = {boss}
  Admin = {boss}
  Mission = {m1}
  Submitter <- CreatedByDriver
  TeamMode = TRUE
  Null = null
  EmployeeDelay = 0
  AdminDelay = 0
  BatchSize = 1
SPECIFICATION Spec
VIEW Unrevised
INVARIANT AdminValidationIsClosed
INVARIANT PendingEmployeeIsUnvalidated
PROPERTY AdminWordIsFinal
PROPERTY OnlyAdminsReviseSettledWork
