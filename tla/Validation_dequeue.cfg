\* A day off that an employee logs as an ordinary activity stays queued.
CONSTANTS
  driver = driver
  mate = mate
  boss = boss
  m1 = m1
  m2 = m2
  m3 = m3
  User = {driver}
  Manager = {boss}
  Admin = {boss}
  Mission = {m1}
  Submitter <- CreatedByDriver
  TeamMode = FALSE
  Null = null
  EmployeeDelay = 0
  AdminDelay = 1
  BatchSize = 2
SPECIFICATION Spec
INVARIANT AutoValidatedIsDequeued
