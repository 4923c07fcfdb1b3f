SPECIFICATION JobsSpec
CONSTANTS
  Company = {c1}
  Employment = {e1, e2}
  Mission = {m1, m2}
  User = {u1, u2}
  Place <- Places
  MaxCrashes = 1
  Employee = {1, 2}
  WorkedOn <- Rota
  ExportCompany = {1, 2}
  StaffOf <- Staff
  ExportWorker = {w1, w2}
  LastDate = 4
  MonthLength = 2
  YearLength = 4
  MonthSplit = 2
  YearSplit = 4
  UsersPerBatch = 1
  MaxExports = 2
  Prospect = {p1, p2}
  FunnelSiren = {s1, s2}
  NoSiren = NoSiren
  SirenLayouts <- Layouts
  KnownSirens = {s2}
  LastFunnelDay = 1
  AccountDeadline = 1
  PhoningDay = 1
  MissionDeadline = 0
  MaxFailures = 1
  Siren = {s1, s2}
  Establishment = {e1, e2}
  SignUpRequest = {r1, r2}
  CompanyRow = {1, 2, 3}
  OldInfo = 2
  RowsPerNight = 1
  MaxOutages = 1
  w1 = w1
  w2 = w2
  c1 = c1
  m1 = m1
  m2 = m2
  e1 = e1
  e2 = e2
  u1 = u1
  u2 = u2
  p1 = p1
  p2 = p2
  s1 = s1
  s2 = s2
  r1 = r1
  r2 = r2
CONSTRAINT JobsAreSmall
INVARIANTS
  ExportsAreWhole
  RegistryIsSound
PROPERTIES
  AnonymizationIsSafe
  FunnelIsTrue
  JobsCatchUp
CHECK_DEADLOCK FALSE
