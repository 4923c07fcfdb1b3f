SPECIFICATION RecordsSpec
CONSTANTS
  boss = boss
  worker = worker
  acme = acme
  e1 = e1
  e2 = e2
  e3 = e3
  m1 = m1
  m2 = m2
  p1 = p1
  p2 = p2
  t1 = t1
  t2 = t2
  v1 = v1
  a1 = a1
  a2 = a2
  d1 = d1
  d2 = d2
  c1 = c1
  c2 = c2
  x1 = x1
  x2 = x2
  User = {boss, worker}
  Worker = {worker}
  Company = {acme}
  Employment = {e1, e2, e3}
  Founder <- FoundedByBoss
  Null = null
  LastDay = 1
  Process = {x1, x2}
  Device = {x1, x2}
  ControlId = {c1}
  NoControl = NoControl
  MaxQr = 1
  MaxEdits = 1
  Mission = {m1, m2}
  DayLength = 4
  NightLength = 1
  Limits <- SmallLimits
  WeekLength = 2
  Layouts <- SmallLayouts
  MaxMoves = 1
  Person = {p1, p2}
  TeamId = {t1, t2}
  NoTeam = NoTeam
  Spelling = {"AB-1", "AB 1"}
  PlateOf <- OnePlate
  GivenPlace <- TwoFloats
  Exact = {"half"}
  TeamRequest = {x1, x2}
  MaxVehicles = 2
  MaxPlaces = 1
  Trip = {m1}
  Truck = {v1}
  NoTruck = NoTruck
  Spot = {a1, a2}
  RecordRequest = {x1, x2}
  MaxReading = 2
  MaxEntryRows = 2
  LastTripDay = 2
  Author = {worker}
  CertFirm = {c1}
  FirmManager = {a1, a2}
  ManagersOf <- BothManage
  MonthFacts <- SmallMonths
  LastCertDay = 6
  MaxCertFaults = 1
  RowFacts <- EightRows
  ActivityRows = {1, 2, 3, 4, 5, 6, 7, 8}
  Reader = 1
  ReadFirm = 1
  DayTime = 4
  PageSizes = {1, 2}
  RowFloor = 5
  MaxRowChanges = 1
  Driver = {d1, d2}
  SummaryWeek = 2
  MonthDays = 3
  LastAlertDay = 3
  LegacyDay = 0
  MaxComputations = 2
  Act = {a1, a2}
  Nil = Nil
  DisputeDelay = 1
  LastSpan = 1
  MaxWrites = 4
  CardMinutes = 3
  CardSpace = 36
  MaxCabRecords = 2
  Ride = {1, 2, 3}
  CabOf <- CabOfRide
  NoCab = NoCab
  CardType = {"drive", "support"}
  LastCardMinute = 6
  MaxDriverActs = 3
  KeyRequest = {x1, x2}
  FileOrder <- Files
  Signable = {"ident", "activity"}
  StateFile = "ca"
  CardFile = "card"
  Unsigned = Unsigned
  MailCompany = {c1}
  Staff = {e1, e2}
  FirmOf <- TwoFirms
  Mailbox <- OneBox
  LastMailDay = 2
  MaxResent = 1
  StaffDelay = 1
  FirstDelay = 1
  ReminderDelay = 1
  PendingDelay = 1
  SecondDay = 1
  FourthDay = 2
SYMMETRY ActorSymmetry
VIEW InScene
INVARIANTS
  WorkIsEmployed
  AlertsAreRight
  SummaryAddsUp
  TeamsAreKept
  CertificatesAreFair
  ListsAreWhole
  CardIsFaithful
  FilesAreVerified
  MailsAreFew
PROPERTIES
  ControlStands
  RecordsAreKept
  HistoryIsFaithful
CHECK_DEADLOCK FALSE
