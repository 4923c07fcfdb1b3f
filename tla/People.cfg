SPECIFICATION PeopleSpec
CONSTANTS
  boss = boss
  worker = worker
  acme = acme
  e1 = e1
  e2 = e2
  e3 = e3
  f1 = f1
  g1 = g1
  x1 = x1
  x2 = x2
  y1 = y1
  y2 = y2
  c1 = c1
  User = {boss, worker}
  Worker = {worker}
  Company = {acme}
  Employment = {e1, e2, e3}
  Founder <- FoundedByBoss
  Null = null
  LastDay = 1
  Delay = 1
  Browser = {y1, y2}
  Server = {x1, x2}
  MaxTokens = 2
  MaxCreated = 4
  Address = {mine, other}
  Employer = mine
  LoginCall = {x1, x2}
  None = none
  MaxTries = 2
  MaxAttempts = 2
  MaxLinks = 2
  MaxPasswords = 2
  SyncServer = {x1, x2}
  MaxRows = 2
  MaxMails = 2
  Citizen = {f1, f2}
  Agent = {g1, g2}
  CardOf <- Cards
  MailOf <- Mails
  AllowedIdps = {"police"}
  NoValue = NoValue
  InviteLink = {i1}
  SignInTab = {x1, x2}
  MaxMoves = 2
  MaxAccounts = 2
  Hire = {"h1", "h2"}
  StaffRequest = {x1, x2}
  Business = {"goods", "people"}
  Setting = {"team", "expenses"}
  MinWait = 1
  Cooldown = 2
  InactiveDelay = 0
  LastTurn = 2
  MaxStaffRequests = 3
  Supporter = {a1}
  Client = {c1}
  Nobody = nobody
  Tab = {x1, x2}
  LogTable = {activity, token, totp}
  QuietTable = {token}
  AllowedTable = {activity, token}
  AccessTime = 1
  ImpersonationTime = 3
  LogLife = 1
  LastTick = 3
  MaxChanges = 1
  TokenServer = {x1, x2}
  MaxTokenRows = 3
  MaxCodes = 2
SYMMETRY ActorSymmetry
VIEW InScene
INVARIANTS
  AccessIsAsked
  TokensAreSound
  SignInIsSound
  SupportIsAccountable
PROPERTIES
  EmploymentsAreSound
  SessionsAreSound
  AccountIsGuarded
  StaffIsRespected
CHECK_DEADLOCK FALSE
