CONSTANTS
  p1 = p1
  p2 = p2
  Processes = {p1, p2}
  StepCounts = {1}
  MaxTasks = 1
  Reported = {"COMPLETED", "BLOCKED"}
  NoWorkflow = NoWorkflow
  NoProcess = NoProcess
  WorkflowFaults = 1
  WorkflowCrashes = 1
  w1 = w1
  w2 = w2
  area1 = area1
  Workers = {w1, w2}
  Areas = {area1}
  NoArea = NoArea
  Findings <- CaseFindings
  NoId = NoId
  Unstored = Unstored
  MaxMade <- CaseMade
  ChainFaults = 1
  ChainCrashes = 1
  c1 = c1
  c2 = c2
  source1 = source1
  source2 = source2
  Clients = {c1, c2}
  Sources = {source1, source2}
  Listings <- CaseListings
  NoVersion = NoVersion
  Nobody = Nobody
  Window = 1
  MaxFound = 2
  MaxRounds = 3
  SurveyFaults = 1
  SurveyCrashes = 1
  high = high
  target1 = target1
  app = app
  mail = mail
  Callers = {c1, c2}
  Topics = {"t"}
  Levels = {high}
  Channels = {{mail}}
  InApp = app
  Targets = {target1}
  NoTarget = NoTarget
  DefaultTarget = target1
  Subscriptions <- CaseSubscriptions
  DedupWindow = 1
  MaxClock = 1
  MaxAlerts = 2
  AlertFaults = 1
  AlertCrashes = 1
  g1 = g1
  g2 = g2
  Staff = {g1, g2}
  Submissions <- CaseSubmissions
  PolicyRequests <- CasePolicies
  ApprovalRequests <- CaseApprovals
  NoRegister = NoRegister
  MaxPolicies = 7
  MaxDecisions = 2
  MaxRequests = 2
  GovFaults = 1
  GovCrashes = 1
  srv1 = srv1
  srv2 = srv2
  Servers = {srv1, srv2}
  NoDesk = NoDesk
  Emails = {"a@x", "b@x"}
  SeedEmails <- CaseSeeds
  BuiltInGrants <- CaseBuiltIns
  CustomRoles = {"checker"}
  Grants = {{"r"}}
  Unreadable = Unreadable
  MaxAttempts = 1
  LockFor = 1
  TokenLife = 1
  MaxUsers = 2
  MaxTokens = 2
  MaxAdminRequests = 2
  MaxAccountClock = 1
  AccountFaults = 1
  AccountCrashes = 1
SPECIFICATION CaseworkSpec
SYMMETRY ServerSymmetry
CHECK_DEADLOCK FALSE
INVARIANTS
  CaseworkTypesOK
  CompletedCoversItsTasks
  ProvenanceStays
  SchedulersAsReported
  AnnouncedOnce
  AlertsAccountable
  NoUnguardedStart
  
