SPECIFICATION ServingSpec
CONSTANTS
  Moving = {"detection", "gateway", "platform", "keyword", "search", "answers", "audit"}
  c1 = c1
  c2 = c2
  c3 = c3
  h1 = h1
  h2 = h2
  penalty = penalty
  other = other
  Clauses = {c1, c2, c3}
  Headers = {h1, h2}
  Untitled = h1
  DiffRequests <- DiffRequested
  NoSections = NoSections
  Nothing = Nothing
  Similarity <- DiffSimilarity
  HighWords <- DiffHighWords
  MediumWorded = {c3}
  Categories = {penalty, other}
  Serious = {penalty}
  CategoryOf <- DiffCategory
  Sockets = {s1, s2}
  Peers = {"ip1"}
  ApiKeys = {"key", "off"}
  KeyQuota <- GatewayQuota
  NoKey = NoKey
  ProductionAuth = TRUE
  KeyGate = TRUE
  DefaultLimit = 2
  RateWindow = 1
  ProbeThreshold = 2
  ProbeWindow = 1
  ProbePaths = {"env", "git"}
  LogSize = 2
  EventSize = 2
  MaxCalls = 3
  MaxGatewayClock = 2
  Workers = {w1}
  Threads = {t1, t2}
  Services = {"admin", "review", "framework", "orchestration"}
  BoundOnes <- PlatformBound
  Needs <- PlatformNeeds
  SeedFiles = {f1}
  Nobody = Nobody
  MaxInstances = 5
  Environments <- PlatformEnvironments
  WorkerCrashes = 1
  IndexWorkers = {x1, x2}
  MaxKeywordChunks = 2
  MaxIndexRequests = 2
  MaxStamps = 3
  IndexCrashes = 1
  Searches = {q1}
  SearchRequests <- SearchesAsked
  DenseReplies <- SearchDense
  KeywordReplies <- SearchKeyword
  EncoderScores <- SearchEncoder
  TopScore = 2
  RrfK = 1
  Unit = 12
  RrfUnit = 24
  NoReply = NoReply
  AnswerQueries = {"q"}
  Claims = {"claim1", "claim2"}
  DocOf <- AnswersDocs
  SourceOf <- AnswersSources
  Retrievals <- AnswersRetrievals
  Similarities <- AnswersSimilarities
  NamedChunks <- AnswersNamed
  Weights <- AnswersWeights
  High = 75
  Low = 45
  Abstention = 25
  Configured = {"mock", "openai"}
  Passages = {"p1"}
  Modes = {"cross_document", "timeline"}
  Assessments <- IntelligenceAssessments
  Priorities <- IntelligencePriorities
  ScenarioKinds = {"best_case", "baseline", "worst_case", "tail_risk"}
  Kinds = {"comparative", "multi_hop"}
  HandoffCap = 1
  MaxReports = 1
  MaxRuns = 3
  TrackedRequests = {"r1"}
  Endpoints = {"search"}
  Sources = {"rbi"}
  Names = {"n1"}
  MaxOpen = 2
  MaxEvents = 2
  PlanChunks = {"c1", "c2"}
  Unnamed = {"c2"}
  Signals <- PlanningSignals
  MaxParts = 3
  StepIds = {1, 2, 3}
  MaxSteps = 3
  MaxDeps = 1
  EvidenceLimit = 2
  RelationKinds = {"relates_to", "amends"}
  MaxMentions = 3
  MaxGraphNodes = 3
  MaxGraphRels = 2
  MaxLosses = 1
  MaxDepths = 2
  Texts <- ReasoningTexts
  Overlap <- ReasoningOverlap
  Opposed <- ReasoningOpposed
  YearIn <- ReasoningYears
  Documents <- ReasoningDocuments
  MaxReasonedChunks = 3
  CopilotQueries = {p1, p2}
  People = {"ann"}
  MaxConversations = 1
  MaxMemories = 2
  MaxTouches = 1
  MaxLostCalls = 1
  MemoryTopK = 1
  Strategies <- AnalyticsStrategies
  Readings = {1}
  Windows = {1, 2}
  Calls = {a1, a2}
  MaxMetrics = 2
  MaxSnapshots = 1
  KeywordHits <- AuditKeywordHits
  RiskFiles <- AuditRiskFiles
  TaskKinds = {"reporting"}
  Cuts = {1, 3}
  EvidenceCuts = {2}
  AuditWirings = {TRUE, FALSE}
  GraphNodes = 1
  Decisions = 1
  MaxLog = 2
  MaxVerdicts = 2
  v1 = v1
  v2 = v2
  k1 = k1
  k2 = k2
  k3 = k3
  Evaluators = {v1, v2}
  RunRequests <- EvaluationRequests
  EvalStrategies = {"dense", "hybrid"}
  RecallBias <- EvaluationBias
  IndexedChunks = {k1, k2}
  GoldenFiles <- EvaluationGolden
  DefaultSet = "default"
  Sample <- EvaluationSample
  ShortK = 1
  LongK = 2
  Depth = 3
  Whole = 60
  Discount <- EvaluationDiscount
  MetricWeights <- EvaluationWeights
  NoSuchFile = NoSuchFile
  Emptied = Emptied
  Unparsable = Unparsable
  MaxEvalClock = 1
  EvalFaults = 1
INVARIANTS
  ServingTypesOK
  DiffIsExact
  WindowsHeld
  BoundServicesAreOne
  AddedChunksAreFound
  UnanimousOrderKept
  UnflaggedIsWellGrounded
  VerdictSeesAllFindings
CHECK_DEADLOCK FALSE
