SPECIFICATION Spec
CONSTANTS
  research = research
  risk = risk
  missing = missing
  o1 = o1
  o2 = o2
  g1 = g1
  g2 = g2
  i1 = i1
  i2 = i2
  i3 = i3
  AnyAgent = AnyAgent
  None = None
  Agents = {research, risk}
  Orchs = {o1}
  Plans = {g1}
  PlanOf <- Alone
  Graphs <- BackwardsGraphs
  Supports <- MCSupports
  MaxSteps = 3
  MaxRetries = 1
  MaxInstances = 1
  FailureLimit = 1
  Changing = {research}
INVARIANTS
  DependenciesRespected
CHECK_DEADLOCK FALSE
