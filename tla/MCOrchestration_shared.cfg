SPECIFICATION Spec
CONSTANTS
  research = research
  risk = risk
  missing = missing
  o1 = o1
  o2 = o2
  g1 = g1
  g2 = g2
  i1 = i1
  i2 = i2
  i3 = i3
  AnyAgent = AnyAgent
  None = None
  Agents = {research, risk}
  Orchs = {o1, o2}
  Plans = {g1}
  PlanOf <- OnePlan
  Graphs <- SharedGraphs
  Supports <- MCSupports
  MaxSteps = 2
  MaxRetries = 0
  MaxInstances = 1
  FailureLimit = 1
  Changing = {research}
INVARIANTS
  OwnEvidenceKept
PROPERTIES
  RuntimeSpec
CHECK_DEADLOCK FALSE
