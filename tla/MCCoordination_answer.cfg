SPECIFICATION FairSpec
CONSTANTS
  research = research
  risk = risk
  None = None
  Agents = {research, risk}
  Changing = {research}
  Requests = {r1}
  Direct = {d1}
  Calls <- MCCalls
  MaxSteps = 2
  Supports <- MCSupports
  MaxRetries = 1
  MaxInstances = 2
  FailureLimit = 1
INVARIANTS
  BusyWhileRunning
  AnswerIsComplete
PROPERTIES
  EveryCoordinationEnds
CHECK_DEADLOCK FALSE
