\* Concurrent inline handlers contending for the version write.
SPECIFICATION Spec
CONSTANTS
  p1 = p1
  s1 = s1
  s2 = s2
  s3 = s3
  Plans = {p1}
  Signals = {s1, s2, s3}
  Nodes = {n1}
  PlanOf <- MCPlanOf
  Contents <- MCContents
  InitialContent <- a
  ConfidenceDelta = 2
  Replies <- MCReplies
  Gated = {}
  Async = FALSE
  Retries = 1
  RecoverLimit = 2
  NoSignal = NoSignal
  CtxEnds = FALSE
  GoalMoves = {}
  MaxCrashes = 0
  MaxFaults = 0
INVARIANTS RetryMeansProgress OneVersionPerSignal
PROPERTIES ImplementsPlanHistory
CHECK_DEADLOCK FALSE
