\* One asynchronous node and one failing call.
SPECIFICATION Spec
CONSTANTS
  p1 = p1
  s1 = s1
  s2 = s2
  s3 = s3
  Plans = {p1}
  Signals = {s1}
  Nodes = {n1}
  PlanOf <- MCPlanOf
  Contents <- MCContents
  InitialContent <- a
  ConfidenceDelta = 2
  Replies <- MCReplies
  Gated = {}
  Async = TRUE
  Retries = 0
  RecoverLimit = 1
  NoSignal = NoSignal
  CtxEnds = FALSE
  GoalMoves = {}
  MaxCrashes = 0
  MaxFaults = 1
INVARIANT CompletedIsCommitted
CHECK_DEADLOCK FALSE
