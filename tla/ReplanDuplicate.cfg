\* The comment of RecoverPending: re-running a replan writes no duplicate version.
SPECIFICATION Spec
CONSTANTS
  p1 = p1
  s1 = s1
  s2 = s2
  s3 = s3
  Plans = {p1}
  Signals = {s1, s2}
  Nodes = {n1}
  PlanOf <- MCPlanOf
  Contents <- MCContents
  InitialContent <- a
  ConfidenceDelta = 2
  Replies <- MCReplies
  Gated = {}
  Async = TRUE
  Retries = 0
  RecoverLimit = 2
  NoSignal = NoSignal
  CtxEnds = TRUE
  GoalMoves = {}
  MaxCrashes = 1
  MaxFaults = 0
INVARIANT OneVersionPerSignal
CHECK_DEADLOCK FALSE
