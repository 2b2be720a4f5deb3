\* One asynchronous node: a crash, a failing call, expiring deadlines, a recovery scan capped at one row.
SPECIFICATION FairSpec
CONSTANTS
  p1 = p1
  s1 = s1
  s2 = s2
  s3 = s3
  Plans = {p1}
  Signals = {s1, s2}
  Nodes = {n1}
  PlanOf <- MCPlanOf
  Contents <- MCContents
  InitialContent <- a
  ConfidenceDelta = 2
  Replies <- MCReplies
  Gated = {s2}
  Async = TRUE
  Retries = 0
  RecoverLimit = 1
  NoSignal = NoSignal
  CtxEnds = TRUE
  GoalMoves = {"active", "on_hold", "resolved"}
  MaxCrashes = 1
  MaxFaults = 1
INVARIANTS AppliedHasVersion NoSilentLoss CompletedOrLogged
PROPERTIES StatusFinal SignalSettles
CHECK_DEADLOCK FALSE
