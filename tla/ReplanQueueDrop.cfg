\* What the comments on Enqueue and Shutdown say, as they are written.
SPECIFICATION Spec
CONSTANTS
  p1 = p1
  p2 = p2
  s1 = s1
  s2 = s2
  s3 = s3
  Plans = {p1, p2}
  Signals = {s1, s2, s3}
  Callers = {c1, c2}
  Workers = {w1, w2}
  Buffer = 1
  MaxSeen = 3
  PlanOf <- MCPlanOf
  NoPlan = NoPlan
  NoSignal = NoSignal
  MaxAccepted = 3
INVARIANT AcceptedNeverDropped

CHECK_DEADLOCK FALSE
