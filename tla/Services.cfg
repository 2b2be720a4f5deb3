\* The queue: two workers, two callers, a one-slot channel, a two-entry idempotency window over three signals.
\* A goal: two status writers and two plan requests, on a store without the unique index.
\* The dispatcher: two workers behind a one-slot buffer, one retry, one filtered event.
\* The limiter: four callers, two requests a day of three ticks, into the third day.
SPECIFICATION ServicesSpec
CONSTANTS
  p1 = p1
  p2 = p2
  s1 = s1
  s2 = s2
  s3 = s3
  Plans = {p1, p2}
  Signals = {s1, s2, s3}
  Callers = {c1, c2}
  Workers = {w1, w2}
  Buffer = 1
  MaxSeen = 2
  PlanOf <- MCPlanOf
  NoPlan = NoPlan
  NoSignal = NoSignal
  MaxAccepted = 4
  Goals = {g1}
  Updaters = {u1, u2}
  Generators = {x1, x2}
  UniqueGoal = FALSE
  NoGoal = NoGoal
  MaxUpdates = 3
  MaxVersion = 2
  Events = {e1, e2, e3, e4}
  Allowed = {e1, e2, e3}
  Senders = {d1, d2}
  QueueSize = 1
  Retries = 1
  NoEvent = NoEvent
  Requests = {r1, r2, r3, r4}
  MinInterval = 2
  DailyCap = 2
  DayLength = 3
  MaxTime = 6
INVARIANTS FIFOPerPlan NoStrandedWork ShutdownDrains DedupWindow
INVARIANTS PlansAreComplete StatusChain AccountedFor ResultsAreTrue BudgetExact Paced
PROPERTIES ImplementsSerialQueue EveryJobRuns EveryEventSettles
CHECK_DEADLOCK FALSE
