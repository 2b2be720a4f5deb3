\* Two plan requests on one goal, on the in-memory store: no unique index on plan.goal_id.
SPECIFICATION LifecycleSpec
CONSTANTS
  Goals = {g1}
  Updaters = {u1}
  Generators = {x1, x2}
  UniqueGoal = FALSE
  NoGoal = NoGoal
  MaxUpdates = 1
  MaxVersion = 1
INVARIANT OnePlanPerGoal
CHECK_DEADLOCK FALSE
