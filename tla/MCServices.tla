----------------------------- MODULE MCServices -----------------------------
(***************************************************************************)
(* The small concurrent services around a plan, for TLC: the replan queue  *)
(* (instance of MCReplanQueue), the case file of a goal, the webhook       *)
(* dispatcher and the vendor rate limiter.  They share no state and no     *)
(* step, so a behaviour is one of these services at work while the others  *)
(* rest in their initial states, where no fair action of theirs is         *)
(* enabled.                                                                *)
(***************************************************************************)
EXTENDS MCReplanQueue, GoalLifecycle, WebhookDispatcher, RateLimiter

VARIABLE task   \* the service at work

ServicesInit ==
  /\ task \in {"queue", "goals", "webhook", "limiter"}
  /\ Init /\ LifecycleInit /\ DispatcherInit /\ LimiterInit
  /\ task # "goals" => exists = {}

ServicesNext ==
  /\ UNCHANGED task
  /\ \/ task = "queue" /\ Next /\ UNCHANGED <<lifecycleVars, dispatcherVars, limiterVars>>
     \/ task = "goals" /\ LifecycleNext /\ UNCHANGED <<vars, dispatcherVars, limiterVars>>
     \/ task = "webhook" /\ DispatcherNext /\ UNCHANGED <<vars, lifecycleVars, limiterVars>>
     \/ task = "limiter" /\ LimiterNext /\ UNCHANGED <<vars, lifecycleVars, dispatcherVars>>

ServicesSpec ==
  /\ ServicesInit
  /\ [][ServicesNext]_<<task, vars, lifecycleVars, dispatcherVars, limiterVars>>
  /\ Fairness
  /\ DispatcherFairness
=============================================================================
