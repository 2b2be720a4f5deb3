--------------------------- MODULE GoalLifecycle ---------------------------
(***************************************************************************)
(* The case file of a goal: CreateGoal, UpdateGoalStatus, GeneratePlan and *)
(* RecordOutcome (internal/app/service.go) over the goal, plan and version *)
(* rows of the store (internal/storage/memory.go, postgres.go).  Requests  *)
(* run concurrently; each is split at every store call and at the planner  *)
(* call, which takes seconds.                                              *)
(*                                                                         *)
(* A request is identified by who makes it; a plan id is minted by the     *)
(* request that generates the plan, so the request names it.               *)
(***************************************************************************)
EXTENDS Naturals, Sequences

CONSTANTS Goals,
          Updaters,      \* UpdateGoalStatus requests
          Generators,    \* GeneratePlan requests; also the ids of their plans
          UniqueGoal,    \* the store keeps plan.goal_id unique (Postgres does)
          NoGoal,
          MaxUpdates,    \* model bound: status changes of one goal
          MaxVersion     \* model bound: versions of a plan

ASSUME LifecycleAssumption ==
  /\ UniqueGoal \in BOOLEAN
  /\ NoGoal \notin Goals
  /\ MaxUpdates \in Nat /\ MaxVersion \in Nat \ {0}

\* "" is the status of a row written before the column existed.
StoredStatus == {"", "active", "on_hold", "resolved", "abandoned"}
Status == StoredStatus \ {""}
Terminal(st) == st \in {"resolved", "abandoned"}
effectiveStatus(st) == IF st = "" THEN "active" ELSE st
CanTransitionTo(from, to) == to \in Status /\ ~Terminal(from) /\ from # to

VARIABLES
  exists,      \* goal rows
  status,      \* goals.status
  resolved,    \* goals.resolution is set
  plans,       \* plan rows: the plans created, with their goal
  byGoal,      \* the plan GetPlanByGoal answers with: [Goals -> set of plan ids]
  head,        \* plan.current_version
  outcomes,    \* outcome rows: plan and version
  upd,         \* per updater: what it read and what it is about to write
  gen,         \* per generator: how far its request got
  moves        \* history: per goal, the committed changes <<reported from, to>>

lifecycleVars == <<exists, status, resolved, plans, byGoal, head, outcomes, upd, gen, moves>>

Idle == [pc |-> "idle", goal |-> NoGoal, read |-> "", to |-> ""]
Swap == [pc : {"swap"}, goal : Goals, read : StoredStatus, to : Status]
NotBegun == [pc |-> "idle", goal |-> NoGoal]
Generating == [pc : {"active", "free", "planned", "done"}, goal : Goals]

LifecycleTypeOK ==
  /\ exists \in SUBSET Goals
  /\ status \in [Goals -> StoredStatus]
  /\ resolved \in [Goals -> BOOLEAN]
  /\ plans \in [Generators -> Goals \cup {NoGoal}]
  /\ byGoal \in [Goals -> SUBSET Generators]
  /\ head \in [Generators -> Nat]
  /\ outcomes \in SUBSET (Generators \X Nat)
  /\ upd \in [Updaters -> {Idle} \cup Swap]
  /\ gen \in [Generators -> {NotBegun} \cup Generating]
  /\ moves \in [Goals -> Seq(Status \X Status)]

-----------------------------------------------------------------------------
\* A legacy goal may be in the store from the start; the others are created.
LifecycleInit ==
  /\ \E legacy \in SUBSET Goals :
       /\ exists = legacy
       /\ status = [g \in Goals |-> ""]
  /\ resolved = [g \in Goals |-> FALSE]
  /\ plans = [x \in Generators |-> NoGoal]
  /\ byGoal = [g \in Goals |-> {}]
  /\ head = [x \in Generators |-> 0]
  /\ outcomes = {}
  /\ upd = [u \in Updaters |-> Idle]
  /\ gen = [x \in Generators |-> NotBegun]
  /\ moves = [g \in Goals |-> <<>>]

CreateGoal(g) ==
  /\ g \notin exists
  /\ exists' = exists \cup {g}
  /\ status' = [status EXCEPT ![g] = "active"]
  /\ UNCHANGED <<resolved, plans, byGoal, head, outcomes, upd, gen, moves>>

\* UpdateGoalStatus up to the write: GetGoal and the checks on what was read.  (A
\* terminal target comes with a resolution, any other without: the request is
\* refused otherwise.)
BeginUpdate(u, g, to) ==
  /\ upd[u] = Idle
  /\ g \in exists
  /\ Len(moves[g]) < MaxUpdates
  /\ CanTransitionTo(effectiveStatus(status[g]), to)
  /\ upd' = [upd EXCEPT ![u] = [pc |-> "swap", goal |-> g, read |-> status[g], to |-> to]]
  /\ UNCHANGED <<exists, status, resolved, plans, byGoal, head, outcomes, gen, moves>>

Unmoved_Unchecked(u) == TRUE   \* mutant: no compare-and-swap
Unmoved(u) == status[upd[u].goal] = upd[u].read

NeedsResolution(to) == Terminal(to)

\* repo.UpdateGoalStatus: a compare-and-swap on the status that was read.  A conflict
\* is returned to the client.
SwapStatus(u) ==
  LET g == upd[u].goal
      to == upd[u].to
  IN /\ upd[u].pc = "swap"
     /\ upd' = [upd EXCEPT ![u] = Idle]
     /\ IF Unmoved(u)
        THEN /\ status' = [status EXCEPT ![g] = to]
             /\ resolved' = [resolved EXCEPT ![g] = NeedsResolution(to)]
             /\ moves' = [moves EXCEPT ![g] =
                            Append(@, <<effectiveStatus(upd[u].read), to>>)]
        ELSE UNCHANGED <<status, resolved, moves>>
     /\ UNCHANGED <<exists, plans, byGoal, head, outcomes, gen>>

\* GeneratePlan: GetGoal and the status check ...
BeginGenerate(x, g) ==
  /\ gen[x].pc = "idle"
  /\ g \in exists
  /\ effectiveStatus(status[g]) = "active"
  /\ gen' = [gen EXCEPT ![x] = [pc |-> "active", goal |-> g]]
  /\ UNCHANGED <<exists, status, resolved, plans, byGoal, head, outcomes, upd, moves>>

\* ... GetPlanByGoal (ErrPlanExists ends the request) ...
CheckNoPlan(x) ==
  /\ gen[x].pc = "active"
  /\ gen' = [gen EXCEPT ![x].pc = IF byGoal[gen[x].goal] = {} THEN "free" ELSE "done"]
  /\ UNCHANGED <<exists, status, resolved, plans, byGoal, head, outcomes, upd, moves>>

\* ... the planner, which may fail ...
PlannerAnswers(x) ==
  /\ gen[x].pc = "free"
  /\ \E pc \in {"planned", "done"} : gen' = [gen EXCEPT ![x].pc = pc]
  /\ UNCHANGED <<exists, status, resolved, plans, byGoal, head, outcomes, upd, moves>>

GoalTaken(g) == UniqueGoal /\ \E y \in Generators : plans[y] = g

\* Mutant of StorePlan: a failure after CreatePlan leaves the head behind.
StorePlan_NoTx(x) ==
  LET g == gen[x].goal
  IN /\ gen[x].pc = "planned"
     /\ gen' = [gen EXCEPT ![x].pc = "done"]
     /\ ~GoalTaken(g)
     /\ plans' = [plans EXCEPT ![x] = g]
     /\ byGoal' = [byGoal EXCEPT ![g] = {x}]
     /\ head' \in {head, [head EXCEPT ![x] = 1]}
     /\ UNCHANGED <<exists, status, resolved, outcomes, upd, moves>>

\* ... and one transaction with CreatePlan and CreatePlanVersion.  It commits both,
\* or, when the plan's goal id is taken or a statement fails, nothing.  A store
\* without the unique index lets the new plan take the goal over.
StorePlan(x) ==
  LET g == gen[x].goal
  IN /\ gen[x].pc = "planned"
     /\ gen' = [gen EXCEPT ![x].pc = "done"]
     /\ \/ /\ ~GoalTaken(g)
           /\ plans' = [plans EXCEPT ![x] = g]
           /\ byGoal' = [byGoal EXCEPT ![g] = {x}]
           /\ head' = [head EXCEPT ![x] = 1]
        \/ UNCHANGED <<plans, byGoal, head>>
     /\ UNCHANGED <<exists, status, resolved, outcomes, upd, moves>>

\* A replan appends the next version (module Replanning).
NextVersion(x) ==
  /\ plans[x] # NoGoal
  /\ head[x] < MaxVersion
  /\ head' = [head EXCEPT ![x] = @ + 1]
  /\ UNCHANGED <<exists, status, resolved, plans, byGoal, outcomes, upd, gen, moves>>

\* RecordOutcome, on a goal of any status: the plan of the goal has that version.
RecordOutcome(g, v) ==
  /\ g \in exists
  /\ \E x \in byGoal[g] :
       /\ v \in 1..head[x]
       /\ outcomes' = outcomes \cup {<<x, v>>}
  /\ UNCHANGED <<exists, status, resolved, plans, byGoal, head, upd, gen, moves>>

LifecycleNext ==
  \/ \E g \in Goals : CreateGoal(g) \/ \E v \in 1..MaxVersion : RecordOutcome(g, v)
  \/ \E u \in Updaters : SwapStatus(u) \/ \E g \in Goals, to \in Status : BeginUpdate(u, g, to)
  \/ \E x \in Generators :
       \/ \E g \in Goals : BeginGenerate(x, g)
       \/ CheckNoPlan(x) \/ PlannerAnswers(x) \/ StorePlan(x) \/ NextVersion(x)

LifecycleSpec == LifecycleInit /\ [][LifecycleNext]_lifecycleVars

-----------------------------------------------------------------------------
(* "A goal has at most one plan" (the comment of GeneratePlan's check), as it *)
(* is written: two requests may both have seen none before their planner      *)
(* calls, and only a store with the unique index refuses the second plan.     *)
OnePlanPerGoal ==
  \A x, y \in Generators : plans[x] # NoGoal /\ plans[x] = plans[y] => x = y

(* "a failure between them would orphan a plan head with no versions"         *)
(* (GeneratePlan): a plan that is found has its first version, and is the     *)
(* plan of that goal; what an outcome refers to exists.                       *)
PlansAreComplete ==
  /\ \A g \in Goals : \A x \in byGoal[g] : plans[x] = g /\ head[x] >= 1
  /\ \A o \in outcomes : o[2] \in 1..head[o[1]]

(* The status changes committed for a goal form a chain: each one was checked *)
(* against, and reports as previous status, exactly the status it replaced,   *)
(* so no update is lost and none is applied twice (the compare-and-swap of    *)
(* UpdateGoalStatus).                                                         *)
StatusChain ==
  \A g \in Goals :
    /\ \A i \in DOMAIN moves[g] :
         /\ CanTransitionTo(moves[g][i][1], moves[g][i][2])
         /\ i > 1 => moves[g][i][1] = moves[g][i - 1][2]
    /\ moves[g] # <<>> => status[g] = moves[g][Len(moves[g])][2]

(* "Transitions out of a terminal state are forbidden (history is final)"     *)
(* (CanTransitionTo): also for a writer that read the goal before it ended.   *)
TerminalIsFinal ==
  [][\A g \in Goals : Terminal(status[g]) => status'[g] = status[g]]_lifecycleVars
=============================================================================
