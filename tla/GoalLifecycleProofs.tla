------------------------ MODULE GoalLifecycleProofs ------------------------
(***************************************************************************)
(* Proofs about the case file of a goal, for any number of goals and of    *)
(* concurrent requests: a plan is never without its first version, and the *)
(* statuses form a chain that ends for good.                               *)
(***************************************************************************)
EXTENDS GoalLifecycle, TLAPS, SequenceTheorems

USE LifecycleAssumption

-----------------------------------------------------------------------------
(* Type correctness of the goal, plan and outcome rows and of the requests *)
(* in flight.                                                              *)
THEOREM TypeCorrect == LifecycleSpec => []LifecycleTypeOK
<1>1. LifecycleInit => LifecycleTypeOK
  <2> SUFFICES ASSUME LifecycleInit PROVE LifecycleTypeOK
    OBVIOUS
  <2>1. <<>> \in Seq(Status \X Status)
    OBVIOUS
  <2>2. exists \in SUBSET Goals /\ status \in [Goals -> StoredStatus]
    BY DEF LifecycleInit, StoredStatus
  <2>3. /\ resolved \in [Goals -> BOOLEAN] /\ plans \in [Generators -> Goals \cup {NoGoal}]
        /\ byGoal \in [Goals -> SUBSET Generators] /\ head \in [Generators -> Nat]
    BY DEF LifecycleInit
  <2>4. outcomes \in SUBSET (Generators \X Nat)
    BY DEF LifecycleInit
  <2>5. /\ upd \in [Updaters -> {Idle} \cup Swap] /\ gen \in [Generators -> {NotBegun} \cup Generating]
    BY DEF LifecycleInit
  <2>6. moves \in [Goals -> Seq(Status \X Status)]
    BY <2>1 DEF LifecycleInit
  <2> QED BY ONLY <2>2, <2>3, <2>4, <2>5, <2>6 DEF LifecycleTypeOK
<1>2. LifecycleTypeOK /\ [LifecycleNext]_lifecycleVars => LifecycleTypeOK'
  <2> SUFFICES ASSUME LifecycleTypeOK, [LifecycleNext]_lifecycleVars PROVE LifecycleTypeOK'
    OBVIOUS
  <2>1. ASSUME NEW g \in Goals, CreateGoal(g) PROVE LifecycleTypeOK'
    <3>1. exists' \in SUBSET Goals /\ status' \in [Goals -> StoredStatus]
      BY <2>1 DEF CreateGoal, LifecycleTypeOK, StoredStatus
    <3> QED BY <2>1, <3>1 DEF CreateGoal, LifecycleTypeOK
  <2>2. ASSUME NEW g \in Goals, NEW v \in 1..MaxVersion, RecordOutcome(g, v) PROVE LifecycleTypeOK'
    <3>1. PICK x \in Generators : outcomes' = outcomes \cup {<<x, v>>}
      BY <2>2 DEF RecordOutcome, LifecycleTypeOK
    <3>2. v \in Nat
      OBVIOUS
    <3>3. outcomes' \in SUBSET (Generators \X Nat)
      BY <3>1, <3>2 DEF LifecycleTypeOK
    <3> QED BY <2>2, <3>3 DEF RecordOutcome, LifecycleTypeOK
  <2>3. ASSUME NEW u \in Updaters, SwapStatus(u) PROVE LifecycleTypeOK'
    <3>0. upd[u] \in Swap
      <4>1. upd[u] \in {Idle} \cup Swap
        BY DEF LifecycleTypeOK
      <4>2. upd[u].pc = "swap"
        BY <2>3 DEF SwapStatus
      <4>3. Idle.pc = "idle"
        BY DEF Idle
      <4>4. upd[u] # Idle
        BY ONLY <4>2, <4>3
      <4> QED BY ONLY <4>1, <4>4
    <3>1. upd' \in [Updaters -> {Idle} \cup Swap]
      BY <2>3 DEF SwapStatus, LifecycleTypeOK
    <3>2. /\ upd[u].goal \in Goals /\ upd[u].to \in Status /\ upd[u].to \in StoredStatus
          /\ upd[u].read \in StoredStatus
      BY <3>0 DEF Swap, Status
    <3>3. status' \in [Goals -> StoredStatus] /\ resolved' \in [Goals -> BOOLEAN]
      <4>1. NeedsResolution(upd[u].to) \in BOOLEAN
        BY DEF NeedsResolution, Terminal
      <4> QED BY <2>3, <3>2, <4>1 DEF SwapStatus, LifecycleTypeOK
    <3>4. <<effectiveStatus(upd[u].read), upd[u].to>> \in Status \X Status
      BY <3>2 DEF effectiveStatus, Status, StoredStatus
    <3>5. moves' \in [Goals -> Seq(Status \X Status)]
      <4> DEFINE move == <<effectiveStatus(upd[u].read), upd[u].to>>
      <4>1. move \in Status \X Status
        BY <3>4
      <4>2. \/ moves' = moves
            \/ moves' = [moves EXCEPT ![upd[u].goal] = Append(@, move)]
        BY <2>3 DEF SwapStatus
      <4>3. moves \in [Goals -> Seq(Status \X Status)]
        BY DEF LifecycleTypeOK
      <4> HIDE DEF move
      <4>4. CASE moves' = moves
        BY ONLY <4>3, <4>4
      <4>5. CASE moves' = [moves EXCEPT ![upd[u].goal] = Append(@, move)]
        <5>1. moves[upd[u].goal] \in Seq(Status \X Status)
          BY ONLY <4>3, <3>2
        <5>2. Append(moves[upd[u].goal], move) \in Seq(Status \X Status)
          BY ONLY <5>1, <4>1, AppendProperties
        <5> QED BY ONLY <4>5, <5>2, <4>3
      <4> QED BY <4>2, <4>4, <4>5
    <3> QED BY <2>3, <3>1, <3>3, <3>5 DEF SwapStatus, LifecycleTypeOK
  <2>4. ASSUME NEW u \in Updaters, NEW g \in Goals, NEW to \in Status, BeginUpdate(u, g, to)
        PROVE  LifecycleTypeOK'
    <3>1. [pc |-> "swap", goal |-> g, read |-> status[g], to |-> to] \in Swap
      BY DEF Swap, LifecycleTypeOK
    <3> QED BY <2>4, <3>1 DEF BeginUpdate, LifecycleTypeOK
  <2>5. ASSUME NEW x \in Generators, NEW g \in Goals, BeginGenerate(x, g) PROVE LifecycleTypeOK'
    <3>1. [pc |-> "active", goal |-> g] \in Generating
      BY DEF Generating
    <3> QED BY <2>5, <3>1 DEF BeginGenerate, LifecycleTypeOK
  <2>a. ASSUME NEW x \in Generators, gen[x].pc # "idle",
               NEW pc \in {"free", "planned", "done"}, gen' = [gen EXCEPT ![x].pc = pc]
        PROVE  gen' \in [Generators -> {NotBegun} \cup Generating]
    <3>1. gen[x] \in Generating
      BY <2>a DEF LifecycleTypeOK, NotBegun
    <3>2. [gen[x] EXCEPT !.pc = pc] \in Generating
      BY <3>1 DEF Generating
    <3> QED BY <2>a, <3>2 DEF LifecycleTypeOK
  <2>6. ASSUME NEW x \in Generators, CheckNoPlan(x) PROVE LifecycleTypeOK'
    <3>1. gen' \in [Generators -> {NotBegun} \cup Generating]
      BY <2>6, <2>a DEF CheckNoPlan
    <3> QED BY <2>6, <3>1 DEF CheckNoPlan, LifecycleTypeOK
  <2>7. ASSUME NEW x \in Generators, PlannerAnswers(x) PROVE LifecycleTypeOK'
    <3>1. gen' \in [Generators -> {NotBegun} \cup Generating]
      BY <2>7, <2>a DEF PlannerAnswers
    <3> QED BY <2>7, <3>1 DEF PlannerAnswers, LifecycleTypeOK
  <2>8. ASSUME NEW x \in Generators, StorePlan(x) PROVE LifecycleTypeOK'
    <3>1. gen' \in [Generators -> {NotBegun} \cup Generating]
      BY <2>8, <2>a DEF StorePlan
    <3>2. gen[x].goal \in Goals
      <4>1. gen[x] \in {NotBegun} \cup Generating
        BY DEF LifecycleTypeOK
      <4>2. gen[x].pc = "planned"
        BY <2>8 DEF StorePlan
      <4> QED BY ONLY <4>1, <4>2 DEF NotBegun, Generating
    <3>3. /\ plans' \in [Generators -> Goals \cup {NoGoal}]
          /\ byGoal' \in [Goals -> SUBSET Generators] /\ head' \in [Generators -> Nat]
      <4>1. /\ plans \in [Generators -> Goals \cup {NoGoal}]
            /\ byGoal \in [Goals -> SUBSET Generators] /\ head \in [Generators -> Nat]
        BY DEF LifecycleTypeOK
      <4>2. CASE UNCHANGED <<plans, byGoal, head>>
        BY ONLY <4>1, <4>2
      <4>3. CASE /\ plans' = [plans EXCEPT ![x] = gen[x].goal]
                 /\ byGoal' = [byGoal EXCEPT ![gen[x].goal] = {x}]
                 /\ head' = [head EXCEPT ![x] = 1]
        <5>1. plans' \in [Generators -> Goals \cup {NoGoal}]
          BY ONLY <4>1, <4>3, <3>2
        <5>2. byGoal' \in [Goals -> SUBSET Generators]
          BY ONLY <4>1, <4>3, <3>2, x \in Generators
        <5>3. head' \in [Generators -> Nat]
          BY ONLY <4>1, <4>3
        <5> QED BY <5>1, <5>2, <5>3
      <4> QED BY <2>8, <4>2, <4>3 DEF StorePlan
    <3> QED BY <2>8, <3>1, <3>3 DEF StorePlan, LifecycleTypeOK
  <2>9. ASSUME NEW x \in Generators, NextVersion(x) PROVE LifecycleTypeOK'
    <3>1. head' \in [Generators -> Nat]
      BY <2>9 DEF NextVersion, LifecycleTypeOK
    <3> QED BY <2>9, <3>1 DEF NextVersion, LifecycleTypeOK
  <2>10. CASE UNCHANGED lifecycleVars
    BY <2>10 DEF lifecycleVars, LifecycleTypeOK
  <2> QED
    BY <2>1, <2>2, <2>3, <2>4, <2>5, <2>6, <2>7, <2>8, <2>9, <2>10 DEF LifecycleNext
<1> QED BY <1>1, <1>2, PTL DEF LifecycleSpec

-----------------------------------------------------------------------------
(* What a status writer holds between its read and its compare-and-swap is *)
(* a transition the table allows from the status it read, on a goal that   *)
(* exists; a goal that does not exist yet has no status and no history.    *)
WriterInv ==
  /\ \A g \in Goals : g \notin exists => status[g] = "" /\ moves[g] = <<>>
  /\ \A u \in Updaters :
       upd[u].pc = "swap" =>
         /\ upd[u].goal \in exists
         /\ CanTransitionTo(effectiveStatus(upd[u].read), upd[u].to)

(* The chain of one goal, given its recorded changes and its status.       *)
Chain(m, st) ==
  /\ \A i \in DOMAIN m : /\ CanTransitionTo(m[i][1], m[i][2])
                         /\ i > 1 => m[i][1] = m[i - 1][2]
  /\ m # <<>> => st = m[Len(m)][2]

(* A change from the status at the end of a chain extends the chain.       *)
LEMMA ChainGrows ==
  ASSUME NEW m \in Seq(Status \X Status), NEW st \in StoredStatus, Chain(m, st),
         NEW to \in Status, CanTransitionTo(effectiveStatus(st), to)
  PROVE  Chain(Append(m, <<effectiveStatus(st), to>>), to)
<1> DEFINE mv == <<effectiveStatus(st), to>>
           M == Append(m, mv)
<1>0. mv \in Status \X Status /\ mv[1] = effectiveStatus(st) /\ mv[2] = to
  BY DEF effectiveStatus, Status, StoredStatus
<1> HIDE DEF mv
<1>1. /\ M \in Seq(Status \X Status) /\ Len(M) = Len(m) + 1 /\ M[Len(m) + 1] = mv
      /\ M # <<>> /\ Len(m) \in Nat
      /\ \A i \in 1..Len(m) : M[i] = m[i]
  BY ONLY <1>0, m \in Seq(Status \X Status), AppendProperties
<1>2. \A i \in 1..Len(m) : /\ CanTransitionTo(m[i][1], m[i][2])
                           /\ i > 1 => m[i][1] = m[i - 1][2]
  BY DEF Chain
<1>3. m # <<>> => Len(m) \in 1..Len(m) /\ mv[1] = m[Len(m)][2]
  <2> SUFFICES ASSUME m # <<>> PROVE Len(m) \in 1..Len(m) /\ mv[1] = m[Len(m)][2]
    OBVIOUS
  <2>1. Len(m) \in 1..Len(m)
    BY EmptySeq
  <2>2. m[Len(m)] \in Status \X Status /\ st = m[Len(m)][2]
    BY <2>1 DEF Chain
  <2>3. st \in Status
    BY ONLY <2>2
  <2> QED BY ONLY <2>1, <2>2, <2>3, <1>0 DEF effectiveStatus, Status
<1> HIDE DEF M
<1>4. ASSUME NEW i \in 1..(Len(m) + 1)
      PROVE  CanTransitionTo(M[i][1], M[i][2]) /\ (i > 1 => M[i][1] = M[i - 1][2])
  <2>1. CASE i = Len(m) + 1
    <3>1. CanTransitionTo(M[i][1], M[i][2])
      BY <2>1, <1>0, <1>1
    <3>2. ASSUME i > 1 PROVE M[i][1] = M[i - 1][2]
      <4>1. m # <<>> /\ i - 1 = Len(m)
        BY ONLY <2>1, <3>2, <1>1, m \in Seq(Status \X Status), EmptySeq
      <4> QED BY ONLY <4>1, <2>1, <1>1, <1>3
    <3> QED BY <3>1, <3>2
  <2>2. CASE i # Len(m) + 1
    <3>1. i \in 1..Len(m) /\ (i > 1 => i - 1 \in 1..Len(m))
      BY ONLY <2>2, <1>1, i \in 1..(Len(m) + 1)
    <3> QED BY ONLY <3>1, <1>1, <1>2
  <2> QED BY <2>1, <2>2
<1>5. DOMAIN M = 1..(Len(m) + 1) /\ M[Len(M)][2] = to
  BY ONLY <1>0, <1>1
<1> QED BY ONLY <1>4, <1>5 DEF Chain, M, mv

(* The chain of committed changes and what the writers hold, together.     *)
LEMMA ChainInvariant == LifecycleSpec => [](WriterInv /\ StatusChain)
<1>1. LifecycleInit => WriterInv /\ StatusChain
  <2> SUFFICES ASSUME LifecycleInit PROVE WriterInv /\ StatusChain
    OBVIOUS
  <2>1. \A g \in Goals : status[g] = "" /\ moves[g] = <<>>
    BY DEF LifecycleInit
  <2>2. \A u \in Updaters : upd[u].pc = "idle"
    BY DEF LifecycleInit, Idle
  <2>3. WriterInv
    BY ONLY <2>1, <2>2 DEF WriterInv
  <2>4. StatusChain
    <3>1. DOMAIN <<>> = {}
      OBVIOUS
    <3> QED BY ONLY <2>1, <3>1, Zenon DEF StatusChain
  <2> QED BY <2>3, <2>4
<1>2. LifecycleTypeOK /\ WriterInv /\ StatusChain /\ [LifecycleNext]_lifecycleVars => (WriterInv /\ StatusChain)'
  <2> SUFFICES ASSUME LifecycleTypeOK, WriterInv, StatusChain, [LifecycleNext]_lifecycleVars
               PROVE  (WriterInv /\ StatusChain)'
    OBVIOUS
  <2>0. \A g \in Goals : Chain(moves[g], status[g])
    BY DEF StatusChain, Chain
  <2>b. (\A g \in Goals : Chain(moves'[g], status'[g])) => StatusChain'
    BY DEF StatusChain, Chain
  <2>a. CASE UNCHANGED <<exists, status, moves, upd>>
    BY ONLY <2>a, WriterInv, StatusChain DEF WriterInv, StatusChain
  <2>1. ASSUME NEW g \in Goals, CreateGoal(g) PROVE (WriterInv /\ StatusChain)'
    <3>1. /\ exists' = exists \cup {g} /\ moves[g] = <<>> /\ UNCHANGED <<moves, upd>>
          /\ \A h \in Goals : h # g => status'[h] = status[h]
      BY <2>1 DEF CreateGoal, LifecycleTypeOK, WriterInv
    <3>2. WriterInv'
      BY ONLY <3>1, WriterInv DEF WriterInv
    <3>3. ASSUME NEW h \in Goals PROVE Chain(moves'[h], status'[h])
      <4>1. CASE h = g
        BY ONLY <4>1, <3>1 DEF Chain
      <4>2. CASE h # g
        <5>1. moves'[h] = moves[h] /\ status'[h] = status[h]
          BY <4>2, <3>1
        <5> QED BY <5>1, <2>0
      <4> QED BY <4>1, <4>2
    <3> QED BY <3>2, <3>3, <2>b
  <2>2. ASSUME NEW u \in Updaters, NEW g \in Goals, NEW to \in Status, BeginUpdate(u, g, to)
        PROVE  (WriterInv /\ StatusChain)'
    <3>1. UNCHANGED <<exists, status, moves>> /\ g \in exists
      BY <2>2 DEF BeginUpdate
    <3>2. StatusChain'
      BY ONLY <3>1, StatusChain DEF StatusChain
    <3>3. /\ CanTransitionTo(effectiveStatus(status[g]), to)
          /\ upd'[u] = [pc |-> "swap", goal |-> g, read |-> status[g], to |-> to]
          /\ \A v \in Updaters : v # u => upd'[v] = upd[v]
      BY <2>2 DEF BeginUpdate, LifecycleTypeOK
    <3>4. WriterInv'
      <4>1. ASSUME NEW v \in Updaters, upd'[v].pc = "swap"
            PROVE  /\ upd'[v].goal \in exists'
                   /\ CanTransitionTo(effectiveStatus(upd'[v].read), upd'[v].to)
        <5>1. CASE v = u
          BY ONLY <5>1, <3>1, <3>3
        <5>2. CASE v # u
          BY ONLY <5>2, <4>1, <3>1, <3>3, WriterInv, v \in Updaters DEF WriterInv
        <5> QED BY <5>1, <5>2
      <4> QED BY ONLY <4>1, <3>1, WriterInv DEF WriterInv
    <3> QED BY <3>2, <3>4
  <2>3. ASSUME NEW u \in Updaters, SwapStatus(u) PROVE (WriterInv /\ StatusChain)'
    <3> DEFINE g == upd[u].goal
               to == upd[u].to
    <3>1. /\ upd[u].pc = "swap" /\ exists' = exists
          /\ upd'[u] = Idle /\ \A v \in Updaters : v # u => upd'[v] = upd[v]
      BY <2>3 DEF SwapStatus, LifecycleTypeOK
    <3>2. Idle.pc # "swap"
      BY DEF Idle
    <3>3. upd[u] \in Swap
      <4>1. upd[u] \in {Idle} \cup Swap
        BY DEF LifecycleTypeOK
      <4> QED BY ONLY <4>1, <3>1, <3>2
    <3>4. g \in Goals /\ g \in exists /\ to \in Status /\ upd[u].read \in StoredStatus
      BY <3>1, <3>3 DEF Swap, WriterInv
    <3>5. CanTransitionTo(effectiveStatus(upd[u].read), to)
      BY <3>1 DEF WriterInv
    <3>6. CASE ~Unmoved(u)
      <4>1. UNCHANGED <<status, moves>>
        BY <2>3, <3>6 DEF SwapStatus
      <4>2. WriterInv'
        BY ONLY <4>1, <3>1, <3>2, WriterInv DEF WriterInv
      <4>3. StatusChain'
        BY ONLY <4>1, StatusChain DEF StatusChain
      <4> QED BY <4>2, <4>3
    <3>7. CASE Unmoved(u)
      <4>1. /\ status' = [status EXCEPT ![g] = to]
            /\ moves' = [moves EXCEPT ![g] = Append(@, <<effectiveStatus(upd[u].read), to>>)]
            /\ status[g] = upd[u].read
        BY <2>3, <3>7 DEF SwapStatus, Unmoved
      <4>2. /\ status'[g] = to
            /\ moves'[g] = Append(moves[g], <<effectiveStatus(status[g]), to>>)
            /\ \A h \in Goals : h # g => status'[h] = status[h] /\ moves'[h] = moves[h]
        <5>1. status \in [Goals -> StoredStatus] /\ moves \in [Goals -> Seq(Status \X Status)]
          BY DEF LifecycleTypeOK
        <5> QED BY ONLY <4>1, <5>1, <3>4
      <4>3. WriterInv'
        BY ONLY <4>2, <3>1, <3>2, <3>4, WriterInv DEF WriterInv
      <4>4. ASSUME NEW h \in Goals PROVE Chain(moves'[h], status'[h])
        <5>1. CASE h = g
          <6>1. moves[g] \in Seq(Status \X Status) /\ status[g] \in StoredStatus
            BY <3>4 DEF LifecycleTypeOK
          <6>2. Chain(moves[g], status[g])
            BY <3>4, <2>0
          <6>3. Chain(Append(moves[g], <<effectiveStatus(status[g]), to>>), to)
            BY ONLY <6>1, <6>2, <3>4, <3>5, <4>1, ChainGrows
          <6> QED BY ONLY <5>1, <6>3, <4>2
        <5>2. CASE h # g
          BY <5>2, <4>2, <2>0
        <5> QED BY <5>1, <5>2
      <4> QED BY <4>3, <4>4, <2>b
    <3> QED BY <3>6, <3>7
  <2> QED
    BY <2>1, <2>2, <2>3, <2>a
    DEF LifecycleNext, RecordOutcome, BeginGenerate, CheckNoPlan, PlannerAnswers, StorePlan,
        NextVersion, lifecycleVars
<1> QED BY <1>1, <1>2, TypeCorrect, PTL DEF LifecycleSpec

(* The committed status changes of a goal form a chain: no update is lost  *)
(* and none is applied on top of a status it was not checked against.      *)
THEOREM ChainTheorem == LifecycleSpec => []StatusChain
BY ChainInvariant, PTL

(* History is final: no step takes a goal out of a terminal status, also   *)
(* not one of a writer that read the goal before it ended.                 *)
THEOREM FinalTheorem == LifecycleSpec => TerminalIsFinal
<1>1. LifecycleTypeOK /\ WriterInv /\ [LifecycleNext]_lifecycleVars
        => [\A g \in Goals : Terminal(status[g]) => status'[g] = status[g]]_lifecycleVars
  <2> SUFFICES ASSUME LifecycleTypeOK, WriterInv, [LifecycleNext]_lifecycleVars,
                      NEW g \in Goals, Terminal(status[g])
               PROVE  status'[g] = status[g]
    BY DEF lifecycleVars
  <2>1. ASSUME NEW h \in Goals, CreateGoal(h) PROVE status'[g] = status[g]
    <3>1. h # g
      BY <2>1 DEF CreateGoal, WriterInv, Terminal
    <3> QED BY <2>1, <3>1 DEF CreateGoal, LifecycleTypeOK
  <2>2. ASSUME NEW u \in Updaters, SwapStatus(u) PROVE status'[g] = status[g]
    <3>1. CASE ~Unmoved(u)
      BY <2>2, <3>1 DEF SwapStatus
    <3>2. CASE Unmoved(u)
      <4>1. CanTransitionTo(effectiveStatus(upd[u].read), upd[u].to)
        BY <2>2 DEF SwapStatus, WriterInv
      <4>2. ~Terminal(upd[u].read)
        BY ONLY <4>1 DEF CanTransitionTo, effectiveStatus, Terminal
      <4>3. upd[u].goal # g
        BY <3>2, <4>2 DEF Unmoved
      <4>4. status' = [status EXCEPT ![upd[u].goal] = upd[u].to]
        BY <2>2, <3>2 DEF SwapStatus
      <4> QED BY <4>3, <4>4 DEF LifecycleTypeOK
    <3> QED BY <3>1, <3>2
  <2> QED
    BY <2>1, <2>2
    DEF LifecycleNext, RecordOutcome, BeginUpdate, BeginGenerate, CheckNoPlan, PlannerAnswers,
        StorePlan, NextVersion, lifecycleVars
<1> QED BY <1>1, TypeCorrect, ChainInvariant, PTL DEF LifecycleSpec, TerminalIsFinal

-----------------------------------------------------------------------------
(* A request that has not stored its plan has no plan row and no version.  *)
UnstoredInv == \A x \in Generators : gen[x].pc # "done" => plans[x] = NoGoal /\ head[x] = 0

(* A plan that GetPlanByGoal finds has its first version and belongs to    *)
(* the goal, and every outcome refers to a version that exists: with or    *)
(* without the unique index, and although StorePlan sets the head of a     *)
(* plan and a replan may be moving other heads at the same time.           *)
THEOREM CompleteTheorem == LifecycleSpec => []PlansAreComplete
<1>1. LifecycleInit => UnstoredInv /\ PlansAreComplete
  BY DEF LifecycleInit, UnstoredInv, PlansAreComplete
<1>2. LifecycleTypeOK /\ UnstoredInv /\ PlansAreComplete /\ [LifecycleNext]_lifecycleVars => (UnstoredInv /\ PlansAreComplete)'
  <2> SUFFICES ASSUME LifecycleTypeOK, UnstoredInv, PlansAreComplete, [LifecycleNext]_lifecycleVars
               PROVE  (UnstoredInv /\ PlansAreComplete)'
    OBVIOUS
  <2>0. /\ byGoal \in [Goals -> SUBSET Generators] /\ outcomes \in SUBSET (Generators \X Nat)
        /\ plans \in [Generators -> Goals \cup {NoGoal}] /\ head \in [Generators -> Nat]
        /\ \A x \in Generators : gen[x].pc # "idle" => gen[x].goal \in Goals
    <3>1. \A x \in Generators : gen[x].pc # "idle" => gen[x].goal \in Goals
      BY DEF LifecycleTypeOK, NotBegun, Generating
    <3> QED BY <3>1 DEF LifecycleTypeOK
  <2>a. CASE UNCHANGED <<plans, byGoal, head, outcomes, gen>>
    BY ONLY <2>a, UnstoredInv, PlansAreComplete DEF UnstoredInv, PlansAreComplete
  <2>b. ASSUME UNCHANGED <<plans, byGoal, head, outcomes>>, NEW x \in Generators, gen[x].pc # "done",
               \A y \in Generators : y # x => gen'[y] = gen[y]
        PROVE  (UnstoredInv /\ PlansAreComplete)'
    BY ONLY <2>b, UnstoredInv, PlansAreComplete DEF UnstoredInv, PlansAreComplete
  <2>1. ASSUME NEW x \in Generators, NEW g \in Goals, BeginGenerate(x, g)
        PROVE  (UnstoredInv /\ PlansAreComplete)'
    BY <2>1, <2>b DEF BeginGenerate, LifecycleTypeOK
  <2>2. ASSUME NEW x \in Generators, CheckNoPlan(x) \/ PlannerAnswers(x)
        PROVE  (UnstoredInv /\ PlansAreComplete)'
    BY <2>2, <2>b DEF CheckNoPlan, PlannerAnswers, LifecycleTypeOK
  <2>3. ASSUME NEW x \in Generators, StorePlan(x) PROVE (UnstoredInv /\ PlansAreComplete)'
    <3>1. PICK g \in Goals : g = gen[x].goal
      BY <2>0, <2>3 DEF StorePlan
    <3>2. /\ gen[x].pc = "planned" /\ outcomes' = outcomes
          /\ gen'[x].pc = "done" /\ \A y \in Generators : y # x => gen'[y] = gen[y]
      <4>1. gen[x] \in Generating
        BY <2>3 DEF StorePlan, LifecycleTypeOK, NotBegun
      <4>2. [gen[x] EXCEPT !.pc = "done"].pc = "done"
        BY ONLY <4>1 DEF Generating
      <4> QED BY <2>3, <4>2 DEF StorePlan, LifecycleTypeOK
    <3>3. CASE UNCHANGED <<plans, byGoal, head>>
      BY <2>b, <3>2, <3>3
    <3>4. CASE /\ plans' = [plans EXCEPT ![x] = g]
               /\ byGoal' = [byGoal EXCEPT ![g] = {x}]
               /\ head' = [head EXCEPT ![x] = 1]
      <4>1. /\ plans'[x] = g /\ head'[x] = 1 /\ byGoal'[g] = {x}
            /\ \A y \in Generators : y # x => plans'[y] = plans[y] /\ head'[y] = head[y]
            /\ \A h \in Goals : h # g => byGoal'[h] = byGoal[h]
        BY ONLY <2>0, <3>4
      <4>2. plans[x] = NoGoal /\ head[x] = 0
        BY ONLY <3>2, UnstoredInv DEF UnstoredInv
      <4>3. \A h \in Goals : x \notin byGoal[h]
        BY ONLY <4>2, LifecycleAssumption, PlansAreComplete DEF PlansAreComplete
      <4>4. \A h \in Goals : \A y \in byGoal'[h] : plans'[y] = h /\ head'[y] >= 1
        BY ONLY <2>0, <4>1, <4>3, PlansAreComplete DEF PlansAreComplete
      <4>5. \A o \in outcomes : o[1] \in Generators /\ o[1] # x
        BY ONLY <2>0, <4>2, PlansAreComplete DEF PlansAreComplete
      <4>6. \A o \in outcomes' : o[2] \in 1..head'[o[1]]
        BY ONLY <3>2, <4>1, <4>5, PlansAreComplete DEF PlansAreComplete
      <4>7. UnstoredInv'
        BY ONLY <3>2, <4>1, UnstoredInv DEF UnstoredInv
      <4> QED BY ONLY <4>4, <4>6, <4>7 DEF PlansAreComplete
    <3> QED BY <2>3, <3>1, <3>3, <3>4 DEF StorePlan
  <2>4. ASSUME NEW x \in Generators, NextVersion(x) PROVE (UnstoredInv /\ PlansAreComplete)'
    <3>1. /\ plans[x] # NoGoal /\ UNCHANGED <<plans, byGoal, outcomes, gen>>
          /\ head'[x] = head[x] + 1 /\ \A y \in Generators : y # x => head'[y] = head[y]
      BY <2>0, <2>4 DEF NextVersion
    <3>2. \A y \in Generators : head[y] \in Nat /\ head'[y] >= head[y]
      BY ONLY <2>0, <3>1
    <3>3. UnstoredInv'
      BY ONLY <3>1, UnstoredInv DEF UnstoredInv
    <3>4. \A g \in Goals : \A y \in byGoal'[g] : plans'[y] = g /\ head'[y] >= 1
      BY ONLY <2>0, <3>1, <3>2, PlansAreComplete DEF PlansAreComplete
    <3>5. \A o \in outcomes' : o[2] \in 1..head'[o[1]]
      <4> SUFFICES ASSUME NEW o \in outcomes' PROVE o[2] \in 1..head'[o[1]]
        OBVIOUS
      <4>0. o \in outcomes
        BY ONLY <3>1, o \in outcomes'
      <4>1. o[1] \in Generators /\ o[2] \in Nat /\ o[2] \in 1..head[o[1]]
        BY ONLY <2>0, <4>0, PlansAreComplete DEF PlansAreComplete
      <4>2. head[o[1]] \in Nat /\ head'[o[1]] >= head[o[1]] /\ head'[o[1]] \in Nat
        BY ONLY <2>0, <3>1, <3>2, <4>1
      <4> QED BY ONLY <4>1, <4>2
    <3> QED BY ONLY <3>3, <3>4, <3>5 DEF PlansAreComplete
  <2>5. ASSUME NEW g \in Goals, NEW v \in 1..MaxVersion, RecordOutcome(g, v)
        PROVE  (UnstoredInv /\ PlansAreComplete)'
    <3>1. PICK x \in byGoal[g] : v \in 1..head[x] /\ outcomes' = outcomes \cup {<<x, v>>}
      BY <2>5 DEF RecordOutcome
    <3>2. UNCHANGED <<plans, byGoal, head, gen>>
      BY <2>5 DEF RecordOutcome
    <3>3. \A o \in outcomes' : o[2] \in 1..head[o[1]]
      BY ONLY <3>1, PlansAreComplete DEF PlansAreComplete
    <3> QED
      BY ONLY <3>2, <3>3, UnstoredInv, PlansAreComplete DEF UnstoredInv, PlansAreComplete
  <2> QED
    BY <2>1, <2>2, <2>3, <2>4, <2>5, <2>a DEF LifecycleNext, CreateGoal, SwapStatus, BeginUpdate, lifecycleVars
<1> QED BY <1>1, <1>2, TypeCorrect, PTL DEF LifecycleSpec
=============================================================================
