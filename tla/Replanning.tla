---------------------------- MODULE Replanning -----------------------------
(***************************************************************************)
(* From a signal to a plan version: ApplySignal and RecoverPending         *)
(* (internal/app/service.go), the replan handler processReplan             *)
(* (internal/app/worker.go), and the rows they share in the store          *)
(* (internal/storage): goal status, plan versions and signal status.       *)
(*                                                                         *)
(* The service runs on one or more nodes over one store.  With Async each  *)
(* node has its own in-memory queue, which behaves as SerialQueue (shown   *)
(* for the real queue in ReplanQueue); otherwise the handler runs inside   *)
(* ApplySignal (InlineQueue) and any number run side by side.  Between any *)
(* two store or planner calls of a handler another process may step, the   *)
(* node may crash, the call may fail, or the handler's context may end.    *)
(*                                                                         *)
(* A plan stands for its goal as well: plan generation (GoalLifecycle)     *)
(* precedes every signal, and a goal's plan never changes after it.        *)
(***************************************************************************)
EXTENDS Naturals, Sequences, FiniteSets

CONSTANTS Plans, Signals, Nodes,
          PlanOf,          \* the plan of the signal's goal
          Contents,        \* plan contents: the ordered moves, with their keys,
                           \* dependencies and groups, and the top move's confidence
          InitialContent,  \* the content of version 1
          ConfidenceDelta, \* the evaluator's threshold
          Replies,         \* per signal, the contents the planner may answer with
          Gated,           \* signals the domain's gate never replans for
          Async,           \* MemoryQueue rather than InlineQueue
          Retries,         \* replanRetries
          RecoverLimit,    \* recoverScanLimit
          NoSignal,
          CtxEnds,         \* whether handler contexts may end early
          GoalMoves,       \* statuses a goal may be moved to in the instance
          MaxCrashes, MaxFaults  \* model bounds: crashes and failing store calls

maxReplanAttempts == 3

ASSUME ReplanningAssumption ==
  /\ PlanOf \in [Signals -> Plans]
  /\ \A c \in Contents : c.confidence \in Nat
  /\ InitialContent \in Contents
  /\ ConfidenceDelta \in Nat \ {0}
  /\ Replies \in [Signals -> SUBSET Contents]
  /\ Gated \subseteq Signals
  /\ GoalMoves \subseteq {"active", "on_hold", "resolved"}
  /\ Async \in BOOLEAN /\ CtxEnds \in BOOLEAN
  /\ Retries \in Nat /\ RecoverLimit \in Nat \ {0}
  /\ MaxCrashes \in Nat /\ MaxFaults \in Nat
  /\ NoSignal \notin Signals

VARIABLES
  goalStatus,  \* goal.status, per plan
  versions,    \* plan_version rows, per plan
  current,     \* plan.current_version, per plan
  status,      \* signal.status; "none" before the row exists
  resultOf,    \* signal.result_version
  created,     \* signal.created_at, as a position in time
  clock,       \* the last position given out
  up,          \* per node, whether its process runs
  call,        \* per signal, the ApplySignal call that brings it
  fifo,        \* per node and plan, the node's queue: backlog ...
  running,     \* ... job being handled (Async) ...
  seen,        \* ... and signals accepted, oldest first
  recovery,    \* per node, the RecoverPending scan
  job,         \* per node and signal, the handler's local state
  events,      \* events emitted
  stranded,    \* history: signals a handler or a scan gave up on unmarked
  crashes, faults

vars == <<goalStatus, versions, current, status, resultOf, created, clock, up,
          call, fifo, running, seen, recovery, job, events, stranded, crashes, faults>>

store == <<versions, current, status, resultOf>>
queue == <<fifo, running, seen>>
rest  == <<goalStatus, created, clock, up, recovery>>

SignalStatus == {"pending", "applied", "unchanged", "failed"}
-----------------------------------------------------------------------------
NoJob == [pc |-> "idle", base |-> 0, attempt |-> 0, tries |-> 0,
          content |-> InitialContent, result |-> "pending", version |-> 0,
          expired |-> FALSE]
NewJob == [NoJob EXCEPT !.pc = "load", !.attempt = 1]
NoScan == [pc |-> "done", left |-> {}]
StartScan_Never == NoScan      \* mutant: no recovery on start
StartScan == IF Async THEN [pc |-> "scan", left |-> {}] ELSE NoScan
EmptyQueue == [p \in Plans |-> <<>>]
NothingRuns == [p \in Plans |-> NoSignal]

Init ==
  /\ goalStatus = [p \in Plans |-> "active"]
  /\ versions = [p \in Plans |-> {[num |-> 1, content |-> InitialContent, by |-> NoSignal]}]
  /\ current = [p \in Plans |-> 1]
  /\ status = [s \in Signals |-> "none"]
  /\ resultOf = [s \in Signals |-> 0]
  /\ created = [s \in Signals |-> 0]
  /\ clock = 0
  /\ up = [n \in Nodes |-> TRUE]
  /\ call \in [Signals -> [pc : {"new"}, node : Nodes]]
  /\ fifo = [n \in Nodes |-> EmptyQueue]
  /\ running = [n \in Nodes |-> NothingRuns]
  /\ seen = [n \in Nodes |-> <<>>]
  /\ recovery = [n \in Nodes |-> StartScan]
  /\ job = [n \in Nodes |-> [s \in Signals |-> NoJob]]
  /\ events = {}
  /\ stranded = {}
  /\ crashes = 0 /\ faults = 0

Completed(s, st) == [type |-> "replan.completed", signal |-> s, status |-> st]
Received(s, st) == [type |-> "signal.received", signal |-> s, status |-> st]
Seen_Forgotten(n, s) == FALSE  \* mutant: no idempotency check
Seen(n, s) == \E i \in DOMAIN seen[n] : seen[n][i] = s
ContentOf(p, v) == (CHOOSE r \in versions[p] : r.num = v).content

-----------------------------------------------------------------------------
(* ApplySignal                                                             *)

\* GetGoal, the status check, GetPlanByGoal and GetCurrentPlanVersion.
ApplyCheck(s) ==
  /\ call[s].pc = "new" /\ up[call[s].node]
  /\ goalStatus[PlanOf[s]] = "active"
  /\ call' = [call EXCEPT ![s].pc = "checked"]
  /\ UNCHANGED <<store, queue, rest, job, events, stranded, crashes, faults>>

\* CreateSignal, with status pending.
ApplyStore(s) ==
  /\ call[s].pc = "checked"
  /\ status' = [status EXCEPT ![s] = "pending"]
  /\ clock' = clock + 1
  /\ created' = [created EXCEPT ![s] = clock + 1]
  /\ call' = [call EXCEPT ![s].pc = "stored"]
  /\ UNCHANGED <<versions, current, resultOf, queue, goalStatus, up, recovery, job,
                 events, stranded, crashes, faults>>

\* CreateSignal fails and the caller gets the error; the row may have been committed
\* all the same.
ApplyFault(s) ==
  /\ call[s].pc = "checked"
  /\ faults < MaxFaults /\ faults' = faults + 1
  /\ call' = [call EXCEPT ![s].pc = "dead"]
  /\ \/ UNCHANGED <<status, created, clock, stranded>>
     \/ /\ status' = [status EXCEPT ![s] = "pending"]
        /\ clock' = clock + 1
        /\ created' = [created EXCEPT ![s] = clock + 1]
        /\ stranded' = stranded \cup {s}
  /\ UNCHANGED <<versions, current, resultOf, queue, goalStatus, up, recovery, job,
                 events, crashes>>

\* MemoryQueue.Enqueue on node n, as SerialQueue specifies it: a signal the node
\* has already accepted is a no-op.
Enqueue(n, s) ==
  IF Seen(n, s)
  THEN UNCHANGED queue
  ELSE /\ fifo' = [fifo EXCEPT ![n][PlanOf[s]] = Append(@, s)]
       /\ seen' = [seen EXCEPT ![n] = Append(@, s)]
       /\ UNCHANGED running

\* queue.Enqueue: the job is queued, or the handler is entered at once.
ApplyEnqueue(s) ==
  LET n == call[s].node
  IN /\ call[s].pc = "stored"
     /\ IF Async
        THEN /\ Enqueue(n, s)
             /\ call' = [call EXCEPT ![s].pc = "answer"]
             /\ UNCHANGED job
        ELSE /\ job' = [job EXCEPT ![n][s] = NewJob]
             /\ call' = [call EXCEPT ![s].pc = "waiting"]
             /\ UNCHANGED queue
     /\ UNCHANGED <<store, rest, events, stranded, crashes, faults>>

\* signal.received is emitted and the call returns.  Inline, only a handler that
\* succeeded gets here.
ApplyReturn(s) ==
  LET n == call[s].node
  IN /\ call[s].pc = "answer"
     /\ call' = [call EXCEPT ![s].pc = "done"]
     /\ events' = events \cup
          {Received(s, IF Async THEN "pending" ELSE job[n][s].result)}
     /\ job' = IF Async THEN job ELSE [job EXCEPT ![n][s] = NoJob]
     /\ UNCHANGED <<store, queue, rest, stranded, crashes, faults>>

-----------------------------------------------------------------------------
(* The worker: processReplan for signal s on node n                        *)

PlanIdle(n, p) == running[n][p] = NoSignal

\* A worker of node n takes the next job of plan p.
BeginJob(n, p) ==
  /\ Async /\ up[n]
  /\ PlanIdle(n, p)
  /\ fifo[n][p] # <<>>
  /\ running' = [running EXCEPT ![n][p] = Head(fifo[n][p])]
  /\ fifo' = [fifo EXCEPT ![n][p] = Tail(@)]
  /\ job' = [job EXCEPT ![n][Head(fifo[n][p])] = NewJob]
  /\ UNCHANGED <<store, seen, rest, call, events, stranded, crashes, faults>>

\* The handler's next local state, when nothing shared changes.
Goto(n, s, j) ==
  /\ job' = [job EXCEPT ![n][s] = j]
  /\ UNCHANGED <<store, queue, rest, call, events, stranded, crashes, faults>>

\* failReplan: the outcome is failed, with no version.
Failed(j) == [j EXCEPT !.pc = "mark", !.result = "failed", !.version = 0]

\* GetGoal (before the first attempt) and GetCurrentPlanVersion.  The goal's status
\* is not looked at again.
Load(n, s) ==
  LET j == job[n][s]
  IN /\ j.pc = "load"
     /\ Goto(n, s, IF j.expired THEN Failed(j)
                   ELSE [j EXCEPT !.pc = "plan", !.base = current[PlanOf[s]], !.tries = 0])

\* ThresholdEvaluator: not an equivalence, since confidence may drift in small steps.
IsMaterial(old, new) ==
  \/ old.moves = <<>> \/ new.moves = <<>>
  \/ old.moves # new.moves
  \/ old.confidence >= new.confidence + ConfidenceDelta
  \/ new.confidence >= old.confidence + ConfidenceDelta

\* Engine.Replan answers: the gate skips the planner, or the planner's moves are
\* compared with those of the version that was loaded (IsMaterial).
Evaluate(n, s) ==
  LET j == job[n][s]
      unchanged == [j EXCEPT !.pc = "mark", !.result = "unchanged", !.version = j.base]
  IN /\ j.pc = "plan"
     /\ \/ s \in Gated /\ Goto(n, s, unchanged)
        \/ /\ s \notin Gated
           /\ \E c \in Replies[s] :
                IF IsMaterial(ContentOf(PlanOf[s], j.base), c)
                THEN Goto(n, s, [j EXCEPT !.pc = "write", !.content = c])
                ELSE Goto(n, s, unchanged)

\* Mutant of PlannerError: a planner retry uses up a conflict attempt.
PlannerError_CountsAttempt(n, s) ==
  LET j == job[n][s]
  IN /\ j.pc = "plan" /\ s \notin Gated
     /\ \/ j.attempt <= Retries /\ ~j.expired /\ Goto(n, s, [j EXCEPT !.attempt = @ + 1])
        \/ Goto(n, s, Failed(j))

\* Engine.Replan fails: a transient error is retried (replanWithRetry), anything
\* else, or a context that ended, fails the replan.
PlannerError(n, s) ==
  LET j == job[n][s]
  IN /\ j.pc = "plan" /\ s \notin Gated
     /\ \/ j.tries < Retries /\ ~j.expired /\ Goto(n, s, [j EXCEPT !.tries = @ + 1])
        \/ Goto(n, s, Failed(j))

\* The insert of CreatePlanVersion: the key (plan, version) is unique, and the head
\* advances.
InsertVersion(p, v, c, s) ==
  /\ versions' = [versions EXCEPT ![p] = @ \cup {[num |-> v, content |-> c, by |-> s]}]
  /\ current' = [current EXCEPT ![p] = IF v > @ THEN v ELSE @]

Taken_Unchecked(p, v) == FALSE  \* mutant: no unique key
Taken(p, v) == \E r \in versions[p] : r.num = v

\* The insert succeeded: the signal is applied, as the version it wrote.
Applied_ReportsBase(j) ==        \* mutant: off by one
  [j EXCEPT !.pc = "mark", !.result = "applied", !.version = j.base]
Applied_NoReturn(j) ==           \* mutant: the attempt loop goes on
  [j EXCEPT !.pc = "load", !.attempt = @ + 1]
Applied(j) == [j EXCEPT !.pc = "mark", !.result = "applied", !.version = j.base + 1]

\* CreatePlanVersion for base + 1.  A conflict reloads and re-evaluates, up to
\* maxReplanAttempts.
Write(n, s) ==
  LET j == job[n][s]
      p == PlanOf[s]
  IN /\ j.pc = "write"
     /\ \/ j.expired /\ Goto(n, s, Failed(j))
        \/ /\ ~j.expired /\ Taken(p, j.base + 1)
           /\ Goto(n, s, IF j.attempt < maxReplanAttempts
                         THEN [j EXCEPT !.pc = "load", !.attempt = @ + 1]
                         ELSE Failed(j))
        \/ /\ ~j.expired /\ ~Taken(p, j.base + 1)
           /\ InsertVersion(p, j.base + 1, j.content, s)
           /\ job' = [job EXCEPT ![n][s] = Applied(j)]
           /\ UNCHANGED <<status, resultOf, queue, rest, call, events, stranded,
                          crashes, faults>>

\* Mutant of MarkSignalProcessed: an immaterial outcome is not recorded.
MarkSignalProcessed_OnlyVersions(s, j) ==
  /\ status' = [status EXCEPT ![s] = IF j.result = "unchanged" THEN @ ELSE j.result]
  /\ resultOf' = [resultOf EXCEPT ![s] = j.version]

MarkSignalProcessed(s, j) ==
  /\ status' = [status EXCEPT ![s] = j.result]
  /\ resultOf' = [resultOf EXCEPT ![s] = j.version]

\* markSignal: MarkSignalProcessed overwrites the row; a failure is only logged.
Mark(n, s) ==
  LET j == job[n][s]
  IN /\ j.pc = "mark"
     /\ job' = [job EXCEPT ![n][s].pc = "emit"]
     /\ IF j.expired
        THEN stranded' = stranded \cup {s} /\ UNCHANGED <<status, resultOf>>
        ELSE MarkSignalProcessed(s, j) /\ UNCHANGED stranded
     /\ UNCHANGED <<versions, current, queue, rest, call, events, crashes, faults>>

\* The handler is over: the worker looks for the plan's next job, or the inline
\* call goes on to its answer (out # "failed") or returns the error.
JobOver(n, s, out) ==
  IF Async
  THEN /\ running' = [running EXCEPT ![n][PlanOf[s]] = NoSignal]
       /\ job' = [job EXCEPT ![n][s] = NoJob]
       /\ UNCHANGED <<fifo, seen, call>>
  ELSE /\ call' = [call EXCEPT ![s].pc = IF out = "failed" THEN "dead" ELSE "answer"]
       /\ job' = [job EXCEPT ![n][s] =
                    IF out = "failed" THEN NoJob ELSE [NoJob EXCEPT !.result = out]]
       /\ UNCHANGED queue

\* emitReplanCompleted, detached from the job's context, and the handler returns.
EmitCompleted(n, s) ==
  /\ job[n][s].pc = "emit"
  /\ events' = events \cup {Completed(s, job[n][s].result)}
  /\ JobOver(n, s, job[n][s].result)
  /\ UNCHANGED <<store, rest, stranded, crashes, faults>>

\* The planner panics: runJob recovers (the inline call is torn down), the signal
\* stays pending.
HandlerPanics(n, s) ==
  /\ job[n][s].pc = "plan"
  /\ faults < MaxFaults /\ faults' = faults + 1
  /\ stranded' = stranded \cup {s}
  /\ JobOver(n, s, "failed")
  /\ UNCHANGED <<store, rest, events, crashes>>

\* The job's deadline expires, or the client of an inline call goes away: store
\* calls made with this context fail from here on.
CtxDone(n, s) ==
  /\ CtxEnds
  /\ job[n][s].pc \in {"load", "plan", "write", "mark"} /\ ~job[n][s].expired
  /\ Goto(n, s, [job[n][s] EXCEPT !.expired = TRUE])

\* A store call of the handler fails.  The failed insert may have been committed all
\* the same: the answer to a commit can be lost.
StoreFault(n, s) ==
  LET j == job[n][s]
      p == PlanOf[s]
  IN /\ faults < MaxFaults /\ faults' = faults + 1
     /\ \/ /\ j.pc \in {"load", "write"}
           /\ job' = [job EXCEPT ![n][s] = Failed(j)]
           /\ UNCHANGED <<versions, current, stranded>>
        \/ /\ j.pc = "write" /\ ~Taken(p, j.base + 1)
           /\ InsertVersion(p, j.base + 1, j.content, s)
           /\ job' = [job EXCEPT ![n][s] = Failed(j)]
           /\ UNCHANGED stranded
        \/ /\ j.pc = "mark"
           /\ job' = [job EXCEPT ![n][s].pc = "emit"]
           /\ stranded' = stranded \cup {s}
           /\ UNCHANGED <<versions, current>>
     /\ UNCHANGED <<status, resultOf, queue, rest, call, events, crashes>>

-----------------------------------------------------------------------------
(* Crash, restart and RecoverPending                                       *)

\* The process of node n dies: its queue, handlers and calls are gone.
Crash(n) ==
  /\ up[n] /\ crashes < MaxCrashes
  /\ crashes' = crashes + 1
  /\ up' = [up EXCEPT ![n] = FALSE]
  /\ fifo' = [fifo EXCEPT ![n] = EmptyQueue]
  /\ running' = [running EXCEPT ![n] = NothingRuns]
  /\ seen' = [seen EXCEPT ![n] = <<>>]
  /\ recovery' = [recovery EXCEPT ![n] = NoScan]
  /\ job' = [job EXCEPT ![n] = [s \in Signals |-> NoJob]]
  /\ call' = [s \in Signals |-> IF call[s].node = n /\ call[s].pc # "new"
                                THEN [call[s] EXCEPT !.pc = "dead"] ELSE call[s]]
  /\ UNCHANGED <<store, goalStatus, created, clock, events, stranded, faults>>

\* The process starts again; with the asynchronous queue it starts a recovery scan
\* in a goroutine of its own, beside the requests it serves.
Restart(n) ==
  /\ ~up[n]
  /\ up' = [up EXCEPT ![n] = TRUE]
  /\ recovery' = [recovery EXCEPT ![n] = StartScan]
  /\ UNCHANGED <<store, queue, goalStatus, created, clock, call, job, events, stranded,
                 crashes, faults>>

\* ListPendingSignals: the oldest RecoverLimit pending rows.
Pending == {s \in Signals : status[s] = "pending"}
ListPendingSignals ==
  {s \in Pending : Cardinality({t \in Pending : created[t] < created[s]}) < RecoverLimit}

\* One bounded scan; the surplus waits for a later restart, and so does everything
\* when the query fails.
RecoverScan(n) ==
  /\ recovery[n].pc = "scan"
  /\ \/ /\ recovery' = [recovery EXCEPT ![n] = [pc |-> "loop", left |-> ListPendingSignals]]
        /\ stranded' = stranded \cup (Pending \ ListPendingSignals)
        /\ UNCHANGED faults
     \/ /\ faults < MaxFaults /\ faults' = faults + 1
        /\ recovery' = [recovery EXCEPT ![n] = NoScan]
        /\ stranded' = stranded \cup Pending
  /\ UNCHANGED <<store, queue, goalStatus, created, clock, up, call, job, events, crashes>>

\* One turn of the loop: the oldest row is enqueued, or skipped when its goal or plan
\* cannot be read.
RecoverNext(n) ==
  /\ recovery[n].pc = "loop"
  /\ \E s \in recovery[n].left :
       /\ \A t \in recovery[n].left : created[s] <= created[t]
       /\ recovery' = [recovery EXCEPT ![n].left = @ \ {s}]
       /\ \/ Enqueue(n, s) /\ UNCHANGED <<stranded, faults>>
          \/ /\ faults < MaxFaults /\ faults' = faults + 1
             /\ stranded' = stranded \cup {s}
             /\ UNCHANGED queue
  /\ UNCHANGED <<store, goalStatus, created, clock, up, call, job, events, crashes>>

\* UpdateGoalStatus of the plan's goal (its two terminal statuses are alike here).
SetGoalStatus(p, st) ==
  /\ goalStatus[p] # "resolved" /\ goalStatus[p] # st
  /\ goalStatus' = [goalStatus EXCEPT ![p] = st]
  /\ UNCHANGED <<store, queue, created, clock, up, recovery, call, job, events, stranded,
                 crashes, faults>>

-----------------------------------------------------------------------------
CallStep(s) == ApplyStore(s) \/ ApplyEnqueue(s) \/ ApplyReturn(s)

HandlerStep(n, s) ==
  \/ Load(n, s) \/ Evaluate(n, s) \/ Write(n, s) \/ Mark(n, s) \/ EmitCompleted(n, s)

Next ==
  \/ \E s \in Signals : ApplyCheck(s) \/ CallStep(s) \/ ApplyFault(s)
  \/ \E n \in Nodes, p \in Plans : BeginJob(n, p)
  \/ \E n \in Nodes, s \in Signals :
       HandlerStep(n, s) \/ PlannerError(n, s) \/ HandlerPanics(n, s)
         \/ CtxDone(n, s) \/ StoreFault(n, s)
  \/ \E n \in Nodes : Crash(n) \/ Restart(n) \/ RecoverScan(n) \/ RecoverNext(n)
  \/ \E p \in Plans, st \in GoalMoves : SetGoalStatus(p, st)

Spec == Init /\ [][Next]_vars

\* Goroutines are scheduled and the planner answers or fails (its call runs under the
\* job's deadline); a node that crashed is started again.
Fairness ==
  /\ \A s \in Signals : WF_vars(CallStep(s))
  /\ \A n \in Nodes, p \in Plans : WF_vars(BeginJob(n, p))
  /\ \A n \in Nodes, s \in Signals : WF_vars(HandlerStep(n, s) \/ PlannerError(n, s))
  /\ \A n \in Nodes : WF_vars(Restart(n)) /\ WF_vars(RecoverScan(n) \/ RecoverNext(n))

FairSpec == Spec /\ Fairness
-----------------------------------------------------------------------------
History == INSTANCE PlanHistory WITH
  Authors <- Signals,
  Material <- IsMaterial,
  log <- [p \in Plans |-> [i \in 1..current[p] |->
            LET r == CHOOSE r \in versions[p] : r.num = i
            IN [content |-> r.content, by |-> r.by]]]

(* What a signal's row and the replan.completed event say was applied is in   *)
(* the history: the version exists, and it was written for that signal; an    *)
(* unchanged signal names a version that exists (processReplan, markSignal).  *)
AppliedHasVersion ==
  \A s \in Signals :
    /\ status[s] = "applied" =>
         \E r \in versions[PlanOf[s]] : r.num = resultOf[s] /\ r.by = s
    /\ status[s] = "unchanged" => \E r \in versions[PlanOf[s]] : r.num = resultOf[s]
    /\ Completed(s, "applied") \in events => \E r \in versions[PlanOf[s]] : r.by = s

(* No signal is forgotten: a pending row has somebody who will look at it - the *)
(* call that stored it, a queue, a handler, a recovery scan still to come - or  *)
(* was visibly given up (ApplySignal, RecoverPending, runJob).                  *)
InHand(s) ==
  \/ call[s].pc \in {"stored", "waiting"}
  \/ \E n \in Nodes :
       \/ job[n][s].pc # "idle"
       \/ \E i \in DOMAIN fifo[n][PlanOf[s]] : fifo[n][PlanOf[s]][i] = s
       \/ s \in recovery[n].left
       \/ recovery[n].pc = "scan"
       \/ Async /\ ~up[n]

NoSilentLoss == \A s \in Signals : status[s] = "pending" => s \in stranded \/ InHand(s)

(* A conflict means somebody else made progress: a handler is in attempt k    *)
(* only if at least k - 1 versions were written after the plan's first        *)
(* (processReplan's retry loop).                                              *)
RetryMeansProgress ==
  \A n \in Nodes, s \in Signals :
    job[n][s].pc # "idle" => job[n][s].attempt <= Cardinality(versions[PlanOf[s]])

(* A signal contributes at most one version ("no duplicate version", the      *)
(* comment of RecoverPending).                                                *)
OneVersionPerSignal ==
  \A p \in Plans : \A r, q \in versions[p] : r.by = q.by /\ r.by # NoSignal => r = q

(* A replan.completed event reports the status in the store, unless marking   *)
(* that signal failed and was only logged (markSignal).                       *)
CompletedOrLogged ==
  \A s \in Signals, st \in SignalStatus :
    Completed(s, st) \in events => status[s] = st \/ s \in stranded

(* "Notifier receives domain events after they are durably committed"         *)
(* (notify.go), as it is written: a replan.completed event reports the status *)
(* in the store.                                                              *)
CompletedIsCommitted ==
  \A s \in Signals, st \in SignalStatus : Completed(s, st) \in events => status[s] = st

(* A signal's recorded outcome is final (markSignal, MarkSignalProcessed).    *)
StatusFinal ==
  [][\A s \in Signals : status[s] \in SignalStatus \ {"pending"} => status'[s] = status[s]]_vars

(* The store's history implements the append-only log of material versions.   *)
ImplementsPlanHistory == History!HSpec

(* Every stored signal is eventually settled or visibly given up, across a    *)
(* crash and the restart after it.                                            *)
SignalSettles ==
  \A s \in Signals : status[s] = "pending" ~> (status[s] # "pending" \/ s \in stranded)
=============================================================================
