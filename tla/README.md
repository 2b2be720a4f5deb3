# TLA+ specifications of the dynamic decision engine

The engine (Go, `src/`) keeps a *goal* (a case file), one *plan* per goal as an
append-only history of *plan versions*, and *signals*: new information that makes the
engine re-evaluate the plan and, when the change is material, append a version. This
project models the parts of it that are hard to get right - the order of steps of several
goroutines, processes or clients, and the arithmetic by which a plan is chosen, sized and
kept - checks them with TLC on small instances, and proves the central invariants with
TLAPS for every value of the constants.

## 1. Inventory

### Components and their state

| Component | Source | State | Operations | Correct when |
|---|---|---|---|---|
| Replan queue | `internal/app/replan_queue.go` | per-plan FIFO, `queued` flags, bounded idempotency memory, channel of plan ids, `closed` | `Enqueue`, worker loop `work`, `runJob`, `Shutdown` | jobs of a plan run one at a time and in order; nothing is dropped or stranded; a signal is not accepted twice within the memory; Shutdown drains |
| Signal handling and replanning | `internal/app/service.go` (`ApplySignal`, `RecoverPending`), `worker.go`, `notify.go`, `internal/engine/replanner.go` | signal status and result version, plan versions and head, the handler's locals, emitted events | `ApplySignal`, `processReplan` with the planner retry loop and the conflict loop, `markSignal`, events, crash, restart, recovery scan | the history is a contiguous append-only log of material versions; the row and the event tell what happened; no signal is silently lost |
| Goal lifecycle and plan generation | `internal/app/service.go` (`CreateGoal`, `UpdateGoalStatus`, `GeneratePlan`, `RecordOutcome`), `internal/domain/goal.go` | goal status and resolution, plan head, outcomes | the four use-cases, split at each store and planner call | status changes form a chain of allowed transitions ending in a terminal status; one plan per goal (the in-memory store breaks this, section 5); no plan head without versions |
| Storage | `internal/storage/memory.go`, `postgres.go`, `repository.go` | the rows above | compare-and-swap of the goal status, unique keys, transaction, pending scan, paged lists | the guarantees the use-cases build on |
| Webhook dispatcher | `internal/webhook/dispatcher.go` | bounded buffer, workers, `closed` | `Emit`, `worker`, `deliver`, `attempt`, `Shutdown` | each event has one truthful result; never blocks the use-case; Shutdown drains |
| Vendor rate limiter | `internal/marketdata/ratelimit.go` | next start, used units, day | `Wait`, `refund` | budget exact and never overdrawn, requests paced |
| Market data | `internal/marketdata/{cache,chain,fmp,stooq,httpx}.go` | TTL cache with a size cap, in-flight fetches, FMP's quote memo | `Quote`, `Fundamentals`, `HistoricalBars`, each through `lookup`, `once`, the chain and `store` | one fetch per cold key; no value newer than asked for or older than its TTL; history kept for good is final; an outage is not remembered |
| LLM planners | `internal/llm` | LRU+TTL plan cache; the selector, fallback, ensemble, verify and route planners are stateless | `Get`, `Put`, `GeneratePlan` of each decorator, review of the candidates | a cached answer answers the same request; candidates are compared on one basis; a failure falls back |
| Strategy selection | `internal/strategy` | none | utility, filter, weights, hysteresis, disagreement penalty | the best admissible candidate, or the incumbent within the margin |
| Finance planner and scoring | `internal/llm/finance_planner.go`, `internal/finance` | none | risk budget, lens, constraints, scores, sizes, portfolio pass, regime, calibration, weight fit | caps are only tightened and kept; curves are monotone; weights follow the record |
| Engine | `internal/engine` | none | enrich, plan, materiality, diff | a version is written only for a material change, and for every one |
| Source enrichment | `internal/source` | last good value per source and goal | concurrent fan-out with partial failure, fallback to the last good value | one failing source does not lose the others; stale context is marked |
| Move graph | `internal/domain/move_graph.go` | none | `SanitizeMoveGraph`, `MoveGraphIssues`, `findCycle` | the stored graph is acyclic, refers to moves that exist and loses nothing else |
| Learning reads | `internal/app/service.go`, `cmd/dde/commands.go` | offsets of a paged read | `CalibrationSamples`, `StrategySamples`, the two fits | no decisive outcome is missed; a fit uses the samples of its own setting |
| Policy, wiring, configuration | `internal/{policy,wire,config}`, `cmd/dde` | none after start | validation, what a domain gets | what starts can compete, verify, cache and gate as configured |
| Domain packs, backtest, API, MCP, logging, admin UI | `internal/{pack,backtest,api,mcp,logging}`, `web/admin` | none that is shared | | |

### How they interact

`ApplySignal` checks the goal, stores the signal as `pending` and calls
`ReplanQueue.Enqueue`. The queue is either `InlineQueue` (the handler runs inside the
call) or `MemoryQueue` (a worker runs it later). The handler `processReplan` reads the
goal and the current version, asks the engine, writes the next version with an optimistic
insert, records the signal's outcome and emits `replan.completed` through the webhook
dispatcher. On start, an asynchronous node scans for pending signals and enqueues them
again. Several nodes may share one Postgres store; each has its own queue. Goal status
changes and plan generation run concurrently with all of this and are ordered only by the
store.

The engine enriches the goal from its sources, then asks the domain's planner. With two
or more strategies that is the selector: its children (lenses over market data, or prompt
variants over one base planner) answer through a plan cache all goals of a domain share, a
reviewer may adjust the candidates, the utility picks one, and the evaluator compares it
with the current version. The finance children read the market data cache, which sits over
a chain of vendors behind rate limiters. Recorded outcomes feed the fits that an operator
copies into the policy, which the next start reads.

### What is hard

* **Interleaving**: the queue decides under a mutex whether to announce a plan and sends
  after releasing it; two handlers load the same version; a status change between a check
  and the write it guards; calls that share a flight of the market cache; two decisions on
  one plan cache; outcomes that arrive between two pages.
* **Crash and restart**: between the signal insert and its enqueueing, between the version
  write and the status write; the recovery scan is bounded and runs beside requests.
* **Partial failure**: a store call that fails, or that fails after its commit took
  place; a context that expires in the middle of a handler; a panicking planner; one
  vendor, source, strategy or review out of several that fails.
* **Stale state**: entries that outlive their question, last good values, an asOf that is
  not now, an incumbent that did not win.
* **Bounds**: full channel, full event buffer, evicted entries, capped recovery scan,
  retry counts, caps that tighten one after another.
* **Liveness**: every accepted job runs, every stored signal settles, workers leave,
  every call of the market cache returns.

The `hazards` list of `PROJECT.json` names each of these at its line, with the property
that would catch it.

## 2. Modules

```
SerialQueue        what the replan queue promises                 (abstract)
  ^ implemented by ReplanQueue (refinement), and used by Replanning, node by node
PlanHistory        what the decision history promises             (abstract)
  ^ implemented by Replanning (refinement)
ReplanQueue        MemoryQueue              ReplanQueueProofs, MCReplanQueue
Replanning         signals to versions      ReplanningProofs, MCReplanning
GoalLifecycle      goals, plans, outcomes   GoalLifecycleProofs
WebhookDispatcher  event delivery           WebhookProofs
RateLimiter        vendor pacing and budget RateLimiterProofs
MCServices         one instance of the queue and of the last three
MarketCache        market data reads        MarketCacheProofs, MCMarketCache

Selection          which candidate wins, which change is material
  ^ extended by Wiring   what starts, and what a domain gets
      ^ extended by Planning   a decision, from sources to version   PlanningProofs
  ^ extended by Sizing   the finance planner  PlanningProofs, MCSizing
MoveGraph          the sanitised graph      LoopProofs
Learning           outcomes to samples and weights  LoopProofs
Calibration        samples to a confidence curve    LoopProofs
MCPlanning         one instance of the last six
```

**ReplanQueue** models `MemoryQueue` at the granularity of its mutex and channel. Each
critical section is one action: `Enqueue` (duplicate check, `markSeen`, append to the
FIFO, the push flag), `Pop`/`Drained` (the two ways out of the locked section of `work`),
`ShutdownBegins`. What happens outside the mutex is an action of its own: `Send` (may
block on a full channel), `SendPanics` (a send that meets the closed channel), `Receive`,
`JobEnds` (handler returned, failed, or panicked and was recovered by `runJob`),
`CloseChannel`, `WorkerExits`, `ShutdownReturns`. `accepted`, `order` and `started` are
history variables, `lost` records plans whose announcement panicked.

**Replanning** composes the service, the handler, the store's rows and, per node, the
abstract queue. `ApplySignal` is split into `ApplyCheck`, `ApplyStore`, `ApplyEnqueue`,
`ApplyReturn`; the handler into `Load`, `Evaluate` (gate or planner answer, materiality),
`PlannerError` (the inner retry loop), `Write` (the conflict loop), `Mark`,
`EmitCompleted`. `Crash`, `Restart`, `RecoverScan`, `RecoverNext`, `CtxDone`,
`StoreFault`, `ApplyFault` and `HandlerPanics` are the failures. A version's content is
its moves (one value for their keys, order, dependencies and groups, which the evaluator
compares for equality) and the confidence of the top move, compared with a threshold;
`PlanHistory` takes the relation as a parameter. `stranded` is a history variable: signals that
a handler or a scan visibly gave up on (an error or log line exists) without recording an
outcome.

**GoalLifecycle** models the requests on one case file. Each `UpdateGoalStatus` is a read
with its checks (`BeginUpdate`) and a compare-and-swap (`SwapStatus`); each `GeneratePlan`
is `BeginGenerate`, `CheckNoPlan`, `PlannerAnswers`, `StorePlan` (one transaction).
`UniqueGoal` tells the Postgres store (unique index on `plans.goal_id`) from the in-memory
one. A goal written before the status column existed has the status `""`, which
`effectiveStatus` reads as active.

**WebhookDispatcher** models `Emit` (filter, drop or queue, under the mutex), the workers
(`Senders`: `Take`, `Delivered`, `AttemptFails`, `SenderExits`), and `Shutdown`
(`DispatcherCloses`, `DispatcherReturns`; a worker leaves when `OutboxEnds`). The
receiver is external: it may take an event whose acknowledgement is lost.

**RateLimiter** models `Limiter` of the market-data vendors: the critical section of
`Wait` (`Refuse` or `Admit`), the sleep outside the mutex (`TimerFires`, `CtxDone`) and
`refund` in a critical section of its own. Time is a tick counter; a day is `DayLength`
ticks. `overtook` is a history variable: some slot was given back while a later one was
reserved.

**MarketCache** models `CachingProvider` over `ChainProvider` over FMP and Stooq, for one
ticker. A read is `Begin` (its key: asOf truncated to the TTL, or a day range, split at
the start of yesterday into a past chunk and a recent stub), `Lookup`, `Once` (wait or
lead), `Recheck` (the leader's second look), `Fetch` (the vendors answer, the leader
stores), `Publish` (the flight retires and everyone who waits goes on), and `Direct` (the
shared value is newer than this call's asOf). `Room` is the eviction at the size cap,
which picks any entries. A value is the asOf it claims and when it was obtained, an error
the sentinels it wraps, a range the days it has bars of; vendors may answer with any
subset of the published days. FMP's memo of live quotes sits behind the cache.

**Selection** holds the arithmetic of `internal/strategy` and `ThresholdEvaluator` as
operators: `HardFilter`, the utility, weights, `Select` with the incumbent's margin,
`DisagreementPenalty`, `IsMaterial`.

**Wiring** says which configurations and policies start (`Starts`), and what a domain
gets from them: its base planner and reviewer, the strategies that compete, whether and how
long plans are cached, the gate, margin and delta, and its sources. `Enriched` is the set
of all results of asking the sources: adapters that fail or panic, `Composite`,
`CachingSource` with its last good value; `Regimes` the set of all classifications.

**Planning** is a decision of `Engine.Evaluate` or `Engine.Replan`: `Begin` (gate,
enrichment, regime, the eligible children), `Lookup` and `Answer` (the two critical
sections of `CachingPlanner`, per child), `Review` (one `VerifyPlan` after the other, up to the first
that fails), `Choose` (selection, haircut) or `Fail`, and `Commit`
(materiality, the next version with its provenance). `Tick` and
`WorldChanges` are the environment. The base planners are the sets of their possible
answers: mock, a model, bring-your-own-key, verify, route, ensemble, numeric. Each cache
entry and answer carries, as history, the request it was made for.

**Sizing** is the finance planner: `Overlay` (a lens, with or without the policy's
override), `Constrain` (one goal constraint in `EffectiveRiskBudget`'s loop), `FirstPlan`
and `Replan`. Each thesis is scored, sized by fractional Kelly within its caps, and the
portfolio is scaled to the aggregate cap. Tickers stand at places in the order of their
names: `Theses` and `PortfolioRisk` are functions of places, and `Placed` says which thesis
the stable sort puts at a rank, namely the one that as many others outrank as stand before
it. `Share` is a percentage of a cap; the smallest cap that is set stays set, since in the
code a fraction of a cap above zero is above zero, while 0 would mean unset.

**MoveGraph** is `SanitizeMoveGraph`: an operator for the pass that drops unknown, empty
and self references, and a machine with an explicit stack for the depth-first search
(`Descend`, `Pass`, `Cut`, `Finish`).

**Learning** is the two paged reads against a store that keeps receiving goals and
outcomes, late ones too, and `FitStrategyWeights`. **Calibration** is the
pool-adjacent-violators loop of `FitCalibration` and the interpolation of `Apply`.

What a competition compares is the `Result` of each child, decided when `Choose` runs: the
reviewed plans if every one was reviewed, and the children's own if one review failed.

**MCServices** composes ReplanQueue, GoalLifecycle, WebhookDispatcher and RateLimiter for
TLC: a behaviour is one of these services at work. They share no variable, so that
interleaving them would multiply states and add none.

**MCPlanning** composes Planning, Sizing, MoveGraph, Learning and Calibration for TLC: a
behaviour does one of these tasks. They meet in their results only, so that interleaving
them would multiply states and add none.

Definitions whose name ends in `_Something` beside a definition `X` (for example
`Push_Always` beside `Push`) are plausible wrong versions of `X`. No specification uses
them; they show, by substitution, that each property would notice the mistake.

### Abstractions

* Ids, payloads, notes and plan contents are model values; nothing is formatted.
* Time is order. Deadlines and client disconnects are the action `CtxDone`: any handler
  context may end at any moment. Store calls made under an ended context fail, which is
  what the Postgres driver does; the in-memory store ignores contexts, so its behaviours
  are those without `CtxDone`. In MarketCache an ended context is one of a vendor's answers.
* A graceful stop of a node is a `Crash` at a moment when its queue is empty; it needs no
  action of its own in `Replanning`. `ReplanQueue` models `Shutdown` itself.
* `JobEnds` needs no outcome: the queue does the same after success, error and panic.
* The idempotency memory of `Replanning`'s queues never overflows (`defaultMaxSeen`,
  100 000 entries); overflow is modelled in `ReplanQueue`.
* Floating-point arithmetic is integers in scaled units: confidences and weights in
  percent, utilities in ten-thousandths as `round4` leaves them, caps in ten-thousandths,
  stops and probabilities in thousandths, and squares instead of roots. Where the code
  rounds, the model rounds at the same place; what binary fractions add below the unit is
  left out.
* An answer of a language model is any of the replies of the instance or an error; the
  mock, which is deterministic, is any of them too.
* In Planning the children of a decision are asked in any order and interleave, which is
  what the goroutines of the selector do.

## 3. Runs

| Run | Instance | Shows |
|---|---|---|
| `services` | below | the queue: FIFO, no stranded work, drained Shutdown, the idempotency window, that `MemoryQueue` implements `SerialQueue`, under fairness every job runs; goals: a chain of status changes, complete plans; webhook: each event is in one place, results are true, under fairness every event settles; limiter: the daily budget is exact, slots are spaced unless one was given back behind a later one |
| `queue_drop` (violation) | the queue of `services`, memory of 3, 3 acceptances | an accepted job can be dropped by a concurrent Shutdown |
| `replan_async` | 1 node, 2 signals (one gated), 1 crash, 1 failing call, contexts end, the goal is paused, resumed or resolved, a scan capped at 1 | rows with their versions, events true of the store unless a failed status write was logged, no silent loss, final outcomes; under fairness every stored signal settles or is visibly given up |
| `replan_inline` | 3 concurrent inline handlers, 1 planner retry | the conflict loop: each conflict means progress elsewhere, one version per signal; the store implements `PlanHistory` |
| `replan_duplicate` (violation) | 2 signals, 1 crash | recovery can write a second version for a signal |
| `replan_events` (violation) | 1 signal, 1 failing call | a completed event goes out for an outcome that was not committed |
| `goal_race` (violation) | 1 goal, 2 plan requests, no unique index | two plans for a goal |
| `market_cache` | 2 quotes, 1 fundamentals, 2 ranges, 2 of them called; TTLs of 2 and 1 ticks, 2 entries, days of 1 tick, ticks 2 to 4 | no lookahead, fresh answers, no remembered outage, only final history is kept for good, one fetch per cold key; under fairness every call returns |
| `market_outage` (violation) | the same | history with a hole where a vendor was down |
| `planning` | below | cached answers, the comparison, the winner, churn, freshness; sizes and caps; the graph; the samples, weights and curve |
| `shared_answer` (violation) | `planning`'s decisions, one deployment: a text domain under a `multi` planner with a `byok` member, the cache on | a caller is given the plan that another caller's key made |
| `thesis_break` (violation) | 2 tickers, 1 constraint | a broken thesis that is not first stays in the plan as it was |

The instance of `services`. *Queue*: 2 plans, 3 signals, 2 callers, 2 workers, a channel of
1, a memory of 2, 4 acceptances. *Goals*: 1 goal, 2 status writers that change it up to 3
times, 2 plan requests, versions up to 2, the in-memory store (no unique index: what holds
without it holds with it). *Webhook*: 4 events, 1 of them filtered, 2 workers, a buffer of
1, 1 retry. *Limiter*: 4 calls, interval 2, cap 2, days of 3 ticks, time up to 6.

The instance of `planning`. *Decisions*: two interchangeable goals, eleven deployments that
start (two lenses with market data; one lens pinned; the finance domain without market
data over an ensemble; two reviewed variants; two variants with a learned weight; a verify
override; a route with an escalation threshold; variants over a verify pair that cannot
verify; bring-your-own-key; a multi planner with a bring-your-own-key member, cached; sources, one
of them cached with two members) and eight that
are refused, one for each check; one to three decisions each, a cache of two entries, one
change of the world, one tick. *Sizing*: two tickers, six markets, three
policies, two lenses with or without an override, up to two constraints of five, seven
signals. *Move graphs*: all lists of up to three moves over three keys and the empty one,
each with up to two dependencies. *Learning*: two goals, pages of one row, three outcomes,
one arrival during the read, lists where a row may land one below the newest.
*Calibration*: all tallies of five bins with up to two samples.

**Why the bounds are enough.** Two callers and two workers are what a race on a plan
takes; a one-slot channel makes senders block and makes a send meet the close; three
signals over two plans give one plan a backlog while another plan competes for the
workers; a memory of two over three signals and four acceptances makes a signal be
forgotten and come back. In `Replanning` one plan makes all handlers contend; three inline
handlers reach the third attempt; one crash suffices to separate any two steps of a
handler; a scan cap below the number of pending rows leaves a surplus. In `RateLimiter`
days of three ticks with an interval of two let a call charged on one day be refunded
on the next, and four calls let a slot be given back before a later one and the budget be
spent afterwards. Two plan requests and three writes by two writers are what a race on a
goal takes. In `MarketCache` two calls share a flight or follow each other through an
entry; with days of one tick the clock takes a range from the recent to the final side of
`stable`, and a third key beside two entries evicts. In `Planning` a cache of two under two
children and two goals hits, misses and evicts; two decisions of a goal have an incumbent.
A page of one row puts an arrival between any two pages. `MaxAccepted`, `MaxCrashes`,
`MaxFaults`, `MaxUpdates`, `MaxVersion`, `MaxCalls`, `MaxTime`, `MaxWorld`, `rounds`,
`MaxConstraints`, `MaxMoves`, `MaxDeps`, `MaxOutcomes`, `MaxLate`, `MaxLag` and `MaxTally`
are model bounds, in the guards.

**Deadlock** checking is off everywhere: every instance has a finite amount of work and
ends when it is done.

**Fairness.** Weak fairness of each goroutine's next step: Go schedules runnable
goroutines and serves blocked senders in order. It includes the end of a job, of a planner
call and of a delivery attempt: a job runs under the deadline of `WithQueueTimeout`, an
HTTP attempt under the client's timeout. (With no timeout configured a planner that never
returns holds its worker, and its plan, for ever.) A crashed node is started again: that is
an assumption about its supervisor. In `MarketCache` it is enough that some call with work
makes its next step; a fetch ends because the vendors' HTTP client has a timeout. Nothing
is assumed about clients: no request, status change, crash, Shutdown, expiry or tick is
ever obliged to happen. The inner retry loop needs no fairness towards success: it is
bounded. The `planning` run has safety properties only: no step of a decision waits for another
goroutine, and its planner calls end by their timeouts.

## 4. What is proved

Eight modules hold proofs, for every set of plans, signals, nodes, callers, workers, keys,
goals and events, every buffer, memory and cache size, every interval, TTL and cap, and any
number of requests, crashes, moves and strategies. Each assumes only what its model module
states about its constants: `QueueAssumption`, `ReplanningAssumption`,
`LifecycleAssumption`, `DispatcherAssumption`, `LimiterAssumption`, `MarketAssumption`,
`GraphAssumption`, `LearningAssumption`, `ModeAssumption`, `CalibrationAssumption`,
`PlanningAssumption` and `SizingAssumption` (a pool with a worker, positive sizes, null
values outside the sets, a delta above zero, well-formed records, plans of finitely many
moves, a comparator with a name, one to a hundred bins, readings of every ticker). Four
theorems have a hypothesis of their own; it is named below, with what happens without it.

*Queue.*
* `TypeCorrect`: the type invariant.
* `TokenTheorem`: a plan has at most one representative among the callers about to
  announce it, the channel and the workers; without the `queued` flag it has none and no
  backlog. `TokenOf` is inductive with `TypeOK`: every action moves the plan's
  representative or makes one where the flag was clear. `MutualExclusion` is a corollary.
* `FIFOTheorem`: `accepted = started \o pending` per plan; inductive with types, from
  three lemmas on sequences (`HeadTailFacts`, `AppendToConcat`, `MoveHead`).
* `NoStrandedTheorem`: a queued plan has a representative unless its announcement met the
  closed channel; rests on the token invariant.
* `DrainTheorem`: what Shutdown's nil result means. From the token, FIFO and no-stranding
  invariants and `ExitInv` (workers that left saw the channel closed and empty).
* `DedupTheorem`: a signal is accepted again only after `MaxSeen` others. `DedupWindow` is
  not inductive: `WindowInv` adds that `seenFIFO` is the last part of the acceptance
  order, full unless everything was kept, and has the same members as `seen`.
* `QueueImplementsSerialQueue`: the refinement of `SerialQueue`, action by action. What a
  plan runs is the job of the one worker that drains it (`RunningFor`), which is a function
  of the state only by the token invariant; with the backlog from FIFO, `Enqueue` is the
  abstract submission, `Pop` the start, `JobEnds` the end, and the rest stutters. `IdleInv`
  adds that a worker without a plan has no job.

*Replanning.* `HistoryInv` says that the versions of a plan are 1 to its head, once each, and
what each handler, row and event claims about them; `HolderInv` who may hold a signal. Both
are inductive with any number of nodes, crashes and failing calls.
* `RecordedOutcomesHaveVersions`: an outcome has its version in the history, in a row or in
  an event, also when the write that a context ended took place.
* `ConflictsArePaidFor`: a handler in attempt k was overtaken by k - 1 versions.
* `StoreImplementsPlanHistory`: the refinement of `PlanHistory`. Only `Write` appends, only
  on the head that its handler loaded, and only a material change; `HistoryLog` reads the
  rows as a sequence, which `HistoryInv` makes well defined.
* `NoSignalIsForgotten`, if the queue is asynchronous or nothing crashes (an inline crash
  leaves a row that no scan looks for). `NoSilentLoss` is not inductive: `CustodyInv` adds
  that a signal its node accepted and that is still pending is still there
  (`AcceptedInv`: the idempotency set would refuse it for good), and that a handler past its
  mark has settled its row or given it up (`SettledInv`).
* `OutcomesAreFinal`, with one node or inline. From `FinalInv`: a signal with an outcome has
  no handler that could still record one, and the queue will not take it again. With two
  asynchronous nodes it fails (section 5).
* `SignalsWriteOnce`, inline, or with one node that does not crash. From `WrittenInv`: a
  signal that wrote is past its write for good. `replan_duplicate` is the behaviour that a
  crash adds.
* `CompletedEventsAreRecorded` proves `CompletedOrLogged`, with one node or inline, across
  crashes, failing calls and contexts that end. From `CompletedInv`: past the mark the row has
  the handler's result, or marking it failed and was logged. With two asynchronous nodes it
  fails as `StatusFinal` does. That the event waits for the commit, as a comment has it, is
  false on one node already (`replan_events`).

*Goals.*
* `TypeCorrect`; `ChainTheorem` and `FinalTheorem`. A chain
  is inductive only with `WriterInv`: what a writer read was a status from which its
  target may be reached, and a goal that does not exist has no changes. The
  compare-and-swap then makes the read status the status it replaces.
* `CompleteTheorem`: the plan a request finds has its first version, with `UnstoredInv` (a
  request that has not stored its plan has neither row nor version). With or without
  the unique index.

*Webhook.*
* `AccountedTheorem` and `ResultsTheorem`, from one inductive invariant `DispatchInv`: an
  event is at one place (`OnePlace`), none that was emitted and passes the filter is at no
  place (`NoneLost`), and what the receiver got is bounded by the attempts made (`Counted`),
  for every buffer, number of workers and retries, and with a Shutdown at any moment.

*Limiter.*
* `TypeCorrect`, `BudgetExactTheorem`, `BudgetTheorem`, from one inductive invariant
  `LimiterInv`: `SlotInv` (every slot in hand is still part of `next`, so a refund cannot
  take it below zero) and `DayInv` (no charge lies in the future, so that a new day starts
  from an empty count). `BudgetKept` alone is not inductive: it takes `BudgetExact` to know
  that the guard on `used` is a guard on the charged requests.
* `PacedTheorem`: two starts are an interval apart unless a slot was given back behind a
  later one. With `HeadInv`: until then `next` lies an interval after every slot in hand,
  so that a refund gives back the last slot and no other.

*Market data.*
* `Lookahead`, `Outage`, `Frozen` and `Cold` prove `NoLookahead`, `OutagesAreNotCached`,
  `FrozenIsFinal` and `FetchesWhenCold` for any calls, chain of vendors, TTLs, size and
  lookback, from one inductive invariant `IInv` (`Invariant`). What vendors and chain
  answer is `Sound` (`AnswerSound`, `ChainSound`): dated no later than asked for, fetched
  now, and an ended context never hides in joined errors, since it stops the chain.
  `FrozenIsFinal` needs `Settled`: the `stable` a range took at its start, which a fetch
  hours later still uses, was the start of a yesterday and stays a past one.
  `FetchesWhenCold` needs `Leads`: a key's flight belongs to the one call between
  `recheck` and `publish`, so that nobody else stores the key while it is fetched.
* `Freshness` proves `AnswersAreFresh` with `FreshInv`: an entry expires before what it
  holds is older than its TTL and the memo's (`EntryFresh`), and a call that joined no
  flight has collected only outcomes that are fresh for its start (`CallFresh`), chunk by
  chunk of a split range.

*Move graph.*
* `DagTheorem`: whatever moves a planner returns, with however many shared keys and
  cycles, what `SanitizeMoveGraph` stores is a DAG. `OutputIsDag` speaks of every set of
  moves, which no step-by-step argument reaches; the invariant `GraphInv` keeps the order
  in which visits end, and says that every edge a visit has dealt with is cut or leads to
  a move that ended before (`EdgeInv`, `OrderInv`), that the stack holds the gray moves, each
  once (`StackInv`). When the search is over, the member of a set that comes first in that
  order waits for none of the set (`TopologicalIsDag`, by the least number principle).
* `CutTheorem`: only cycles lose edges. With `PathInv`: a gray move is on the stack, and the
  moves on the stack lie on one path of the input, so that an edge to a gray move closes
  a cycle.

*Learning reads.*
* `ReadsAreComplete`: no outcome that was there when a read began is missed, whatever arrives
  between two pages. From `ReadInv`: a due sample is in the read's samples or comes from a
  row that the read will come to (`Ahead`: its goal is on a page of goals to come, or on
  this one and not yet left, with the row on a page of outcomes to come). It is preserved
  because an arrival moves rows down a listing and never up (`ArrivalMovesDown`), and a page
  that is not full ends the listing (`PageHas`).
* `WeightsFollowTheRecord` proves `WeightsMatchRecord`: a fit over a store at rest knows each
  strategy by its record. Nothing missed is half of it; the other half is that nothing is
  read twice, from `OnceInv` (a sample that was read comes from no row that is still ahead)
  with `RowsInv` (goals are listed once and outcome ids are unique). A bucket of samples then
  corresponds to the record one to one (`BucketsAreRecords`), the two have one size, and
  `WeightSide` puts the smoothed weight on the side of the majority. The invariant needs the
  store to be at rest: an arrival between two pages makes the read see a row twice.

*Calibration.*
* `CurveTheorem` proves `CurveIsFaithful` for any tally. That the loop ends with the isotonic
  regression rests on a picture: the points (samples counted, successes) of the bins lie on or
  above the chord of every block that was pooled from them (`FitChords`, `PointsAbove`), a
  chord goes from point to point (`FitEnds`), and at the end the chords get steeper
  (`FitSorted`), so that the line through a block lies below all points. Sums up to a bin are
  the loop's sums (`Totals`), and the rate of a block is then the max-min of the rates around
  each of its bins (`FitIsIsotonic`). That the rounded curve keeps the order rests on
  `FitMids`: the mids of two blocks are a bin apart, which is at least a percent for a hundred
  bins, so that `round2` cannot merge them (`NearestKeepsDistance`, `CurveInOrder`), and
  `Apply` interpolates or extends between points in order (`ApplyKeepsOrder`).

*Decisions.*
* `ComparedOnOneBasis` proves `SameBasis`: a competition compares reviewed confidences or raw
  ones, never both, whichever children failed and wherever the review stopped. `Judged`, in
  `SoundInv`, follows the review: it begins when every child has answered, its n-th verdict is
  about the n-th child that has a plan (`PlaceFacts`: a child's place among them is a
  bijection), and a review that broke off is shorter than there are plans, which is what
  `Choose` sees (`CandidatesHaveBasis`).
* `ContextIsCurrent`: a contribution that is not marked stale is what every
  member of its source reports when the decision begins (`Current`). From `SoundInv` too, for
  any lists of sources and members: what sources return is unfolded from the recursion that
  joins their results (`FlattenOnes`), and no last good value passes unmarked
  (`UnmarkedIsCurrent`).
* `AnswersAreForThisDecision` proves `AnswersThisDecision`, from `ToldInv`: every entry is
  filed under the key of the request it was made for and expires a TTL after it was put, every
  running decision has children of the process's own strategies. The key is the name and prompt
  of the child, the facts, the note, the payload and the current moves. That it tells requests
  apart rests on the checks at the start (`ChildrenAreTold`: competing variants have templates
  of their own) and on the note telling apart signals with one payload (`NoteTells`). Where
  the global planner is `byok` the cache is off, and the answer was made with the caller's own
  key. For the other ways to configure `byok` that is false (`shared_answer`).
* `WinnersAreJustified` proves `WinnerIsJustified`, `NothingChurns` proves `NoChurn`, both for
  any plans, strategies, policies and learned weights. Utilities are numbers
  (`UtilityIsInt`, `WeightedIsInt`), though a utility is a fold over the moves with a power
  for the weight of each rank; `Select` then picks a maximum (`PickIsBest`) unless the
  incumbent is within the margin (`SelectJustifies`). Over the same candidates and regime the
  winner of the last time, now the incumbent, wins again (`SelectIsStable`), and what made the
  version is made again (`MadeAgain`), which no threshold finds material
  (`SameIsImmaterial`). `MadeInv` keeps what the argument needs: every version that is
  stored is what selection, review and haircut make of its recorded candidates, and all
  answers, cached ones too, are plans (`AnswersArePlans`).

*Sizes.*
* `CapsTheorem` proves the action property `CapsOnlyTighten`, for any lenses, overrides and
  constraints in any order: a lens tightens (`LensTightens`), a constraint tightens
  (`ConstraintTightens`), a plan leaves the budget alone. From `SizingInv`: the budget is a
  budget, the concentration cap is never 0 (`Normalize` fills it in and nothing takes it
  there), and a drawdown limit that was taken in bounds the caps that are not disabled.
* `SizesTheorem` proves `SizesWithinBudget` for any number of tickers, any market, policy,
  signal and goal. One by one: a size is the least of at most three bounds (`SizeIs`), rounded
  as the code rounds, whatever the scores say, which are only shown to be numbers
  (`ThesisIs`). Together: the plan states every thesis exactly once, since the places of the
  sort are taken once each (`PlacedIs`), so that the risk of what the plan holds is the risk
  that was scaled (`OrderedIs`), and the scale is right for that (`ScaleIs`), with a broken
  thesis counted in neither. `FitInv` adds that there is no plan before the constraints are
  in: a later one would tighten the caps under a plan that was sized by looser ones.

Of a recursive function (sums over a portfolio, a utility's folds, running totals of a tally)
the proofs need what holds at every number; `EveryNumber` gives it as a fact about sets of
numbers, by way of the least one outside, so that no induction schema is instantiated.

The type invariants, mutual exclusion, the budget and the finality of a terminal status are
theorems only: the runs check the stronger properties that rest on them. Every safety
property and every refinement that a passing run checks is a theorem, four of them under the
hypothesis named above.

*Only model-checked*:
* Liveness under fairness: every accepted job runs, every stored signal settles, every event
  settles, every call returns. The prover reaches neither fairness nor ENABLED.
* The seven violations: a counterexample is an instance.

## 5. What the models say about the code and its documentation

Runs that a comment or a document contradicts (the findings of `PROJECT.json`):

1. A `Shutdown` between `Enqueue`'s unlock and its send makes the send panic: the accepted
   job never runs, while Shutdown reports a drained queue (`queue_drop`). The signal's row
   stays pending, so the next start recovers it.
2. Recovery is not idempotent when another signal was applied in between
   (`replan_duplicate`).
3. A split range reads "not found" of one chunk as absence although the error also wraps
   an outage, and hands the rest out as complete (`market_outage`).
4. The break of a thesis that is not ranked first and keeps its rank changes neither the
   order nor the first confidence, so it is not material, and the current plan goes on
   recommending it (`thesis_break`).
5. `replan.completed` is emitted although the status write failed or its context had ended
   (`replan_events`; `notify.go:29` says "after they are durably committed",
   `worker.go:138` logs the failure and goes on). The row stays pending, so a restart replans
   a signal whose completion was announced.
6. Two requests for a plan of one goal pass the check together and both store one in the
   in-memory store, which looks for the plan's own id only (`goal_race`; `service.go:289`
   says "A goal has at most one plan", `memory.go:196-208`). The unique index of PostgreSQL
   refuses the second.
7. With `byok` as a member of a `multi` planner the plan cache is on, and its key does not
   contain the caller's credentials (`shared_answer`): a caller is answered with a plan that
   another caller's key paid for, which `commands.go:203-205` wants to exclude. The guard
   below that comment compares the global planner's name only, while `config.go:385-398`
   accepts the member. A domain's own `byok` planner passes it in the same way.

Another instance of the same specification shows, without a run of its own:

* With two nodes a starting node's scan re-runs signals another node is handling, and the
  later write of the status wins: a recorded `failed` becomes `applied`
  (`memory.go:324`). `StatusFinal` holds on one node only. The `calibrate` and
  `strategy-fit` commands build a whole service, so with asynchronous replanning they are
  such a node.

Seen while modelling:

* Inline mode has no recovery: a crash during an inline replan leaves a pending row for
  good. A goal may be paused or ended between a status check and the write that follows
  it. A webhook attempt that timed out after it was received is sent again.
* A cancelled `Limiter.Wait` returns an interval although later slots were handed out, so
  the next call can get the same start as one that is waiting (`Paced` excludes it).
* A fetch that panics leaves its flight open, and later calls of the key wait for ever
  (`marketdata/cache.go:113`; no provider of the tree panics). A refusal of fundamentals
  is kept for its whole bucket. `append(past, recent...)` may write into the spare capacity
  of a cached slice.
* The plan cache's key holds the keys of the current moves only.
* A margin of 0 stands for the default step, although its doc reads as no hysteresis. An
  empty current plan makes every later decision material (`NoChurn` excludes it).
  `sameStringSet` ignores order but not duplicates. A zero haircut or a clamp at 0 makes
  the penalty immaterial (`builders.go:262-263` says it is zero or material).
* `EffectiveRiskBudget` does not apply a drawdown limit to `MaxPositionPct` or
  `MaxPortfolioRiskPct` that the policy disabled with a negative value, only to one that is
  unset (`constraints.go:41-46`). The order of constraints matters. `round2` can lift a
  stated size up to half a percent above a cap. A broken thesis still states a size, and
  is forgotten at the next signal about anything else.
* A confidence of 0 before calibration is read as absent, and the calibrated one is
  sampled in its place. An outcome that arrives between two pages can put a row into the
  samples twice.
* `CachingSource` stamps a last good value with the time it is served; the commands wire
  neither it nor `Composite`, an embedding program may. A panic of a source bypasses its last good
  value.
* Policy validation refuses double verification only for a domain's own planner.

## 6. Not modelled, and why

* Series statistics behind the scores (returns, volatility, drawdown, efficiency ratio,
  correlation): floating-point sums over price series; they are inputs of Sizing and
  Wiring.
* Model clients, prompts, narration and rationales: I/O and wording. The reading of a
  reply (clamping, unknown levels, no moves) is in Planning.
* HTTP API, MCP server, webhook signing, logging, rendering, the admin UI: transport and
  layout around the modelled calls.
* Players, listings and paging other than the learning reads; migrations: reads, or run
  before a process serves.
* Pack tables and prompt texts, and the advisory validation of goals: static data.
* `diff.go` (the explanation of a change), `MoveGraphIssues` and `findCycle` (a report
  about a graph that is sanitised anyway): they change no state.
* `ReWeigh` and the backtest: sequential and offline over recorded data. What they need of
  the rest, reads that do not see the future, is `NoLookahead`.
* The parsing of horizons, policies, environment and flags: no state.

## 7. Plan

1. A start of `Replanning` from migrated rows (`migrations/0003_signal_status.sql`), and a
   run of two nodes with the properties that still hold there.
2. `MoveGraphIssues` and `findCycle` against the definition of an acyclic graph; `ReWeigh`
   against `Select`.
3. A fetch that panics in MarketCache, should a provider be added that can.
4. The series statistics of `internal/finance` (returns, volatility, drawdown) over exact
   fractions, so that they are no longer inputs.
