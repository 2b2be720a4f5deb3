---------------------------- MODULE ReplanQueue ----------------------------
(***************************************************************************)
(* MemoryQueue, the asynchronous replan queue of                           *)
(* internal/app/replan_queue.go, at the granularity of its mutex and its   *)
(* channel.  Enqueue is called by any number of goroutines (HTTP handlers, *)
(* the startup recovery scan); a pool of workers receives plan ids from a  *)
(* bounded channel and drains the plan's FIFO; Shutdown closes the queue   *)
(* and then, after releasing the mutex, closes the channel.                *)
(*                                                                         *)
(* Every critical section is one action.  What happens outside the mutex   *)
(* is an action of its own: the send on the channel, the receive, the      *)
(* handler call, and close(q.ch).                                          *)
(***************************************************************************)
EXTENDS Naturals, Sequences, FiniteSets

CONSTANTS Plans,     \* plan ids
          Signals,   \* signal ids; a job is named by its signal
          Callers,   \* goroutines that call Enqueue
          Workers,   \* the worker pool (NewMemoryQueue: workers >= 1)
          Buffer,    \* capacity of the channel (NewMemoryQueue: buffer >= 1)
          MaxSeen,   \* cap of the idempotency set (defaultMaxSeen)
          PlanOf,    \* job.PlanID of a signal's job
          NoPlan, NoSignal,
          MaxAccepted  \* model bound: how many Enqueue calls may be accepted

ASSUME QueueAssumption ==
  /\ Workers # {}
  /\ Buffer \in Nat \ {0}
  /\ MaxSeen \in Nat \ {0}
  /\ PlanOf \in [Signals -> Plans]
  /\ NoPlan \notin Plans
  /\ NoSignal \notin Signals
  /\ MaxAccepted \in Nat

VARIABLES
  pending,    \* q.pending: per plan, the FIFO of jobs not yet started
  queued,     \* q.queued: the plan is awaiting a worker or being drained
  seen,       \* q.seen
  seenFIFO,   \* q.seenFIFO
  closed,     \* q.closed
  ch,         \* the buffered plan ids of q.ch
  chClosed,   \* close(q.ch) has run
  sending,    \* per caller, the plan id of its send in flight, or NoPlan
  lost,       \* plans whose announcement met the closed channel and panicked
  workerPlan, \* per worker, the plan it drains, or NoPlan
  workerJob,  \* per worker, the job whose handler runs, or NoSignal
  exited,     \* workers whose range loop ended
  shutdown,   \* Shutdown: "no", "closing", "waiting", "done" or "expired"
  accepted,   \* history: per plan, the jobs Enqueue accepted, in order
  order,      \* history: the same over all plans
  started     \* history: per plan, the jobs handed to the handler, in order

vars == <<pending, queued, seen, seenFIFO, closed, ch, chClosed, sending,
          lost, workerPlan, workerJob, exited, shutdown, accepted, order,
          started>>

shutdownStates == {"no", "closing", "waiting", "done", "expired"}

TypeOK ==
  /\ pending \in [Plans -> Seq(Signals)]
  /\ queued \in [Plans -> BOOLEAN]
  /\ seen \in SUBSET Signals
  /\ seenFIFO \in Seq(Signals)
  /\ closed \in BOOLEAN
  /\ ch \in Seq(Plans)
  /\ chClosed \in BOOLEAN
  /\ sending \in [Callers -> Plans \cup {NoPlan}]
  /\ lost \in SUBSET Plans
  /\ workerPlan \in [Workers -> Plans \cup {NoPlan}]
  /\ workerJob \in [Workers -> Signals \cup {NoSignal}]
  /\ exited \in SUBSET Workers
  /\ shutdown \in shutdownStates
  /\ accepted \in [Plans -> Seq(Signals)]
  /\ order \in Seq(Signals)
  /\ started \in [Plans -> Seq(Signals)]

-----------------------------------------------------------------------------
\* NewMemoryQueue followed by Start: the workers wait on an empty channel.
Init ==
  /\ pending = [p \in Plans |-> <<>>]
  /\ queued = [p \in Plans |-> FALSE]
  /\ seen = {}
  /\ seenFIFO = <<>>
  /\ closed = FALSE
  /\ ch = <<>>
  /\ chClosed = FALSE
  /\ sending = [c \in Callers |-> NoPlan]
  /\ lost = {}
  /\ workerPlan = [w \in Workers |-> NoPlan]
  /\ workerJob = [w \in Workers |-> NoSignal]
  /\ exited = {}
  /\ shutdown = "no"
  /\ accepted = [p \in Plans |-> <<>>]
  /\ order = <<>>
  /\ started = [p \in Plans |-> <<>>]

\* Mutant of markSeen: the cap is reached one entry too early.
markSeen_EvictsEarly(s) ==
  LET fifo == Append(seenFIFO, s)
  IN IF Len(fifo) >= MaxSeen
     THEN seenFIFO' = Tail(fifo) /\ seen' = (seen \cup {s}) \ {Head(fifo)}
     ELSE seenFIFO' = fifo /\ seen' = seen \cup {s}

\* The idempotency set after s is recorded: the oldest entry leaves over the cap.
markSeen(s) ==
  LET fifo == Append(seenFIFO, s)
  IN IF Len(fifo) > MaxSeen
     THEN /\ seenFIFO' = Tail(fifo)
          /\ seen' = (seen \cup {s}) \ {Head(fifo)}
     ELSE /\ seenFIFO' = fifo
          /\ seen' = seen \cup {s}

Unseen_Unchecked(s) == TRUE   \* mutant: no idempotency check
Unseen(s) == s \notin seen

\* The push flag: what the caller will send after the critical section, if anything.
Push(p) == IF queued[p] THEN NoPlan ELSE p

\* The critical section of Enqueue for an unseen signal.  The caller goes on to
\* the channel send only when the plan had no pending work.  (A seen signal, or
\* a closed queue, makes Enqueue return without touching the state.)
Enqueue(c, s) ==
  LET p == PlanOf[s]
  IN /\ sending[c] = NoPlan
     /\ ~closed
     /\ Unseen(s)
     /\ Len(order) < MaxAccepted
     /\ markSeen(s)
     /\ pending' = [pending EXCEPT ![p] = Append(@, s)]
     /\ accepted' = [accepted EXCEPT ![p] = Append(@, s)]
     /\ order' = Append(order, s)
     /\ sending' = [sending EXCEPT ![c] = Push(p)]
     /\ queued' = [queued EXCEPT ![p] = TRUE]
     /\ UNCHANGED <<closed, ch, chClosed, lost, workerPlan, workerJob,
                    exited, shutdown, started>>

HasToSend(c) == sending[c] # NoPlan

\* q.ch <- planID completes: there is room in the buffer.
Send(c) ==
  /\ HasToSend(c)
  /\ ~chClosed
  /\ Len(ch) < Buffer
  /\ ch' = Append(ch, sending[c])
  /\ sending' = [sending EXCEPT ![c] = NoPlan]
  /\ UNCHANGED <<pending, queued, seen, seenFIFO, closed, chClosed, lost,
                 workerPlan, workerJob, exited, shutdown, accepted, order, started>>

\* q.ch <- planID on the closed channel panics, whether the send was blocked when
\* the channel was closed or begins after that.
SendPanics(c) ==
  /\ HasToSend(c)
  /\ chClosed
  /\ lost' = lost \cup {sending[c]}
  /\ sending' = [sending EXCEPT ![c] = NoPlan]
  /\ UNCHANGED <<pending, queued, seen, seenFIFO, closed, ch, chClosed,
                 workerPlan, workerJob, exited, shutdown, accepted, order, started>>

\* for planID := range q.ch
Receive(w) ==
  /\ w \notin exited
  /\ workerPlan[w] = NoPlan
  /\ ch # <<>>
  /\ workerPlan' = [workerPlan EXCEPT ![w] = Head(ch)]
  /\ ch' = Tail(ch)
  /\ UNCHANGED <<pending, queued, seen, seenFIFO, closed, chClosed, sending,
                 lost, workerJob, exited, shutdown, accepted, order, started>>

Rest_Coalesced(fifo) == <<>>  \* mutant: a burst is coalesced into its first job
Rest(fifo) == Tail(fifo)

\* One turn of the drain loop with work left: pop the head, unlock, run it.
Pop(w) ==
  LET p == workerPlan[w]
  IN /\ p # NoPlan
     /\ workerJob[w] = NoSignal
     /\ pending[p] # <<>>
     /\ workerJob' = [workerJob EXCEPT ![w] = Head(pending[p])]
     /\ started' = [started EXCEPT ![p] = Append(@, Head(pending[p]))]
     /\ pending' = [pending EXCEPT ![p] = Rest(@)]
     /\ UNCHANGED <<queued, seen, seenFIFO, closed, ch, chClosed, sending,
                    lost, workerPlan, exited, shutdown, accepted, order>>

\* runJob returns: the handler returned, its deadline expired, or it panicked and
\* was recovered.  The worker goes on with the loop in every case.
JobEnds(w) ==
  /\ workerJob[w] # NoSignal
  /\ workerJob' = [workerJob EXCEPT ![w] = NoSignal]
  /\ UNCHANGED <<pending, queued, seen, seenFIFO, closed, ch, chClosed, sending,
                 lost, workerPlan, exited, shutdown, accepted, order, started>>

StillQueued_Kept == TRUE      \* mutant: the plan is not released
StillQueued == FALSE

\* One turn of the drain loop with nothing left: the plan is released in the same
\* critical section that found its FIFO empty.
Drained(w) ==
  LET p == workerPlan[w]
  IN /\ p # NoPlan
     /\ workerJob[w] = NoSignal
     /\ pending[p] = <<>>
     /\ queued' = [queued EXCEPT ![p] = StillQueued]
     /\ workerPlan' = [workerPlan EXCEPT ![w] = NoPlan]
     /\ UNCHANGED <<pending, seen, seenFIFO, closed, ch, chClosed, sending,
                    lost, workerJob, exited, shutdown, accepted, order, started>>

RangeEnds_Undrained == chClosed  \* mutant: what the channel still holds is left
RangeEnds == chClosed /\ ch = <<>>

\* The range loop ends: the channel is closed and empty.
WorkerExits(w) ==
  /\ w \notin exited
  /\ workerPlan[w] = NoPlan
  /\ RangeEnds
  /\ exited' = exited \cup {w}
  /\ UNCHANGED <<pending, queued, seen, seenFIFO, closed, ch, chClosed, sending,
                 lost, workerPlan, workerJob, shutdown, accepted, order, started>>

\* Shutdown's critical section.  (A second call returns at once.)
ShutdownBegins ==
  /\ ~closed
  /\ closed' = TRUE
  /\ shutdown' = "closing"
  /\ UNCHANGED <<pending, queued, seen, seenFIFO, ch, chClosed, sending,
                 lost, workerPlan, workerJob, exited, accepted, order, started>>

\* close(q.ch), after the mutex was released.
CloseChannel ==
  /\ shutdown = "closing"
  /\ chClosed' = TRUE
  /\ shutdown' = "waiting"
  /\ UNCHANGED <<pending, queued, seen, seenFIFO, closed, ch, sending,
                 lost, workerPlan, workerJob, exited, accepted, order, started>>

\* The select of Shutdown: every worker is done, or the caller's context ended.
ShutdownReturns ==
  /\ shutdown = "waiting"
  /\ shutdown' \in (IF exited = Workers THEN {"done", "expired"} ELSE {"expired"})
  /\ UNCHANGED <<pending, queued, seen, seenFIFO, closed, ch, chClosed, sending,
                 lost, workerPlan, workerJob, exited, accepted, order, started>>

-----------------------------------------------------------------------------
WorkerStep(w) ==
  Receive(w) \/ Pop(w) \/ JobEnds(w) \/ Drained(w) \/ WorkerExits(w)

CallerStep(c) == Send(c) \/ SendPanics(c)

Next ==
  \/ \E c \in Callers : CallerStep(c) \/ \E s \in Signals : Enqueue(c, s)
  \/ \E w \in Workers : WorkerStep(w)
  \/ ShutdownBegins \/ CloseChannel \/ ShutdownReturns

Spec == Init /\ [][Next]_vars

\* Goroutines are scheduled fairly, a blocked send is served when there is room
\* (Go queues blocked senders in order), and a job ends: its handler runs under a
\* deadline (runJob).  Nobody is obliged to call Enqueue or Shutdown.
Fairness ==
  /\ \A c \in Callers : WF_vars(CallerStep(c))
  /\ \A w \in Workers : WF_vars(WorkerStep(w))
  /\ WF_vars(CloseChannel)

FairSpec == Spec /\ Fairness

-----------------------------------------------------------------------------
\* The signal of the job running for plan p, if any: what the abstract queue sees.
RunningFor(p) ==
  IF \E w \in Workers : workerPlan[w] = p
  THEN workerJob[CHOOSE w \in Workers : workerPlan[w] = p]
  ELSE NoSignal

Abstract == INSTANCE SerialQueue WITH
  backlog <- pending,
  running <- [p \in Plans |-> RunningFor(p)],
  window <- seenFIFO,
  open <- ~closed

-----------------------------------------------------------------------------
\* Who stands for plan p in the pool: callers about to announce it, its entries in
\* the channel, and the workers draining it.
Announcing(p) == {c \in Callers : sending[c] = p}
InChannel(p) == {i \in DOMAIN ch : ch[i] = p}
Draining(p) == {w \in Workers : workerPlan[w] = p}

\* Plan p has at most one representative, and neither one nor work if not queued.
TokenOf(p) ==
  /\ \A c, d \in Announcing(p) : c = d
  /\ \A i, j \in InChannel(p) : i = j
  /\ \A v, w \in Draining(p) : v = w
  /\ Announcing(p) # {} => InChannel(p) = {} /\ Draining(p) = {}
  /\ InChannel(p) # {} => Draining(p) = {}
  /\ ~queued[p] => /\ Announcing(p) = {} /\ InChannel(p) = {} /\ Draining(p) = {}
                   /\ pending[p] = <<>>

(* "Work for one plan is serialised, so concurrent signals never race on the  *)
(* version write" (NewMemoryQueue, work): two workers never drain one plan,   *)
(* even while Enqueue announces it again.                                     *)
OneWorkerPerPlan ==
  \A v, w \in Workers : workerPlan[v] # NoPlan /\ workerPlan[v] = workerPlan[w] => v = w

(* A plan is announced at most once: over the callers that are about to send  *)
(* it, the channel and the workers, a plan has at most one representative, it *)
(* has none while queued is false, and a plan that is not queued has no work  *)
(* left behind (Enqueue's push flag against the release in work).             *)
OneTokenPerPlan == \A p \in Plans : TokenOf(p)

(* "Every distinct signal is processed (in order)" (NewMemoryQueue): what was *)
(* handed to the handler followed by what is pending is exactly what was      *)
(* accepted, per plan: nothing is lost, repeated or overtaken.                *)
FIFOPerPlan == \A p \in Plans : accepted[p] = started[p] \o pending[p]

(* "Duplicate signal IDs are skipped (idempotency)" with a bounded memory     *)
(* (markSeen): the same signal is accepted again only after MaxSeen others.   *)
DedupWindow ==
  \A i, j \in DOMAIN order : i < j /\ order[i] = order[j] => j - i > MaxSeen

(* Work is never stranded: a queued plan has a representative, unless the     *)
(* caller that was to announce it met the closed channel (Enqueue sends after *)
(* it has released the mutex).                                                *)
NoStrandedWork ==
  \A p \in Plans :
    queued[p] /\ p \notin lost =>
      Announcing(p) # {} \/ InChannel(p) # {} \/ Draining(p) # {}

(* Shutdown drains: when it reports success no job is running, and every      *)
(* accepted job of a plan was handed to the handler unless the announcement   *)
(* of that plan was still on its way when the channel was closed.             *)
ShutdownDrains ==
  shutdown = "done" =>
    \A p \in Plans :
      /\ Draining(p) = {}
      /\ p \notin lost /\ Announcing(p) = {} => started[p] = accepted[p]

(* "distinct signals are never dropped" (Enqueue) and "ErrQueueClosed is      *)
(* returned by Enqueue after Shutdown", as they are written: a queue that     *)
(* reports it has drained has run every job it accepted.                      *)
AcceptedNeverDropped ==
  shutdown = "done" => \A p \in Plans : started[p] = accepted[p]

(* Every accepted job eventually runs, under the scheduler's fairness, unless *)
(* its plan's announcement met the closed channel (work, Enqueue).            *)
EveryJobRuns ==
  \A p \in Plans : \A n \in 1..MaxAccepted :
    Len(accepted[p]) >= n ~> (Len(started[p]) >= n \/ p \in lost)

(* The queue implements the serial per-plan queue the service relies on.      *)
ImplementsSerialQueue == Abstract!QSpec
=============================================================================
