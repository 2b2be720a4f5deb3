------------------------- MODULE WebhookDispatcher -------------------------
(***************************************************************************)
(* The webhook notifier of internal/webhook/dispatcher.go: Emit puts an    *)
(* event in a bounded in-memory buffer or drops it, never blocking; a pool *)
(* of workers POSTs each event with retries; Shutdown closes the buffer    *)
(* under the same mutex Emit uses and waits for the workers.               *)
(*                                                                         *)
(* The receiver is external: an attempt may reach it or not, and its       *)
(* answer may be lost (the client's timeout) after it took the event.      *)
(***************************************************************************)
EXTENDS Naturals, Sequences, FiniteSets

CONSTANTS Events,     \* event ids; each is emitted once
          Allowed,    \* events whose type passes the filter
          Senders,    \* cfg.Workers
          QueueSize,  \* cfg.QueueSize
          Retries,    \* cfg.Retries
          NoEvent

ASSUME DispatcherAssumption ==
  /\ Allowed \subseteq Events
  /\ Senders # {}
  /\ QueueSize \in Nat \ {0}
  /\ Retries \in Nat
  /\ NoEvent \notin Events

VARIABLES
  emitted,   \* events handed to Emit
  outbox,    \* d.ch
  sealed,    \* d.closed; the channel is closed in the same critical section
  busy,      \* per worker, the event it delivers, or NoEvent
  tries,     \* per worker, the attempts made for that event
  departed,  \* workers whose range loop ended
  result,    \* per event, the delivery metric: "none" until one is recorded
  received,  \* per event, how often the receiver took it
  stopping   \* Shutdown: "no", "waiting", "done" or "expired"

dispatcherVars == <<emitted, outbox, sealed, busy, tries, departed, result, received, stopping>>

DispatcherInit ==
  /\ emitted = {}
  /\ outbox = <<>>
  /\ sealed = FALSE
  /\ busy = [w \in Senders |-> NoEvent]
  /\ tries = [w \in Senders |-> 0]
  /\ departed = {}
  /\ result = [e \in Events |-> "none"]
  /\ received = [e \in Events |-> 0]
  /\ stopping = "no"

\* The metric of an event that is not queued.
drop_Silent(e) == result                               \* mutant: no metric
drop(e) == [result EXCEPT ![e] = "dropped"]

\* Emit: filtered out, queued, or dropped because the dispatcher is shut down or the
\* buffer is full.
Emit(e) ==
  /\ e \notin emitted
  /\ emitted' = emitted \cup {e}
  /\ \/ e \notin Allowed /\ UNCHANGED <<outbox, result>>
     \/ /\ e \in Allowed /\ (sealed \/ Len(outbox) >= QueueSize)
        /\ result' = drop(e)
        /\ UNCHANGED outbox
     \/ /\ e \in Allowed /\ ~sealed /\ Len(outbox) < QueueSize
        /\ outbox' = Append(outbox, e)
        /\ UNCHANGED result
  /\ UNCHANGED <<sealed, busy, tries, departed, received, stopping>>

\* for evt := range d.ch
Take(w) ==
  /\ w \notin departed /\ busy[w] = NoEvent
  /\ outbox # <<>>
  /\ busy' = [busy EXCEPT ![w] = Head(outbox)]
  /\ tries' = [tries EXCEPT ![w] = 0]
  /\ outbox' = Tail(outbox)
  /\ UNCHANGED <<emitted, sealed, departed, result, received, stopping>>

\* The end of deliver: the metric is recorded and the worker is free.
Finish(w, r) ==
  /\ result' = [result EXCEPT ![busy[w]] = r]
  /\ busy' = [busy EXCEPT ![w] = NoEvent]
  /\ tries' = [tries EXCEPT ![w] = 0]

\* One attempt that the receiver took and acknowledged.
Delivered(w) ==
  /\ busy[w] # NoEvent
  /\ received' = [received EXCEPT ![busy[w]] = @ + 1]
  /\ Finish(w, "success")
  /\ UNCHANGED <<emitted, outbox, sealed, departed, stopping>>

AttemptsLeft_OneMore(w) == tries[w] <= Retries  \* mutant: off by one
AttemptsLeft(w) == tries[w] < Retries

\* One attempt that failed: a terminal answer ends the delivery; a transport error,
\* 429 or 5xx is retried while attempts are left.  After a transport error the
\* receiver may have taken the event all the same.
AttemptFails(w) ==
  /\ busy[w] # NoEvent
  /\ \/ /\ Finish(w, "failure")
        /\ UNCHANGED received
     \/ /\ \/ UNCHANGED received
           \/ received' = [received EXCEPT ![busy[w]] = @ + 1]
        /\ IF AttemptsLeft(w)
           THEN tries' = [tries EXCEPT ![w] = @ + 1] /\ UNCHANGED <<result, busy>>
           ELSE Finish(w, "failure")
  /\ UNCHANGED <<emitted, outbox, sealed, departed, stopping>>

OutboxEnds_Undrained == sealed  \* mutant: what the buffer still holds is left
OutboxEnds == sealed /\ outbox = <<>>

SenderExits(w) ==
  /\ w \notin departed /\ busy[w] = NoEvent
  /\ OutboxEnds
  /\ departed' = departed \cup {w}
  /\ UNCHANGED <<emitted, outbox, sealed, busy, tries, result, received, stopping>>

\* Shutdown closes under the mutex, so no Emit meets a closed channel.
DispatcherCloses ==
  /\ stopping = "no"
  /\ sealed' = TRUE
  /\ stopping' = "waiting"
  /\ UNCHANGED <<emitted, outbox, busy, tries, departed, result, received>>

\* The select of Shutdown: the workers are done, or the caller's context ended.
DispatcherReturns ==
  /\ stopping = "waiting"
  /\ \/ departed = Senders /\ stopping' = "done"
     \/ stopping' = "expired"
  /\ UNCHANGED <<emitted, outbox, sealed, busy, tries, departed, result, received>>

SenderStep(w) == Take(w) \/ Delivered(w) \/ AttemptFails(w) \/ SenderExits(w)

DispatcherNext ==
  \/ \E e \in Events : Emit(e)
  \/ \E w \in Senders : SenderStep(w)
  \/ DispatcherCloses \/ DispatcherReturns

DispatcherSpec == DispatcherInit /\ [][DispatcherNext]_dispatcherVars

\* Workers are scheduled, and an attempt ends: the HTTP client has a timeout.
DispatcherFairness == \A w \in Senders : WF_dispatcherVars(SenderStep(w))

DispatcherFairSpec == DispatcherSpec /\ DispatcherFairness

-----------------------------------------------------------------------------
Queued(e) == {i \in DOMAIN outbox : outbox[i] = e}
InDelivery(e) == {w \in Senders : busy[w] = e}

(* Every event that passes the filter is at one place only - the buffer, one  *)
(* worker, or one recorded result - so the delivery metric counts each event  *)
(* once, and nothing vanishes without a result (Emit, worker, deliver).       *)
AccountedFor ==
  \A e \in Allowed \cap emitted :
    /\ \A i, j \in Queued(e) : i = j
    /\ \A v, w \in InDelivery(e) : v = w
    /\ Queued(e) # {} => InDelivery(e) = {} /\ result[e] = "none"
    /\ InDelivery(e) # {} => result[e] = "none"
    /\ result[e] = "none" => Queued(e) # {} \/ InDelivery(e) # {}

(* What the metric says is what happened: a success was received, a dropped   *)
(* event was not, and no event is received more often than its attempts       *)
(* allow (deliver).                                                           *)
ResultsAreTrue ==
  \A e \in Events :
    /\ result[e] = "success" => received[e] >= 1
    /\ result[e] = "dropped" \/ e \notin Allowed => received[e] = 0
    /\ received[e] <= Retries + 1

(* Every accepted event gets a result, before and after Shutdown (worker,     *)
(* deliver).                                                                  *)
EveryEventSettles == \A e \in Allowed : e \in emitted ~> result[e] # "none"
=============================================================================
