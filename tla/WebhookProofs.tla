--------------------------- MODULE WebhookProofs ---------------------------
(***************************************************************************)
(* Proofs about WebhookDispatcher, for any set of events and workers, any  *)
(* buffer size and any number of retries: an event that passes the filter  *)
(* is at one place only, and the delivery metric tells the truth.  That    *)
(* every event settles needs fairness and stays with the model checker.    *)
(***************************************************************************)
EXTENDS WebhookDispatcher, TLAPS

TypeInv ==
  /\ emitted \in SUBSET Events
  /\ outbox \in Seq(Events)
  /\ busy \in [Senders -> Events \cup {NoEvent}]
  /\ tries \in [Senders -> 0..Retries]
  /\ result \in [Events -> {"none", "dropped", "success", "failure"}]
  /\ received \in [Events -> Nat]

Busy(w) == busy[w] # NoEvent

\* Only events that were emitted and passed the filter go anywhere.
Filtered ==
  /\ \A i \in 1..Len(outbox) : outbox[i] \in Allowed \cap emitted
  /\ \A w \in Senders : Busy(w) => busy[w] \in Allowed \cap emitted
  /\ \A e \in Events : e \notin Allowed \cap emitted => result[e] = "none" /\ received[e] = 0

\* One place each: AccountedFor, over positions of the buffer and workers.
OnePlace ==
  /\ \A i, j \in 1..Len(outbox) : outbox[i] = outbox[j] => i = j
  /\ \A v, w \in Senders : Busy(v) /\ busy[v] = busy[w] => v = w
  /\ \A i \in 1..Len(outbox), w \in Senders : outbox[i] # busy[w]
  /\ \A i \in 1..Len(outbox) : result[outbox[i]] = "none"
  /\ \A w \in Senders : Busy(w) => result[busy[w]] = "none"

NoneLost ==
  \A e \in Allowed \cap emitted : result[e] = "none" =>
    (\E i \in 1..Len(outbox) : outbox[i] = e) \/ (\E w \in Senders : busy[w] = e)

\* A receiver has an event at most once per attempt made.
Counted ==
  /\ \A i \in 1..Len(outbox) : received[outbox[i]] = 0
  /\ \A w \in Senders : Busy(w) => received[busy[w]] <= tries[w]

DispatchInv == TypeInv /\ Filtered /\ OnePlace /\ NoneLost /\ Counted /\ ResultsAreTrue

-----------------------------------------------------------------------------
(* The buffered channel is a queue: Emit adds at its end and Take removes  *)
(* its first event.                                                        *)
LEMMA BufferFacts ==
  ASSUME NEW q \in Seq(Events), NEW e \in Events
  PROVE  /\ Len(q) \in Nat
         /\ \A i \in 1..Len(q) : q[i] \in Events
         /\ Append(q, e) \in Seq(Events) /\ Len(Append(q, e)) = Len(q) + 1
         /\ \A i \in 1..Len(q) : Append(q, e)[i] = q[i]
         /\ Append(q, e)[Len(q) + 1] = e
         /\ q # <<>> => /\ Len(q) >= 1 /\ Head(q) = q[1] /\ Tail(q) \in Seq(Events)
                        /\ Len(Tail(q)) = Len(q) - 1
                        /\ \A i \in 1..Len(q) - 1 : Tail(q)[i] = q[i + 1]
  OBVIOUS

(* Emit leaves an event in the buffer, or with the result "dropped", or    *)
(* nowhere when its type is filtered out.                                  *)
LEMMA EmitKeeps == ASSUME NEW e \in Events, DispatchInv, Emit(e) PROVE DispatchInv'
<1>1. /\ e \notin emitted /\ emitted' = emitted \cup {e}
      /\ UNCHANGED <<busy, tries, received>>
  BY DEF Emit
<1>2. /\ e \notin Allowed \cap emitted /\ result[e] = "none" /\ received[e] = 0
      /\ \A i \in 1..Len(outbox) : outbox[i] # e
      /\ \A w \in Senders : Busy(w) => busy[w] # e
  BY <1>1 DEF DispatchInv, Filtered
<1>3. CASE e \notin Allowed /\ UNCHANGED <<outbox, result>>
  <2>1. Allowed \cap emitted' = Allowed \cap emitted
    BY <1>1, <1>3
  <2>2. TypeInv'
    BY <1>1, <1>3 DEF DispatchInv, TypeInv
  <2>3. Filtered' /\ NoneLost'
    BY ONLY <1>1, <1>3, <2>1, DispatchInv DEF DispatchInv, Filtered, NoneLost, Busy
  <2>4. OnePlace' /\ Counted' /\ ResultsAreTrue'
    BY ONLY <1>1, <1>3, DispatchInv DEF DispatchInv, OnePlace, Counted, ResultsAreTrue, Busy
  <2> QED BY <2>2, <2>3, <2>4 DEF DispatchInv
<1>4. CASE e \in Allowed /\ result' = drop(e) /\ UNCHANGED outbox
  <2>1. /\ result'[e] = "dropped"
        /\ \A x \in Events : x # e => result'[x] = result[x]
    BY <1>4 DEF DispatchInv, TypeInv, drop
  <2>2. TypeInv'
    BY <1>1, <1>4 DEF DispatchInv, TypeInv, drop
  <2>3. /\ \A i \in 1..Len(outbox) : outbox[i] \in Events
        /\ \A w \in Senders : Busy(w) => busy[w] \in Events
    BY DEF DispatchInv, TypeInv, Busy
  <2>4. Filtered'
    BY ONLY <1>1, <1>4, <2>1, DispatchInv DEF DispatchInv, Filtered, Busy
  <2>5. OnePlace'
    BY ONLY <1>1, <1>2, <1>4, <2>1, <2>3, DispatchInv DEF DispatchInv, OnePlace, Busy
  <2>6. NoneLost'
    BY ONLY <1>1, <1>4, <2>1, DispatchInv DEF DispatchInv, NoneLost, TypeInv
  <2>7. Counted'
    BY ONLY <1>1, <1>4, DispatchInv DEF DispatchInv, Counted, Busy
  <2>8. ResultsAreTrue'
    BY ONLY <1>1, <1>2, <2>1, DispatchInv DEF DispatchInv, ResultsAreTrue
  <2> QED BY <2>2, <2>4, <2>5, <2>6, <2>7, <2>8 DEF DispatchInv
<1>5. CASE e \in Allowed /\ outbox' = Append(outbox, e) /\ UNCHANGED result
  <2>1. PICK n \in Nat : n = Len(outbox) /\ Len(outbox') = n + 1 /\ outbox' \in Seq(Events)
    BY <1>5, BufferFacts DEF DispatchInv, TypeInv
  <2>2. /\ \A i \in 1..n : outbox'[i] = outbox[i]
        /\ outbox'[n + 1] = e
    BY <1>5, <2>1, BufferFacts DEF DispatchInv, TypeInv
  <2>3. \A i \in 1..n + 1 : i \in 1..n \/ i = n + 1
    OBVIOUS
  <2>4. TypeInv'
    BY <1>1, <1>5, <2>1 DEF DispatchInv, TypeInv
  <2>5. Filtered'
    <3>1. \A i \in 1..n + 1 : outbox'[i] \in Allowed \cap emitted'
      BY ONLY <1>1, <1>5, <2>1, <2>2, <2>3, DispatchInv DEF DispatchInv, Filtered
    <3> QED BY ONLY <1>1, <1>5, <2>1, <3>1, DispatchInv DEF DispatchInv, Filtered, Busy
  <2>6. OnePlace'
    <3>1. \A i, j \in 1..n + 1 : outbox'[i] = outbox'[j] => i = j
      BY ONLY <1>2, <2>1, <2>2, <2>3, DispatchInv DEF DispatchInv, OnePlace
    <3>2. \A i \in 1..n + 1, w \in Senders : outbox'[i] # busy[w]
      <4>1. \A w \in Senders : busy[w] # e
        BY <1>2, DispatcherAssumption DEF Busy
      <4> QED BY ONLY <4>1, <2>1, <2>2, <2>3, DispatchInv DEF DispatchInv, OnePlace
    <3>3. \A i \in 1..n + 1 : result[outbox'[i]] = "none"
      BY ONLY <1>2, <2>1, <2>2, <2>3, DispatchInv DEF DispatchInv, OnePlace
    <3> QED
      BY ONLY <1>1, <1>5, <2>1, <3>1, <3>2, <3>3, DispatchInv DEF DispatchInv, OnePlace, Busy
  <2>7. NoneLost'
    <3> SUFFICES ASSUME NEW x \in Allowed \cap emitted', result'[x] = "none"
                 PROVE  \/ \E i \in 1..Len(outbox') : outbox'[i] = x
                        \/ \E w \in Senders : busy'[w] = x
      BY DEF NoneLost
    <3>1. CASE x = e
      <4>1. n + 1 \in 1..Len(outbox')
        BY ONLY <2>1
      <4> QED BY ONLY <4>1, <2>2, <3>1
    <3>2. CASE x # e
      <4>1. \/ \E i \in 1..n : outbox[i] = x
            \/ \E w \in Senders : busy[w] = x
        BY ONLY <1>1, <1>5, <2>1, <3>2, x \in Allowed \cap emitted', result'[x] = "none",
                DispatchInv DEF DispatchInv, NoneLost
      <4>2. \A i \in 1..n : i \in 1..Len(outbox')
        BY ONLY <2>1
      <4> QED BY ONLY <1>1, <2>2, <4>1, <4>2
    <3> QED BY <3>1, <3>2
  <2>8. Counted'
    <3>1. \A i \in 1..n + 1 : received[outbox'[i]] = 0
      BY ONLY <1>2, <2>1, <2>2, <2>3, DispatchInv DEF DispatchInv, Counted
    <3> QED BY ONLY <1>1, <2>1, <3>1, DispatchInv DEF DispatchInv, Counted, Busy
  <2>9. ResultsAreTrue'
    BY ONLY <1>1, <1>5, DispatchInv DEF DispatchInv, ResultsAreTrue
  <2> QED BY <2>4, <2>5, <2>6, <2>7, <2>8, <2>9 DEF DispatchInv
<1> QED BY <1>3, <1>4, <1>5 DEF Emit

(* A worker takes the first event of the buffer, with no attempt made yet. *)
LEMMA TakeKeeps == ASSUME NEW w \in Senders, DispatchInv, Take(w) PROVE DispatchInv'
<1>1. PICK n \in Nat : /\ Len(outbox) = n + 1 /\ Len(outbox') = n /\ outbox' \in Seq(Events)
                       /\ \A i \in 1..n : outbox'[i] = outbox[i + 1]
                       /\ Head(outbox) = outbox[1] /\ outbox[1] \in Events
  <2>1. outbox # <<>> /\ outbox \in Seq(Events) /\ outbox' = Tail(outbox)
    BY DEF Take, DispatchInv, TypeInv
  <2>2. outbox[1] \in Events
    BY <2>1
  <2>3. /\ Len(outbox) \in Nat /\ Len(outbox) >= 1 /\ Head(outbox) = outbox[1] /\ outbox' \in Seq(Events)
        /\ Len(outbox') = Len(outbox) - 1 /\ \A i \in 1..Len(outbox) - 1 : outbox'[i] = outbox[i + 1]
    BY <2>1, <2>2, BufferFacts
  <2>4. Len(outbox) - 1 \in Nat /\ Len(outbox) = (Len(outbox) - 1) + 1
    BY <2>3
  <2> QED BY <2>2, <2>3, <2>4
<1>2. /\ busy[w] = NoEvent /\ busy'[w] = outbox[1] /\ tries'[w] = 0
      /\ \A v \in Senders : v # w => busy'[v] = busy[v] /\ tries'[v] = tries[v]
      /\ UNCHANGED <<emitted, result, received>>
  BY <1>1 DEF Take, DispatchInv, TypeInv
<1>3. /\ 1 \in 1..n + 1 /\ \A i \in 1..n : i + 1 \in 1..n + 1 /\ i + 1 # 1
      /\ \A i, j \in 1..n : i + 1 = j + 1 => i = j
      /\ \A k \in 1..n + 1 : k = 1 \/ \E i \in 1..n : k = i + 1
  <2>1. ASSUME NEW k \in 1..n + 1, k # 1 PROVE \E i \in 1..n : k = i + 1
    <3>1. k - 1 \in 1..n /\ k = (k - 1) + 1
      BY <2>1
    <3> QED BY <3>1
  <2> QED BY <2>1
<1>4. outbox[1] # NoEvent
  BY <1>1, DispatcherAssumption
<1>5. TypeInv'
  <2>1. 0 \in 0..Retries
    BY DispatcherAssumption
  <2>2. busy' \in [Senders -> Events \cup {NoEvent}] /\ tries' \in [Senders -> 0..Retries]
    BY <1>1, <2>1 DEF Take, DispatchInv, TypeInv
  <2> QED BY <1>1, <1>2, <2>2 DEF DispatchInv, TypeInv
<1>6. Filtered'
  BY ONLY <1>1, <1>2, <1>3, DispatchInv DEF DispatchInv, Filtered, Busy
<1>7. OnePlace'
  <2>1. \A i, j \in 1..n : outbox'[i] = outbox'[j] => i = j
    BY ONLY <1>1, <1>3, DispatchInv DEF DispatchInv, OnePlace
  <2>2. \A i \in 1..n + 1, v \in Senders : outbox[i] # busy[v]
    BY ONLY <1>1, DispatchInv DEF DispatchInv, OnePlace
  <2>3. \A v, u \in Senders : busy'[v] # NoEvent /\ busy'[v] = busy'[u] => v = u
    <3> SUFFICES ASSUME NEW v \in Senders, NEW u \in Senders,
                        busy'[v] # NoEvent, busy'[v] = busy'[u], v # u
                 PROVE  FALSE
      OBVIOUS
    <3>1. CASE v # w /\ u # w
      BY ONLY <3>1, <1>2, busy'[v] # NoEvent, busy'[v] = busy'[u], v # u,
              DispatchInv DEF DispatchInv, OnePlace, Busy
    <3>2. CASE v = w \/ u = w
      BY ONLY <3>2, <1>2, <1>3, <2>2, busy'[v] = busy'[u], v # u
    <3> QED BY <3>1, <3>2
  <2>4. \A i \in 1..n, v \in Senders : outbox'[i] # busy'[v]
    <3> SUFFICES ASSUME NEW i \in 1..n, NEW v \in Senders PROVE outbox'[i] # busy'[v]
      OBVIOUS
    <3>1. CASE v # w
      BY ONLY <3>1, <1>1, <1>2, <1>3, <2>2
    <3>2. CASE v = w
      <4>1. outbox[i + 1] # outbox[1]
        BY ONLY <1>1, <1>3, DispatchInv DEF DispatchInv, OnePlace
      <4> QED BY ONLY <3>2, <4>1, <1>1, <1>2
    <3> QED BY <3>1, <3>2
  <2>5. \A i \in 1..n : result[outbox'[i]] = "none"
    BY ONLY <1>1, <1>3, DispatchInv DEF DispatchInv, OnePlace
  <2>6. \A v \in Senders : busy'[v] # NoEvent => result[busy'[v]] = "none"
    BY ONLY <1>1, <1>2, <1>3, DispatchInv DEF DispatchInv, OnePlace, Busy
  <2> QED BY ONLY <1>1, <1>2, <2>1, <2>3, <2>4, <2>5, <2>6 DEF OnePlace, Busy
<1>8. NoneLost'
  <2> SUFFICES ASSUME NEW x \in Allowed \cap emitted, result[x] = "none"
               PROVE  (\E i \in 1..n : outbox'[i] = x) \/ (\E v \in Senders : busy'[v] = x)
    BY <1>1, <1>2 DEF NoneLost
  <2>1. (\E i \in 1..n + 1 : outbox[i] = x) \/ (\E v \in Senders : busy[v] = x)
    BY ONLY <1>1, DispatchInv, x \in Allowed \cap emitted, result[x] = "none"
       DEF DispatchInv, NoneLost
  <2>2. ASSUME NEW k \in 1..n + 1, outbox[k] = x
        PROVE  (\E i \in 1..n : outbox'[i] = x) \/ (\E v \in Senders : busy'[v] = x)
    <3>1. CASE k = 1
      BY ONLY <1>2, <2>2, <3>1, w \in Senders
    <3>2. CASE k # 1
      <4>1. PICK i \in 1..n : k = i + 1
        BY ONLY <1>3, <2>2, <3>2
      <4>2. outbox'[i] = x
        BY ONLY <1>1, <2>2, <4>1
      <4> QED BY ONLY <4>2
    <3> QED BY ONLY <3>1, <3>2
  <2>3. ASSUME NEW v \in Senders, busy[v] = x
        PROVE  \E u \in Senders : busy'[u] = x
    <3>1. x # NoEvent
      BY DispatcherAssumption
    <3> QED BY ONLY <3>1, <2>3, <1>2
  <2> QED BY <2>1, <2>2, <2>3
<1>9. Counted'
  <2>1. received[outbox[1]] = 0 /\ \A i \in 1..n : received[outbox'[i]] = 0
    BY ONLY <1>1, <1>3, DispatchInv DEF DispatchInv, Counted
  <2> QED BY ONLY <1>1, <1>2, <2>1, DispatchInv DEF DispatchInv, Counted, Busy
<1>10. ResultsAreTrue'
  BY ONLY <1>2, DispatchInv DEF DispatchInv, ResultsAreTrue
<1> QED BY <1>5, <1>6, <1>7, <1>8, <1>9, <1>10 DEF DispatchInv

-----------------------------------------------------------------------------
(* The end of a delivery: the event leaves its worker for one result, and  *)
(* a success comes with one more event received.                           *)
LEMMA FinishKeeps ==
  ASSUME NEW w \in Senders, NEW r \in {"success", "failure"}, DispatchInv,
         Busy(w), Finish(w, r), UNCHANGED <<emitted, outbox>>,
         \/ r = "failure" /\ UNCHANGED received
         \/ received' = [received EXCEPT ![busy[w]] = @ + 1]
  PROVE  DispatchInv'
<1>1. PICK e \in Events : e = busy[w] /\ e \in Allowed \cap emitted /\ e # NoEvent
  <2>1. busy[w] \in Allowed \cap emitted
    BY DEF DispatchInv, Filtered
  <2> QED BY <2>1, DispatcherAssumption DEF Busy
<1>2. /\ busy'[w] = NoEvent /\ result'[e] = r
      /\ \A v \in Senders : v # w => busy'[v] = busy[v] /\ tries'[v] = tries[v]
      /\ \A x \in Events : x # e => result'[x] = result[x] /\ received'[x] = received[x]
      /\ received[e] \in Nat /\ (received'[e] = received[e] + 1 \/ received'[e] = received[e])
      /\ r = "success" => received'[e] = received[e] + 1
  BY <1>1 DEF Finish, DispatchInv, TypeInv
<1>3. /\ \A i \in 1..Len(outbox) : outbox[i] # e
      /\ \A v \in Senders : v # w => busy[v] # e
      /\ result[e] = "none"
  BY ONLY <1>1, DispatchInv, Busy(w) DEF DispatchInv, OnePlace, Busy
<1>4. received[e] <= tries[w] /\ tries[w] \in 0..Retries
  BY ONLY <1>1, DispatchInv, Busy(w) DEF DispatchInv, Counted, TypeInv
<1>5. /\ \A i \in 1..Len(outbox) : outbox[i] \in Events
      /\ \A v \in Senders : busy[v] # NoEvent => busy[v] \in Events
  BY ONLY DispatchInv DEF DispatchInv, TypeInv
<1>6. TypeInv'
  <2>1. 0 \in 0..Retries
    BY DispatcherAssumption
  <2>2. busy' \in [Senders -> Events \cup {NoEvent}] /\ tries' \in [Senders -> 0..Retries]
    BY <2>1 DEF Finish, DispatchInv, TypeInv
  <2>3. result' \in [Events -> {"none", "dropped", "success", "failure"}]
    BY <1>1 DEF Finish, DispatchInv, TypeInv
  <2>4. received' \in [Events -> Nat]
    BY <1>1 DEF DispatchInv, TypeInv
  <2> QED BY <2>2, <2>3, <2>4 DEF DispatchInv, TypeInv
<1>7. Filtered'
  BY ONLY <1>1, <1>2, UNCHANGED <<emitted, outbox>>, DispatchInv DEF DispatchInv, Filtered, Busy
<1>8. OnePlace'
  <2>1. \A v, u \in Senders : busy'[v] # NoEvent /\ busy'[v] = busy'[u] => v = u
    BY ONLY <1>2, DispatchInv DEF DispatchInv, OnePlace, Busy
  <2>2. \A i \in 1..Len(outbox), v \in Senders : outbox[i] # busy'[v]
    BY ONLY <1>2, <1>5, DispatcherAssumption, DispatchInv
       DEF DispatchInv, OnePlace, DispatcherAssumption
  <2>3. \A i \in 1..Len(outbox) : result'[outbox[i]] = "none"
    BY ONLY <1>2, <1>3, <1>5, DispatchInv DEF DispatchInv, OnePlace
  <2>4. \A v \in Senders : busy'[v] # NoEvent => result'[busy'[v]] = "none"
    BY ONLY <1>2, <1>3, <1>5, DispatchInv DEF DispatchInv, OnePlace, Busy
  <2>5. \A i, j \in 1..Len(outbox) : outbox[i] = outbox[j] => i = j
    BY ONLY DispatchInv DEF DispatchInv, OnePlace
  <2> QED
    BY ONLY <2>1, <2>2, <2>3, <2>4, <2>5, UNCHANGED <<emitted, outbox>> DEF OnePlace, Busy
<1>9. NoneLost'
  <2> SUFFICES ASSUME NEW x \in Allowed \cap emitted, result'[x] = "none"
               PROVE  (\E i \in 1..Len(outbox) : outbox[i] = x) \/ (\E v \in Senders : busy'[v] = x)
    BY DEF NoneLost
  <2>1. x \in Events /\ x # e
    BY <1>2, DispatcherAssumption
  <2>2. (\E i \in 1..Len(outbox) : outbox[i] = x) \/ (\E v \in Senders : busy[v] = x)
    BY ONLY <1>2, <2>1, x \in Allowed \cap emitted, result'[x] = "none", DispatchInv
       DEF DispatchInv, NoneLost
  <2> QED BY ONLY <1>1, <1>2, <2>1, <2>2
<1>10. Counted'
  <2>1. \A i \in 1..Len(outbox) : received'[outbox[i]] = 0
    BY ONLY <1>2, <1>3, <1>5, DispatchInv DEF DispatchInv, Counted
  <2>2. \A v \in Senders : busy'[v] # NoEvent => received'[busy'[v]] <= tries'[v]
    BY ONLY <1>2, <1>3, <1>5, DispatchInv DEF DispatchInv, Counted, Busy
  <2> QED BY ONLY <2>1, <2>2, UNCHANGED <<emitted, outbox>> DEF Counted, Busy
<1>11. ResultsAreTrue'
  <2> SUFFICES ASSUME NEW x \in Events
               PROVE  /\ result'[x] = "success" => received'[x] >= 1
                      /\ result'[x] = "dropped" \/ x \notin Allowed => received'[x] = 0
                      /\ received'[x] <= Retries + 1
    BY DEF ResultsAreTrue
  <2>1. CASE x # e
    BY ONLY <1>2, <2>1, DispatchInv DEF DispatchInv, ResultsAreTrue
  <2>2. CASE x = e
    <3>1. Retries \in Nat
      BY DispatcherAssumption
    <3>2. received'[e] <= Retries + 1
      BY ONLY <1>2, <1>4, <3>1
    <3>3. r = "success" => received'[e] >= 1
      BY ONLY <1>2
    <3> QED BY ONLY <1>1, <1>2, <2>2, <3>2, <3>3, r \in {"success", "failure"}
  <2> QED BY <2>1, <2>2
<1> QED BY <1>6, <1>7, <1>8, <1>9, <1>10, <1>11 DEF DispatchInv

(* A failed attempt that is retried: the worker keeps the event, and the   *)
(* receiver may have taken it.                                             *)
LEMMA RetryKeeps ==
  ASSUME NEW w \in Senders, DispatchInv, Busy(w), tries[w] < Retries,
         tries' = [tries EXCEPT ![w] = @ + 1], UNCHANGED <<emitted, outbox, result, busy>>,
         UNCHANGED received \/ received' = [received EXCEPT ![busy[w]] = @ + 1]
  PROVE  DispatchInv'
<1>1. PICK e \in Events : e = busy[w] /\ e \in Allowed \cap emitted
  <2>1. busy[w] \in Allowed \cap emitted
    BY DEF DispatchInv, Filtered
  <2> QED BY <2>1, DispatcherAssumption
<1>2. /\ tries'[w] = tries[w] + 1 /\ tries[w] \in 0..Retries
      /\ \A v \in Senders : v # w => tries'[v] = tries[v]
      /\ \A x \in Events : x # e => received'[x] = received[x]
      /\ received[e] \in Nat /\ (received'[e] = received[e] + 1 \/ received'[e] = received[e])
  BY <1>1 DEF DispatchInv, TypeInv
<1>3. /\ \A i \in 1..Len(outbox) : outbox[i] # e
      /\ \A v \in Senders : v # w => busy[v] # e
      /\ result[e] = "none" /\ received[e] <= tries[w]
  BY ONLY <1>1, DispatchInv, Busy(w) DEF DispatchInv, OnePlace, Counted, Busy
<1>4. /\ \A i \in 1..Len(outbox) : outbox[i] \in Events
      /\ \A v \in Senders : busy[v] # NoEvent => busy[v] \in Events
  BY ONLY DispatchInv DEF DispatchInv, TypeInv
<1>5. TypeInv'
  <2>1. tries[w] + 1 \in 0..Retries
    BY <1>2, DispatcherAssumption
  <2>2. tries' \in [Senders -> 0..Retries]
    BY <2>1 DEF DispatchInv, TypeInv
  <2>3. received' \in [Events -> Nat]
    <3>1. received \in [Events -> Nat] /\ received[e] + 1 \in Nat
      BY <1>2 DEF DispatchInv, TypeInv
    <3>2. UNCHANGED received \/ received' = [received EXCEPT ![e] = received[e] + 1]
      BY <1>1
    <3> QED BY ONLY <3>1, <3>2
  <2> QED BY <2>2, <2>3 DEF DispatchInv, TypeInv
<1>6. Filtered'
  BY ONLY <1>1, <1>2, UNCHANGED <<emitted, outbox, result, busy>>, DispatchInv
     DEF DispatchInv, Filtered, Busy
<1>7. OnePlace' /\ NoneLost'
  BY ONLY UNCHANGED <<emitted, outbox, result, busy>>, DispatchInv
     DEF DispatchInv, OnePlace, NoneLost, Busy
<1>8. Counted'
  <2>1. \A i \in 1..Len(outbox) : received'[outbox[i]] = 0
    BY ONLY <1>2, <1>3, <1>4, DispatchInv DEF DispatchInv, Counted
  <2>2. received'[e] <= tries'[w]
    BY ONLY <1>2, <1>3
  <2>3. \A v \in Senders : busy[v] # NoEvent => received'[busy[v]] <= tries'[v]
    BY ONLY <1>1, <1>2, <1>3, <1>4, <2>2, DispatchInv DEF DispatchInv, Counted, Busy
  <2> QED BY ONLY <2>1, <2>3, UNCHANGED <<emitted, outbox, result, busy>> DEF Counted, Busy
<1>9. ResultsAreTrue'
  <2> SUFFICES ASSUME NEW x \in Events
               PROVE  /\ result[x] = "success" => received'[x] >= 1
                      /\ result[x] = "dropped" \/ x \notin Allowed => received'[x] = 0
                      /\ received'[x] <= Retries + 1
    BY DEF ResultsAreTrue
  <2>1. CASE x # e
    BY ONLY <1>2, <2>1, DispatchInv DEF DispatchInv, ResultsAreTrue
  <2>2. CASE x = e
    <3>1. received'[e] <= Retries + 1
      BY <1>2, <1>3, DispatcherAssumption
    <3> QED BY ONLY <1>1, <1>3, <2>2, <3>1
  <2> QED BY <2>1, <2>2
<1> QED BY <1>5, <1>6, <1>7, <1>8, <1>9 DEF DispatchInv

(* The inductive invariant: it holds before the first event, and Emit, the *)
(* workers and Shutdown keep it.                                           *)
LEMMA DispatchInvariant == DispatcherSpec => []DispatchInv
<1>1. DispatcherInit => DispatchInv
  <2> SUFFICES ASSUME DispatcherInit PROVE DispatchInv
    OBVIOUS
  <2>1. TypeInv
    <3>1. 0 \in 0..Retries /\ 0 \in Nat
      BY DispatcherAssumption
    <3> QED BY <3>1 DEF DispatcherInit, TypeInv
  <2>2. /\ Len(outbox) = 0 /\ emitted = {} /\ \A w \in Senders : busy[w] = NoEvent
        /\ \A e \in Events : result[e] = "none" /\ received[e] = 0
    BY DEF DispatcherInit
  <2>3. Filtered /\ OnePlace /\ NoneLost /\ Counted
    BY ONLY <2>2 DEF Filtered, OnePlace, NoneLost, Counted, Busy
  <2>4. ResultsAreTrue
    BY <2>2, DispatcherAssumption DEF ResultsAreTrue
  <2> QED BY <2>1, <2>3, <2>4 DEF DispatchInv
<1>2. DispatchInv /\ [DispatcherNext]_dispatcherVars => DispatchInv'
  <2> SUFFICES ASSUME DispatchInv, [DispatcherNext]_dispatcherVars PROVE DispatchInv'
    OBVIOUS
  <2>1. CASE UNCHANGED <<emitted, outbox, busy, tries, result, received>>
    BY ONLY <2>1, DispatchInv
       DEF DispatchInv, TypeInv, Filtered, OnePlace, NoneLost, Counted, ResultsAreTrue, Busy
  <2>2. ASSUME NEW w \in Senders, Delivered(w) PROVE DispatchInv'
    BY <2>2, FinishKeeps DEF Delivered, Busy
  <2>3. ASSUME NEW w \in Senders, AttemptFails(w) PROVE DispatchInv'
    <3>1. CASE tries' = [tries EXCEPT ![w] = @ + 1] /\ UNCHANGED <<result, busy>> /\ AttemptsLeft(w)
               /\ (UNCHANGED received \/ received' = [received EXCEPT ![busy[w]] = @ + 1])
      BY <2>3, <3>1, RetryKeeps DEF AttemptFails, AttemptsLeft, Busy
    <3>2. CASE Finish(w, "failure")
               /\ (UNCHANGED received \/ received' = [received EXCEPT ![busy[w]] = @ + 1])
      BY <2>3, <3>2, FinishKeeps DEF AttemptFails, Busy
    <3> QED BY <2>3, <3>1, <3>2 DEF AttemptFails
  <2> QED
    BY <2>1, <2>2, <2>3, EmitKeeps, TakeKeeps
    DEF DispatcherNext, SenderStep, SenderExits, DispatcherCloses, DispatcherReturns, dispatcherVars
<1> QED BY <1>1, <1>2, PTL DEF DispatcherSpec

(* Every event that passes the filter is at one place only - the buffer,   *)
(* one worker or one recorded result - for any interleaving of Emit, the   *)
(* workers' retries and Shutdown: none is counted twice, none vanishes.    *)
THEOREM AccountedTheorem == DispatcherSpec => []AccountedFor
<1>1. DispatchInv => AccountedFor
  <2> SUFFICES ASSUME DispatchInv, NEW e \in Allowed \cap emitted
               PROVE  /\ \A i, j \in Queued(e) : i = j
                      /\ \A v, w \in InDelivery(e) : v = w
                      /\ Queued(e) # {} => InDelivery(e) = {} /\ result[e] = "none"
                      /\ InDelivery(e) # {} => result[e] = "none"
                      /\ result[e] = "none" => Queued(e) # {} \/ InDelivery(e) # {}
    BY DEF AccountedFor
  <2>1. DOMAIN outbox = 1..Len(outbox) /\ e # NoEvent
    BY DispatcherAssumption DEF DispatchInv, TypeInv
  <2>2. /\ \A i \in Queued(e) : i \in 1..Len(outbox) /\ outbox[i] = e
        /\ \A i \in 1..Len(outbox) : outbox[i] = e => i \in Queued(e)
    BY <2>1 DEF Queued
  <2>3. /\ \A w \in InDelivery(e) : w \in Senders /\ busy[w] = e /\ Busy(w)
        /\ \A w \in Senders : busy[w] = e => w \in InDelivery(e)
    BY <2>1 DEF InDelivery, Busy
  <2>4. \A i, j \in Queued(e) : i = j
    BY ONLY <2>2, DispatchInv DEF DispatchInv, OnePlace
  <2>5. \A v, w \in InDelivery(e) : v = w
    BY ONLY <2>3, DispatchInv DEF DispatchInv, OnePlace
  <2>6. Queued(e) # {} => InDelivery(e) = {} /\ result[e] = "none"
    BY ONLY <2>2, <2>3, DispatchInv DEF DispatchInv, OnePlace
  <2>7. InDelivery(e) # {} => result[e] = "none"
    BY ONLY <2>3, DispatchInv DEF DispatchInv, OnePlace
  <2>8. result[e] = "none" => Queued(e) # {} \/ InDelivery(e) # {}
    BY ONLY <2>2, <2>3, DispatchInv, e \in Allowed \cap emitted DEF DispatchInv, NoneLost
  <2> QED BY <2>4, <2>5, <2>6, <2>7, <2>8
<1> QED BY <1>1, DispatchInvariant, PTL

(* The delivery metric tells the truth, although an answer may be lost     *)
(* after the receiver took the event: a success was received, a dropped or *)
(* filtered event was not, and no event more often than Retries + 1 times. *)
THEOREM ResultsTheorem == DispatcherSpec => []ResultsAreTrue
<1>1. DispatchInv => ResultsAreTrue
  BY DEF DispatchInv
<1> QED BY <1>1, DispatchInvariant, PTL
=============================================================================
