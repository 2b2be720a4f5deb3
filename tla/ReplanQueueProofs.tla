------------------------- MODULE ReplanQueueProofs -------------------------
(***************************************************************************)
(* Proofs about the asynchronous replan queue, for any number of plans,    *)
(* signals, callers and workers and any buffer and window size: its safety *)
(* properties, and that it implements one serial queue per plan.           *)
(***************************************************************************)
EXTENDS ReplanQueue, TLAPS, SequenceTheorems

USE QueueAssumption DEF shutdownStates

-----------------------------------------------------------------------------
(* Sequences                                                               *)

(* What a worker relies on when it takes the head of a FIFO.               *)
LEMMA HeadTailFacts ==
  ASSUME NEW S, NEW q \in Seq(S), q # <<>>
  PROVE  /\ Head(q) = q[1] /\ Head(q) \in S
         /\ Tail(q) \in Seq(S)
         /\ Len(q) \in Nat \ {0}
         /\ Len(Tail(q)) = Len(q) - 1
         /\ \A i \in 1..(Len(q) - 1) : Tail(q)[i] = q[i + 1]
  BY HeadTailProperties, EmptySeq

(* Appending to the second part of a concatenation appends to the whole.   *)
LEMMA AppendToConcat ==
  ASSUME NEW S, NEW q \in Seq(S), NEW r \in Seq(S), NEW e \in S
  PROVE  q \o Append(r, e) = Append(q \o r, e)
<1> DEFINE L == q \o Append(r, e)
           R == Append(q \o r, e)
<1>1. q \o r \in Seq(S) /\ Len(q \o r) = Len(q) + Len(r)
  BY ConcatProperties
<1>2. Append(r, e) \in Seq(S) /\ Len(Append(r, e)) = Len(r) + 1
  BY AppendProperties
<1>3. L \in Seq(S) /\ Len(L) = Len(q) + Len(r) + 1
  BY <1>2, ConcatProperties
<1>4. R \in Seq(S) /\ Len(R) = Len(q) + Len(r) + 1
  BY <1>1, AppendProperties
<1>5. ASSUME NEW i \in 1..Len(L) PROVE L[i] = R[i]
  BY <1>1, <1>2, <1>3, ConcatProperties, AppendProperties
<1> QED BY <1>3, <1>4, <1>5, SeqEqual

(* Moving the head of the second part to the end of the first keeps the    *)
(* whole.                                                                  *)
LEMMA MoveHead ==
  ASSUME NEW S, NEW q \in Seq(S), NEW r \in Seq(S), r # <<>>
  PROVE  Append(q, Head(r)) \o Tail(r) = q \o r
<1> DEFINE L == Append(q, Head(r)) \o Tail(r)
           R == q \o r
<1>1. /\ Head(r) = r[1] /\ Head(r) \in S /\ Tail(r) \in Seq(S)
      /\ Len(r) \in Nat \ {0} /\ Len(Tail(r)) = Len(r) - 1
      /\ \A i \in 1..(Len(r) - 1) : Tail(r)[i] = r[i + 1]
  BY HeadTailFacts
<1>2. /\ Append(q, Head(r)) \in Seq(S) /\ Len(Append(q, Head(r))) = Len(q) + 1
      /\ \A i \in 1..Len(q) : Append(q, Head(r))[i] = q[i]
      /\ Append(q, Head(r))[Len(q) + 1] = r[1]
  BY <1>1, AppendProperties
<1>3. /\ L \in Seq(S) /\ Len(L) = Len(q) + Len(r)
      /\ \A i \in 1..(Len(q) + Len(r)) :
           L[i] = IF i <= Len(q) + 1 THEN Append(q, Head(r))[i] ELSE Tail(r)[i - (Len(q) + 1)]
  BY <1>1, <1>2, ConcatProperties
<1>4. /\ R \in Seq(S) /\ Len(R) = Len(q) + Len(r)
      /\ \A i \in 1..(Len(q) + Len(r)) : R[i] = IF i <= Len(q) THEN q[i] ELSE r[i - Len(q)]
  BY ConcatProperties
<1>5. Len(q) \in Nat
  OBVIOUS
<1>6. ASSUME NEW i \in 1..Len(L) PROVE L[i] = R[i]
  <2>1. CASE i <= Len(q)
    BY <2>1, <1>2, <1>3, <1>4, <1>5, <1>6
  <2>2. CASE i = Len(q) + 1
    BY <2>2, <1>1, <1>2, <1>3, <1>4, <1>5
  <2>3. CASE i > Len(q) + 1
    <3>1. L[i] = Tail(r)[i - (Len(q) + 1)] /\ i - (Len(q) + 1) \in 1..(Len(r) - 1)
      BY <2>3, <1>1, <1>3, <1>5
    <3>2. R[i] = r[i - Len(q)] /\ (i - (Len(q) + 1)) + 1 = i - Len(q)
      BY <2>3, <1>1, <1>3, <1>4, <1>5
    <3> QED BY <3>1, <3>2, <1>1
  <2> QED BY <2>1, <2>2, <2>3, <1>3, <1>5, <1>1
<1> QED BY <1>3, <1>4, <1>6, SeqEqual

-----------------------------------------------------------------------------
(* Type correctness of MemoryQueue.                                        *)
THEOREM TypeCorrect == Spec => []TypeOK
<1>1. Init => TypeOK
  <2>1. <<>> \in Seq(Signals) /\ <<>> \in Seq(Plans)
    OBVIOUS
  <2> QED BY <2>1 DEF Init, TypeOK
<1>2. TypeOK /\ [Next]_vars => TypeOK'
  <2> SUFFICES ASSUME TypeOK, [Next]_vars PROVE TypeOK'
    OBVIOUS
  <2> USE DEF TypeOK
  <2>1. ASSUME NEW c \in Callers, NEW s \in Signals, Enqueue(c, s) PROVE TypeOK'
    <3>1. seenFIFO' \in Seq(Signals) /\ seen' \in SUBSET Signals
      <4>1. seenFIFO \in Seq(Signals) /\ Append(seenFIFO, s) \in Seq(Signals)
        OBVIOUS
      <4>2. Append(seenFIFO, s) # <<>>
        BY ONLY <4>1, s \in Signals, AppendProperties
      <4>3. Tail(Append(seenFIFO, s)) \in Seq(Signals)
        BY ONLY <4>1, <4>2, HeadTailFacts
      <4> QED BY <2>1, <4>1, <4>3 DEF Enqueue, markSeen
    <3>2. PlanOf[s] \in Plans
      OBVIOUS
    <3>3. pending' \in [Plans -> Seq(Signals)] /\ accepted' \in [Plans -> Seq(Signals)]
      BY <2>1, <3>2 DEF Enqueue
    <3>4. sending' \in [Callers -> Plans \cup {NoPlan}] /\ queued' \in [Plans -> BOOLEAN]
      BY <2>1, <3>2 DEF Enqueue, Push
    <3>5. order' \in Seq(Signals)
      BY <2>1 DEF Enqueue
    <3> QED BY <2>1, <3>1, <3>3, <3>4, <3>5 DEF Enqueue
  <2>2. ASSUME NEW c \in Callers, Send(c) PROVE TypeOK'
    BY <2>2 DEF Send, HasToSend
  <2>3. ASSUME NEW c \in Callers, SendPanics(c) PROVE TypeOK'
    BY <2>3 DEF SendPanics, HasToSend
  <2>4. ASSUME NEW w \in Workers, Receive(w) PROVE TypeOK'
    BY <2>4 DEF Receive
  <2>5. ASSUME NEW w \in Workers, Pop(w) PROVE TypeOK'
    <3>1. workerPlan[w] \in Plans
      BY <2>5 DEF Pop
    <3>2. Head(pending[workerPlan[w]]) \in Signals /\ Tail(pending[workerPlan[w]]) \in Seq(Signals)
      BY <2>5, <3>1 DEF Pop
    <3> QED BY <2>5, <3>1, <3>2 DEF Pop, Rest
  <2>6. ASSUME NEW w \in Workers, JobEnds(w) PROVE TypeOK'
    BY <2>6 DEF JobEnds
  <2>7. ASSUME NEW w \in Workers, Drained(w) PROVE TypeOK'
    BY <2>7 DEF Drained, StillQueued
  <2>8. ASSUME NEW w \in Workers, WorkerExits(w) PROVE TypeOK'
    BY <2>8 DEF WorkerExits
  <2>9. CASE ShutdownBegins
    BY <2>9 DEF ShutdownBegins
  <2>10. CASE CloseChannel
    BY <2>10 DEF CloseChannel
  <2>11. CASE ShutdownReturns
    BY <2>11 DEF ShutdownReturns
  <2>12. CASE UNCHANGED vars
    BY <2>12 DEF vars
  <2> QED
    BY <2>1, <2>2, <2>3, <2>4, <2>5, <2>6, <2>7, <2>8, <2>9, <2>10, <2>11, <2>12
    DEF Next, CallerStep, WorkerStep
<1> QED BY <1>1, <1>2, PTL DEF Spec
-----------------------------------------------------------------------------
(* A plan has at most one representative among the callers about to send   *)
(* it, the channel and the workers, and none while it is not queued: the   *)
(* push flag of Enqueue against the release in work.                       *)
THEOREM TokenTheorem == Spec => []OneTokenPerPlan
<1>1. Init => OneTokenPerPlan
  <2> SUFFICES ASSUME Init, NEW p \in Plans PROVE TokenOf(p)
    BY DEF OneTokenPerPlan
  <2>1. Announcing(p) = {} /\ InChannel(p) = {} /\ Draining(p) = {} /\ pending[p] = <<>>
    BY DEF Init, Announcing, InChannel, Draining
  <2> QED BY <2>1 DEF TokenOf
<1>2. TypeOK /\ OneTokenPerPlan /\ [Next]_vars => OneTokenPerPlan'
  <2> SUFFICES ASSUME TypeOK, OneTokenPerPlan, [Next]_vars, NEW p \in Plans
               PROVE  TokenOf(p)'
    BY DEF OneTokenPerPlan
  <2>0. TokenOf(p)
    BY DEF OneTokenPerPlan
  <2>a. ASSUME Announcing(p)' = Announcing(p), InChannel(p)' = InChannel(p),
               Draining(p)' = Draining(p), queued'[p] = queued[p],
               ~queued[p] => pending'[p] = pending[p]
        PROVE  TokenOf(p)'
    BY ONLY <2>0, <2>a DEF TokenOf
  <2>b. sending' = sending => Announcing(p)' = Announcing(p)
    BY DEF Announcing
  <2>c. ch' = ch => InChannel(p)' = InChannel(p)
    BY DEF InChannel
  <2>d. workerPlan' = workerPlan => Draining(p)' = Draining(p)
    BY DEF Draining
  <2>1. ASSUME NEW c \in Callers, NEW s \in Signals, Enqueue(c, s) PROVE TokenOf(p)'
    <3>1. InChannel(p)' = InChannel(p) /\ Draining(p)' = Draining(p)
      BY ONLY <2>1, <2>c, <2>d DEF Enqueue
    <3>2. CASE p = PlanOf[s] /\ ~queued[p]
      <4>1. Announcing(p)' = Announcing(p) \cup {c} /\ queued'[p] = TRUE
        BY <2>1, <3>2 DEF Enqueue, Push, Announcing, TypeOK
      <4> QED BY ONLY <4>1, <3>1, <3>2, <2>0 DEF TokenOf
    <3>3. CASE p = PlanOf[s] /\ queued[p]
      <4>1. Announcing(p)' = Announcing(p) /\ queued'[p] = TRUE
        BY <2>1, <3>3 DEF Enqueue, Push, Announcing, TypeOK
      <4> QED BY ONLY <4>1, <3>1, <3>3, <2>0 DEF TokenOf
    <3>4. CASE p # PlanOf[s]
      <4>1. Announcing(p)' = Announcing(p)
        BY <2>1, <3>4 DEF Enqueue, Push, Announcing, TypeOK
      <4>2. queued'[p] = queued[p] /\ pending'[p] = pending[p]
        BY <2>1, <3>4 DEF Enqueue, TypeOK
      <4> QED BY <4>1, <4>2, <3>1, <2>a
    <3> QED BY <3>2, <3>3, <3>4
  <2>2. ASSUME NEW c \in Callers, Send(c) PROVE TokenOf(p)'
    <3>1. Announcing(p)' = Announcing(p) \ {c}
      BY <2>2 DEF Send, Announcing, TypeOK
    <3>2. Draining(p)' = Draining(p) /\ queued' = queued /\ pending' = pending
      BY <2>2, <2>d DEF Send
    <3>3. CASE sending[c] = p
      <4>1. InChannel(p)' = InChannel(p) \cup {Len(ch) + 1}
        <5>1. ch \in Seq(Plans) /\ ch' = Append(ch, p) /\ Len(ch) \in Nat
          BY <2>2, <3>3 DEF Send, TypeOK
        <5>2. /\ Len(ch') = Len(ch) + 1 /\ ch' \in Seq(Plans) /\ ch'[Len(ch) + 1] = p
              /\ \A i \in 1..Len(ch) : ch'[i] = ch[i]
          BY ONLY <5>1, p \in Plans, AppendProperties
        <5>3. DOMAIN ch' = DOMAIN ch \cup {Len(ch) + 1} /\ DOMAIN ch = 1..Len(ch)
          BY ONLY <5>1, <5>2
        <5>4. InChannel(p)' = {i \in DOMAIN ch' : ch'[i] = p}
          BY ONLY DEF InChannel
        <5> QED BY ONLY <5>1, <5>2, <5>3, <5>4 DEF InChannel
      <4>2. c \in Announcing(p)
        BY <3>3 DEF Announcing
      <4> QED BY ONLY <4>1, <4>2, <3>1, <3>2, <2>0 DEF TokenOf
    <3>4. CASE sending[c] # p
      <4>1. InChannel(p)' = InChannel(p)
        BY <2>2, <3>4 DEF Send, InChannel, TypeOK
      <4>2. c \notin Announcing(p)
        BY <3>4 DEF Announcing
      <4> QED BY <4>1, <4>2, <3>1, <3>2, <2>a
    <3> QED BY <3>3, <3>4
  <2>3. ASSUME NEW c \in Callers, SendPanics(c) PROVE TokenOf(p)'
    <3>1. Announcing(p)' = Announcing(p) \ {c}
      BY <2>3 DEF SendPanics, Announcing, TypeOK
    <3>2. /\ InChannel(p)' = InChannel(p) /\ Draining(p)' = Draining(p)
          /\ queued' = queued /\ pending' = pending
      BY <2>3, <2>c, <2>d DEF SendPanics
    <3> QED BY ONLY <3>1, <3>2, <2>0 DEF TokenOf
  <2>4. ASSUME NEW w \in Workers, Receive(w) PROVE TokenOf(p)'
    <3>1. Announcing(p)' = Announcing(p) /\ queued' = queued /\ pending' = pending
      BY <2>4, <2>b DEF Receive
    <3>2. /\ ch # <<>> /\ ch \in Seq(Plans) /\ ch' = Tail(ch) /\ workerPlan[w] = NoPlan
          /\ workerPlan' = [workerPlan EXCEPT ![w] = Head(ch)]
      BY <2>4 DEF Receive, TypeOK
    <3>3. /\ Head(ch) = ch[1] /\ Tail(ch) \in Seq(Plans)
          /\ Len(ch) \in Nat \ {0} /\ Len(Tail(ch)) = Len(ch) - 1
          /\ \A i \in 1..(Len(ch) - 1) : Tail(ch)[i] = ch[i + 1]
      BY ONLY <3>2, HeadTailFacts
    <3>4. InChannel(p) = {i \in 1..Len(ch) : ch[i] = p}
      BY ONLY <3>2 DEF InChannel
    <3>5. InChannel(p)' = {i \in 1..(Len(ch) - 1) : ch[i + 1] = p}
      <4>1. DOMAIN ch' = 1..(Len(ch) - 1)
        BY ONLY <3>2, <3>3
      <4>2. InChannel(p)' = {i \in DOMAIN ch' : ch'[i] = p}
        BY ONLY DEF InChannel
      <4> QED BY ONLY <3>2, <3>3, <4>1, <4>2
    <3>6. \A i \in InChannel(p)' : i + 1 \in InChannel(p) /\ i \in Nat
      BY ONLY <3>3, <3>4, <3>5
    <3>7. CASE ch[1] = p
      <4>1. 1 \in InChannel(p)
        BY ONLY <3>7, <3>3, <3>4
      <4>2. InChannel(p)' = {}
        <5> SUFFICES ASSUME NEW i \in InChannel(p)' PROVE FALSE
          OBVIOUS
        <5>1. i + 1 \in InChannel(p) /\ i \in 1..(Len(ch) - 1)
          BY ONLY <3>3, <3>4, <3>5
        <5>2. i + 1 = 1
          BY ONLY <4>1, <5>1, <2>0 DEF TokenOf
        <5> QED BY ONLY <5>1, <5>2, <3>3
      <4>3. Draining(p)' = Draining(p) \cup {w}
        BY <3>2, <3>3, <3>7 DEF Draining, TypeOK
      <4> QED BY ONLY <4>1, <4>2, <4>3, <3>1, <2>0 DEF TokenOf
    <3>8. CASE ch[1] # p
      <4>1. Draining(p)' = Draining(p)
        BY <3>2, <3>3, <3>8 DEF Draining, TypeOK
      <4>2. \A i, j \in InChannel(p)' : i = j
        <5> SUFFICES ASSUME NEW i \in InChannel(p)', NEW j \in InChannel(p)' PROVE i = j
          OBVIOUS
        <5>1. i + 1 = j + 1
          BY ONLY <3>6, <2>0 DEF TokenOf
        <5> QED BY ONLY <5>1, <3>6
      <4>3. InChannel(p)' # {} => InChannel(p) # {}
        BY ONLY <3>6
      <4> QED BY ONLY <4>1, <4>2, <4>3, <3>1, <2>0 DEF TokenOf
    <3> QED BY <3>7, <3>8
  <2>5. ASSUME NEW w \in Workers, Pop(w) PROVE TokenOf(p)'
    <3>1. /\ Announcing(p)' = Announcing(p) /\ InChannel(p)' = InChannel(p)
          /\ Draining(p)' = Draining(p) /\ queued' = queued
      BY <2>5, <2>b, <2>c, <2>d DEF Pop
    <3>2. ~queued[p] => pending'[p] = pending[p]
      <4>1. ~queued[p] => pending[p] = <<>>
        BY ONLY <2>0 DEF TokenOf
      <4>2. pending[workerPlan[w]] # <<>>
        BY <2>5 DEF Pop
      <4> QED BY <4>1, <4>2, <2>5 DEF Pop, TypeOK
    <3> QED BY <3>1, <3>2, <2>a
  <2>6. ASSUME NEW w \in Workers, JobEnds(w) PROVE TokenOf(p)'
    BY <2>6, <2>a, <2>b, <2>c, <2>d DEF JobEnds
  <2>7. ASSUME NEW w \in Workers, Drained(w) PROVE TokenOf(p)'
    <3>1. /\ Announcing(p)' = Announcing(p) /\ InChannel(p)' = InChannel(p)
          /\ pending' = pending
      BY <2>7, <2>b, <2>c DEF Drained
    <3>2. Draining(p)' = Draining(p) \ {w}
      BY <2>7 DEF Drained, Draining, TypeOK
    <3>3. CASE workerPlan[w] = p
      <4>1. w \in Draining(p) /\ pending[p] = <<>>
        BY <2>7, <3>3 DEF Drained, Draining
      <4> QED BY ONLY <3>1, <3>2, <4>1, <2>0 DEF TokenOf
    <3>4. CASE workerPlan[w] # p
      <4>1. w \notin Draining(p)
        BY <3>4 DEF Draining
      <4>2. queued'[p] = queued[p]
        BY <2>7, <3>4 DEF Drained, TypeOK
      <4> QED BY <3>1, <3>2, <4>1, <4>2, <2>a
    <3> QED BY <3>3, <3>4
  <2>8. ASSUME NEW w \in Workers, WorkerExits(w) PROVE TokenOf(p)'
    BY <2>8, <2>a, <2>b, <2>c, <2>d DEF WorkerExits
  <2>9. CASE ShutdownBegins
    BY <2>9, <2>a, <2>b, <2>c, <2>d DEF ShutdownBegins
  <2>10. CASE CloseChannel
    BY <2>10, <2>a, <2>b, <2>c, <2>d DEF CloseChannel
  <2>11. CASE ShutdownReturns
    BY <2>11, <2>a, <2>b, <2>c, <2>d DEF ShutdownReturns
  <2>12. CASE UNCHANGED vars
    BY <2>12, <2>a, <2>b, <2>c, <2>d DEF vars
  <2> QED
    BY <2>1, <2>2, <2>3, <2>4, <2>5, <2>6, <2>7, <2>8, <2>9, <2>10, <2>11, <2>12
    DEF Next, CallerStep, WorkerStep
<1> QED BY <1>1, <1>2, TypeCorrect, PTL DEF Spec

(* Work for one plan is serialised: two workers never drain the same plan. *)
THEOREM MutualExclusion == Spec => []OneWorkerPerPlan
<1>1. TypeOK /\ OneTokenPerPlan => OneWorkerPerPlan
  BY DEF TypeOK, OneTokenPerPlan, TokenOf, OneWorkerPerPlan, Draining
<1> QED BY <1>1, TypeCorrect, TokenTheorem, PTL

-----------------------------------------------------------------------------
(* Per plan, what was handed to the handler followed by what is pending is *)
(* what Enqueue accepted: nothing is lost, repeated or overtaken.          *)
THEOREM FIFOTheorem == Spec => []FIFOPerPlan
<1>1. Init => FIFOPerPlan
  <2>1. <<>> \o <<>> = <<>>
    OBVIOUS
  <2> QED BY <2>1 DEF Init, FIFOPerPlan
<1>2. TypeOK /\ FIFOPerPlan /\ [Next]_vars => FIFOPerPlan'
  <2> SUFFICES ASSUME TypeOK, FIFOPerPlan, [Next]_vars, NEW p \in Plans
               PROVE  accepted'[p] = started'[p] \o pending'[p]
    BY DEF FIFOPerPlan
  <2>0. /\ accepted[p] = started[p] \o pending[p]
        /\ accepted[p] \in Seq(Signals) /\ started[p] \in Seq(Signals)
        /\ pending[p] \in Seq(Signals)
    BY DEF FIFOPerPlan, TypeOK
  <2>a. CASE UNCHANGED <<accepted, started, pending>>
    BY ONLY <2>0, <2>a
  <2>1. ASSUME NEW c \in Callers, NEW s \in Signals, Enqueue(c, s)
        PROVE  accepted'[p] = started'[p] \o pending'[p]
    <3>1. CASE p = PlanOf[s]
      <4>1. /\ accepted'[p] = Append(accepted[p], s) /\ pending'[p] = Append(pending[p], s)
            /\ started' = started
        BY <2>1, <3>1 DEF Enqueue, TypeOK
      <4>2. started[p] \o Append(pending[p], s) = Append(started[p] \o pending[p], s)
        <5>1. s \in Signals /\ started[p] \in Seq(Signals) /\ pending[p] \in Seq(Signals)
          BY <2>0
        <5>2. ASSUME NEW q \in Seq(Signals), NEW r \in Seq(Signals), NEW e \in Signals
              PROVE  q \o Append(r, e) = Append(q \o r, e)
          BY ONLY AppendToConcat
        <5> QED BY ONLY <5>1, <5>2
      <4> QED BY <4>1, <4>2, <2>0, Zenon
    <3>2. CASE p # PlanOf[s]
      <4>1. accepted'[p] = accepted[p] /\ pending'[p] = pending[p] /\ started' = started
        BY <2>1, <3>2 DEF Enqueue, TypeOK
      <4> QED BY ONLY <4>1, <2>0
    <3> QED BY <3>1, <3>2
  <2>2. ASSUME NEW w \in Workers, Pop(w)
        PROVE  accepted'[p] = started'[p] \o pending'[p]
    <3>1. CASE p = workerPlan[w]
      <4>1. /\ pending[p] # <<>> /\ accepted' = accepted
            /\ started'[p] = Append(started[p], Head(pending[p]))
            /\ pending'[p] = Tail(pending[p])
        BY <2>2, <3>1 DEF Pop, Rest, TypeOK
      <4> QED BY ONLY <4>1, <2>0, MoveHead
    <3>2. CASE p # workerPlan[w]
      <4>1. accepted' = accepted /\ started'[p] = started[p] /\ pending'[p] = pending[p]
        BY <2>2, <3>2 DEF Pop, TypeOK
      <4> QED BY ONLY <4>1, <2>0
    <3> QED BY <3>1, <3>2
  <2> QED
    BY <2>1, <2>2, <2>a
    DEF Next, CallerStep, WorkerStep, Send, SendPanics, Receive, JobEnds, Drained,
        WorkerExits, ShutdownBegins, CloseChannel, ShutdownReturns, vars
<1> QED BY <1>1, <1>2, TypeCorrect, PTL DEF Spec

-----------------------------------------------------------------------------
(* Plan p is represented, or its announcement met the closed channel.      *)
Represented(p) ==
  p \in lost \/ Announcing(p) # {} \/ InChannel(p) # {} \/ Draining(p) # {}

(* A queued plan is always represented: the release in work and the push   *)
(* flag of Enqueue never leave a plan marked queued with nobody to run it. *)
THEOREM NoStrandedTheorem == Spec => []NoStrandedWork
<1>1. Init => NoStrandedWork
  BY DEF Init, NoStrandedWork
<1>2. TypeOK /\ NoStrandedWork /\ [Next]_vars => NoStrandedWork'
  <2> SUFFICES ASSUME TypeOK, NoStrandedWork, [Next]_vars, NEW p \in Plans, queued'[p]
               PROVE  Represented(p)'
    BY DEF NoStrandedWork, Represented
  <2>0. queued[p] => Represented(p)
    BY DEF NoStrandedWork, Represented
  <2>a. CASE UNCHANGED <<queued, lost, sending, ch, workerPlan>>
    BY ONLY <2>0, <2>a, queued'[p] DEF Represented, Announcing, InChannel, Draining
  <2>1. ASSUME NEW c \in Callers, NEW s \in Signals, Enqueue(c, s) PROVE Represented(p)'
    <3>1. UNCHANGED <<lost, ch, workerPlan>> /\ sending[c] = NoPlan
      BY <2>1 DEF Enqueue
    <3>2. CASE p = PlanOf[s] /\ ~queued[p]
      <4>1. c \in Announcing(p)'
        BY <2>1, <3>2 DEF Enqueue, Push, Announcing, TypeOK
      <4> QED BY ONLY <4>1 DEF Represented
    <3>3. CASE ~(p = PlanOf[s] /\ ~queued[p])
      <4>1. queued[p]
        BY <2>1, <3>3 DEF Enqueue, TypeOK
      <4>2. Announcing(p) \subseteq Announcing(p)'
        BY <2>1, <3>1 DEF Enqueue, Announcing, TypeOK
      <4>3. InChannel(p)' = InChannel(p) /\ Draining(p)' = Draining(p)
        BY ONLY <3>1 DEF InChannel, Draining
      <4> QED BY ONLY <4>1, <4>2, <4>3, <3>1, <2>0 DEF Represented
    <3> QED BY <3>2, <3>3
  <2>2. ASSUME NEW c \in Callers, Send(c) PROVE Represented(p)'
    <3>1. UNCHANGED <<lost, workerPlan, queued>>
      BY <2>2 DEF Send
    <3>2. /\ ch \in Seq(Plans) /\ ch' = Append(ch, sending[c]) /\ sending[c] \in Plans
      BY <2>2 DEF Send, HasToSend, TypeOK
    <3>3. /\ Len(ch') = Len(ch) + 1 /\ ch' \in Seq(Plans) /\ ch'[Len(ch) + 1] = sending[c]
          /\ Len(ch) \in Nat /\ \A i \in 1..Len(ch) : ch'[i] = ch[i]
      BY ONLY <3>2, AppendProperties
    <3>4. CASE sending[c] = p
      <4>1. Len(ch) + 1 \in InChannel(p)'
        BY ONLY <3>3, <3>4 DEF InChannel
      <4> QED BY ONLY <4>1 DEF Represented
    <3>5. CASE sending[c] # p
      <4>1. Announcing(p) \subseteq Announcing(p)'
        BY <2>2, <3>5 DEF Send, Announcing, TypeOK
      <4>2. InChannel(p) \subseteq InChannel(p)'
        BY ONLY <3>2, <3>3 DEF InChannel
      <4> QED BY ONLY <4>1, <4>2, <3>1, <2>0, queued'[p] DEF Represented, Draining
    <3> QED BY <3>4, <3>5
  <2>3. ASSUME NEW c \in Callers, SendPanics(c) PROVE Represented(p)'
    <3>1. CASE sending[c] = p
      BY <2>3, <3>1 DEF SendPanics, Represented
    <3>2. CASE sending[c] # p
      <4>1. Announcing(p) \subseteq Announcing(p)'
        BY <2>3, <3>2 DEF SendPanics, Announcing, TypeOK
      <4>2. UNCHANGED <<queued, ch, workerPlan>> /\ lost \subseteq lost'
        BY <2>3 DEF SendPanics
      <4> QED BY ONLY <4>1, <4>2, <2>0, queued'[p] DEF Represented, InChannel, Draining
    <3> QED BY <3>1, <3>2
  <2>4. ASSUME NEW w \in Workers, Receive(w) PROVE Represented(p)'
    <3>1. /\ ch # <<>> /\ ch \in Seq(Plans) /\ ch' = Tail(ch) /\ workerPlan[w] = NoPlan
          /\ workerPlan' = [workerPlan EXCEPT ![w] = Head(ch)]
          /\ UNCHANGED <<queued, lost, sending>>
      BY <2>4 DEF Receive, TypeOK
    <3>2. /\ Head(ch) = ch[1] /\ Tail(ch) \in Seq(Plans)
          /\ Len(ch) \in Nat \ {0} /\ Len(Tail(ch)) = Len(ch) - 1
          /\ \A i \in 1..(Len(ch) - 1) : Tail(ch)[i] = ch[i + 1]
      BY ONLY <3>1, HeadTailFacts
    <3>3. CASE ch[1] = p
      <4>1. w \in Draining(p)'
        BY <3>1, <3>2, <3>3 DEF Draining, TypeOK
      <4> QED BY ONLY <4>1 DEF Represented
    <3>4. CASE ch[1] # p
      <4>1. Draining(p) \subseteq Draining(p)'
        BY <3>1 DEF Draining, TypeOK
      <4>2. InChannel(p) # {} => InChannel(p)' # {}
        <5> SUFFICES ASSUME NEW i \in InChannel(p) PROVE i - 1 \in InChannel(p)'
          OBVIOUS
        <5>1. i \in 1..Len(ch) /\ ch[i] = p
          BY ONLY <3>1 DEF InChannel
        <5>2. i - 1 \in 1..(Len(ch) - 1) /\ (i - 1) + 1 = i
          BY ONLY <5>1, <3>2, <3>4
        <5>3. ch'[i - 1] = p /\ i - 1 \in DOMAIN ch'
          BY ONLY <5>1, <5>2, <3>1, <3>2
        <5> QED BY ONLY <5>3 DEF InChannel
      <4> QED BY ONLY <4>1, <4>2, <3>1, <2>0, queued'[p] DEF Represented, Announcing
    <3> QED BY <3>3, <3>4
  <2>5. ASSUME NEW w \in Workers, Drained(w) PROVE Represented(p)'
    <3>1. workerPlan[w] # p /\ queued[p]
      BY <2>5 DEF Drained, StillQueued, TypeOK
    <3>2. Draining(p) \subseteq Draining(p)'
      BY <2>5, <3>1 DEF Drained, Draining, TypeOK
    <3>3. UNCHANGED <<lost, sending, ch>>
      BY <2>5 DEF Drained
    <3> QED BY ONLY <3>1, <3>2, <3>3, <2>0 DEF Represented, Announcing, InChannel
  <2> QED
    BY <2>1, <2>2, <2>3, <2>4, <2>5, <2>a
    DEF Next, CallerStep, WorkerStep, Pop, JobEnds, WorkerExits, ShutdownBegins,
        CloseChannel, ShutdownReturns, vars
<1> QED BY <1>1, <1>2, TypeCorrect, PTL DEF Spec

-----------------------------------------------------------------------------
(* What a worker that left its range loop, and a Shutdown that returned    *)
(* nil, tell about the channel.                                            *)
ExitInv ==
  /\ shutdown = "done" => exited = Workers
  /\ exited # {} => chClosed /\ ch = <<>>
  /\ \A w \in exited : workerPlan[w] = NoPlan

\* A worker that left has an empty, closed channel behind it (MemoryQueue.Shutdown).
LEMMA ExitTheorem == Spec => []ExitInv
<1>1. Init => ExitInv
  BY DEF Init, ExitInv
<1>2. TypeOK /\ ExitInv /\ [Next]_vars => ExitInv'
  <2> SUFFICES ASSUME TypeOK, ExitInv, [Next]_vars PROVE ExitInv'
    OBVIOUS
  <2>a. CASE UNCHANGED <<shutdown, exited, chClosed, ch, workerPlan>>
    BY ONLY <2>a, ExitInv DEF ExitInv
  <2>1. ASSUME NEW c \in Callers, Send(c) PROVE ExitInv'
    <3>1. /\ ~chClosed
          /\ UNCHANGED <<shutdown, exited, chClosed, workerPlan>>
      BY <2>1 DEF Send
    <3> QED BY ONLY <3>1, ExitInv DEF ExitInv
  <2>2. ASSUME NEW w \in Workers, Receive(w) PROVE ExitInv'
    <3>1. ch # <<>> /\ UNCHANGED <<shutdown, exited, chClosed>>
      BY <2>2 DEF Receive
    <3>2. exited = {}
      BY ONLY <3>1, ExitInv DEF ExitInv
    <3> QED BY ONLY <3>1, <3>2, ExitInv DEF ExitInv
  <2>3. ASSUME NEW w \in Workers, Drained(w) PROVE ExitInv'
    <3>1. UNCHANGED <<shutdown, exited, chClosed, ch>>
      BY <2>3 DEF Drained
    <3>2. \A v \in exited : workerPlan'[v] = NoPlan
      BY <2>3 DEF Drained, ExitInv, TypeOK
    <3> QED BY ONLY <3>1, <3>2, ExitInv DEF ExitInv
  <2>4. ASSUME NEW w \in Workers, WorkerExits(w) PROVE ExitInv'
    <3>1. /\ chClosed /\ ch = <<>> /\ workerPlan[w] = NoPlan
          /\ exited' = exited \cup {w} /\ UNCHANGED <<shutdown, chClosed, ch, workerPlan>>
      BY <2>4 DEF WorkerExits, RangeEnds
    <3>2. shutdown = "done" => exited' = Workers
      BY <3>1 DEF ExitInv
    <3> QED BY ONLY <3>1, <3>2, ExitInv DEF ExitInv
  <2>5. CASE ShutdownBegins
    BY <2>5 DEF ShutdownBegins, ExitInv
  <2>6. CASE CloseChannel
    BY <2>6 DEF CloseChannel, ExitInv
  <2>7. CASE ShutdownReturns
    BY <2>7 DEF ShutdownReturns, ExitInv
  <2> QED
    BY <2>1, <2>2, <2>3, <2>4, <2>5, <2>6, <2>7, <2>a
    DEF Next, CallerStep, WorkerStep, Enqueue, SendPanics, Pop, JobEnds, vars
<1> QED BY <1>1, <1>2, TypeCorrect, PTL DEF Spec

(* Shutdown drains: when it returns nil no worker drains a plan, and every *)
(* accepted job of a plan was handed to the handler unless the plan's      *)
(* announcement was still on its way when the channel was closed.  A plan  *)
(* without a representative is not queued (NoStrandedTheorem), a plan not  *)
(* queued has an empty FIFO (TokenTheorem), and then the accepted jobs are *)
(* the started ones (FIFOTheorem).                                         *)
THEOREM DrainTheorem == Spec => []ShutdownDrains
<1>1. TypeOK /\ OneTokenPerPlan /\ FIFOPerPlan /\ NoStrandedWork /\ ExitInv => ShutdownDrains
  <2> SUFFICES ASSUME TypeOK, OneTokenPerPlan, FIFOPerPlan, NoStrandedWork, ExitInv,
                      shutdown = "done", NEW p \in Plans
               PROVE  /\ Draining(p) = {}
                      /\ p \notin lost /\ Announcing(p) = {} => started[p] = accepted[p]
    BY DEF ShutdownDrains
  <2>1. exited = Workers /\ ch = <<>>
    BY DEF ExitInv
  <2>2. Draining(p) = {}
    BY <2>1 DEF ExitInv, Draining
  <2>3. InChannel(p) = {}
    BY ONLY <2>1 DEF InChannel
  <2>4. ASSUME p \notin lost, Announcing(p) = {} PROVE started[p] = accepted[p]
    <3>1. ~queued[p]
      BY <2>2, <2>3, <2>4 DEF NoStrandedWork
    <3>2. pending[p] = <<>>
      BY <3>1 DEF OneTokenPerPlan, TokenOf
    <3>3. started[p] \in Seq(Signals) /\ accepted[p] = started[p] \o pending[p]
      BY DEF FIFOPerPlan, TypeOK
    <3> QED BY ONLY <3>2, <3>3, ConcatEmptySeq
  <2> QED BY <2>2, <2>4
<1> QED BY <1>1, TypeCorrect, TokenTheorem, FIFOTheorem, NoStrandedTheorem, ExitTheorem, PTL

-----------------------------------------------------------------------------
(* The idempotency memory is exact: seenFIFO is the last Len(seenFIFO)     *)
(* accepted signals, it is short of MaxSeen only while that is all of      *)
(* them, and seen is its set of elements.                                  *)
WindowInv ==
  LET n == Len(order)
      m == Len(seenFIFO)
  IN /\ m <= n /\ m <= MaxSeen
     /\ m < MaxSeen => m = n
     /\ \A i \in 1..m : seenFIFO[i] = order[(n - m) + i]
     /\ \A i \in 1..m : seenFIFO[i] \in seen
     /\ \A x \in seen : \E i \in 1..m : seenFIFO[i] = x

(* The idempotency memory is exact, and with it a signal is accepted again *)
(* only after MaxSeen others: markSeen evicts in the order Enqueue         *)
(* accepted.                                                               *)
LEMMA WindowTheorem == Spec => [](WindowInv /\ DedupWindow)
<1>1. Init => WindowInv /\ DedupWindow
  BY DEF Init, WindowInv, DedupWindow
<1>2. TypeOK /\ WindowInv /\ DedupWindow /\ [Next]_vars => WindowInv' /\ DedupWindow'
  <2> SUFFICES ASSUME TypeOK, WindowInv, DedupWindow, [Next]_vars
               PROVE  WindowInv' /\ DedupWindow'
    OBVIOUS
  <2>a. CASE UNCHANGED <<order, seen, seenFIFO>>
    BY ONLY <2>a, WindowInv, DedupWindow DEF WindowInv, DedupWindow
  <2>1. ASSUME NEW c \in Callers, NEW s \in Signals, Enqueue(c, s)
        PROVE  WindowInv' /\ DedupWindow'
    <3> DEFINE n == Len(order)
               m == Len(seenFIFO)
               fifo == Append(seenFIFO, s)
    <3>1. order \in Seq(Signals) /\ seenFIFO \in Seq(Signals) /\ n \in Nat /\ m \in Nat
      BY DEF TypeOK
    <3>2. s \notin seen /\ order' = Append(order, s) /\ markSeen(s)
      BY <2>1 DEF Enqueue, Unseen
    <3>3. /\ order' \in Seq(Signals) /\ Len(order') = n + 1 /\ order'[n + 1] = s
          /\ \A i \in 1..n : order'[i] = order[i]
      BY ONLY <3>1, <3>2, s \in Signals, AppendProperties
    <3>4. /\ fifo \in Seq(Signals) /\ Len(fifo) = m + 1 /\ fifo[m + 1] = s /\ fifo # <<>>
          /\ \A i \in 1..m : fifo[i] = seenFIFO[i]
      BY ONLY <3>1, s \in Signals, AppendProperties
    <3>5. /\ m <= n /\ m <= MaxSeen /\ (m < MaxSeen => m = n)
          /\ \A i \in 1..m : seenFIFO[i] = order[(n - m) + i]
          /\ \A i \in 1..m : seenFIFO[i] \in seen
          /\ \A x \in seen : \E i \in 1..m : seenFIFO[i] = x
          /\ MaxSeen \in Nat \ {0}
      BY DEF WindowInv
    <3>6. \A i, j \in 1..n : i < j /\ order[i] = order[j] => j - i > MaxSeen
      BY <3>1 DEF DedupWindow
    <3> HIDE DEF n, m, fifo
    <3>7. DedupWindow'
      <4>1. ASSUME NEW i \in 1..n, order[i] = s PROVE (n + 1) - i > MaxSeen
        <5> SUFFICES ASSUME (n + 1) - i <= MaxSeen PROVE FALSE
          BY <3>1, <3>5
        <5>1. i - (n - m) \in 1..m /\ (n - m) + (i - (n - m)) = i
          BY ONLY <3>1, <3>5, i \in 1..n, (n + 1) - i <= MaxSeen
        <5>2. order[i] \in seen
          BY ONLY <5>1, <3>5
        <5> QED BY <5>2, <4>1, <3>2
      <4>2. ASSUME NEW i \in 1..(n + 1), NEW j \in 1..(n + 1), i < j, order'[i] = order'[j]
            PROVE  j - i > MaxSeen
        <5>1. i \in 1..n
          BY ONLY <3>1, <4>2, i \in 1..(n + 1), j \in 1..(n + 1)
        <5>2. CASE j = n + 1
          <6>1. order[i] = s
            BY ONLY <5>1, <5>2, <4>2, <3>3
          <6> QED BY ONLY <6>1, <5>1, <5>2, <4>1
        <5>3. CASE j # n + 1
          <6>1. j \in 1..n
            BY ONLY <3>1, <5>3, j \in 1..(n + 1)
          <6> QED BY ONLY <6>1, <5>1, <4>2, <3>3, <3>6
        <5> QED BY <5>2, <5>3
      <4>3. DOMAIN order' = 1..(n + 1)
        BY ONLY <3>1, <3>3
      <4> QED BY ONLY <4>2, <4>3 DEF DedupWindow
    <3>8. CASE m + 1 <= MaxSeen
      <4>1. seenFIFO' = fifo /\ seen' = seen \cup {s}
        BY <3>2, <3>4, <3>8, <3>1 DEF markSeen, fifo
      <4>2. Len(seenFIFO') = m + 1 /\ Len(order') = n + 1 /\ m = n
        BY ONLY <4>1, <3>1, <3>3, <3>4, <3>5, <3>8
      <4>3. \A i \in 1..(m + 1) : seenFIFO'[i] = order'[((n + 1) - (m + 1)) + i]
        BY ONLY <4>1, <4>2, <3>1, <3>3, <3>4, <3>5
      <4>4. \A i \in 1..(m + 1) : seenFIFO'[i] \in seen'
        BY ONLY <4>1, <3>1, <3>4, <3>5
      <4>5. \A x \in seen' : \E i \in 1..(m + 1) : seenFIFO'[i] = x
        <5>1. m + 1 \in 1..(m + 1) /\ \A i \in 1..m : i \in 1..(m + 1)
          BY ONLY <3>1
        <5> QED BY ONLY <5>1, <4>1, <3>4, <3>5
      <4> QED BY ONLY <3>1, <3>5, <3>7, <3>8, <4>2, <4>3, <4>4, <4>5 DEF WindowInv
    <3>9. CASE m + 1 > MaxSeen
      <4>0. m = MaxSeen
        BY ONLY <3>9, <3>1, <3>5
      <4>1. seenFIFO' = Tail(fifo) /\ seen' = (seen \cup {s}) \ {Head(fifo)}
        BY <3>2, <3>4, <3>9 DEF markSeen, fifo
      <4>2. /\ Head(fifo) = fifo[1] /\ Len(seenFIFO') = m
            /\ \A i \in 1..m : seenFIFO'[i] = fifo[i + 1]
        <5>1. /\ Head(fifo) = fifo[1] /\ Len(Tail(fifo)) = Len(fifo) - 1
              /\ \A i \in 1..(Len(fifo) - 1) : Tail(fifo)[i] = fifo[i + 1]
          BY ONLY <3>4, HeadTailFacts
        <5>2. Len(fifo) - 1 = m
          BY ONLY <3>1, <3>4
        <5> QED BY ONLY <5>1, <5>2, <4>1
      <4>3. \A i \in 1..m : seenFIFO'[i] = order'[((n + 1) - m) + i]
        <5> SUFFICES ASSUME NEW i \in 1..m PROVE seenFIFO'[i] = order'[((n + 1) - m) + i]
          OBVIOUS
        <5>1. CASE i = m
          <6>1. ((n + 1) - m) + i = n + 1
            BY ONLY <5>1, <3>1
          <6> QED BY ONLY <5>1, <6>1, <4>2, <3>3, <3>4, i \in 1..m
        <5>2. CASE i # m
          <6>1. /\ i + 1 \in 1..m /\ (n - m) + (i + 1) \in 1..n
                /\ ((n + 1) - m) + i = (n - m) + (i + 1)
            BY ONLY <5>2, <3>1, <3>5, i \in 1..m
          <6>2. seenFIFO'[i] = seenFIFO[i + 1]
            BY ONLY <6>1, <4>2, <3>4, i \in 1..m
          <6>3. order'[((n + 1) - m) + i] = order[(n - m) + (i + 1)]
            BY ONLY <6>1, <3>3
          <6>4. seenFIFO[i + 1] = order[(n - m) + (i + 1)]
            BY ONLY <6>1, <3>5
          <6> QED BY ONLY <6>2, <6>3, <6>4
        <5> QED BY <5>1, <5>2
      <4>4. \A i \in 1..m : i > 1 => seenFIFO[i] # seenFIFO[1]
        <5> SUFFICES ASSUME NEW i \in 1..m, i > 1, seenFIFO[i] = seenFIFO[1] PROVE FALSE
          OBVIOUS
        <5>1. /\ (n - m) + 1 \in 1..n /\ (n - m) + i \in 1..n /\ 1 \in 1..m
              /\ (n - m) + 1 < (n - m) + i
              /\ ~(((n - m) + i) - ((n - m) + 1) > MaxSeen)
          BY ONLY <3>1, <3>5, i \in 1..m, i > 1
        <5>2. order[(n - m) + 1] = order[(n - m) + i]
          BY ONLY <5>1, <3>5, i \in 1..m, seenFIFO[i] = seenFIFO[1]
        <5> QED BY ONLY <5>1, <5>2, <3>6
      <4>5. fifo[1] = seenFIFO[1] /\ 1 \in 1..m /\ seenFIFO[1] # s
        <5>1. 1 \in 1..m
          BY ONLY <4>0, <3>1, <3>5
        <5> QED BY ONLY <5>1, <3>2, <3>4, <3>5
      <4>6. \A i \in 1..m : seenFIFO'[i] \in seen'
        <5> SUFFICES ASSUME NEW i \in 1..m PROVE seenFIFO'[i] \in seen'
          OBVIOUS
        <5>1. CASE i = m
          <6>1. seenFIFO'[i] = s
            BY ONLY <5>1, <4>2, <3>4, i \in 1..m
          <6> QED BY <6>1, <4>1, <4>2, <4>5
        <5>2. CASE i # m
          <6>1. i + 1 \in 1..m /\ i + 1 > 1
            BY ONLY <5>2, <3>1, i \in 1..m
          <6>2. seenFIFO'[i] = seenFIFO[i + 1]
            BY ONLY <6>1, <4>2, <3>4, i \in 1..m
          <6>3. seenFIFO[i + 1] \in seen /\ seenFIFO[i + 1] # seenFIFO[1]
            BY ONLY <6>1, <4>4, <3>5
          <6> QED BY <6>2, <6>3, <4>1, <4>2, <4>5
        <5> QED BY <5>1, <5>2
      <4>7. \A x \in seen' : \E i \in 1..m : seenFIFO'[i] = x
        <5> SUFFICES ASSUME NEW x \in seen' PROVE \E i \in 1..m : seenFIFO'[i] = x
          OBVIOUS
        <5>1. CASE x = s
          <6>1. m \in 1..m /\ seenFIFO'[m] = s
            BY ONLY <4>2, <4>5, <3>1, <3>4
          <6> QED BY <6>1, <5>1
        <5>2. CASE x # s
          <6>1. PICK i \in 1..m : seenFIFO[i] = x
            BY <5>2, <4>1, <3>5
          <6>2. i # 1
            BY ONLY <6>1, <4>1, <4>2, <4>5, x \in seen'
          <6>3. i - 1 \in 1..m /\ (i - 1) + 1 = i
            BY ONLY <6>2, <3>1, i \in 1..m
          <6>4. seenFIFO'[i - 1] = x
            BY ONLY <6>1, <6>3, <4>2, <3>4, i \in 1..m
          <6> QED BY <6>3, <6>4
        <5> QED BY <5>1, <5>2
      <4> QED BY ONLY <3>1, <3>3, <3>5, <3>7, <4>0, <4>2, <4>3, <4>6, <4>7 DEF WindowInv
    <3> QED BY ONLY <3>1, <3>5, <3>8, <3>9
  <2> QED
    BY <2>1, <2>a
    DEF Next, CallerStep, WorkerStep, Send, SendPanics, Receive, Pop, JobEnds, Drained,
        WorkerExits, ShutdownBegins, CloseChannel, ShutdownReturns, vars
<1> QED BY <1>1, <1>2, TypeCorrect, PTL DEF Spec

(* The same signal is accepted again only after MaxSeen others.            *)
THEOREM DedupTheorem == Spec => []DedupWindow
BY WindowTheorem, PTL

-----------------------------------------------------------------------------
(* The queue implements SerialQueue: what a plan runs is the job of the    *)
(* one worker that drains it.                                              *)
Running == [p \in Plans |-> RunningFor(p)]

(* A worker that drains no plan runs no job.                               *)
IdleInv == \A w \in Workers : workerPlan[w] = NoPlan => workerJob[w] = NoSignal

(* A worker takes a plan before it pops a job, and leaves it after the job *)
(* has ended (work).                                                       *)
LEMMA IdleTheorem == Spec => []IdleInv
<1>1. Init => IdleInv
  BY DEF Init, IdleInv
<1>2. TypeOK /\ IdleInv /\ [Next]_vars => IdleInv'
  <2> SUFFICES ASSUME TypeOK, IdleInv, [Next]_vars PROVE IdleInv'
    OBVIOUS
  <2>1. ASSUME UNCHANGED <<workerPlan, workerJob>> PROVE IdleInv'
    BY <2>1 DEF IdleInv
  <2>2. ASSUME NEW w \in Workers, Receive(w) PROVE IdleInv'
    BY <2>2 DEF Receive, IdleInv, TypeOK
  <2>3. ASSUME NEW w \in Workers, Pop(w) PROVE IdleInv'
    BY <2>3 DEF Pop, IdleInv, TypeOK
  <2>4. ASSUME NEW w \in Workers, JobEnds(w) PROVE IdleInv'
    BY <2>4 DEF JobEnds, IdleInv, TypeOK
  <2>5. ASSUME NEW w \in Workers, Drained(w) PROVE IdleInv'
    BY <2>5 DEF Drained, IdleInv, TypeOK
  <2> QED
    BY <2>1, <2>2, <2>3, <2>4, <2>5
    DEF Next, CallerStep, WorkerStep, Enqueue, Send, SendPanics, WorkerExits, ShutdownBegins,
        CloseChannel, ShutdownReturns, vars
<1> QED BY <1>1, <1>2, TypeCorrect, PTL DEF Spec

(* What the abstract queue sees running for a plan: the job of the worker  *)
(* that drains it, before a step and after it.                             *)
LEMMA RunningIs ==
  ASSUME OneWorkerPerPlan, OneWorkerPerPlan', NEW p \in Plans
  PROVE  /\ \A w \in Workers : workerPlan[w] = p => Running[p] = workerJob[w]
         /\ (\A w \in Workers : workerPlan[w] # p) => Running[p] = NoSignal
         /\ \A w \in Workers : workerPlan'[w] = p => Running'[p] = workerJob'[w]
         /\ (\A w \in Workers : workerPlan'[w] # p) => Running'[p] = NoSignal
<1>1. ASSUME NEW w \in Workers, workerPlan[w] = p PROVE RunningFor(p) = workerJob[w]
  <2>1. (CHOOSE v \in Workers : workerPlan[v] = p) = w
    BY <1>1 DEF OneWorkerPerPlan
  <2> QED BY <1>1, <2>1 DEF RunningFor
<1>2. (\A w \in Workers : workerPlan[w] # p) => RunningFor(p) = NoSignal
  BY DEF RunningFor
<1>3. ASSUME NEW w \in Workers, workerPlan'[w] = p PROVE RunningFor(p)' = workerJob'[w]
  <2>1. (CHOOSE v \in Workers : workerPlan'[v] = p) = w
    BY <1>3 DEF OneWorkerPerPlan
  <2> QED BY <1>3, <2>1 DEF RunningFor
<1>4. (\A w \in Workers : workerPlan'[w] # p) => RunningFor(p)' = NoSignal
  BY DEF RunningFor
<1>5. Running[p] = RunningFor(p) /\ Running'[p] = RunningFor(p)'
  BY DEF Running
<1> QED BY <1>1, <1>2, <1>3, <1>4, <1>5

(* Two assignments of running jobs to the plans are the same if they agree *)
(* on every plan.                                                          *)
LEMMA SameRunning ==
  ASSUME \A p \in Plans : Running'[p] = Running[p]
  PROVE  Running' = Running
<1>1. Running' = [p \in Plans |-> Running'[p]] /\ Running = [p \in Plans |-> Running[p]]
  BY DEF Running
<1> QED BY <1>1

(* The same for a step that changes what one plan runs.                    *)
LEMMA OneRuns ==
  ASSUME NEW p \in Plans, NEW s, Running'[p] = s, \A x \in Plans : x # p => Running'[x] = Running[x]
  PROVE  Running' = [Running EXCEPT ![p] = s]
<1>1. Running' = [x \in Plans |-> Running'[x]] /\ Running = [x \in Plans |-> Running[x]]
  BY DEF Running
<1> HIDE DEF Running
<1> QED BY <1>1

(* At its cap the idempotency memory slides: appending and dropping the    *)
(* oldest entry may be done in either order (markSeen).                    *)
LEMMA Slides ==
  ASSUME NEW S, NEW q \in Seq(S), NEW e \in S, q # <<>>
  PROVE  Tail(Append(q, e)) = Append(Tail(q), e)
<1> DEFINE L == Tail(Append(q, e))
           R == Append(Tail(q), e)
<1>1. /\ Tail(q) \in Seq(S) /\ Len(q) \in Nat \ {0} /\ Len(Tail(q)) = Len(q) - 1
      /\ \A i \in 1..(Len(q) - 1) : Tail(q)[i] = q[i + 1]
  BY HeadTailFacts
<1>2. /\ Append(q, e) \in Seq(S) /\ Len(Append(q, e)) = Len(q) + 1 /\ Append(q, e)[Len(q) + 1] = e
      /\ \A i \in 1..Len(q) : Append(q, e)[i] = q[i]
  BY AppendProperties
<1>3. Append(q, e) # <<>>
  BY <1>1, <1>2
<1>4. /\ L \in Seq(S) /\ Len(L) = Len(q)
      /\ \A i \in 1..Len(q) : L[i] = Append(q, e)[i + 1]
  <2>1. /\ L \in Seq(S) /\ Len(L) = Len(Append(q, e)) - 1
        /\ \A i \in 1..(Len(Append(q, e)) - 1) : L[i] = Append(q, e)[i + 1]
    BY ONLY <1>2, <1>3, HeadTailFacts
  <2>2. Len(Append(q, e)) - 1 = Len(q)
    BY ONLY <1>1, <1>2
  <2> QED BY ONLY <2>1, <2>2
<1>5. /\ R \in Seq(S) /\ Len(R) = Len(q) /\ R[Len(q)] = e
      /\ \A i \in 1..(Len(q) - 1) : R[i] = Tail(q)[i]
  BY <1>1, AppendProperties
<1>0. Len(q) \in Nat \ {0} /\ Len(L) = Len(q)
  BY <1>1, <1>4
<1> HIDE DEF L, R
<1>6. ASSUME NEW i \in 1..Len(L) PROVE L[i] = R[i]
  <2>1. CASE i = Len(q)
    BY <2>1, <1>0, <1>2, <1>4, <1>5
  <2>2. CASE i # Len(q)
    <3>1. i \in 1..(Len(q) - 1) /\ i + 1 \in 1..Len(q)
      BY ONLY <2>2, <1>0, i \in 1..Len(L)
    <3> QED BY <3>1, <1>1, <1>2, <1>4, <1>5
  <2> QED BY <2>1, <2>2
<1> QED BY <1>4, <1>5, <1>6, SeqEqual

(* Every step of the queue is a step of SerialQueue or changes nothing it  *)
(* sees: Enqueue accepts, Pop begins, JobEnds ends, Shutdown closes; the   *)
(* channel and its workers are invisible.                                  *)
LEMMA QueueSteps ==
  ASSUME TypeOK, OneTokenPerPlan, WindowInv, IdleInv, OneWorkerPerPlan, OneWorkerPerPlan', [Next]_vars
  PROVE  \/ \E s \in Signals :
              /\ ~closed
              /\ ~(\E i \in DOMAIN seenFIFO : seenFIFO[i] = s)
              /\ pending' = [pending EXCEPT ![PlanOf[s]] = Append(@, s)]
              /\ seenFIFO' = IF Len(seenFIFO) < MaxSeen THEN Append(seenFIFO, s)
                             ELSE Append(Tail(seenFIFO), s)
              /\ Running' = Running /\ closed' = closed
         \/ \E p \in Plans :
              /\ Running[p] = NoSignal /\ pending[p] # <<>>
              /\ Running' = [Running EXCEPT ![p] = Head(pending[p])]
              /\ pending' = [pending EXCEPT ![p] = Tail(@)]
              /\ UNCHANGED <<seenFIFO, closed>>
         \/ \E p \in Plans :
              /\ Running[p] # NoSignal
              /\ Running' = [Running EXCEPT ![p] = NoSignal]
              /\ UNCHANGED <<pending, seenFIFO, closed>>
         \/ ~closed /\ closed' = TRUE /\ UNCHANGED <<pending, Running, seenFIFO>>
         \/ UNCHANGED <<pending, Running, seenFIFO, closed>>
<1>0. UNCHANGED <<workerPlan, workerJob>> => Running' = Running
  BY DEF Running, RunningFor
<1>1. ASSUME NEW c \in Callers, NEW s \in Signals, Enqueue(c, s)
      PROVE  /\ ~closed
             /\ ~(\E i \in DOMAIN seenFIFO : seenFIFO[i] = s)
             /\ pending' = [pending EXCEPT ![PlanOf[s]] = Append(@, s)]
             /\ seenFIFO' = IF Len(seenFIFO) < MaxSeen THEN Append(seenFIFO, s)
                            ELSE Append(Tail(seenFIFO), s)
             /\ Running' = Running /\ closed' = closed
  <2>1. /\ ~closed /\ closed' = closed /\ s \notin seen /\ markSeen(s)
        /\ pending' = [pending EXCEPT ![PlanOf[s]] = Append(@, s)]
        /\ Running' = Running
    BY <1>0, <1>1 DEF Enqueue, Unseen
  <2>2. /\ seenFIFO \in Seq(Signals) /\ Len(seenFIFO) \in Nat /\ Len(seenFIFO) <= MaxSeen
        /\ \A i \in DOMAIN seenFIFO : seenFIFO[i] \in seen
    <3>1. seenFIFO \in Seq(Signals)
      BY DEF TypeOK
    <3>2. Len(seenFIFO) \in Nat /\ DOMAIN seenFIFO = 1..Len(seenFIFO)
      BY ONLY <3>1
    <3>3. Len(seenFIFO) <= MaxSeen /\ \A i \in 1..Len(seenFIFO) : seenFIFO[i] \in seen
      BY ONLY WindowInv DEF WindowInv
    <3> QED BY ONLY <3>1, <3>2, <3>3
  <2>3. Len(Append(seenFIFO, s)) = Len(seenFIFO) + 1
    BY <2>2, AppendProperties
  <2>4. CASE Len(seenFIFO) < MaxSeen
    <3>1. seenFIFO' = Append(seenFIFO, s)
      BY <2>1, <2>2, <2>3, <2>4 DEF markSeen
    <3> QED BY <2>1, <2>2, <2>4, <3>1
  <2>5. CASE ~(Len(seenFIFO) < MaxSeen)
    <3>1. seenFIFO' = Tail(Append(seenFIFO, s))
      BY <2>1, <2>2, <2>3, <2>5 DEF markSeen
    <3>2. seenFIFO # <<>>
      BY <2>2, <2>5
    <3>3. seenFIFO' = Append(Tail(seenFIFO), s)
      BY <2>2, <3>1, <3>2, Slides
    <3> QED BY <2>1, <2>2, <2>5, <3>3
  <2> QED BY <2>4, <2>5
<1>2. ASSUME NEW w \in Workers, Receive(w)
      PROVE  UNCHANGED <<pending, Running, seenFIFO, closed>>
  <2>1. /\ ch \in Seq(Plans) /\ ch # <<>> /\ workerPlan[w] = NoPlan
        /\ workerPlan' = [workerPlan EXCEPT ![w] = Head(ch)]
        /\ UNCHANGED <<pending, seenFIFO, closed, workerJob>>
    BY <1>2 DEF Receive, TypeOK
  <2>2. Head(ch) = ch[1] /\ Head(ch) \in Plans /\ Len(ch) \in Nat \ {0}
    BY ONLY <2>1, HeadTailFacts
  <2>3. /\ \A v \in Workers : v # w => workerPlan'[v] = workerPlan[v]
        /\ workerPlan'[w] = Head(ch) /\ workerJob[w] = NoSignal
    BY <2>1 DEF TypeOK, IdleInv
  <2>4. \A v \in Workers : workerPlan[v] # Head(ch)
    <3>1. 1 \in InChannel(Head(ch))
      BY <2>1, <2>2 DEF InChannel
    <3> QED BY <2>2, <3>1 DEF OneTokenPerPlan, TokenOf, Draining
  <2>5. ASSUME NEW p \in Plans PROVE Running'[p] = Running[p]
    <3>1. CASE p = Head(ch)
      BY <2>1, <2>3, <2>4, <3>1, RunningIs
    <3>2. CASE p # Head(ch) /\ \E v \in Workers : workerPlan[v] = p
      <4>1. PICK v \in Workers : workerPlan[v] = p
        BY <3>2
      <4>2. workerPlan'[v] = p
        BY <2>1, <2>3, <4>1
      <4> QED BY <2>1, <4>1, <4>2, RunningIs
    <3>3. CASE p # Head(ch) /\ \A v \in Workers : workerPlan[v] # p
      <4>1. \A v \in Workers : workerPlan'[v] # p
        BY <2>3, <3>3
      <4> QED BY <3>3, <4>1, RunningIs
    <3> QED BY <3>1, <3>2, <3>3
  <2> QED BY <2>1, <2>5, SameRunning
<1>3. ASSUME NEW w \in Workers, Pop(w)
      PROVE  \E p \in Plans :
               /\ Running[p] = NoSignal /\ pending[p] # <<>>
               /\ Running' = [Running EXCEPT ![p] = Head(pending[p])]
               /\ pending' = [pending EXCEPT ![p] = Tail(@)]
               /\ UNCHANGED <<seenFIFO, closed>>
  <2>1. PICK p \in Plans : p = workerPlan[w]
    BY <1>3 DEF Pop, TypeOK
  <2>2. /\ workerJob[w] = NoSignal /\ pending[p] # <<>>
        /\ workerJob' = [workerJob EXCEPT ![w] = Head(pending[p])]
        /\ pending' = [pending EXCEPT ![p] = Tail(@)]
        /\ UNCHANGED <<seenFIFO, closed, workerPlan>>
    BY <1>3, <2>1 DEF Pop, Rest
  <2>3. Running[p] = NoSignal /\ Running'[p] = Head(pending[p])
    BY <2>1, <2>2, RunningIs DEF TypeOK
  <2>4. ASSUME NEW x \in Plans, x # p PROVE Running'[x] = Running[x]
    <3>1. CASE \E v \in Workers : workerPlan[v] = x
      <4>1. PICK v \in Workers : workerPlan[v] = x
        BY <3>1
      <4>2. workerPlan'[v] = x /\ workerJob'[v] = workerJob[v]
        BY <2>1, <2>2, <2>4, <4>1 DEF TypeOK
      <4> QED BY <4>1, <4>2, RunningIs
    <3>2. CASE \A v \in Workers : workerPlan[v] # x
      <4>1. \A v \in Workers : workerPlan'[v] # x
        BY <2>2, <3>2
      <4> QED BY <3>2, <4>1, RunningIs
    <3> QED BY <3>1, <3>2
  <2>5. Running' = [Running EXCEPT ![p] = Head(pending[p])]
    BY <2>3, <2>4, OneRuns
  <2> QED BY <2>2, <2>3, <2>5
<1>4. ASSUME NEW w \in Workers, JobEnds(w)
      PROVE  \E p \in Plans :
               /\ Running[p] # NoSignal
               /\ Running' = [Running EXCEPT ![p] = NoSignal]
               /\ UNCHANGED <<pending, seenFIFO, closed>>
  <2>1. PICK p \in Plans : p = workerPlan[w]
    BY <1>4 DEF JobEnds, IdleInv, TypeOK
  <2>2. /\ workerJob[w] # NoSignal
        /\ workerJob' = [workerJob EXCEPT ![w] = NoSignal]
        /\ UNCHANGED <<pending, seenFIFO, closed, workerPlan>>
    BY <1>4 DEF JobEnds
  <2>3. Running[p] # NoSignal /\ Running'[p] = NoSignal
    BY <2>1, <2>2, RunningIs DEF TypeOK
  <2>4. ASSUME NEW x \in Plans, x # p PROVE Running'[x] = Running[x]
    <3>1. CASE \E v \in Workers : workerPlan[v] = x
      <4>1. PICK v \in Workers : workerPlan[v] = x
        BY <3>1
      <4>2. workerPlan'[v] = x /\ workerJob'[v] = workerJob[v]
        BY <2>1, <2>2, <2>4, <4>1 DEF TypeOK
      <4> QED BY <4>1, <4>2, RunningIs
    <3>2. CASE \A v \in Workers : workerPlan[v] # x
      <4>1. \A v \in Workers : workerPlan'[v] # x
        BY <2>2, <3>2
      <4> QED BY <3>2, <4>1, RunningIs
    <3> QED BY <3>1, <3>2
  <2>5. Running' = [Running EXCEPT ![p] = NoSignal]
    BY <2>3, <2>4, OneRuns
  <2> QED BY <2>2, <2>3, <2>5
<1>5. ASSUME NEW w \in Workers, Drained(w)
      PROVE  UNCHANGED <<pending, Running, seenFIFO, closed>>
  <2>1. /\ workerPlan[w] # NoPlan /\ workerJob[w] = NoSignal
        /\ workerPlan' = [workerPlan EXCEPT ![w] = NoPlan]
        /\ UNCHANGED <<pending, seenFIFO, closed, workerJob>>
    BY <1>5 DEF Drained
  <2>2. /\ \A v \in Workers : v # w => workerPlan'[v] = workerPlan[v]
        /\ workerPlan'[w] = NoPlan
    BY <2>1 DEF TypeOK
  <2>3. ASSUME NEW p \in Plans PROVE Running'[p] = Running[p]
    <3>1. CASE p = workerPlan[w]
      <4>1. \A v \in Workers : workerPlan'[v] # p
        BY <2>1, <2>2, <3>1 DEF OneWorkerPerPlan
      <4> QED BY <2>1, <3>1, <4>1, RunningIs
    <3>2. CASE p # workerPlan[w] /\ \E v \in Workers : workerPlan[v] = p
      <4>1. PICK v \in Workers : workerPlan[v] = p
        BY <3>2
      <4>2. workerPlan'[v] = p
        BY <2>2, <3>2, <4>1
      <4> QED BY <2>1, <4>1, <4>2, RunningIs
    <3>3. CASE \A v \in Workers : workerPlan[v] # p
      <4>1. \A v \in Workers : workerPlan'[v] # p
        BY <2>2, <3>3
      <4> QED BY <3>3, <4>1, RunningIs
    <3> QED BY <3>1, <3>2, <3>3
  <2> QED BY <2>1, <2>3, SameRunning
<1>6. ASSUME NEW c \in Callers, CallerStep(c)
      PROVE  UNCHANGED <<pending, Running, seenFIFO, closed>>
  BY <1>0, <1>6 DEF CallerStep, Send, SendPanics
<1>7. ASSUME NEW w \in Workers, WorkerExits(w)
      PROVE  UNCHANGED <<pending, Running, seenFIFO, closed>>
  BY <1>0, <1>7 DEF WorkerExits
<1>8. CASE ShutdownBegins
  BY <1>0, <1>8 DEF ShutdownBegins
<1>9. CASE CloseChannel \/ ShutdownReturns
  BY <1>0, <1>9 DEF CloseChannel, ShutdownReturns
<1>10. CASE UNCHANGED vars
  BY <1>0, <1>10 DEF vars
<1> HIDE DEF Running
<1> QED
  BY <1>1, <1>2, <1>3, <1>4, <1>5, <1>6, <1>7, <1>8, <1>9, <1>10 DEF Next, WorkerStep

(* MemoryQueue implements the serial per-plan queue that the service       *)
(* relies on: one FIFO per plan, one job of a plan at a time, a sliding    *)
(* idempotency window, for any number of callers and workers and any       *)
(* buffer, also while Shutdown closes the channel under a blocked send.    *)
THEOREM QueueImplementsSerialQueue == Spec => ImplementsSerialQueue
<1>1. Init => Abstract!QInit
  <2>1. ASSUME Init PROVE Running = [p \in Plans |-> NoSignal]
    BY <2>1 DEF Init, Running, RunningFor
  <2> QED BY <2>1 DEF Init, Abstract!QInit, Running
<1>2. TypeOK /\ OneTokenPerPlan /\ WindowInv /\ IdleInv /\ OneWorkerPerPlan /\ OneWorkerPerPlan'
        /\ [Next]_vars => [Abstract!QNext]_<<pending, Running, seenFIFO, ~closed>>
  <2> SUFFICES ASSUME TypeOK, OneTokenPerPlan, WindowInv, IdleInv, OneWorkerPerPlan, OneWorkerPerPlan',
                      [Next]_vars
               PROVE  [Abstract!QNext]_<<pending, Running, seenFIFO, ~closed>>
    OBVIOUS
  <2>1. ASSUME NEW s \in Signals,
               ~closed,
               ~(\E i \in DOMAIN seenFIFO : seenFIFO[i] = s),
               pending' = [pending EXCEPT ![PlanOf[s]] = Append(@, s)],
               seenFIFO' = IF Len(seenFIFO) < MaxSeen THEN Append(seenFIFO, s)
                           ELSE Append(Tail(seenFIFO), s),
               Running' = Running, closed' = closed
        PROVE  Abstract!Accept(s)
    BY ONLY <2>1 DEF Abstract!Accept, Abstract!Remembered, Abstract!Slide, Running
  <2>2. ASSUME NEW p \in Plans,
               Running[p] = NoSignal, pending[p] # <<>>,
               Running' = [Running EXCEPT ![p] = Head(pending[p])],
               pending' = [pending EXCEPT ![p] = Tail(@)],
               UNCHANGED <<seenFIFO, closed>>
        PROVE  Abstract!Begin(p)
    BY ONLY <2>2 DEF Abstract!Begin, Running
  <2>3. ASSUME NEW p \in Plans,
               Running[p] # NoSignal,
               Running' = [Running EXCEPT ![p] = NoSignal],
               UNCHANGED <<pending, seenFIFO, closed>>
        PROVE  Abstract!End(p)
    BY ONLY <2>3 DEF Abstract!End, Running
  <2>4. ASSUME ~closed, closed' = TRUE, UNCHANGED <<pending, Running, seenFIFO>>
        PROVE  Abstract!Close
    BY ONLY <2>4 DEF Abstract!Close, Running
  <2>5. UNCHANGED <<pending, Running, seenFIFO, closed>>
          => UNCHANGED <<pending, Running, seenFIFO, ~closed>>
    OBVIOUS
  <2> HIDE DEF Running
  <2> QED
    BY QueueSteps, <2>1, <2>2, <2>3, <2>4, <2>5 DEF Abstract!QNext
<1> QED
  BY <1>1, <1>2, TypeCorrect, TokenTheorem, WindowTheorem, IdleTheorem, MutualExclusion, PTL
  DEF Spec, ImplementsSerialQueue, Abstract!QSpec, Abstract!qvars, Running
=============================================================================
