------------------------- MODULE RateLimiterProofs -------------------------
(***************************************************************************)
(* Proofs about RateLimiter, for any number of requests and any interval,  *)
(* cap and length of a day: the fields stay in their types, the budget is  *)
(* exact, no day is overdrawn and the slots keep their distance.           *)
(***************************************************************************)
EXTENDS RateLimiter, Integers, FiniteSetTheorems, TLAPS

(* Days are numbered from 1, and the next tick is not on an earlier day.   *)
LEMMA DayFacts ==
  ASSUME NEW t \in Nat
  PROVE  /\ startOfDayUTC(t) \in Nat /\ startOfDayUTC(t) >= 1
         /\ startOfDayUTC(t) <= startOfDayUTC(t + 1)
<1> DEFINE d == DayLength
           q == t \div d
           p == (t + 1) \div d
<1>0. d \in Nat \ {0}
  BY LimiterAssumption
<1> HIDE DEF d
<1>1. \A x \in Nat : /\ x = d * (x \div d) + (x % d) /\ x \div d \in Int
                     /\ 0 <= x % d /\ x % d < d
  BY <1>0, SMT
<1>2. \A x \in Nat : x \div d >= 0
  BY <1>0, <1>1, SMTT(30)
<1>3. q \in Nat /\ p \in Nat /\ d * q <= t /\ t + 1 < d * p + d
  BY <1>0, <1>1, <1>2, SMTT(30)
<1> HIDE DEF q, p
<1>4. d * q < d * (p + 1)
  BY <1>0, <1>3, SMTT(30)
<1>5. q < p + 1
  BY <1>0, <1>3, <1>4, SMTT(30)
<1> QED
  BY <1>3, <1>5 DEF q, p, d, startOfDayUTC

(* Requests that hold a slot.                                              *)
Holders == {r \in Requests : Holds(r)}

(* Every slot in hand is still part of next, so a refund cannot take it    *)
(* below zero; charges are never in the future, so a new day starts at 0.  *)
SlotInv == MinInterval > 0 => next >= MinInterval * Cardinality(Holders)
DayInv ==
  DailyCap > 0 =>
    /\ day <= startOfDayUTC(now)
    /\ \A r \in Requests : Holds(r) => req[r].day >= 1 /\ req[r].day <= day
LimiterInv == LimiterTypeOK /\ SlotInv /\ DayInv /\ BudgetExact /\ BudgetKept

(* The sets the invariant counts are finite.                               *)
LEMMA Counted ==
  ASSUME NEW S, S \subseteq Requests
  PROVE  IsFiniteSet(S) /\ Cardinality(S) \in Nat
  BY LimiterAssumption, FS_Subset, FS_CardinalityType

(* Before a call, UsedToday is what the day of the call has been charged.  *)
LEMMA UsedTodayFacts ==
  ASSUME LimiterInv, DailyCap > 0
  PROVE  /\ UsedToday = Cardinality(ChargedOn(startOfDayUTC(now)))
         /\ UsedToday \in 0..DailyCap
<1> USE LimiterAssumption
<1>1. startOfDayUTC(now) \in Nat
  BY DayFacts DEF LimiterInv, LimiterTypeOK
<1>2. CASE startOfDayUTC(now) = day
  BY <1>2 DEF LimiterInv, LimiterTypeOK, BudgetExact, UsedToday
<1>3. CASE startOfDayUTC(now) # day
  <2>1. ChargedOn(startOfDayUTC(now)) = {}
    BY <1>1, <1>3 DEF LimiterInv, LimiterTypeOK, DayInv, ChargedOn
  <2>2. Cardinality({}) = 0
    BY FS_EmptySet
  <2> QED
    BY <1>3, <2>1, <2>2 DEF UsedToday
<1> QED
  BY <1>2, <1>3

(* A step that moves no request into or out of the holders, and leaves the *)
(* day's count right, keeps the invariant.                                 *)
LEMMA SameHolders ==
  ASSUME LimiterInv, LimiterTypeOK', UNCHANGED <<next, now>>,
         \A r \in Requests : Holds(r)' <=> Holds(r),
         \A r \in Requests : req'[r].day = req[r].day,
         \/ UNCHANGED <<used, day>>
         \/ DailyCap > 0 /\ day' = startOfDayUTC(now) /\ used' = UsedToday
  PROVE  LimiterInv'
<1> USE LimiterAssumption
<1>0. startOfDayUTC(now) \in Nat /\ startOfDayUTC(now)' = startOfDayUTC(now)
  BY DayFacts DEF LimiterInv, LimiterTypeOK, startOfDayUTC
<1>1. Holders' = Holders
  BY DEF Holders
<1>2. \A e : ChargedOn(e)' = {r \in Requests : Holds(r)' /\ req'[r].day = e}
  BY DEF ChargedOn
<1>3. \A e : ChargedOn(e)' = ChargedOn(e)
  BY <1>2 DEF ChargedOn
<1>4. SlotInv'
  BY <1>1 DEF LimiterInv, SlotInv
<1>5. DayInv'
  BY <1>0 DEF LimiterInv, DayInv, LimiterTypeOK
<1>6. BudgetKept'
  BY <1>0, <1>3 DEF LimiterInv, BudgetKept
<1>7. BudgetExact'
  <2>1. ChargedOn(day)' = ChargedOn(day')
    BY <1>3 DEF ChargedOn
  <2> QED
    BY <2>1, UsedTodayFacts DEF LimiterInv, BudgetExact
<1> QED
  BY <1>4, <1>5, <1>6, <1>7 DEF LimiterInv

-----------------------------------------------------------------------------
(* A refused call changes at most the day it finds the budget on.          *)
LEMMA RefuseKeeps == ASSUME NEW r \in Requests, LimiterInv, Refuse(r) PROVE LimiterInv'
<1> USE LimiterAssumption
<1>1. startOfDayUTC(now) \in Nat
  BY DayFacts DEF LimiterInv, LimiterTypeOK
<1>2. LimiterTypeOK'
  BY <1>1, UsedTodayFacts DEF LimiterInv, LimiterTypeOK, Refuse, RollOver
<1>3. \A q \in Requests : (Holds(q)' <=> Holds(q)) /\ req'[q].day = req[q].day
  BY DEF LimiterInv, LimiterTypeOK, Refuse, Holds
<1>4. \/ UNCHANGED <<used, day>>
      \/ DailyCap > 0 /\ day' = startOfDayUTC(now) /\ used' = UsedToday
  BY DEF Refuse, RollOver
<1> QED
  BY <1>2, <1>3, <1>4, SameHolders DEF Refuse

(* An admitted call adds one holder, one unit and at least one interval.   *)
LEMMA AdmitKeeps == ASSUME NEW r \in Requests, LimiterInv, Admit(r) PROVE LimiterInv'
<1> USE LimiterAssumption
<1> DEFINE today == startOfDayUTC(now)
<1>1. today \in Nat /\ today >= 1 /\ startOfDayUTC(now)' = today
  BY DayFacts DEF LimiterInv, LimiterTypeOK, Admit, startOfDayUTC
<1>2. Slot \in Nat /\ Slot >= now /\ (MinInterval > 0 => Slot >= next)
  BY DEF LimiterInv, LimiterTypeOK, Slot, Latest
<1>3. LimiterTypeOK'
  BY <1>1, <1>2, UsedTodayFacts DEF LimiterInv, LimiterTypeOK, Admit, RollOver, Reserve, Unspent
<1>4. /\ ~Holds(r) /\ Holds(r)' /\ req'[r].day = today
      /\ \A q \in Requests \ {r} : (Holds(q)' <=> Holds(q)) /\ req'[q].day = req[q].day
  BY DEF LimiterInv, LimiterTypeOK, Admit, Holds
<1> HIDE DEF today
<1>5. SlotInv'
  <2>1. Holders' = Holders \cup {r} /\ r \notin Holders
    BY <1>4 DEF Holders
  <2>2. Cardinality(Holders)' = Cardinality(Holders) + 1 /\ Cardinality(Holders) \in Nat
    BY <2>1, Counted, FS_AddElement DEF Holders
  <2>3. ASSUME NEW n \in Nat PROVE MinInterval * (n + 1) = MinInterval * n + MinInterval
    OBVIOUS
  <2> QED
    <3>1. MinInterval > 0 => next' = Slot + MinInterval
      BY DEF Admit, Reserve
    <3>2. MinInterval * Cardinality(Holders) \in Nat
      BY <2>2
    <3>3. MinInterval * (Cardinality(Holders) + 1) = MinInterval * Cardinality(Holders) + MinInterval
      BY <2>2, <2>3
    <3> QED
      BY <1>2, <2>2, <3>1, <3>2, <3>3 DEF LimiterInv, LimiterTypeOK, SlotInv
<1>6. ASSUME DailyCap > 0 PROVE DayInv' /\ BudgetExact' /\ BudgetKept'
  <2>1. /\ day' = today /\ used' = UsedToday + 1 /\ UsedToday < DailyCap
    BY <1>6 DEF Admit, RollOver, Unspent, today
  <2>2. DayInv'
    BY <1>1, <1>4, <2>1 DEF LimiterInv, DayInv, LimiterTypeOK, today
  <2>3. \A e : ChargedOn(e)' = {q \in Requests : Holds(q)' /\ req'[q].day = e}
    BY DEF ChargedOn
  <2>4. \A e : e # today => ChargedOn(e)' = ChargedOn(e)
    BY <1>4, <2>3 DEF ChargedOn
  <2>5. ChargedOn(today)' = ChargedOn(today) \cup {r} /\ r \notin ChargedOn(today)
    <3>1. {q \in Requests : Holds(q)' /\ req'[q].day = today} = ChargedOn(today) \cup {r}
      BY <1>4 DEF ChargedOn
    <3>2. ChargedOn(today)' = {q \in Requests : Holds(q)' /\ req'[q].day = today}
      BY <1>1 DEF ChargedOn, today
    <3> QED
      BY <1>4, <3>1, <3>2 DEF ChargedOn
  <2>6. Cardinality(ChargedOn(today) \cup {r}) = UsedToday + 1
    <3>1. UsedToday = Cardinality(ChargedOn(today))
      BY <1>6, UsedTodayFacts DEF today
    <3>2. IsFiniteSet(ChargedOn(today))
      BY Counted DEF ChargedOn
    <3> QED
      BY <2>5, <3>1, <3>2, FS_AddElement
  <2>7. ChargedOn(day)' = ChargedOn(today) \cup {r}
    BY <1>1, <2>1, <2>5 DEF ChargedOn, today
  <2>8. BudgetExact'
    BY <2>1, <2>6, <2>7 DEF BudgetExact
  <2>9. BudgetKept'
    <3>1. UsedToday \in Nat
      BY <1>6, UsedTodayFacts
    <3>2. UsedToday + 1 <= DailyCap
      BY <2>1, <3>1
    <3>3. {q \in Requests : Holds(q)' /\ req'[q].day = today} = ChargedOn(today) \cup {r}
      BY <1>4 DEF ChargedOn
    <3> SUFFICES ASSUME NEW e \in 1..today PROVE Cardinality(ChargedOn(e)') <= DailyCap
      BY <1>1 DEF BudgetKept
    <3>4. CASE e = today
      BY <2>3, <2>6, <3>2, <3>3, <3>4
    <3>5. CASE e # today
      BY <1>6, <2>4, <3>5 DEF LimiterInv, BudgetKept, today
    <3> QED
      BY <3>4, <3>5
  <2> QED
    BY <2>2, <2>8, <2>9
<1> QED
  BY <1>3, <1>5, <1>6 DEF LimiterInv, DayInv, BudgetExact, BudgetKept

(* A wait that ends changes no holder.                                     *)
LEMMA WaitKeeps ==
  ASSUME NEW r \in Requests, LimiterInv, TimerFires(r) \/ CtxDone(r)
  PROVE  LimiterInv'
<1>1. LimiterTypeOK'
  BY DEF LimiterInv, LimiterTypeOK, TimerFires, CtxDone
<1>2. \A q \in Requests : (Holds(q)' <=> Holds(q)) /\ req'[q].day = req[q].day
  BY DEF LimiterInv, LimiterTypeOK, TimerFires, CtxDone, Holds
<1> QED
  BY <1>1, <1>2, SameHolders DEF TimerFires, CtxDone

(* A refund takes one holder away, and its unit only on the day it was     *)
(* charged: on a later day the unit is not part of used any more.          *)
LEMMA RefundKeeps == ASSUME NEW r \in Requests, LimiterInv, Refund(r) PROVE LimiterInv'
<1> USE LimiterAssumption
<1>1. startOfDayUTC(now) \in Nat /\ startOfDayUTC(now)' = startOfDayUTC(now)
  BY DayFacts DEF LimiterInv, LimiterTypeOK, Refund, startOfDayUTC
<1>2. /\ Holds(r) /\ ~Holds(r)'
      /\ \A q \in Requests : req'[q].day = req[q].day
      /\ \A q \in Requests \ {r} : Holds(q)' <=> Holds(q)
  BY DEF LimiterInv, LimiterTypeOK, Refund, Holds
<1>3. /\ Holders' = Holders \ {r} /\ r \in Holders
  BY <1>2 DEF Holders
<1>4. Cardinality(Holders)' = Cardinality(Holders) - 1 /\ Cardinality(Holders) \in Nat
      /\ Cardinality(Holders)' \in Nat
  <2>1. IsFiniteSet(Holders) /\ Cardinality(Holders) \in Nat
    BY Counted DEF Holders
  <2>2. Cardinality(Holders \ {r}) \in Nat
    BY Counted DEF Holders
  <2> QED
    BY <1>3, <2>1, <2>2, FS_RemoveElement
<1>5. ASSUME MinInterval > 0
      PROVE  next' >= MinInterval * Cardinality(Holders)' /\ next' \in Nat
  <2> DEFINE n == Cardinality(Holders)'
  <2>1. n \in Nat /\ Cardinality(Holders) = n + 1
    BY <1>4
  <2>2. next >= MinInterval * (n + 1)
    BY <1>5, <2>1 DEF LimiterInv, SlotInv
  <2> HIDE DEF n
  <2>3. MinInterval * (n + 1) = MinInterval * n + MinInterval /\ MinInterval * n \in Nat
    BY <2>1
  <2>4. next' = next - MinInterval /\ next \in Nat
    BY <1>5 DEF Refund, LimiterInv, LimiterTypeOK
  <2>5. next' >= MinInterval * n /\ next' \in Nat
    BY <2>2, <2>3, <2>4
  <2> QED
    BY <2>5 DEF n
<1>6. LimiterTypeOK'
  BY <1>5 DEF LimiterInv, LimiterTypeOK, Refund
<1>7. SlotInv'
  BY <1>5 DEF SlotInv
<1>8. ASSUME DailyCap > 0 PROVE DayInv' /\ BudgetExact' /\ BudgetKept'
  <2>1. DayInv'
    BY <1>1, <1>2 DEF LimiterInv, DayInv, LimiterTypeOK, Refund
  <2>2. \A e : ChargedOn(e)' = {q \in Requests : Holds(q)' /\ req'[q].day = e}
    BY DEF ChargedOn
  <2>3. \A e : ChargedOn(e)' = ChargedOn(e) \ {r}
    BY <1>2, <2>2 DEF ChargedOn
  <2>4. \A e : /\ IsFiniteSet(ChargedOn(e)) /\ Cardinality(ChargedOn(e)) \in Nat
               /\ IsFiniteSet(ChargedOn(e) \ {r}) /\ Cardinality(ChargedOn(e) \ {r}) \in Nat
    BY Counted DEF ChargedOn
  <2>5. BudgetKept'
    <3> SUFFICES ASSUME NEW e \in 1..startOfDayUTC(now)
                 PROVE  Cardinality(ChargedOn(e)') <= DailyCap
      BY <1>1 DEF BudgetKept
    <3>1. Cardinality(ChargedOn(e)) <= DailyCap
      BY <1>8 DEF LimiterInv, BudgetKept
    <3>2. Cardinality(ChargedOn(e) \ {r}) <= Cardinality(ChargedOn(e))
      BY <2>4, FS_Subset
    <3> QED
      BY <2>3, <2>4, <3>1, <3>2
  <2>6. BudgetExact'
    <3>1. ChargedOn(day)' = ChargedOn(day) \ {r}
      <4>1. day' = day
        BY DEF Refund
      <4> QED
        BY <1>2, <4>1 DEF ChargedOn
    <3>2. used = Cardinality(ChargedOn(day)) /\ used \in Nat
      BY <1>8 DEF LimiterInv, LimiterTypeOK, BudgetExact
    <3>3. CASE day = req[r].day
      <4>1. r \in ChargedOn(day)
        BY <1>2, <3>3 DEF ChargedOn
      <4>2. Cardinality(ChargedOn(day) \ {r}) = used - 1
        BY <2>4, <3>2, <4>1, FS_RemoveElement
      <4>3. used > 0
        <5>1. Cardinality(ChargedOn(day) \ {r}) \in Nat
          BY <2>4
        <5> QED
          BY ONLY <3>2, <4>2, <5>1
      <4>4. used' = used - 1
        BY <1>8, <3>3, <4>3 DEF Refund, ChargedToday
      <4> QED
        BY <3>1, <4>2, <4>4 DEF BudgetExact
    <3>4. CASE day # req[r].day
      <4>1. ChargedOn(day) \ {r} = ChargedOn(day)
        BY <3>4 DEF ChargedOn
      <4>2. used' = used
        BY <3>4 DEF Refund, ChargedToday
      <4> QED
        BY <3>1, <3>2, <4>1, <4>2 DEF BudgetExact
    <3> QED
      BY <3>3, <3>4
  <2> QED
    BY <2>1, <2>5, <2>6
<1> QED
  BY <1>6, <1>7, <1>8 DEF LimiterInv, DayInv, BudgetExact, BudgetKept

(* A tick may begin a day, on which nothing is charged yet.                *)
LEMMA TickKeeps == ASSUME LimiterInv, Tick PROVE LimiterInv'
<1> USE LimiterAssumption
<1> DEFINE d1 == startOfDayUTC(now)
           d2 == startOfDayUTC(now + 1)
<1>1. d1 \in Nat /\ d2 \in Nat /\ d1 <= d2 /\ startOfDayUTC(now)' = d2
  BY DayFacts DEF LimiterInv, LimiterTypeOK, Tick, startOfDayUTC
<1>2. LimiterTypeOK'
  BY DEF LimiterInv, LimiterTypeOK, Tick
<1>3. Holders' = Holders /\ next' = next
  BY DEF Tick, Holders, Holds
<1>4. SlotInv'
  BY <1>3 DEF LimiterInv, SlotInv
<1>5. \A e : ChargedOn(e)' = ChargedOn(e)
  BY DEF Tick, ChargedOn, Holds
<1>6. DayInv'
  <2>1. \A q \in Requests : (Holds(q)' <=> Holds(q)) /\ req' = req /\ day' = day
    BY DEF Tick, Holds
  <2> QED
    BY <1>1, <2>1 DEF LimiterInv, DayInv, LimiterTypeOK, Tick
<1>7. BudgetExact'
  BY DEF LimiterInv, BudgetExact, Tick, ChargedOn, Holds
<1> HIDE DEF d1, d2
<1>8. BudgetKept'
  <2> SUFFICES ASSUME DailyCap > 0, NEW e \in 1..d2
               PROVE  Cardinality(ChargedOn(e)') <= DailyCap
    BY <1>1 DEF BudgetKept
  <2>1. CASE e <= d1
    BY <1>1, <1>5, <2>1 DEF LimiterInv, BudgetKept, d1
  <2>2. CASE e > d1
    <3>1. ChargedOn(e) = {}
      BY <1>1, <2>2 DEF LimiterInv, DayInv, LimiterTypeOK, ChargedOn, d1
    <3> QED
      BY <1>5, <3>1, FS_EmptySet
  <2> QED
    BY <1>1, <2>1, <2>2
<1> QED
  BY <1>2, <1>4, <1>6, <1>7, <1>8 DEF LimiterInv

-----------------------------------------------------------------------------
(* The inductive invariant: LimiterInv holds in the zero Limiter, and every *)
(* critical section of Wait and refund keeps it.                            *)
LEMMA LimiterInvariant == LimiterSpec => []LimiterInv
<1>1. LimiterInit => LimiterInv
  <2> SUFFICES ASSUME LimiterInit PROVE LimiterInv
    OBVIOUS
  <2> USE LimiterAssumption
  <2>1. LimiterTypeOK
    <3>1. req \in [Requests -> [pc : {"new", "refused", "waiting", "leaving", "gone", "sent"},
                                slot : Nat, day : Nat]]
      BY DEF LimiterInit
    <3>2. used \in 0..DailyCap
      BY DEF LimiterInit
    <3> QED
      BY ONLY LimiterInit, <3>1, <3>2 DEF LimiterInit, LimiterTypeOK
  <2>2. Holders = {} /\ \A e : ChargedOn(e) = {}
    BY DEF LimiterInit, Holders, ChargedOn, Holds
  <2>3. Cardinality({}) = 0
    BY FS_EmptySet
  <2>4. startOfDayUTC(now) \in Nat
    BY <2>1, DayFacts DEF LimiterTypeOK
  <2>5. SlotInv
    <3>1. MinInterval * 0 = 0
      OBVIOUS
    <3> QED
      BY <2>2, <2>3, <3>1 DEF LimiterInit, SlotInv
  <2>6. DayInv
    BY <2>4 DEF LimiterInit, DayInv, Holds
  <2>7. BudgetExact /\ BudgetKept
    <3>1. \A e : Cardinality(ChargedOn(e)) = 0
      BY <2>2, <2>3
    <3>2. BudgetExact
      BY ONLY LimiterInit, <3>1 DEF LimiterInit, BudgetExact
    <3>3. BudgetKept
      BY <3>1 DEF BudgetKept
    <3> QED
      BY <3>2, <3>3
  <2> QED
    BY <2>1, <2>5, <2>6, <2>7 DEF LimiterInv
<1>2. LimiterInv /\ [LimiterNext]_limiterVars => LimiterInv'
  <2> SUFFICES ASSUME LimiterInv, [LimiterNext]_limiterVars PROVE LimiterInv'
    OBVIOUS
  <2>1. CASE UNCHANGED limiterVars
    BY <2>1 DEF limiterVars, LimiterInv, LimiterTypeOK, SlotInv, DayInv, BudgetExact, BudgetKept,
                Holders, ChargedOn, Holds, startOfDayUTC
  <2>2. CASE LimiterNext
    BY <2>2, RefuseKeeps, AdmitKeeps, WaitKeeps, RefundKeeps, TickKeeps DEF LimiterNext
  <2> QED
    BY <2>1, <2>2
<1> QED
  BY <1>1, <1>2, PTL DEF LimiterSpec

(* The fields of Limiter stay in their types: next never goes below the    *)
(* zero time and used never leaves 0..dailyCap, although refund subtracts  *)
(* from both.                                                              *)
THEOREM TypeCorrect == LimiterSpec => []LimiterTypeOK
<1>1. LimiterInv => LimiterTypeOK
  BY DEF LimiterInv
<1> QED
  BY <1>1, LimiterInvariant, PTL

(* Budget accounting is exact: used counts the requests charged to the     *)
(* current day that were not given back.                                   *)
THEOREM BudgetExactTheorem == LimiterSpec => []BudgetExact
<1>1. LimiterInv => BudgetExact
  BY DEF LimiterInv
<1> QED
  BY <1>1, LimiterInvariant, PTL

(* No day is charged more than dailyCap requests, however cancellations,   *)
(* late refunds and the rollover at midnight interleave.                   *)
THEOREM BudgetTheorem == LimiterSpec => []BudgetKept
<1>1. LimiterInv => BudgetKept
  BY DEF LimiterInv
<1> QED
  BY <1>1, LimiterInvariant, PTL

-----------------------------------------------------------------------------
(* The next start leaves an interval after every reserved one, until a     *)
(* slot is given back behind a later one.                                  *)
HeadInv ==
  MinInterval > 0 /\ ~overtook => \A q \in Requests : Holds(q) => req[q].slot + MinInterval <= next

(* A step that leaves the slots in hand and next alone keeps the pacing.   *)
LEMMA SameSlots ==
  ASSUME HeadInv, Paced, UNCHANGED <<next, overtook>>,
         \A q \in Requests : (Holds(q)' <=> Holds(q)) /\ req'[q].slot = req[q].slot
  PROVE  (HeadInv /\ Paced)'
<1>1. HeadInv'
  BY DEF HeadInv
<1>2. Paced'
  BY DEF Paced
<1> QED BY <1>1, <1>2

(* An admitted call starts at next or later, so an interval after the      *)
(* others.                                                                 *)
LEMMA AdmitPaces ==
  ASSUME NEW r \in Requests, LimiterTypeOK, HeadInv, Paced, Admit(r)
  PROVE  (HeadInv /\ Paced)'
<1>1. PICK s \in Nat : s = Slot /\ (MinInterval > 0 => s >= next)
  <2>1. Slot \in Nat /\ (MinInterval > 0 => Slot >= next)
    BY DEF LimiterTypeOK, Slot, Latest
  <2> QED BY <2>1
<1>2. /\ overtook' = overtook /\ req'[r].slot = s
      /\ \A q \in Requests : q # r => (Holds(q)' <=> Holds(q)) /\ req'[q].slot = req[q].slot
      /\ MinInterval > 0 => next' = s + MinInterval
      /\ next \in Nat /\ MinInterval \in Nat /\ \A q \in Requests : req[q].slot \in Nat
  BY <1>1, LimiterAssumption DEF LimiterTypeOK, Admit, Reserve, Holds
<1>3. HeadInv'
  BY ONLY <1>1, <1>2, HeadInv DEF HeadInv
<1>4. Paced'
  <2> SUFFICES ASSUME ~overtook, NEW q \in Requests, NEW p \in Requests, Holds(q)', Holds(p)', q # p
               PROVE  \/ req'[q].slot >= req'[p].slot + MinInterval
                      \/ req'[p].slot >= req'[q].slot + MinInterval
    BY <1>2 DEF Paced
  <2>1. CASE MinInterval = 0
    <3>1. req'[q].slot \in Nat /\ req'[p].slot \in Nat
      BY ONLY <1>1, <1>2
    <3> QED BY ONLY <2>1, <3>1
  <2>2. CASE MinInterval > 0 /\ q # r /\ p # r
    BY ONLY <1>2, <2>2, ~overtook, Holds(q)', Holds(p)', q # p, Paced DEF Paced
  <2>3. ASSUME MinInterval > 0, NEW x \in Requests, x # r, Holds(x)'
        PROVE  s >= req'[x].slot + MinInterval
    BY ONLY <1>1, <1>2, <2>3, ~overtook, HeadInv DEF HeadInv
  <2>4. CASE MinInterval > 0 /\ q = r
    BY ONLY <1>2, <2>3, <2>4, q # p, Holds(p)'
  <2>5. CASE MinInterval > 0 /\ p = r
    BY ONLY <1>2, <2>3, <2>5, q # p, Holds(q)'
  <2> QED BY ONLY <1>2, <2>1, <2>2, <2>4, <2>5
<1> QED BY <1>3, <1>4

(* A slot given back with none behind it was the last one: the others      *)
(* start two intervals before next.                                        *)
LEMMA RefundPaces ==
  ASSUME NEW r \in Requests, LimiterTypeOK, HeadInv, Paced, Refund(r)
  PROVE  (HeadInv /\ Paced)'
<1>1. /\ Holds(r) /\ ~Holds(r)'
      /\ \A q \in Requests : req'[q].slot = req[q].slot /\ req[q].slot \in Nat
      /\ \A q \in Requests : q # r => (Holds(q)' <=> Holds(q))
      /\ MinInterval > 0 => next' = next - MinInterval
      /\ next \in Nat /\ MinInterval \in Nat
      /\ ~overtook' => ~overtook /\ \A q \in Requests : Holds(q) => ~(req[q].slot > req[r].slot)
  BY LimiterAssumption DEF LimiterTypeOK, Refund, Holds
<1>2. HeadInv'
  <2> SUFFICES ASSUME MinInterval > 0, ~overtook', NEW q \in Requests, Holds(q)'
               PROVE  req'[q].slot + MinInterval <= next'
    BY DEF HeadInv
  <2>1. q # r /\ Holds(q) /\ ~overtook /\ ~(req[q].slot > req[r].slot)
    BY <1>1
  <2>2. \/ req[q].slot >= req[r].slot + MinInterval
        \/ req[r].slot >= req[q].slot + MinInterval
    BY ONLY <1>1, <2>1, Paced DEF Paced
  <2>3. req[r].slot + MinInterval <= next
    BY ONLY <1>1, <2>1, MinInterval > 0, HeadInv DEF HeadInv
  <2> QED BY ONLY <1>1, <2>1, <2>2, <2>3, MinInterval > 0
<1>3. Paced'
  BY ONLY <1>1, Paced DEF Paced
<1> QED BY <1>2, <1>3

(* The reserved starts are one interval apart, for every interleaving of   *)
(* Wait, its timer, its context and refund, as long as no slot is given    *)
(* back behind a later one; then refund's subtraction, which is blind to   *)
(* the order, moves next into slots still in hand.                         *)
THEOREM PacedTheorem == LimiterSpec => []Paced
<1>1. LimiterInit => HeadInv /\ Paced
  BY DEF LimiterInit, HeadInv, Paced, Holds
<1>2. LimiterTypeOK /\ HeadInv /\ Paced /\ [LimiterNext]_limiterVars => (HeadInv /\ Paced)'
  <2> SUFFICES ASSUME LimiterTypeOK, HeadInv, Paced, [LimiterNext]_limiterVars PROVE (HeadInv /\ Paced)'
    OBVIOUS
  <2>1. ASSUME NEW r \in Requests, Refuse(r) \/ TimerFires(r) \/ CtxDone(r)
        PROVE  (HeadInv /\ Paced)'
    <3>1. \A q \in Requests : (Holds(q)' <=> Holds(q)) /\ req'[q].slot = req[q].slot
      BY <2>1 DEF LimiterTypeOK, Refuse, TimerFires, CtxDone, Holds
    <3> QED BY <2>1, <3>1, SameSlots DEF Refuse, TimerFires, CtxDone
  <2>2. CASE Tick \/ UNCHANGED limiterVars
    <3>1. UNCHANGED <<next, overtook, req>>
      BY <2>2 DEF Tick, limiterVars
    <3> QED BY <3>1, SameSlots DEF Holds
  <2> QED BY <2>1, <2>2, AdmitPaces, RefundPaces DEF LimiterNext
<1> QED BY <1>1, <1>2, TypeCorrect, PTL DEF LimiterSpec
=============================================================================
