---------------------------- MODULE RateLimiter ----------------------------
(***************************************************************************)
(* Limiter, the pacing and daily budget of vendor requests                 *)
(* (internal/marketdata/ratelimit.go).  Wait reserves a start time and     *)
(* charges the day's budget in one critical section, then sleeps without   *)
(* the mutex; a caller whose context ends while it sleeps gives both back  *)
(* in a second critical section, which may come late.                      *)
(*                                                                         *)
(* Time is counted in ticks; day 0 stands for the zero value of Limiter's  *)
(* fields, before any request.                                             *)
(***************************************************************************)
EXTENDS Naturals, FiniteSets

CONSTANTS Requests,     \* callers of Wait, one call each
          MinInterval,  \* minInterval; 0 disables pacing
          DailyCap,     \* dailyCap; 0 disables the budget
          DayLength,    \* ticks in a day
          MaxTime       \* model bound: the last tick

ASSUME LimiterAssumption ==
  /\ MinInterval \in Nat /\ DailyCap \in Nat
  /\ DayLength \in Nat \ {0} /\ MaxTime \in Nat
  /\ IsFiniteSet(Requests)

VARIABLES
  now,      \* l.now()
  next,     \* l.next: earliest start of the next request
  used,     \* l.used
  day,      \* l.day
  req,      \* per request: where it is, its reserved start and the day it charged
  overtook  \* history: a slot was given back although a later one was reserved

limiterVars == <<now, next, used, day, req, overtook>>

LimiterTypeOK ==
  /\ now \in Nat /\ next \in Nat /\ day \in Nat
  /\ used \in 0..DailyCap
  /\ req \in [Requests -> [pc : {"new", "refused", "waiting", "leaving", "gone", "sent"},
                           slot : Nat, day : Nat]]
  /\ overtook \in BOOLEAN

LimiterInit ==
  /\ now = 0 /\ next = 0 /\ used = 0 /\ day = 0
  /\ req = [r \in Requests |-> [pc |-> "new", slot |-> 0, day |-> 0]]
  /\ overtook = FALSE

-----------------------------------------------------------------------------
Latest(s, t) == IF s > t THEN s ELSE t
startOfDayUTC(t) == 1 + t \div DayLength

\* Requests that hold a unit of the budget and a slot.
Holds(r) == req[r].pc \in {"waiting", "leaving", "sent"}

\* The units used today: the first call of a day starts from zero.
UsedToday == IF startOfDayUTC(now) = day THEN used ELSE 0

Unspent == DailyCap > 0 => UsedToday < DailyCap

\* The day a call leaves behind, also when it is refused.
RollOver == day' = IF DailyCap > 0 THEN startOfDayUTC(now) ELSE day

\* The start the call would get; without pacing that is now.
Slot == IF MinInterval > 0 THEN Latest(next, now) ELSE now

\* Wait returns an error and charges nothing: the budget is spent, or the deadline
\* comes before the slot.
Refuse(r) ==
  /\ req[r].pc = "new"
  /\ ~Unspent \/ \E deadline \in now..MaxTime : Slot > now /\ Slot > deadline
  /\ req' = [req EXCEPT ![r].pc = "refused"]
  /\ RollOver
  /\ used' = IF DailyCap > 0 THEN UsedToday ELSE used
  /\ UNCHANGED <<now, next, overtook>>

Reserve_Restarts == next' = now + MinInterval  \* mutant: waiting calls are forgotten
Reserve == next' = IF MinInterval > 0 THEN Slot + MinInterval ELSE next

\* Wait charges and reserves; without a wait the request is sent at once.
Admit(r) ==
  /\ req[r].pc = "new"
  /\ Unspent
  /\ Slot <= MaxTime
  /\ req' = [req EXCEPT ![r] = [pc |-> IF Slot > now THEN "waiting" ELSE "sent",
                                slot |-> Slot, day |-> startOfDayUTC(now)]]
  /\ RollOver
  /\ used' = IF DailyCap > 0 THEN UsedToday + 1 ELSE used
  /\ Reserve
  /\ UNCHANGED <<now, overtook>>

\* The select: the timer fires, at its time or later ...
TimerFires(r) ==
  /\ req[r].pc = "waiting" /\ now >= req[r].slot
  /\ req' = [req EXCEPT ![r].pc = "sent"]
  /\ UNCHANGED <<now, next, used, day, overtook>>

\* ... or the context ends first.
CtxDone(r) ==
  /\ req[r].pc = "waiting"
  /\ req' = [req EXCEPT ![r].pc = "leaving"]
  /\ UNCHANGED <<now, next, used, day, overtook>>

ChargedToday_Unchecked(r) == TRUE  \* mutant: the day of the charge is ignored
ChargedToday(r) == day = req[r].day

\* refund, in a critical section of its own.
Refund(r) ==
  /\ req[r].pc = "leaving"
  /\ req' = [req EXCEPT ![r].pc = "gone"]
  /\ next' = IF MinInterval > 0 THEN next - MinInterval ELSE next
  /\ used' = IF DailyCap > 0 /\ used > 0 /\ ChargedToday(r) THEN used - 1 ELSE used
  /\ overtook' = (overtook \/ \E q \in Requests : Holds(q) /\ req[q].slot > req[r].slot)
  /\ UNCHANGED <<now, day>>

Tick ==
  /\ now < MaxTime
  /\ now' = now + 1
  /\ UNCHANGED <<next, used, day, req, overtook>>

LimiterNext ==
  \/ \E r \in Requests :
       Refuse(r) \/ Admit(r) \/ TimerFires(r) \/ CtxDone(r) \/ Refund(r)
  \/ Tick

LimiterSpec == LimiterInit /\ [][LimiterNext]_limiterVars

-----------------------------------------------------------------------------
ChargedOn(d) == {r \in Requests : Holds(r) /\ req[r].day = d}

(* "Budget accounting is tied to requests actually sent" (Limiter): used is   *)
(* the number of requests charged to the current day and not given back,      *)
(* although a refund may come after the day has rolled over.                  *)
BudgetExact == DailyCap > 0 => used = Cardinality(ChargedOn(day))

(* The vendor's quota: no day is ever charged more than dailyCap requests     *)
(* (Wait, refund).                                                            *)
BudgetKept == DailyCap > 0 => \A d \in 1..startOfDayUTC(now) : Cardinality(ChargedOn(d)) <= DailyCap

(* "a minimum interval between calls" (Limiter): the reserved starts are      *)
(* MinInterval apart, as long as no slot was given back behind a later one.   *)
Paced ==
  ~overtook => \A q, r \in Requests :
    Holds(q) /\ Holds(r) /\ q # r =>
      req[q].slot >= req[r].slot + MinInterval \/ req[r].slot >= req[q].slot + MinInterval
=============================================================================
