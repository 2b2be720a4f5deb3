-------------------------- MODULE MarketCacheProofs --------------------------
(***************************************************************************)
(* Properties of the market data cache for any calls, vendors, TTLs, sizes *)
(* and lookbacks: no lookahead, no remembered outage, only final history   *)
(* is kept for good, a fetch is the only flight of a cold key, and no      *)
(* answer is older than the TTL allows.                                    *)
(***************************************************************************)
EXTENDS MarketCache, TLAPS, WellFoundedInduction

Sentinels == {"notFound", "unavailable", "notSupported", "notImplemented", "ctx"}
Outcomes == [err : SUBSET Sentinels, asOf : Int, at : Int, bars : SUBSET (Int \X Int)]
CacheKeys == [kind : {"quote", "funds", "bars"}, from : Int, to : Int]
KeyLists == Seq(CacheKeys)
Busy == {"lookup", "once", "wait", "recheck", "fetch", "publish", "direct"}
CallRecords ==
  [pc : Busy \cup {"idle", "done"}, start : Int, asOf : Int, reads : KeyLists,
   split : BOOLEAN, joined : BOOLEAN, stable : Int, bars : SUBSET (Int \X Int),
   missed : SUBSET Sentinels, out : Outcomes]
EntryRecords == [out : Outcomes, expires : Int]

\* A call that is under way has a key; those of ranges are bars.
Reads(c, r) ==
  r.pc \in Busy =>
    /\ r.reads # <<>>
    /\ \A i \in 1..Len(r.reads) : /\ r.reads[i].kind = "bars" <=> c \in Ranges
                                  /\ c \in Ranges => r.reads[i].to >= 0

TypeInv ==
  /\ now \in Nat /\ memo \in Int
  /\ \A k \in DOMAIN entries : k \in CacheKeys /\ entries[k] \in EntryRecords
  /\ call \in [Calls -> CallRecords]
  /\ \A c \in Calls : Reads(c, call[c])

-----------------------------------------------------------------------------
(* Arithmetic, extrema and the clock.                                      *)

\* The least of a set of naturals is one of them.
LEMMA MinInSet ==
  ASSUME NEW S, S \subseteq Nat, S # {}
  PROVE  Min(S) \in S
<1>1. PICK x \in S : \A y \in S : ~(<<y, x>> \in OpToRel(<, Nat))
  BY WFMin, NatLessThanWellFounded
<1>2. \A y \in S : ~(y < x)
  BY <1>1 DEF OpToRel
<1>3. \A y \in S : x =< y
  BY <1>2
<1> QED
  BY <1>3 DEF Min

\* So is the greatest of a set of integers that is bounded above.
LEMMA MaxInSet ==
  ASSUME NEW S, S \subseteq Int, S # {}, NEW hi \in Int, \A x \in S : x =< hi
  PROVE  Max(S) \in S
<1> DEFINE U == {n \in Nat : hi - n \in S}
<1>1. U \subseteq Nat /\ U # {}
  <2>1. PICK x \in S : TRUE
    OBVIOUS
  <2>2. hi - x \in Nat /\ hi - (hi - x) = x
    BY <2>1
  <2> QED
    BY <2>1, <2>2
<1>2. PICK n \in U : \A m \in U : ~(<<m, n>> \in OpToRel(<, Nat))
  BY <1>1, WFMin, NatLessThanWellFounded
<1>3. \A m \in U : ~(m < n)
  BY <1>1, <1>2 DEF OpToRel
<1>4. ASSUME NEW y \in S
      PROVE  hi - n >= y
  <2>1. hi - y \in Nat /\ hi - (hi - y) = y
    BY <1>4
  <2>2. hi - y \in U
    BY <2>1
  <2>3. ~(hi - y < n)
    BY <1>3, <2>2
  <2> HIDE DEF U
  <2> QED
    BY <1>1, <2>1, <2>3
<1>5. hi - n \in S
  OBVIOUS
<1> QED
  BY <1>4, <1>5 DEF Max

\* A moment lies between the midnights around it.
LEMMA Day ==
  ASSUME NEW t \in Int
  PROVE  DayOf(t) \in Int /\ DayOf(t) * DayLength =< t /\ t < (DayOf(t) + 1) * DayLength
  BY MarketAssumption, SMTT(30) DEF DayOf

\* Days do not run backwards.
LEMMA DayMonotone ==
  ASSUME NEW s \in Int, NEW t \in Int, s =< t
  PROVE  DayOf(s) =< DayOf(t)
<1> DEFINE a == DayOf(s)
           b == DayOf(t)
<1>1. a \in Int /\ b \in Int /\ a * DayLength =< s /\ t < (b + 1) * DayLength
  BY Day
<1>2. DayLength \in Nat \ {0}
  BY MarketAssumption
<1> HIDE DEF a, b
<1>3. a * DayLength < (b + 1) * DayLength
  BY <1>1, <1>2
<1>4. a < b + 1
  BY <1>1, <1>2, <1>3, SMTT(30)
<1> QED
  BY <1>1, <1>4 DEF a, b

\* The midnight of a day that is not after the day of t is not after t.
LEMMA MidnightBefore ==
  ASSUME NEW t \in Int, NEW d \in Int, d =< DayOf(t)
  PROVE  d * DayLength \in Int /\ d * DayLength =< t
<1> DEFINE q == DayOf(t)
<1>1. q \in Int /\ q * DayLength =< t /\ DayLength \in Nat \ {0}
  BY Day, MarketAssumption
<1> HIDE DEF q
<1>2. d =< q
  BY DEF q
<1>3. d * DayLength =< q * DayLength
  BY <1>1, <1>2, SMTT(30)
<1> QED
  BY <1>1, <1>3

-----------------------------------------------------------------------------
(* What the vendors and the chain answer.                                  *)

\* An outcome is a value the call may see, as of now, or an error; an ended context
\* comes alone.
Sound(c, k, o) ==
  /\ o \in Outcomes
  /\ "ctx" \in o.err => o.err = {"ctx"}
  /\ o.err = {} /\ c \notin Ranges => o.asOf =< call[c].asOf
  /\ o.err = {} /\ c \in Ranges => \A bar \in o.bars : bar[1] =< k.to /\ bar[2] = now

\* A call under way asks for a key of its kind.
LEMMA KeyType ==
  ASSUME TypeInv, NEW c \in Calls, call[c].pc \in Busy
  PROVE  /\ Key(c) \in CacheKeys
         /\ Key(c).kind = "bars" <=> c \in Ranges
         /\ c \in Ranges => Key(c).to >= 0
<1>1. call[c] \in CallRecords /\ call[c].reads \in Seq(CacheKeys) /\ call[c].reads # <<>>
  BY DEF TypeInv, CallRecords, KeyLists, Reads
<1>2. 1 \in 1..Len(call[c].reads) /\ Head(call[c].reads) = call[c].reads[1]
  BY <1>1
<1>3. Key(c) = call[c].reads[1] /\ Key(c) \in CacheKeys
  BY <1>1, <1>2 DEF Key
<1>4. Reads(c, call[c])
  BY DEF TypeInv
<1> QED
  BY <1>2, <1>3, <1>4 DEF Reads

\* Errors are sound outcomes.
LEMMA FailedSound ==
  ASSUME NEW c, NEW k, NEW e \in (SUBSET Sentinels) \ {{}}, "ctx" \in e => e = {"ctx"}
  PROVE  Sound(c, k, Failed(e)) /\ Failed(e).err # {} /\ Failed(e).err = e
  BY DEF Sound, Failed, Outcomes

\* What httpx.get makes of a bad response is an error.
LEMMA HTTPSound ==
  ASSUME NEW c, NEW k, NEW o \in HTTPErrors
  PROVE  Sound(c, k, o) /\ o.err # {}
<1>1. /\ {"notFound"} \in (SUBSET Sentinels) \ {{}} /\ {"unavailable"} \in (SUBSET Sentinels) \ {{}}
      /\ "ctx" \notin {"notFound"} /\ "ctx" \notin {"unavailable"}
  BY DEF Sentinels
<1> QED
  BY <1>1, FailedSound DEF HTTPErrors

\* The bars a vendor may have, and what is read off them.
LEMMA VendorBarsFacts ==
  ASSUME now \in Nat, NEW v, v \in {"fmp", "stooq"}, NEW from \in Int, NEW to \in Int,
         NEW o \in VendorBars(v, from, to)
  PROVE  \/ o \in HTTPErrors
         \/ \E rows \in SUBSET Int : rows # {} /\ o = Bars(rows, now) /\ \A d \in rows : d =< to
<1> DEFINE top == Earlier(to, DayOf(now))
<1>1. top \in Int /\ top =< to
  BY Day DEF Earlier
<1>2. ASSUME NEW rows \in Published(from, to)
      PROVE  rows \in SUBSET Int /\ \A d \in rows : d =< to
  <2>1. rows \in SUBSET (from..top)
    BY DEF Published
  <2> HIDE DEF top
  <2> QED
    BY <1>1, <2>1
<1>3. CASE v = "fmp"
  BY <1>2, <1>3 DEF VendorBars, FMPBars, HTTPErrors
<1>4. CASE v = "stooq"
  <2>1. o \in StooqBars(from, to)
    BY <1>4 DEF VendorBars
  <2>2. \/ o \in {Bars(rows, now) : rows \in Published(from, to) \ {{}}}
        \/ o \in HTTPErrors
    <3>1. CASE o \in HTTPErrors
      BY <3>1
    <3>2. CASE o \notin HTTPErrors
      <4> DEFINE CSV == {Bars(rows, now) : rows \in Published(from, to) \ {{}}}
                 Answer(page) == CASE page = "csv" -> CSV
                                   [] page = "none" -> {Failed({"notFound"})}
                                   [] page = "html" -> {Failed({"unavailable"})}
      <4>1. PICK page \in {"csv", "none", "html"} : o \in Answer(page)
        BY <2>1, <3>2 DEF StooqBars
      <4>2. /\ Answer("csv") = CSV /\ Answer("none") = {Failed({"notFound"})}
            /\ Answer("html") = {Failed({"unavailable"})}
        OBVIOUS
      <4> HIDE DEF CSV, Answer
      <4>3. o \in CSV
        BY <3>2, <4>1, <4>2 DEF HTTPErrors
      <4> QED
        BY <4>3 DEF CSV
    <3> QED
      BY <3>1, <3>2
  <2> QED
    BY <1>2, <2>2
<1> QED
  BY <1>3, <1>4

\* A range is answered with its own days, fetched now (HistoricalBars of the vendors).
LEMMA BarsSound ==
  ASSUME TypeInv, NEW c \in Ranges, NEW v, v \in {"fmp", "stooq"}, NEW k \in CacheKeys,
         NEW o \in VendorBars(v, k.from, k.to)
  PROVE  Sound(c, k, o)
<1>1. now \in Nat /\ k.from \in Int /\ k.to \in Int
  BY DEF TypeInv, CacheKeys
<1>2. CASE o \in HTTPErrors
  BY <1>2, HTTPSound
<1>3. ASSUME NEW rows \in SUBSET Int, o = Bars(rows, now), \A d \in rows : d =< k.to
      PROVE  Sound(c, k, o)
  <2>1. o.err = {} /\ o.bars = {<<d, now>> : d \in rows} /\ o \in Outcomes
    BY <1>1, <1>3 DEF Bars, Outcomes
  <2>2. \A bar \in o.bars : bar[1] =< k.to /\ bar[2] = now
    BY <1>3, <2>1
  <2> QED
    BY <2>1, <2>2 DEF Sound
<1> QED
  BY <1>1, <1>2, <1>3, VendorBarsFacts

\* The quote read off daily bars is that of a day before asOf (quoteFromBars).
LEMMA QuoteSound ==
  ASSUME TypeInv, NEW c \in Calls, c \notin Ranges, NEW v, v \in {"fmp", "stooq"}, NEW k,
         NEW o \in QuoteFromBars(v, call[c].asOf)
  PROVE  Sound(c, k, o)
<1> DEFINE asOf == call[c].asOf
           to   == DayOf(asOf)
           from == Later(to - Lookback, 0)
<1>1. now \in Nat /\ asOf \in Int
  BY DEF TypeInv, CallRecords
<1>2. to \in Int /\ from \in Int
  <2>1. to \in Int
    BY <1>1, Day
  <2>2. Lookback \in Nat
    BY MarketAssumption
  <2> HIDE DEF to
  <2> QED
    BY <2>1, <2>2 DEF Later
<1>3. PICK b \in VendorBars(v, from, to) :
        o = IF b.err # {} THEN b ELSE Value(Max({bar[1] : bar \in b.bars}) * DayLength, now)
  BY Zenon DEF QuoteFromBars
<1>4. CASE b \in HTTPErrors
  BY <1>3, <1>4, HTTPSound
<1>5. ASSUME NEW rows \in SUBSET Int, rows # {}, b = Bars(rows, now), \A d \in rows : d =< to
      PROVE  Sound(c, k, o)
  <2> HIDE DEF from, to, asOf
  <2>1. b.err = {} /\ {bar[1] : bar \in b.bars} = rows
    <3>1. b.err = {} /\ b.bars = {<<d, now>> : d \in rows}
      BY <1>5 DEF Bars
    <3>2. \A d \in rows : <<d, now>> \in b.bars /\ <<d, now>>[1] = d
      BY <3>1
    <3>3. \A bar \in b.bars : bar[1] \in rows
      BY <3>1
    <3>4. \A x : x \in {bar[1] : bar \in b.bars} <=> x \in rows
      BY <3>2, <3>3, Zenon
    <3> QED
      BY <3>1, <3>4, Zenon
  <2>2. Max(rows) \in Int /\ Max(rows) =< to
    BY <1>2, <1>5, MaxInSet
  <2>3. Max(rows) * DayLength \in Int /\ Max(rows) * DayLength =< asOf
    BY <1>1, <2>2, MidnightBefore DEF to
  <2>4. o = Value(Max(rows) * DayLength, now)
    BY <1>3, <2>1
  <2> HIDE <1>3
  <2>5. o.err = {} /\ o.asOf =< asOf /\ o \in Outcomes
    BY <1>1, <2>3, <2>4 DEF Value, Outcomes
  <2> QED
    BY <2>5 DEF Sound, asOf
<1> QED
  BY <1>1, <1>2, <1>4, <1>5, VendorBarsFacts

\* A live quote claims no later time than asOf, from the memo or not (liveQuote).
LEMMA LiveSound ==
  ASSUME TypeInv, NEW c \in Calls, c \notin Ranges, NEW k, NEW o \in LiveQuote(call[c].asOf)
  PROVE  Sound(c, k, o)
<1> DEFINE asOf == call[c].asOf
<1>1. now \in Nat /\ memo \in Int /\ asOf \in Int
  BY DEF TypeInv, CallRecords
<1>2. ASSUME NEW t \in Int, o = Value(Earlier(t, asOf), t)
      PROVE  Sound(c, k, o)
  <2>1. o.err = {} /\ o.asOf =< asOf /\ o \in Outcomes
    BY <1>1, <1>2 DEF Value, Earlier, Outcomes
  <2> QED
    BY <2>1 DEF Sound
<1>3. CASE o \in HTTPErrors
  BY <1>3, HTTPSound
<1> QED
  BY <1>1, <1>2, <1>3 DEF LiveQuote

\* No vendor answers a call with a value it may not see.
LEMMA AnswerSound ==
  ASSUME TypeInv, NEW c \in Calls, call[c].pc \in Busy, NEW v, v \in {"fmp", "stooq"},
         NEW o \in Answers(v, c, Key(c))
  PROVE  Sound(c, Key(c), o)
<1>1. Key(c) \in CacheKeys
  BY KeyType
<1>2. CASE o = Failed({"ctx"})
  BY <1>2, FailedSound DEF Sentinels
<1>3. CASE o = Failed({"notSupported"})
  BY <1>3, FailedSound DEF Sentinels
<1>4. CASE c \in Ranges /\ o # Failed({"ctx"})
  <2>1. c \notin Quotes /\ c \notin Funds
    BY <1>4, MarketAssumption
  <2>2. o \in VendorBars(v, Key(c).from, Key(c).to)
    BY <1>4, <2>1 DEF Answers
  <2> QED
    BY <1>1, <1>4, <2>2, BarsSound
<1>5. CASE c \notin Ranges /\ o # Failed({"ctx"}) /\ o # Failed({"notSupported"})
  <2>1. o \in LiveQuote(call[c].asOf) \/ o \in QuoteFromBars(v, call[c].asOf)
    <3>1. CASE c \in Quotes
      <4>1. c \notin Funds
        BY <3>1, MarketAssumption
      <4> QED
        BY <1>5, <3>1, <4>1 DEF Answers, VendorQuote
    <3>2. CASE c \in Funds
      <4>1. c \notin Quotes
        BY <3>2, MarketAssumption
      <4> QED
        BY <1>5, <3>2, <4>1 DEF Answers, VendorFunds
    <3> QED
      BY <1>5, <3>1, <3>2 DEF Calls
  <2> QED
    BY <1>5, <2>1, LiveSound, QuoteSound
<1> QED
  BY <1>2, <1>3, <1>4, <1>5

\* So the chain's answer is one too, and an ended context never hides in joined errors.
LEMMA ChainSound ==
  ASSUME TypeInv, NEW c \in Calls, call[c].pc \in Busy, NEW os \in VendorAnswers(c, Key(c))
  PROVE  Sound(c, Key(c), ChainAnswer(os))
<1> DEFINE stop == {i \in DOMAIN os : Decisive(os[i])}
<1>1. /\ Vendors \in Seq({"fmp", "stooq"}) /\ Vendors # <<>>
      /\ DOMAIN os = DOMAIN Vendors /\ DOMAIN os = 1..Len(Vendors) /\ DOMAIN os # {}
  BY MarketAssumption DEF VendorAnswers
<1>2. \A i \in DOMAIN os : Sound(c, Key(c), os[i])
  BY <1>1, AnswerSound DEF VendorAnswers
<1>3. CASE stop # {}
  <2>1. Min(stop) \in stop
    <3>1. stop \subseteq Nat
      BY <1>1
    <3> HIDE DEF stop
    <3> QED
      BY <1>3, <3>1, MinInSet
  <2>2. ChainAnswer(os) = os[Min(stop)]
    BY <1>3 DEF ChainAnswer
  <2> QED
    BY <1>2, <2>1, <2>2
<1>4. CASE stop = {}
  <2> DEFINE all == UNION {os[i].err : i \in DOMAIN os}
  <2>1. \A i \in DOMAIN os : os[i].err \subseteq Sentinels \ {"ctx"} /\ os[i].err # {}
    <3> SUFFICES ASSUME NEW i \in DOMAIN os
                 PROVE  os[i].err \subseteq Sentinels \ {"ctx"} /\ os[i].err # {}
      OBVIOUS
    <3>1. os[i].err # {} /\ fallthroughErr(os[i].err)
      BY <1>4 DEF Decisive
    <3>2. os[i].err # {"ctx"}
      BY <3>1 DEF fallthroughErr
    <3>3. os[i].err \subseteq Sentinels /\ "ctx" \notin os[i].err
      BY <1>2, <3>2 DEF Sound, Outcomes
    <3> QED
      BY <3>1, <3>3
  <2>2. all \in (SUBSET Sentinels) \ {{}} /\ "ctx" \notin all
    BY <1>1, <2>1
  <2>3. ChainAnswer(os) = Failed(all)
    BY <1>4 DEF ChainAnswer
  <2> QED
    BY <2>2, <2>3, FailedSound
<1> QED
  BY <1>3, <1>4

-----------------------------------------------------------------------------
(* The inductive invariant.                                                *)

\* Yesterday began when the call did: its immutable days stay so.
Settled(r, t) == r.stable = 0 \/ r.stable =< DayOf(t) - 1

Unseen(c, r) == r.pc = "done" /\ c \notin Ranges /\ r.out.err = {} => r.out.asOf =< r.asOf

CallOK(c, r, t) == r \in CallRecords /\ Reads(c, r) /\ Settled(r, t) /\ Unseen(c, r)

EntryOK(k, e) ==
  /\ k \in CacheKeys /\ e \in EntryRecords
  /\ e.out.err \cap {"unavailable", "ctx"} = {}
  /\ e.expires = Never => k.kind = "bars" /\ \A bar \in e.out.bars : Final(bar)

\* The leader of a flight is the one that flies.
Leads(c) == Key(c) \in DOMAIN inflight /\ inflight[Key(c)] = c
Leading == {"recheck", "fetch", "publish"}

IInv ==
  /\ now \in Nat /\ memo \in Int
  /\ \A k \in DOMAIN entries : EntryOK(k, entries[k])
  /\ call \in [Calls -> CallRecords]
  /\ \A c \in Calls : CallOK(c, call[c], now)
  /\ \A c \in Calls : call[c].pc \in Leading => Leads(c)
  /\ \A c \in Calls : call[c].pc = "fetch" => ~Hit(Key(c))

\* The invariant includes the types.
LEMMA Typed ==
  ASSUME IInv
  PROVE  TypeInv
BY DEF IInv, TypeInv, CallOK, EntryOK

\* A call may end with any outcome it may see.
LEMMA DoneFacts ==
  ASSUME NEW c, NEW r \in CallRecords, NEW o \in Outcomes, NEW t,
         c \notin Ranges /\ o.err = {} => o.asOf =< r.asOf
  PROVE  CallOK(c, Done(r, o), t) /\ Done(r, o).pc = "done"
<1> DEFINE q == Done(r, o)
<1>1. /\ q.pc = "done" /\ q.start = r.start /\ q.asOf = r.asOf /\ q.joined = r.joined
      /\ q.missed = r.missed /\ q.out = o /\ q.reads = <<>> /\ q.stable = 0
      /\ q.split = FALSE /\ q.bars = {}
  BY DEF Done, Idle
<1>2. Idle \in CallRecords
  <2>1. Failed({}) \in Outcomes /\ <<>> \in KeyLists
    BY DEF Failed, Outcomes, KeyLists
  <2> QED
    BY <2>1 DEF Idle, CallRecords
<1>3. q \in CallRecords
  <2> HIDE DEF Idle
  <2> QED
    BY <1>2 DEF Done, CallRecords
<1> HIDE DEF q
<1>4. q.pc \notin Busy
  BY <1>1 DEF Busy
<1>5. CallOK(c, q, t)
  BY <1>1, <1>3, <1>4 DEF CallOK, Reads, Settled, Unseen
<1> QED
  BY <1>1, <1>5 DEF q

\* A read's outcome sends its call on, never to the vendors and never to lead a flight.
LEMMA AfterReadFacts ==
  ASSUME NEW c \in Calls, NEW r, NEW t \in Int, CallOK(c, r, t), r.pc \in Busy, NEW o \in Outcomes
  PROVE  CallOK(c, AfterRead(c, r, o), t) /\ AfterRead(c, r, o).pc \in {"lookup", "direct", "done"}
<1>1. r \in CallRecords /\ Reads(c, r) /\ Settled(r, t)
  BY DEF CallOK
<1>2. ASSUME c \notin Ranges
      PROVE  /\ CallOK(c, AfterPoint(r, o), t)
             /\ AfterPoint(r, o).pc \in {"lookup", "direct", "done"}
  <2>1. CASE TooNew(r, o)
    <3> DEFINE q == [r EXCEPT !.pc = "direct"]
    <3>1. q \in CallRecords /\ q.pc = "direct" /\ q.reads = r.reads /\ q.stable = r.stable
      BY <1>1 DEF CallRecords, Busy
    <3>2. AfterPoint(r, o) = q
      BY <2>1 DEF AfterPoint
    <3> HIDE DEF q
    <3> QED
      BY <1>1, <3>1, <3>2 DEF CallOK, Reads, Settled, Unseen
  <2>2. CASE ~TooNew(r, o)
    <3>1. o.asOf =< r.asOf
      BY <1>1, <2>2 DEF TooNew, CallRecords, Outcomes
    <3> QED
      BY <1>1, <2>2, <3>1, DoneFacts DEF AfterPoint
  <2> QED
    BY <2>1, <2>2
<1>3. ASSUME c \in Ranges
      PROVE  /\ CallOK(c, AfterChunk(r, o), t)
             /\ AfterChunk(r, o).pc \in {"lookup", "direct", "done"}
  <2> DEFINE q == [r EXCEPT !.bars = @ \cup o.bars, !.missed = @ \cup o.err]
             n == [q EXCEPT !.pc = "lookup", !.reads = Tail(@)]
  <2>1. q \in CallRecords /\ q.reads = r.reads /\ q.stable = r.stable
    BY <1>1 DEF CallRecords, Outcomes
  <2>2. \A p \in Outcomes : CallOK(c, Done(r, p), t) /\ Done(r, p).pc = "done"
    BY <1>1, <1>3, DoneFacts
  <2>3. \A p \in Outcomes : CallOK(c, Done(q, p), t) /\ Done(q, p).pc = "done"
    BY <1>3, <2>1, DoneFacts
  <2>4. [o EXCEPT !.err = {}, !.bars = q.bars] \in Outcomes
    BY <2>1 DEF Outcomes, CallRecords
  <2>5. Failed(o.err \cup {"notFound"}) \in Outcomes
    BY DEF Failed, Outcomes, Sentinels
  <2>6. CASE Len(r.reads) > 1
    <3>1. r.reads \in Seq(CacheKeys)
      BY <1>1 DEF CallRecords, KeyLists
    <3>2. /\ Tail(r.reads) \in Seq(CacheKeys) /\ Tail(r.reads) # <<>>
          /\ \A i \in 1..Len(Tail(r.reads)) : i + 1 \in 1..Len(r.reads) /\ Tail(r.reads)[i] = r.reads[i + 1]
      <4> DEFINE s == r.reads
      <4>1. s \in Seq(CacheKeys) /\ Len(s) \in Nat /\ Len(s) > 1
        BY <2>6, <3>1
      <4> HIDE DEF s
      <4>2. Tail(s) \in Seq(CacheKeys) /\ Len(Tail(s)) = Len(s) - 1
        BY <4>1
      <4>3. Tail(s) # <<>>
        <5>1. Len(Tail(s)) # 0
          BY <4>1, <4>2
        <5>2. Len(<<>>) = 0
          OBVIOUS
        <5> QED
          BY <5>1, <5>2, Zenon
      <4>4. \A i \in 1..Len(Tail(s)) : i + 1 \in 1..Len(s) /\ Tail(s)[i] = s[i + 1]
        BY <4>1, <4>2
      <4> QED
        BY <4>2, <4>3, <4>4 DEF s
    <3>3. n \in CallRecords /\ n.pc = "lookup" /\ n.reads = Tail(r.reads) /\ n.stable = r.stable
      <4> HIDE DEF q
      <4> QED
        BY <2>1, <3>2 DEF CallRecords, Busy, KeyLists
    <3>4. n.pc \in Busy /\ n.pc # "done"
      BY <3>3 DEF Busy
    <3> HIDE DEF q, n
    <3>5. Reads(c, n)
      BY <1>1, <3>2, <3>3 DEF Reads
    <3>6. CallOK(c, n, t)
      BY <1>1, <3>3, <3>4, <3>5 DEF CallOK, Settled, Unseen
    <3> QED
      BY <2>2, <2>6, <3>3, <3>6 DEF AfterChunk, q, n
  <2>7. CASE ~(Len(r.reads) > 1)
    <3> HIDE DEF n
    <3> QED
      BY <2>1, <2>2, <2>3, <2>4, <2>5, <2>7 DEF AfterChunk
  <2> QED
    BY <2>6, <2>7
<1> QED
  BY <1>2, <1>3 DEF AfterRead

\* Entries are forgotten, or stay what they are.
LEMMA ForgetFacts ==
  ASSUME NEW k, Forget(k), NEW j \in DOMAIN entries'
  PROVE  j \in DOMAIN entries /\ entries'[j] = entries[j]
BY DEF Forget, Restrict

\* Storing evicts some and puts one.
LEMMA StoreFacts ==
  ASSUME now \in Nat, NEW k, NEW o, NEW ttl \in Nat, Store(k, o, ttl), NEW j \in DOMAIN entries'
  PROVE  \/ /\ j = k /\ entries'[j].out = o
            /\ entries'[j] = [out |-> o, expires |-> IF ttl > 0 THEN now + ttl ELSE Never]
         \/ j # k /\ j \in DOMAIN entries /\ entries'[j] = entries[j]
<1>1. PICK keep \in SUBSET DOMAIN entries :
        entries' = [i \in keep \cup {k} |->
          IF i = k THEN [out |-> o, expires |-> IF ttl > 0 THEN now + ttl ELSE Never]
          ELSE entries[i]]
  BY DEF Store
<1> QED
  BY <1>1

\* What is missed stays missed while no one stores it.
LEMMA ColdStays ==
  ASSUME NEW k, ~Hit(k), now \in Nat, now' \in Nat, now' >= now,
         \A j \in DOMAIN entries : entries[j] \in EntryRecords,
         k \in DOMAIN entries' => k \in DOMAIN entries /\ entries'[k] = entries[k]
  PROVE  ~Hit(k)'
<1>1. CASE k \in DOMAIN entries'
  <2>1. Expired(entries[k]) /\ entries'[k] = entries[k] /\ entries[k].expires \in Int
    BY <1>1 DEF Hit, EntryRecords
  <2>2. Expired(entries[k])'
    BY <2>1 DEF Expired, Never
  <2> QED
    BY <2>2 DEF Hit
<1> QED
  BY <1>1 DEF Hit

\* A step of one call that leaves the clock and the flights of others alone.
LEMMA CallStep ==
  ASSUME IInv, NEW c \in Calls, NEW r, CallOK(c, r, now),
         call' = [call EXCEPT ![c] = r], now' = now
  PROVE  /\ call' \in [Calls -> CallRecords]
         /\ \A d \in Calls : CallOK(d, call[d], now)'
<1>1. r \in CallRecords /\ call \in [Calls -> CallRecords]
  BY DEF IInv, CallOK
<1>2. ASSUME NEW d \in Calls
      PROVE  CallOK(d, call'[d], now)
  BY <1>1 DEF IInv
<1> QED
  BY <1>1, <1>2 DEF CallOK, Settled, Reads, Unseen

\* What the invariant says of one call.
LEMMA BusyCall ==
  ASSUME IInv, NEW c \in Calls
  PROVE  /\ call[c] \in CallRecords /\ CallOK(c, call[c], now)
         /\ Leading \subseteq Busy /\ now \in Nat
BY DEF IInv, Leading, Busy

\* Moving on within a read changes nothing but pc, joined and out.
LEMMA MoveFacts ==
  ASSUME NEW c, NEW r, NEW t, CallOK(c, r, t), r.pc \in Busy, NEW q \in CallRecords,
         q.pc \in Busy, q.reads = r.reads, q.stable = r.stable
  PROVE  CallOK(c, q, t)
BY DEF CallOK, Reads, Settled, Unseen, Busy

-----------------------------------------------------------------------------
(* Every step keeps it.                                                    *)

\* A step of one call that starts no flight and stores nothing another is fetching.
LEMMA OneMoves ==
  ASSUME IInv, NEW c \in Calls, NEW r, CallOK(c, r, now), call' = [call EXCEPT ![c] = r],
         now' = now, memo' \in Int, inflight' = inflight,
         \A k \in DOMAIN entries' : EntryOK(k, entries'[k]),
         r.pc \in Leading => call[c].pc \in Leading /\ r.reads = call[c].reads,
         r.pc = "fetch" => ~Hit(Key(c))',
         \A d \in Calls : d # c /\ call[d].pc = "fetch" /\ Key(d) \in DOMAIN entries' =>
           Key(d) \in DOMAIN entries /\ entries'[Key(d)] = entries[Key(d)]
  PROVE  IInv'
<1>1. /\ call' \in [Calls -> CallRecords]
      /\ \A d \in Calls : CallOK(d, call[d], now)'
  BY CallStep
<1>2. /\ now \in Nat /\ call \in [Calls -> CallRecords]
      /\ \A k \in DOMAIN entries : entries[k] \in EntryRecords
  BY DEF IInv, EntryOK
<1>3. ASSUME NEW d \in Calls, call'[d].pc \in Leading
      PROVE  Leads(d)'
  <2>1. call[d].pc \in Leading /\ call'[d].reads = call[d].reads
    BY <1>2, <1>3
  <2> QED
    BY <2>1 DEF IInv, Leads, Key
<1>4. ASSUME NEW d \in Calls, call'[d].pc = "fetch", d # c
      PROVE  ~Hit(Key(d))'
  <2>1. call'[d] = call[d]
    BY <1>2, <1>4
  <2>2. PICK k : k = Key(d)
    OBVIOUS
  <2>3. ~Hit(k) /\ (k \in DOMAIN entries' => k \in DOMAIN entries /\ entries'[k] = entries[k])
    BY <1>4, <2>1, <2>2 DEF IInv
  <2>4. ~Hit(k)'
    BY <1>2, <2>3, ColdStays
  <2>5. Key(d)' = k
    BY <2>1, <2>2 DEF Key
  <2> QED
    BY <2>4, <2>5
<1>5. call'[c].pc = "fetch" => ~Hit(Key(c))'
  BY <1>2
<1> QED
  BY <1>1, <1>2, <1>3, <1>4, <1>5 DEF IInv

\* What a call that begins keeps of the one before it, and what it does not.
LEMMA BeginRecord ==
  ASSUME NEW r \in CallRecords, NEW start \in Int, NEW asOf \in Int, NEW ks \in KeyLists,
         NEW stable \in Int, NEW split \in BOOLEAN
  PROVE  /\ [r EXCEPT !.pc = "lookup", !.start = start, !.asOf = asOf, !.reads = ks] \in CallRecords
         /\ [r EXCEPT !.pc = "lookup", !.start = start, !.stable = stable, !.split = split,
                      !.reads = ks] \in CallRecords
<1>1. "lookup" \in Busy
  BY DEF Busy
<1>2. [r EXCEPT !.pc = "lookup", !.start = start, !.asOf = asOf, !.reads = ks] \in CallRecords
  BY <1>1 DEF CallRecords
<1>3. [r EXCEPT !.pc = "lookup", !.start = start, !.stable = stable, !.split = split,
                !.reads = ks] \in CallRecords
  BY <1>1 DEF CallRecords
<1> QED
  BY <1>2, <1>3

\* A call begins with keys of its kind and the present Stable.
LEMMA BeginStep ==
  ASSUME IInv, NEW c \in Calls, Begin(c)
  PROVE  IInv'
<1>1. /\ call[c] \in CallRecords /\ now \in Nat /\ memo' \in Int /\ now' = now
      /\ entries' = entries /\ inflight' = inflight
  BY BusyCall DEF Begin, IInv
<1>2. ASSUME NEW r, CallOK(c, r, now), r.pc = "lookup", call' = [call EXCEPT ![c] = r]
      PROVE  IInv'
  <2>1. r.pc \notin Leading /\ r.pc # "fetch"
    BY <1>2 DEF Leading
  <2>2. \A k \in DOMAIN entries' : EntryOK(k, entries'[k])
    BY <1>1 DEF IInv
  <2> QED
    BY <1>1, <1>2, <2>1, <2>2, OneMoves
<1>3. ASSUME NEW asOf \in (now - 1)..now, BeginPoint(c, asOf), c \notin Ranges
      PROVE  IInv'
  <2> DEFINE k == PointKey(c, asOf)
             r == [call[c] EXCEPT !.pc = "lookup", !.start = now, !.asOf = asOf, !.reads = <<k>>]
  <2>1. asOf \in Int /\ PointTTL \in Nat \ {0}
    BY <1>1, MarketAssumption
  <2>2. k \in CacheKeys /\ k.kind # "bars"
    BY <2>1 DEF PointKey, CacheKeys
  <2>3. call' = [call EXCEPT ![c] = r]
    BY <1>1, <1>3 DEF BeginPoint, IInv
  <2> HIDE DEF k
  <2>4. <<k>> \in Seq(CacheKeys) /\ <<k>> # <<>> /\ Len(<<k>>) = 1 /\ <<k>>[1] = k
    BY <2>2
  <2>5. /\ r \in CallRecords /\ r.pc = "lookup" /\ r.reads = <<k>> /\ r.stable = call[c].stable
    <3>1. <<k>> \in KeyLists /\ now \in Int
      BY <1>1, <2>4 DEF KeyLists
    <3>2. r \in CallRecords
      BY <1>1, <2>1, <3>1, BeginRecord, Zenon
    <3> QED
      BY <1>1, <3>2 DEF CallRecords
  <2> HIDE DEF r
  <2>6. Reads(c, r)
    BY <1>3, <2>2, <2>4, <2>5 DEF Reads
  <2>7. CallOK(c, r, now)
    BY <2>5, <2>6, BusyCall DEF CallOK, Settled, Unseen
  <2> QED
    BY <1>2, <2>3, <2>5, <2>7
<1>4. ASSUME NEW to \in 0..DayOf(now), NEW from \in Nat, BeginRange(c, from, to), c \in Ranges
      PROVE  IInv'
  <2> DEFINE split == from < Stable /\ to >= Stable
             ks == IF split THEN <<BarsKey(from, Stable - 1), BarsKey(Stable, to)>>
                            ELSE <<BarsKey(from, to)>>
             r  == [call[c] EXCEPT !.pc = "lookup", !.start = now, !.stable = Stable,
                                   !.split = split, !.reads = ks]
  <2>1. /\ DayOf(now) \in Int /\ to \in Nat /\ Stable \in Nat
        /\ Stable = 0 \/ Stable =< DayOf(now) - 1
    <3>1. DayOf(now) \in Int
      BY <1>1, Day
    <3>2. to \in Nat /\ DayOf(now) \in Nat
      BY <3>1
    <3> QED
      BY <3>2 DEF Stable
  <2>2. \A a, b \in Nat : BarsKey(a, b) \in CacheKeys /\ BarsKey(a, b).kind = "bars" /\ BarsKey(a, b).to = b
    BY DEF BarsKey, CacheKeys
  <2>3. call' = [call EXCEPT ![c] = r]
    BY <1>1, <1>4 DEF BeginRange, IInv
  <2>4. /\ ks \in Seq(CacheKeys) /\ ks # <<>>
        /\ \A i \in 1..Len(ks) : ks[i].kind = "bars" /\ ks[i].to >= 0
    <3>1. CASE split
      <4>1. Stable - 1 \in Nat
        BY <2>1, <3>1
      <4> DEFINE a == BarsKey(from, Stable - 1)
                 b == BarsKey(Stable, to)
      <4>2. /\ a \in CacheKeys /\ b \in CacheKeys /\ a.kind = "bars" /\ b.kind = "bars"
            /\ a.to >= 0 /\ b.to >= 0
        BY <2>1, <2>2, <4>1
      <4>3. ks = <<a, b>>
        BY <3>1
      <4> HIDE DEF a, b, ks
      <4>4. /\ <<a, b>> \in Seq(CacheKeys) /\ <<a, b>> # <<>> /\ Len(<<a, b>>) = 2
            /\ <<a, b>>[1] = a /\ <<a, b>>[2] = b
        BY <4>2
      <4> QED
        BY <4>2, <4>3, <4>4
    <3>2. CASE ~split
      <4> DEFINE a == BarsKey(from, to)
      <4>1. a \in CacheKeys /\ a.kind = "bars" /\ a.to >= 0
        BY <2>1, <2>2
      <4>2. ks = <<a>>
        BY <3>2
      <4> HIDE DEF a, ks
      <4>3. <<a>> \in Seq(CacheKeys) /\ <<a>> # <<>> /\ Len(<<a>>) = 1 /\ <<a>>[1] = a
        BY <4>1
      <4> QED
        BY <4>1, <4>2, <4>3
    <3> QED
      BY <3>1, <3>2
  <2>5. split \in BOOLEAN
    OBVIOUS
  <2> HIDE DEF split, ks
  <2>6. r \in CallRecords /\ r.pc = "lookup" /\ r.reads = ks /\ r.stable = Stable
    <3>1. ks \in KeyLists /\ now \in Int /\ Stable \in Int
      BY <1>1, <2>1, <2>4 DEF KeyLists
    <3>2. r \in CallRecords
      BY <1>1, <2>5, <3>1, BeginRecord, Zenon
    <3> QED
      BY <1>1, <3>2 DEF CallRecords
  <2> HIDE DEF r
  <2>7. CallOK(c, r, now)
    BY <1>4, <2>1, <2>4, <2>6 DEF CallOK, Reads, Settled, Unseen
  <2> QED
    BY <1>2, <2>3, <2>6, <2>7
<1>5. CASE c \notin Ranges
  BY <1>3, <1>5 DEF Begin
<1>6. CASE c \in Ranges
  <2>1. PICK to \in 0..DayOf(now) : BeginRange(c, IF to < Lookback THEN 0 ELSE to - Lookback, to)
    BY <1>6 DEF Begin
  <2>2. DayOf(now) \in Int /\ to \in Nat /\ Lookback \in Nat
    <3>1. DayOf(now) \in Int
      BY <1>1, Day
    <3>2. to \in Nat
      BY <3>1
    <3> QED
      BY <3>1, <3>2, MarketAssumption
  <2>3. (IF to < Lookback THEN 0 ELSE to - Lookback) \in Nat
    BY <2>2
  <2> QED
    BY <1>4, <1>6, <2>1, <2>3
<1> QED
  BY <1>5, <1>6

\* The entries and the lookups of others after a step that only forgets.
LEMMA ForgetKeeps ==
  ASSUME IInv, NEW k, Forget(k)
  PROVE  /\ \A j \in DOMAIN entries' : EntryOK(j, entries'[j])
         /\ \A j : j \in DOMAIN entries' => j \in DOMAIN entries /\ entries'[j] = entries[j]
BY ForgetFacts DEF IInv

\* The first lookup: a hit ends the read, a miss goes on to once.
LEMMA LookupStep ==
  ASSUME IInv, NEW c \in Calls, Lookup(c)
  PROVE  IInv'
<1> DEFINE o == entries[Key(c)].out
           r == IF Hit(Key(c)) /\ ~TooNew(call[c], o) THEN AfterRead(c, call[c], o)
                ELSE [call[c] EXCEPT !.pc = "once"]
<1>1. /\ call[c] \in CallRecords /\ CallOK(c, call[c], now) /\ now \in Nat
      /\ call[c].pc = "lookup" /\ call[c].pc \in Busy
  BY BusyCall DEF Lookup, Busy
<1>2. /\ now' = now /\ inflight' = inflight /\ memo' \in Int
      /\ call' = [call EXCEPT ![c] = r]
  BY DEF Lookup, IInv
<1>3. CallOK(c, r, now) /\ r.pc \in {"lookup", "direct", "done", "once"}
  <2>1. CASE Hit(Key(c)) /\ ~TooNew(call[c], o)
    <3>1. o \in Outcomes
      BY <2>1 DEF Hit, IInv, EntryOK, EntryRecords
    <3> HIDE DEF o
    <3> QED
      BY <1>1, <2>1, <3>1, AfterReadFacts
  <2>2. CASE ~(Hit(Key(c)) /\ ~TooNew(call[c], o))
    <3> DEFINE q == [call[c] EXCEPT !.pc = "once"]
    <3>1. /\ q \in CallRecords /\ q.pc = "once" /\ q.reads = call[c].reads
          /\ q.stable = call[c].stable /\ q.pc \in Busy
      BY <1>1 DEF CallRecords, Busy
    <3>2. r = q
      BY <2>2
    <3> HIDE DEF q
    <3> QED
      BY <1>1, <3>1, <3>2, MoveFacts
  <2> QED
    BY <2>1, <2>2
<1> HIDE DEF r
<1>4. r.pc \notin Leading /\ r.pc # "fetch"
  BY <1>3 DEF Leading
<1>5. /\ \A j \in DOMAIN entries' : EntryOK(j, entries'[j])
      /\ \A j : j \in DOMAIN entries' => j \in DOMAIN entries /\ entries'[j] = entries[j]
  BY ForgetKeeps DEF Lookup
<1> QED
  BY <1>2, <1>3, <1>4, <1>5, OneMoves

\* Joining a flight changes nothing; leading one opens the flight of a key that had none.
LEMMA OnceStep ==
  ASSUME IInv, NEW c \in Calls, Once(c)
  PROVE  IInv'
<1>1. /\ call[c] \in CallRecords /\ CallOK(c, call[c], now) /\ now \in Nat
      /\ call[c].pc = "once" /\ call[c].pc \in Busy
  BY BusyCall DEF Once, Busy
<1>2. now' = now /\ memo' = memo /\ memo' \in Int /\ entries' = entries
  BY DEF Once, IInv
<1>3. CASE Joins(Key(c))
  <2> DEFINE r == [call[c] EXCEPT !.pc = "wait", !.joined = TRUE]
  <2>1. call' = [call EXCEPT ![c] = r] /\ inflight' = inflight
    BY <1>1, <1>3 DEF Once, IInv
  <2>2. /\ r \in CallRecords /\ r.pc = "wait" /\ r.reads = call[c].reads
        /\ r.stable = call[c].stable /\ r.pc \in Busy
    BY <1>1 DEF CallRecords, Busy
  <2> HIDE DEF r
  <2>3. CallOK(c, r, now) /\ r.pc \notin Leading /\ r.pc # "fetch"
    BY <1>1, <2>2, MoveFacts DEF Leading
  <2>4. \A j \in DOMAIN entries' : EntryOK(j, entries'[j])
    BY <1>2 DEF IInv
  <2> QED
    BY <1>2, <2>1, <2>3, <2>4, OneMoves
<1>4. CASE ~Joins(Key(c))
  <2> DEFINE r == [call[c] EXCEPT !.pc = "recheck"]
  <2>1. /\ call' = [call EXCEPT ![c] = r]
        /\ inflight' = [k \in DOMAIN inflight \cup {Key(c)} |-> IF k = Key(c) THEN c ELSE inflight[k]]
        /\ Key(c) \notin DOMAIN inflight
    BY <1>1, <1>4 DEF Once, IInv, Joins
  <2>2. /\ r \in CallRecords /\ r.pc = "recheck" /\ r.reads = call[c].reads
        /\ r.stable = call[c].stable /\ r.pc \in Busy
    BY <1>1 DEF CallRecords, Busy
  <2> HIDE DEF r
  <2>3. CallOK(c, r, now)
    BY <1>1, <2>2, MoveFacts
  <2>4. /\ call' \in [Calls -> CallRecords]
        /\ \A d \in Calls : CallOK(d, call[d], now)'
    BY <1>2, <2>1, <2>3, CallStep
  <2>5. /\ call'[c] = r
        /\ \A d \in Calls : d # c => call'[d] = call[d]
    BY <2>1 DEF IInv
  <2>6. ASSUME NEW d \in Calls, call'[d].pc \in Leading
        PROVE  Leads(d)'
    <3>1. CASE d = c
      <4>1. Key(d)' = Key(c)
        BY <2>2, <2>5, <3>1 DEF Key
      <4> QED
        BY <2>1, <3>1, <4>1 DEF Leads
    <3>2. CASE d # c
      <4>1. call'[d] = call[d]
        BY <2>5, <3>2
      <4>2. Key(d)' = Key(d) /\ Leads(d)
        BY <2>6, <4>1 DEF Key, IInv
      <4> QED
        BY <2>1, <4>2 DEF Leads
    <3> QED
      BY <3>1, <3>2
  <2>7. ASSUME NEW d \in Calls, call'[d].pc = "fetch"
        PROVE  ~Hit(Key(d))'
    <3>1. d # c /\ call'[d] = call[d]
      BY <2>2, <2>5, <2>7
    <3>2. ~Hit(Key(d)) /\ Key(d)' = Key(d)
      BY <2>7, <3>1 DEF IInv, Key
    <3> QED
      BY <1>2, <3>2 DEF Hit, Expired
  <2> QED
    BY <1>2, <2>4, <2>6, <2>7 DEF IInv
<1> QED
  BY <1>3, <1>4

\* The leader either misses, and the key is cold, or publishes what is cached.
LEMMA RecheckStep ==
  ASSUME IInv, NEW c \in Calls, Recheck(c)
  PROVE  IInv'
<1> DEFINE o == entries[Key(c)].out
           r == IF LeaderMisses(Key(c)) THEN [call[c] EXCEPT !.pc = "fetch"]
                ELSE [call[c] EXCEPT !.pc = "publish", !.out = o]
<1>1. /\ call[c] \in CallRecords /\ CallOK(c, call[c], now) /\ now \in Nat
      /\ call[c].pc = "recheck" /\ call[c].pc \in Busy /\ call[c].pc \in Leading
  BY BusyCall DEF Recheck, Busy, Leading
<1>2. /\ now' = now /\ inflight' = inflight /\ memo' \in Int
      /\ call' = [call EXCEPT ![c] = r] /\ Forget(Key(c))
  BY DEF Recheck, IInv
<1>3. /\ \A j \in DOMAIN entries' : EntryOK(j, entries'[j])
      /\ \A j : j \in DOMAIN entries' => j \in DOMAIN entries /\ entries'[j] = entries[j]
  BY <1>2, ForgetKeeps
<1>4. CallOK(c, r, now) /\ r.reads = call[c].reads /\ (r.pc = "fetch" => ~Hit(Key(c)))
  <2>1. CASE LeaderMisses(Key(c))
    <3>1. /\ r \in CallRecords /\ r.pc \in Busy /\ r.reads = call[c].reads
          /\ r.stable = call[c].stable
      BY <1>1, <2>1 DEF CallRecords, Busy
    <3> HIDE DEF r
    <3> QED
      BY <1>1, <2>1, <3>1, MoveFacts DEF LeaderMisses
  <2>2. CASE ~LeaderMisses(Key(c))
    <3>1. o \in Outcomes
      BY <2>2 DEF LeaderMisses, Hit, IInv, EntryOK, EntryRecords
    <3> HIDE DEF o
    <3>2. /\ r \in CallRecords /\ r.pc \in Busy /\ r.reads = call[c].reads
          /\ r.stable = call[c].stable /\ r.pc # "fetch"
      BY <1>1, <2>2, <3>1 DEF CallRecords, Busy
    <3> HIDE DEF r
    <3> QED
      BY <1>1, <3>2, MoveFacts
  <2> QED
    BY <2>1, <2>2
<1> HIDE DEF r
<1>5. r.pc = "fetch" => ~Hit(Key(c))'
  <2> SUFFICES ASSUME r.pc = "fetch"
               PROVE  ~Hit(Key(c))'
    OBVIOUS
  <2>1. PICK k : k = Key(c)
    OBVIOUS
  <2>2. Key(c)' = k
    BY <1>2, <1>4, <2>1 DEF Key, IInv
  <2>3. \A j \in DOMAIN entries : entries[j] \in EntryRecords
    BY DEF IInv, EntryOK
  <2>4. ~Hit(k)'
    BY <1>1, <1>2, <1>3, <1>4, <2>1, <2>3, ColdStays
  <2> QED
    BY <2>2, <2>4
<1> QED
  BY <1>1, <1>2, <1>3, <1>4, <1>5, OneMoves

\* What a fetch stores is no outage, and for good only if it is final.
LEMMA StoredIsSound ==
  ASSUME IInv, NEW c \in Calls, call[c].pc \in Busy, NEW o, Sound(c, Key(c), o),
         StorePolicy(c, Key(c), o), NEW j \in DOMAIN entries'
  PROVE  /\ EntryOK(j, entries'[j])
         /\ j # Key(c) => j \in DOMAIN entries /\ entries'[j] = entries[j]
<1> DEFINE k == Key(c)
<1>1. /\ k \in CacheKeys /\ (k.kind = "bars" <=> c \in Ranges) /\ (c \in Ranges => k.to >= 0)
      /\ k.to \in Int /\ now \in Nat /\ TTL(c) \in Nat \ {0} /\ o \in Outcomes
  <2>1. TypeInv
    BY Typed
  <2>2. /\ k \in CacheKeys /\ (k.kind = "bars" <=> c \in Ranges) /\ (c \in Ranges => k.to >= 0)
    BY <2>1, KeyType
  <2>3. TTL(c) \in Nat \ {0}
    BY MarketAssumption DEF TTL
  <2> QED
    BY <2>2, <2>3 DEF CacheKeys, Sound, IInv
<1> HIDE DEF k
<1>2. ASSUME NEW ttl \in Nat, Store(k, o, ttl), o.err \cap {"unavailable", "ctx"} = {},
             ttl = 0 => k.kind = "bars" /\ \A bar \in o.bars : Final(bar)
      PROVE  /\ EntryOK(j, entries'[j])
             /\ j # k => j \in DOMAIN entries /\ entries'[j] = entries[j]
  <2>1. CASE j # k
    BY <1>1, <1>2, <2>1, StoreFacts DEF IInv
  <2>2. CASE j = k
    <3> DEFINE e == [out |-> o, expires |-> IF ttl > 0 THEN now + ttl ELSE Never]
    <3>1. entries'[j] = e
      BY <1>1, <1>2, <2>2, StoreFacts
    <3>2. /\ e \in EntryRecords /\ e.out = o /\ (e.expires = Never => ttl = 0)
      BY <1>1, <1>2 DEF EntryRecords, Never
    <3> HIDE DEF e
    <3> QED
      BY <1>1, <1>2, <2>2, <3>1, <3>2 DEF EntryOK
  <2> QED
    BY <2>1, <2>2
<1>3. CASE o.err # {} /\ cacheableErr(o.err)
  <2>1. o.err \cap {"unavailable", "ctx"} = {}
    BY <1>3 DEF cacheableErr, Sound
  <2> QED
    BY <1>1, <1>2, <1>3, <2>1 DEF StorePolicy, k
<1>4. CASE o.err # {} /\ ~cacheableErr(o.err)
  BY <1>4 DEF StorePolicy, k, IInv
<1>5. CASE o.err = {} /\ c \in Ranges /\ k.to < call[c].stable
  <2>1. Settled(call[c], now) /\ call[c].stable \in Int
    BY DEF IInv, CallOK, CallRecords
  <2>2. DayOf(now) \in Int /\ call[c].stable =< DayOf(now) - 1
    BY <1>1, <1>5, <2>1, Day DEF Settled
  <2>3. ASSUME NEW bar \in o.bars
        PROVE  Final(bar)
    <3>1. bar[1] =< k.to /\ bar[2] = now /\ bar[1] \in Int
      BY <1>1, <1>5, <2>3 DEF Sound, Outcomes, k
    <3>2. bar[1] + 2 =< DayOf(now)
      BY <1>1, <1>5, <2>1, <2>2, <3>1
    <3> QED
      BY <2>2, <3>1, <3>2 DEF Final
  <2> QED
    BY <1>1, <1>2, <1>5, <2>3 DEF StorePolicy, k
<1>6. CASE o.err = {} /\ ~(c \in Ranges /\ k.to < call[c].stable)
  BY <1>1, <1>2, <1>6 DEF StorePolicy, k
<1> QED
  BY <1>3, <1>4, <1>5, <1>6 DEF k

\* The memo holds a time.
LEMMA MemoTyped ==
  ASSUME IInv, NEW c, NEW os
  PROVE  Memoised(c, os) \in Int
BY DEF IInv, Memoised

\* The leader of one key stores under that key: what others fetch stays cold.
LEMMA FetchStep ==
  ASSUME IInv, NEW c \in Calls, Fetch(c)
  PROVE  IInv'
<1>1. PICK os \in VendorAnswers(c, Key(c)) :
        /\ memo' = Memoised(c, os)
        /\ StorePolicy(c, Key(c), ChainAnswer(os))
        /\ call' = [call EXCEPT ![c] = [@ EXCEPT !.pc = "publish", !.out = ChainAnswer(os)]]
  BY DEF Fetch
<1> DEFINE o == ChainAnswer(os)
           r == [call[c] EXCEPT !.pc = "publish", !.out = o]
<1>2. /\ call[c] \in CallRecords /\ CallOK(c, call[c], now) /\ now \in Nat
      /\ call[c].pc = "fetch" /\ call[c].pc \in Busy /\ call[c].pc \in Leading
  BY BusyCall DEF Fetch, Busy, Leading
<1>3. now' = now /\ inflight' = inflight /\ memo' \in Int /\ call' = [call EXCEPT ![c] = r]
  BY <1>1, MemoTyped DEF Fetch, IInv
<1>4. Sound(c, Key(c), o)
  BY <1>2, Typed, ChainSound
<1>5. \A j \in DOMAIN entries' :
        /\ EntryOK(j, entries'[j])
        /\ j # Key(c) => j \in DOMAIN entries /\ entries'[j] = entries[j]
  BY <1>1, <1>2, <1>4, StoredIsSound
<1>6. o \in Outcomes
  BY <1>4 DEF Sound
<1> HIDE DEF o
<1>7. /\ r \in CallRecords /\ r.pc = "publish" /\ r.pc \in Busy /\ r.reads = call[c].reads
      /\ r.stable = call[c].stable
  BY <1>2, <1>6 DEF CallRecords, Busy
<1> HIDE DEF r
<1>8. CallOK(c, r, now) /\ r.pc # "fetch"
  BY <1>2, <1>7, MoveFacts
<1>9. ASSUME NEW d \in Calls, d # c, call[d].pc = "fetch", Key(d) \in DOMAIN entries'
      PROVE  Key(d) \in DOMAIN entries /\ entries'[Key(d)] = entries[Key(d)]
  <2>1. Leads(d) /\ Leads(c)
    BY <1>2, <1>9 DEF IInv, Leading
  <2>2. Key(d) # Key(c)
    BY <1>9, <2>1 DEF Leads
  <2> QED
    BY <1>5, <1>9, <2>2
<1> QED
  BY <1>2, <1>3, <1>5, <1>7, <1>8, <1>9, OneMoves

\* A call past the cache ends with what the chain may show it.
LEMMA DirectStep ==
  ASSUME IInv, NEW c \in Calls, Direct(c)
  PROVE  IInv'
<1>1. PICK os \in VendorAnswers(c, Key(c)) :
        /\ memo' = Memoised(c, os)
        /\ call' = [call EXCEPT ![c] = Done(@, ChainAnswer(os))]
  BY DEF Direct
<1> DEFINE o == ChainAnswer(os)
           r == Done(call[c], o)
<1>2. /\ call[c] \in CallRecords /\ now \in Nat
      /\ call[c].pc = "direct" /\ call[c].pc \in Busy
  BY BusyCall DEF Direct, Busy
<1>3. /\ now' = now /\ inflight' = inflight /\ memo' \in Int /\ entries' = entries
      /\ call' = [call EXCEPT ![c] = r]
  BY <1>1, MemoTyped DEF Direct, IInv
<1>4. Sound(c, Key(c), o)
  BY <1>2, Typed, ChainSound
<1> HIDE DEF o
<1>5. CallOK(c, r, now) /\ r.pc = "done"
  BY <1>2, <1>4, DoneFacts DEF Sound
<1> HIDE DEF r
<1>6. r.pc \notin Leading /\ r.pc # "fetch"
  BY <1>5 DEF Leading
<1>7. \A j \in DOMAIN entries' : EntryOK(j, entries'[j])
  BY <1>3 DEF IInv
<1> QED
  BY <1>3, <1>5, <1>6, <1>7, OneMoves

\* Publishing retires the leader's own flight and sends its sharers on.
LEMMA PublishStep ==
  ASSUME IInv, NEW c \in Calls, Publish(c)
  PROVE  IInv'
<1>1. /\ call[c] \in CallRecords /\ now \in Nat /\ call[c].pc = "publish" /\ Leads(c)
      /\ call[c].out \in Outcomes
  BY DEF Publish, IInv, Leading, CallRecords
<1>2. /\ now' = now /\ memo' = memo /\ entries' = entries
      /\ inflight' = Restrict(inflight, DOMAIN inflight \ {Key(c)})
      /\ call' = [d \in Calls |-> IF Shares(c, d) THEN AfterRead(d, call[d], call[c].out)
                                   ELSE call[d]]
  BY DEF Publish
<1>3. ASSUME NEW d \in Calls
      PROVE  /\ call'[d] \in CallRecords /\ CallOK(d, call'[d], now)
             /\ call'[d].pc \in Leading => d # c /\ call'[d] = call[d]
  <2>1. CASE Shares(c, d)
    <3>1. call[d].pc \in Busy /\ CallOK(d, call[d], now) /\ now \in Int
      BY <1>1, <2>1 DEF Shares, IInv, Busy
    <3>2. /\ CallOK(d, AfterRead(d, call[d], call[c].out), now)
          /\ AfterRead(d, call[d], call[c].out).pc \in {"lookup", "direct", "done"}
      BY <1>1, <3>1, AfterReadFacts
    <3>3. call'[d] = AfterRead(d, call[d], call[c].out)
      BY <1>2, <2>1
    <3> QED
      BY <3>2, <3>3 DEF Leading, CallOK
  <2>2. CASE ~Shares(c, d)
    BY <1>2, <2>2 DEF IInv, Shares
  <2> QED
    BY <2>1, <2>2
<1>4. /\ call' \in [Calls -> CallRecords]
      /\ \A d \in Calls : CallOK(d, call[d], now)'
  BY <1>2, <1>3 DEF CallOK, Settled, Reads, Unseen
<1>5. ASSUME NEW d \in Calls, call'[d].pc \in Leading
      PROVE  Leads(d)'
  <2>1. d # c /\ call'[d] = call[d] /\ Leads(d) /\ Key(d)' = Key(d)
    BY <1>3, <1>5 DEF IInv, Key
  <2>2. Key(d) # Key(c)
    BY <1>1, <2>1 DEF Leads
  <2> QED
    BY <1>2, <2>1, <2>2 DEF Leads, Restrict
<1>6. ASSUME NEW d \in Calls, call'[d].pc = "fetch"
      PROVE  ~Hit(Key(d))'
  <2>1. call'[d] = call[d] /\ ~Hit(Key(d)) /\ Key(d)' = Key(d)
    BY <1>3, <1>6 DEF IInv, Key, Leading
  <2> QED
    BY <1>2, <2>1 DEF Hit, Expired
<1> QED
  BY <1>2, <1>4, <1>5, <1>6 DEF IInv

\* Time expires entries and revives none.
LEMMA TickStep ==
  ASSUME IInv, Tick
  PROVE  IInv'
<1>1. /\ now' = now + 1 /\ now \in Nat /\ now' \in Nat
      /\ UNCHANGED <<entries, inflight, memo, call>>
  BY DEF Tick, IInv
<1>2. DayOf(now) \in Int /\ DayOf(now') \in Int /\ DayOf(now) =< DayOf(now')
  BY <1>1, Day, DayMonotone
<1>3. \A c \in Calls : CallOK(c, call[c], now)'
  <2> SUFFICES ASSUME NEW c \in Calls
               PROVE  CallOK(c, call[c], now)'
    OBVIOUS
  <2>1. CallOK(c, call[c], now) /\ call[c].stable \in Int
    BY DEF IInv, CallOK, CallRecords
  <2>2. Settled(call[c], now')
    BY <1>2, <2>1 DEF CallOK, Settled
  <2> QED
    BY <1>1, <2>1, <2>2 DEF CallOK, Settled, Reads, Unseen
<1>4. \A c \in Calls : call'[c].pc \in Leading => Leads(c)'
  BY <1>1 DEF IInv, Leads, Key
<1>5. ASSUME NEW c \in Calls, call'[c].pc = "fetch"
      PROVE  ~Hit(Key(c))'
  <2>1. PICK k : k = Key(c)
    OBVIOUS
  <2>2. ~Hit(k) /\ Key(c)' = k
    BY <1>1, <1>5, <2>1 DEF IInv, Key
  <2>3. \A j \in DOMAIN entries : entries[j] \in EntryRecords
    BY DEF IInv, EntryOK
  <2>4. ~Hit(k)'
    BY <1>1, <2>2, <2>3, ColdStays
  <2> QED
    BY <2>2, <2>4
<1> QED
  BY <1>1, <1>3, <1>4, <1>5 DEF IInv

\* The cache starts empty and every call idle.
LEMMA InitIInv ==
  ASSUME Init
  PROVE  IInv
<1>1. /\ now \in Nat /\ memo \in Int /\ DOMAIN entries = {}
      /\ call = [c \in Calls |-> Idle]
  BY MarketAssumption DEF Init, None
<1>2. Idle \in CallRecords
  <2>1. Failed({}) \in Outcomes /\ <<>> \in KeyLists
    BY DEF Failed, Outcomes, KeyLists
  <2> QED
    BY <2>1 DEF Idle, CallRecords
<1>3. \A c \in Calls : call[c] = Idle
  BY <1>1
<1>4. /\ Idle.pc = "idle" /\ Idle.stable = 0
  BY DEF Idle
<1>5. \A c \in Calls : CallOK(c, call[c], now)
  BY <1>2, <1>3, <1>4 DEF CallOK, Reads, Settled, Unseen, Busy
<1>6. /\ \A c \in Calls : call[c].pc \notin Leading /\ call[c].pc # "fetch"
      /\ call \in [Calls -> CallRecords]
  BY <1>1, <1>2, <1>3, <1>4 DEF Leading
<1> QED
  BY <1>1, <1>5, <1>6 DEF IInv

\* The invariant is inductive.
LEMMA NextIInv ==
  ASSUME IInv, [Next]_vars
  PROVE  IInv'
<1>1. CASE Next
  BY <1>1, TickStep, BeginStep, LookupStep, OnceStep, RecheckStep, FetchStep, PublishStep,
     DirectStep DEF Next, Step
<1>2. CASE UNCHANGED vars
  BY <1>2 DEF vars, IInv, EntryOK, CallOK, Reads, Settled, Unseen, Leads, Key, Hit, Expired, Final
<1> QED
  BY <1>1, <1>2

\* The invariant behind the theorems: entries and answers are sound, each flight has
\* one leader, who leads it until it publishes (CachingProvider.once).
THEOREM Invariant == Spec => []IInv
<1>1. Init => IInv
  BY InitIInv
<1>2. IInv /\ [Next]_vars => IInv'
  BY NextIInv
<1> QED
  BY <1>1, <1>2, PTL DEF Spec

-----------------------------------------------------------------------------
(* The theorems.                                                           *)

\* No quote or fundamentals call, however it got its value, is answered with one dated
\* after its asOf (CachingProvider.Quote, CachingProvider.Fundamentals, quoteFromBars).
THEOREM Lookahead == Spec => []NoLookahead
<1>1. IInv => NoLookahead
  <2> SUFFICES ASSUME IInv, NEW c \in Quotes \cup Funds, Answered(c)
               PROVE  call[c].out.asOf =< call[c].asOf
    BY DEF NoLookahead
  <2>1. c \in Calls /\ c \notin Ranges
    BY MarketAssumption DEF Calls
  <2>2. Unseen(c, call[c])
    BY <2>1 DEF IInv, CallOK
  <2> QED
    BY <2>1, <2>2 DEF Unseen, Answered
<1> QED
  BY <1>1, Invariant, PTL

\* No error that wraps a transient one is ever remembered, for any chain of vendors and
\* any mix of their errors (ChainProvider, cacheableErr, CachingProvider.once).
THEOREM Outage == Spec => []OutagesAreNotCached
<1>1. IInv => OutagesAreNotCached
  BY DEF IInv, EntryOK, OutagesAreNotCached
<1> QED
  BY <1>1, Invariant, PTL

\* Only bars that no vendor will still revise are kept without expiry, whatever the
\* ranges, TTLs and the hours between a call's start and its fetch (barsRange, store).
THEOREM Frozen == Spec => []FrozenIsFinal
<1>1. IInv => FrozenIsFinal
  BY DEF IInv, EntryOK, FrozenIsFinal
<1> QED
  BY <1>1, Invariant, PTL

\* Whoever asks the vendors leads the key's only flight and the cache holds nothing it
\* could have used, for any number of calls (CachingProvider.once).
THEOREM Cold == Spec => []FetchesWhenCold
<1>1. IInv => FetchesWhenCold
  <2> SUFFICES ASSUME IInv, NEW c \in Calls, call[c].pc = "fetch"
               PROVE  inflight[Key(c)] = c /\ ~Hit(Key(c))
    BY DEF FetchesWhenCold
  <2>1. Leads(c) /\ ~Hit(Key(c))
    BY DEF IInv, Leading
  <2> QED
    BY <2>1 DEF Leads
<1> QED
  BY <1>1, Invariant, PTL

-----------------------------------------------------------------------------
(* Freshness.                                                              *)

FreshBar(bar, s) == bar[2] + BarsTTL >= s \/ Final(bar)

\* An outcome that a call which began at s may be answered with.
FreshFor(c, o, s) ==
  /\ c \notin Ranges /\ o.err = {} => o.at + PointTTL + MemoTTL >= s
  /\ \A bar \in o.bars : FreshBar(bar, s)

\* What was obtained this moment, but for the vendor's memo.
New(c, o) ==
  /\ o.err = {} /\ c \notin Ranges => o.at + MemoTTL >= now
  /\ c \notin Ranges => o.bars = {}
  /\ \A bar \in o.bars : bar[2] = now

\* An entry expires before what it holds is too old.
EntryFresh(k, e) ==
  /\ k.kind # "bars" => /\ e.out.bars = {}
                        /\ e.out.err = {} => e.out.at + PointTTL + MemoTTL >= e.expires
  /\ k.kind = "bars" /\ e.expires # Never => \A bar \in e.out.bars : bar[2] + BarsTTL >= e.expires

\* A call that led its own flights has only seen fresh outcomes.
CallFresh(c, r, t) ==
  /\ r.start <= t
  /\ r.pc = "idle" => r.bars = {}
  /\ r.pc = "wait" => r.joined
  /\ ~r.joined => /\ \A bar \in r.bars : FreshBar(bar, r.start)
                  /\ r.pc \in {"publish", "done"} => FreshFor(c, r.out, r.start)

FreshInv ==
  /\ \A k \in DOMAIN entries : EntryFresh(k, entries[k])
  /\ \A c \in Calls : CallFresh(c, call[c], now)

\* Errors carry no bars.
LEMMA FailedNew ==
  ASSUME NEW c, NEW e, e # {}
  PROVE  New(c, Failed(e)) /\ Failed(e).bars = {}
BY DEF New, Failed

\* A live quote comes from the vendor or from a memo that is young enough (liveQuote).
LEMMA LiveNew ==
  ASSUME TypeInv, NEW c, NEW asOf \in Int, NEW o \in LiveQuote(asOf)
  PROVE  New(c, o)
<1>1. now \in Nat /\ memo \in Int /\ MemoTTL \in Nat
  BY MarketAssumption DEF TypeInv
<1>2. ASSUME NEW a \in Int, NEW t \in Int, t + MemoTTL >= now
      PROVE  New(c, Value(a, t))
  <2>1. Value(a, t).at = t /\ Value(a, t).bars = {}
    BY DEF Value
  <2> QED
    BY <1>2, <2>1 DEF New
<1>3. CASE o \in HTTPErrors
  BY <1>3, FailedNew DEF HTTPErrors
<1>4. CASE o \notin HTTPErrors /\ MemoHit
  <2>1. o = Value(Earlier(memo, asOf), memo)
    BY <1>4 DEF LiveQuote
  <2>2. Earlier(memo, asOf) \in Int /\ memo + MemoTTL >= now
    BY <1>1, <1>4 DEF MemoHit, Earlier
  <2> QED
    BY <1>1, <1>2, <2>1, <2>2
<1>5. CASE o \notin HTTPErrors /\ ~MemoHit
  <2>1. o = Value(Earlier(now, asOf), now)
    BY <1>5 DEF LiveQuote
  <2>2. Earlier(now, asOf) \in Int /\ now \in Int /\ now + MemoTTL >= now
    BY <1>1 DEF Earlier
  <2> QED
    BY <1>2, <2>1, <2>2
<1> QED
  BY <1>3, <1>4, <1>5

\* Bars are fetched now, and so is a quote that is read off them (quoteFromBars).
LEMMA BarsNew ==
  ASSUME TypeInv, NEW c \in Ranges, NEW v, v \in {"fmp", "stooq"}, NEW from \in Int, NEW to \in Int,
         NEW o \in VendorBars(v, from, to)
  PROVE  New(c, o)
<1>1. CASE o \in HTTPErrors
  BY <1>1, FailedNew DEF HTTPErrors
<1>2. ASSUME NEW rows \in SUBSET Int, o = Bars(rows, now)
      PROVE  New(c, o)
  <2>1. o.bars = {<<d, now>> : d \in rows}
    BY <1>2 DEF Bars
  <2>2. \A bar \in o.bars : bar[2] = now
    BY <2>1
  <2> QED
    BY <2>2 DEF New
<1> QED
  BY <1>1, <1>2, VendorBarsFacts DEF TypeInv

\* A quote that FMP or Stooq answers from its bars is dated by them (quoteFromBars).
LEMMA QuoteNew ==
  ASSUME TypeInv, NEW c \in Calls, c \notin Ranges, NEW v, v \in {"fmp", "stooq"},
         NEW asOf \in Int, NEW o \in QuoteFromBars(v, asOf)
  PROVE  New(c, o)
<1> DEFINE to   == DayOf(asOf)
           from == Later(to - Lookback, 0)
<1>1. now \in Nat /\ MemoTTL \in Nat
  BY MarketAssumption DEF TypeInv
<1>2. to \in Int /\ from \in Int
  <2>1. to \in Int
    BY Day
  <2>2. Lookback \in Nat
    BY MarketAssumption
  <2> HIDE DEF to
  <2> QED
    BY <2>1, <2>2 DEF Later
<1>3. PICK b \in VendorBars(v, from, to) :
        o = IF b.err # {} THEN b ELSE Value(Max({bar[1] : bar \in b.bars}) * DayLength, now)
  BY Zenon DEF QuoteFromBars
<1> HIDE DEF from, to
<1>4. CASE b.err # {}
  <2>1. b \in HTTPErrors
    <3>1. ASSUME NEW rows, b = Bars(rows, now) PROVE FALSE
      BY <1>4, <3>1 DEF Bars
    <3> QED
      BY <1>1, <1>2, <3>1, VendorBarsFacts
  <2>2. o = b
    BY ONLY <1>3, <1>4
  <2> QED
    BY <2>1, <2>2, FailedNew DEF HTTPErrors
<1>5. CASE b.err = {}
  <2>1. PICK a : o = Value(a, now)
    BY ONLY <1>3, <1>5
  <2>2. o.at = now /\ o.bars = {}
    BY ONLY <2>1 DEF Value
  <2> QED
    BY ONLY <1>1, <2>2 DEF New
<1> QED
  BY <1>4, <1>5

\* So every vendor's answer is new, and with it the chain's.
LEMMA AnswerNew ==
  ASSUME TypeInv, NEW c \in Calls, call[c].pc \in Busy, NEW v, v \in {"fmp", "stooq"},
         NEW o \in Answers(v, c, Key(c))
  PROVE  New(c, o)
<1>1. Key(c) \in CacheKeys /\ Key(c).from \in Int /\ Key(c).to \in Int /\ call[c].asOf \in Int
  BY KeyType DEF CacheKeys, TypeInv, CallRecords
<1>2. CASE o = Failed({"ctx"}) \/ o = Failed({"notSupported"})
  BY <1>2, FailedNew
<1>3. CASE c \in Ranges /\ o # Failed({"ctx"})
  <2>1. c \notin Quotes /\ c \notin Funds
    BY <1>3, MarketAssumption
  <2>2. o \in VendorBars(v, Key(c).from, Key(c).to)
    BY <1>3, <2>1 DEF Answers
  <2> QED
    BY <1>1, <1>3, <2>2, BarsNew
<1>4. CASE c \notin Ranges /\ o # Failed({"ctx"}) /\ o # Failed({"notSupported"})
  <2>1. o \in LiveQuote(call[c].asOf) \/ o \in QuoteFromBars(v, call[c].asOf)
    <3>1. CASE c \in Quotes
      <4>1. c \notin Funds
        BY <3>1, MarketAssumption
      <4> QED
        BY <1>4, <3>1, <4>1 DEF Answers, VendorQuote
    <3>2. CASE c \in Funds
      <4>1. c \notin Quotes
        BY <3>2, MarketAssumption
      <4> QED
        BY <1>4, <3>2, <4>1 DEF Answers, VendorFunds
    <3> QED
      BY <1>4, <3>1, <3>2 DEF Calls
  <2> QED
    BY <1>1, <1>4, <2>1, LiveNew, QuoteNew
<1> QED
  BY <1>2, <1>3, <1>4

\* What the chain makes of its vendors' answers is new when they are (ChainProvider).
LEMMA ChainNew ==
  ASSUME TypeInv, NEW c \in Calls, call[c].pc \in Busy, NEW os \in VendorAnswers(c, Key(c))
  PROVE  New(c, ChainAnswer(os))
<1> DEFINE stop == {i \in DOMAIN os : Decisive(os[i])}
<1>1. /\ Vendors \in Seq({"fmp", "stooq"}) /\ Vendors # <<>>
      /\ DOMAIN os = DOMAIN Vendors /\ DOMAIN os = 1..Len(Vendors) /\ DOMAIN os # {}
  BY MarketAssumption DEF VendorAnswers
<1>2. \A i \in DOMAIN os : New(c, os[i])
  BY <1>1, AnswerNew DEF VendorAnswers
<1>3. CASE stop # {}
  <2>1. Min(stop) \in stop
    <3>1. stop \subseteq Nat
      BY <1>1
    <3> HIDE DEF stop
    <3> QED
      BY <1>3, <3>1, MinInSet
  <2>2. ChainAnswer(os) = os[Min(stop)]
    BY <1>3 DEF ChainAnswer
  <2> QED
    BY <1>2, <2>1, <2>2
<1>4. CASE stop = {}
  <2>1. ChainAnswer(os) = Failed(UNION {os[i].err : i \in DOMAIN os})
    BY <1>4 DEF ChainAnswer
  <2>2. PICK i \in DOMAIN os : os[i].err # {}
    BY <1>1, <1>4 DEF Decisive
  <2>3. UNION {os[j].err : j \in DOMAIN os} # {}
    BY <2>2
  <2> QED
    BY <2>1, <2>3, FailedNew
<1> QED
  BY <1>3, <1>4

\* What is new is fresh for every call that has begun.
LEMMA NewIsFresh ==
  ASSUME NEW c, NEW o \in Outcomes, New(c, o), now \in Nat, NEW s \in Int, s <= now
  PROVE  FreshFor(c, o, s)
<1>1. PointTTL \in Nat /\ BarsTTL \in Nat /\ MemoTTL \in Nat /\ o.at \in Int
  BY MarketAssumption DEF Outcomes
<1>2. c \notin Ranges /\ o.err = {} => o.at + PointTTL + MemoTTL >= s
  BY <1>1 DEF New
<1>3. \A bar \in o.bars : bar[2] + BarsTTL >= s
  BY <1>1 DEF New
<1> QED
  BY <1>2, <1>3 DEF FreshFor, FreshBar

\* So is what the cache hits: an entry that is not expired.
LEMMA HitIsFresh ==
  ASSUME IInv, FreshInv, NEW c \in Calls, call[c].pc \in Busy, Hit(Key(c))
  PROVE  FreshFor(c, entries[Key(c)].out, call[c].start)
<1> DEFINE k == Key(c)
           e == entries[k]
           s == call[c].start
<1>1. /\ EntryFresh(k, e) /\ EntryOK(k, e) /\ s \in Int /\ s <= now /\ now \in Nat
      /\ k.kind = "bars" <=> c \in Ranges
  BY KeyType, Typed DEF Hit, FreshInv, CallFresh, IInv, CallRecords
<1>2. /\ e.expires \in Int /\ e.out \in Outcomes /\ e.out.at \in Int
      /\ \A bar \in e.out.bars : bar[2] \in Int
      /\ {PointTTL, BarsTTL, MemoTTL} \subseteq Nat
      /\ e.expires # Never => e.expires >= now
  BY <1>1, MarketAssumption DEF EntryOK, EntryRecords, Outcomes, Hit, Expired
<1> SUFFICES FreshFor(c, e.out, s)
  OBVIOUS
<1> HIDE DEF e, s
<1>3. CASE e.expires = Never
  BY <1>1, <1>3 DEF EntryOK, FreshFor, FreshBar
<1>4. CASE e.expires # Never /\ c \in Ranges
  <2>1. \A bar \in e.out.bars : bar[2] + BarsTTL >= s
    BY <1>1, <1>2, <1>4 DEF EntryFresh
  <2> QED
    BY <1>4, <2>1 DEF FreshFor, FreshBar
<1>5. CASE e.expires # Never /\ c \notin Ranges
  <2>1. e.out.bars = {} /\ (e.out.err = {} => e.out.at + PointTTL + MemoTTL >= e.expires)
    BY <1>1, <1>5 DEF EntryFresh
  <2>2. e.out.err = {} => e.out.at + PointTTL + MemoTTL >= s
    BY <1>1, <1>2, <1>5, <2>1
  <2> QED
    BY <2>1, <2>2 DEF FreshFor
<1> QED
  BY <1>3, <1>4, <1>5

\* A call that goes on with a fresh outcome stays fresh; one that joined a flight may go
\* on with any.
LEMMA AfterReadFresh ==
  ASSUME NEW c \in Calls, NEW r \in CallRecords, NEW t \in Int, CallFresh(c, r, t), r.pc \in Busy,
         NEW o \in Outcomes, r.joined \/ FreshFor(c, o, r.start)
  PROVE  CallFresh(c, AfterRead(c, r, o), t)
<1>1. ASSUME NEW p \in CallRecords, p.joined = r.joined, p.start = r.start, NEW a,
             ~r.joined => FreshFor(c, a, r.start)
      PROVE  CallFresh(c, Done(p, a), t)
  <2> DEFINE q == Done(p, a)
  <2>1. q.pc = "done" /\ q.start = r.start /\ q.joined = r.joined /\ q.bars = {} /\ q.out = a
    BY <1>1 DEF Done, Idle
  <2> HIDE DEF q
  <2> QED
    BY <1>1, <2>1 DEF CallFresh, q
<1>2. ASSUME NEW p, p.joined = r.joined, p.start = r.start, p.pc \in {"lookup", "direct"},
             ~r.joined => \A bar \in p.bars : FreshBar(bar, r.start)
      PROVE  CallFresh(c, p, t)
  BY <1>2 DEF CallFresh
<1>3. CASE c \notin Ranges
  <2>1. CASE TooNew(r, o)
    <3>1. PICK p : p = [r EXCEPT !.pc = "direct"]
      OBVIOUS
    <3>2. p.joined = r.joined /\ p.start = r.start /\ p.pc = "direct" /\ p.bars = r.bars
      BY <3>1 DEF CallRecords
    <3>3. AfterRead(c, r, o) = p
      BY <1>3, <2>1, <3>1 DEF AfterRead, AfterPoint
    <3>4. ~r.joined => \A bar \in p.bars : FreshBar(bar, r.start)
      BY <3>2 DEF CallFresh
    <3> QED
      BY <1>2, <3>2, <3>3, <3>4
  <2>2. CASE ~TooNew(r, o)
    BY <1>1, <1>3, <2>2 DEF AfterRead, AfterPoint
  <2> QED
    BY <2>1, <2>2
<1>4. CASE c \in Ranges
  <2>1. PICK q : q = [r EXCEPT !.bars = @ \cup o.bars, !.missed = @ \cup o.err]
    OBVIOUS
  <2>2. /\ q \in CallRecords /\ q.joined = r.joined /\ q.start = r.start
        /\ q.bars = r.bars \cup o.bars
    BY <2>1 DEF CallRecords, Outcomes
  <2>3. ~r.joined => \A bar \in q.bars : FreshBar(bar, r.start)
    BY <2>2 DEF CallFresh, FreshFor
  <2>4. PICK n : n = [q EXCEPT !.pc = "lookup", !.reads = Tail(@)]
    OBVIOUS
  <2>5. n.joined = r.joined /\ n.start = r.start /\ n.pc = "lookup" /\ n.bars = q.bars
    BY <2>2, <2>4 DEF CallRecords
  <2>6. CallFresh(c, n, t)
    BY <1>2, <2>3, <2>5
  <2>7. CallFresh(c, Done(r, o), t)
    BY <1>1
  <2>8. CallFresh(c, Done(q, [o EXCEPT !.err = {}, !.bars = q.bars]), t)
    <3>1. [o EXCEPT !.err = {}, !.bars = q.bars].bars = q.bars
      BY DEF Outcomes
    <3>2. ~r.joined => FreshFor(c, [o EXCEPT !.err = {}, !.bars = q.bars], r.start)
      BY <1>4, <2>3, <3>1 DEF FreshFor
    <3> QED
      BY <1>1, <2>2, <3>2
  <2>9. CallFresh(c, Done(q, Failed(o.err \cup {"notFound"})), t)
    <3>1. Failed(o.err \cup {"notFound"}).bars = {}
      BY DEF Failed
    <3>2. FreshFor(c, Failed(o.err \cup {"notFound"}), r.start)
      BY <1>4, <3>1 DEF FreshFor
    <3> QED
      BY <1>1, <2>2, <3>2
  <2> QED
    BY <1>4, <2>1, <2>4, <2>6, <2>7, <2>8, <2>9 DEF AfterRead, AfterChunk
<1> QED
  BY <1>3, <1>4

\* A step of one call.
LEMMA FreshMove ==
  ASSUME IInv, FreshInv, NEW c \in Calls, NEW r, CallFresh(c, r, now),
         call' = [call EXCEPT ![c] = r], now' = now,
         \A k \in DOMAIN entries' : EntryFresh(k, entries'[k])
  PROVE  FreshInv'
<1>1. ASSUME NEW d \in Calls
      PROVE  CallFresh(d, call'[d], now')
  <2>1. call'[d] = IF d = c THEN r ELSE call[d]
    BY DEF IInv
  <2> QED
    BY <2>1 DEF FreshInv
<1>2. \A d \in Calls : CallFresh(d, call[d], now)'
  BY <1>1 DEF CallFresh, FreshBar, FreshFor, Final
<1>3. \A k \in DOMAIN entries' : EntryFresh(k, entries[k])'
  BY DEF EntryFresh
<1> QED
  BY <1>2, <1>3 DEF FreshInv

\* A call that only changes where it is and whether it joined.
LEMMA FreshOn ==
  ASSUME NEW c, NEW r \in CallRecords, NEW t, CallFresh(c, r, t), NEW q,
         q.start = r.start, q.bars = r.bars, q.pc \notin {"idle", "publish", "done"},
         r.joined => q.joined, q.pc = "wait" => q.joined
  PROVE  CallFresh(c, q, t)
BY DEF CallFresh

\* What a fetch stores is not served when it is too old.
LEMMA StoredIsFresh ==
  ASSUME IInv, FreshInv, NEW c \in Calls, call[c].pc \in Busy, NEW o \in Outcomes, New(c, o),
         StorePolicy(c, Key(c), o), NEW j \in DOMAIN entries'
  PROVE  EntryFresh(j, entries'[j])
<1> DEFINE k == Key(c)
<1>1. /\ k.kind = "bars" <=> c \in Ranges
      /\ now \in Nat /\ {PointTTL, BarsTTL} \subseteq Nat \ {0} /\ MemoTTL \in Nat /\ o.at \in Int
      /\ TTL(c) \in Nat \ {0} /\ TTL(c) = IF c \in Ranges THEN BarsTTL ELSE PointTTL
  BY KeyType, Typed, MarketAssumption DEF IInv, Outcomes, TTL
<1> HIDE DEF k
<1>2. ASSUME NEW ttl \in Nat, Store(k, o, ttl), ttl = TTL(c) \/ (c \in Ranges /\ ttl = 0)
      PROVE  EntryFresh(j, entries'[j])
  <2>1. CASE j # k
    BY <1>1, <1>2, <2>1, StoreFacts DEF FreshInv
  <2>2. CASE j = k
    <3> DEFINE e == [out |-> o, expires |-> IF ttl > 0 THEN now + ttl ELSE Never]
    <3>1. entries'[j] = e
      BY <1>1, <1>2, <2>2, StoreFacts
    <3>2. e.out = o /\ (ttl > 0 => e.expires = now + ttl) /\ (ttl = 0 => e.expires = Never)
      BY <1>2
    <3> HIDE DEF e
    <3>3. CASE c \in Ranges
      <4>1. e.expires # Never => ttl = BarsTTL /\ e.expires = now + BarsTTL
        BY <1>1, <1>2, <3>2, <3>3
      <4>2. \A bar \in o.bars : bar[2] = now
        BY DEF New
      <4> QED
        BY <1>1, <2>2, <3>1, <3>2, <3>3, <4>1, <4>2 DEF EntryFresh
    <3>4. CASE c \notin Ranges
      <4>1. e.expires = now + PointTTL
        BY <1>1, <1>2, <3>2, <3>4
      <4>2. o.bars = {} /\ (o.err = {} => o.at + MemoTTL >= now)
        BY <3>4 DEF New
      <4>3. o.err = {} => o.at + PointTTL + MemoTTL >= e.expires
        BY <1>1, <4>1, <4>2
      <4> QED
        BY <1>1, <2>2, <3>1, <3>2, <3>4, <4>2, <4>3 DEF EntryFresh
    <3> QED
      BY <3>3, <3>4
  <2> QED
    BY <2>1, <2>2
<1>3. TTL(c) \in Nat
  BY <1>1
<1>4. Store(k, o, TTL(c)) => EntryFresh(j, entries'[j])
  BY ONLY <1>2, <1>3
<1>5. c \in Ranges /\ Store(k, o, 0) => EntryFresh(j, entries'[j])
  BY ONLY <1>2
<1>6. CASE o.err # {}
  BY <1>4, <1>6 DEF StorePolicy, k, FreshInv
<1>7. CASE o.err = {} /\ c \in Ranges /\ k.to < call[c].stable
  BY <1>5, <1>7 DEF StorePolicy, k
<1>8. CASE o.err = {} /\ ~(c \in Ranges /\ k.to < call[c].stable)
  BY <1>4, <1>8 DEF StorePolicy, k
<1> QED
  BY <1>6, <1>7, <1>8

\* A call that begins has seen nothing yet.
LEMMA BeginFresh == ASSUME IInv, FreshInv, NEW c \in Calls, Begin(c) PROVE FreshInv'
<1>1. /\ call[c] \in CallRecords /\ now \in Nat /\ now' = now /\ entries' = entries
      /\ call[c].pc = "idle" /\ call[c].bars = {}
  BY BusyCall DEF Begin, FreshInv, CallFresh
<1>2. ASSUME NEW r, call' = [call EXCEPT ![c] = r], r.pc = "lookup", r.start = now, r.bars = {}
      PROVE  FreshInv'
  <2>1. CallFresh(c, r, now)
    BY <1>1, <1>2 DEF CallFresh
  <2> QED
    BY <1>1, <1>2, <2>1, FreshMove DEF FreshInv
<1>3. ASSUME NEW asOf, BeginPoint(c, asOf)
      PROVE  FreshInv'
  <2>1. PICK r : r = [call[c] EXCEPT !.pc = "lookup", !.start = now, !.asOf = asOf,
                                     !.reads = <<PointKey(c, asOf)>>]
    OBVIOUS
  <2>2. r.pc = "lookup" /\ r.start = now /\ r.bars = {}
    BY <1>1, <2>1 DEF CallRecords
  <2>3. call' = [call EXCEPT ![c] = r]
    BY <1>3, <2>1 DEF BeginPoint
  <2> QED
    BY <1>2, <2>2, <2>3
<1>4. ASSUME NEW from, NEW to, BeginRange(c, from, to)
      PROVE  FreshInv'
  <2>1. PICK split, ks :
          call' = [call EXCEPT ![c] = [@ EXCEPT !.pc = "lookup", !.start = now, !.stable = Stable,
                                                !.split = split, !.reads = ks]]
    BY <1>4 DEF BeginRange
  <2>2. PICK r : r = [call[c] EXCEPT !.pc = "lookup", !.start = now, !.stable = Stable,
                                     !.split = split, !.reads = ks]
    OBVIOUS
  <2>3. r.pc = "lookup" /\ r.start = now /\ r.bars = {}
    BY <1>1, <2>2 DEF CallRecords
  <2>4. call' = [call EXCEPT ![c] = r]
    BY <2>1, <2>2
  <2> QED
    BY <1>2, <2>3, <2>4
<1> QED
  BY <1>3, <1>4 DEF Begin

\* Reading the cache, leading and joining: a hit is fresh, a flight of another counts as
\* joined.
LEMMA ReadFresh ==
  ASSUME IInv, FreshInv, NEW c \in Calls, Lookup(c) \/ Once(c) \/ Recheck(c)
  PROVE  FreshInv'
<1>1. /\ call[c] \in CallRecords /\ now \in Nat /\ now' = now /\ CallFresh(c, call[c], now)
      /\ call[c].pc \in Busy
  BY BusyCall DEF Lookup, Once, Recheck, FreshInv, Busy
<1>2. \A k \in DOMAIN entries' : EntryFresh(k, entries'[k])
  <2>1. CASE Forget(Key(c))
    BY <2>1, ForgetFacts DEF FreshInv
  <2>2. CASE UNCHANGED entries
    BY <2>2 DEF FreshInv
  <2> QED
    BY <2>1, <2>2 DEF Lookup, Once, Recheck
<1>3. ASSUME Hit(Key(c))
      PROVE  /\ entries[Key(c)].out \in Outcomes
             /\ FreshFor(c, entries[Key(c)].out, call[c].start)
  BY <1>1, <1>3, HitIsFresh DEF Hit, IInv, EntryOK, EntryRecords
<1>4. ASSUME NEW q, call' = [call EXCEPT ![c] = q], q.start = call[c].start,
             q.bars = call[c].bars, q.pc \notin {"idle", "publish", "done"},
             call[c].joined => q.joined, q.pc = "wait" => q.joined
      PROVE  FreshInv'
  BY <1>1, <1>2, <1>4, FreshOn, FreshMove
<1>5. CASE Lookup(c)
  <2>1. CASE Hit(Key(c)) /\ ~TooNew(call[c], entries[Key(c)].out)
    <3>1. CallFresh(c, AfterRead(c, call[c], entries[Key(c)].out), now)
      BY <1>1, <1>3, <2>1, AfterReadFresh
    <3>2. call' = [call EXCEPT ![c] = AfterRead(c, call[c], entries[Key(c)].out)]
      BY <1>5, <2>1 DEF Lookup
    <3> QED
      BY <1>1, <1>2, <3>1, <3>2, FreshMove
  <2>2. CASE ~(Hit(Key(c)) /\ ~TooNew(call[c], entries[Key(c)].out))
    <3>1. PICK q : q = [call[c] EXCEPT !.pc = "once"]
      OBVIOUS
    <3>2. /\ q.pc = "once" /\ q.start = call[c].start /\ q.bars = call[c].bars
          /\ q.joined = call[c].joined
      BY <1>1, <3>1 DEF CallRecords
    <3>3. call' = [call EXCEPT ![c] = q]
      BY <1>5, <2>2, <3>1 DEF Lookup
    <3> QED
      BY <1>4, <3>2, <3>3
  <2> QED
    BY <2>1, <2>2
<1>6. CASE Once(c)
  <2>1. PICK q : /\ call' = [call EXCEPT ![c] = q]
                 /\ \/ q = [call[c] EXCEPT !.pc = "wait", !.joined = TRUE]
                    \/ q = [call[c] EXCEPT !.pc = "recheck"]
    BY <1>6 DEF Once, IInv
  <2>2. /\ q.start = call[c].start /\ q.bars = call[c].bars
        /\ \/ q.pc = "wait" /\ q.joined = TRUE
           \/ q.pc = "recheck" /\ q.joined = call[c].joined
    BY <1>1, <2>1 DEF CallRecords
  <2> QED
    BY <1>4, <2>1, <2>2
<1>7. CASE Recheck(c)
  <2>1. CASE LeaderMisses(Key(c))
    <3>1. PICK q : q = [call[c] EXCEPT !.pc = "fetch"]
      OBVIOUS
    <3>2. /\ q.pc = "fetch" /\ q.start = call[c].start /\ q.bars = call[c].bars
          /\ q.joined = call[c].joined
      BY <1>1, <3>1 DEF CallRecords
    <3>3. call' = [call EXCEPT ![c] = q]
      BY <1>7, <2>1, <3>1 DEF Recheck
    <3> QED
      BY <1>4, <3>2, <3>3
  <2>2. CASE ~LeaderMisses(Key(c))
    <3>1. PICK q : q = [call[c] EXCEPT !.pc = "publish", !.out = entries[Key(c)].out]
      OBVIOUS
    <3>2. /\ q.pc = "publish" /\ q.start = call[c].start /\ q.bars = call[c].bars
          /\ q.joined = call[c].joined /\ q.out = entries[Key(c)].out
      BY <1>1, <3>1 DEF CallRecords
    <3>3. call' = [call EXCEPT ![c] = q]
      BY <1>7, <2>2, <3>1 DEF Recheck
    <3>4. FreshFor(c, entries[Key(c)].out, call[c].start)
      BY <1>3, <2>2 DEF LeaderMisses
    <3>5. CallFresh(c, q, now)
      BY <1>1, <3>2, <3>4 DEF CallFresh
    <3> QED
      BY <1>1, <1>2, <3>3, <3>5, FreshMove
  <2> QED
    BY <2>1, <2>2
<1> QED
  BY <1>5, <1>6, <1>7

\* The vendors' answers are new, in a flight or past the cache.
LEMMA VendorFresh ==
  ASSUME IInv, FreshInv, NEW c \in Calls, Fetch(c) \/ Direct(c)
  PROVE  FreshInv'
<1>1. /\ call[c] \in CallRecords /\ now \in Nat /\ now' = now /\ CallFresh(c, call[c], now)
      /\ call[c].pc \in Busy /\ call[c].start \in Int /\ call[c].start <= now
  BY BusyCall DEF Fetch, Direct, FreshInv, CallFresh, Busy, CallRecords
<1>2. ASSUME NEW os \in VendorAnswers(c, Key(c))
      PROVE  /\ ChainAnswer(os) \in Outcomes /\ New(c, ChainAnswer(os))
             /\ FreshFor(c, ChainAnswer(os), call[c].start)
  <2>1. ChainAnswer(os) \in Outcomes /\ New(c, ChainAnswer(os))
    BY <1>1, Typed, ChainSound, ChainNew DEF Sound
  <2> QED
    BY <1>1, <2>1, NewIsFresh
<1>3. CASE Fetch(c)
  <2>1. PICK os \in VendorAnswers(c, Key(c)) :
          /\ StorePolicy(c, Key(c), ChainAnswer(os))
          /\ call' = [call EXCEPT ![c] = [@ EXCEPT !.pc = "publish", !.out = ChainAnswer(os)]]
    BY <1>3 DEF Fetch
  <2>2. PICK q : q = [call[c] EXCEPT !.pc = "publish", !.out = ChainAnswer(os)]
    OBVIOUS
  <2>3. /\ q.pc = "publish" /\ q.start = call[c].start /\ q.bars = call[c].bars
        /\ q.joined = call[c].joined /\ q.out = ChainAnswer(os)
    BY <1>1, <2>2 DEF CallRecords
  <2>4. call' = [call EXCEPT ![c] = q]
    BY <2>1, <2>2
  <2>5. CallFresh(c, q, now)
    BY <1>1, <1>2, <2>3 DEF CallFresh
  <2>6. \A k \in DOMAIN entries' : EntryFresh(k, entries'[k])
    BY <1>1, <1>2, <2>1, StoredIsFresh
  <2> QED
    BY <1>1, <2>4, <2>5, <2>6, FreshMove
<1>4. CASE Direct(c)
  <2>1. PICK os \in VendorAnswers(c, Key(c)) :
          call' = [call EXCEPT ![c] = Done(@, ChainAnswer(os))]
    BY <1>4 DEF Direct
  <2>2. PICK q : q = Done(call[c], ChainAnswer(os))
    OBVIOUS
  <2>3. /\ q.pc = "done" /\ q.start = call[c].start /\ q.bars = {}
        /\ q.joined = call[c].joined /\ q.out = ChainAnswer(os)
    BY <2>2 DEF Done, Idle
  <2>4. CallFresh(c, q, now)
    BY <1>1, <1>2, <2>3 DEF CallFresh
  <2>5. \A k \in DOMAIN entries' : EntryFresh(k, entries'[k])
    BY <1>4 DEF Direct, FreshInv
  <2> QED
    BY <1>1, <2>1, <2>2, <2>4, <2>5, FreshMove
<1> QED
  BY <1>3, <1>4

\* Whoever shares the leader's outcome has joined.
LEMMA PublishFresh == ASSUME IInv, FreshInv, NEW c \in Calls, Publish(c) PROVE FreshInv'
<1>1. /\ now' = now /\ now \in Nat /\ entries' = entries /\ call[c].pc = "publish"
      /\ call[c].out \in Outcomes
      /\ call' = [d \in Calls |-> IF Shares(c, d) THEN AfterRead(d, call[d], call[c].out)
                                   ELSE call[d]]
  BY DEF Publish, IInv, CallRecords
<1>2. ASSUME NEW d \in Calls
      PROVE  CallFresh(d, call'[d], now)
  <2>1. CallFresh(d, call[d], now) /\ call[d] \in CallRecords
    BY DEF FreshInv, IInv
  <2>2. CASE ~Shares(c, d)
    BY <1>1, <2>1, <2>2
  <2>3. CASE Shares(c, d)
    <3>1. call[d].pc \in Busy
      BY <1>1, <2>3 DEF Shares, Busy
    <3>2. call[d].joined \/ FreshFor(d, call[c].out, call[d].start)
      BY <1>1, <2>1, <2>3 DEF Shares, CallFresh
    <3>3. CallFresh(d, AfterRead(d, call[d], call[c].out), now)
      BY <1>1, <2>1, <3>1, <3>2, AfterReadFresh
    <3> QED
      BY <1>1, <2>3, <3>3
  <2> QED
    BY <2>2, <2>3
<1>3. \A d \in Calls : CallFresh(d, call[d], now)'
  BY <1>1, <1>2 DEF CallFresh, FreshBar, FreshFor, Final
<1>4. \A k \in DOMAIN entries' : EntryFresh(k, entries[k])'
  BY <1>1 DEF FreshInv, EntryFresh
<1> QED
  BY <1>3, <1>4 DEF FreshInv

\* The clock, or nothing, moves: calls began before.
LEMMA TickFresh == ASSUME IInv, FreshInv, Tick \/ UNCHANGED vars PROVE FreshInv'
<1>1. now \in Nat /\ now' \in Nat /\ now' >= now /\ UNCHANGED <<entries, call>>
  BY DEF Tick, vars, IInv
<1>2. \A d \in Calls : call[d].start \in Int
  BY DEF IInv, CallRecords
<1>3. \A d \in Calls : CallFresh(d, call'[d], now')
  BY <1>1, <1>2 DEF FreshInv, CallFresh
<1>4. \A d \in Calls : CallFresh(d, call[d], now)'
  BY <1>3 DEF CallFresh, FreshBar, FreshFor, Final
<1>5. \A k \in DOMAIN entries' : EntryFresh(k, entries[k])'
  BY <1>1 DEF FreshInv, EntryFresh
<1> QED
  BY <1>4, <1>5 DEF FreshInv

\* An answer that a call did not get by joining a flight is at most the TTL and the
\* memo's TTL older than the call, through every mix of hits, rechecks, evictions and
\* expiries; bars may be older only when they were final when fetched (lookup, once,
\* store, liveQuote).
THEOREM Freshness == Spec => []AnswersAreFresh
<1>1. Init => FreshInv
  <2> SUFFICES ASSUME Init PROVE FreshInv
    OBVIOUS
  <2>1. DOMAIN entries = {} /\ now \in Nat /\ \A c \in Calls : call[c] = Idle
    BY MarketAssumption DEF Init
  <2>2. Idle.pc = "idle" /\ Idle.start = 0 /\ Idle.bars = {}
    BY DEF Idle
  <2>3. \A c \in Calls : CallFresh(c, call[c], now)
    BY <2>1, <2>2 DEF CallFresh
  <2> QED
    BY <2>1, <2>3 DEF FreshInv
<1>2. IInv /\ FreshInv /\ [Next]_vars => FreshInv'
  BY BeginFresh, ReadFresh, VendorFresh, PublishFresh, TickFresh DEF Next, Step
<1>3. FreshInv => AnswersAreFresh
  <2> SUFFICES ASSUME FreshInv, NEW c \in Calls, Answered(c), ~call[c].joined
               PROVE  /\ c \notin Ranges => call[c].out.at + PointTTL + MemoTTL >= call[c].start
                      /\ \A bar \in call[c].out.bars : bar[2] + BarsTTL >= call[c].start \/ Final(bar)
    BY DEF AnswersAreFresh
  <2>1. FreshFor(c, call[c].out, call[c].start) /\ call[c].out.err = {}
    BY DEF FreshInv, CallFresh, Answered
  <2> QED
    BY <2>1 DEF FreshFor, FreshBar
<1> QED
  BY <1>1, <1>2, <1>3, Invariant, PTL DEF Spec
=============================================================================
