---------------------------- MODULE MarketCache ----------------------------
(***************************************************************************)
(* Market data reads: the caching decorator with its shared flights        *)
(* (internal/marketdata/cache.go) over a chain of vendors (chain.go,       *)
(* httpx.go, fmp.go, stooq.go), for one ticker.                            *)
(*                                                                         *)
(* A call reads a quote, fundamentals or a range of bars.  Each critical   *)
(* section of the cache is one step, and so is a vendor's answer; calls    *)
(* and the clock interleave between them.  A value carries the asOf it     *)
(* claims and the time it was obtained, not its numbers; an error is the   *)
(* set of sentinels it wraps.  Bars are dated by day, so a range is a pair *)
(* of days and the cache's exact filter of a day-granular fetch is the     *)
(* identity.                                                               *)
(***************************************************************************)
EXTENDS Integers, Sequences, FiniteSets, FiniteSetsExt, Functions

CONSTANTS Quotes, Funds, Ranges,  \* the calls of Quote, Fundamentals, HistoricalBars
          Vendors,     \* the chain, a sequence over "fmp" and "stooq"
          PointTTL,    \* QuoteTTL and FundamentalsTTL
          BarsTTL,     \* CacheConfig.BarsTTL
          MaxEntries,  \* CacheConfig.MaxEntries
          LiveWindow,  \* fmpLiveWindow
          MemoTTL,     \* fmpQuoteMemoTTL
          DayLength,   \* ticks in a day
          Lookback,    \* days of history a range asks for
          MaxCalls,    \* model bound: the calls of one behaviour
          StartTime,   \* model bound: the first tick
          MaxTime      \* model bound: the last tick

ASSUME MarketAssumption ==
  /\ {PointTTL, BarsTTL} \subseteq Nat \ {0} /\ MaxEntries \in Nat \ {0} /\ DayLength \in Nat \ {0}
  /\ {LiveWindow, MemoTTL, Lookback, MaxCalls, StartTime, MaxTime} \subseteq Nat
  /\ Vendors \in Seq({"fmp", "stooq"}) /\ Vendors # <<>>
  /\ Quotes \cap Funds = {} /\ Ranges \cap (Quotes \cup Funds) = {}

VARIABLES
  now,      \* cfg.Now()
  entries,  \* entries: from the cached keys
  inflight, \* inflight: from the keys being fetched to the call that leads
  memo,     \* FMPProvider.memo: when the memoised quote was fetched
  call      \* per call: its request and how far it is

vars == <<now, entries, inflight, memo, call>>

Calls == Quotes \cup Funds \cup Ranges
None == -1   \* no memoised quote
Never == 0   \* the zero expiresAt

DayOf(t) == t \div DayLength
Earlier(s, t) == IF s < t THEN s ELSE t
Later(s, t) == IF s < t THEN t ELSE s

\* What a read yields: a value (err = {}) or an error, at time "at".
Value(asOf, at) == [err |-> {}, asOf |-> asOf, at |-> at, bars |-> {}]
Bars(days, at)  == [err |-> {}, asOf |-> 0, at |-> at, bars |-> {<<d, at>> : d \in days}]
Failed(errs)    == [err |-> errs, asOf |-> 0, at |-> 0, bars |-> {}]

Idle == [pc |-> "idle", start |-> 0, asOf |-> 0, reads |-> <<>>, split |-> FALSE, joined |-> FALSE,
         stable |-> 0, bars |-> {}, missed |-> {}, out |-> Failed({})]

Init ==
  /\ now = StartTime
  /\ entries = <<>> /\ inflight = <<>> /\ memo = None
  /\ call = [c \in Calls |-> Idle]

-----------------------------------------------------------------------------
(* The vendors and the chain.                                              *)

\* httpx.get: not found, or one of the many ways of being unavailable.
HTTPErrors == {Failed({"notFound"}), Failed({"unavailable"})}

\* HistoricalBars of FMP: the rows that parse and lie in the range, which is no data when
\* there is none.
Published(from, to) == SUBSET (from..Earlier(to, DayOf(now)))
FMPBars(from, to) ==
  {IF rows = {} THEN Failed({"notFound"}) ELSE Bars(rows, now) : rows \in Published(from, to)}
  \cup HTTPErrors

\* HistoricalBars of Stooq: its CSV, a note that it has no data, or an HTML page.
StooqBars(from, to) ==
  HTTPErrors \cup
  UNION {CASE page = "csv" -> {Bars(rows, now) : rows \in Published(from, to) \ {{}}}
           [] page = "none" -> {Failed({"notFound"})}
           [] page = "html" -> {Failed({"unavailable"})} : page \in {"csv", "none", "html"}}

VendorBars(v, from, to) == IF v = "fmp" THEN FMPBars(from, to) ELSE StooqBars(from, to)

\* Quote from daily bars: quoteFromBars takes the last bar at or before asOf, which is the
\* bar of its day or, when that is missing, of a day before.
QuoteFromBars(v, asOf) ==
  {IF o.err # {} THEN o ELSE Value(Max({bar[1] : bar \in o.bars}) * DayLength, now) :
     o \in VendorBars(v, Later(DayOf(asOf) - Lookback, 0), DayOf(asOf))}

isLive(asOf) == asOf + LiveWindow >= now

\* FMPProvider.liveQuote: from the memo while it is young enough.
MemoHit == memo # None /\ now - memo < MemoTTL
LiveQuote(asOf) ==
  IF MemoHit THEN {Value(Earlier(memo, asOf), memo)}
  ELSE {Value(Earlier(now, asOf), now)} \cup HTTPErrors

VendorQuote(v, asOf) ==
  IF v = "fmp" /\ isLive(asOf) THEN LiveQuote(asOf) ELSE QuoteFromBars(v, asOf)

VendorFunds(v, asOf) ==
  IF v = "fmp" /\ isLive(asOf) THEN LiveQuote(asOf) ELSE {Failed({"notSupported"})}

\* What vendor v may answer the read of key k by call c; {"ctx"} is its ended context.
Answers(v, c, k) ==
  {Failed({"ctx"})} \cup
  CASE c \in Ranges -> VendorBars(v, k.from, k.to)
    [] c \in Quotes -> VendorQuote(v, call[c].asOf)
    [] c \in Funds  -> VendorFunds(v, call[c].asOf)

fallthroughErr(err) ==
  err \cap {"notSupported", "notImplemented", "notFound", "unavailable"} # {}

\* ChainProvider: the first vendor that answers or fails for good decides, else
\* the errors of all are joined.
Decisive(o) == o.err = {} \/ ~fallthroughErr(o.err)
ChainAnswer(os) ==
  LET stop == {i \in DOMAIN os : Decisive(os[i])}
  IN  IF stop = {} THEN Failed(UNION {os[i].err : i \in DOMAIN os})
      ELSE os[Min(stop)]

\* The answers the vendors give call c for key k, as far as the chain asks them.
VendorAnswers(c, k) ==
  {os \in [DOMAIN Vendors -> UNION {Answers(v, c, k) : v \in Range(Vendors)}] :
     \A i \in DOMAIN Vendors : os[i] \in Answers(Vendors[i], c, k)}

\* A live quote fetched from fmp becomes its memo.
Memoised(c, os) ==
  IF /\ c \notin Ranges /\ isLive(call[c].asOf)
     /\ \E i \in DOMAIN Vendors : /\ Vendors[i] = "fmp" /\ os[i].err = {}
                                  /\ \A j \in 1..(i - 1) : ~Decisive(os[j])
  THEN IF MemoHit THEN memo ELSE now
  ELSE memo

-----------------------------------------------------------------------------
(* The cache's critical sections.                                          *)

cacheableErr_NotFoundWins(err) == err \cap {"notFound", "notSupported"} # {}  \* mutant: a joined outage
cacheableErr(err) ==
  "unavailable" \notin err /\ err \cap {"notFound", "notSupported"} # {}

\* now.After(expiresAt), never for an immutable range.
Expired_Kept(e) == FALSE  \* mutant: entries are served for ever
Expired(e) == e.expires # Never /\ now > e.expires

Hit(k) == k \in DOMAIN entries /\ ~Expired(entries[k])

\* lookup deletes an entry it finds expired.
Forget(k) ==
  entries' = Restrict(entries, {j \in DOMAIN entries : j = k => ~Expired(entries[j])})

\* store at the size cap: the expired entries go, then any, until there is room.
Room(keep) ==
  IF Cardinality(DOMAIN entries) < MaxEntries THEN keep = DOMAIN entries
  ELSE LET alive == {k \in DOMAIN entries : ~Expired(entries[k])}
       IN  /\ keep \subseteq alive
           /\ Cardinality(keep) = Earlier(Cardinality(alive), MaxEntries - 1)

Store(k, o, ttl) ==
  \E keep \in SUBSET DOMAIN entries :
    /\ Room(keep)
    /\ entries' = [j \in keep \cup {k} |->
         IF j = k THEN [out |-> o, expires |-> IF ttl > 0 THEN now + ttl ELSE Never]
         ELSE entries[j]]

\* The start of yesterday: bars dated before it are immutable.
Stable_Today == DayOf(now)  \* mutant: no grace for late bars
Stable == IF DayOf(now) = 0 THEN 0 ELSE DayOf(now) - 1

TTL(c) == IF c \in Ranges THEN BarsTTL ELSE PointTTL

\* What a fetch leaves in the cache.
StorePolicy(c, k, o) ==
  IF o.err # {}
  THEN IF cacheableErr(o.err) THEN Store(k, o, TTL(c)) ELSE UNCHANGED entries
  ELSE Store(k, o, IF c \in Ranges /\ k.to < call[c].stable THEN 0 ELSE TTL(c))

-----------------------------------------------------------------------------
(* A call.                                                                 *)

\* The key of a point read is its asOf truncated to the TTL, that of a range its days.
PointKey(c, asOf) == [kind |-> IF c \in Quotes THEN "quote" ELSE "funds",
                      from |-> asOf \div PointTTL, to |-> asOf \div PointTTL]
BarsKey(from, to) == [kind |-> "bars", from |-> from, to |-> to]

Key(c) == Head(call[c].reads)

\* Quote and Fundamentals.
BeginPoint(c, asOf) ==
  call' = [call EXCEPT ![c] = [@ EXCEPT !.pc = "lookup", !.start = now, !.asOf = asOf,
                                        !.reads = <<PointKey(c, asOf)>>]]

\* HistoricalBars: a range across Stable is read as a past chunk and a recent stub.
BeginRange(c, from, to) ==
  LET split == from < Stable /\ to >= Stable
  IN  call' = [call EXCEPT ![c] =
        [@ EXCEPT !.pc = "lookup", !.start = now, !.stable = Stable, !.split = split,
                  !.reads = IF split THEN <<BarsKey(from, Stable - 1), BarsKey(Stable, to)>>
                                     ELSE <<BarsKey(from, to)>>]]

Begin(c) ==
  /\ call[c].pc = "idle"
  /\ Cardinality({d \in Calls : call[d].pc # "idle"}) < MaxCalls
  /\ \/ c \notin Ranges /\ \E asOf \in (now - 1)..now : BeginPoint(c, asOf)
     \/ c \in Ranges /\ \E to \in 0..DayOf(now) :
          BeginRange(c, IF to < Lookback THEN 0 ELSE to - Lookback, to)
  /\ UNCHANGED <<now, entries, inflight, memo>>

Done(r, o) == [Idle EXCEPT !.pc = "done", !.start = r.start, !.asOf = r.asOf,
                           !.joined = r.joined, !.missed = r.missed, !.out = o]

\* The lookahead guard: a point value newer than the call's asOf is not used.
TooNew_Unchecked(r, o) == FALSE  \* mutant: no guard
TooNew(r, o) == o.asOf > r.asOf

\* How call r goes on with the outcome of a read: a point read is the call's answer,
\* or is repeated without the cache when it is too new.
AfterPoint(r, o) ==
  IF TooNew(r, o) THEN [r EXCEPT !.pc = "direct"] ELSE Done(r, o)

\* A range of one chunk is answered by it; of two, either may be missing ("missed"
\* keeps, for the properties, the errors that were taken for missing data).
AfterChunk(r, o) ==
  LET q == [r EXCEPT !.bars = @ \cup o.bars, !.missed = @ \cup o.err]
  IN  IF o.err # {} /\ ~(r.split /\ "notFound" \in o.err) THEN Done(r, o)
      ELSE IF Len(r.reads) > 1 THEN [q EXCEPT !.pc = "lookup", !.reads = Tail(@)]
      ELSE Done(q, IF q.bars # {} THEN [o EXCEPT !.err = {}, !.bars = q.bars]
                   ELSE Failed(o.err \cup {"notFound"}))

AfterRead(c, r, o) == IF c \in Ranges THEN AfterChunk(r, o) ELSE AfterPoint(r, o)

\* The first lookup; a hit that is too new goes on to the flight.
Lookup(c) ==
  /\ call[c].pc = "lookup"
  /\ Forget(Key(c))
  /\ call' = [call EXCEPT ![c] =
       IF Hit(Key(c)) /\ ~TooNew(@, entries[Key(c)].out)
       THEN AfterRead(c, @, entries[Key(c)].out)
       ELSE [@ EXCEPT !.pc = "once"]]
  /\ UNCHANGED <<now, inflight, memo>>

Joins(k) == k \in DOMAIN inflight

\* once: wait for the flight of this key, or lead one.
Once(c) ==
  /\ call[c].pc = "once"
  /\ IF Joins(Key(c))
     THEN call' = [call EXCEPT ![c].pc = "wait", ![c].joined = TRUE] /\ UNCHANGED inflight
     ELSE /\ call' = [call EXCEPT ![c].pc = "recheck"]
          /\ inflight' = [k \in DOMAIN inflight \cup {Key(c)} |->
                            IF k = Key(c) THEN c ELSE inflight[k]]
  /\ UNCHANGED <<now, entries, memo>>

\* The leader looks again before it fetches.
LeaderMisses_Blindly(k) == TRUE  \* mutant: no double check
LeaderMisses(k) == ~Hit(k)

Recheck(c) ==
  /\ call[c].pc = "recheck"
  /\ Forget(Key(c))
  /\ call' = [call EXCEPT ![c] =
       IF LeaderMisses(Key(c)) THEN [@ EXCEPT !.pc = "fetch"]
       ELSE [@ EXCEPT !.pc = "publish", !.out = entries[Key(c)].out]]
  /\ UNCHANGED <<now, inflight, memo>>

\* The vendors answer the leader, who stores what may be stored.
Fetch(c) ==
  /\ call[c].pc = "fetch"
  /\ \E os \in VendorAnswers(c, Key(c)) :
       /\ memo' = Memoised(c, os)
       /\ StorePolicy(c, Key(c), ChainAnswer(os))
       /\ call' = [call EXCEPT ![c] = [@ EXCEPT !.pc = "publish", !.out = ChainAnswer(os)]]
  /\ UNCHANGED <<now, inflight>>

\* The flight retires and everyone who waits for it shares the leader's outcome.
Shares_Unreleased(c, d) == d = c  \* mutant: done is never closed
Shares(c, d) == d = c \/ (call[d].pc = "wait" /\ Key(d) = Key(c))

Publish(c) ==
  /\ call[c].pc = "publish"
  /\ inflight' = Restrict(inflight, DOMAIN inflight \ {Key(c)})
  /\ call' = [d \in Calls |-> IF Shares(c, d) THEN AfterRead(d, call[d], call[c].out)
                              ELSE call[d]]
  /\ UNCHANGED <<now, entries, memo>>

\* The flight's value was too new for this call: it asks the chain itself.
Direct(c) ==
  /\ call[c].pc = "direct"
  /\ \E os \in VendorAnswers(c, Key(c)) :
       /\ memo' = Memoised(c, os)
       /\ call' = [call EXCEPT ![c] = Done(@, ChainAnswer(os))]
  /\ UNCHANGED <<now, entries, inflight>>

Tick ==
  /\ now < MaxTime
  /\ now' = now + 1
  /\ UNCHANGED <<entries, inflight, memo, call>>

Step(c) ==
  \/ Lookup(c) \/ Once(c) \/ Recheck(c) \/ Fetch(c) \/ Publish(c) \/ Direct(c)

Next == Tick \/ \E c \in Calls : Begin(c) \/ Step(c)

Spec == Init /\ [][Next]_vars

\* Some goroutine with work is scheduled, and the HTTP client's timeout ends every
\* vendor request.
FairSpec == Spec /\ WF_vars(\E c \in Calls : Step(c))

-----------------------------------------------------------------------------
(* Properties.                                                             *)

Answered(c) == call[c].pc = "done" /\ call[c].out.err = {}

\* Point-in-time reads (provider.go: "at or before asOf"): whoever fetched the value,
\* and whatever the cache's bucket held, no call gets one dated after its asOf (Quote,
\* Fundamentals).
NoLookahead == \A c \in Quotes \cup Funds : Answered(c) => call[c].out.asOf <= call[c].asOf

\* A bar is final one full day after its day: vendors publish and revise late.
Final(bar) == DayOf(bar[2]) >= bar[1] + 2

\* However entries, evictions and the vendor's memo overlap, an answer is never older
\* than the TTL (and, behind it, the memo's) at the time of the call; bars may be older
\* only when they were already final when fetched.  What a call gets by joining a flight
\* is as old as the flight, which nothing bounds (once, lookup, store).
AnswersAreFresh ==
  \A c \in Calls : Answered(c) /\ ~call[c].joined =>
    /\ c \notin Ranges => call[c].out.at + PointTTL + MemoTTL >= call[c].start
    /\ \A bar \in call[c].out.bars : bar[2] + BarsTTL >= call[c].start \/ Final(bar)

\* An outage is passed on to those who wait, never remembered: no entry holds an error
\* that wraps a transient one, whatever the other vendors of the chain answered (once,
\* cacheableErr).
OutagesAreNotCached ==
  \A k \in DOMAIN entries : entries[k].out.err \cap {"unavailable", "ctx"} = {}

\* An outage is not absence: history handed out as complete lacks no chunk that a vendor
\* was merely unable to deliver (HistoricalBars of the cache and of the chain).
NoChunkLostToOutage ==
  \A c \in Ranges : Answered(c) => "unavailable" \notin call[c].missed

\* An entry without expiry holds history that no vendor will still revise (barsRange).
FrozenIsFinal ==
  \A k \in DOMAIN entries : entries[k].expires = Never =>
    k.kind = "bars" /\ \A bar \in entries[k].out.bars : Final(bar)

\* Concurrent and consecutive misses cost one vendor request: whoever fetches leads
\* the key's only flight, and the cache holds nothing it could have used (once).
FetchesWhenCold ==
  \A c \in Calls : call[c].pc = "fetch" => inflight[Key(c)] = c /\ ~Hit(Key(c))

\* No call waits for ever on another's flight: what has begun ends (once).
EveryCallReturns == []<>(\A c \in Calls : call[c].pc \in {"idle", "done"})
=============================================================================
