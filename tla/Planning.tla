------------------------------ MODULE Planning ------------------------------
(***************************************************************************)
(* How a plan is made: sources enrich the goal (internal/source), the      *)
(* wiring's strategies compete over a shared plan cache (internal/wire,    *)
(* internal/llm) and the evaluator decides whether the winner becomes the  *)
(* current version (internal/engine).                                      *)
(*                                                                         *)
(* One domain serves several goals of one content, so that they share      *)
(* cache entries.  The decisions of a goal follow each other (ReplanQueue);*)
(* those of different goals, and the children of one decision, interleave  *)
(* at every critical section of the cache.  A planner's answer is any of   *)
(* Answers.  Contexts, prompts and notes are what tells them apart.        *)
(***************************************************************************)
EXTENDS Wiring

CONSTANTS Goals,         \* goals of one content
          Deployments,   \* the settings a process may be started with; rounds is a model
                         \* bound on the decisions it makes
          Replies,       \* what a model may send back as its moves
          Verdicts,      \* what a verifier says of the moves: from keys to verdicts
          Callers,       \* the credentials a request may carry: [provider, key]
          Signals,       \* [kind, text, payload] records
          Tapes,         \* the price histories a ticker may have
          CacheSize,     \* MemoryCache.cap
          MaxWorld,      \* model bound: the changes of the outside world
          MaxTime        \* model bound: the last tick

\* domain.RankedMove: raw is the confidence before calibration, 0 without one.
RankedMove ==
  [key : STRING, conf : Int, raw : Int, impact : STRING, effort : STRING, risk : STRING,
   deps : SUBSET STRING]

ASSUME PlanningAssumption ==
  /\ CacheSize \in Nat \ {0} /\ {MaxWorld, MaxTime} \subseteq Nat
  /\ NoLabel \notin Labels /\ Replies \ {<<>>} # {} /\ Replies \subseteq Seq(RankedMove)
  /\ \A v \in Verdicts : \A key \in DOMAIN v : v[key] \in Int
  /\ Signals \subseteq [kind : STRING, text : STRING, payload : STRING]
  /\ \A d \in Deployments :
       /\ d.ttl \in Nat /\ d.margin \in Int /\ DeltaOf(d) \in Int
       /\ \A k \in DOMAIN d.weights : d.weights[k] \in Int
       /\ d.strategies \in Seq([id : STRING, template : STRING, regimes : SUBSET STRING])
       /\ SourceKinds(d) \in Seq(STRING) /\ PlannerOf(d).providers \in Seq(STRING)
       /\ \A k \in DOMAIN d.wiredSources : d.wiredSources[k] \in [members : Nat, cached : BOOLEAN]

VARIABLES
  dep,       \* the settings of the process
  now,       \* the cache's clock
  world,     \* what a source would report now
  lastGood,  \* CachingSource.last, per goal and source
  cache,     \* MemoryCache: the entries, most recently used first
  plan,      \* the current version of each goal
  dec,       \* the decision each goal is in
  begun      \* the decisions begun

vars == <<dep, now, world, lastGood, cache, plan, dec, begun>>

Drop == -1      \* a verdict: the move goes; otherwise it is the adjusted confidence
NoSignal == [kind |-> "", text |-> "", payload |-> ""]
NoCredentials == [provider |-> "", key |-> ""]

-----------------------------------------------------------------------------
(* The base planners (internal/llm): the sets of what they return.         *)

Failure == [err |-> TRUE, moves |-> <<>>]
Plan(ms) == [err |-> FALSE, moves |-> ms]
Succeed(results) == {r \in results : ~r.err}

\* mapMoves: confidences are clamped and an unknown level is medium.
level(l) == IF l \in {"low", "medium", "high"} THEN l ELSE "medium"
mapMoves(ms) ==
  [k \in DOMAIN ms |-> [ms[k] EXCEPT !.conf = clampConfidence(@), !.impact = level(@),
                                    !.effort = level(@), !.risk = level(@)]]

\* The mock computes some plan; a model may also fail, and a reply without moves is a
\* failure.  The numeric planner's moves carry the confidence before calibration.
Computed == {Plan(mapMoves(ms)) : ms \in Replies \ {<<>>}}
Modelled == Computed \cup {Failure}
Priced == {Plan([k \in DOMAIN r.moves |-> [r.moves[k] EXCEPT !.raw = r.moves[k].conf]]) : r \in Computed}

\* ByokPlanner: the caller's provider answers, the mock without a key; an unknown provider
\* is an error.
Byok(who) ==
  CASE who = NoCredentials -> Computed
    [] who # NoCredentials /\ who.provider \in Verifiers -> Modelled
    [] OTHER -> {Failure}

\* buildProvider.
Client(name, who) ==
  CASE name \in Verifiers -> Modelled
    [] name = "byok" -> Byok(who)
    [] OTHER -> Computed

\* applyVerdict: dropped moves go, adjusted ones get the verifier's confidence.
applyVerdict(ms, v) ==
  LET kept == At(ms, {k \in DOMAIN ms : ms[k].key \in DOMAIN v => v[ms[k].key] # Drop})
  IN  [k \in DOMAIN kept |-> IF kept[k].key \in DOMAIN v
                             THEN [kept[k] EXCEPT !.conf = clampConfidence(v[kept[k].key])]
                             ELSE kept[k]]

\* VerifyPlanner: a failed review, or one that leaves nothing, keeps the proposal.
Verified(p, who) ==
  LET proposals == Client(p.providers[1], who)
      reviewed  == {applyVerdict(r.moves, v) : r \in Succeed(proposals), v \in Verdicts} \ {<<>>}
  IN  proposals \cup {Plan(ms) : ms \in reviewed}

\* RouterPlanner: a signal goes to the strong model when so configured, and so does a
\* failed or doubtful cheap plan; a doubtful plan stands when the strong model fails.
Routed(p, who, signalled) ==
  LET cheap    == Client(p.providers[1], who)
      strong   == Client(p.providers[2], who)
      doubtful == {r \in Succeed(cheap) : r.moves[1].conf < p.threshold}
  IN  IF p.escalate /\ signalled THEN strong
      ELSE (Succeed(cheap) \ doubtful)
             \cup (IF doubtful # {} THEN Succeed(strong) ELSE {})
             \cup (IF Failure \in strong THEN doubtful ELSE {})
             \cup (IF Failure \in cheap THEN strong ELSE {})

\* EnsemblePlanner: the first member that answers, its first move scaled by agreement.
Agreed(ok) ==
  LET agree == Cardinality({i \in DOMAIN ok : ok[i].moves[1].key = ok[1].moves[1].key})
  IN  IF ok = <<>> THEN Failure
      ELSE Plan([ok[1].moves EXCEPT ![1].conf = clampConfidence((@ * agree) \div Len(ok))])
Ensembled(p, who) ==
  {Agreed(At(rs, {i \in DOMAIN rs : ~rs[i].err})) :
     rs \in {f \in [DOMAIN p.providers -> Modelled] :
              \A i \in DOMAIN p.providers : f[i] \in Client(p.providers[i], who)}}

\* PlannerRouter: a numeric child computes, the others ask the base planner.
BaseAnswers(d, who, signalled) ==
  LET p == Base(d)
  IN  IF Numeric(d) THEN Priced
      ELSE IF p.planner # "multi" THEN Client(p.planner, who)
      ELSE CASE p.mode = "verify" -> Verified(p, who)
             [] p.mode = "route" -> Routed(p, who, signalled)
             [] OTHER -> Ensembled(p, who)

-----------------------------------------------------------------------------
(* The plan cache (internal/llm/cache.go).                                 *)

\* Signal.Note: the kind and the description.
Note(sig) == <<sig.kind, sig.text>>

Keys(ms) == [k \in DOMAIN ms |-> ms[k].key]

\* cacheKey: the planner and its prompt, the input snapshot, the payload and the keys of
\* the current moves.  The incumbent is not part of a child's request.
cacheKey(g, c) ==
  <<c.name, c.prompt, dec[g].facts, Note(dec[g].sig), dec[g].sig.payload, Keys(plan[g].moves)>>

\* What a child's answer depends on, however the key is made.
Request(g, c) == <<c.id, dec[g].facts, dec[g].sig, Keys(plan[g].moves), dec[g].who>>

Find(key) == {k \in DOMAIN cache : cache[k].key = key}
Without(seq, ks) == At(seq, DOMAIN seq \ ks)

\* Get: an entry past its time is a miss.
Live(e) == e.exp = 0 \/ now < e.exp

\* Put: the entry comes first and the least recently used one goes.
Put(e) ==
  LET rest == Without(cache, Find(e.key))
  IN  cache' = <<e>> \o (IF Len(rest) < CacheSize THEN rest ELSE Front(rest))

-----------------------------------------------------------------------------
(* A decision: Engine.Evaluate and Engine.Replan.                          *)

Waiting == [pc |-> "new", err |-> FALSE, moves |-> <<>>, for |-> <<>>, age |-> 0]
Idle == [pc |-> "idle", sig |-> NoSignal, who |-> NoCredentials, facts |-> Nothing, seen |-> 0,
         contribs |-> <<>>, regime |-> NoLabel, kids |-> <<>>, out |-> <<>>, adjusted |-> <<>>,
         cands |-> <<>>, comparator |-> "", winner |-> 0, moves |-> <<>>]
NoPlan == [version |-> 0, moves |-> <<>>, strategy |-> NoLabel, regime |-> NoLabel, cands |-> <<>>]

Init ==
  /\ dep \in {d \in Deployments : Starts(d)}
  /\ now = 0 /\ world = 0 /\ begun = 0
  /\ lastGood = [g \in Goals |-> [i \in DOMAIN Sources(dep) |-> Nothing]]
  /\ cache = <<>>
  /\ plan = [g \in Goals |-> NoPlan]
  /\ dec = [g \in Goals |-> Idle]

\* eligibleChildren: an unknown regime gates nothing, and gating never empties the field.
Eligible(regime) ==
  LET kids == Children(dep)
      fits == At(kids, {k \in DOMAIN kids : regime = NoLabel \/ kids[k].regimes = {} \/ regime \in kids[k].regimes})
  IN  IF Selects(dep) /\ fits # <<>> THEN fits ELSE kids

\* A decision on what the sources contribute now, before a child is asked.
Begun(sig, who, contribs, regime) ==
  [Idle EXCEPT !.pc = "asking", !.sig = sig, !.who = who, !.facts = Folded(contribs),
               !.contribs = contribs, !.seen = world, !.regime = regime,
               !.kids = Eligible(regime), !.out = [i \in DOMAIN Eligible(regime) |-> Waiting]]

\* Evaluate for a goal without a plan, Replan for a signal the domain's gate lets pass.
Triggers(g) == IF plan[g].version = 0 THEN {NoSignal} ELSE {s \in Signals : ShouldReplan(dep, s.kind)}

\* Only byok looks at credentials, only the lenses at a regime.
Credentials == IF ByCaller(dep) THEN Callers \cup {NoCredentials} ELSE {NoCredentials}
Classified == IF Selects(dep) /\ Numeric(dep) THEN Regimes(dep.tickers, Tapes) ELSE {NoLabel}

\* A decision begins: enrich, classify, and ask the eligible children.
Begin(g) ==
  /\ dec[g].pc = "idle" /\ begun < dep.rounds
  /\ \E sig \in Triggers(g), who \in Credentials,
        e \in Enriched(Sources(dep), lastGood[g], world), regime \in Classified :
       /\ dec' = [dec EXCEPT ![g] = Begun(sig, who, Contributions(e), regime)]
       /\ lastGood' = [lastGood EXCEPT ![g] = Remembered(e)]
  /\ begun' = begun + 1
  /\ UNCHANGED <<dep, now, world, cache, plan>>

\* CachingPlanner.GeneratePlan up to the model call: a hit is the child's answer.
Lookup(g, i) ==
  /\ dec[g].pc = "asking" /\ dec[g].out[i].pc = "new"
  /\ LET at == IF CacheOn(dep) THEN Find(cacheKey(g, dec[g].kids[i])) ELSE {} IN
     \/ /\ \E k \in at : /\ Live(cache[k])
                         /\ cache' = <<cache[k]>> \o Without(cache, at)
                         /\ dec' = [dec EXCEPT ![g].out[i] =
                              [pc |-> "done", err |-> FALSE, moves |-> cache[k].moves,
                               for |-> cache[k].for, age |-> now - cache[k].put]]
     \/ /\ \A k \in at : ~Live(cache[k])
        /\ cache' = Without(cache, at)
        /\ dec' = [dec EXCEPT ![g].out[i].pc = "asked"]
  /\ UNCHANGED <<dep, now, world, lastGood, plan, begun>>

\* The model answers; an answer is stored, a failure is not.
Answer(g, i) ==
  /\ dec[g].pc = "asking" /\ dec[g].out[i].pc = "asked"
  /\ \E r \in BaseAnswers(dep, dec[g].who, dec[g].sig # NoSignal) :
       LET c == dec[g].kids[i]
       IN  /\ dec' = [dec EXCEPT ![g].out[i] =
                [pc |-> "done", err |-> r.err, moves |-> r.moves, for |-> Request(g, c), age |-> 0]]
           /\ IF r.err \/ ~CacheOn(dep) THEN UNCHANGED cache
              ELSE Put([key |-> cacheKey(g, c), moves |-> r.moves,
                        for |-> Request(g, c), put |-> now,
                        exp |-> IF TTL(dep) > 0 THEN now + TTL(dep) ELSE 0])
  /\ UNCHANGED <<dep, now, world, lastGood, plan, begun>>

Answered(g) == dec[g].pc = "asking" /\ \A i \in DOMAIN dec[g].out : dec[g].out[i].pc = "done"

\* No child has a plan: the decision fails and the current version stays.
Fail(g) ==
  /\ Answered(g) /\ \A i \in DOMAIN dec[g].out : dec[g].out[i].err
  /\ dec' = [dec EXCEPT ![g] = Idle]
  /\ UNCHANGED <<dep, now, world, lastGood, cache, plan, begun>>

\* What the reviewer is given: the candidates of decision r that have a plan, in order;
\* idx is the inverse of Place.
Planned(r) == {i \in DOMAIN r.out : ~r.out[i].err}
Place(r, i) == Cardinality({k \in Planned(r) : k <= i})

\* ReviewCandidates: VerifyPlan of one candidate after the other.
Review(g) ==
  /\ Answered(g) /\ Selects(dep) /\ CanReview(dep)
  /\ \E i \in Planned(dec[g]), v \in Verdicts :
       /\ Place(dec[g], i) = Len(dec[g].adjusted) + 1
       /\ dec' = [dec EXCEPT ![g].adjusted = Append(@, applyVerdict(dec[g].out[i].moves, v))]
  /\ UNCHANGED <<dep, now, world, lastGood, cache, plan, begun>>

\* The review returned no error: otherwise there is no verifier, or VerifyPlan failed for
\* the next candidate.
Reviewed(r) == Selects(dep) /\ CanReview(dep) /\ Len(r.adjusted) = Cardinality(Planned(r))

Result_Partial(r, i) ==   \* mutant: what was reviewed before the failure is kept
  IF ~r.out[i].err /\ Place(r, i) <= Len(r.adjusted) THEN r.adjusted[Place(r, i)] ELSE r.out[i].moves
Result(r, i) ==
  IF ~r.out[i].err /\ Reviewed(r) THEN r.adjusted[Place(r, i)] ELSE r.out[i].moves

Candidates(r) ==
  [i \in DOMAIN r.out |-> [id |-> r.kids[i].id, err |-> r.out[i].err, moves |-> Result(r, i)]]

ScoresOf(g, cands, weights) ==
  [i \in DOMAIN cands |-> Scored(dep.goal, weights, dec[g].regime, cands[i])]

\* The haircut is taken from a copy of the winner's moves.
Haircut(ms, penalty) == [k \in DOMAIN ms |-> [ms[k] EXCEPT !.conf = clampConfidence(@ - penalty)]]

Chosen(r, winner, ms, comparator) ==
  [r EXCEPT !.pc = "chosen", !.cands = Candidates(r), !.adjusted = <<>>, !.winner = winner,
            !.moves = ms, !.comparator = comparator]

\* SelectorPlanner.GeneratePlan after the review; a single planner's answer stands.
Choose(g) ==
  /\ Answered(g) /\ Planned(dec[g]) # {}
  /\ IF Selects(dep)
     THEN LET cands   == Candidates(dec[g])
              scored  == ScoresOf(g, cands, dep.weights)
              winner  == Select(scored, plan[g].strategy, Margin(dep))
              penalty == DisagreementPenalty(scored, scored[winner].top, PenaltyStep(dep))
          IN  dec' = [dec EXCEPT ![g] =
                Chosen(dec[g], winner, Haircut(cands[winner].moves, penalty),
                       IF Reviewed(dec[g]) THEN "verify" ELSE "utility")]
     ELSE dec' = [dec EXCEPT ![g] = Chosen(dec[g], 1, dec[g].out[1].moves, "")]
  /\ UNCHANGED <<dep, now, world, lastGood, cache, plan, begun>>

\* What provenance says won: the incumbent of the next decision.
SelectedStrategy_Unweighted(g) ==   \* mutant: named by the utilities as they were before the weights
  LET s == ScoresOf(g, dec[g].cands, <<>>)
  IN  IF Selects(dep) THEN dec[g].cands[Select(s, plan[g].strategy, Margin(dep))].id ELSE NoLabel
SelectedStrategy(g) == IF Selects(dep) THEN dec[g].cands[dec[g].winner].id ELSE NoLabel

Material(g) == plan[g].version = 0 \/ IsMaterial(plan[g].moves, dec[g].moves, Delta(dep))

\* buildVersion and the evaluator: a material candidate becomes the next version.
Commit(g) ==
  /\ dec[g].pc = "chosen"
  /\ plan' = IF ~Material(g) THEN plan
             ELSE [plan EXCEPT ![g] = [version |-> @.version + 1, moves |-> dec[g].moves,
                                       strategy |-> SelectedStrategy(g), regime |-> dec[g].regime,
                                       cands |-> dec[g].cands]]
  /\ dec' = [dec EXCEPT ![g] = Idle]
  /\ UNCHANGED <<dep, now, world, lastGood, cache, begun>>

\* Time passes, where entries expire, and the world changes.
Tick == TTL(dep) > 0 /\ now < MaxTime /\ now' = now + 1 /\ UNCHANGED <<dep, world, lastGood, cache, plan, dec, begun>>
WorldChanges ==
  Sources(dep) # <<>> /\ world < MaxWorld /\ world' = world + 1 /\ UNCHANGED <<dep, now, lastGood, cache, plan, dec, begun>>

Next ==
  \/ \E g \in Goals : Begin(g) \/ Fail(g) \/ Review(g) \/ Choose(g) \/ Commit(g)
  \/ \E g \in Goals : \E i \in DOMAIN dec[g].out : Lookup(g, i) \/ Answer(g, i)
  \/ Tick \/ WorldChanges

Spec == Init /\ [][Next]_vars

-----------------------------------------------------------------------------
(* Properties.                                                             *)

\* The strategies compare answers to this very decision: whatever entries goals, children
\* and callers share (CachingPlanner, MemoryCache, newEngine), a child's answer was planned
\* for its own strategy, context, signal and current moves, was stored less than the TTL
\* before it was served and, where byok is the planner, was made with the caller's own key.
AnswersThisDecision ==
  \A g \in Goals : \A i \in DOMAIN dec[g].out :
    LET o == dec[g].out[i]
        asked == Request(g, dec[g].kids[i])
    IN  o.pc = "done" => /\ \A n \in 1..4 : o.for[n] = asked[n]
                         /\ dep.planner.planner = "byok" => o.for = asked
                         /\ TTL(dep) > 0 => o.age < TTL(dep)

\* "caching would serve one visitor's plan to another. Skip it" (newEngine): also where byok
\* is a member of a multi planner, an answer was made for its own caller.
AnswersThisRequest ==
  \A g \in Goals : \A i \in DOMAIN dec[g].out :
    dec[g].out[i].pc = "done" => dec[g].out[i].for = Request(g, dec[g].kids[i])

\* The winner has a plan and, when some candidate is admissible, is one of them that no
\* other beats by more than the margin; a margin below 0, which a negative delta leaves,
\* holds nothing.  One that is not the incumbent is beaten by none and leaves an admissible
\* incumbent more than the margin behind (SelectorPlanner's GeneratePlan, strategy.Select).
WinnerIsJustified ==
  \A g \in Goals : dec[g].pc = "chosen" /\ Selects(dep) =>
    LET s == ScoresOf(g, dec[g].cands, dep.weights)
        w == s[dec[g].winner]
        rivals == {s[j] : j \in Admissible(s)}
    IN  /\ ~w.err
        /\ rivals # {} => w \in rivals
        /\ \A r \in rivals : IF w.id = plan[g].strategy
                               THEN r.weighted <= w.weighted \/ r.weighted <= w.weighted + Margin(dep)
                             ELSE IF r.id = plan[g].strategy THEN r.weighted + Margin(dep) < w.weighted
                             ELSE r.weighted <= w.weighted

\* "The contract is ALL-OR-NOTHING" (CandidateReviewer): whichever children failed and
\* wherever the reviews stopped, a competition is decided over the verifier's view of every
\* strategy's own answer when its provenance names the verify comparator, and over the raw
\* answers when it does not.
SameBasis ==
  \A g \in Goals : dec[g].pc = "chosen" =>
    \A i \in DOMAIN dec[g].cands :
      LET own == dec[g].out[i]
      IN  ~own.err => dec[g].cands[i].moves \in
            IF dec[g].comparator = "verify" THEN {applyVerdict(own.moves, v) : v \in Verdicts}
            ELSE {own.moves}

\* Nothing churns: a decision over the candidates that made the current version, in the
\* same regime, leaves that version current, whatever was decided and cached in between
\* (the incumbent margin of strategy.Select, ThresholdEvaluator.IsMaterial).
NoChurn ==
  \A g \in Goals :
    /\ dec[g].pc = "chosen" /\ plan[g].version > 0 /\ plan[g].moves # <<>>
    /\ dec[g].cands = plan[g].cands /\ dec[g].regime = plan[g].regime
    => ~Material(g)

\* A contribution that is not marked stale holds what every member of its source reported
\* for this very decision (Enricher.Enrich over CachingSource and Composite), so a last
\* good or partial context is never planned on as a current one.
NoFakeFreshness ==
  \A g \in Goals : dec[g].pc # "idle" =>
    \A i \in DOMAIN dec[g].contribs :
      dec[g].contribs[i].stale
        \/ dec[g].contribs[i].delta = [k \in 1..Sources(dep)[i].members |-> dec[g].seen]
=============================================================================
