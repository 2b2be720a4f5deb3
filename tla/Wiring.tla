------------------------------- MODULE Wiring -------------------------------
(***************************************************************************)
(* How a process is wired before it decides anything: which configurations *)
(* and policies start (internal/config, internal/policy), which planner,   *)
(* strategies, cache, gate and sources a domain gets from them             *)
(* (cmd/dde, internal/wire), and how the sources of a decision are asked   *)
(* and folded into its context (internal/source).                          *)
(*                                                                         *)
(* A deployment is a record of one domain's pack, the global settings and  *)
(* the domain's policy.  A setting the policy may leave out is a sequence  *)
(* of at most one value.  A planner setting is [planner, mode, providers]. *)
(***************************************************************************)
EXTENDS Selection, SequencesExt

CONSTANT Labels   \* the regimes the classifier knows

\* A policy's value replaces the pack's: effectiveIgnoreKinds, effectiveDelta,
\* effectiveSourceKinds and selectionEnabled have this one shape.
Overridden(policy, pack) == IF policy = <<>> THEN pack ELSE policy[1]

IgnoredKinds(d) == Overridden(d.policyIgnore, d.ignore)
ShouldReplan(d, kind) == kind \notin IgnoredKinds(d)   \* KindGate
SelectionEnabled(d) == Overridden(d.policyOn, d.on)
SourceKinds(d) == Overridden(d.policySources, d.sources)

\* The elements of seq at the positions ks, in their order.
At(seq, ks) ==
  [n \in 1..Cardinality(ks) |-> seq[CHOOSE k \in ks : Cardinality({l \in ks : l <= k}) = n]]

-----------------------------------------------------------------------------
(* What starts.                                                            *)

Verifiers == {"anthropic", "openai", "deepseek"}   \* the clients with a VerifyPlan
Backends == Verifiers \cup {"mock"}                \* policy.singleBackends
Modes == {"verify", "route", "ensemble"}

\* Config.Validate: the members of a multi planner are not looked at.
ConfigValid(p) ==
  \/ p.planner \in Backends \cup {"finance", "byok"}
  \/ p.planner = "multi" /\ p.mode \in Modes /\ Len(p.providers) >= 2

\* PlannerSpec.validate: a domain's override says all of a multi planner or nothing, and
\* its verifier can verify.
SpecValid(s) ==
  /\ s.planner # "multi" => s.mode = "" /\ s.providers = <<>> /\ s.planner \in Backends \cup {""}
  /\ s.planner = "multi" =>
       /\ s.mode \in Modes /\ Len(s.providers) >= 2
       /\ \A i \in DOMAIN s.providers : s.providers[i] \in Backends
       /\ s.mode = "verify" => s.providers[2] # "mock"

\* StrategySelection.validate and Policy.Validate: no weight that turns utilities over, no
\* negative margin, no unknown comparator, and no second review of a verified plan.
PolicyValid(d) ==
  /\ \A i \in DOMAIN d.spec : SpecValid(d.spec[i])
  /\ \A k \in DOMAIN d.weights : d.weights[k] > 0
  /\ d.margin >= 0
  /\ d.comparator \in {"", "utility", "verify"}
  /\ ~(d.comparator = "verify" /\ d.spec # <<>> /\ d.spec[1].mode = "verify")

\* buildSourceDeps: the file names each source once and knows http ones.
SourcesLoad(d) ==
  d.sourcesOn => \A i, j \in DOMAIN d.file : /\ d.file[i].name # "" /\ d.file[i].kind \in {"http", ""}
                                             /\ d.file[i].name = d.file[j].name => i = j

\* activeStrategies; buildStrategySelector declines when selection is off, nothing is
\* declared or, but only then, the kind's data is missing.
activeStrategies(d) == At(d.strategies, {k \in DOMAIN d.strategies : d.strategies[k].id \notin d.disabled})
Wanted(d) == SelectionEnabled(d) /\ activeStrategies(d) # <<>>
Competes(d) == Wanted(d) /\ (d.kind = "finance" => d.wired)

\* ValidateStrategies, of the disabled ones too: no name twice, one without a gate.
ValidStrategies(s) ==
  /\ \A i, j \in DOMAIN s : s[i].id # "" /\ (s[i].id = s[j].id => i = j)
  /\ Len(s) >= 2 => \E i \in DOMAIN s : s[i].regimes = {}

\* Text variants must not share a template, nor have none.
DistinctTemplates(d) ==
  LET s == activeStrategies(d)
  IN  /\ \A i \in DOMAIN s : s[i].template # ""
      /\ \A i, j \in DOMAIN s : s[i].template = s[j].template => i = j

\* BuildPlannerRouter fails on strategies that could not compete as they were meant to.
Builds(d) ==
  LET known == IF d.kind = "finance" THEN Labels ELSE {}
  IN  /\ Wanted(d) => ValidStrategies(d.strategies)
      /\ Competes(d) =>
           /\ \A i \in DOMAIN activeStrategies(d) : activeStrategies(d)[i].regimes \subseteq known
           /\ d.kind # "finance" => DistinctTemplates(d)

Starts(d) == ConfigValid(d.planner) /\ PolicyValid(d) /\ Builds(d) /\ SourcesLoad(d)

-----------------------------------------------------------------------------
(* The planners of a domain.                                               *)

\* plannerFromSpec: what the override leaves empty is the global setting.
PlannerOf(d) ==
  LET p == d.planner s == d.spec[1]
  IN  IF d.spec = <<>> THEN p
      ELSE [p EXCEPT !.planner   = IF s.planner = "" THEN @ ELSE s.planner,
                     !.mode      = IF s.mode = "" THEN @ ELSE s.mode,
                     !.providers = IF s.providers = <<>> THEN @ ELSE s.providers]

\* newMultiPlanner: a second provider that cannot verify leaves the proposer alone.
Base(d) ==
  LET p == PlannerOf(d)
  IN  IF p.planner = "multi" /\ p.mode = "verify" /\ p.providers[2] \notin Verifiers
      THEN [p EXCEPT !.planner = p.providers[1]] ELSE p

\* Planner.Name, as the cache and provenance know the base.
Name(p) == CASE p.planner = "multi" -> <<"multi", p.mode>>
             [] p.planner \in Verifiers \cup {"byok"} -> <<p.planner, "">>
             [] OTHER -> <<"mock", "">>

\* The comparator's reviewer is the base planner, when it can verify.
CanReview(d) == d.comparator = "verify" /\ Base(d).planner \in Verifiers

\* A lens of the finance kind is known to the cache by its name; a text variant by its
\* prompt, which GuidedPlanner puts into the request before the cache sees it.
Numeric(d) == d.kind = "finance" /\ d.wired
Prompt(d, s) == IF Numeric(d) THEN "" ELSE s.template
Child(d, s) ==
  [id |-> s.id, regimes |-> s.regimes,
   name   |-> IF Numeric(d) THEN <<"finance", s.id>> ELSE Name(Base(d)),
   prompt |-> Prompt(d, s)]

\* One per competing strategy, or one.
Children(d) ==
  IF Competes(d) THEN [i \in DOMAIN activeStrategies(d) |-> Child(d, activeStrategies(d)[i])]
  ELSE <<Child(d, [id |-> NoLabel, template |-> "pack", regimes |-> {}])>>

\* NewSelectorPlanner needs two children: a single one is the planner itself.
Selects(d) == Len(Children(d)) >= 2

\* NewSelectorPlanner, ThresholdEvaluator: what an unset delta or margin stands for.
DeltaOf(d) == Overridden(d.policyDelta, d.delta)
PenaltyStep(d) == IF DeltaOf(d) = 0 THEN 5 ELSE DeltaOf(d)
Margin(d) == IF d.margin = 0 THEN 100 * PenaltyStep(d) ELSE d.margin
Delta(d) == IF DeltaOf(d) <= 0 THEN 10 ELSE DeltaOf(d)

\* The base planner asks a model with the caller's own key: newMultiPlanner builds the byok
\* planner for a member that is called so.
ByCaller(d) ==
  LET p == Base(d)
  IN  p.planner = "byok" \/ (p.planner = "multi" /\ \E i \in DOMAIN p.providers : p.providers[i] = "byok")

\* newEngine: plans are cached unless each caller brings a key; text entries never
\* expire, numeric ones must.  0 is no expiry.
CacheOn_Always(d) == d.cacheSize > 0 /\ (Numeric(d) => d.ttl > 0)   \* mutant: byok too
CacheOn(d) == d.cacheSize > 0 /\ d.planner.planner # "byok" /\ (Numeric(d) => d.ttl > 0)
TTL(d) == IF Numeric(d) THEN d.ttl ELSE 0

-----------------------------------------------------------------------------
(* Sources.  A source is [members, cached]: an adapter has one member, a   *)
(* Composite several, and a CachingSource remembers a last good delta.     *)
(* Members report the state of the world.                                  *)

\* NewSourceResolver: the domain's kinds that are wired, in declared order.  d.wiredSources
\* are those an embedding program registers, the file's are plain HTTP adapters.
HTTPSource == [members |-> 1, cached |-> FALSE]
Sources(d) ==
  LET file   == IF d.sourcesOn THEN {d.file[i].name : i \in DOMAIN d.file} ELSE {}
      kinds  == SourceKinds(d)
      wired  == At(kinds, {k \in DOMAIN kinds : kinds[k] \in file \cup DOMAIN d.wiredSources})
  IN  [i \in DOMAIN wired |-> IF wired[i] \in file THEN HTTPSource ELSE d.wiredSources[wired[i]]]

Nothing == <<>>   \* the empty delta

\* Fetch of an HTTP, MCP or agent source: any failure is a stale empty result.
Adapter(world) == {[delta |-> <<world>>, stale |-> FALSE], [delta |-> Nothing, stale |-> TRUE]}

\* Composite.Fetch: what the members say, in order, stale when one of them is.
Merged(answers) ==
  [delta |-> FlattenSeq([k \in DOMAIN answers |-> answers[k].delta]),
   stale |-> \E k \in DOMAIN answers : answers[k].stale]
Primary(s, world) == {Merged(f) : f \in [1..s.members -> Adapter(world)]}

\* CachingSource.Fetch: a fresh result is remembered, a stale one gives way to the last
\* good one, marked.
ServeLastGood_AsFresh(r, last) ==   \* mutant: with its own mark
  IF last = Nothing THEN r ELSE [delta |-> last, stale |-> FALSE]
ServeLastGood(r, last) == IF last = Nothing THEN r ELSE [delta |-> last, stale |-> TRUE]

\* Enricher.fetchOne: a source that panics gets past its own cache.
Fetched(s, last, world) ==
  LET recalled(r) == IF s.cached /\ r.stale THEN ServeLastGood(r, last) ELSE r
      kept(r)     == IF s.cached /\ ~r.stale THEN r.delta ELSE last
  IN  {[out |-> recalled(r), last |-> kept(r)] : r \in Primary(s, world)}
        \cup {[out |-> [delta |-> Nothing, stale |-> TRUE], last |-> last]}

\* Enricher.Enrich: one contribution per source; the deltas are appended in order.
Enriched(sources, last, world) ==
  {f \in [DOMAIN sources -> UNION {Fetched(sources[i], last[i], world) : i \in DOMAIN sources}] :
     \A i \in DOMAIN sources : f[i] \in Fetched(sources[i], last[i], world)}
Contributions(e) == [i \in DOMAIN e |-> e[i].out]
Remembered(e) == [i \in DOMAIN e |-> e[i].last]
Folded(contribs) == FlattenSeq([i \in DOMAIN contribs |-> contribs[i].delta])

-----------------------------------------------------------------------------
(* The regime of a goal (internal/finance/regime.go).  A tape is the window*)
(* of a ticker's bars: how many there are, and in percent the monthly      *)
(* volatility, the drawdown and the efficiency ratio of the last 126.      *)

Unfetched == [bars |-> 0, vol |-> 0, dd |-> 0, er |-> 0]   \* a ticker whose bars failed

ClassifyRegime(t) ==
  CASE t.bars < 40 -> NoLabel
    [] t.bars >= 40 /\ (t.vol >= 12 \/ t.dd >= 20) -> "high_vol"
    [] t.bars >= 40 /\ t.vol < 12 /\ t.dd < 20 /\ t.er >= 30 -> "trend"
    [] OTHER -> "range"

\* Risk dominates; else the strict majority; a tie says nothing.
CombineRegimes(tapes) ==
  LET count(r) == Cardinality({i \in DOMAIN tapes : ClassifyRegime(tapes[i]) = r})
  IN  CASE count("high_vol") > 0 -> "high_vol"
        [] count("high_vol") = 0 /\ count("trend") > count("range") -> "trend"
        [] count("high_vol") = 0 /\ count("range") > count("trend") -> "range"
        [] OTHER -> NoLabel

\* financeRegimeFn over every tape the tickers of the goal may show.
Regimes(tickers, tapes) == {CombineRegimes(f) : f \in [1..tickers -> tapes \cup {Unfetched}]}
=============================================================================
