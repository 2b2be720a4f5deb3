----------------------------- MODULE MCPlanning -----------------------------
(***************************************************************************)
(* Planning for TLC: a finance domain with two lenses, a text domain with  *)
(* two reviewed prompt variants, and single planners; and the computations *)
(* a decision rests on, which meet it in their results only: the theses a  *)
(* lens sizes, the graph that is stored, the weights and the curve that    *)
(* are learned.  A behaviour is one of these tasks.                        *)
(***************************************************************************)
EXTENDS MCSizing, Planning, MoveGraph, Learning, Calibration, TLC

CONSTANTS g1, g2

Move(key, conf, impact, risk) ==
  [key |-> key, conf |-> conf, raw |-> 0, impact |-> impact, effort |-> "low", risk |-> risk, deps |-> {}]

MCReplies == {<<Move("a", 60, "high", "low"), Move("b", 40, "medium", "medium")>>,
              <<Move("b", 80, "high", "high")>>,
              <<Move("a", -1, "tiny", "high")>>, <<>>}
MCVerdicts == {[a |-> 50], [b |-> Drop]}
MCSignals == {[kind |-> k, text |-> "t", payload |-> "p"] : k \in {"price_move", "thesis_break"}}
MCCallers == {[provider |-> p, key |-> "k"] : p \in {"anthropic", "gemini"}}
MCTapes == {[bars |-> 41, vol |-> 5, dd |-> 20, er |-> 40], [bars |-> 252, vol |-> 11, dd |-> 5, er |-> 30],
            [bars |-> 40, vol |-> 3, dd |-> 2, er |-> 10]}

Strategy(id, template, regimes) == [id |-> id, template |-> template, regimes |-> regimes]
Only(planner) == [planner |-> planner, mode |-> "", providers |-> <<>>, threshold |-> 50, escalate |-> FALSE]
Multi(mode, first, second) == [Only("multi") EXCEPT !.mode = mode, !.providers = <<first, second>>]
Spec1(p) == <<[planner |-> p.planner, mode |-> p.mode, providers |-> p.providers]>>

TextBase ==
  [kind |-> "text", strategies |-> <<>>, disabled |-> {}, on |-> TRUE, policyOn |-> <<>>, wired |-> TRUE,
   planner |-> Only("mock"), spec |-> <<>>, weights |-> <<>>, margin |-> 0, delta |-> 5,
   policyDelta |-> <<>>, comparator |-> "utility", cacheSize |-> 2, ttl |-> 1, goal |-> "default",
   ignore |-> {"price_move"}, policyIgnore |-> <<{}>>, sources |-> <<>>, policySources |-> <<>>,
   sourcesOn |-> FALSE, file |-> <<>>, wiredSources |-> <<>>, tickers |-> 2, rounds |-> 3]

Finance == [TextBase EXCEPT !.kind = "finance", !.rounds = 2, !.policyIgnore = <<>>,
              !.strategies = <<Strategy("value", "", {}), Strategy("trend", "", {"trend"})>>,
              !.weights = (<<"trend", "trend">> :> 130) @@ (<<"value", "">> :> 80)]
Variants == <<Strategy("bold", "tb", {}), Strategy("safe", "ts", {})>>
Text == [TextBase EXCEPT !.strategies = Variants, !.comparator = "verify", !.goal = "conservative",
           !.policyDelta = <<0>>, !.policyIgnore = <<>>, !.rounds = 2, !.planner = Only("openai")]
Duel == [TextBase EXCEPT !.strategies = Variants, !.weights = (<<"safe", "">> :> 130), !.policyIgnore = <<>>]
Sourced == [TextBase EXCEPT !.rounds = 2, !.sourcesOn = TRUE, !.sources = <<"crm">>,
              !.policySources = <<<<"news", "crm", "gone">>>>, !.file = <<[name |-> "crm", kind |-> ""]>>,
              !.wiredSources = ("news" :> [members |-> 2, cached |-> TRUE])]

Shared == [TextBase EXCEPT !.planner = Multi("ensemble", "byok", "mock"), !.policyIgnore = <<>>, !.rounds = 2]
MCShared == {Shared}

\* The settings that start, and for each check of a configuration one it refuses.
MCDeployments ==
  {Finance, Text, Duel, Sourced, Shared,
   [Finance EXCEPT !.disabled = {"value"}],                             \* one lens, pinned
   [Finance EXCEPT !.wired = FALSE, !.planner = Multi("ensemble", "mock", "openai")],  \* no market data
   [TextBase EXCEPT !.spec = Spec1(Multi("verify", "mock", "openai")), !.rounds = 2],
   [TextBase EXCEPT !.planner = Multi("route", "openai", "anthropic")],
   [Text EXCEPT !.planner = Multi("verify", "mock", "mock"), !.rounds = 1],  \* no verifier, no reviewer
   [Duel EXCEPT !.planner = Only("byok"), !.policyOn = <<FALSE>>, !.rounds = 2]}
  \cup
  {[Text EXCEPT !.strategies = <<Variants[1], Strategy("safe", "tb", {})>>],
   [Finance EXCEPT !.strategies = <<Strategy("value", "", {"crash"}), Strategy("trend", "", {})>>],
   [Duel EXCEPT !.weights = (<<"safe", "">> :> 0)], [Duel EXCEPT !.margin = -1],
   [Text EXCEPT !.spec = Spec1(Multi("verify", "mock", "openai"))],
   [TextBase EXCEPT !.spec = Spec1(Multi("verify", "openai", "mock"))],
   [TextBase EXCEPT !.planner = Multi("vote", "mock", "mock")],
   [Sourced EXCEPT !.file = <<[name |-> "crm", kind |-> "mcp"]>>]}

MCVersion(strategy, regime, comparator) ==
  [strategy |-> strategy, regime |-> regime, comparator |-> comparator,
   moves |-> {[rank |-> 1, conf |-> 60, raw |-> 50]}]
MCBooks ==
  {[domain |-> "investing",
    versions |-> <<MCVersion("value", "trend", ""), MCVersion("value", "", "verify")>>],
   [domain |-> "health", versions |-> <<MCVersion("value", "", "")>>]}

VARIABLE task   \* what this behaviour computes

\* The initial states with one task; the other machines rest.
NoDecision ==
  /\ dep = Finance /\ now = 0 /\ world = 0 /\ begun = 0 /\ lastGood = [g \in Goals |-> <<>>]
  /\ cache = <<>> /\ plan = [g \in Goals |-> NoPlan] /\ dec = [g \in Goals |-> Idle]
NoSizing ==
  /\ config = Policy /\ budget = Policy.risk /\ market = (CHOOSE m \in MCMarkets : TRUE) /\ assets = {} /\ horizon = 0
  /\ current = Unplanned /\ stage = "base" /\ limits = <<>> /\ heard = NoMarketSignal
NoGraph == moves = <<>> /\ color = <<>> /\ rest = <<>> /\ stack = <<>> /\ removed = {} /\ order = <<>>
NoCalibration == tally = [k \in 1..BinCount |-> [n |-> 0, wins |-> 0]] /\ bin = 1 /\ blocks = <<>>

TasksInit ==
  /\ task \in {"decide", "size", "sanitize", "learn", "calibrate"} /\ LearningInit
  /\ IF task = "decide" THEN Init ELSE NoDecision
  /\ IF task = "size" THEN SizingInit ELSE NoSizing
  /\ IF task = "sanitize" THEN GraphInit ELSE NoGraph
  /\ IF task = "calibrate" THEN CalibrationInit ELSE NoCalibration

TasksNext ==
  /\ UNCHANGED task
  /\ \/ task = "decide" /\ Next /\ UNCHANGED <<sizingVars, graphVars, learningVars, calibrationVars>>
     \/ task = "size" /\ SizingNext /\ UNCHANGED <<vars, graphVars, learningVars, calibrationVars>>
     \/ task = "sanitize" /\ GraphNext /\ UNCHANGED <<vars, sizingVars, learningVars, calibrationVars>>
     \/ task = "learn" /\ LearningNext /\ UNCHANGED <<vars, sizingVars, graphVars, calibrationVars>>
     \/ task = "calibrate" /\ CalibrationNext /\ UNCHANGED <<vars, sizingVars, graphVars, learningVars>>

TasksSpec == TasksInit /\ [][TasksNext]_<<task, vars, sizingVars, graphVars, learningVars, calibrationVars>>

\* Decisions only.
DecideSpec == TasksInit /\ task = "decide" /\ [][TasksNext]_<<task, vars, sizingVars, graphVars, learningVars, calibrationVars>>

Symmetry == Permutations(Goals)
=============================================================================
