------------------------------- MODULE Sizing -------------------------------
(***************************************************************************)
(* The finance planner (internal/llm/finance_planner.go) over the scoring  *)
(* math of internal/finance: a policy's risk budget is overlaid by a lens, *)
(* tightened by the goal's constraints, and bounds the sizes of the theses *)
(* a plan ranks; a later signal makes a candidate, which replaces the plan *)
(* when it is material.                                                    *)
(*                                                                         *)
(* Units: caps in ten-thousandths, the Kelly multiplier in 1/1600ths;      *)
(* probabilities, stops, gaps and scores in thousandths; prior weights and *)
(* ratios in tenths; composites, confidences and sizes in percent, as      *)
(* round2 leaves them; money in millions.  No calibration curve is         *)
(* installed (Calibration); texts are left out.                            *)
(***************************************************************************)
EXTENDS Selection, SequencesExt

\* What is known of a ticker, PriorWeights, ScoreWeights, RiskBudget, ScoringConfig and
\* StrategyParams.
Readings == [pe : Int, pb : Int, eps : Int, cum : Int, bar : Int, dd : Int, adv : Int]
Priors == [val : Int, qual : Int, mom : Int]
Weights == [ev : Int, risk : Int, liq : Int, hor : Int]
Budgets == [kelly : Int, pos : Int, trade : Int, agg : Int, equity : Int]
Scorings == [weights : Weights, risk : Budgets, ratio : Int]
Lens == [prior : Priors, weights : Weights, ratio : Int, kelly : Int, trade : Int, agg : Int]

CONSTANTS Tickers,          \* the tickers there are, as a sequence in the order of their names
          Markets,          \* what the market data says: [facts, rho, overlap] records
          Horizons,         \* the days of a goal's time_horizon, 0 when it states none
          Policies,         \* the domains' scoring; 0 is unset
          Lenses,           \* the packs' strategies
          Overrides,        \* what a policy overrides of a lens
          Constraints,      \* goal constraints: [kind, limit] or [kind, tolerance]
          MarketSignals,    \* [kind, ticker, x] records
          MaxConstraints    \* model bound: the constraints of a goal

\* What the types and the readings of the code make of its inputs.
ASSUME SizingAssumption ==
  /\ MaxConstraints \in Nat /\ Horizons \subseteq Nat
  /\ Len(Tickers) \in Nat /\ DOMAIN Tickers = 1..Len(Tickers)
  /\ \A i, j \in DOMAIN Tickers : Tickers[i] = Tickers[j] => i = j
  /\ \A m \in Markets : m.rho \in Int /\ m.facts \in [Range(Tickers) -> Readings]
  /\ Policies \subseteq Scorings /\ Lenses \subseteq Lens /\ Overrides \subseteq Lens
  /\ \A s \in MarketSignals : s.x \in Int

VARIABLES config,    \* the planner's scoring, priorWeights (prior) and confWeights (shared)
          budget,    \* budget: the risk budget after the goal's constraints
          assets,    \* the tickers of the goal's context
          horizon,   \* goalHorizonDays
          market,    \* what the providers answer
          current,   \* the current version: the theses, ranked, and the scale of their sizes
          stage,     \* "base", "goal", "held" or "replanned"
          limits,    \* the constraints taken in
          heard      \* history, for the properties: the last signal planned for

sizingVars == <<config, budget, assets, horizon, market, current, stage, limits, heard>>

None == 0 - 1000
NoMarketSignal == [kind |-> "", ticker |-> "", x |-> 0]
Clamp(x, lo, hi) == IF x < lo THEN lo ELSE IF x > hi THEN hi ELSE x
NoWeights == [ev |-> 0, risk |-> 0, liq |-> 0, hor |-> 0]
NoPrior == [val |-> 0, qual |-> 0, mom |-> 0]
Neutral == [val |-> 10, qual |-> 10, mom |-> 10]

\* p percent of a cap: the smallest set cap is not the unset 0.
Share(x, p) == IF x > 0 THEN (x * p + 99) \div 100 ELSE (x * p) \div 100

-----------------------------------------------------------------------------
(* The budget.                                                             *)

\* ScoringConfig.Normalize: unset fields get the defaults; a negative cap stays, it
\* spells "no such cap".
DefaultScoringConfig ==
  [weights |-> [ev |-> 40, risk |-> 30, liq |-> 15, hor |-> 15], ratio |-> 20,
   risk |-> [kelly |-> 400, pos |-> 2000, trade |-> 200, agg |-> 600, equity |-> 0]]

Normalize(c) ==
  LET default == DefaultScoringConfig
  IN  [weights |-> IF c.weights = NoWeights THEN default.weights ELSE c.weights,
       ratio   |-> IF c.ratio <= 0 THEN default.ratio ELSE c.ratio,
       risk    |-> [f \in DOMAIN default.risk |->
                      IF c.risk[f] = 0 THEN default.risk[f] ELSE c.risk[f]]]

\* tightenOnly: a cap multiplier, in percent, that is unset or loosens changes nothing.
tightenOnly_AsGiven(v) == IF v <= 0 THEN 100 ELSE v   \* mutant: a policy may loosen a cap
tightenOnly(v) == IF v <= 0 \/ v >= 100 THEN 100 ELSE v

\* StrategyParams.Merge: the set fields of the policy's override win.
Overriding(o, x) == IF o > 0 THEN o ELSE x

Merge(lens, o) ==
  [prior   |-> IF o.prior = NoPrior THEN lens.prior ELSE o.prior,
   weights |-> IF o.weights = NoWeights THEN lens.weights ELSE o.weights,
   ratio   |-> Overriding(o.ratio, lens.ratio),
   kelly   |-> Overriding(o.kelly, lens.kelly),
   trade   |-> Overriding(o.trade, lens.trade),
   agg     |-> Overriding(o.agg, lens.agg)]

\* StrategyParams.Apply: the lens over a normalized policy.
ApplyLens(lens, base) ==
  [weights |-> IF lens.weights # NoWeights THEN lens.weights ELSE base.weights,
   ratio   |-> IF lens.ratio > 0 THEN lens.ratio ELSE base.ratio,
   risk    |-> [base.risk EXCEPT
                  !.kelly = IF lens.kelly > 0 THEN (@ * lens.kelly) \div 100 ELSE @,
                  !.trade = Share(@, tightenOnly(lens.trade)),
                  !.pos   = Share(@, tightenOnly(lens.trade)),
                  !.agg   = IF @ > 0 THEN Share(@, tightenOnly(lens.agg)) ELSE @]]

\* EffectiveRiskBudget: one constraint.  A limit that does not parse or is no fraction
\* below one is skipped, like any wording of a tolerance but the two.
Fractional == 1..9999

Limited(b, dd) ==
  [b EXCEPT !.pos   = IF @ = 0 \/ dd < @ THEN dd ELSE @,
            !.trade = IF @ = 0 \/ Share(dd, 20) < @ THEN Share(dd, 20) ELSE @,
            !.agg   = IF @ <= 0 \/ dd < @ THEN dd ELSE @]

Tightened(b, c) ==
  CASE c.kind = "drawdown_limit" /\ c.limit \in Fractional -> Limited(b, c.limit)
    [] c.kind = "risk_tolerance" /\ c.tolerance = "conservative" ->
         [b EXCEPT !.kelly = @ \div 2, !.pos = Share(@, 50)]
    [] c.kind = "risk_tolerance" /\ c.tolerance = "aggressive" -> [b EXCEPT !.kelly = (@ * 3) \div 2]
    [] OTHER -> b

-----------------------------------------------------------------------------
(* A thesis.  Facts are [pe, pb, eps, cum, bar, dd, adv]: the fundamentals  *)
(* (0 is unknown, pb in tenths), the trailing return in percent or None,   *)
(* the volatility of a daily bar, the worst drawdown, and the dollar volume*)
(* of a day; all 0 where a provider has nothing.                           *)

\* ParseMarketSignal: a kind it does not know, or a payload of another shape, is no signal.
Parsed(sig) ==
  IF sig.kind \in {"price_move", "earnings", "macro", "valuation_change", "thesis_break"}
  THEN sig ELSE NoMarketSignal

\* ComputePriorTilts, in percent.
Valuation(f) ==
  (CASE f.pe \in 1..12 -> 5 [] f.pe \in 13..16 -> 3 [] f.pe \in 23..30 -> -2 [] f.pe > 30 -> -5 [] OTHER -> 0)
  + (CASE f.pb \in 1..15 -> 2 [] f.pb >= 40 -> -2 [] OTHER -> 0)
Quality(f) == CASE f.eps > 0 -> 1 [] f.eps < 0 -> -4 [] OTHER -> 0
Momentum(f) == CASE f.cum >= 10 -> 3 [] f.cum \in -100..-10 -> -3 [] OTHER -> 0

\* WinProbPriorWeighted: flat when nothing is known or the tilts cancel out.
Prior(f, w) ==
  LET tilt == w.val * Valuation(f) + w.qual * Quality(f) + w.mom * Momentum(f)
  IN  IF tilt = 0 THEN None ELSE Clamp(500 + tilt, 350, 650)

\* WinProbHint: what the signal says of the ticker it is about.
Hint(sig) ==
  CASE sig.kind = "valuation_change" -> Clamp(500 + sig.x \div 2, 0, 1000)
    [] sig.kind = "earnings" -> Clamp(500 + sig.x, 0, 1000)
    [] sig.kind = "price_move" -> Clamp(500 - sig.x \div 4, 0, 1000)
    [] OTHER -> None

Targets(sig, t) == sig.kind # "" /\ sig.ticker \in {"", t}

\* WinProb of scoreThesis: the hint wins over the prior; without either it says nothing.
WinProb(t, f, sig, cfg) ==
  IF Targets(sig, t) /\ Hint(sig) # None THEN Hint(sig) ELSE Prior(f, cfg.prior)

\* ScaledVol over the holding window, between the floor and the ceiling of a stop.
HoldingDays == IF horizon = 0 THEN 30 ELSE Min({horizon, 90})
Stop(f) ==
  LET var == f.bar * f.bar * HoldingDays
  IN  CHOOSE s \in 50..350 : (s = 50 \/ s * s <= var) /\ (s = 350 \/ (s + 1) * (s + 1) > var)

\* The upside: the reward:risk multiple of the stop, or the gap a targeted valuation names.
Upside(t, f, sig, cfg) ==
  IF Targets(sig, t) /\ sig.kind = "valuation_change" /\ sig.x >= 50
  THEN Clamp(sig.x, 0, 1000) ELSE (cfg.scoring.ratio * Stop(f)) \div 10

\* EVScore, in millionths.
EVScore(p, win, stop) ==
  IF p = None THEN 500000 ELSE Clamp(500000 + p * win - (1000 - p) * stop, 0, 1000000)

RiskScore(f) == Clamp(1000 - (f.bar + f.dd) \div 2, 0, 1000)

\* LiquidityFit: a daily volume of a hundred times the intended notional is fully liquid.
LiquidityFit(f, b) ==
  LET notional == IF b.equity > 0 /\ b.pos > 0 THEN b.equity * b.pos ELSE 10000
  IN  Min({1000, (100000 * f.adv) \div notional})

\* HorizonFit against VolImpliedHorizonDays; neutral when either is unknown.
HorizonFit(f, win) ==
  LET implied == IF f.bar = 0 THEN 0 ELSE Rounded(win * win, f.bar * f.bar)
      larger  == Max({horizon, implied})
      smaller == Min({horizon, implied})
  IN  IF smaller = 0 THEN 500 ELSE 1000 - (1000 * (larger - smaller)) \div larger

\* Composite: the weighted mean of the scores, a plain one where no weight is left.
Effective(w) == IF w.ev + w.risk + w.liq + w.hor > 0 THEN w ELSE [ev |-> 1, risk |-> 1, liq |-> 1, hor |-> 1]
Composite(s, weights) ==
  LET w == Effective(weights)
  IN  Clamp(Rounded(w.ev * s.ev + 1000 * (w.risk * s.safety + w.liq * s.liq + w.hor * s.hor),
                    10000 * (w.ev + w.risk + w.liq + w.hor)), 0, 100)

\* PositionFractionKelly and applyCaps: rounding is monotone, so that the rounded least of
\* the bounds is the least of the rounded ones.
PositionFraction(p, win, stop, b) ==
  LET edge == p * win - (1000 - p) * stop
  IN  Min({IF edge <= 0 \/ b.kelly <= 0 THEN 0 ELSE Rounded(b.kelly * edge, 16000 * win)}
          \cup (IF b.pos > 0 THEN {Rounded(b.pos, 100)} ELSE {})
          \cup (IF b.trade > 0 THEN {Rounded(10 * b.trade, stop)} ELSE {}))

bucket(x) == IF x >= 660 THEN "high" ELSE IF x >= 330 THEN "medium" ELSE "low"

scoreThesis(t, f, sig, cfg, b) ==
  LET p    == WinProb(t, f, sig, cfg)
      win  == Upside(t, f, sig, cfg)
      stop == Stop(f)
  IN  [ev |-> EVScore(p, win, stop), safety |-> RiskScore(f), liq |-> LiquidityFit(f, b),
       hor |-> HorizonFit(f, win), stop |-> stop,
       size |-> PositionFraction(IF p = None THEN 500 ELSE p, win, stop, b),
       broken |-> Targets(sig, t) /\ sig.kind = "thesis_break"]

\* buildMove and MapToLevels.  The lens orders its theses by its own weights and states
\* confidence by the shared ones; a broken thesis counts for nothing.
buildMove(t, s, cfg) ==
  LET shared == Composite(s, cfg.shared)
      conf   == IF s.broken THEN 0 ELSE shared
  IN  [key |-> t, deps |-> {}, conf |-> conf, raw |-> conf,
       rank |-> IF s.broken THEN 0 ELSE Composite(s, cfg.scoring.weights),
       impact |-> IF s.broken THEN "low" ELSE bucket(10 * shared),
       risk |-> IF s.broken THEN "high" ELSE bucket(1000 - s.safety),
       effort |-> bucket(1000 - s.liq),
       size |-> s.size, stop |-> s.stop, broken |-> s.broken]

-----------------------------------------------------------------------------
(* The plan.                                                               *)

\* candidateTickers: the goal's and the signal's, as places in the order of names.
candidateTickers(sig) == {i \in DOMAIN Tickers : Tickers[i] \in assets \/ Tickers[i] = sig.ticker}

\* A dead thesis holds no position.
Fraction_Dead(th) == th.size   \* mutant: a dead thesis still takes part
Fraction(th) == IF th.broken THEN 0 ELSE th.size

\* The portfolio pass: r'Pr over the capital at risk of the positions, nothing for a ticker
\* without one.  Correlation: what cannot be measured moves together.
Correlation(m, i, j) == IF i = j \/ m.overlap < 2 THEN 1 ELSE m.rho

SumTo(f, n) ==
  LET sum[k \in 0..n] == IF k = 0 THEN 0 ELSE sum[k - 1] + f[k]
  IN  sum[n]

PortfolioRisk(m, r) ==
  LET n == Len(Tickers)
  IN  SumTo([i \in 1..n |-> SumTo([j \in 1..n |-> r[i] * r[j] * Correlation(m, i, j)], n)], n)

AtRisk(ths) ==
  [i \in DOMAIN Tickers |-> IF i \in DOMAIN ths THEN Fraction(ths[i]) * ths[i].stop ELSE 0]
AggregateRisk(ths) ==
  LET sum == PortfolioRisk(market, AtRisk(ths))
  IN  IF sum <= 0 THEN 0 ELSE sum

\* ScaleToRiskCap: squares are compared, the scale is the root of cap^2 / risk, or 1 where
\* risk is 0 here.
Scale(ths, b) ==
  LET risk == AggregateRisk(ths)
  IN  IF b.agg <= 0 \/ risk <= 100 * b.agg * b.agg THEN 0 ELSE risk

insufficientDataMove ==
  [key |-> "insufficient-market-data", deps |-> {}, conf |-> 20, raw |-> 0, rank |-> 0,
   impact |-> "low", risk |-> "low", effort |-> "low", size |-> 0, stop |-> 0, broken |-> FALSE]

\* The theses of sig, by the lens's score, then the stated confidence, then the name.
Outranks(a, b, i, j) ==
  \/ a.rank > b.rank
  \/ a.rank = b.rank /\ a.raw > b.raw
  \/ a.rank = b.rank /\ a.raw = b.raw /\ i < j

\* The candidate that as many others outrank as stand before place k.
Placed(ths, k) ==
  CHOOSE i \in DOMAIN ths :
    Cardinality({j \in DOMAIN ths : Outranks(ths[j], ths[i], j, i)}) = k - 1

Theses(sig) ==
  [i \in candidateTickers(sig) |->
     LET t == Tickers[i]
     IN  buildMove(t, scoreThesis(t, market.facts[t], sig, config, budget), config)]

GeneratePlan(sig) ==
  LET ths == Theses(sig)
      n   == Cardinality(DOMAIN ths)
  IN  [moves |-> IF n = 0 THEN <<insufficientDataMove>> ELSE [k \in 1..n |-> ths[Placed(ths, k)]],
       scale |-> Scale(ths, budget)]

-----------------------------------------------------------------------------
(* Actions.                                                                *)

Unplanned == [moves |-> <<>>, scale |-> 0]

\* NewFinancePlanner with the domain's scoring.
SizingInit ==
  /\ \E policy \in Policies :
       LET scoring == Normalize(policy)
       IN  config = [scoring |-> scoring, prior |-> Neutral, shared |-> scoring.weights]
  /\ budget = config.scoring.risk /\ market \in Markets /\ horizon \in Horizons /\ assets \in SUBSET Range(Tickers)
  /\ current = Unplanned /\ stage = "base" /\ limits = <<>> /\ heard = NoMarketSignal

\* buildFinanceChild: a lens of the selector, with the policy's override or without.
Overlay ==
  \E lens \in Lenses : \E l \in {lens} \cup {Merge(lens, o) : o \in Overrides} :
    /\ stage = "base" /\ stage' = "goal"
    /\ config' = [scoring |-> ApplyLens(l, config.scoring), shared |-> config.shared,
                   prior |-> IF l.prior = NoPrior THEN Neutral ELSE l.prior]
    /\ budget' = config'.scoring.risk
    /\ UNCHANGED <<assets, horizon, market, current, limits, heard>>

\* The loop of EffectiveRiskBudget over the goal's constraints.
Constrain ==
  \E c \in Constraints :
    /\ stage \in {"base", "goal"} /\ Len(limits) < MaxConstraints
    /\ stage' = "goal" /\ limits' = Append(limits, c)
    /\ budget' = Tightened(budget, c)
    /\ UNCHANGED <<config, assets, horizon, market, current, heard>>

\* The first version of the goal's plan.
FirstPlan ==
  /\ stage \in {"base", "goal"} /\ stage' = "held"
  /\ current' = GeneratePlan(NoMarketSignal)
  /\ UNCHANGED <<config, budget, assets, horizon, market, limits, heard>>

\* Engine.Replan with the investing pack's ConfidenceDelta.
Replan ==
  \E sig \in {Parsed(s) : s \in MarketSignals} :
    /\ stage = "held" /\ stage' = "replanned"
    /\ heard' = sig
    /\ LET candidate == GeneratePlan(sig)
       IN  current' = IF IsMaterial(current.moves, candidate.moves, 5) THEN candidate ELSE current
    /\ UNCHANGED <<config, budget, assets, horizon, market, limits>>

SizingNext == Overlay \/ Constrain \/ FirstPlan \/ Replan

SizingSpec == SizingInit /\ [][SizingNext]_sizingVars

-----------------------------------------------------------------------------
(* Properties.                                                             *)

\* Whatever a lens, a policy override or a goal says, and in whatever order, no step from
\* the policy's budget to the one sizes are bounded by loosens or removes a hard cap
\* (strategy.go:10-14, constraints.go:18-21).
CapsOnlyTighten ==
  [][\A cap \in {"pos", "trade", "agg"} : budget[cap] > 0 => budget'[cap] \in 1..budget[cap]]_sizingVars

\* The sizes a plan states keep to the caps: each thesis to the concentration and the
\* per-trade cap (up to the half percent that round2 may add), the live theses together
\* to the aggregate cap, also when a broken thesis would have hedged them, and both
\* to every drawdown limit of the goal where the policy has not disabled the cap on
\* single positions (PositionFractionKelly, applyCaps, ScaleToRiskCap).  Sizes that are
\* scaled by the root of cap^2 / scale are within the cap if their own risk is at most
\* the one that was scaled.  A ticker is sized once.
LiveTheses(plan) == {k \in DOMAIN plan.moves : ~plan.moves[k].broken}
Held(plan, t) == {k \in LiveTheses(plan) : plan.moves[k].key = t}
HeldRisk(plan) ==
  [i \in DOMAIN Tickers |->
     IF Held(plan, Tickers[i]) = {} THEN 0
     ELSE LET m == plan.moves[CHOOSE k \in Held(plan, Tickers[i]) : TRUE] IN m.size * m.stop]

SizesWithinBudget ==
  /\ \A k \in LiveTheses(current) :
       LET m == current.moves[k]
       IN  /\ budget.pos > 0 => 100 * m.size <= budget.pos + 50
           /\ budget.trade > 0 => 2 * m.size * m.stop <= 20 * budget.trade + m.stop
           /\ Held(current, m.key) = {k} /\ (m.size = 0 \/ m.key \in Range(Tickers))
  /\ budget.agg > 0 =>
       PortfolioRisk(market, HeldRisk(current)) <=
         IF current.scale > 0 THEN current.scale ELSE 100 * budget.agg * budget.agg
  /\ \A n \in DOMAIN limits : limits[n].kind = "drawdown_limit" /\ limits[n].limit \in Fractional =>
       /\ budget.agg \in 1..limits[n].limit
       /\ budget.pos > 0 =>
            \A k \in LiveTheses(current) : 100 * current.moves[k].size <= limits[n].limit + 50

\* "A thesis_break for a held ticker zeroes that thesis's confidence, which the standard
\* materiality evaluator picks up as a material change" (docs/domains.md:75-76).
BreakReachesPlan ==
  heard.kind = "thesis_break" =>
    \A k \in DOMAIN current.moves :
      current.moves[k].key \in assets /\ Targets(heard, current.moves[k].key) => current.moves[k].conf = 0
=============================================================================
