----------------------------- MODULE Selection -----------------------------
(***************************************************************************)
(* The arithmetic that picks one candidate plan out of several             *)
(* (internal/strategy) and decides whether a new plan is worth a version   *)
(* (internal/engine/evaluator.go).                                         *)
(*                                                                         *)
(* A plan is a sequence of moves [key, conf, raw, impact, effort, risk,    *)
(* deps].  Confidences and weights are percentages, utilities are in       *)
(* ten-thousandths as round4 leaves them, and a weight is looked up by     *)
(* <<strategy, regime>>; a title without a key is its own key.             *)
(***************************************************************************)
EXTENDS Integers, Sequences, FiniteSets

NoLabel == ""   \* the unknown regime, the missing strategy

\* math.Round of n/d: halves go away from zero.
Rounded(n, d) == IF n >= 0 THEN (2 * n + d) \div (2 * d) ELSE -((d - 2 * n) \div (2 * d))

\* levelScore, in tenths.
levelScore(l) == CASE l = "low" -> 2 [] l = "high" -> 9 [] OTHER -> 5

\* riskAversion, in tenths; conservativeGoal.  A goal is one of the three readings of
\* its risk_tolerance, or "drawdown": moderate, with a drawdown_limit of at most 10%.
riskAversion(goal) == CASE goal = "conservative" -> 10 [] goal = "aggressive" -> 3 [] OTHER -> 6
conservativeGoal(goal) == goal \in {"conservative", "drawdown"}

\* HardFilter: the candidate proposes nothing viable, or too risky a first move.
HardFilter(goal, moves) ==
  \/ \A k \in DOMAIN moves : moves[k].conf = 0
  \/ conservativeGoal(goal) /\ moves[1].risk = "high"

\* Utility: the value of each move, in thousandths, blended with weights 1, 0.7, 0.49...
MoveValue(goal, m) ==
  m.conf * levelScore(m.impact) - 10 * riskAversion(goal) * levelScore(m.risk)
    - 25 * levelScore(m.effort)

\* What its loop has added up after k moves, and the weight of the next, times 10^(k-1).
Blended(goal, moves) ==
  LET after[k \in 0..Len(moves)] ==
        IF k = 0 THEN [sum |-> 0, weights |-> 0, g |-> 1]
        ELSE [sum     |-> 10 * after[k - 1].sum + after[k - 1].g * MoveValue(goal, moves[k]),
              weights |-> 10 * after[k - 1].weights + after[k - 1].g,
              g       |-> 7 * after[k - 1].g]
  IN  after[Len(moves)]

Utility(goal, moves) ==
  IF moves = <<>> THEN 0 ELSE Rounded(10 * Blended(goal, moves).sum, Blended(goal, moves).weights)

\* applyWeight: above 100 favours the strategy, whatever the sign of the utility.
applyWeight(u, w) == IF u < 0 THEN Rounded(u * 100, w) ELSE Rounded(u * w, 100)

\* weightFor: the entry of the regime, then the pooled one, then 1.
weightFor(weights, regime, id) ==
  LET has(label) == <<id, label>> \in DOMAIN weights /\ weights[<<id, label>>] > 0
  IN  CASE regime # NoLabel /\ has(regime) -> weights[<<id, regime>>]
        [] has(NoLabel) -> weights[<<id, NoLabel>>]
        [] OTHER -> 100

topKey(moves) == IF moves = <<>> THEN "" ELSE moves[1].key
topRaw(moves) == IF moves = <<>> THEN 0 ELSE IF moves[1].raw > 0 THEN moves[1].raw ELSE moves[1].conf

\* Select scores every candidate [id, err, moves]; a failed one is filtered.
Scored(goal, weights, regime, c) ==
  LET w == weightFor(weights, regime, c.id)
      u == IF c.err THEN 0 ELSE Utility(goal, c.moves)
  IN  [id |-> c.id, err |-> c.err, utility |-> u, weight |-> w, weighted |-> applyWeight(u, w),
       top |-> topKey(c.moves), raw |-> topRaw(c.moves),
       filtered |-> c.err \/ HardFilter(goal, c.moves)]

\* better: weighted utility, then raw confidence; a tie goes to the earlier candidate.
better(a, b) == a.weighted > b.weighted \/ (a.weighted = b.weighted /\ a.raw > b.raw)

\* pick: the first of pool that no other one of it beats.
pick(scored, pool) ==
  CHOOSE i \in pool : \A j \in pool \ {i} :
    better(scored[i], scored[j]) \/ (i < j /\ ~better(scored[j], scored[i]))

Admissible(scored) == {i \in DOMAIN scored : ~scored[i].filtered}

\* The challenger clears the hysteresis margin of the incumbent.
Clears_Unweighted(challenger, incumbent, margin) ==   \* mutant: the margin on raw utilities
  challenger.utility > incumbent.utility + margin
Clears(challenger, incumbent, margin) == challenger.weighted > incumbent.weighted + margin

\* Select: the winner.  With no admissible candidate the best one that has a plan wins
\* and the incumbent holds nothing.
Select(scored, incumbent, margin) ==
  LET adm  == Admissible(scored)
      best == pick(scored, IF adm # {} THEN adm ELSE {i \in DOMAIN scored : ~scored[i].err})
      inc  == {i \in adm : incumbent # NoLabel /\ scored[i].id = incumbent}
  IN  IF \E i \in inc : i # best /\ ~Clears(scored[best], scored[i], margin)
      THEN CHOOSE i \in inc : TRUE
      ELSE best

\* DisagreementPenalty: nothing, one step when half of the admissible candidates agree
\* with the winner's first move, two when fewer do.
DisagreementPenalty(scored, top, step) ==
  LET adm == Admissible(scored)
      agree == {i \in adm : scored[i].top = top}
  IN  CASE step <= 0 \/ Cardinality(adm) < 2 \/ agree = adm -> 0
        [] 2 * Cardinality(agree) >= Cardinality(adm) -> step
        [] OTHER -> 2 * step

clampConfidence(c) == IF c < 0 THEN 0 ELSE IF c > 100 THEN 100 ELSE c

\* IsMaterial: another first move or order, a shift of delta on the first move, or other
\* dependencies or groups between the same moves.
IsMaterial(current, candidate, delta) ==
  \/ current = <<>> \/ candidate = <<>>
  \/ [k \in DOMAIN current |-> current[k].key] # [k \in DOMAIN candidate |-> candidate[k].key]
  \/ LET shift == current[1].conf - candidate[1].conf
     IN  shift >= delta \/ -shift >= delta
  \/ \E k \in DOMAIN current : current[k].deps # candidate[k].deps
=============================================================================
