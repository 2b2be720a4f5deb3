----------------------------- MODULE Calibration -----------------------------
(***************************************************************************)
(* FitCalibration and CalibrationCurve.Apply                               *)
(* (internal/finance/calibrate.go): a curve from the confidence moves      *)
(* stated to the share of them that succeeded.                             *)
(*                                                                         *)
(* The samples are given as their tally per bin.  A block of pooled bins   *)
(* keeps exact sums where the code keeps weighted means: rate is wins/n    *)
(* and mid is mids/n, in bin halves.  Confidences are percentages.         *)
(***************************************************************************)
EXTENDS Integers, Sequences

CONSTANTS BinCount,   \* calibrationBinCount
          MaxTally    \* model bound: the samples of a bin

\* The code has five bins.  With more than a hundred round2 could not tell their mids apart.
ASSUME CalibrationAssumption == BinCount \in 1..100 /\ MaxTally \in Nat

VARIABLES tally,   \* bins: the samples and the successes of each
          bin,     \* the next bin of the loop
          blocks   \* the blocks so far

calibrationVars == <<tally, bin, blocks>>

CalibrationInit ==
  /\ tally \in [1..BinCount -> {t \in [n : 0..MaxTally, wins : 0..MaxTally] : t.wins <= t.n}]
  /\ bin = 1 /\ blocks = <<>>

\* blocks[i] promises more than blocks[j].
Above(i, j) == blocks[i].wins * blocks[j].n > blocks[j].wins * blocks[i].n

\* The inner loop goes on while the last two blocks are out of order.
MustPool_KeepsFirst == Len(blocks) > 2 /\ Above(Len(blocks) - 1, Len(blocks))   \* mutant: off by one
MustPool == Len(blocks) > 1 /\ Above(Len(blocks) - 1, Len(blocks))

AddBin ==
  /\ bin <= BinCount /\ ~MustPool
  /\ bin' = bin + 1
  /\ LET t == tally[bin]
     IN  blocks' = IF t.n = 0 THEN blocks
                   ELSE Append(blocks, [n |-> t.n, wins |-> t.wins, mids |-> (2 * bin - 1) * t.n])
  /\ UNCHANGED tally

Pool ==
  /\ MustPool
  /\ LET k == Len(blocks) - 1
         a == blocks[k]
         b == blocks[k + 1]
     IN  blocks' = Append(SubSeq(blocks, 1, k - 1),
                          [n |-> a.n + b.n, wins |-> a.wins + b.wins, mids |-> a.mids + b.mids])
  /\ UNCHANGED <<tally, bin>>

CalibrationNext == AddBin \/ Pool

CalibrationSpec == CalibrationInit /\ [][CalibrationNext]_calibrationVars

Fitted == bin > BinCount /\ ~MustPool

\* The curve: mid and rate of every block, as round2 leaves them.
Nearest(n, d) == (2 * n + d) \div (2 * d)
Curve ==
  [k \in DOMAIN blocks |-> [mid  |-> Nearest(100 * blocks[k].mids, 2 * BinCount * blocks[k].n),
                            rate |-> Nearest(100 * blocks[k].wins, blocks[k].n)]]

\* Apply: the identity without bins, the end rates outside of the mids, linear between
\* them.  The value is a fraction <<numerator, denominator>>.
Apply(bins, conf) ==
  LET last == Len(bins)
  IN  CASE bins = <<>> -> <<conf, 1>>
        [] bins # <<>> /\ conf <= bins[1].mid -> <<bins[1].rate, 1>>
        [] bins # <<>> /\ conf >= bins[last].mid -> <<bins[last].rate, 1>>
        [] OTHER ->
             LET i  == CHOOSE k \in 2..last : conf <= bins[k].mid /\ \A l \in 2..(k - 1) : conf > bins[l].mid
                 lo == bins[i - 1]
                 hi == bins[i]
             IN  <<lo.rate * (hi.mid - lo.mid) + (conf - lo.mid) * (hi.rate - lo.rate), hi.mid - lo.mid>>

-----------------------------------------------------------------------------
(* Properties.                                                             *)

\* The samples (f = "n") or successes (f = "wins") of the bins or blocks i..j.
Total(parts, i, j, f) ==
  LET sum[k \in (i - 1)..j] == IF k < i THEN 0 ELSE sum[k - 1] + parts[k][f] IN sum[j]

BlockOf(i) ==
  CHOOSE k \in DOMAIN blocks :
    /\ Total(blocks, 1, k, "n") >= Total(tally, 1, i, "n")
    /\ \A l \in 1..(k - 1) : Total(blocks, 1, l, "n") < Total(tally, 1, i, "n")

\* rate(bins i..j) <= rate(block k), and the other way round.
AtMost(i, j, k) == Total(tally, i, j, "wins") * blocks[k].n <= blocks[k].wins * Total(tally, i, j, "n")
AtLeast(i, j, k) == Total(tally, i, j, "wins") * blocks[k].n >= blocks[k].wins * Total(tally, i, j, "n")

IsIsotonicRegression ==
  \A i \in 1..BinCount : tally[i].n > 0 =>
    /\ \A j \in 1..i : \E k \in i..BinCount : AtMost(j, k, BlockOf(i))
    /\ \E j \in 1..i : \A k \in i..BinCount : AtLeast(j, k, BlockOf(i))

KeepsOrder ==
  /\ \A k \in 1..(Len(Curve) - 1) : Curve[k].mid < Curve[k + 1].mid
  /\ \A c \in {10 * k : k \in 0..9} :
       LET p == Apply(Curve, c)
           q == Apply(Curve, c + 10)
       IN  p[1] * q[2] <= q[1] * p[2]

\* The fit is the isotonic regression of the observed rates (every bin has the rate the
\* max-min formula gives it), and after both roundings it still keeps a plan's order:
\* Apply never divides by zero and never maps a higher stated confidence to a lower
\* one.  The finance planner ranks before it calibrates and relies on that
\* (finance_planner.go:180-184).
CurveIsFaithful == Fitted => IsIsotonicRegression /\ KeepsOrder
=============================================================================
