------------------------------ MODULE Learning ------------------------------
(***************************************************************************)
(* The learning reads of internal/app/service.go (CalibrationSamples and   *)
(* StrategySamples, behind `dde calibrate` and `dde strategy-fit`) against *)
(* a store that goals and outcomes keep arriving in, and the weights       *)
(* FitStrategyWeights (internal/finance/strategyfit.go) makes of them.     *)
(*                                                                         *)
(* Both reads page through goals and through each goal's outcomes by       *)
(* offset, one query at a time; they differ in what a sample carries.      *)
(* Listings are newest first.  A row's created_at is taken before the row  *)
(* is inserted, so that a late one lands below rows already there.         *)
(***************************************************************************)
EXTENDS Integers, Sequences, FiniteSets, SequencesExt

CONSTANTS Books,        \* the goals, each with its domain and the versions of its plan:
                        \* [domain, versions : sequences of [strategy, regime, comparator, moves]]
          Domain,       \* the domain the command is about
          Mode,         \* the comparator the domain is configured with: "utility" by default
          PageLimit,    \* storage.MaxPageLimit
          MinSamples,   \* strategyFitMinSamples
          MaxLag,       \* model bound: how far below the newest row an insert lands
          MaxOutcomes,  \* model bound: the outcomes recorded
          MaxLate       \* model bound: what arrives during the read

ASSUME LearningAssumption ==
  /\ {PageLimit, MinSamples} \subseteq Nat \ {0} /\ {MaxLag, MaxOutcomes, MaxLate} \subseteq Nat
  /\ \A g \in Books : \A v \in DOMAIN g.versions : IsFiniteSet(g.versions[v].moves)
ASSUME ModeAssumption == Mode # ""

VARIABLES listed,    \* ListGoals: the goals, newest first
          outcomes,  \* ListOutcomes, per goal, newest first
          read,      \* the read under way
          recorded,  \* the number of outcomes recorded
          due        \* history, for the properties: the outcomes there when the read began,
                     \* and what has arrived since

learningVars == <<listed, outcomes, read, recorded, due>>

NotReading == [at |-> "idle"]

LearningInit ==
  /\ listed = <<>> /\ outcomes = [g \in Books |-> <<>>]
  /\ read = NotReading /\ recorded = 0 /\ due = [rows |-> {}, late |-> 0]

-----------------------------------------------------------------------------
(* The store.                                                              *)

Arrives(rows, row) == {InsertAt(rows, k, row) : k \in 1..(Len(rows) + 1) \cap 1..(1 + MaxLag)}

Arrival == IF read = NotReading THEN UNCHANGED due
           ELSE read.at # "done" /\ due.late < MaxLate /\ due' = [due EXCEPT !.late = @ + 1]

\* CreateGoal.
GoalArrives ==
  \E g \in Books \ Range(listed) :
    /\ listed' \in Arrives(listed, g)
    /\ Arrival
    /\ UNCHANGED <<outcomes, read, recorded>>

\* moveByRank: the move of a version, if it has one of that rank.
Ranked(version, rank) == {m \in version.moves : m.rank = rank}

\* RecordOutcome accepts a move some stored version of the goal's plan has.
OutcomeArrives ==
  \E g \in Range(listed) : \E v \in DOMAIN g.versions : \E m \in g.versions[v].moves :
    \E result \in {"success", "failure", "partial"} :
      /\ recorded < MaxOutcomes /\ recorded' = recorded + 1
      /\ LET row == [id |-> recorded', result |-> result, version |-> v, rank |-> m.rank]
         IN  \E rows \in Arrives(outcomes[g], row) : outcomes' = [outcomes EXCEPT ![g] = rows]
      /\ Arrival
      /\ UNCHANGED <<listed, read>>

\* LIMIT PageLimit OFFSET offset.
Window(rows, offset) ==
  SubSeq(rows, offset + 1, IF offset + PageLimit <= Len(rows) THEN offset + PageLimit ELSE Len(rows))

-----------------------------------------------------------------------------
(* The read.                                                               *)

Decisive(row) == row.result \in {"success", "failure"}

\* goalCalibrationSamples: the confidence before calibration, if it was recorded.
CalibrationSamples(g, rows) ==
  UNION {{[row |-> rows[k].id, success |-> rows[k].result = "success",
           conf |-> IF m.raw > 0 THEN m.raw ELSE m.conf] :
             m \in Ranked(g.versions[rows[k].version], rows[k].rank)} :
           k \in {i \in DOMAIN rows : Decisive(rows[i])}}

\* goalStrategySamples: versions from before the selector say nothing.
StrategySamples(g, rows) ==
  {[row |-> rows[k].id, success |-> rows[k].result = "success",
    strategy |-> g.versions[rows[k].version].strategy,
    regime |-> g.versions[rows[k].version].regime,
    comparator |-> g.versions[rows[k].version].comparator] :
     k \in {i \in DOMAIN rows : Decisive(rows[i]) /\ g.versions[rows[i].version].strategy # ""}}

Samples(command, g, rows) ==
  IF command = "calibrate" THEN CalibrationSamples(g, rows) ELSE StrategySamples(g, rows)

\* A page that is not full is the last one.
IsLast_Full(page) == Len(page) <= PageLimit   \* mutant: off by one
IsLast(page) == Len(page) < PageLimit

BeginRead ==
  \E command \in {"calibrate", "strategy-fit"} :
    /\ read = NotReading
    /\ read' = [at |-> "goals", command |-> command, offset |-> 0, goals |-> <<>>, last |-> FALSE,
                rows |-> 0, samples |-> <<>>]
    /\ due' = [rows |-> UNION {Samples(command, g, outcomes[g]) : g \in {b \in Range(listed) : b.domain = Domain}},
               late |-> 0]
    /\ UNCHANGED <<listed, outcomes, recorded>>

ReadGoals ==
  /\ read.at = "goals"
  /\ LET page == Window(listed, read.offset)
     IN  read' = [read EXCEPT !.at = "goal", !.goals = page, !.last = IsLast(page)]
  /\ UNCHANGED <<listed, outcomes, recorded, due>>

\* The goals of a page: one of another domain or without a plan is skipped; after the
\* last goal the next page is read, or the read is over.
NextGoal ==
  /\ read.at = "goal"
  /\ IF read.goals # <<>>
     THEN LET g == Head(read.goals)
          IN  read' = IF g.domain = Domain /\ g.versions # <<>>
                      THEN [read EXCEPT !.at = "outcomes", !.rows = 0]
                      ELSE [read EXCEPT !.goals = Tail(@)]
     ELSE read' = IF read.last THEN [read EXCEPT !.at = "done"]
                  ELSE [read EXCEPT !.at = "goals", !.offset = @ + PageLimit]
  /\ UNCHANGED <<listed, outcomes, recorded, due>>

ReadOutcomes ==
  /\ read.at = "outcomes"
  /\ LET g == Head(read.goals)
         page == Window(outcomes[g], read.rows)
         seen == [read EXCEPT !.samples = @ \o SetToSeq(Samples(read.command, g, page))]
     IN  read' = IF IsLast(page) THEN [seen EXCEPT !.at = "goal", !.goals = Tail(@)]
                 ELSE [seen EXCEPT !.rows = @ + PageLimit]
  /\ UNCHANGED <<listed, outcomes, recorded, due>>

LearningNext ==
  GoalArrives \/ OutcomeArrives \/ BeginRead \/ ReadGoals \/ NextGoal \/ ReadOutcomes

LearningSpec == LearningInit /\ [][LearningNext]_learningVars

-----------------------------------------------------------------------------
(* What the commands make of the samples.                                  *)

\* strategy-fit keeps the samples of the configured comparator; a version from before
\* there was one counts as "utility".
Comparable_Any(s) == TRUE   \* mutant: every sample counts
Comparable(s) == (IF s.comparator = "" THEN "utility" ELSE s.comparator) = Mode

\* FitStrategyWeights: the buckets of a strategy, pooled and per known regime, that have
\* enough samples; a weight is a fraction, clamped to 1/2 .. 3/2.  A bucket is the places
\* of its samples.
Bucket(samples, strategy, regime) ==
  {i \in DOMAIN samples : /\ Comparable(samples[i]) /\ samples[i].strategy = strategy
                          /\ regime \in {"", samples[i].regime}}

Weight(wins, n) ==
  CASE 4 * (wins + 1) < n + 2 -> <<1, 2>>
    [] 4 * (wins + 1) > 3 * (n + 2) -> <<3, 2>>
    [] OTHER -> <<2 * (wins + 1), n + 2>>

Buckets(samples) ==
  {k \in {<<samples[i].strategy, "">> : i \in DOMAIN samples}
           \cup {<<samples[i].strategy, samples[i].regime>> : i \in DOMAIN samples} :
     Cardinality(Bucket(samples, k[1], k[2])) >= MinSamples}

FitStrategyWeights(samples) ==
  [k \in Buckets(samples) |->
     LET b == Bucket(samples, k[1], k[2])
     IN  Weight(Cardinality({i \in b : samples[i].success}), Cardinality(b))]

-----------------------------------------------------------------------------
(* Properties.                                                             *)

\* "every decisive recorded outcome" (service.go:504): what was recorded when the read
\* began is in its samples, however goals and outcomes arrive between the pages.
\* (Once, if nothing arrives: a row pushed to the next page is read again.)
NoOutcomeMissed ==
  read.at = "done" => due.rows \subseteq Range(read.samples)

\* A fit over a store at rest tells the strategies apart by their record under the
\* configured comparator and by nothing else: enough outcomes make a weight, more
\* successes than failures one above 1, fewer one below, a balanced record exactly 1.
WeightsMatchRecord ==
  read.at = "done" /\ read.command = "strategy-fit" /\ due.late = 0 =>
    LET fit == FitStrategyWeights(read.samples)
    IN  \A s \in due.rows : \A regime \in {"", s.regime} :
          LET record == {r \in due.rows : /\ r.strategy = s.strategy /\ regime \in {"", r.regime}
                                          /\ r.comparator \in {Mode} \cup (IF Mode = "utility" THEN {""} ELSE {})}
              wins   == Cardinality({r \in record : r.success})
              losses == Cardinality(record) - wins
              key    == <<s.strategy, regime>>
          IN  /\ key \in DOMAIN fit <=> wins + losses >= MinSamples
              /\ key \in DOMAIN fit =>
                   /\ fit[key][1] > fit[key][2] <=> wins > losses
                   /\ fit[key][1] < fit[key][2] <=> wins < losses
=============================================================================
