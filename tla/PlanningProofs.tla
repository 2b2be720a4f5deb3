--------------------------- MODULE PlanningProofs ---------------------------
(***************************************************************************)
(* Properties of decisions for any goals, deployments, models, cache sizes *)
(* and worlds: a candidate is an answer to this very decision, candidates  *)
(* are compared on one basis, a context that is not marked stale is what   *)
(* the sources report now, the winner of a competition is justified by its *)
(* weighted utility and the incumbent's margin, and nothing churns.  For   *)
(* any policies, lenses, constraints, markets and signals: no step loosens *)
(* a hard cap, and the sizes of a plan keep to the caps and to every       *)
(* drawdown limit, one by one and together.                                *)
(***************************************************************************)
EXTENDS Planning, Sizing, TLAPS, FiniteSetTheorems, SequenceTheorems, WellFoundedInduction

-----------------------------------------------------------------------------
(* Selections from a sequence.                                             *)

\* The n-th of the positions ks is one of them: what the loops of activeStrategies,
\* NewSourceResolver, eligibleChildren and the cache's list keep was there before.
LEMMA NthPosition ==
  ASSUME NEW len \in Nat, NEW ks, \A k \in ks : k \in Nat /\ 1 <= k /\ k <= len,
         NEW n \in 1..Cardinality(ks)
  PROVE  \E k \in ks : Cardinality({l \in ks : l <= k}) = n
<1> DEFINE upTo(k) == {l \in ks : l <= k}
<1> DEFINE T == {k \in Nat : n <= Cardinality(upTo(k))}
<1>1. IsFiniteSet(ks) /\ Cardinality(ks) \in Nat
  <2>1. IsFiniteSet(1..len)
    BY FS_Interval
  <2>2. ks \in SUBSET (1..len)
    OBVIOUS
  <2>3. IsFiniteSet(ks)
    BY <2>1, <2>2, FS_Subset
  <2> QED
    BY <2>3, FS_CardinalityType
<1>2. \A k \in Nat : IsFiniteSet(upTo(k)) /\ Cardinality(upTo(k)) \in Nat
  BY <1>1, FS_Subset, FS_CardinalityType
<1>3. len \in T
  <2>1. upTo(len) = ks
    OBVIOUS
  <2> QED
    BY <2>1, <1>1
<1>4. PICK k \in T : \A j \in T : ~(<<j, k>> \in OpToRel(<, Nat))
  BY <1>3, WFMin, NatLessThanWellFounded
<1>5. \A j \in T : ~(j < k)
  BY <1>4 DEF OpToRel
<1>6. k # 0
  <2>1. upTo(0) = {}
    OBVIOUS
  <2>2. Cardinality(upTo(0)) = 0
    BY <2>1, FS_EmptySet
  <2> QED
    BY <2>2
<1>7. k - 1 \in Nat /\ Cardinality(upTo(k - 1)) < n
  <2>1. k - 1 \in Nat /\ k - 1 < k
    BY <1>6
  <2>2. ~(n <= Cardinality(upTo(k - 1)))
    BY <2>1, <1>5
  <2>3. Cardinality(upTo(k - 1)) \in Nat
    BY <2>1, <1>2
  <2> HIDE DEF upTo
  <2> QED
    BY <2>1, <2>2, <2>3, <1>1
<1>8. CASE k \in ks
  <2>5. \A l \in ks : l <= k <=> (l <= k - 1 \/ l = k)
    BY <1>7
  <2>6. \A l : l \in upTo(k) <=> l \in upTo(k - 1) \cup {k}
    <3>1. k <= k
      OBVIOUS
    <3> QED
      BY <3>1, <2>5, <1>8, Zenon
  <2>7. k \notin upTo(k - 1)
    BY <1>7
  <2>1. upTo(k) = upTo(k - 1) \cup {k} /\ k \notin upTo(k - 1)
    BY <2>6, <2>7
  <2>0. IsFiniteSet(upTo(k - 1))
    BY <1>2, <1>7
  <2>2. Cardinality(upTo(k)) = Cardinality(upTo(k - 1)) + 1
    <3> HIDE DEF upTo
    <3> QED
      BY <2>0, <2>1, FS_AddElement
  <2>3. n <= Cardinality(upTo(k))
    OBVIOUS
  <2>4. Cardinality(upTo(k)) = n
    <3>1. Cardinality(upTo(k - 1)) \in Nat
      BY <1>2, <1>7
    <3> HIDE DEF upTo
    <3> QED
      BY <3>1, <1>7, <2>2, <2>3
  <2> QED
    BY <2>4, <1>8
<1>9. CASE k \notin ks
  <2>1. upTo(k) = upTo(k - 1)
    BY <1>7, <1>9
  <2>2. n <= Cardinality(upTo(k)) /\ Cardinality(upTo(k - 1)) \in Nat
    BY <1>2, <1>7
  <2> HIDE DEF upTo
  <2> QED
    BY <2>1, <2>2, <1>1, <1>7
<1> QED
  BY <1>8, <1>9

\* At(seq, ks) is a sequence, and each of its elements is that of a position in ks.
LEMMA AtFacts ==
  ASSUME NEW seq, NEW len \in Nat, DOMAIN seq = 1..len, NEW ks, ks \subseteq DOMAIN seq
  PROVE  /\ Cardinality(ks) \in Nat
         /\ DOMAIN At(seq, ks) = 1..Cardinality(ks)
         /\ Len(At(seq, ks)) = Cardinality(ks)
         /\ \A n \in DOMAIN At(seq, ks) : \E k \in ks : At(seq, ks)[n] = seq[k]
<1>1. Cardinality(ks) \in Nat
  <2>1. IsFiniteSet(1..len) /\ ks \in SUBSET (1..len)
    BY FS_Interval
  <2>2. IsFiniteSet(ks)
    BY <2>1, FS_Subset
  <2> QED
    BY <2>2, FS_CardinalityType
<1>2. ASSUME NEW n \in 1..Cardinality(ks)
      PROVE  \E k \in ks : At(seq, ks)[n] = seq[k]
  <2> DEFINE k == CHOOSE k \in ks : Cardinality({l \in ks : l <= k}) = n
  <2>1. k \in ks
    BY NthPosition
  <2>2. At(seq, ks)[n] = seq[k]
    BY DEF At
  <2> QED
    BY <2>1, <2>2
<1>3. DOMAIN At(seq, ks) = 1..Cardinality(ks)
  BY DEF At
<1>4. Len(At(seq, ks)) = Cardinality(ks)
  BY <1>1 DEF At
<1> QED
  BY <1>1, <1>2, <1>3, <1>4

\* A list that came from MemoryCache: what is at its places, and how many.
IsList(s) == Len(s) \in Nat /\ DOMAIN s = 1..Len(s)

\* An entry put before a list: MemoryCache's MoveToFront and PushFront.
LEMMA Prepended ==
  ASSUME NEW x, NEW s, IsList(s)
  PROVE  /\ IsList(<<x>> \o s)
         /\ \A k \in DOMAIN (<<x>> \o s) :
              (<<x>> \o s)[k] = x \/ \E l \in DOMAIN s : (<<x>> \o s)[k] = s[l]
<1> DEFINE t == <<x>> \o s
<1>1. Len(t) = Len(s) + 1 /\ DOMAIN t = 1..(Len(s) + 1)
  BY DEF IsList
<1>2. t[1] = x /\ \A k \in 2..(Len(s) + 1) : t[k] = s[k - 1] /\ k - 1 \in DOMAIN s
  BY DEF IsList
<1> HIDE DEF t
<1>3. \A k \in DOMAIN t : k = 1 \/ k \in 2..(Len(s) + 1)
  BY <1>1 DEF IsList
<1>4. IsList(t)
  BY <1>1 DEF IsList
<1>5. \A k \in DOMAIN t : t[k] = x \/ \E l \in DOMAIN s : t[k] = s[l]
  BY <1>2, <1>3
<1> QED
  BY <1>4, <1>5 DEF t

\* A list without its last entry: MemoryCache's removal of the least recently used.
LEMMA Fronted ==
  ASSUME NEW s, IsList(s), Len(s) > 0
  PROVE  /\ IsList(Front(s))
         /\ \A k \in DOMAIN Front(s) : \E l \in DOMAIN s : Front(s)[k] = s[l]
<1>1. Front(s) = [k \in 1..(Len(s) - 1) |-> s[k]]
  BY DEF Front, IsList
<1>2. Len(s) - 1 \in Nat
  BY DEF IsList
<1> QED
  BY <1>1, <1>2 DEF IsList

\* A selection from a list is a list of some of its elements.
LEMMA Selected ==
  ASSUME NEW s, IsList(s), NEW ks, ks \subseteq DOMAIN s
  PROVE  /\ IsList(At(s, ks))
         /\ \A n \in DOMAIN At(s, ks) : \E k \in ks : At(s, ks)[n] = s[k]
  BY AtFacts DEF IsList

-----------------------------------------------------------------------------
(* What the cache tells apart.                                             *)

\* Children of a started process are a list, and the name and the prompt the cache knows a
\* child by tell its strategy: lenses are named, prompt variants have templates of their own
\* (buildStrategySelector), and without a competition there is one child.
LEMMA ChildrenAreTold ==
  ASSUME NEW d \in Deployments, Starts(d)
  PROVE  /\ IsList(Children(d))
         /\ \A i, j \in DOMAIN Children(d) :
              /\ Children(d)[i].name = Children(d)[j].name
              /\ Children(d)[i].prompt = Children(d)[j].prompt
              => Children(d)[i].id = Children(d)[j].id
<1> DEFINE s == activeStrategies(d)
<1>1. CASE ~Competes(d)
  <2>1. \A c : IsList(<<c>>) /\ DOMAIN <<c>> = {1}
    BY DEF IsList
  <2>2. IsList(Children(d)) /\ DOMAIN Children(d) = {1}
    BY <1>1, <2>1 DEF Children
  <2> QED
    BY <2>2
<1>2. CASE Competes(d)
  <2>1. IsList(d.strategies)
    BY PlanningAssumption DEF IsList
  <2>2. IsList(s)
    <3>1. {k \in DOMAIN d.strategies : d.strategies[k].id \notin d.disabled} \subseteq DOMAIN d.strategies
      OBVIOUS
    <3> QED
      BY <2>1, <3>1, Selected DEF activeStrategies
  <2>3. Children(d) = [i \in DOMAIN s |-> Child(d, s[i])]
    BY <1>2 DEF Children
  <2>4. IsList(Children(d)) /\ DOMAIN Children(d) = DOMAIN s
    <3> HIDE DEF s
    <3> QED
      BY <2>2, <2>3 DEF IsList
  <2>5. ASSUME NEW i \in DOMAIN s, NEW j \in DOMAIN s,
               Child(d, s[i]).name = Child(d, s[j]).name, Child(d, s[i]).prompt = Child(d, s[j]).prompt
        PROVE  Child(d, s[i]).id = Child(d, s[j]).id
    <3>1. CASE Numeric(d)
      <4>1. <<"finance", s[i].id>> = <<"finance", s[j].id>>
        BY <2>5, <3>1 DEF Child
      <4> QED
        BY <4>1 DEF Child
    <3>2. CASE ~Numeric(d)
      <4>1. d.kind # "finance"
        BY <1>2, <3>2 DEF Numeric, Competes
      <4>2. DistinctTemplates(d)
        BY <4>1, <1>2 DEF Starts, Builds
      <4>3. s[i].template = s[j].template
        BY <2>5, <3>2 DEF Child, Prompt
      <4>4. i = j
        BY <4>2, <4>3, <2>5 DEF DistinctTemplates
      <4> QED
        BY <4>4
    <3> QED
      BY <3>1, <3>2
  <2> HIDE DEF s
  <2> QED
    BY <2>3, <2>4, <2>5
<1> QED
  BY <1>1, <1>2

\* The eligible children are some of the children, in a list (eligibleChildren).
LEMMA EligibleAreChildren ==
  ASSUME NEW regime, IsList(Children(dep))
  PROVE  /\ IsList(Eligible(regime))
         /\ \A i \in DOMAIN Eligible(regime) : \E j \in DOMAIN Children(dep) : Eligible(regime)[i] = Children(dep)[j]
<1> DEFINE kids == Children(dep)
           ks == {k \in DOMAIN kids : regime = NoLabel \/ kids[k].regimes = {} \/ regime \in kids[k].regimes}
<1>1. ks \subseteq DOMAIN kids
  OBVIOUS
<1>2. /\ IsList(At(kids, ks))
      /\ \A n \in DOMAIN At(kids, ks) : \E k \in ks : At(kids, ks)[n] = kids[k]
  <2> HIDE DEF kids, ks
  <2>1. IsList(kids)
    BY DEF kids
  <2> QED
    BY <1>1, <2>1, Selected
<1>3. Eligible(regime) = At(kids, ks) \/ Eligible(regime) = kids
  BY DEF Eligible
<1> HIDE DEF kids, ks
<1>4. IsList(kids)
  BY DEF kids
<1> QED
  BY <1>1, <1>2, <1>3, <1>4 DEF kids

\* The note and the payload in the key tell the signal (Signal.Note, cacheKey).
LEMMA NoteTells ==
  ASSUME NEW s \in Signals \cup {NoSignal}, NEW t \in Signals \cup {NoSignal},
         Note(s) = Note(t), s.payload = t.payload
  PROVE  s = t
<1>1. \A u \in Signals \cup {NoSignal} : u = [kind |-> u.kind, text |-> u.text, payload |-> u.payload]
  <2>1. Signals \subseteq [kind : STRING, text : STRING, payload : STRING]
    BY PlanningAssumption
  <2>2. NoSignal = [kind |-> NoSignal.kind, text |-> NoSignal.text, payload |-> NoSignal.payload]
    BY DEF NoSignal
  <2> QED
    BY <2>1, <2>2
<1>2. s.kind = t.kind /\ s.text = t.text
  BY DEF Note
<1>3. [kind |-> s.kind, text |-> s.text, payload |-> s.payload]
        = [kind |-> t.kind, text |-> t.text, payload |-> t.payload]
  BY <1>2
<1> QED
  BY <1>1, <1>3, Zenon

-----------------------------------------------------------------------------
(* What the sources report.                                                *)

\* Deltas of one element are appended to a delta of these elements: Composite.Fetch over
\* adapters that all answer.
LEMMA FlattenOnes ==
  ASSUME NEW n \in Nat, NEW w
  PROVE  FlattenSeq([k \in 1..n |-> <<w>>]) = [k \in 1..n |-> w]
<1> DEFINE s == [k \in 1..n |-> <<w>>]
           up == [i \in 1..n |-> [k \in 1..i |-> w]]
           step(f) == [i \in 1..n |-> IF i = 1 THEN s[i] ELSE f[i - 1] \o s[i]]
           flat == CHOOSE f : f = step(f)
<1>1. Len(s) = n
  OBVIOUS
<1>2. \A i \in Nat \ {0} : [k \in 1..i |-> w] \o <<w>> = [k \in 1..(i + 1) |-> w]
  OBVIOUS
<1>3. up = step(up)
  <2>1. ASSUME NEW i \in 1..n
        PROVE  up[i] = step(up)[i]
    <3>1. CASE i = 1
      BY <3>1
    <3>2. CASE i # 1
      <4>1. i - 1 \in 1..n /\ i - 1 \in Nat \ {0} /\ (i - 1) + 1 = i
        BY <3>2
      <4>2. step(up)[i] = [k \in 1..(i - 1) |-> w] \o <<w>>
        BY <3>2, <4>1
      <4>3. [k \in 1..(i - 1) |-> w] \o <<w>> = [k \in 1..((i - 1) + 1) |-> w]
        BY <4>1, <1>2
      <4> QED
        BY <4>1, <4>2, <4>3
    <3> QED
      BY <3>1, <3>2
  <2> QED
    BY <2>1
<1>4. flat = step(flat)
  <2> HIDE DEF up, step
  <2> QED
    BY <1>3 DEF flat
<1>5. \A i \in 1..n : flat[i] = [k \in 1..i |-> w]
  <2> DEFINE bad == {i \in 1..n : flat[i] # [k \in 1..i |-> w]}
  <2> SUFFICES ASSUME bad # {} PROVE FALSE
    OBVIOUS
  <2>1. bad \subseteq Nat
    OBVIOUS
  <2>2. PICK i \in bad : \A j \in bad : ~(<<j, i>> \in OpToRel(<, Nat))
    <3> HIDE DEF bad
    <3> QED
      BY <2>1, WFMin, NatLessThanWellFounded
  <2>3. i \in 1..n /\ flat[i] # [k \in 1..i |-> w]
    OBVIOUS
  <2>4. \A j \in 1..n : j < i => flat[j] = [k \in 1..j |-> w]
    <3> HIDE DEF flat
    <3>1. \A j \in bad : ~(j < i)
      <4> HIDE DEF bad
      <4> QED
        BY <2>1, <2>2 DEF OpToRel
    <3> QED
      BY <3>1
  <2>5. flat[i] = IF i = 1 THEN s[i] ELSE flat[i - 1] \o s[i]
    <3> HIDE DEF flat
    <3> QED
      BY <1>4, <2>3
  <2> HIDE DEF flat, bad
  <2>6. CASE i = 1
    BY <2>3, <2>5, <2>6
  <2>7. CASE i # 1
    <3>1. i - 1 \in 1..n /\ i - 1 \in Nat \ {0} /\ (i - 1) + 1 = i /\ i - 1 < i
      BY <2>3, <2>7
    <3>2. flat[i] = [k \in 1..(i - 1) |-> w] \o <<w>>
      BY <2>3, <2>4, <2>5, <2>7, <3>1
    <3> QED
      BY <2>3, <3>1, <3>2, <1>2
  <2> QED
    BY <2>6, <2>7
<1>6. CASE n = 0
  BY <1>1, <1>6 DEF FlattenSeq
<1>7. CASE n # 0
  <2>1. FlattenSeq(s) = flat[n]
    BY <1>1, <1>7 DEF FlattenSeq
  <2>2. n \in 1..n
    BY <1>7
  <2>3. flat[n] = [k \in 1..n |-> w]
    <3> HIDE DEF flat
    <3> QED
      BY <2>2, <1>5
  <2> QED
    BY <2>1, <2>3, Zenon
<1> QED
  BY <1>6, <1>7

\* The sources of a decision have members to ask (NewSourceResolver's sources are those of
\* the file or of the embedding program).
LEMMA SourcesHaveMembers ==
  ASSUME NEW d \in Deployments, NEW i \in DOMAIN Sources(d)
  PROVE  Sources(d)[i].members \in Nat
<1> DEFINE file  == IF d.sourcesOn THEN {d.file[k].name : k \in DOMAIN d.file} ELSE {}
           kinds == SourceKinds(d)
           ks    == {k \in DOMAIN kinds : kinds[k] \in file \cup DOMAIN d.wiredSources}
           wired == At(kinds, ks)
<1>1. Sources(d) = [n \in DOMAIN wired |-> IF wired[n] \in file THEN HTTPSource ELSE d.wiredSources[wired[n]]]
  BY DEF Sources
<1>2. IsList(kinds)
  BY PlanningAssumption DEF IsList
<1>3. \A n \in DOMAIN wired : \E k \in ks : wired[n] = kinds[k]
  <2>1. ks \subseteq DOMAIN kinds
    OBVIOUS
  <2> HIDE DEF kinds, ks
  <2> QED
    BY <1>2, <2>1, Selected
<1>4. wired[i] \in file \cup DOMAIN d.wiredSources
  <2> HIDE DEF wired
  <2> QED
    BY <1>1, <1>3
<1>5. \A k \in DOMAIN d.wiredSources : d.wiredSources[k].members \in Nat
  BY PlanningAssumption
<1> HIDE DEF wired, file
<1> QED
  BY <1>1, <1>4, <1>5 DEF HTTPSource

\* What every member of a source reports of the world.
Reported(s, w) == [k \in 1..s.members |-> w]

\* A result that is not marked stale is what every member reports now: an adapter's failure,
\* a recalled delta and a panic are marked (Adapter, ServeLastGood, fetchOne).
LEMMA UnmarkedIsCurrent ==
  \A s, last, w : \A x \in Fetched(s, last, w) :
    s.members \in Nat /\ ~x.out.stale => x.out.delta = Reported(s, w)
<1> SUFFICES ASSUME NEW s, NEW last, NEW w, NEW x \in Fetched(s, last, w), s.members \in Nat, ~x.out.stale
             PROVE  x.out.delta = Reported(s, w)
  BY Zenon
<1>1. PICK r \in Primary(s, w) :
        x.out = IF s.cached /\ r.stale THEN ServeLastGood(r, last) ELSE r
  <2>1. x # [out |-> [delta |-> Nothing, stale |-> TRUE], last |-> last]
    OBVIOUS
  <2> QED
    BY <2>1 DEF Fetched
<1>2. x.out = r /\ ~r.stale
  BY <1>1 DEF ServeLastGood
<1>3. PICK f \in [1..s.members -> Adapter(w)] : r = Merged(f)
  BY DEF Primary
<1>4. \A k \in 1..s.members : f[k].delta = <<w>>
  <2>1. \A k \in 1..s.members : ~f[k].stale
    BY <1>2, <1>3 DEF Merged
  <2> QED
    BY <2>1 DEF Adapter
<1>5. [k \in DOMAIN f |-> f[k].delta] = [k \in 1..s.members |-> <<w>>]
  BY <1>4
<1>6. r.delta = FlattenSeq([k \in DOMAIN f |-> f[k].delta])
  BY <1>3 DEF Merged
<1>7. FlattenSeq([k \in 1..s.members |-> <<w>>]) = [k \in 1..s.members |-> w]
  BY FlattenOnes
<1> QED
  BY <1>2, <1>5, <1>6, <1>7, Zenon DEF Reported

-----------------------------------------------------------------------------
(* One basis and a current context: what holds of any decision.            *)

Fields == {"pc", "sig", "who", "facts", "seen", "contribs", "regime", "kids", "out", "adjusted", "cands",
           "comparator", "winner", "moves"}

\* The candidates of a decision that was made rest on reviews of the strategies' own answers,
\* or on these answers, as its provenance says.
Basis(r) ==
  \A i \in DOMAIN r.cands : ~r.out[i].err =>
    r.cands[i].moves \in IF r.comparator = "verify" THEN {applyVerdict(r.out[i].moves, v) : v \in Verdicts}
                         ELSE {r.out[i].moves}

\* The reviews begin when every child has answered, and the n-th is of the n-th plan.
Judged(r) ==
  /\ IsFiniteSet(DOMAIN r.out) /\ DOMAIN r.out \subseteq Nat
  /\ IsList(r.adjusted)
  /\ r.adjusted # <<>> => \A i \in DOMAIN r.out : r.out[i].pc = "done"
  /\ \A i \in Planned(r) : Place(r, i) <= Len(r.adjusted) =>
       \E v \in Verdicts : r.adjusted[Place(r, i)] = applyVerdict(r.out[i].moves, v)
  /\ r.pc = "chosen" => Basis(r)

\* A contribution is marked, or what its source reported when the decision began.
Current(d, r) ==
  r.pc # "idle" => \A i \in DOMAIN r.contribs :
    r.contribs[i].stale \/ r.contribs[i].delta = [k \in 1..Sources(d)[i].members |-> r.seen]

Sound(d, r) == DOMAIN r = Fields /\ Judged(r) /\ Current(d, r)
SoundInv == /\ dep \in Deployments /\ Starts(dep)
            /\ DOMAIN dec = Goals /\ \A g \in Goals : Sound(dep, dec[g])

\* The places of the plans are 1, 2, ... : the reviewer's answers are read back by position.
LEMMA PlaceFacts ==
  ASSUME NEW r, IsFiniteSet(DOMAIN r.out), DOMAIN r.out \subseteq Nat
  PROVE  /\ Cardinality(Planned(r)) \in Nat
         /\ \A i \in Planned(r) : Place(r, i) \in 1..Cardinality(Planned(r))
         /\ \A i, k \in Planned(r) : Place(r, i) = Place(r, k) => i = k
<1> DEFINE P == Planned(r)
           upTo(i) == {k \in P : k <= i}
<1>1. IsFiniteSet(P) /\ P \subseteq Nat
  <2>1. P \in SUBSET (DOMAIN r.out)
    BY DEF Planned
  <2>2. IsFiniteSet(P)
    BY <2>1, FS_Subset
  <2> QED
    BY <2>1, <2>2
<1>2. \A i \in P : Place(r, i) = Cardinality(upTo(i))
  BY DEF Place
<1> HIDE DEF P
<1>3. \A i \in P : i \in upTo(i) /\ upTo(i) \in SUBSET P
  BY <1>1
<1>4. ASSUME NEW i \in P, NEW k \in P, i < k
      PROVE  k \notin upTo(i) /\ upTo(i) \in SUBSET upTo(k) /\ k \in upTo(k)
  <2>1. i \in Nat /\ k \in Nat /\ ~(k <= i)
    BY <1>1, <1>4
  <2>2. \A l \in upTo(i) : l \in P /\ l <= k
    BY <1>1, <1>4, <2>1
  <2>3. k \notin upTo(i) /\ k \in upTo(k)
    BY <2>1
  <2> QED
    BY <2>2, <2>3
<1> HIDE DEF upTo
<1>5. Cardinality(P) \in Nat
  BY <1>1, FS_CardinalityType
<1>6. \A i \in P : IsFiniteSet(upTo(i)) /\ Cardinality(upTo(i)) \in Nat /\ Cardinality(upTo(i)) <= Cardinality(P)
  BY <1>1, <1>3, FS_Subset, FS_CardinalityType
<1>7. \A i \in P : Cardinality(upTo(i)) # 0
  BY <1>3, <1>6, FS_EmptySet
<1>8. ASSUME NEW i \in P, NEW k \in P, i < k PROVE Cardinality(upTo(i)) < Cardinality(upTo(k))
  <2>1. upTo(i) # upTo(k)
    BY <1>4, <1>8
  <2>2. Cardinality(upTo(i)) <= Cardinality(upTo(k)) /\ Cardinality(upTo(i)) # Cardinality(upTo(k))
    BY <1>4, <1>6, <1>8, <2>1, FS_Subset
  <2> QED
    BY <1>6, <2>2
<1>9. \A i \in P : Place(r, i) \in 1..Cardinality(P)
  BY <1>2, <1>5, <1>6, <1>7
<1>10. ASSUME NEW i \in P, NEW k \in P, Place(r, i) = Place(r, k) PROVE i = k
  <2>1. ~(i < k) /\ ~(k < i)
    BY <1>2, <1>6, <1>8, <1>10
  <2> QED
    BY <1>1, <2>1
<1> QED
  BY <1>5, <1>9, <1>10 DEF P

\* Without a review there is nothing to read back.
LEMMA UnjudgedIsSound ==
  ASSUME NEW r, r.adjusted = <<>>, IsFiniteSet(DOMAIN r.out), DOMAIN r.out \subseteq Nat,
         r.pc = "chosen" => Basis(r)
  PROVE  Judged(r)
<1>1. IsList(<<>>) /\ Len(<<>>) = 0
  BY DEF IsList
<1>2. \A i \in Planned(r) : ~(Place(r, i) <= 0)
  BY PlaceFacts
<1> QED
  BY <1>1, <1>2 DEF Judged

\* A goal without a decision is sound.
LEMMA IdleIsSound == \A d : Sound(d, Idle)
<1>1. /\ DOMAIN Idle = Fields /\ Idle.pc = "idle" /\ Idle.adjusted = <<>>
      /\ Idle.out = <<>>
  BY DEF Idle, Fields
<1>2. DOMAIN Idle.out = {}
  BY <1>1
<1>3. IsFiniteSet(DOMAIN Idle.out) /\ DOMAIN Idle.out \subseteq Nat
  BY <1>2, FS_EmptySet
<1>4. Judged(Idle)
  BY <1>1, <1>3, UnjudgedIsSound
<1> QED
  BY <1>1, <1>4 DEF Sound, Current

\* A step that gives one goal a sound decision keeps them all sound.
LEMMA SoundStep ==
  ASSUME SoundInv, NEW g \in Goals, NEW r, Sound(dep, r), dec' = [dec EXCEPT ![g] = r], dep' = dep
  PROVE  SoundInv'
<1>1. DOMAIN dec' = Goals /\ \A h \in Goals : dec'[h] = IF h = g THEN r ELSE dec[h]
  BY DEF SoundInv
<1>2. \A h \in Goals : Sound(dep, dec'[h])
  BY <1>1 DEF SoundInv
<1> QED
  BY <1>1, <1>2 DEF SoundInv

\* What a decision begins with is sound.
LEMMA BeginIsSound ==
  ASSUME SoundInv, NEW g \in Goals, Begin(g)
  PROVE  SoundInv'
<1>1. PICK sig \in Triggers(g), who \in Credentials,
           e \in Enriched(Sources(dep), lastGood[g], world), regime \in Classified :
        dec' = [dec EXCEPT ![g] = Begun(sig, who, Contributions(e), regime)]
  BY DEF Begin
<1> DEFINE r == Begun(sig, who, Contributions(e), regime)
<1>2. /\ DOMAIN r = Fields /\ r.pc = "asking" /\ r.adjusted = <<>> /\ r.seen = world
      /\ r.contribs = [i \in DOMAIN e |-> e[i].out]
      /\ DOMAIN r.out = DOMAIN Eligible(regime)
  BY DEF Begun, Contributions, Idle, Fields
<1>3. ASSUME NEW i \in DOMAIN r.contribs, ~r.contribs[i].stale
      PROVE  r.contribs[i].delta = [k \in 1..Sources(dep)[i].members |-> world]
  <2>1. DOMAIN e = DOMAIN Sources(dep)
        /\ \A j \in DOMAIN Sources(dep) : e[j] \in Fetched(Sources(dep)[j], lastGood[g][j], world)
    BY DEF Enriched
  <2>2. i \in DOMAIN Sources(dep) /\ r.contribs[i] = e[i].out
    BY <1>2, <1>3, <2>1
  <2>3. Sources(dep)[i].members \in Nat
    BY <2>2, SourcesHaveMembers DEF SoundInv
  <2> HIDE DEF r
  <2>4. e[i] \in Fetched(Sources(dep)[i], lastGood[g][i], world) /\ ~e[i].out.stale
    BY <2>1, <2>2, <1>3
  <2>5. e[i].out.delta = Reported(Sources(dep)[i], world)
    BY <2>3, <2>4, UnmarkedIsCurrent
  <2> QED
    BY <2>2, <2>5 DEF Reported
<1>4. dec' = [dec EXCEPT ![g] = r] /\ dep' = dep
  BY <1>1 DEF Begin
<1> HIDE DEF r
<1>5. IsFiniteSet(DOMAIN r.out) /\ DOMAIN r.out \subseteq Nat
  <2>1. IsList(Eligible(regime))
    BY ChildrenAreTold, EligibleAreChildren DEF SoundInv
  <2>2. IsFiniteSet(1..Len(Eligible(regime)))
    BY <2>1, FS_Interval DEF IsList
  <2> QED
    BY <1>2, <2>1, <2>2 DEF IsList
<1>6. Judged(r)
  BY <1>2, <1>5, UnjudgedIsSound
<1>7. Sound(dep, r)
  BY <1>2, <1>3, <1>6 DEF Sound, Current
<1> QED
  BY <1>4, <1>7, SoundStep

\* What a choice leaves behind.
LEMMA ChosenFacts ==
  ASSUME NEW r, DOMAIN r = Fields, NEW w, NEW ms, NEW c
  PROVE  LET q == Chosen(r, w, ms, c)
         IN  /\ DOMAIN q = Fields /\ q.pc = "chosen" /\ q.adjusted = <<>> /\ q.cands = Candidates(r)
             /\ q.winner = w /\ q.moves = ms /\ q.comparator = c
             /\ q.out = r.out /\ q.kids = r.kids /\ q.sig = r.sig /\ q.who = r.who /\ q.facts = r.facts
             /\ q.seen = r.seen /\ q.contribs = r.contribs /\ q.regime = r.regime
  BY DEF Chosen, Fields

\* A choice, and the comparator it is stamped with.
LEMMA ChoiceIs ==
  ASSUME NEW g \in Goals, Choose(g)
  PROVE  \E w, ms, c :
           /\ dec' = [dec EXCEPT ![g] = Chosen(dec[g], w, ms, c)]
           /\ c = "verify" <=> Reviewed(dec[g])
<1>1. CASE Selects(dep)
  <2>1. \E w, ms : dec' = [dec EXCEPT ![g] = Chosen(dec[g], w, ms, IF Reviewed(dec[g]) THEN "verify" ELSE "utility")]
    BY <1>1, Zenon DEF Choose
  <2>2. CASE Reviewed(dec[g])
    <3>1. \E w, ms : dec' = [dec EXCEPT ![g] = Chosen(dec[g], w, ms, "verify")]
      BY <2>1, <2>2
    <3> QED
      BY <2>2, <3>1, Zenon
  <2>3. CASE ~Reviewed(dec[g])
    <3>1. \E w, ms : dec' = [dec EXCEPT ![g] = Chosen(dec[g], w, ms, "utility")]
      BY <2>1, <2>3
    <3> DEFINE c == "utility"
    <3>2. c # "verify"
      OBVIOUS
    <3>3. \E w, ms : dec' = [dec EXCEPT ![g] = Chosen(dec[g], w, ms, c)]
      BY <3>1
    <3> HIDE DEF c
    <3>4. c = "verify" <=> Reviewed(dec[g])
      BY <2>3, <3>2, Zenon
    <3> QED
      BY <3>3, <3>4, Zenon
  <2> QED
    BY <2>2, <2>3
<1>2. CASE ~Selects(dep)
  <2>1. dec' = [dec EXCEPT ![g] = Chosen(dec[g], 1, dec[g].out[1].moves, "")]
    BY <1>2 DEF Choose
  <2>2. ~Reviewed(dec[g])
    BY <1>2 DEF Reviewed
  <2> DEFINE c == ""
  <2>3. c # "verify"
    OBVIOUS
  <2>4. \E w, ms : dec' = [dec EXCEPT ![g] = Chosen(dec[g], w, ms, c)]
    BY <2>1
  <2> HIDE DEF c
  <2>5. c = "verify" <=> Reviewed(dec[g])
    BY <2>2, <2>3, Zenon
  <2> QED
    BY <2>4, <2>5, Zenon
<1> QED
  BY <1>1, <1>2

\* The candidates of a choice: every plan reviewed, or every plan as it was answered.
LEMMA CandidatesHaveBasis ==
  ASSUME NEW r, Judged(r), NEW i \in DOMAIN r.out, ~r.out[i].err
  PROVE  Candidates(r)[i].moves \in IF Reviewed(r) THEN {applyVerdict(r.out[i].moves, v) : v \in Verdicts}
                                    ELSE {r.out[i].moves}
<1>1. Candidates(r)[i].moves = Result(r, i) /\ i \in Planned(r)
  BY DEF Candidates, Planned
<1>2. CASE Reviewed(r)
  <2>1. Place(r, i) <= Len(r.adjusted)
    BY <1>1, <1>2, PlaceFacts DEF Judged, Reviewed
  <2>2. Result(r, i) = r.adjusted[Place(r, i)]
    BY <1>2 DEF Result
  <2> QED
    BY <1>1, <1>2, <2>1, <2>2 DEF Judged
<1>3. CASE ~Reviewed(r)
  BY <1>1, <1>3 DEF Result
<1> QED
  BY <1>2, <1>3

\* The competition is decided over all reviewed plans or over none, and says which.
LEMMA ChooseIsSound ==
  ASSUME SoundInv, NEW g \in Goals, Choose(g)
  PROVE  SoundInv'
<1>1. Sound(dep, dec[g])
  BY DEF SoundInv
<1>2. PICK w, ms, c : /\ dec' = [dec EXCEPT ![g] = Chosen(dec[g], w, ms, c)]
                      /\ c = "verify" <=> Reviewed(dec[g])
  BY ChoiceIs
<1> DEFINE r == Chosen(dec[g], w, ms, c)
<1>3. /\ DOMAIN r = Fields /\ r.adjusted = <<>> /\ r.cands = Candidates(dec[g]) /\ r.comparator = c
      /\ r.out = dec[g].out /\ r.contribs = dec[g].contribs /\ r.seen = dec[g].seen
  BY <1>1, ChosenFacts DEF Sound
<1> HIDE DEF r
<1>4. DOMAIN r.cands = DOMAIN dec[g].out
  BY <1>3 DEF Candidates
<1>5. Basis(r)
  <2> SUFFICES ASSUME NEW i \in DOMAIN r.cands, ~r.out[i].err
               PROVE  r.cands[i].moves \in IF r.comparator = "verify"
                                           THEN {applyVerdict(r.out[i].moves, v) : v \in Verdicts}
                                           ELSE {r.out[i].moves}
    BY DEF Basis
  <2>1. r.cands[i].moves \in IF Reviewed(dec[g]) THEN {applyVerdict(dec[g].out[i].moves, v) : v \in Verdicts}
                             ELSE {dec[g].out[i].moves}
    <3>1. Judged(dec[g])
      BY <1>1 DEF Sound
    <3>2. i \in DOMAIN dec[g].out /\ ~dec[g].out[i].err
      BY <1>3, <1>4
    <3>3. r.cands[i].moves = Candidates(dec[g])[i].moves
      BY <1>3
    <3> QED
      BY <3>1, <3>2, <3>3, CandidatesHaveBasis
  <2>2. CASE Reviewed(dec[g])
    <3>1. r.comparator = "verify"
      BY <1>2, <1>3, <2>2, Zenon
    <3> QED
      BY <1>3, <2>1, <2>2, <3>1
  <2>3. CASE ~Reviewed(dec[g])
    <3>1. r.comparator # "verify"
      BY <1>2, <1>3, <2>3, Zenon
    <3> QED
      BY <1>3, <2>1, <2>3, <3>1
  <2> QED
    BY <2>2, <2>3
<1>6. Judged(r)
  BY <1>1, <1>3, <1>5, UnjudgedIsSound DEF Sound, Judged
<1>7. Sound(dep, r)
  <2>1. dec[g].pc # "idle"
    BY DEF Choose, Answered
  <2> QED
    BY <1>1, <1>3, <1>6, <2>1 DEF Sound, Current
<1>8. dec' = [dec EXCEPT ![g] = r] /\ dep' = dep
  BY <1>2 DEF Choose, r
<1> QED
  BY <1>7, <1>8, SoundStep

\* The next review is of the next plan.
LEMMA ReviewIsSound ==
  ASSUME SoundInv, NEW g \in Goals, Review(g)
  PROVE  SoundInv'
<1>1. Sound(dep, dec[g])
  BY DEF SoundInv
<1>2. PICK i \in Planned(dec[g]), v \in Verdicts :
        /\ Place(dec[g], i) = Len(dec[g].adjusted) + 1
        /\ dec' = [dec EXCEPT ![g].adjusted = Append(@, applyVerdict(dec[g].out[i].moves, v))]
  BY DEF Review
<1> DEFINE a == dec[g].adjusted
           x == applyVerdict(dec[g].out[i].moves, v)
           r == [dec[g] EXCEPT !.adjusted = Append(a, x)]
<1>3. dec' = [dec EXCEPT ![g] = r] /\ dep' = dep
  BY <1>2 DEF Review
<1>4. /\ DOMAIN r = Fields /\ r.adjusted = Append(a, x) /\ r.out = dec[g].out /\ r.pc = dec[g].pc
      /\ r.contribs = dec[g].contribs /\ r.seen = dec[g].seen
  BY <1>1 DEF Sound, Fields
<1>5. IsList(a) /\ Place(dec[g], i) = Len(a) + 1
  BY <1>1, <1>2 DEF Sound, Judged
<1> HIDE DEF r, x
<1>6. /\ IsList(Append(a, x)) /\ Len(Append(a, x)) = Len(a) + 1 /\ Append(a, x)[Len(a) + 1] = x
      /\ \A n \in 1..Len(a) : Append(a, x)[n] = a[n]
  <2> HIDE DEF a
  <2> QED
    BY <1>5 DEF IsList
<1>7. Planned(r) = Planned(dec[g]) /\ \A k : Place(r, k) = Place(dec[g], k)
  BY <1>4 DEF Planned, Place
<1>8. ASSUME NEW k \in Planned(r), Place(r, k) <= Len(r.adjusted)
      PROVE  \E u \in Verdicts : r.adjusted[Place(r, k)] = applyVerdict(r.out[k].moves, u)
  <2>1. Place(dec[g], k) \in Nat /\ Place(dec[g], k) >= 1 /\ k \in Planned(dec[g])
    BY <1>1, <1>7, PlaceFacts DEF Sound, Judged
  <2>2. CASE Place(dec[g], k) = Len(a) + 1
    <3>1. k = i
      BY <1>1, <1>5, <2>1, <2>2, PlaceFacts DEF Sound, Judged
    <3> QED
      BY <1>4, <1>6, <1>7, <2>2, <3>1 DEF x
  <2>3. CASE Place(dec[g], k) # Len(a) + 1
    <3>1. Place(dec[g], k) \in 1..Len(a)
      BY <1>4, <1>5, <1>6, <1>7, <1>8, <2>1, <2>3 DEF IsList
    <3>2. \E u \in Verdicts : a[Place(dec[g], k)] = applyVerdict(dec[g].out[k].moves, u)
      BY <1>1, <2>1, <3>1 DEF Sound, Judged
    <3> QED
      BY <1>4, <1>6, <1>7, <3>1, <3>2
  <2> QED
    BY <2>2, <2>3
<1>9. Judged(r)
  <2>1. /\ IsFiniteSet(DOMAIN r.out) /\ DOMAIN r.out \subseteq Nat
        /\ r.pc # "chosen" /\ \A k \in DOMAIN r.out : r.out[k].pc = "done"
    BY <1>1, <1>4 DEF Sound, Judged, Review, Answered
  <2> QED
    BY <1>4, <1>6, <1>8, <2>1 DEF Judged
<1>10. Sound(dep, r)
  <2>1. dec[g].pc # "idle"
    BY DEF Review, Answered
  <2> QED
    BY <1>1, <1>4, <1>9, <2>1 DEF Sound, Current
<1> QED
  BY <1>3, <1>10, SoundStep

\* An answer of a child comes before the reviews and leaves the context alone.
LEMMA ChildStepIsSound ==
  ASSUME SoundInv, NEW g \in Goals, NEW i \in DOMAIN dec[g].out, NEW a,
         dec[g].pc = "asking", dec[g].out[i].pc # "done", dep' = dep,
         dec' = [dec EXCEPT ![g] = [dec[g] EXCEPT !.out = [dec[g].out EXCEPT ![i] = a]]]
  PROVE  SoundInv'
<1> DEFINE o == [dec[g].out EXCEPT ![i] = a]
           r == [dec[g] EXCEPT !.out = o]
<1>1. Sound(dep, dec[g])
  BY DEF SoundInv
<1>2. /\ DOMAIN r = Fields /\ r.pc = dec[g].pc /\ r.adjusted = dec[g].adjusted
      /\ r.contribs = dec[g].contribs /\ r.seen = dec[g].seen /\ r.out = o
  BY <1>1 DEF Sound, Fields
<1>3. DOMAIN o = DOMAIN dec[g].out
  OBVIOUS
<1>4. dec' = [dec EXCEPT ![g] = r]
  OBVIOUS
<1> HIDE DEF r, o
<1>5. dec[g].adjusted = <<>>
  BY <1>1 DEF Sound, Judged
<1>6. Judged(r)
  <2>1. IsFiniteSet(DOMAIN r.out) /\ DOMAIN r.out \subseteq Nat
    BY <1>1, <1>2, <1>3 DEF Sound, Judged
  <2> QED
    BY <1>2, <1>5, <2>1, UnjudgedIsSound
<1>7. Sound(dep, r)
  BY <1>1, <1>2, <1>6 DEF Sound, Current
<1> QED
  BY <1>4, <1>7, SoundStep

\* Every step keeps every decision sound.
LEMMA SoundKept == SoundInv /\ [Next]_vars => SoundInv'
<1> SUFFICES ASSUME SoundInv, [Next]_vars PROVE SoundInv'
  OBVIOUS
<1>1. CASE UNCHANGED vars
  BY <1>1 DEF vars, SoundInv
<1>2. ASSUME NEW g \in Goals, Begin(g) PROVE SoundInv'
  BY <1>2, BeginIsSound
<1>3. ASSUME NEW g \in Goals, Fail(g) PROVE SoundInv'
  <2>1. dec' = [dec EXCEPT ![g] = Idle] /\ dep' = dep
    BY <1>3 DEF Fail
  <2> QED
    BY <2>1, SoundStep, IdleIsSound
<1>4. ASSUME NEW g \in Goals, Choose(g) PROVE SoundInv'
  BY <1>4, ChooseIsSound
<1>5. ASSUME NEW g \in Goals, Commit(g) PROVE SoundInv'
  <2>1. dec' = [dec EXCEPT ![g] = Idle] /\ dep' = dep
    BY <1>5 DEF Commit
  <2> QED
    BY <2>1, SoundStep, IdleIsSound
<1>6. ASSUME NEW g \in Goals, NEW i \in DOMAIN dec[g].out, Lookup(g, i) PROVE SoundInv'
  <2>1. \E a : dec' = [dec EXCEPT ![g] = [dec[g] EXCEPT !.out = [dec[g].out EXCEPT ![i] = a]]]
    BY <1>6 DEF Lookup
  <2> QED
    BY <1>6, <2>1, ChildStepIsSound DEF Lookup
<1>7. ASSUME NEW g \in Goals, NEW i \in DOMAIN dec[g].out, Answer(g, i) PROVE SoundInv'
  <2>1. \E a : dec' = [dec EXCEPT ![g] = [dec[g] EXCEPT !.out = [dec[g].out EXCEPT ![i] = a]]]
    BY <1>7 DEF Answer
  <2> QED
    BY <1>7, <2>1, ChildStepIsSound DEF Answer
<1>8. CASE Tick \/ WorldChanges
  BY <1>8 DEF Tick, WorldChanges, SoundInv
<1>9. ASSUME NEW g \in Goals, Review(g) PROVE SoundInv'
  BY <1>9, ReviewIsSound
<1> QED
  BY <1>1, <1>2, <1>3, <1>4, <1>5, <1>6, <1>7, <1>8, <1>9 DEF Next

\* A process starts without decisions.
LEMMA SoundInit == Init => SoundInv
<1> SUFFICES ASSUME Init PROVE SoundInv
  OBVIOUS
<1>1. DOMAIN dec = Goals /\ \A g \in Goals : dec[g] = Idle
  BY DEF Init
<1> QED
  BY <1>1, IdleIsSound DEF Init, SoundInv

\* Every decision of every behaviour is sound.
LEMMA SoundAlways == Spec => []SoundInv
<1> QED
  BY SoundInit, SoundKept, PTL DEF Spec

\* A competition is never decided over plans of which some were reviewed: whatever the
\* reviewer says, whichever children failed and wherever its loop stops, the winner is chosen
\* among reviews of each strategy's own answer or among the answers, and the comparator in the
\* provenance tells which.
THEOREM ComparedOnOneBasis == Spec => []SameBasis
<1>1. SoundInv => SameBasis
  BY DEF SoundInv, Sound, Judged, Basis, SameBasis
<1> QED
  BY <1>1, SoundAlways, PTL

\* A context that Enrich does not mark as stale is what every source reports at that
\* decision: no last good, partial or failed result passes for a fresh one.
THEOREM ContextIsCurrent == Spec => []NoFakeFreshness
<1>1. SoundInv => NoFakeFreshness
  BY DEF SoundInv, Sound, Current, NoFakeFreshness
<1> QED
  BY <1>1, SoundAlways, PTL

-----------------------------------------------------------------------------
(* Answers to this decision: what the cache keeps and a decision holds.    *)

\* An entry is filed under the key of the request it was planned for, whoever made it, and
\* expires a TTL after it was put.
Kept(d, t, e) ==
  /\ e.put \in Nat /\ e.put <= t
  /\ e.exp = IF TTL(d) > 0 THEN e.put + TTL(d) ELSE 0
  /\ \E j \in DOMAIN Children(d), sig \in Signals \cup {NoSignal} :
       /\ e.key = <<Children(d)[j].name, Children(d)[j].prompt, e.key[3], Note(sig), sig.payload, e.key[6]>>
       /\ \E who : e.for = <<Children(d)[j].id, e.key[3], sig, e.key[6], who>>
AllKept(d, t, s) == IsList(s) /\ \A k \in DOMAIN s : Kept(d, t, s[k])

AnswerFields == {"pc", "err", "moves", "for", "age"}

\* An answer that a decision with the current moves ms holds.
ToldAt(d, r, ms, i) ==
  /\ DOMAIN r.out[i] = AnswerFields
  /\ r.out[i].pc = "done" =>
       /\ \E who : /\ r.out[i].for = <<r.kids[i].id, r.facts, r.sig, Keys(ms), who>>
                   /\ d.planner.planner = "byok" => who = r.who
       /\ TTL(d) > 0 => r.out[i].age < TTL(d)

Told(d, r, ms) ==
  /\ DOMAIN r.out = DOMAIN r.kids
  /\ r.sig \in Signals \cup {NoSignal}
  /\ \A i \in DOMAIN r.kids : \E j \in DOMAIN Children(d) : r.kids[i] = Children(d)[j]
  /\ \A i \in DOMAIN r.out : ToldAt(d, r, ms, i)

ToldInv ==
  /\ now \in Nat /\ DOMAIN plan = Goals
  /\ AllKept(dep, now, cache)
  /\ \A g \in Goals : Told(dep, dec[g], plan[g].moves)

\* The expiry of a domain's entries is a number of ticks, none for text.
LEMMA TTLIsNat == \A d \in Deployments : TTL(d) \in Nat
<1>1. \A d \in Deployments : d.ttl \in Nat
  BY PlanningAssumption
<1> QED
  BY <1>1 DEF TTL

\* Removing entries, moving one to the front and dropping the last one keep the rest.
LEMMA ListsKeep ==
  ASSUME NEW d, NEW t, NEW s, AllKept(d, t, s)
  PROVE  /\ \A ks : AllKept(d, t, Without(s, ks))
         /\ \A e : Kept(d, t, e) => AllKept(d, t, <<e>> \o s)
         /\ Len(s) > 0 => AllKept(d, t, Front(s))
<1>1. ASSUME NEW ks PROVE AllKept(d, t, Without(s, ks))
  <2> DEFINE left == DOMAIN s \ ks
  <2>1. left \subseteq DOMAIN s /\ IsList(s) /\ Without(s, ks) = At(s, left)
    BY DEF AllKept, Without
  <2> HIDE DEF left
  <2>2. /\ IsList(At(s, left))
        /\ \A n \in DOMAIN At(s, left) : \E k \in left : At(s, left)[n] = s[k]
    BY <2>1, Selected
  <2> QED
    BY <2>1, <2>2 DEF AllKept
<1>2. ASSUME NEW e, Kept(d, t, e) PROVE AllKept(d, t, <<e>> \o s)
  <2>1. /\ IsList(<<e>> \o s)
        /\ \A k \in DOMAIN (<<e>> \o s) :
             (<<e>> \o s)[k] = e \/ \E l \in DOMAIN s : (<<e>> \o s)[k] = s[l]
    BY Prepended DEF AllKept
  <2> QED
    BY <1>2, <2>1 DEF AllKept
<1>3. ASSUME Len(s) > 0 PROVE AllKept(d, t, Front(s))
  <2>1. IsList(Front(s)) /\ \A k \in DOMAIN Front(s) : \E l \in DOMAIN s : Front(s)[k] = s[l]
    BY <1>3, Fronted DEF AllKept
  <2> QED
    BY <2>1 DEF AllKept
<1> QED
  BY <1>1, <1>2, <1>3

\* Put files a kept entry and drops at most the least recently used one.
LEMMA PutKeeps ==
  ASSUME NEW d, NEW t, AllKept(d, t, cache), NEW e, Kept(d, t, e), Put(e)
  PROVE  AllKept(d, t, cache')
<1> DEFINE rest == Without(cache, Find(e.key))
<1>1. AllKept(d, t, rest)
  BY ListsKeep
<1>2. CacheSize \in Nat /\ CacheSize > 0
  BY PlanningAssumption
<1>3. cache' = <<e>> \o (IF Len(rest) < CacheSize THEN rest ELSE Front(rest))
  BY DEF Put
<1> HIDE DEF rest
<1>4. CASE Len(rest) < CacheSize
  BY <1>1, <1>3, <1>4, ListsKeep
<1>5. CASE ~(Len(rest) < CacheSize)
  <2>1. Len(rest) > 0
    BY <1>1, <1>2, <1>5 DEF AllKept, IsList
  <2>2. AllKept(d, t, Front(rest))
    BY <1>1, <2>1, ListsKeep
  <2> QED
    BY <1>3, <1>5, <2>2, ListsKeep
<1> QED
  BY <1>4, <1>5

\* An entry that is found and alive was planned for this request, by whomever, less than a TTL
\* ago.
LEMMA HitIsTold ==
  ASSUME SoundInv, ToldInv, NEW g \in Goals, NEW i \in DOMAIN dec[g].kids,
         NEW k \in DOMAIN cache, cache[k].key = cacheKey(g, dec[g].kids[i]), Live(cache[k])
  PROVE  /\ \E who : cache[k].for = <<dec[g].kids[i].id, dec[g].facts, dec[g].sig, Keys(plan[g].moves), who>>
         /\ TTL(dep) > 0 => now - cache[k].put < TTL(dep)
<1> DEFINE e == cache[k]
           c == dec[g].kids[i]
<1>1. Kept(dep, now, e)
  BY DEF ToldInv, AllKept
<1>2. PICK j \in DOMAIN Children(dep), sig \in Signals \cup {NoSignal} :
        /\ e.key = <<Children(dep)[j].name, Children(dep)[j].prompt, e.key[3], Note(sig), sig.payload, e.key[6]>>
        /\ \E who : e.for = <<Children(dep)[j].id, e.key[3], sig, e.key[6], who>>
  BY <1>1 DEF Kept
<1>3. Told(dep, dec[g], plan[g].moves)
  BY DEF ToldInv
<1>4. PICK n \in DOMAIN Children(dep) : c = Children(dep)[n]
  BY <1>3 DEF Told
<1>5. e.key = <<c.name, c.prompt, dec[g].facts, Note(dec[g].sig), dec[g].sig.payload, Keys(plan[g].moves)>>
  BY DEF cacheKey
<1> HIDE DEF e, c
<1>6. /\ Children(dep)[j].name = c.name /\ Children(dep)[j].prompt = c.prompt
      /\ e.key[3] = dec[g].facts /\ Note(sig) = Note(dec[g].sig) /\ sig.payload = dec[g].sig.payload
      /\ e.key[6] = Keys(plan[g].moves)
  BY <1>2, <1>5
<1>7. Children(dep)[j].id = c.id
  BY <1>4, <1>6, ChildrenAreTold DEF SoundInv
<1>8. sig = dec[g].sig
  BY <1>3, <1>6, NoteTells DEF Told
<1>9. \E who : e.for = <<c.id, dec[g].facts, dec[g].sig, Keys(plan[g].moves), who>>
  BY <1>2, <1>6, <1>7, <1>8
<1>10. TTL(dep) > 0 => now - e.put < TTL(dep)
  <2>1. TTL(dep) \in Nat /\ now \in Nat
    BY TTLIsNat DEF SoundInv, ToldInv
  <2>2. Live(e)
    BY DEF e
  <2> QED
    BY <1>1, <2>1, <2>2 DEF Kept, Live
<1> QED
  BY <1>9, <1>10 DEF e, c

\* A step that gives one goal a told decision keeps them all told.
LEMMA ToldStep ==
  ASSUME SoundInv, \A h \in Goals : Told(dep, dec[h], plan[h].moves), NEW g \in Goals, NEW r,
         dec' = [dec EXCEPT ![g] = r], dep' = dep,
         \A h \in Goals : h # g => plan'[h] = plan[h], Told(dep, r, plan'[g].moves)
  PROVE  \A h \in Goals : Told(dep', dec'[h], plan'[h].moves)
<1>1. \A h \in Goals : dec'[h] = IF h = g THEN r ELSE dec[h]
  BY DEF SoundInv
<1> QED
  BY <1>1

\* So does an answer to the request of one child.
LEMMA ChildStepIsTold ==
  ASSUME SoundInv, ToldInv, NEW g \in Goals, NEW i \in DOMAIN dec[g].out, NEW a,
         DOMAIN a = AnswerFields,
         NEW by, dep.planner.planner = "byok" => by = dec[g].who,
         a.pc = "done" =>
           /\ a.for = <<dec[g].kids[i].id, dec[g].facts, dec[g].sig, Keys(plan[g].moves), by>>
           /\ TTL(dep) > 0 => a.age < TTL(dep),
         dec' = [dec EXCEPT ![g] = [dec[g] EXCEPT !.out = [dec[g].out EXCEPT ![i] = a]]],
         dep' = dep, plan' = plan
  PROVE  \A h \in Goals : Told(dep', dec'[h], plan'[h].moves)
<1> DEFINE o == [dec[g].out EXCEPT ![i] = a]
           r == [dec[g] EXCEPT !.out = o]
           ms == plan[g].moves
<1>1. Told(dep, dec[g], ms) /\ DOMAIN dec[g] = Fields
  BY DEF ToldInv, SoundInv, Sound
<1>2. /\ r.out = o /\ r.kids = dec[g].kids /\ r.sig = dec[g].sig /\ r.who = dec[g].who
      /\ r.facts = dec[g].facts
  BY <1>1 DEF Fields
<1>3. DOMAIN o = DOMAIN dec[g].out /\ \A n \in DOMAIN o : o[n] = IF n = i THEN a ELSE dec[g].out[n]
  OBVIOUS
<1>4. dec' = [dec EXCEPT ![g] = r]
  OBVIOUS
<1>5. ASSUME NEW n \in DOMAIN o PROVE ToldAt(dep, r, ms, n)
  <2> HIDE DEF r, o
  <2>1. CASE n = i
    BY <1>2, <1>3, <1>5, <2>1 DEF ToldAt
  <2>2. CASE n # i
    <3>1. ToldAt(dep, dec[g], ms, n)
      BY <1>1, <1>3, <1>5 DEF Told
    <3> QED
      BY <1>2, <1>3, <1>5, <2>2, <3>1 DEF ToldAt
  <2> QED
    BY <2>1, <2>2
<1> HIDE DEF r, o
<1>6. Told(dep, r, ms)
  BY <1>1, <1>2, <1>3, <1>5 DEF Told
<1>7. \A h \in Goals : Told(dep, dec[h], plan[h].moves)
  BY DEF ToldInv
<1>8. \A h \in Goals : h # g => plan'[h] = plan[h]
  OBVIOUS
<1>9. Told(dep, r, plan'[g].moves)
  BY <1>6
<1> QED
  BY <1>4, <1>7, <1>8, <1>9, ToldStep

\* A goal without a decision is told, whatever its version.
LEMMA IdleIsTold == \A d, ms : Told(d, Idle, ms)
<1>1. Idle.out = <<>> /\ Idle.kids = <<>> /\ Idle.sig = NoSignal /\ Idle.who = NoCredentials
  BY DEF Idle
<1> QED
  BY <1>1 DEF Told

\* A lookup answers with an entry of this request, or asks the model.
LEMMA LookupIsTold ==
  ASSUME SoundInv, ToldInv, NEW g \in Goals, NEW i \in DOMAIN dec[g].out, Lookup(g, i)
  PROVE  ToldInv'
<1> DEFINE at == IF CacheOn(dep) THEN Find(cacheKey(g, dec[g].kids[i])) ELSE {}
<1>1. Told(dep, dec[g], plan[g].moves) /\ AllKept(dep, now, cache)
  BY DEF ToldInv
<1>2. DOMAIN dec[g].out[i] = AnswerFields /\ i \in DOMAIN dec[g].kids
  BY <1>1 DEF Told, ToldAt
<1>3. ASSUME NEW k \in at, Live(cache[k]),
             cache' = <<cache[k]>> \o Without(cache, at),
             dec' = [dec EXCEPT ![g].out[i] =
                      [pc |-> "done", err |-> FALSE, moves |-> cache[k].moves,
                       for |-> cache[k].for, age |-> now - cache[k].put]]
      PROVE  ToldInv'
  <2> DEFINE a == [pc |-> "done", err |-> FALSE, moves |-> cache[k].moves,
                   for |-> cache[k].for, age |-> now - cache[k].put]
  <2>1. CacheOn(dep) /\ k \in DOMAIN cache /\ cache[k].key = cacheKey(g, dec[g].kids[i])
    BY <1>3 DEF Find
  <2>2. PICK by : /\ cache[k].for = <<dec[g].kids[i].id, dec[g].facts, dec[g].sig, Keys(plan[g].moves), by>>
                  /\ TTL(dep) > 0 => now - cache[k].put < TTL(dep)
    BY <1>2, <1>3, <2>1, HitIsTold
  <2>0. dep.planner.planner # "byok"
    BY <2>1 DEF CacheOn
  <2>3. DOMAIN a = AnswerFields /\ a.for = cache[k].for /\ a.age = now - cache[k].put
    BY DEF AnswerFields
  <2>4. dec' = [dec EXCEPT ![g] = [dec[g] EXCEPT !.out = [dec[g].out EXCEPT ![i] = a]]]
    BY <1>3
  <2>5. AllKept(dep, now, cache')
    <3>1. Kept(dep, now, cache[k])
      BY <1>1, <2>1 DEF AllKept
    <3>2. AllKept(dep, now, Without(cache, at))
      BY <1>1, ListsKeep
    <3> HIDE DEF at
    <3> QED
      BY <1>3, <3>1, <3>2, ListsKeep
  <2> HIDE DEF a, at
  <2>6. \A h \in Goals : Told(dep', dec'[h], plan'[h].moves)
    <3>1. dep.planner.planner = "byok" => by = dec[g].who
      BY <2>0
    <3>2. /\ a.for = <<dec[g].kids[i].id, dec[g].facts, dec[g].sig, Keys(plan[g].moves), by>>
          /\ TTL(dep) > 0 => a.age < TTL(dep)
      BY <2>2, <2>3
    <3>3. dep' = dep /\ plan' = plan
      BY DEF Lookup
    <3> QED
      BY <2>3, <2>4, <3>1, <3>2, <3>3, ChildStepIsTold
  <2> QED
    BY <2>5, <2>6 DEF Lookup, ToldInv
<1>4. ASSUME cache' = Without(cache, at), dec' = [dec EXCEPT ![g].out[i].pc = "asked"]
      PROVE  ToldInv'
  <2> DEFINE a == [dec[g].out[i] EXCEPT !.pc = "asked"]
  <2>1. DOMAIN a = AnswerFields /\ a.pc = "asked"
    BY <1>2 DEF AnswerFields
  <2>2. dec' = [dec EXCEPT ![g] = [dec[g] EXCEPT !.out = [dec[g].out EXCEPT ![i] = a]]]
    BY <1>4
  <2>3. AllKept(dep, now, cache')
    <3> HIDE DEF at
    <3> QED
      BY <1>1, <1>4, ListsKeep
  <2> HIDE DEF a, at
  <2>4. \A h \in Goals : Told(dep', dec'[h], plan'[h].moves)
    <3>1. a.pc # "done"
      BY <2>1
    <3> QED
      BY <2>1, <2>2, <3>1, ChildStepIsTold DEF Lookup
  <2> QED
    BY <2>3, <2>4 DEF Lookup, ToldInv
<1> QED
  BY <1>3, <1>4 DEF Lookup

\* What the model answers is an answer to the request, and is filed as one.
LEMMA AnswerIsTold ==
  ASSUME SoundInv, ToldInv, NEW g \in Goals, NEW i \in DOMAIN dec[g].out, Answer(g, i)
  PROVE  ToldInv'
<1> DEFINE c == dec[g].kids[i]
           entry(r) == [key |-> cacheKey(g, c), moves |-> r.moves, for |-> Request(g, c), put |-> now,
                        exp |-> IF TTL(dep) > 0 THEN now + TTL(dep) ELSE 0]
           a(r) == [pc |-> "done", err |-> r.err, moves |-> r.moves, for |-> Request(g, c), age |-> 0]
<1>1. PICK r : /\ dec' = [dec EXCEPT ![g].out[i] = a(r)]
               /\ IF r.err \/ ~CacheOn(dep) THEN UNCHANGED cache ELSE Put(entry(r))
  BY DEF Answer
<1>2. Told(dep, dec[g], plan[g].moves) /\ AllKept(dep, now, cache) /\ now \in Nat /\ TTL(dep) \in Nat
  BY TTLIsNat DEF ToldInv, SoundInv
<1>3. /\ DOMAIN a(r) = AnswerFields
      /\ a(r).for = <<c.id, dec[g].facts, dec[g].sig, Keys(plan[g].moves), dec[g].who>>
      /\ TTL(dep) > 0 => a(r).age < TTL(dep)
  BY <1>2 DEF AnswerFields, Request
<1>4. dec' = [dec EXCEPT ![g] = [dec[g] EXCEPT !.out = [dec[g].out EXCEPT ![i] = a(r)]]]
  BY <1>1
<1>5. AllKept(dep, now, cache')
  <2>1. CASE r.err \/ ~CacheOn(dep)
    BY <1>1, <1>2, <2>1
  <2>2. CASE ~(r.err \/ ~CacheOn(dep))
    <3> DEFINE e == entry(r)
    <3>1. PICK n \in DOMAIN Children(dep) : c = Children(dep)[n]
      BY <1>2 DEF Told
    <3>3. /\ e.key = cacheKey(g, c) /\ e.for = Request(g, c) /\ e.put = now
          /\ e.exp = IF TTL(dep) > 0 THEN now + TTL(dep) ELSE 0
      OBVIOUS
    <3> HIDE DEF e, c
    <3>4. /\ e.key = <<c.name, c.prompt, e.key[3], Note(dec[g].sig), dec[g].sig.payload, e.key[6]>>
          /\ e.for = <<c.id, e.key[3], dec[g].sig, e.key[6], dec[g].who>>
      BY <3>3 DEF cacheKey, Request
    <3>5. Kept(dep, now, e)
      BY <1>2, <3>1, <3>3, <3>4 DEF Kept, Told
    <3>6. Put(e)
      BY <1>1, <2>2 DEF e
    <3> QED
      BY <1>2, <3>5, <3>6, PutKeeps
  <2> QED
    BY <2>1, <2>2
<1> HIDE DEF a, entry
<1>6. \A h \in Goals : Told(dep', dec'[h], plan'[h].moves)
  <2>1. i \in DOMAIN dec[g].out /\ dep' = dep /\ plan' = plan
    BY DEF Answer
  <2> QED
    BY <1>3, <1>4, <2>1, ChildStepIsTold DEF c
<1> QED
  BY <1>5, <1>6 DEF Answer, ToldInv

\* A decision begins with no answer.
LEMMA BeginIsTold ==
  ASSUME SoundInv, ToldInv, NEW g \in Goals, Begin(g)
  PROVE  ToldInv'
<1>1. PICK sig \in Triggers(g), who \in Credentials,
           e \in Enriched(Sources(dep), lastGood[g], world), regime \in Classified :
        dec' = [dec EXCEPT ![g] = Begun(sig, who, Contributions(e), regime)]
  BY DEF Begin
<1> DEFINE r == Begun(sig, who, Contributions(e), regime)
           kids == Eligible(regime)
<1>2. /\ r.kids = kids /\ r.out = [i \in DOMAIN kids |-> Waiting] /\ r.sig = sig /\ r.who = who
  BY DEF Begun, Idle
<1>3. dec' = [dec EXCEPT ![g] = r]
  BY <1>1
<1> HIDE DEF r
<1>4. sig \in Signals \cup {NoSignal}
  BY DEF Triggers
<1>5. \A i \in DOMAIN kids : \E j \in DOMAIN Children(dep) : kids[i] = Children(dep)[j]
  BY ChildrenAreTold, EligibleAreChildren DEF SoundInv
<1> HIDE DEF kids
<1>6. \A ms : \A i \in DOMAIN r.out : ToldAt(dep, r, ms, i)
  <2>1. DOMAIN Waiting = AnswerFields /\ Waiting.pc = "new"
    BY DEF Waiting, AnswerFields
  <2> QED
    BY <1>2, <2>1 DEF ToldAt
<1>7. Told(dep, r, plan'[g].moves)
  BY <1>2, <1>4, <1>5, <1>6 DEF Told
<1>8. \A h \in Goals : Told(dep, dec[h], plan[h].moves)
  BY DEF ToldInv
<1>9. \A h \in Goals : Told(dep', dec'[h], plan'[h].moves)
  BY <1>3, <1>7, <1>8, ToldStep DEF Begin
<1> QED
  BY <1>9 DEF Begin, ToldInv

\* The choice leaves the answers it was made from.
LEMMA ChooseIsTold ==
  ASSUME SoundInv, ToldInv, NEW g \in Goals, Choose(g)
  PROVE  ToldInv'
<1>1. PICK w, ms, c : dec' = [dec EXCEPT ![g] = Chosen(dec[g], w, ms, c)]
  BY ChoiceIs
<1> DEFINE r == Chosen(dec[g], w, ms, c)
<1>3. Sound(dep, dec[g]) /\ Told(dep, dec[g], plan[g].moves)
  BY DEF SoundInv, ToldInv
<1>4. dec' = [dec EXCEPT ![g] = r]
  BY <1>1
<1>5. /\ r.kids = dec[g].kids /\ r.out = dec[g].out /\ r.sig = dec[g].sig /\ r.who = dec[g].who
      /\ r.facts = dec[g].facts
  BY <1>3, ChosenFacts DEF Sound
<1> HIDE DEF r
<1>6. Told(dep, r, plan[g].moves)
  BY <1>3, <1>5 DEF Told, ToldAt
<1>7. \A h \in Goals : Told(dep, dec[h], plan[h].moves)
  BY DEF ToldInv
<1>8. \A h \in Goals : Told(dep', dec'[h], plan'[h].moves)
  BY <1>4, <1>6, <1>7, ToldStep DEF Choose
<1> QED
  BY <1>8 DEF Choose, ToldInv

\* So does a review.
LEMMA ReviewIsTold ==
  ASSUME SoundInv, ToldInv, NEW g \in Goals, Review(g)
  PROVE  ToldInv'
<1>1. PICK a : dec' = [dec EXCEPT ![g].adjusted = a]
  BY DEF Review
<1> DEFINE r == [dec[g] EXCEPT !.adjusted = a]
<1>2. Sound(dep, dec[g]) /\ Told(dep, dec[g], plan[g].moves)
  BY DEF SoundInv, ToldInv
<1>3. dec' = [dec EXCEPT ![g] = r]
  BY <1>1
<1>4. /\ r.kids = dec[g].kids /\ r.out = dec[g].out /\ r.sig = dec[g].sig /\ r.who = dec[g].who
      /\ r.facts = dec[g].facts
  BY <1>2 DEF Sound, Fields
<1> HIDE DEF r
<1>5. Told(dep, r, plan[g].moves)
  BY <1>2, <1>4 DEF Told, ToldAt
<1>6. \A h \in Goals : Told(dep, dec[h], plan[h].moves)
  BY DEF ToldInv
<1>7. \A h \in Goals : Told(dep', dec'[h], plan'[h].moves)
  BY <1>3, <1>5, <1>6, ToldStep DEF Review
<1> QED
  BY <1>7 DEF Review, ToldInv

\* A decision that ends leaves the other goals' plans alone.
LEMMA EndIsTold ==
  ASSUME SoundInv, ToldInv, NEW g \in Goals, Fail(g) \/ Commit(g)
  PROVE  ToldInv'
<1>1. /\ dec' = [dec EXCEPT ![g] = Idle] /\ dep' = dep /\ now' = now /\ cache' = cache
      /\ DOMAIN plan' = Goals /\ \A h \in Goals : h # g => plan'[h] = plan[h]
  BY DEF Fail, Commit, ToldInv
<1>2. \A h \in Goals : Told(dep, dec[h], plan[h].moves)
  BY DEF ToldInv
<1>3. Told(dep, Idle, plan'[g].moves)
  BY IdleIsTold
<1>4. \A h \in Goals : Told(dep', dec'[h], plan'[h].moves)
  BY <1>1, <1>2, <1>3, ToldStep
<1> QED
  BY <1>1, <1>4 DEF ToldInv

\* Time and the world leave entries and answers what they are.
LEMMA ClockIsTold ==
  ASSUME ToldInv, Tick \/ WorldChanges
  PROVE  ToldInv'
<1>1. /\ dep' = dep /\ cache' = cache /\ plan' = plan /\ dec' = dec
      /\ now' \in Nat /\ now <= now'
  BY DEF Tick, WorldChanges, ToldInv
<1>2. AllKept(dep, now', cache)
  BY <1>1 DEF ToldInv, AllKept, Kept
<1> QED
  BY <1>1, <1>2 DEF ToldInv

\* Every answer a decision compares was planned for its own strategy, context, signal and
\* current moves, was stored less than a TTL before it was served and, where byok is the
\* planner, was made with the caller's own key, whatever goals and strategies share the cache.
THEOREM AnswersAreForThisDecision == Spec => []AnswersThisDecision
<1>1. Init => ToldInv
  <2> SUFFICES ASSUME Init PROVE ToldInv
    OBVIOUS
  <2>1. /\ now \in Nat /\ cache = <<>> /\ DOMAIN plan = Goals
        /\ \A g \in Goals : dec[g] = Idle
    BY DEF Init
  <2>2. AllKept(dep, now, cache)
    BY <2>1 DEF AllKept, IsList
  <2> QED
    BY <2>1, <2>2, IdleIsTold DEF ToldInv
<1>2. SoundInv /\ ToldInv /\ [Next]_vars => ToldInv'
  <2> SUFFICES ASSUME SoundInv, ToldInv, [Next]_vars PROVE ToldInv'
    OBVIOUS
  <2>1. CASE UNCHANGED vars
    BY <2>1 DEF vars, ToldInv
  <2>2. ASSUME NEW g \in Goals, Begin(g) PROVE ToldInv'
    BY <2>2, BeginIsTold
  <2>3. ASSUME NEW g \in Goals, Fail(g) \/ Commit(g) PROVE ToldInv'
    BY <2>3, EndIsTold
  <2>4. ASSUME NEW g \in Goals, Choose(g) PROVE ToldInv'
    BY <2>4, ChooseIsTold
  <2>5. ASSUME NEW g \in Goals, NEW i \in DOMAIN dec[g].out, Lookup(g, i) PROVE ToldInv'
    BY <2>5, LookupIsTold
  <2>6. ASSUME NEW g \in Goals, NEW i \in DOMAIN dec[g].out, Answer(g, i) PROVE ToldInv'
    BY <2>6, AnswerIsTold
  <2>7. CASE Tick \/ WorldChanges
    BY <2>7, ClockIsTold
  <2>8. ASSUME NEW g \in Goals, Review(g) PROVE ToldInv'
    BY <2>8, ReviewIsTold
  <2> QED
    BY <2>1, <2>2, <2>3, <2>4, <2>5, <2>6, <2>7, <2>8 DEF Next
<1>3. ToldInv => AnswersThisDecision
  <2> SUFFICES ASSUME ToldInv, NEW g \in Goals, NEW i \in DOMAIN dec[g].out, dec[g].out[i].pc = "done"
               PROVE  /\ \A n \in 1..4 : dec[g].out[i].for[n] = Request(g, dec[g].kids[i])[n]
                      /\ dep.planner.planner = "byok" => dec[g].out[i].for = Request(g, dec[g].kids[i])
                      /\ TTL(dep) > 0 => dec[g].out[i].age < TTL(dep)
    BY DEF AnswersThisDecision
  <2> DEFINE c == dec[g].kids[i]
             f == dec[g].out[i].for
  <2>1. ToldAt(dep, dec[g], plan[g].moves, i)
    BY DEF ToldInv, Told
  <2>2. PICK who : /\ f = <<c.id, dec[g].facts, dec[g].sig, Keys(plan[g].moves), who>>
                   /\ dep.planner.planner = "byok" => who = dec[g].who
    BY <2>1 DEF ToldAt
  <2>3. Request(g, c) = <<c.id, dec[g].facts, dec[g].sig, Keys(plan[g].moves), dec[g].who>>
    BY DEF Request
  <2>4. TTL(dep) > 0 => dec[g].out[i].age < TTL(dep)
    BY <2>1 DEF ToldAt
  <2> HIDE DEF f, c
  <2>5. /\ f[1] = Request(g, c)[1] /\ f[2] = Request(g, c)[2]
        /\ f[3] = Request(g, c)[3] /\ f[4] = Request(g, c)[4]
    BY <2>2, <2>3
  <2>6. \A n \in 1..4 : f[n] = Request(g, c)[n]
    <3>1. \A n \in 1..4 : n = 1 \/ n = 2 \/ n = 3 \/ n = 4
      OBVIOUS
    <3> QED
      BY <2>5, <3>1, Zenon
  <2>7. dep.planner.planner = "byok" => f = Request(g, c)
    BY <2>2, <2>3
  <2> QED
    BY <2>4, <2>6, <2>7 DEF f, c
<1> QED
  BY <1>1, <1>2, <1>3, SoundAlways, PTL DEF Spec

-----------------------------------------------------------------------------
(* The arithmetic of a selection: what Utility, the weights and pick give. *)

\* A set with 0, and the successor of each of its numbers, has every number.
LEMMA EveryNumber ==
  ASSUME NEW S, 0 \in S, \A n \in Nat : n \in S => n + 1 \in S
  PROVE  \A n \in Nat : n \in S
<1> SUFFICES ASSUME NEW n \in Nat, n \notin S PROVE FALSE
  OBVIOUS
<1> DEFINE T == {k \in Nat : k \notin S}
<1>1. n \in T
  OBVIOUS
<1>2. PICK k \in T : \A j \in T : ~(<<j, k>> \in OpToRel(<, Nat))
  BY <1>1, WFMin, NatLessThanWellFounded
<1>3. \A j \in T : ~(j < k)
  BY <1>2 DEF OpToRel
<1>4. k - 1 \in Nat /\ k - 1 < k /\ (k - 1) + 1 = k
  <2>1. k \in Nat /\ k # 0
    OBVIOUS
  <2> QED
    BY <2>1
<1>5. k - 1 \in S
  BY <1>3, <1>4
<1>6. (k - 1) + 1 \in S
  BY <1>4, <1>5
<1>7. k \in S
  BY <1>4, <1>6, Zenon
<1> QED
  BY <1>2, <1>7

\* Rounding to the nearest gives an integer.
LEMMA RoundedIsInt == \A n \in Int, d \in Nat \ {0} : Rounded(n, d) \in Int
<1> SUFFICES ASSUME NEW n \in Int, NEW d \in Nat \ {0} PROVE Rounded(n, d) \in Int
  OBVIOUS
<1>1. (2 * n + d) \div (2 * d) \in Int /\ (d - 2 * n) \div (2 * d) \in Int
  OBVIOUS
<1> QED
  BY <1>1 DEF Rounded

\* A move as mapMoves leaves it, and plans of such moves.
Levels == {"low", "medium", "high"}
MappedMove ==
  [key : STRING, conf : Int, raw : Int, impact : Levels, effort : Levels, risk : Levels,
   deps : SUBSET STRING]
Plans == Seq(MappedMove)

\* The value of a move is a number of thousandths.
LEMMA MoveValueIsInt == \A goal, m : m.conf \in Int => MoveValue(goal, m) \in Int
<1> SUFFICES ASSUME NEW goal, NEW m, m.conf \in Int PROVE MoveValue(goal, m) \in Int
  OBVIOUS
<1>1. \A l : levelScore(l) \in Int
  BY DEF levelScore
<1>2. riskAversion(goal) \in Int
  BY DEF riskAversion
<1>3. \A a, b \in Int : a * b \in Int /\ a - b \in Int
  OBVIOUS
<1>4. /\ m.conf * levelScore(m.impact) \in Int
      /\ 10 * riskAversion(goal) * levelScore(m.risk) \in Int
      /\ 25 * levelScore(m.effort) \in Int
  BY <1>1, <1>2, <1>3
<1> QED
  BY <1>3, <1>4 DEF MoveValue

\* What Utility's loop adds up after k moves.
Sums == [sum : Int, weights : Nat, g : Nat \ {0}]
NextSums(goal, ms, b, k) ==
  [sum |-> 10 * b.sum + b.g * MoveValue(goal, ms[k]), weights |-> 10 * b.weights + b.g, g |-> 7 * b.g]

\* A step of the loop adds a positive weight.
LEMMA NextSumsAre ==
  ASSUME NEW goal, NEW ms \in Plans, NEW k \in 1..Len(ms), NEW b \in Sums
  PROVE  NextSums(goal, ms, b, k) \in Sums /\ NextSums(goal, ms, b, k).weights > 0
<1>1. MoveValue(goal, ms[k]) \in Int
  <2>1. ms[k] \in MappedMove
    BY DEF Plans
  <2>2. ms[k].conf \in Int
    BY <2>1 DEF MappedMove
  <2> QED
    BY <2>2, MoveValueIsInt
<1>2. b.sum \in Int /\ b.weights \in Nat /\ b.g \in Nat \ {0}
  BY DEF Sums
<1>3. b.g * MoveValue(goal, ms[k]) \in Int
  BY <1>1, <1>2
<1>4. 10 * b.sum + b.g * MoveValue(goal, ms[k]) \in Int
  BY <1>2, <1>3
<1>5. 10 * b.weights + b.g \in Nat /\ 10 * b.weights + b.g > 0 /\ 7 * b.g \in Nat \ {0}
  BY <1>2
<1> DEFINE r == NextSums(goal, ms, b, k)
<1>6. r = [sum |-> 10 * b.sum + b.g * MoveValue(goal, ms[k]), weights |-> 10 * b.weights + b.g, g |-> 7 * b.g]
  BY DEF NextSums
<1> HIDE DEF r
<1> DEFINE p == b.g * MoveValue(goal, ms[k])
<1>8. r = [sum |-> 10 * b.sum + p, weights |-> 10 * b.weights + b.g, g |-> 7 * b.g]
  BY <1>6
<1>9. 10 * b.sum + p \in Int
  BY <1>4
<1> HIDE DEF p
<1>7. r \in Sums /\ r.weights > 0
  BY <1>5, <1>8, <1>9 DEF Sums
<1> QED
  BY <1>7 DEF r

\* The loop has a result, made of numbers, with a positive sum of weights after a move.
LEMMA BlendedIsSums ==
  ASSUME NEW goal, NEW ms \in Plans
  PROVE  Blended(goal, ms) \in Sums /\ (ms # <<>> => Blended(goal, ms).weights > 0)
<1> DEFINE n == Len(ms)
           zero == [sum |-> 0, weights |-> 0, g |-> 1]
           step(f) == [k \in 0..n |-> IF k = 0 THEN zero ELSE NextSums(goal, ms, f[k - 1], k)]
           runs(m) == {f \in [0..m -> Sums] :
                         /\ f[0] = zero
                         /\ \A k \in 1..m : f[k] = NextSums(goal, ms, f[k - 1], k)}
           S == {m \in Nat : m <= n => runs(m) # {}}
           after == CHOOSE f : f = step(f)
<1>1. n \in Nat /\ DOMAIN ms = 1..n
  BY DEF Plans
<1>2. zero \in Sums
  BY DEF Sums
<1>3. 0 \in S
  <2> DEFINE f == [k \in 0..0 |-> zero]
  <2>1. f \in [0..0 -> Sums] /\ f[0] = zero
    BY <1>2
  <2>2. 1..0 = {}
    OBVIOUS
  <2> HIDE DEF f, zero
  <2>3. f \in runs(0)
    BY <2>1, <2>2
  <2> QED
    BY <2>3
<1>4. ASSUME NEW m \in Nat, m \in S PROVE m + 1 \in S
  <2> SUFFICES ASSUME m + 1 <= n PROVE runs(m + 1) # {}
    OBVIOUS
  <2>1. m <= n
    BY <1>1
  <2>2. PICK f : f \in runs(m)
    BY <1>4, <2>1
  <2> DEFINE last == NextSums(goal, ms, f[m], m + 1)
             h == [k \in 0..(m + 1) |-> IF k = m + 1 THEN last ELSE f[k]]
  <2>3. f \in [0..m -> Sums] /\ f[0] = zero /\ \A k \in 1..m : f[k] = NextSums(goal, ms, f[k - 1], k)
    BY <2>2
  <2>4. f[m] \in Sums /\ m + 1 \in 1..n
    BY <2>3, <1>1
  <2>5. last \in Sums
    BY <2>4, NextSumsAre
  <2> HIDE DEF last, zero
  <2>6. h \in [0..(m + 1) -> Sums]
    BY <2>3, <2>5
  <2>7. h[0] = zero
    BY <2>3
  <2>8. ASSUME NEW k \in 1..(m + 1) PROVE h[k] = NextSums(goal, ms, h[k - 1], k)
    <3>1. CASE k = m + 1
      <4>1. h[k - 1] = f[m] /\ h[k] = last
        BY <3>1
      <4> QED
        BY <4>1, <3>1 DEF last
    <3>2. CASE k # m + 1
      <4>1. k \in 1..m /\ h[k - 1] = f[k - 1] /\ h[k] = f[k]
        BY <3>2
      <4> QED
        BY <4>1, <2>3
    <3> QED
      BY <3>1, <3>2
  <2> HIDE DEF h
  <2>9. h \in runs(m + 1)
    BY <2>6, <2>7, <2>8
  <2> QED
    BY <2>9
<1>5. n \in S
  <2> HIDE DEF S
  <2> QED
    BY <1>1, <1>3, <1>4, EveryNumber
<1>6. PICK f : f \in runs(n)
  BY <1>5, <1>1
<1>7. f = step(f)
  <2>1. f \in [0..n -> Sums] /\ f[0] = zero /\ \A k \in 1..n : f[k] = NextSums(goal, ms, f[k - 1], k)
    BY <1>6
  <2>2. \A k \in 0..n : k = 0 \/ k \in 1..n
    BY <1>1
  <2> HIDE DEF zero
  <2>3. \A k \in 0..n : f[k] = step(f)[k]
    BY <2>1, <2>2
  <2> QED
    BY <2>1, <2>3
<1>8. after = step(after)
  <2> HIDE DEF step
  <2> QED
    BY <1>7
<1> DEFINE R == {k \in Nat : k <= n => after[k] \in Sums /\ (k > 0 => after[k].weights > 0)}
<1>9. n \in R
  <2> HIDE DEF after, zero
  <2>1. after[0] = zero /\ \A k \in 1..n : after[k] = NextSums(goal, ms, after[k - 1], k)
    BY <1>1, <1>8
  <2>2. 0 \in R
    BY <2>1, <1>2
  <2>3. ASSUME NEW k \in Nat, k \in R PROVE k + 1 \in R
    <3> SUFFICES ASSUME k + 1 <= n
                 PROVE  after[k + 1] \in Sums /\ after[k + 1].weights > 0
      OBVIOUS
    <3>1. after[k] \in Sums /\ k + 1 \in 1..n /\ (k + 1) - 1 = k
      BY <2>3, <1>1
    <3>2. after[k + 1] = NextSums(goal, ms, after[k], k + 1)
      BY <3>1, <2>1
    <3> QED
      BY <3>1, <3>2, NextSumsAre
  <2> HIDE DEF R
  <2> QED
    BY <1>1, <2>2, <2>3, EveryNumber
<1>10. Blended(goal, ms) = after[n]
  BY DEF Blended, NextSums
<1>11. ms # <<>> => n > 0
  BY <1>1 DEF Plans
<1> HIDE DEF after
<1> QED
  BY <1>1, <1>9, <1>10, <1>11

\* Utility is a number, whatever the goal and the moves.
LEMMA UtilityIsInt == \A goal, ms : ms \in Plans => Utility(goal, ms) \in Int
<1> SUFFICES ASSUME NEW goal, NEW ms \in Plans PROVE Utility(goal, ms) \in Int
  OBVIOUS
<1>1. CASE ms = <<>>
  BY <1>1 DEF Utility
<1>2. CASE ms # <<>>
  <2>1. Blended(goal, ms).sum \in Int /\ Blended(goal, ms).weights \in Nat \ {0}
    BY <1>2, BlendedIsSums DEF Sums
  <2>2. 10 * Blended(goal, ms).sum \in Int
    BY <2>1
  <2> QED
    BY <2>1, <2>2, <1>2, RoundedIsInt DEF Utility
<1> QED
  BY <1>1, <1>2

\* A weight above 0 leaves a utility a number (PolicyValid refuses others).
LEMMA WeightedIsInt ==
  ASSUME NEW d \in Deployments, Starts(d), NEW u \in Int, NEW regime, NEW id
  PROVE  applyWeight(u, weightFor(d.weights, regime, id)) \in Int
<1> DEFINE w == weightFor(d.weights, regime, id)
<1>1. \A k \in DOMAIN d.weights : d.weights[k] \in Int
  BY PlanningAssumption
<1>2. w \in Nat \ {0}
  <2>1. \/ w = 100
        \/ \E k \in DOMAIN d.weights : w = d.weights[k] /\ d.weights[k] > 0
    <3> DEFINE has(label) == <<id, label>> \in DOMAIN d.weights /\ d.weights[<<id, label>>] > 0
    <3>1. w = CASE regime # NoLabel /\ has(regime) -> d.weights[<<id, regime>>]
                [] has(NoLabel) -> d.weights[<<id, NoLabel>>]
                [] OTHER -> 100
      BY DEF weightFor
    <3> HIDE DEF w
    <3> QED
      BY <3>1
  <2> HIDE DEF w
  <2> QED
    BY <1>1, <2>1
<1> HIDE DEF w
<1>3. u * 100 \in Int /\ u * w \in Int
  BY <1>2
<1>4. Rounded(u * 100, w) \in Int /\ Rounded(u * w, 100) \in Int
  BY <1>2, <1>3, RoundedIsInt
<1>5. applyWeight(u, w) \in Int
  BY <1>4 DEF applyWeight
<1> QED
  BY <1>5 DEF w

\* Scores that can be compared: a failed candidate is filtered.
Comparable(s) ==
  /\ IsList(s)
  /\ \A i \in DOMAIN s : /\ s[i].weighted \in Int /\ s[i].raw \in Int
                         /\ s[i].err => s[i].filtered

\* A candidate that no other one of a pool beats, the first of its equals.
Best(s, pool, i) ==
  \A j \in pool \ {i} : better(s[i], s[j]) \/ (i < j /\ ~better(s[j], s[i]))

\* A pool of candidates has a best one, and its weighted utility is the highest: pick.
LEMMA BestExists ==
  ASSUME NEW s, Comparable(s)
  PROVE  \A pool \in SUBSET DOMAIN s : pool # {} => \E i \in pool : Best(s, pool, i)
<1> DEFINE S == {n \in Nat : \A pool \in SUBSET DOMAIN s :
                   pool # {} /\ pool \subseteq 1..n => \E i \in pool : Best(s, pool, i)}
<1>1. \A i \in DOMAIN s : i \in Nat /\ s[i].weighted \in Int /\ s[i].raw \in Int
  BY DEF Comparable, IsList
<1>2. 0 \in S
  OBVIOUS
<1>3. ASSUME NEW n \in Nat, n \in S PROVE n + 1 \in S
  <2> SUFFICES ASSUME NEW pool \in SUBSET DOMAIN s, pool # {}, pool \subseteq 1..(n + 1)
               PROVE  \E i \in pool : Best(s, pool, i)
    OBVIOUS
  <2> DEFINE before == pool \ {n + 1}
  <2>1. before \in SUBSET DOMAIN s /\ before \subseteq 1..n
    OBVIOUS
  <2>2. CASE before = {}
    <3>1. pool = {n + 1}
      BY <2>2
    <3> QED
      BY <3>1 DEF Best
  <2>3. CASE n + 1 \notin pool
    <3>1. before = pool
      BY <2>3
    <3> QED
      BY <1>3, <2>1, <3>1
  <2>4. CASE before # {} /\ n + 1 \in pool
    <3>1. PICK i \in before : Best(s, before, i)
      BY <1>3, <2>1, <2>4
    <3>2. i \in pool /\ i < n + 1 /\ i \in Nat
      BY <1>1, <2>1
    <3>3. CASE better(s[n + 1], s[i])
      <4>1. ASSUME NEW j \in pool \ {n + 1} PROVE better(s[n + 1], s[j])
        <5>1. j = i \/ ~better(s[j], s[i])
          <6>1. CASE j = i
            BY <6>1
          <6>2. CASE j # i
            <7>1. better(s[i], s[j]) \/ ~better(s[j], s[i])
              BY <3>1, <4>1, <6>2 DEF Best
            <7> QED
              BY <7>1, <1>1, <3>2, <4>1 DEF better
          <6> QED
            BY <6>1, <6>2
        <5> QED
          BY <5>1, <3>3, <1>1, <2>4, <3>2, <4>1 DEF better
      <4>2. Best(s, pool, n + 1)
        BY <4>1 DEF Best
      <4> QED
        BY <4>2, <2>4
    <3>4. CASE ~better(s[n + 1], s[i])
      <4>1. Best(s, pool, i)
        BY <3>1, <3>2, <3>4 DEF Best
      <4> QED
        BY <4>1, <3>2
    <3> QED
      BY <3>3, <3>4
  <2> QED
    BY <2>2, <2>3, <2>4
<1> HIDE DEF S
<1>4. \A n \in Nat : n \in S
  BY <1>2, <1>3, EveryNumber
<1>5. Len(s) \in S /\ DOMAIN s = 1..Len(s)
  BY <1>4 DEF Comparable, IsList
<1> QED
  BY <1>5 DEF S

\* pick takes a candidate of the pool that no other one of it outweighs.
LEMMA PickIsBest ==
  ASSUME NEW s, Comparable(s), NEW pool \in SUBSET DOMAIN s, pool # {}
  PROVE  pick(s, pool) \in pool /\ \A j \in pool : s[j].weighted <= s[pick(s, pool)].weighted
<1> DEFINE i == pick(s, pool)
<1>1. i \in pool /\ Best(s, pool, i)
  <2>1. \E k \in pool : Best(s, pool, k)
    BY BestExists
  <2>2. i = CHOOSE k \in pool : Best(s, pool, k)
    BY DEF pick, Best
  <2> HIDE DEF i
  <2> QED
    BY <2>1, <2>2
<1> HIDE DEF i
<1>2. ASSUME NEW j \in pool PROVE s[j].weighted <= s[i].weighted
  <2>1. s[i].weighted \in Int /\ s[j].weighted \in Int
    BY <1>1 DEF Comparable
  <2>2. CASE j = i
    BY <2>1, <2>2
  <2>3. CASE j # i
    <3>1. better(s[i], s[j]) \/ ~better(s[j], s[i])
      BY <1>1, <2>3 DEF Best
    <3> QED
      BY <2>1, <3>1 DEF better
  <2> QED
    BY <2>2, <2>3
<1> QED
  BY <1>1, <1>2 DEF i

\* Candidates have names, each its own (ValidateStrategies).
Named(s) == \A i, j \in DOMAIN s : s[i].id # NoLabel /\ (s[i].id = s[j].id => i = j)

\* What Select picks before it looks at the incumbent.
Pool(s) == IF Admissible(s) # {} THEN Admissible(s) ELSE {i \in DOMAIN s : ~s[i].err}
Leader(s) == pick(s, Pool(s))

\* It has a plan, and is admissible when some candidate is (strategy.Select).
LEMMA LeaderLeads ==
  ASSUME NEW s, Comparable(s), \E i \in DOMAIN s : ~s[i].err
  PROVE  /\ Leader(s) \in DOMAIN s /\ ~s[Leader(s)].err
         /\ Admissible(s) # {} => Leader(s) \in Admissible(s)
         /\ \A j \in Admissible(s) : s[j].weighted <= s[Leader(s)].weighted
<1>1. Pool(s) \in SUBSET DOMAIN s /\ Pool(s) # {} /\ Admissible(s) \subseteq DOMAIN s
  BY DEF Pool, Admissible
<1>2. Leader(s) \in Pool(s) /\ \A j \in Pool(s) : s[j].weighted <= s[Leader(s)].weighted
  BY <1>1, PickIsBest DEF Leader
<1>3. \A j \in Pool(s) : ~s[j].err
  BY DEF Pool, Admissible, Comparable
<1>4. CASE Admissible(s) # {}
  <2>1. Pool(s) = Admissible(s)
    BY <1>4 DEF Pool
  <2> QED
    BY <1>1, <1>2, <1>3, <2>1
<1>5. CASE Admissible(s) = {}
  BY <1>1, <1>2, <1>3, <1>5
<1> QED
  BY <1>4, <1>5

\* Select keeps an admissible incumbent the leader does not clear, and else takes the leader.
LEMMA SelectCases ==
  ASSUME NEW s, Named(s), NEW incumbent, NEW margin
  PROVE  \/ /\ Select(s, incumbent, margin) = Leader(s)
            /\ \A i \in Admissible(s) : incumbent # NoLabel /\ s[i].id = incumbent /\ i # Leader(s)
                 => Clears(s[Leader(s)], s[i], margin)
         \/ /\ Select(s, incumbent, margin) \in Admissible(s)
            /\ s[Select(s, incumbent, margin)].id = incumbent
            /\ Select(s, incumbent, margin) # Leader(s)
            /\ ~Clears(s[Leader(s)], s[Select(s, incumbent, margin)], margin)
<1> DEFINE inc == {i \in Admissible(s) : incumbent # NoLabel /\ s[i].id = incumbent}
           stays == \E i \in inc : i # Leader(s) /\ ~Clears(s[Leader(s)], s[i], margin)
<1>1. Select(s, incumbent, margin) = IF stays THEN CHOOSE i \in inc : TRUE ELSE Leader(s)
  BY DEF Select, Leader, Pool
<1>2. CASE ~stays
  BY <1>1, <1>2
<1>3. CASE stays
  <2>1. PICK i \in inc : i # Leader(s) /\ ~Clears(s[Leader(s)], s[i], margin)
    BY <1>3
  <2>2. \A j \in inc : j = i
    BY <2>1 DEF Named, Admissible
  <2>3. (CHOOSE j \in inc : TRUE) = i
    <3> HIDE DEF inc
    <3> QED
      BY <2>1, <2>2
  <2>4. Select(s, incumbent, margin) = i
    BY <1>1, <1>3, <2>3
  <2> QED
    BY <2>1, <2>4
<1> QED
  BY <1>2, <1>3

\* The winner has a plan and is justified among the admissible candidates, whatever the
\* incumbent and the margin.
LEMMA SelectJustifies ==
  ASSUME NEW s, Comparable(s), Named(s), \E i \in DOMAIN s : ~s[i].err, NEW incumbent, NEW margin \in Int,
         NEW w, w = Select(s, incumbent, margin)
  PROVE  /\ w \in DOMAIN s /\ ~s[w].err
         /\ Admissible(s) # {} => w \in Admissible(s)
         /\ \A j \in Admissible(s) :
              IF s[w].id = incumbent THEN s[j].weighted <= s[w].weighted \/ s[j].weighted <= s[w].weighted + margin
              ELSE IF s[j].id = incumbent THEN s[j].weighted + margin < s[w].weighted
              ELSE s[j].weighted <= s[w].weighted
<1>1. /\ Leader(s) \in DOMAIN s /\ ~s[Leader(s)].err
      /\ Admissible(s) # {} => Leader(s) \in Admissible(s)
      /\ \A j \in Admissible(s) : s[j].weighted <= s[Leader(s)].weighted
  BY LeaderLeads
<1>2. \A j \in Admissible(s) : j \in DOMAIN s /\ s[j].weighted \in Int /\ s[j].id # NoLabel /\ ~s[j].filtered
  BY DEF Admissible, Comparable, Named
<1>3. CASE /\ w = Leader(s)
           /\ \A i \in Admissible(s) : incumbent # NoLabel /\ s[i].id = incumbent /\ i # Leader(s)
                => Clears(s[Leader(s)], s[i], margin)
  <2>1. ASSUME NEW j \in Admissible(s), s[w].id # incumbent, s[j].id = incumbent
        PROVE  s[j].weighted + margin < s[w].weighted
    <3>1. j # Leader(s) /\ incumbent # NoLabel
      BY <1>2, <1>3, <2>1
    <3>2. Clears(s[w], s[j], margin)
      BY <1>3, <2>1, <3>1
    <3>3. s[w].weighted \in Int /\ s[j].weighted \in Int
      BY <1>1, <1>2, <1>3 DEF Comparable
    <3> QED
      BY <3>2, <3>3 DEF Clears
  <2> QED
    BY <1>1, <1>3, <2>1
<1>4. CASE /\ w \in Admissible(s) /\ s[w].id = incumbent /\ w # Leader(s)
           /\ ~Clears(s[Leader(s)], s[w], margin)
  <2>1. ASSUME NEW j \in Admissible(s) PROVE s[j].weighted <= s[w].weighted + margin
    <3>1. s[Leader(s)].weighted \in Int /\ s[w].weighted \in Int /\ s[j].weighted \in Int
      BY <1>1, <1>2, <1>4 DEF Comparable
    <3>2. s[Leader(s)].weighted <= s[w].weighted + margin
      BY <1>4, <3>1 DEF Clears
    <3>3. s[j].weighted <= s[Leader(s)].weighted
      BY <1>1
    <3> QED
      BY <3>1, <3>2, <3>3
  <2>2. ~s[w].err
    BY <1>2, <1>4 DEF Comparable
  <2> QED
    BY <1>2, <1>4, <2>1, <2>2
<1> QED
  BY <1>3, <1>4, SelectCases

\* A winner is stable: as the incumbent of the same candidates it wins again.
LEMMA SelectIsStable ==
  ASSUME NEW s, Comparable(s), Named(s), \E i \in DOMAIN s : ~s[i].err, NEW incumbent, NEW margin \in Int,
         NEW w, w = Select(s, incumbent, margin)
  PROVE  Select(s, s[w].id, margin) = w
<1>0. w \in DOMAIN s
  BY SelectJustifies
<1> DEFINE v == Select(s, s[w].id, margin)
<1>1. CASE v = Leader(s) /\ v # w
  <2>1. /\ w \in Admissible(s) /\ s[w].id = incumbent /\ w # Leader(s)
        /\ ~Clears(s[Leader(s)], s[w], margin)
    BY <1>1, SelectCases
  <2>2. s[w].id # NoLabel
    BY <1>0 DEF Named
  <2>3. \/ \A i \in Admissible(s) : s[w].id # NoLabel /\ s[i].id = s[w].id /\ i # Leader(s)
             => Clears(s[Leader(s)], s[i], margin)
        \/ v # Leader(s)
    BY SelectCases
  <2> QED
    BY <1>1, <2>1, <2>2, <2>3
<1>2. CASE v \in Admissible(s) /\ s[v].id = s[w].id
  BY <1>0, <1>2 DEF Named, Admissible
<1>3. v = Leader(s) \/ (v \in Admissible(s) /\ s[v].id = s[w].id)
  BY SelectCases
<1> QED
  BY <1>1, <1>2, <1>3

-----------------------------------------------------------------------------
(* Candidates and their scores.                                            *)

\* The candidates of a competition: each has a name of its own and moves, and some did not
\* fail.
Field(cs) ==
  /\ IsList(cs) /\ Named(cs)
  /\ \A i \in DOMAIN cs : cs[i].moves \in Plans
  /\ \E i \in DOMAIN cs : ~cs[i].err

ScoresIn(d, regime, cs) == [i \in DOMAIN cs |-> Scored(d.goal, d.weights, regime, cs[i])]

\* A list of scores has the candidates' names and marks, and numbers to compare.
LEMMA FieldIsScored ==
  ASSUME NEW d \in Deployments, Starts(d), NEW regime, NEW cs, Field(cs), NEW s, s = ScoresIn(d, regime, cs)
  PROVE  /\ Comparable(s) /\ Named(s) /\ DOMAIN s = DOMAIN cs
         /\ \E i \in DOMAIN s : ~s[i].err
         /\ \A i \in DOMAIN s : s[i].id = cs[i].id
<1>1. IsList(s) /\ DOMAIN s = DOMAIN cs
  BY DEF Field, IsList, ScoresIn
<1>2. ASSUME NEW i \in DOMAIN cs
      PROVE  /\ s[i].id = cs[i].id /\ s[i].err = cs[i].err
             /\ s[i].weighted \in Int /\ s[i].raw \in Int
             /\ s[i].err => s[i].filtered
  <2> DEFINE c == cs[i]
             u == IF c.err THEN 0 ELSE Utility(d.goal, c.moves)
             w == weightFor(d.weights, regime, c.id)
  <2>1. /\ s[i].id = c.id /\ s[i].err = c.err
        /\ s[i].weighted = applyWeight(u, w) /\ s[i].raw = topRaw(c.moves)
        /\ s[i].filtered = (c.err \/ HardFilter(d.goal, c.moves))
    BY DEF ScoresIn, Scored
  <2>2. c.moves \in Plans
    BY DEF Field
  <2>3. u \in Int
    BY <2>2, UtilityIsInt
  <2> HIDE DEF u, c
  <2>4. applyWeight(u, w) \in Int
    BY <2>3, WeightedIsInt
  <2>5. topRaw(c.moves) \in Int
    <3>1. CASE c.moves = <<>>
      BY <3>1 DEF topRaw
    <3>2. CASE c.moves # <<>>
      <4>1. c.moves[1] \in MappedMove
        BY <2>2, <3>2 DEF Plans
      <4>2. c.moves[1].conf \in Int /\ c.moves[1].raw \in Int
        BY <4>1 DEF MappedMove
      <4> QED
        BY <4>2, <3>2 DEF topRaw
    <3> QED
      BY <3>1, <3>2
  <2> HIDE DEF w
  <2> QED
    BY <2>1, <2>4, <2>5 DEF c
<1>3. Comparable(s) /\ Named(s)
  BY <1>1, <1>2 DEF Comparable, Named, Field
<1>4. \E i \in DOMAIN s : ~s[i].err
  BY <1>1, <1>2 DEF Field
<1> QED
  BY <1>1, <1>2, <1>3, <1>4

\* The margin and the step of a started process are numbers.
LEMMA MarginIsInt ==
  ASSUME NEW d \in Deployments
  PROVE  Margin(d) \in Int /\ PenaltyStep(d) \in Int /\ Delta(d) \in Nat \ {0}
<1>1. d.margin \in Int /\ DeltaOf(d) \in Int
  BY PlanningAssumption
<1>2. PenaltyStep(d) \in Int /\ Delta(d) \in Nat \ {0}
  BY <1>1 DEF PenaltyStep, Delta
<1> QED
  BY <1>1, <1>2 DEF Margin

-----------------------------------------------------------------------------
(* What planners return.                                                   *)

\* A list of moves is a plan.
LEMMA ListIsPlan ==
  ASSUME NEW n \in Nat, NEW f, DOMAIN f = 1..n, f = [k \in 1..n |-> f[k]],
         \A k \in 1..n : f[k] \in MappedMove
  PROVE  f \in Plans
<1>1. f \in [1..n -> MappedMove]
  OBVIOUS
<1> QED
  BY <1>1 DEF Plans

\* A clamped confidence is a number.
LEMMA Clamped == \A c \in Int : clampConfidence(c) \in Int
  BY DEF clampConfidence

\* A move keeps its shape when its confidence is replaced.
LEMMA Reconfident ==
  ASSUME NEW m \in MappedMove, NEW c \in Int
  PROVE  [m EXCEPT !.conf = c] \in MappedMove
<1>1. m = [key |-> m.key, conf |-> m.conf, raw |-> m.raw, impact |-> m.impact, effort |-> m.effort,
           risk |-> m.risk, deps |-> m.deps]
  BY DEF MappedMove
<1>2. /\ m.key \in STRING /\ m.raw \in Int /\ m.impact \in Levels /\ m.effort \in Levels
      /\ m.risk \in Levels /\ m.deps \in SUBSET STRING
  BY DEF MappedMove
<1>3. [m EXCEPT !.conf = c] = [key |-> m.key, conf |-> c, raw |-> m.raw, impact |-> m.impact,
        effort |-> m.effort, risk |-> m.risk, deps |-> m.deps]
  BY <1>1
<1> QED
  BY <1>2, <1>3 DEF MappedMove

\* What the wire sent, as mapMoves takes it over, is a plan.
LEMMA MappedIsPlan == \A ms \in Seq(RankedMove) : mapMoves(ms) \in Plans
<1> SUFFICES ASSUME NEW ms \in Seq(RankedMove) PROVE mapMoves(ms) \in Plans
  OBVIOUS
<1>1. ASSUME NEW k \in DOMAIN ms PROVE mapMoves(ms)[k] \in MappedMove
  <2> DEFINE m == ms[k]
  <2>1. m \in RankedMove
    OBVIOUS
  <2>2. mapMoves(ms)[k] = [m EXCEPT !.conf = clampConfidence(@), !.impact = level(@),
                                    !.effort = level(@), !.risk = level(@)]
    BY DEF mapMoves
  <2> HIDE DEF m
  <2>3. m = [key |-> m.key, conf |-> m.conf, raw |-> m.raw, impact |-> m.impact, effort |-> m.effort,
             risk |-> m.risk, deps |-> m.deps]
    BY <2>1 DEF RankedMove
  <2>4. mapMoves(ms)[k] = [key |-> m.key, conf |-> clampConfidence(m.conf), raw |-> m.raw,
          impact |-> level(m.impact), effort |-> level(m.effort), risk |-> level(m.risk), deps |-> m.deps]
    BY <2>2, <2>3
  <2>5. /\ m.key \in STRING /\ m.conf \in Int /\ m.raw \in Int /\ m.impact \in STRING
        /\ m.effort \in STRING /\ m.risk \in STRING /\ m.deps \in SUBSET STRING
    BY <2>1 DEF RankedMove
  <2>6. \A l : level(l) \in Levels
    BY DEF level, Levels
  <2>7. clampConfidence(m.conf) \in Int
    BY <2>5, Clamped
  <2>8. level(m.impact) \in Levels /\ level(m.effort) \in Levels /\ level(m.risk) \in Levels
    BY <2>5, <2>6
  <2> DEFINE c == clampConfidence(m.conf)
             i == level(m.impact)
             e == level(m.effort)
             r == level(m.risk)
             d == m.deps
  <2>9. c \in Int /\ i \in Levels /\ e \in Levels /\ r \in Levels /\ d \in SUBSET STRING
    BY <2>5, <2>7, <2>8
  <2> HIDE DEF c, i, e, r, d
  <2>10. [key |-> m.key, conf |-> c, raw |-> m.raw, impact |-> i, effort |-> e, risk |-> r, deps |-> d] \in MappedMove
    BY <2>5, <2>9 DEF MappedMove
  <2> QED
    BY <2>4, <2>10 DEF c, i, e, r, d
<1>2. Len(ms) \in Nat /\ DOMAIN ms = 1..Len(ms) /\ DOMAIN mapMoves(ms) = 1..Len(ms)
  BY DEF mapMoves
<1>3. mapMoves(ms) = [k \in 1..Len(ms) |-> mapMoves(ms)[k]]
  BY <1>2 DEF mapMoves
<1> HIDE DEF Plans
<1> QED
  BY <1>1, <1>2, <1>3, ListIsPlan

\* A plan after a verdict is a plan: applyVerdict.
LEMMA JudgedIsPlan == \A ms \in Plans, v \in Verdicts \cup {<<>>} : applyVerdict(ms, v) \in Plans
<1> SUFFICES ASSUME NEW ms \in Plans, NEW v \in Verdicts \cup {<<>>} PROVE applyVerdict(ms, v) \in Plans
  OBVIOUS
<1> DEFINE ks == {k \in DOMAIN ms : ms[k].key \in DOMAIN v => v[ms[k].key] # Drop}
           kept == At(ms, ks)
           new(k) == IF kept[k].key \in DOMAIN v
                     THEN [kept[k] EXCEPT !.conf = clampConfidence(v[kept[k].key])] ELSE kept[k]
<1>1. IsList(ms) /\ \A k \in DOMAIN ms : ms[k] \in MappedMove
  BY DEF Plans, IsList
<1>2. IsList(kept) /\ \A n \in DOMAIN kept : \E k \in ks : kept[n] = ms[k]
  <2>1. ks \subseteq DOMAIN ms
    OBVIOUS
  <2> HIDE DEF ks
  <2> QED
    BY <1>1, <2>1, Selected
<1>3. \A key \in DOMAIN v : v[key] \in Int
  BY PlanningAssumption
<1>4. applyVerdict(ms, v) = [k \in DOMAIN kept |-> new(k)]
  BY DEF applyVerdict
<1>5. ASSUME NEW k \in DOMAIN kept PROVE new(k) \in MappedMove
  <2>1. kept[k] \in MappedMove
    <3>1. ks \subseteq DOMAIN ms
      OBVIOUS
    <3> HIDE DEF kept, ks
    <3> QED
      BY <1>1, <1>2, <3>1
  <2> HIDE DEF kept
  <2>2. CASE kept[k].key \in DOMAIN v
    <3>1. clampConfidence(v[kept[k].key]) \in Int
      BY <1>3, <2>2, Clamped
    <3> QED
      BY <2>1, <2>2, <3>1, Reconfident
  <2>3. CASE kept[k].key \notin DOMAIN v
    BY <2>1, <2>3
  <2> QED
    BY <2>2, <2>3
<1> HIDE DEF kept, new
<1>6. Len(kept) \in Nat /\ DOMAIN kept = 1..Len(kept)
  BY <1>2 DEF IsList
<1> DEFINE f == applyVerdict(ms, v)
<1>7. DOMAIN f = 1..Len(kept) /\ f = [k \in 1..Len(kept) |-> f[k]] /\ \A k \in 1..Len(kept) : f[k] \in MappedMove
  BY <1>4, <1>5, <1>6
<1> HIDE DEF f, Plans
<1>8. f \in Plans
  BY <1>6, <1>7, ListIsPlan
<1> QED
  BY <1>8 DEF f

\* A plan with other confidences is a plan: the selector's haircut.
LEMMA HaircutIsPlan == \A ms \in Plans, penalty \in Int : Haircut(ms, penalty) \in Plans
<1> SUFFICES ASSUME NEW ms \in Plans, NEW penalty \in Int PROVE Haircut(ms, penalty) \in Plans
  OBVIOUS
<1>1. ASSUME NEW k \in DOMAIN ms PROVE Haircut(ms, penalty)[k] \in MappedMove
  <2>0. ms[k] \in MappedMove
    BY DEF Plans
  <2>1. ms[k] \in MappedMove /\ ms[k].conf \in Int
    BY <2>0 DEF MappedMove
  <2>2. clampConfidence(ms[k].conf - penalty) \in Int
    BY <2>1, Clamped
  <2>3. Haircut(ms, penalty)[k] = [ms[k] EXCEPT !.conf = clampConfidence(ms[k].conf - penalty)]
    BY DEF Haircut
  <2> QED
    BY <2>1, <2>2, <2>3, Reconfident
<1>2. Len(ms) \in Nat /\ DOMAIN ms = 1..Len(ms) /\ DOMAIN Haircut(ms, penalty) = 1..Len(ms)
  BY DEF Plans, Haircut
<1>3. Haircut(ms, penalty) = [k \in 1..Len(ms) |-> Haircut(ms, penalty)[k]]
  BY <1>2 DEF Haircut
<1> HIDE DEF Plans
<1> QED
  BY <1>1, <1>2, <1>3, ListIsPlan

\* What the computing planners and the model clients return has moves of a plan.
LEMMA ComputedArePlans ==
  /\ \A r \in Modelled : r.moves \in Plans
  /\ \A r \in Priced : r.moves \in Plans
<1>1. ASSUME NEW ms \in Replies PROVE mapMoves(ms) \in Plans
  <2>1. ms \in Seq(RankedMove)
    BY PlanningAssumption
  <2> QED
    BY <2>1, MappedIsPlan
<1>2. \A r \in Computed : r.moves \in Plans
  BY <1>1 DEF Computed, Plan
<1>3. Failure.moves \in Plans
  BY DEF Failure, Plans
<1>4. ASSUME NEW r \in Computed, NEW p, p = [k \in DOMAIN r.moves |-> [r.moves[k] EXCEPT !.raw = r.moves[k].conf]]
      PROVE  p \in Plans
  <2> DEFINE ms == r.moves
  <2>1. Len(ms) \in Nat /\ DOMAIN ms = 1..Len(ms) /\ \A k \in DOMAIN ms : ms[k] \in MappedMove
    BY <1>2 DEF Plans
  <2> HIDE DEF ms
  <2>2. ASSUME NEW k \in DOMAIN ms PROVE p[k] \in MappedMove
    <3> DEFINE m == ms[k]
    <3>1. m \in MappedMove /\ p[k] = [m EXCEPT !.raw = m.conf]
      BY <1>4, <2>1 DEF ms
    <3> HIDE DEF m
    <3>2. m = [key |-> m.key, conf |-> m.conf, raw |-> m.raw, impact |-> m.impact, effort |-> m.effort,
               risk |-> m.risk, deps |-> m.deps]
      BY <3>1 DEF MappedMove
    <3>3. p[k] = [key |-> m.key, conf |-> m.conf, raw |-> m.conf, impact |-> m.impact, effort |-> m.effort,
               risk |-> m.risk, deps |-> m.deps]
      BY <3>1, <3>2
    <3>4. /\ m.key \in STRING /\ m.conf \in Int /\ m.impact \in Levels
          /\ m.effort \in Levels /\ m.risk \in Levels /\ m.deps \in SUBSET STRING
      BY <3>1 DEF MappedMove
    <3> QED
      BY <3>3, <3>4 DEF MappedMove
  <2>3. DOMAIN p = 1..Len(ms) /\ p = [k \in 1..Len(ms) |-> p[k]]
    BY <1>4, <2>1 DEF ms
  <2> HIDE DEF Plans
  <2> QED
    BY <2>1, <2>2, <2>3, ListIsPlan
<1>5. \A r \in Priced : r.moves \in Plans
  BY <1>4 DEF Priced, Plan
<1> QED
  BY <1>2, <1>3, <1>5 DEF Modelled

\* So has what a provider, the caller's or a configured one, answers.
LEMMA ClientsPlan == \A name, who : \A r \in Client(name, who) : r.moves \in Plans
<1>1. \A who : Byok(who) \subseteq Modelled
  BY DEF Byok, Modelled
<1>2. \A name, who : Client(name, who) \subseteq Modelled
  BY <1>1 DEF Client, Modelled
<1> QED
  BY <1>2, ComputedArePlans

\* A plan whose first move's confidence is replaced is a plan.
LEMMA RefirstIsPlan ==
  ASSUME NEW ms \in Plans, NEW c \in Int
  PROVE  [ms EXCEPT ![1].conf = c] \in Plans
<1> DEFINE f == [ms EXCEPT ![1].conf = c]
<1>1. Len(ms) \in Nat /\ DOMAIN ms = 1..Len(ms) /\ \A k \in DOMAIN ms : ms[k] \in MappedMove
  BY DEF Plans
<1>2. DOMAIN f = 1..Len(ms) /\ f = [k \in 1..Len(ms) |-> f[k]]
  BY <1>1
<1>3. ASSUME NEW k \in 1..Len(ms) PROVE f[k] \in MappedMove
  <2>1. f[k] = IF k = 1 THEN [ms[k] EXCEPT !.conf = c] ELSE ms[k]
    BY <1>1
  <2> HIDE DEF f
  <2> QED
    BY <1>1, <2>1, Reconfident
<1> HIDE DEF f, Plans
<1>4. f \in Plans
  BY <1>1, <1>2, <1>3, ListIsPlan
<1> QED
  BY <1>4 DEF f

\* The members of an ensemble that answered agree on a plan, or none did.
LEMMA AgreedIsPlan ==
  ASSUME NEW rs, IsList(rs), \A i \in DOMAIN rs : rs[i].moves \in Plans
  PROVE  Agreed(At(rs, {i \in DOMAIN rs : ~rs[i].err})).moves \in Plans
<1> DEFINE ks == {i \in DOMAIN rs : ~rs[i].err}
           ok == At(rs, ks)
           same == {i \in DOMAIN ok : ok[i].moves[1].key = ok[1].moves[1].key}
<1>1. IsList(ok) /\ \A n \in DOMAIN ok : ok[n].moves \in Plans
  <2>1. ks \subseteq DOMAIN rs
    OBVIOUS
  <2> HIDE DEF ks
  <2>2. IsList(ok) /\ \A n \in DOMAIN ok : \E k \in ks : ok[n] = rs[k]
    BY <2>1, Selected
  <2> HIDE DEF ok
  <2> QED
    BY <2>1, <2>2
<1> HIDE DEF ok
<1>2. ASSUME ok = <<>> PROVE Agreed(ok).moves \in Plans
  BY <1>2, ComputedArePlans DEF Agreed, Modelled
<1>3. ASSUME ok # <<>> PROVE Agreed(ok).moves \in Plans
  <2>1. Len(ok) \in Nat /\ DOMAIN ok = 1..Len(ok)
    BY <1>1 DEF IsList
  <2>2. 1 \in DOMAIN ok /\ Len(ok) > 0
    <3> DEFINE X == {ok[n] : n \in 1..Len(ok)}
    <3>1. ok = [n \in 1..Len(ok) |-> ok[n]]
      <4>1. ok = [n \in DOMAIN ok |-> ok[n]]
        BY DEF ok, At
      <4> QED
        BY <2>1, <4>1
    <3>2. ok \in Seq(X)
      <4>1. ok \in [1..Len(ok) -> X]
        BY <3>1
      <4> HIDE DEF X
      <4> QED
        BY <2>1, <4>1
    <3> HIDE DEF X
    <3> QED
      BY <2>1, <3>2, <1>3
  <2>3. Cardinality(same) \in Nat
    <3>1. IsFiniteSet(1..Len(ok)) /\ same \in SUBSET (1..Len(ok))
      BY <2>1, FS_Interval
    <3> HIDE DEF same
    <3>2. IsFiniteSet(same)
      BY <3>1, FS_Subset
    <3> QED
      BY <3>2, FS_CardinalityType
  <2>4. ok[1].moves \in Plans
    BY <1>1, <2>2
  <2> DEFINE ms == ok[1].moves
             c == clampConfidence((ms[1].conf * Cardinality(same)) \div Len(ok))
             p == [ms EXCEPT ![1].conf = clampConfidence((@ * Cardinality(same)) \div Len(ok))]
  <2>5. Agreed(ok) = Plan(p)
    BY <1>3 DEF Agreed
  <2>6. CASE ms = <<>>
    <3>1. p = <<>>
      <4> HIDE DEF ms, same
      <4>1. ms = <<>> /\ 1 \notin DOMAIN ms
        BY <2>6
      <4>2. p = [k \in DOMAIN ms |-> ms[k]]
        BY <4>1
      <4> QED
        BY <4>1, <4>2
    <3> HIDE DEF p
    <3> QED
      BY <3>1, <2>5 DEF Plan, Plans
  <2>7. CASE ms # <<>>
    <3>1. ms[1].conf \in Int
      <4> HIDE DEF ms
      <4>1. ms \in Plans
        BY <2>4 DEF ms
      <4>2. ms[1] \in MappedMove
        BY <4>1, <2>7 DEF Plans
      <4> QED
        BY <4>2 DEF MappedMove
    <3> HIDE DEF ms, same
    <3>2. (ms[1].conf * Cardinality(same)) \div Len(ok) \in Int
      <4>1. ms[1].conf * Cardinality(same) \in Int
        BY <2>3, <3>1
      <4> QED
        BY <2>1, <2>2, <4>1
    <3>3. c \in Int
      BY <3>2, Clamped
    <3>4. p = [ms EXCEPT ![1].conf = c]
      OBVIOUS
    <3> HIDE DEF c
    <3>5. p \in Plans
      BY <2>4, <3>3, <3>4, RefirstIsPlan DEF ms
    <3> HIDE DEF p
    <3> QED
      BY <3>5, <2>5 DEF Plan
  <2> QED
    BY <2>6, <2>7
<1>4. Agreed(ok).moves \in Plans
  BY <1>2, <1>3
<1> QED
  BY <1>4 DEF ok

\* Whatever a domain's base planner returns has moves of a plan.
LEMMA AnswersArePlans ==
  \A d \in Deployments : \A who, signalled : \A r \in BaseAnswers(d, who, signalled) : r.moves \in Plans
<1>1. \A p, who : \A r \in Verified(p, who) : r.moves \in Plans
  <2> SUFFICES ASSUME NEW p, NEW who, NEW r \in Verified(p, who) PROVE r.moves \in Plans
    OBVIOUS
  <2>1. CASE r \in Client(p.providers[1], who)
    BY <2>1, ClientsPlan
  <2>2. CASE r \notin Client(p.providers[1], who)
    <3>1. PICK x \in Client(p.providers[1], who), v \in Verdicts : r.moves = applyVerdict(x.moves, v)
      BY <2>2 DEF Verified, Succeed, Plan
    <3>2. x.moves \in Plans
      BY ClientsPlan
    <3> QED
      BY <3>1, <3>2, JudgedIsPlan
  <2> QED
    BY <2>1, <2>2
<1>2. \A p, who, signalled : \A r \in Routed(p, who, signalled) : r.moves \in Plans
  <2>1. \A p, who, signalled :
          Routed(p, who, signalled) \subseteq Client(p.providers[1], who) \cup Client(p.providers[2], who)
    BY DEF Routed, Succeed
  <2> QED
    BY <2>1, ClientsPlan
<1>3. \A p, who : Len(p.providers) \in Nat /\ DOMAIN p.providers = 1..Len(p.providers)
        => \A r \in Ensembled(p, who) : r.moves \in Plans
  <2> SUFFICES ASSUME NEW p, NEW who, NEW r \in Ensembled(p, who),
                      Len(p.providers) \in Nat, DOMAIN p.providers = 1..Len(p.providers)
               PROVE  r.moves \in Plans
    OBVIOUS
  <2>1. PICK rs \in [DOMAIN p.providers -> Modelled] : r = Agreed(At(rs, {i \in DOMAIN rs : ~rs[i].err}))
    BY DEF Ensembled
  <2>2. IsList(rs) /\ \A i \in DOMAIN rs : rs[i].moves \in Plans
    BY ComputedArePlans DEF IsList
  <2> QED
    BY <2>1, <2>2, AgreedIsPlan
<1> SUFFICES ASSUME NEW d \in Deployments, NEW who, NEW signalled, NEW r \in BaseAnswers(d, who, signalled)
             PROVE  r.moves \in Plans
  OBVIOUS
<1> DEFINE p == Base(d)
<1>4. Len(p.providers) \in Nat /\ DOMAIN p.providers = 1..Len(p.providers)
  <2>2. p.providers = PlannerOf(d).providers
    BY DEF Base
  <2>3. PlannerOf(d).providers \in Seq(STRING)
    BY PlanningAssumption
  <2> HIDE DEF p
  <2> QED
    BY <2>2, <2>3
<1> HIDE DEF p
<1>5. \/ r \in Priced \/ r \in Client(p.planner, who) \/ r \in Verified(p, who)
      \/ r \in Routed(p, who, signalled) \/ r \in Ensembled(p, who)
  BY DEF BaseAnswers, p
<1> QED
  BY <1>1, <1>2, <1>3, <1>4, <1>5, ClientsPlan, ComputedArePlans

-----------------------------------------------------------------------------
(* The candidates a decision was made from.                                *)

\* A selection from a list of names has names: different places are different positions.
LEMMA AtNamed ==
  ASSUME NEW s, IsList(s), Named(s), NEW ks, ks \subseteq DOMAIN s
  PROVE  Named(At(s, ks))
<1> DEFINE place(n) == CHOOSE k \in ks : Cardinality({l \in ks : l <= k}) = n
<1>1. DOMAIN At(s, ks) = 1..Cardinality(ks) /\ \A n \in DOMAIN At(s, ks) : At(s, ks)[n] = s[place(n)]
  BY DEF At
<1>2. \A n \in 1..Cardinality(ks) :
        place(n) \in ks /\ Cardinality({l \in ks : l <= place(n)}) = n
  <2> TAKE n \in 1..Cardinality(ks)
  <2>1. Len(s) \in Nat /\ \A k \in ks : k \in Nat /\ 1 <= k /\ k <= Len(s)
    BY DEF IsList
  <2>2. \E k \in ks : Cardinality({l \in ks : l <= k}) = n
    BY <2>1, NthPosition
  <2> QED
    BY <2>2
<1> HIDE DEF place
<1>3. ASSUME NEW n \in DOMAIN At(s, ks), NEW m \in DOMAIN At(s, ks)
      PROVE  At(s, ks)[n].id # NoLabel /\ (At(s, ks)[n].id = At(s, ks)[m].id => n = m)
  <2>1. place(n) \in DOMAIN s /\ place(m) \in DOMAIN s
    BY <1>1, <1>2
  <2>2. s[place(n)].id # NoLabel /\ (s[place(n)].id = s[place(m)].id => place(n) = place(m))
    BY <2>1 DEF Named
  <2>3. place(n) = place(m) => n = m
    <3>1. Cardinality({l \in ks : l <= place(n)}) = n /\ Cardinality({l \in ks : l <= place(m)}) = m
      BY <1>1, <1>2
    <3> QED
      BY <3>1, Zenon
  <2> QED
    BY <1>1, <2>2, <2>3
<1> QED
  BY <1>3 DEF Named

\* The strategies of a competition have names of their own (ValidateStrategies).
LEMMA ChildrenAreNamed ==
  ASSUME NEW d \in Deployments, Starts(d), Selects(d)
  PROVE  Named(Children(d))
<1> DEFINE s == activeStrategies(d)
<1>1. Competes(d)
  <2>1. \A c : Len(<<c>>) = 1
    OBVIOUS
  <2> QED
    BY <2>1 DEF Selects, Children
<1>2. Named(d.strategies) /\ IsList(d.strategies)
  <2>1. ValidStrategies(d.strategies)
    BY <1>1 DEF Competes, Starts, Builds
  <2>2. d.strategies \in Seq([id : STRING, template : STRING, regimes : SUBSET STRING])
    BY PlanningAssumption
  <2>3. Named(d.strategies)
    BY <2>1 DEF ValidStrategies, Named, NoLabel
  <2>4. IsList(d.strategies)
    BY <2>2 DEF IsList
  <2> QED
    BY <2>3, <2>4
<1>3. Named(s)
  <2>1. {k \in DOMAIN d.strategies : d.strategies[k].id \notin d.disabled} \subseteq DOMAIN d.strategies
    OBVIOUS
  <2> QED
    BY <1>2, <2>1, AtNamed DEF activeStrategies
<1>4. Children(d) = [i \in DOMAIN s |-> Child(d, s[i])]
  BY <1>1 DEF Children
<1>5. \A i \in DOMAIN s : Child(d, s[i]).id = s[i].id
  BY DEF Child
<1> HIDE DEF s
<1> QED
  BY <1>3, <1>4, <1>5 DEF Named

\* Gating keeps their names (eligibleChildren).
LEMMA EligibleAreNamed ==
  ASSUME NEW regime, dep \in Deployments, Starts(dep), Selects(dep)
  PROVE  Named(Eligible(regime))
<1> DEFINE kids == Children(dep)
           ks == {k \in DOMAIN kids : regime = NoLabel \/ kids[k].regimes = {} \/ regime \in kids[k].regimes}
<1>1. IsList(kids) /\ Named(kids) /\ ks \subseteq DOMAIN kids
  BY ChildrenAreTold, ChildrenAreNamed
<1>2. Named(At(kids, ks))
  <2> HIDE DEF kids, ks
  <2> QED
    BY <1>1, AtNamed
<1>3. Eligible(regime) = At(kids, ks) \/ Eligible(regime) = kids
  BY DEF Eligible
<1> HIDE DEF kids, ks
<1> QED
  BY <1>1, <1>2, <1>3

\* What was made of the candidates cs: a winner w against an incumbent, and its moves; a
\* single planner's answer stands.
Made(d, regime, cs, incumbent, w, ms) ==
  LET s == ScoresIn(d, regime, cs)
  IN  IF Selects(d)
      THEN /\ Field(cs) /\ w = Select(s, incumbent, Margin(d))
           /\ ms = Haircut(cs[w].moves, DisagreementPenalty(s, s[w].top, PenaltyStep(d)))
      ELSE ms = cs[1].moves /\ cs[1].moves \in Plans

\* The haircut is a number of points.
LEMMA PenaltyIsInt == \A s, top : \A step \in Int : DisagreementPenalty(s, top, step) \in Int
<1> SUFFICES ASSUME NEW s, NEW top, NEW step \in Int PROVE DisagreementPenalty(s, top, step) \in Int
  OBVIOUS
<1>1. \/ DisagreementPenalty(s, top, step) = 0
      \/ DisagreementPenalty(s, top, step) = step
      \/ DisagreementPenalty(s, top, step) = 2 * step
  <2> DEFINE adm == Admissible(s)
             agree == {i \in adm : s[i].top = top}
             none == step <= 0 \/ Cardinality(adm) < 2 \/ agree = adm
             half == 2 * Cardinality(agree) >= Cardinality(adm)
  <2>1. DisagreementPenalty(s, top, step) = CASE none -> 0 [] half -> step [] OTHER -> 2 * step
    BY DEF DisagreementPenalty
  <2> HIDE DEF none, half
  <2> QED
    BY <2>1
<1> QED
  BY <1>1

\* What is made of candidates is a plan, and the same candidates with their winner as the
\* incumbent make it again.
LEMMA MadeAgain ==
  ASSUME NEW d \in Deployments, Starts(d), NEW regime, NEW cs,
         NEW i1, NEW w1, NEW m1, Made(d, regime, cs, i1, w1, m1),
         NEW i2, NEW w2, NEW m2, Made(d, regime, cs, i2, w2, m2),
         Selects(d) => i2 = cs[w1].id
  PROVE  m1 = m2 /\ m1 \in Plans
<1>1. CASE ~Selects(d)
  BY <1>1 DEF Made
<1>2. CASE Selects(d)
  <2> DEFINE s == ScoresIn(d, regime, cs)
  <2>1. /\ Field(cs) /\ w1 = Select(s, i1, Margin(d)) /\ w2 = Select(s, i2, Margin(d))
        /\ m1 = Haircut(cs[w1].moves, DisagreementPenalty(s, s[w1].top, PenaltyStep(d)))
        /\ m2 = Haircut(cs[w2].moves, DisagreementPenalty(s, s[w2].top, PenaltyStep(d)))
    BY <1>2 DEF Made
  <2> HIDE DEF s
  <2>2. /\ Comparable(s) /\ Named(s) /\ DOMAIN s = DOMAIN cs
        /\ \E i \in DOMAIN s : ~s[i].err
        /\ \A i \in DOMAIN s : s[i].id = cs[i].id
    BY <2>1, FieldIsScored DEF s
  <2>3. Margin(d) \in Int /\ PenaltyStep(d) \in Int
    BY MarginIsInt
  <2>4. w1 \in DOMAIN s
    BY <2>1, <2>2, <2>3, SelectJustifies
  <2>5. s[w1].id = i2
    BY <1>2, <2>2, <2>4
  <2>6. w2 = w1
    BY <2>1, <2>2, <2>3, <2>5, SelectIsStable
  <2>7. cs[w1].moves \in Plans
    BY <2>1, <2>2, <2>4 DEF Field
  <2>8. m1 \in Plans
    BY <2>1, <2>3, <2>7, PenaltyIsInt, HaircutIsPlan
  <2> QED
    BY <2>1, <2>6, <2>8
<1> QED
  BY <1>1, <1>2

\* A plan is not material against itself.
LEMMA SameIsImmaterial ==
  ASSUME NEW ms \in Plans, ms # <<>>, NEW delta \in Nat \ {0}
  PROVE  ~IsMaterial(ms, ms, delta)
<1>1. ms[1] \in MappedMove
  BY DEF Plans
<1>2. ms[1].conf \in Int
  BY <1>1 DEF MappedMove
<1> QED
  BY <1>2 DEF IsMaterial

\* A decision's answers have moves; a chosen plan was made of its candidates, against the
\* strategy of the current version.
Deciding(d, r, pl) ==
  /\ IsList(r.kids) /\ (Selects(d) => Named(r.kids))
  /\ IsList(r.out) /\ DOMAIN r.out = DOMAIN r.kids
  /\ \A i \in DOMAIN r.out : DOMAIN r.out[i] = AnswerFields /\ r.out[i].moves \in Plans
  /\ r.pc = "chosen" => Made(d, r.regime, r.cands, pl.strategy, r.winner, r.moves)

\* A version was made of its candidates, and its strategy won.
Versioned(d, pl) ==
  /\ pl.version \in Nat
  /\ pl.version > 0 => \E incumbent, w :
       /\ Made(d, pl.regime, pl.cands, incumbent, w, pl.moves)
       /\ Selects(d) => pl.strategy = pl.cands[w].id

Stored(s) == IsList(s) /\ \A k \in DOMAIN s : s[k].moves \in Plans

MadeInv ==
  /\ DOMAIN plan = Goals /\ Stored(cache)
  /\ \A g \in Goals : Deciding(dep, dec[g], plan[g]) /\ Versioned(dep, plan[g])

\* What the cache's list keeps are answers: removals, a hit to the front, an eviction.
LEMMA StoresKeep ==
  ASSUME NEW s, Stored(s)
  PROVE  /\ \A ks : Stored(Without(s, ks))
         /\ \A e : e.moves \in Plans => Stored(<<e>> \o s)
         /\ Len(s) > 0 => Stored(Front(s))
<1>1. ASSUME NEW ks PROVE Stored(Without(s, ks))
  <2> DEFINE left == DOMAIN s \ ks
  <2>1. left \subseteq DOMAIN s /\ IsList(s) /\ Without(s, ks) = At(s, left)
    BY DEF Stored, Without
  <2> HIDE DEF left
  <2>2. /\ IsList(At(s, left))
        /\ \A n \in DOMAIN At(s, left) : \E k \in left : At(s, left)[n] = s[k]
    BY <2>1, Selected
  <2> QED
    BY <2>1, <2>2 DEF Stored
<1>2. ASSUME NEW e, e.moves \in Plans PROVE Stored(<<e>> \o s)
  <2>1. /\ IsList(<<e>> \o s)
        /\ \A k \in DOMAIN (<<e>> \o s) :
             (<<e>> \o s)[k] = e \/ \E l \in DOMAIN s : (<<e>> \o s)[k] = s[l]
    BY Prepended DEF Stored
  <2> QED
    BY <1>2, <2>1 DEF Stored
<1>3. ASSUME Len(s) > 0 PROVE Stored(Front(s))
  <2>1. IsList(Front(s)) /\ \A k \in DOMAIN Front(s) : \E l \in DOMAIN s : Front(s)[k] = s[l]
    BY <1>3, Fronted DEF Stored
  <2> QED
    BY <2>1 DEF Stored
<1> QED
  BY <1>1, <1>2, <1>3

\* Put stores an answer with moves of a plan.
LEMMA PutStores ==
  ASSUME Stored(cache), NEW e, e.moves \in Plans, Put(e)
  PROVE  Stored(cache')
<1> DEFINE rest == Without(cache, Find(e.key))
<1>1. Stored(rest)
  BY StoresKeep
<1>2. CacheSize \in Nat /\ CacheSize > 0
  BY PlanningAssumption
<1>3. cache' = <<e>> \o (IF Len(rest) < CacheSize THEN rest ELSE Front(rest))
  BY DEF Put
<1> HIDE DEF rest
<1>4. CASE Len(rest) < CacheSize
  BY <1>1, <1>3, <1>4, StoresKeep
<1>5. CASE ~(Len(rest) < CacheSize)
  <2>1. Len(rest) > 0
    BY <1>1, <1>2, <1>5 DEF Stored, IsList
  <2>2. Stored(Front(rest))
    BY <1>1, <2>1, StoresKeep
  <2> QED
    BY <1>3, <1>5, <2>2, StoresKeep
<1> QED
  BY <1>4, <1>5

\* A step that gives one goal a decision made as it should be, and its version likewise,
\* leaves the other goals' as they are.
LEMMA MadeStep ==
  ASSUME SoundInv, MadeInv, NEW g \in Goals, NEW r, dec' = [dec EXCEPT ![g] = r], dep' = dep,
         DOMAIN plan' = Goals, \A h \in Goals : h # g => plan'[h] = plan[h],
         Deciding(dep, r, plan'[g]), Versioned(dep, plan'[g]), Stored(cache')
  PROVE  MadeInv'
<1>1. \A h \in Goals : dec'[h] = IF h = g THEN r ELSE dec[h]
  BY DEF SoundInv
<1>2. \A h \in Goals : Deciding(dep, dec'[h], plan'[h]) /\ Versioned(dep, plan'[h])
  BY <1>1 DEF MadeInv
<1> QED
  BY <1>2 DEF MadeInv

\* A child's answer with moves keeps a decision's answers.
LEMMA ChildStepIsMade ==
  ASSUME SoundInv, MadeInv, NEW g \in Goals, NEW i \in DOMAIN dec[g].out, NEW a,
         DOMAIN a = AnswerFields, a.moves \in Plans, dec[g].pc = "asking",
         dec' = [dec EXCEPT ![g] = [dec[g] EXCEPT !.out = [dec[g].out EXCEPT ![i] = a]]],
         dep' = dep, plan' = plan, Stored(cache')
  PROVE  MadeInv'
<1> DEFINE o == [dec[g].out EXCEPT ![i] = a]
           r == [dec[g] EXCEPT !.out = o]
<1>1. Deciding(dep, dec[g], plan[g]) /\ Versioned(dep, plan[g]) /\ DOMAIN dec[g] = Fields /\ DOMAIN plan = Goals
  BY DEF MadeInv, SoundInv, Sound
<1>2. r.out = o /\ r.kids = dec[g].kids /\ r.pc = "asking"
  BY <1>1 DEF Fields
<1>3. DOMAIN o = DOMAIN dec[g].out /\ \A n \in DOMAIN o : o[n] = IF n = i THEN a ELSE dec[g].out[n]
  OBVIOUS
<1>4. IsList(o)
  <2>1. IsList(dec[g].out)
    BY <1>1 DEF Deciding
  <2> QED
    BY <2>1 DEF IsList
<1>5. dec' = [dec EXCEPT ![g] = r]
  OBVIOUS
<1> HIDE DEF r, o
<1>6. Deciding(dep, r, plan'[g])
  BY <1>1, <1>2, <1>3, <1>4 DEF Deciding
<1>7. Versioned(dep, plan'[g])
  BY <1>1
<1> QED
  BY <1>1, <1>5, <1>6, <1>7, MadeStep

\* A goal without a decision has nothing to be made.
LEMMA IdleIsMade == \A d, pl : Deciding(d, Idle, pl)
<1>1. Idle.out = <<>> /\ Idle.kids = <<>> /\ Idle.pc = "idle"
  BY DEF Idle
<1>2. IsList(<<>>) /\ Named(<<>>) /\ DOMAIN <<>> = {}
  BY DEF IsList, Named
<1> QED
  BY <1>1, <1>2 DEF Deciding

\* A lookup takes its answer from the cache, or asks the model.
LEMMA LookupIsMade ==
  ASSUME SoundInv, MadeInv, NEW g \in Goals, NEW i \in DOMAIN dec[g].out, Lookup(g, i)
  PROVE  MadeInv'
<1> DEFINE at == IF CacheOn(dep) THEN Find(cacheKey(g, dec[g].kids[i])) ELSE {}
<1>1. Deciding(dep, dec[g], plan[g]) /\ Stored(cache)
  BY DEF MadeInv
<1>2. DOMAIN dec[g].out[i] = AnswerFields /\ dec[g].out[i].moves \in Plans /\ dec[g].pc = "asking"
  BY <1>1 DEF Deciding, Lookup
<1>3. ASSUME NEW k \in at,
             cache' = <<cache[k]>> \o Without(cache, at),
             dec' = [dec EXCEPT ![g].out[i] =
                      [pc |-> "done", err |-> FALSE, moves |-> cache[k].moves,
                       for |-> cache[k].for, age |-> now - cache[k].put]]
      PROVE  MadeInv'
  <2> DEFINE a == [pc |-> "done", err |-> FALSE, moves |-> cache[k].moves,
                   for |-> cache[k].for, age |-> now - cache[k].put]
  <2>1. k \in DOMAIN cache
    BY <1>3 DEF Find
  <2>2. cache[k].moves \in Plans
    BY <1>1, <2>1 DEF Stored
  <2>3. DOMAIN a = AnswerFields /\ a.moves = cache[k].moves
    BY DEF AnswerFields
  <2>4. dec' = [dec EXCEPT ![g] = [dec[g] EXCEPT !.out = [dec[g].out EXCEPT ![i] = a]]]
    BY <1>3
  <2>5. Stored(cache')
    <3>1. Stored(Without(cache, at))
      BY <1>1, StoresKeep
    <3> HIDE DEF at
    <3> QED
      BY <1>3, <2>2, <3>1, StoresKeep
  <2> HIDE DEF a, at
  <2> QED
    BY <1>2, <2>2, <2>3, <2>4, <2>5, ChildStepIsMade DEF Lookup
<1>4. ASSUME cache' = Without(cache, at), dec' = [dec EXCEPT ![g].out[i].pc = "asked"]
      PROVE  MadeInv'
  <2> DEFINE a == [dec[g].out[i] EXCEPT !.pc = "asked"]
  <2>1. DOMAIN a = AnswerFields /\ a.moves = dec[g].out[i].moves
    BY <1>2 DEF AnswerFields
  <2>2. dec' = [dec EXCEPT ![g] = [dec[g] EXCEPT !.out = [dec[g].out EXCEPT ![i] = a]]]
    BY <1>4
  <2>3. Stored(cache')
    <3> HIDE DEF at
    <3> QED
      BY <1>1, <1>4, StoresKeep
  <2> HIDE DEF a, at
  <2> QED
    BY <1>2, <2>1, <2>2, <2>3, ChildStepIsMade DEF Lookup
<1> QED
  BY <1>3, <1>4 DEF Lookup

\* What the model answers is moves of a plan, in the decision and in the cache.
LEMMA AnswerIsMade ==
  ASSUME SoundInv, MadeInv, NEW g \in Goals, NEW i \in DOMAIN dec[g].out, Answer(g, i)
  PROVE  MadeInv'
<1> DEFINE c == dec[g].kids[i]
           entry(r) == [key |-> cacheKey(g, c), moves |-> r.moves, for |-> Request(g, c), put |-> now,
                        exp |-> IF TTL(dep) > 0 THEN now + TTL(dep) ELSE 0]
           a(r) == [pc |-> "done", err |-> r.err, moves |-> r.moves, for |-> Request(g, c), age |-> 0]
<1>1. PICK r \in BaseAnswers(dep, dec[g].who, dec[g].sig # NoSignal) :
        /\ dec' = [dec EXCEPT ![g].out[i] = a(r)]
        /\ IF r.err \/ ~CacheOn(dep) THEN UNCHANGED cache ELSE Put(entry(r))
  BY DEF Answer
<1>2. r.moves \in Plans
  BY <1>1, AnswersArePlans DEF SoundInv
<1>3. DOMAIN a(r) = AnswerFields /\ a(r).moves = r.moves /\ entry(r).moves = r.moves
  BY DEF AnswerFields
<1>4. dec' = [dec EXCEPT ![g] = [dec[g] EXCEPT !.out = [dec[g].out EXCEPT ![i] = a(r)]]]
  BY <1>1
<1> HIDE DEF a, entry
<1>5. Stored(cache')
  <2>1. Stored(cache)
    BY DEF MadeInv
  <2> QED
    BY <1>1, <1>2, <1>3, <2>1, PutStores
<1>6. dec[g].pc = "asking" /\ dep' = dep /\ plan' = plan
  BY DEF Answer
<1> QED
  BY <1>2, <1>3, <1>4, <1>5, <1>6, ChildStepIsMade

\* A decision begins with named children and no answers.
LEMMA BeginIsMade ==
  ASSUME SoundInv, MadeInv, NEW g \in Goals, Begin(g)
  PROVE  MadeInv'
<1>1. PICK sig \in Triggers(g), who \in Credentials,
           e \in Enriched(Sources(dep), lastGood[g], world), regime \in Classified :
        dec' = [dec EXCEPT ![g] = Begun(sig, who, Contributions(e), regime)]
  BY DEF Begin
<1> DEFINE r == Begun(sig, who, Contributions(e), regime)
           kids == Eligible(regime)
<1>2. r.kids = kids /\ r.out = [i \in DOMAIN kids |-> Waiting] /\ r.pc = "asking"
  BY DEF Begun, Idle
<1>3. dec' = [dec EXCEPT ![g] = r] /\ dep' = dep /\ plan' = plan /\ cache' = cache
  BY <1>1 DEF Begin
<1>4. IsList(kids) /\ (Selects(dep) => Named(kids))
  BY ChildrenAreTold, EligibleAreChildren, EligibleAreNamed DEF SoundInv
<1> HIDE DEF r, kids
<1>5. IsList(r.out) /\ DOMAIN r.out = DOMAIN kids
  BY <1>2, <1>4 DEF IsList
<1>6. \A i \in DOMAIN r.out : DOMAIN r.out[i] = AnswerFields /\ r.out[i].moves \in Plans
  <2>1. DOMAIN Waiting = AnswerFields /\ Waiting.moves = <<>>
    BY DEF Waiting, AnswerFields
  <2>2. <<>> \in Plans
    BY DEF Plans
  <2> QED
    BY <1>2, <2>1, <2>2
<1>7. Deciding(dep, r, plan'[g])
  BY <1>2, <1>4, <1>5, <1>6 DEF Deciding
<1> QED
  BY <1>3, <1>7, MadeStep DEF MadeInv

\* The candidates of a choice keep the children's names and have moves.
LEMMA CandidatesAreField ==
  ASSUME SoundInv, MadeInv, NEW g \in Goals, Selects(dep),
         \E i \in DOMAIN dec[g].out : ~dec[g].out[i].err
  PROVE  Field(Candidates(dec[g]))
<1> DEFINE n == Len(dec[g].out)
           cs == Candidates(dec[g])
<1>1. Deciding(dep, dec[g], plan[g]) /\ Judged(dec[g])
  BY DEF MadeInv, SoundInv, Sound
<1>2. n \in Nat /\ DOMAIN dec[g].out = 1..n /\ DOMAIN dec[g].kids = 1..n /\ Named(dec[g].kids)
  BY <1>1 DEF Deciding, IsList
<1>3. DOMAIN cs = 1..n /\ Len(cs) = n
  <2> HIDE DEF n
  <2> QED
    BY <1>2 DEF Candidates
<1>4. \A i \in 1..n : cs[i].id = dec[g].kids[i].id /\ cs[i].err = dec[g].out[i].err
  <2> HIDE DEF n
  <2> QED
    BY <1>2 DEF Candidates
<1>5. ASSUME NEW i \in 1..n PROVE cs[i].moves \in Plans
  <2>1. dec[g].out[i].moves \in Plans /\ i \in DOMAIN dec[g].out
    BY <1>1, <1>2 DEF Deciding
  <2>2. CASE dec[g].out[i].err
    <3>1. cs[i].moves = dec[g].out[i].moves
      BY <2>1, <2>2 DEF Candidates, Result
    <3> QED
      BY <2>1, <3>1
  <2>3. CASE ~dec[g].out[i].err
    <3> HIDE DEF cs
    <3>1. cs[i].moves = dec[g].out[i].moves
            \/ \E v \in Verdicts : cs[i].moves = applyVerdict(dec[g].out[i].moves, v)
      BY <1>1, <2>1, <2>3, CandidatesHaveBasis DEF cs
    <3> QED
      BY <2>1, <3>1, JudgedIsPlan
  <2> QED
    BY <2>2, <2>3
<1> HIDE DEF n, cs
<1>6. IsList(cs)
  BY <1>2, <1>3 DEF IsList
<1>7. Named(cs)
  BY <1>2, <1>3, <1>4 DEF Named
<1>8. \E i \in DOMAIN cs : ~cs[i].err
  BY <1>2, <1>3, <1>4
<1> QED
  BY <1>3, <1>5, <1>6, <1>7, <1>8 DEF Field, cs

\* SelectorPlanner chooses among the candidates against the current strategy.
LEMMA ChooseIsMade ==
  ASSUME SoundInv, MadeInv, NEW g \in Goals, Choose(g)
  PROVE  MadeInv'
<1>1. /\ Sound(dep, dec[g]) /\ Deciding(dep, dec[g], plan[g]) /\ Versioned(dep, plan[g])
      /\ DOMAIN plan = Goals /\ Stored(cache) /\ DOMAIN dec = Goals
  BY DEF SoundInv, MadeInv
<1>2. dep' = dep /\ plan' = plan /\ cache' = cache /\ \E i \in DOMAIN dec[g].out : ~dec[g].out[i].err
  BY DEF Choose, Planned
<1> DEFINE cs == Candidates(dec[g])
<1>3. \E w, ms, c :
        /\ dec' = [dec EXCEPT ![g] = Chosen(dec[g], w, ms, c)]
        /\ Made(dep, dec[g].regime, cs, plan[g].strategy, w, ms)
  <2>1. CASE Selects(dep)
    <3> DEFINE t == ScoresOf(g, cs, dep.weights)
               s == ScoresIn(dep, dec[g].regime, cs)
               w == Select(s, plan[g].strategy, Margin(dep))
               ms == Haircut(cs[w].moves, DisagreementPenalty(s, s[w].top, PenaltyStep(dep)))
               c == IF Reviewed(dec[g]) THEN "verify" ELSE "utility"
    <3>1. LET v == Select(t, plan[g].strategy, Margin(dep))
          IN  dec' = [dec EXCEPT ![g] =
                Chosen(dec[g], v, Haircut(cs[v].moves, DisagreementPenalty(t, t[v].top, PenaltyStep(dep))), c)]
      BY <2>1, Zenon DEF Choose
    <3>2. t = s
      BY DEF ScoresOf, ScoresIn
    <3>3. Field(cs)
      BY <1>2, <2>1, CandidatesAreField
    <3>4. dec' = [dec EXCEPT ![g] = Chosen(dec[g], w, ms, c)]
      BY <3>1, <3>2, Zenon
    <3>5. Made(dep, dec[g].regime, cs, plan[g].strategy, w, ms)
      BY <2>1, <3>3 DEF Made
    <3> QED
      BY <3>4, <3>5
  <2>2. CASE ~Selects(dep)
    <3>1. dec' = [dec EXCEPT ![g] = Chosen(dec[g], 1, dec[g].out[1].moves, "")]
      BY <2>2 DEF Choose
    <3>2. 1 \in DOMAIN dec[g].out
      <4>1. Len(dec[g].out) \in Nat /\ DOMAIN dec[g].out = 1..Len(dec[g].out)
        BY <1>1 DEF Deciding, IsList
      <4> QED
        BY <4>1, <1>2
    <3>3. cs[1].moves = dec[g].out[1].moves
      <4>1. cs[1].moves = Result(dec[g], 1)
        BY <3>2 DEF Candidates
      <4> QED
        BY <2>2, <4>1 DEF Result, Reviewed
    <3>4. dec[g].out[1].moves \in Plans
      BY <1>1, <3>2 DEF Deciding
    <3> HIDE DEF cs
    <3>5. Made(dep, dec[g].regime, cs, plan[g].strategy, 1, dec[g].out[1].moves)
      BY <2>2, <3>3, <3>4 DEF Made
    <3> QED
      BY <3>1, <3>5
  <2> QED
    BY <2>1, <2>2
<1>4. PICK w, ms, c :
        /\ dec' = [dec EXCEPT ![g] = Chosen(dec[g], w, ms, c)]
        /\ Made(dep, dec[g].regime, cs, plan[g].strategy, w, ms)
  BY <1>3
<1> DEFINE r == Chosen(dec[g], w, ms, c)
<1>5. dec' = [dec EXCEPT ![g] = r]
  BY <1>4
<1>6. /\ r.kids = dec[g].kids /\ r.out = dec[g].out /\ r.regime = dec[g].regime
      /\ r.cands = cs /\ r.winner = w /\ r.moves = ms
  BY <1>1, ChosenFacts DEF Sound
<1> HIDE DEF r
<1>7. Deciding(dep, r, plan'[g])
  BY <1>1, <1>2, <1>4, <1>6 DEF Deciding
<1> QED
  BY <1>1, <1>2, <1>5, <1>7, MadeStep

\* A review leaves the answers and the versions.
LEMMA ReviewIsMade ==
  ASSUME SoundInv, MadeInv, NEW g \in Goals, Review(g)
  PROVE  MadeInv'
<1>1. PICK a : dec' = [dec EXCEPT ![g].adjusted = a]
  BY DEF Review
<1> DEFINE r == [dec[g] EXCEPT !.adjusted = a]
<1>2. /\ Sound(dep, dec[g]) /\ Deciding(dep, dec[g], plan[g]) /\ Versioned(dep, plan[g])
      /\ DOMAIN plan = Goals /\ Stored(cache)
  BY DEF SoundInv, MadeInv
<1>3. dec' = [dec EXCEPT ![g] = r] /\ dep' = dep /\ plan' = plan /\ cache' = cache
  BY <1>1 DEF Review
<1>4. r.kids = dec[g].kids /\ r.out = dec[g].out /\ r.pc = "asking"
  BY <1>2 DEF Sound, Fields, Review, Answered
<1> HIDE DEF r
<1>5. Deciding(dep, r, plan'[g])
  BY <1>2, <1>3, <1>4 DEF Deciding
<1> QED
  BY <1>2, <1>3, <1>5, MadeStep

\* The version takes over what the decision was made from (buildVersion).
LEMMA CommitIsMade ==
  ASSUME SoundInv, MadeInv, NEW g \in Goals, Commit(g)
  PROVE  MadeInv'
<1>1. /\ Deciding(dep, dec[g], plan[g]) /\ Versioned(dep, plan[g]) /\ DOMAIN plan = Goals /\ Stored(cache)
  BY DEF MadeInv
<1>2. dep' = dep /\ cache' = cache /\ dec' = [dec EXCEPT ![g] = Idle]
  BY DEF Commit
<1>3. Made(dep, dec[g].regime, dec[g].cands, plan[g].strategy, dec[g].winner, dec[g].moves)
  BY <1>1 DEF Commit, Deciding
<1> DEFINE v == [version |-> plan[g].version + 1, moves |-> dec[g].moves,
                 strategy |-> SelectedStrategy(g), regime |-> dec[g].regime, cands |-> dec[g].cands]
<1>4. plan' = plan \/ plan' = [plan EXCEPT ![g] = v]
  BY DEF Commit
<1>5. Versioned(dep, v)
  <2>1. v.version \in Nat
    BY <1>1 DEF Versioned
  <2>2. Selects(dep) => v.strategy = v.cands[dec[g].winner].id
    BY DEF SelectedStrategy
  <2>3. Made(dep, v.regime, v.cands, plan[g].strategy, dec[g].winner, v.moves)
    BY <1>3
  <2> HIDE DEF v
  <2> QED
    BY <2>1, <2>2, <2>3 DEF Versioned
<1> HIDE DEF v
<1>6. /\ DOMAIN plan' = Goals /\ Versioned(dep, plan'[g])
      /\ \A h \in Goals : h # g => plan'[h] = plan[h]
  BY <1>1, <1>4, <1>5
<1>7. Deciding(dep, Idle, plan'[g])
  BY IdleIsMade
<1> QED
  BY <1>1, <1>2, <1>6, <1>7, MadeStep

\* Every step keeps decisions and versions made of their candidates.
LEMMA MadeKept == SoundInv /\ MadeInv /\ [Next]_vars => MadeInv'
<1> SUFFICES ASSUME SoundInv, MadeInv, [Next]_vars PROVE MadeInv'
  OBVIOUS
<1>1. CASE UNCHANGED vars
  BY <1>1 DEF vars, MadeInv
<1>2. ASSUME NEW g \in Goals, Begin(g) PROVE MadeInv'
  BY <1>2, BeginIsMade
<1>3. ASSUME NEW g \in Goals, Fail(g) PROVE MadeInv'
  <2>1. dec' = [dec EXCEPT ![g] = Idle] /\ dep' = dep /\ plan' = plan /\ cache' = cache
    BY <1>3 DEF Fail
  <2> QED
    BY <2>1, IdleIsMade, MadeStep DEF MadeInv
<1>4. ASSUME NEW g \in Goals, Choose(g) PROVE MadeInv'
  BY <1>4, ChooseIsMade
<1>5. ASSUME NEW g \in Goals, Commit(g) PROVE MadeInv'
  BY <1>5, CommitIsMade
<1>6. ASSUME NEW g \in Goals, NEW i \in DOMAIN dec[g].out, Lookup(g, i) PROVE MadeInv'
  BY <1>6, LookupIsMade
<1>7. ASSUME NEW g \in Goals, NEW i \in DOMAIN dec[g].out, Answer(g, i) PROVE MadeInv'
  BY <1>7, AnswerIsMade
<1>8. CASE Tick \/ WorldChanges
  BY <1>8 DEF Tick, WorldChanges, MadeInv
<1>9. ASSUME NEW g \in Goals, Review(g) PROVE MadeInv'
  BY <1>9, ReviewIsMade
<1> QED
  BY <1>1, <1>2, <1>3, <1>4, <1>5, <1>6, <1>7, <1>8, <1>9 DEF Next

\* So it is in every state of every behaviour.
LEMMA MadeAlways == Spec => []MadeInv
<1>1. Init => MadeInv
  <2> SUFFICES ASSUME Init PROVE MadeInv
    OBVIOUS
  <2>1. DOMAIN plan = Goals /\ cache = <<>> /\ \A g \in Goals : dec[g] = Idle /\ plan[g] = NoPlan
    BY DEF Init
  <2>2. Stored(<<>>)
    BY DEF Stored, IsList
  <2>3. \A d : Versioned(d, NoPlan)
    BY DEF Versioned, NoPlan
  <2> QED
    BY <2>1, <2>2, <2>3, IdleIsMade DEF MadeInv
<1> QED
  BY <1>1, MadeKept, SoundAlways, PTL DEF Spec

\* The winner of a competition has a plan, is admissible when some candidate is, and no other
\* admissible one beats it by more than the incumbent margin, whatever the strategies, their
\* weights, utilities and regimes.
THEOREM WinnersAreJustified == Spec => []WinnerIsJustified
<1>1. SoundInv /\ MadeInv => WinnerIsJustified
  <2> SUFFICES ASSUME SoundInv, MadeInv, NEW g \in Goals, dec[g].pc = "chosen", Selects(dep)
               PROVE  LET s == ScoresOf(g, dec[g].cands, dep.weights)
                          w == s[dec[g].winner]
                          rivals == {s[j] : j \in Admissible(s)}
                      IN  /\ ~w.err
                          /\ rivals # {} => w \in rivals
                          /\ \A r \in rivals :
                               IF w.id = plan[g].strategy
                                 THEN r.weighted <= w.weighted \/ r.weighted <= w.weighted + Margin(dep)
                               ELSE IF r.id = plan[g].strategy THEN r.weighted + Margin(dep) < w.weighted
                               ELSE r.weighted <= w.weighted
    BY DEF WinnerIsJustified
  <2> DEFINE s == ScoresOf(g, dec[g].cands, dep.weights)
             w == dec[g].winner
  <2>1. s = ScoresIn(dep, dec[g].regime, dec[g].cands)
    BY DEF ScoresOf, ScoresIn
  <2>2. Field(dec[g].cands) /\ w = Select(s, plan[g].strategy, Margin(dep))
    BY <2>1 DEF MadeInv, Deciding, Made
  <2> HIDE DEF s, w
  <2>3. Comparable(s) /\ Named(s) /\ \E i \in DOMAIN s : ~s[i].err
    BY <2>1, <2>2, FieldIsScored DEF SoundInv
  <2>4. Margin(dep) \in Int
    BY MarginIsInt DEF SoundInv
  <2>5. /\ w \in DOMAIN s /\ ~s[w].err
        /\ Admissible(s) # {} => w \in Admissible(s)
        /\ \A j \in Admissible(s) :
             IF s[w].id = plan[g].strategy
               THEN s[j].weighted <= s[w].weighted \/ s[j].weighted <= s[w].weighted + Margin(dep)
             ELSE IF s[j].id = plan[g].strategy THEN s[j].weighted + Margin(dep) < s[w].weighted
             ELSE s[j].weighted <= s[w].weighted
    BY <2>2, <2>3, <2>4, SelectJustifies
  <2> QED
    BY <2>5 DEF s, w
<1> QED
  BY <1>1, SoundAlways, MadeAlways, PTL

\* A decision over the candidates that made the current version, in the same regime, leaves
\* that version current: the winner it had is the incumbent now and wins again, and a plan is
\* not material against itself.
THEOREM NothingChurns == Spec => []NoChurn
<1>1. SoundInv /\ MadeInv => NoChurn
  <2> SUFFICES ASSUME SoundInv, MadeInv, NEW g \in Goals, dec[g].pc = "chosen",
                      plan[g].version > 0, plan[g].moves # <<>>,
                      dec[g].cands = plan[g].cands, dec[g].regime = plan[g].regime
               PROVE  ~Material(g)
    BY DEF NoChurn
  <2>1. PICK incumbent, w :
          /\ Made(dep, plan[g].regime, plan[g].cands, incumbent, w, plan[g].moves)
          /\ Selects(dep) => plan[g].strategy = plan[g].cands[w].id
    BY DEF MadeInv, Versioned
  <2>2. Made(dep, plan[g].regime, plan[g].cands, plan[g].strategy, dec[g].winner, dec[g].moves)
    BY DEF MadeInv, Deciding
  <2>3. plan[g].moves = dec[g].moves /\ plan[g].moves \in Plans
    BY <2>1, <2>2, MadeAgain DEF SoundInv
  <2>4. Delta(dep) \in Nat \ {0}
    BY MarginIsInt DEF SoundInv
  <2>5. ~IsMaterial(plan[g].moves, dec[g].moves, Delta(dep))
    BY <2>3, <2>4, SameIsImmaterial
  <2>6. plan[g].version # 0
    OBVIOUS
  <2> QED
    BY <2>5, <2>6 DEF Material
<1> QED
  BY <1>1, SoundAlways, MadeAlways, PTL

-----------------------------------------------------------------------------
(* The budget.                                                             *)

\* No cap of the second budget is looser than the first's, and a disabled one stays so.
Tightens(b, c) ==
  /\ \A cap \in {"pos", "trade", "agg"} : b[cap] > 0 => c[cap] \in 1..b[cap]
  /\ b.pos < 0 => c.pos < 0

\* A share of a cap is a tighter cap.
LEMMA ShareIs ==
  ASSUME NEW x \in Int, NEW p \in 1..100
  PROVE  /\ Share(x, p) \in Int
         /\ x > 0 => Share(x, p) \in 1..x
         /\ x < 0 => Share(x, p) < 0
<1> DEFINE y == x * p
<1>1. y \in Int
  OBVIOUS
<1>2. x > 0 => y >= 1 /\ y <= 100 * x
  <2> SUFFICES ASSUME x > 0 PROVE y >= 1 /\ y <= 100 * x
    OBVIOUS
  <2>1. x \in Nat \ {0} /\ p >= 1 /\ p <= 100
    OBVIOUS
  <2> QED
    BY <2>1
<1>3. x < 0 => y < 0
  <2> SUFFICES ASSUME x < 0 PROVE y < 0
    OBVIOUS
  <2>1. x <= 0 - 1 /\ p >= 1
    OBVIOUS
  <2> QED
    BY <2>1
<1>4. Share(x, p) = IF x > 0 THEN (y + 99) \div 100 ELSE y \div 100
  BY DEF Share
<1> HIDE DEF y
<1> QED
  BY <1>1, <1>2, <1>3, <1>4

\* The percentage a lens leaves of a cap.
LEMMA TightenOnlyIs ==
  ASSUME NEW v \in Int
  PROVE  tightenOnly(v) \in 1..100
  BY DEF tightenOnly

\* An override of a lens is a lens.
LEMMA MergeIsLens ==
  ASSUME NEW l \in Lens, NEW o \in Lens
  PROVE  Merge(l, o) \in Lens
  BY DEF Lens, Merge, Overriding

\* The caps of a budget are integers; a bounded or disabled cap follows it field by field.
LEMMA TightensIs ==
  ASSUME NEW b \in Budgets, NEW c \in Budgets,
         b.trade > 0 => c.trade \in 1..b.trade, b.pos > 0 => c.pos \in 1..b.pos,
         b.agg > 0 => c.agg \in 1..b.agg, b.pos < 0 => c.pos < 0
  PROVE  Tightens(b, c)
  BY DEF Tightens, Budgets

\* What the planner is built with.
LEMMA NormalizeIs ==
  ASSUME NEW c \in Scorings
  PROVE  /\ Normalize(c).weights \in Weights /\ Normalize(c).ratio \in Nat \ {0}
         /\ Normalize(c).risk \in Budgets /\ Normalize(c).risk.pos # 0
<1> DEFINE d == DefaultScoringConfig
           r == Normalize(c).risk
<1>1. d.weights \in Weights /\ d.ratio = 20
      /\ d.risk = [kelly |-> 400, pos |-> 2000, trade |-> 200, agg |-> 600, equity |-> 0]
  BY DEF DefaultScoringConfig, Weights
<1>2. c.weights \in Weights /\ c.ratio \in Int /\ c.risk \in Budgets
  BY DEF Scorings
<1>3. Normalize(c).weights = (IF c.weights = NoWeights THEN d.weights ELSE c.weights)
      /\ Normalize(c).ratio = (IF c.ratio <= 0 THEN d.ratio ELSE c.ratio)
      /\ r = [f \in DOMAIN d.risk |-> IF c.risk[f] = 0 THEN d.risk[f] ELSE c.risk[f]]
  BY DEF Normalize
<1> HIDE DEF d, r
<1>4. DOMAIN d.risk = {"kelly", "pos", "trade", "agg", "equity"}
  BY <1>1
<1>5. \A f \in DOMAIN d.risk : d.risk[f] \in Int /\ c.risk[f] \in Int
  BY <1>1, <1>2, <1>4 DEF Budgets
<1>6. \A f \in DOMAIN d.risk : r[f] \in Int
  BY <1>3, <1>5
<1>7. r \in Budgets
  BY <1>3, <1>4, <1>6 DEF Budgets
<1>8. r.pos = IF c.risk.pos = 0 THEN 2000 ELSE c.risk.pos
  BY <1>1, <1>3, <1>4
<1> QED
  BY <1>1, <1>2, <1>3, <1>7, <1>8 DEF r, Budgets

\* A lens tightens.
LEMMA LensTightens ==
  ASSUME NEW l \in Lens, NEW s \in Scorings, s.ratio > 0
  PROVE  /\ ApplyLens(l, s).weights \in Weights /\ ApplyLens(l, s).ratio \in Nat \ {0}
         /\ ApplyLens(l, s).risk \in Budgets
         /\ Tightens(s.risk, ApplyLens(l, s).risk)
<1> DEFINE b    == s.risk
           c    == ApplyLens(l, s).risk
           caps == tightenOnly(l.trade)
           agg  == tightenOnly(l.agg)
           k    == IF l.kelly > 0 THEN (b.kelly * l.kelly) \div 100 ELSE b.kelly
           a    == IF b.agg > 0 THEN Share(b.agg, agg) ELSE b.agg
<1>1. l.trade \in Int /\ l.agg \in Int /\ l.weights \in Weights /\ l.ratio \in Int /\ l.kelly \in Int
  BY DEF Lens
<1>2. b \in Budgets /\ s.weights \in Weights /\ s.ratio \in Nat \ {0}
  BY DEF Scorings
<1>3. b.trade \in Int /\ b.pos \in Int /\ b.agg \in Int /\ b.kelly \in Int
  BY <1>2 DEF Budgets
<1>4. caps \in 1..100 /\ agg \in 1..100
  BY <1>1, TightenOnlyIs
<1>5. Share(b.trade, caps) \in Int /\ Share(b.pos, caps) \in Int /\ Share(b.agg, agg) \in Int
  BY <1>3, <1>4, ShareIs
<1>6. k \in Int /\ a \in Int
  BY <1>1, <1>3, <1>5
<1>7. c = [b EXCEPT !.kelly = k, !.trade = Share(b.trade, caps), !.pos = Share(b.pos, caps), !.agg = a]
  BY <1>2 DEF ApplyLens, Budgets
<1>8. ApplyLens(l, s).weights \in Weights /\ ApplyLens(l, s).ratio \in Nat \ {0}
  BY <1>1, <1>2 DEF ApplyLens
<1> HIDE DEF b, c, caps, agg, k
<1>9. c \in Budgets /\ c.trade = Share(b.trade, caps) /\ c.pos = Share(b.pos, caps) /\ c.agg = a
  <2> HIDE DEF a
  <2> QED
    BY <1>2, <1>5, <1>6, <1>7 DEF Budgets
<1>10. /\ b.trade > 0 => c.trade \in 1..b.trade
       /\ b.pos > 0 => c.pos \in 1..b.pos
       /\ b.agg > 0 => c.agg \in 1..b.agg
       /\ b.pos < 0 => c.pos < 0
  BY <1>3, <1>4, <1>9, ShareIs
<1>11. Tightens(b, c)
  BY <1>2, <1>9, <1>10, TightensIs
<1> QED
  BY <1>8, <1>9, <1>11 DEF b, c

\* A drawdown limit bounds the caps that are not disabled.
LEMMA LimitTightens ==
  ASSUME NEW b \in Budgets, b.pos # 0, NEW dd \in Fractional
  PROVE  /\ Limited(b, dd) \in Budgets
         /\ Tightens(b, Limited(b, dd))
         /\ Limited(b, dd).agg \in 1..dd /\ Limited(b, dd).pos <= dd
<1> DEFINE d == Limited(b, dd)
           fifth == Share(dd, 20)
           p == IF b.pos = 0 \/ dd < b.pos THEN dd ELSE b.pos
           t == IF b.trade = 0 \/ fifth < b.trade THEN fifth ELSE b.trade
           a == IF b.agg <= 0 \/ dd < b.agg THEN dd ELSE b.agg
<1>1. b.trade \in Int /\ b.pos \in Int /\ b.agg \in Int /\ b.kelly \in Int
  BY DEF Budgets
<1>2. dd \in Int /\ dd > 0 /\ fifth \in 1..dd
  <2>1. dd \in Int /\ dd > 0 /\ 20 \in 1..100
    BY DEF Fractional
  <2> QED
    BY <2>1, ShareIs
<1>3. d = [b EXCEPT !.pos = p, !.trade = t, !.agg = a]
  BY DEF Limited, Budgets
<1>4. p \in Int /\ t \in Int /\ a \in Int
  BY <1>1, <1>2
<1> HIDE DEF d, fifth
<1>5. d \in Budgets /\ d.trade = t /\ d.pos = p /\ d.agg = a
  <2> HIDE DEF p, t, a
  <2> QED
    BY <1>3, <1>4 DEF Budgets
<1>6. /\ b.trade > 0 => d.trade \in 1..b.trade
      /\ b.pos > 0 => d.pos \in 1..b.pos
      /\ b.agg > 0 => d.agg \in 1..b.agg
      /\ b.pos < 0 => d.pos < 0
      /\ d.agg \in 1..dd /\ d.pos <= dd
  BY <1>1, <1>2, <1>5
<1> HIDE DEF p, t, a
<1>7. Tightens(b, d)
  BY <1>5, <1>6, TightensIs
<1> QED
  BY <1>5, <1>6, <1>7 DEF d

\* A constraint tightens.
Limit(c) == c.kind = "drawdown_limit" /\ c.limit \in Fractional

LEMMA ConstraintTightens ==
  ASSUME NEW b \in Budgets, b.pos # 0, NEW c
  PROVE  /\ Tightened(b, c) \in Budgets
         /\ Tightens(b, Tightened(b, c))
         /\ Limit(c) => Tightened(b, c).agg \in 1..c.limit /\ Tightened(b, c).pos <= c.limit
<1>1. b.trade \in Int /\ b.pos \in Int /\ b.agg \in Int /\ b.kelly \in Int
  BY DEF Budgets
<1>2. CASE Limit(c)
  <2>1. c.kind = "drawdown_limit" /\ c.limit \in Fractional
    BY <1>2 DEF Limit
  <2>2. Tightened(b, c) = Limited(b, c.limit)
    BY <2>1 DEF Tightened
  <2> QED
    BY <2>1, <2>2, LimitTightens
<1>3. CASE ~Limit(c)
  <2> DEFINE d == Tightened(b, c)
             half == Share(b.pos, 50)
  <2>1. \/ d = b
        \/ d = [b EXCEPT !.kelly = @ \div 2, !.pos = Share(@, 50)]
        \/ d = [b EXCEPT !.kelly = (@ * 3) \div 2]
    BY <1>3 DEF Tightened, Limit
  <2>2. half \in Int /\ (b.pos > 0 => half \in 1..b.pos) /\ (b.pos < 0 => half < 0)
    <3>1. 50 \in 1..100
      OBVIOUS
    <3> QED
      BY <1>1, <3>1, ShareIs
  <2>3. PICK k \in Int, p \in {b.pos, half} : d = [b EXCEPT !.kelly = k, !.pos = p]
    <3>1. b.kelly \div 2 \in Int /\ (b.kelly * 3) \div 2 \in Int
      BY <1>1
    <3>2. CASE d = b
      <4>1. b = [b EXCEPT !.kelly = b.kelly, !.pos = b.pos]
        BY DEF Budgets
      <4> HIDE DEF d, half
      <4> QED
        BY <1>1, <3>2, <4>1
    <3>3. CASE d = [b EXCEPT !.kelly = @ \div 2, !.pos = Share(@, 50)]
      <4>1. d = [b EXCEPT !.kelly = b.kelly \div 2, !.pos = half]
        BY <3>3 DEF Budgets
      <4> HIDE DEF d, half
      <4> QED
        BY <3>1, <4>1
    <3>4. CASE d = [b EXCEPT !.kelly = (@ * 3) \div 2]
      <4>1. d = [b EXCEPT !.kelly = (b.kelly * 3) \div 2, !.pos = b.pos]
        BY <3>4 DEF Budgets
      <4> HIDE DEF d, half
      <4> QED
        BY <3>1, <4>1
    <3> HIDE DEF d, half
    <3> QED
      BY <2>1, <3>2, <3>3, <3>4 DEF d, half
  <2> HIDE DEF d, half
  <2>4. p \in Int
    BY <1>1, <2>2
  <2>5. d \in Budgets /\ d.trade = b.trade /\ d.pos = p /\ d.agg = b.agg
    BY <2>3, <2>4 DEF Budgets
  <2>6. /\ b.trade > 0 => d.trade \in 1..b.trade
        /\ b.pos > 0 => d.pos \in 1..b.pos
        /\ b.agg > 0 => d.agg \in 1..b.agg
        /\ b.pos < 0 => d.pos < 0
    BY <1>1, <2>2, <2>5
  <2>7. Tightens(b, d)
    BY <2>5, <2>6, TightensIs
  <2> QED
    BY <1>3, <2>5, <2>7 DEF d
<1> QED
  BY <1>2, <1>3

-----------------------------------------------------------------------------
(* Every step tightens.                                                    *)

IsScoring(s) == s \in Scorings /\ s.ratio > 0 /\ s.risk.pos # 0

\* The variables are what they are declared as, and a drawdown limit that was taken in
\* bounds the caps that are not disabled.
SizingInv ==
  /\ IsScoring(config.scoring) /\ config.prior \in Priors /\ config.shared \in Weights
  /\ budget \in Budgets /\ budget.pos # 0
  /\ assets \subseteq Range(Tickers) /\ horizon \in Nat /\ market \in Markets
  /\ limits \in Seq(Constraints)
  /\ stage = "base" => budget = config.scoring.risk /\ limits = <<>>
  /\ \A n \in DOMAIN limits : Limit(limits[n]) =>
       budget.agg \in 1..limits[n].limit /\ budget.pos <= limits[n].limit

LEMMA Neutrals == Neutral \in Priors
  BY DEF Neutral, Priors

LEMMA SizingStart == SizingInit => SizingInv
<1> SUFFICES ASSUME SizingInit PROVE SizingInv
  OBVIOUS
<1>1. PICK policy \in Policies :
        config = [scoring |-> Normalize(policy), prior |-> Neutral, shared |-> Normalize(policy).weights]
  BY DEF SizingInit
<1>2. policy \in Scorings
  BY <1>1, SizingAssumption
<1>3. IsScoring(Normalize(policy))
  <2>1. Normalize(policy) = [weights |-> Normalize(policy).weights, ratio |-> Normalize(policy).ratio,
                             risk |-> Normalize(policy).risk]
    BY DEF Normalize
  <2> QED
    BY <1>2, <2>1, NormalizeIs DEF IsScoring, Scorings
<1>4. config.scoring = Normalize(policy) /\ config.prior \in Priors /\ config.shared \in Weights
  BY <1>1, <1>2, NormalizeIs, Neutrals
<1>5. budget = config.scoring.risk /\ market \in Markets /\ horizon \in Horizons
      /\ assets \subseteq Range(Tickers) /\ limits = <<>>
  BY DEF SizingInit
<1>6. budget \in Budgets /\ budget.pos # 0
  BY <1>2, <1>4, <1>5, NormalizeIs
<1>7. horizon \in Nat
  BY <1>5, SizingAssumption
<1> QED
  BY <1>3, <1>4, <1>5, <1>6, <1>7 DEF SizingInv

\* A lens over the policy's scoring.
LEMMA OverlayTightens ==
  ASSUME SizingInv, Overlay
  PROVE  SizingInv' /\ Tightens(budget, budget')
<1>1. PICK lens \in Lenses : \E m \in {lens} \cup {Merge(lens, o) : o \in Overrides} :
        /\ stage = "base" /\ stage' = "goal"
        /\ config' = [scoring |-> ApplyLens(m, config.scoring), shared |-> config.shared,
                      prior |-> IF m.prior = NoPrior THEN Neutral ELSE m.prior]
        /\ budget' = config'.scoring.risk
        /\ UNCHANGED <<assets, horizon, market, current, limits, heard>>
  BY DEF Overlay
<1>2. PICK l \in {lens} \cup {Merge(lens, o) : o \in Overrides} :
        /\ stage = "base" /\ stage' = "goal"
        /\ config' = [scoring |-> ApplyLens(l, config.scoring), shared |-> config.shared,
                      prior |-> IF l.prior = NoPrior THEN Neutral ELSE l.prior]
        /\ budget' = config'.scoring.risk
        /\ UNCHANGED <<assets, horizon, market, current, limits, heard>>
  BY <1>1
<1>3. l \in Lens
  <2>1. lens \in Lens /\ Overrides \subseteq Lens
    BY SizingAssumption
  <2> QED
    BY <2>1, <1>2, MergeIsLens
<1> DEFINE s == config.scoring
           t == ApplyLens(l, s)
<1>4. s \in Scorings /\ s.ratio > 0 /\ s.risk.pos # 0 /\ budget = s.risk /\ limits = <<>>
  BY <1>2 DEF SizingInv, IsScoring
<1>5. t.weights \in Weights /\ t.ratio \in Nat \ {0} /\ t.risk \in Budgets /\ Tightens(s.risk, t.risk)
  <2> HIDE DEF s
  <2> QED
    BY <1>3, <1>4, LensTightens
<1>6. t = [weights |-> t.weights, ratio |-> t.ratio, risk |-> t.risk]
  BY DEF ApplyLens
<1>7. config'.scoring = t /\ config'.shared = config.shared
      /\ config'.prior = (IF l.prior = NoPrior THEN Neutral ELSE l.prior) /\ budget' = t.risk
  BY <1>2
<1> HIDE DEF s, t
<1>8. t.risk.pos # 0
  <2>1. s.risk.pos \in Int /\ t.risk.pos \in Int
    BY <1>4, <1>5 DEF Scorings, Budgets
  <2>2. s.risk.pos > 0 => t.risk.pos \in 1..s.risk.pos
    BY <1>5 DEF Tightens
  <2>3. s.risk.pos < 0 => t.risk.pos < 0
    BY <1>5 DEF Tightens
  <2> QED
    BY <1>4, <2>1, <2>2, <2>3
<1>9. IsScoring(t)
  <2>1. t \in Scorings
    BY <1>5, <1>6 DEF Scorings
  <2> QED
    BY <1>5, <1>8, <2>1 DEF IsScoring
<1>10. config'.prior \in Priors /\ config'.shared \in Weights
  BY <1>3, <1>7, Neutrals DEF SizingInv, Lens
<1>11. SizingInv'
  BY <1>2, <1>4, <1>5, <1>7, <1>8, <1>9, <1>10 DEF SizingInv
<1> QED
  BY <1>4, <1>5, <1>7, <1>11

\* One constraint of the goal.
LEMMA ConstrainTightens ==
  ASSUME SizingInv, Constrain
  PROVE  SizingInv' /\ Tightens(budget, budget')
<1>1. PICK c \in Constraints :
        /\ stage' = "goal" /\ limits' = Append(limits, c)
        /\ budget' = Tightened(budget, c)
        /\ UNCHANGED <<config, assets, horizon, market, current, heard>>
  BY DEF Constrain
<1>2. budget \in Budgets /\ budget.pos # 0 /\ limits \in Seq(Constraints)
  BY DEF SizingInv
<1>3. /\ budget' \in Budgets /\ Tightens(budget, budget')
      /\ Limit(c) => budget'.agg \in 1..c.limit /\ budget'.pos <= c.limit
  BY <1>1, <1>2, ConstraintTightens
<1>4. budget.pos \in Int /\ budget'.pos \in Int /\ budget.agg \in Int /\ budget'.agg \in Int
  BY <1>2, <1>3 DEF Budgets
<1>5. /\ budget.pos > 0 => budget'.pos \in 1..budget.pos
      /\ budget.agg > 0 => budget'.agg \in 1..budget.agg
      /\ budget.pos < 0 => budget'.pos < 0
  BY <1>3 DEF Tightens
<1>6. \A n \in DOMAIN limits' : Limit(limits'[n]) =>
        budget'.agg \in 1..limits'[n].limit /\ budget'.pos <= limits'[n].limit
  <2> SUFFICES ASSUME NEW n \in DOMAIN limits', Limit(limits'[n])
               PROVE  budget'.agg \in 1..limits'[n].limit /\ budget'.pos <= limits'[n].limit
    OBVIOUS
  <2>1. Len(limits) \in Nat /\ DOMAIN limits = 1..Len(limits) /\ DOMAIN limits' = 1..(Len(limits) + 1)
        /\ limits'[Len(limits) + 1] = c /\ \A k \in 1..Len(limits) : limits'[k] = limits[k]
    BY <1>1, <1>2
  <2>2. CASE n \in DOMAIN limits
    <3> DEFINE x == limits[n].limit
    <3>1. limits'[n] = limits[n]
      BY <2>1, <2>2
    <3>2. Limit(limits[n]) /\ budget.agg \in 1..x /\ budget.pos <= x
      <4>1. Limit(limits[n])
        BY <3>1
      <4>2. \A k \in DOMAIN limits : Limit(limits[k]) =>
              budget.agg \in 1..limits[k].limit /\ budget.pos <= limits[k].limit
        BY DEF SizingInv
      <4> QED
        BY <2>2, <4>1, <4>2
    <3>3. x \in Fractional
      BY <3>2 DEF Limit
    <3> HIDE DEF x
    <3>4. x \in Int /\ x > 0
      BY <3>3 DEF Fractional
    <3>5. budget'.agg \in 1..x /\ budget'.pos <= x
      BY <1>2, <1>4, <1>5, <3>2, <3>4
    <3> QED
      BY <3>1, <3>5 DEF x
  <2>3. CASE n \notin DOMAIN limits
    <3>1. limits'[n] = c
      BY <2>1, <2>3
    <3> QED
      BY <1>3, <3>1
  <2> QED
    BY <2>2, <2>3
<1>7. limits' \in Seq(Constraints)
  BY <1>1, <1>2
<1>8. budget'.pos # 0
  BY <1>2, <1>4, <1>5
<1>9. SizingInv'
  BY <1>1, <1>3, <1>6, <1>7, <1>8 DEF SizingInv, IsScoring
<1> QED
  BY <1>3, <1>9

\* A plan leaves the budget alone.
LEMMA PlansKeepBudget ==
  ASSUME SizingInv, FirstPlan \/ Replan \/ UNCHANGED sizingVars
  PROVE  SizingInv' /\ Tightens(budget, budget')
<1>1. UNCHANGED <<config, budget, assets, horizon, market, limits>> /\ (stage' = "base" => stage = "base")
  BY DEF FirstPlan, Replan, sizingVars
<1>2. SizingInv'
  BY <1>1 DEF SizingInv, IsScoring
<1>3. Tightens(budget, budget)
  <2>1. budget \in Budgets /\ budget.pos \in Int /\ budget.trade \in Int /\ budget.agg \in Int
    BY DEF SizingInv, Budgets
  <2>2. /\ budget.trade > 0 => budget.trade \in 1..budget.trade
        /\ budget.pos > 0 => budget.pos \in 1..budget.pos
        /\ budget.agg > 0 => budget.agg \in 1..budget.agg
    BY <2>1
  <2> QED
    BY <2>1, <2>2, TightensIs
<1> QED
  BY <1>1, <1>2, <1>3

LEMMA SizingStep == SizingInv /\ [SizingNext]_sizingVars => SizingInv' /\ Tightens(budget, budget')
  BY OverlayTightens, ConstrainTightens, PlansKeepBudget DEF SizingNext

LEMMA SizingAlways == SizingSpec => []SizingInv
<1>1. SizingInv /\ [SizingNext]_sizingVars => SizingInv'
  BY SizingStep
<1> QED
  BY <1>1, SizingStart, PTL DEF SizingSpec

\* Whatever a lens, a policy override or a goal says, and in whatever order, no step
\* loosens or removes a hard cap (StrategyParams.Apply, EffectiveRiskBudget).
THEOREM CapsTheorem == SizingSpec => CapsOnlyTighten
<1>1. SizingInv /\ [SizingNext]_sizingVars =>
        [\A cap \in {"pos", "trade", "agg"} : budget[cap] > 0 => budget'[cap] \in 1..budget[cap]]_sizingVars
  BY SizingStep DEF Tightens
<1> QED
  BY <1>1, SizingAlways, PTL DEF SizingSpec, CapsOnlyTighten

-----------------------------------------------------------------------------
(* A thesis.                                                               *)

LEMMA MinOfTwo ==
  ASSUME NEW a \in Int, NEW b \in Int
  PROVE  Min({a, b}) \in Int /\ Min({a, b}) <= a /\ Min({a, b}) <= b
<1>1. \E x \in {a, b} : \A y \in {a, b} : x <= y
  <2>1. CASE a <= b
    BY <2>1
  <2>2. CASE ~(a <= b)
    BY <2>2
  <2> QED
    BY <2>1, <2>2
<1>2. Min({a, b}) \in {a, b} /\ \A y \in {a, b} : Min({a, b}) <= y
  BY <1>1 DEF Min
<1> QED
  BY <1>2

LEMMA MaxOfTwo ==
  ASSUME NEW a \in Int, NEW b \in Int
  PROVE  Max({a, b}) \in Int /\ Max({a, b}) >= a /\ Max({a, b}) >= b
<1>1. \E x \in {a, b} : \A y \in {a, b} : x >= y
  <2>1. CASE a >= b
    BY <2>1
  <2>2. CASE ~(a >= b)
    BY <2>2
  <2> QED
    BY <2>1, <2>2
<1>2. Max({a, b}) \in {a, b} /\ \A y \in {a, b} : Max({a, b}) >= y
  BY <1>1 DEF Max
<1> QED
  BY <1>2

\* A stop is between its floor and its ceiling.
LEMMA StopIs ==
  ASSUME NEW f, f.bar \in Int, horizon \in Nat
  PROVE  Stop(f) \in 50..350
<1> DEFINE var == f.bar * f.bar * HoldingDays
           fits(s) == (s = 50 \/ s * s <= var) /\ (s = 350 \/ (s + 1) * (s + 1) > var)
           wide == {k \in Nat : k >= 50 /\ (k = 350 \/ (k + 1) * (k + 1) > var)}
<1>1. var \in Int
  <2>1. HoldingDays \in Int
    <3>1. horizon \in Int /\ 90 \in Int
      OBVIOUS
    <3>2. Min({horizon, 90}) \in Int
      BY <3>1, MinOfTwo
    <3> QED
      BY <3>2 DEF HoldingDays
  <2>2. f.bar * f.bar \in Int
    OBVIOUS
  <2> DEFINE sq == f.bar * f.bar
  <2> HIDE DEF sq
  <2>3. sq * HoldingDays \in Int
    BY <2>1, <2>2 DEF sq
  <2> QED
    BY <2>3 DEF sq
<1> HIDE DEF var
<1>2. 350 \in wide
  OBVIOUS
<1>3. PICK k \in wide : \A j \in wide : ~(<<j, k>> \in OpToRel(<, Nat))
  BY <1>2, WFMin, NatLessThanWellFounded
<1>4. k \in Nat /\ k >= 50 /\ (k = 350 \/ (k + 1) * (k + 1) > var) /\ \A j \in wide : ~(j < k)
  BY <1>3 DEF OpToRel
<1>5. k <= 350
  BY <1>2, <1>4
<1>6. k = 50 \/ k * k <= var
  <2> SUFFICES ASSUME k # 50 PROVE k * k <= var
    OBVIOUS
  <2>1. k - 1 \in Nat /\ k - 1 >= 50 /\ k - 1 < k /\ (k - 1) + 1 = k
    BY <1>4
  <2>2. k - 1 \notin wide
    BY <1>4, <2>1
  <2>3. ~((k - 1) + 1) * ((k - 1) + 1) > var
    BY <2>1, <2>2
  <2>4. ~(k * k > var)
    BY <2>1, <2>3
  <2>5. k * k \in Int
    BY <1>4
  <2> QED
    BY <1>1, <2>4, <2>5
<1>7. \E s \in 50..350 : fits(s)
  <2>1. k \in 50..350
    BY <1>4, <1>5
  <2>2. fits(k)
    BY <1>4, <1>6, Zenon
  <2> HIDE DEF fits
  <2> QED
    BY <2>1, <2>2
<1>8. Stop(f) = CHOOSE s \in 50..350 : fits(s)
  BY DEF Stop, var
<1> HIDE DEF fits
<1> QED
  BY <1>7, <1>8

LEMMA PriorIs ==
  ASSUME NEW f \in Readings, NEW w \in Priors
  PROVE  Prior(f, w) \in Int
<1>1. f.pe \in Int /\ f.pb \in Int /\ f.eps \in Int /\ f.cum \in Int
  BY DEF Readings
<1>2. w.val \in Int /\ w.qual \in Int /\ w.mom \in Int
  BY DEF Priors
<1>3. Valuation(f) \in Int
  BY <1>1 DEF Valuation
<1>4. Quality(f) \in Int /\ Momentum(f) \in Int
  BY <1>1 DEF Quality, Momentum
<1> DEFINE tilt == w.val * Valuation(f) + w.qual * Quality(f) + w.mom * Momentum(f)
<1>5. tilt \in Int
  <2>1. \A x, y \in Int : x * y \in Int /\ x + y \in Int
    OBVIOUS
  <2>2. w.val * Valuation(f) \in Int /\ w.qual * Quality(f) \in Int /\ w.mom * Momentum(f) \in Int
    BY <1>2, <1>3, <1>4, <2>1
  <2> QED
    BY <2>1, <2>2
<1> HIDE DEF tilt
<1>6. Clamp(500 + tilt, 350, 650) \in Int
  <2>1. \A x \in Int : Clamp(x, 350, 650) \in Int
    BY DEF Clamp
  <2> QED
    BY <1>5, <2>1
<1>7. Prior(f, w) = IF tilt = 0 THEN None ELSE Clamp(500 + tilt, 350, 650)
  BY DEF Prior, tilt
<1>8. None \in Int
  BY DEF None
<1> QED
  BY <1>6, <1>7, <1>8

LEMMA HintIs ==
  ASSUME NEW sig, sig.x \in Int
  PROVE  Hint(sig) \in Int
<1> DEFINE a == Clamp(500 + sig.x \div 2, 0, 1000)
           b == Clamp(500 + sig.x, 0, 1000)
           c == Clamp(500 - sig.x \div 4, 0, 1000)
<1>1. a \in Int /\ b \in Int /\ c \in Int /\ None \in Int
  <2>1. \A x \in Int : Clamp(x, 0, 1000) \in Int
    BY DEF Clamp
  <2>2. 500 + sig.x \div 2 \in Int /\ 500 + sig.x \in Int /\ 500 - sig.x \div 4 \in Int
    OBVIOUS
  <2> QED
    BY <2>1, <2>2 DEF None
<1>2. Hint(sig) \in {a, b, c, None}
  <2> HIDE DEF a, b, c
  <2> QED
    BY DEF Hint, a, b, c
<1> QED
  BY <1>1, <1>2

\* The upside is a positive number of thousandths.
LEMMA UpsideIs ==
  ASSUME NEW t, NEW f, NEW sig, NEW cfg, sig.x \in Int, f.bar \in Int, horizon \in Nat,
         cfg.scoring.ratio \in Nat \ {0}
  PROVE  Upside(t, f, sig, cfg) \in Nat \ {0}
<1> DEFINE r == cfg.scoring.ratio
           s == Stop(f)
<1>1. s \in 50..350
  BY StopIs
<1>2. r * s \in Nat /\ r * s >= 50
  <2>1. r \in Nat /\ r >= 1 /\ s \in Nat /\ s >= 50
    BY <1>1
  <2> HIDE DEF r, s
  <2> QED
    BY <2>1
<1>3. (r * s) \div 10 \in Nat \ {0}
  <2> DEFINE p == r * s
  <2>1. p \in Nat /\ p >= 50
    BY <1>2
  <2> HIDE DEF p
  <2>2. p \div 10 \in Nat \ {0}
    BY <2>1
  <2> QED
    BY <2>2 DEF p
<1>4. CASE Targets(sig, t) /\ sig.kind = "valuation_change" /\ sig.x >= 50
  <2>1. Clamp(sig.x, 0, 1000) \in Nat \ {0}
    <3>1. sig.x >= 50
      BY <1>4
    <3> QED
      BY <3>1 DEF Clamp
  <2>2. Upside(t, f, sig, cfg) = Clamp(sig.x, 0, 1000)
    BY <1>4 DEF Upside
  <2> QED
    BY <2>1, <2>2
<1>5. CASE ~(Targets(sig, t) /\ sig.kind = "valuation_change" /\ sig.x >= 50)
  <2>1. Upside(t, f, sig, cfg) = (r * s) \div 10
    BY <1>5, Zenon DEF Upside
  <2> QED
    BY <1>3, <2>1
<1> QED
  BY <1>4, <1>5

LEMMA Products == \A x, y \in Int : x * y \in Int /\ x + y \in Int /\ x - y \in Int
  OBVIOUS

LEMMA EVIs ==
  ASSUME NEW p \in Int, NEW win \in Int, NEW stop \in Int
  PROVE  EVScore(p, win, stop) \in Int
<1>1. p * win \in Int /\ 1000 - p \in Int
  BY Products
<1>2. (1000 - p) * stop \in Int
  BY <1>1, Products
<1> DEFINE x == p * win
           y == (1000 - p) * stop
<1> HIDE DEF x, y
<1>3. 500000 + x - y \in Int
  BY <1>1, <1>2 DEF x, y
<1>4. \A z \in Int : Clamp(z, 0, 1000000) \in Int
  BY DEF Clamp
<1>5. EVScore(p, win, stop) = IF p = None THEN 500000 ELSE Clamp(500000 + x - y, 0, 1000000)
  BY DEF EVScore, x, y
<1> QED
  BY <1>3, <1>4, <1>5

LEMMA RiskScoreIs ==
  ASSUME NEW f \in Readings
  PROVE  RiskScore(f) \in Int
<1>1. f.bar \in Int /\ f.dd \in Int
  BY DEF Readings
<1> QED
  BY <1>1 DEF RiskScore, Clamp

LEMMA LiquidityIs ==
  ASSUME NEW f \in Readings, NEW b \in Budgets
  PROVE  LiquidityFit(f, b) \in Int
<1> DEFINE notional == IF b.equity > 0 /\ b.pos > 0 THEN b.equity * b.pos ELSE 10000
           x == (100000 * f.adv) \div notional
<1>1. f.adv \in Int /\ b.equity \in Int /\ b.pos \in Int
  BY DEF Readings, Budgets
<1>2. notional \in Nat \ {0}
  <2> SUFFICES ASSUME b.equity > 0, b.pos > 0 PROVE b.equity * b.pos \in Nat \ {0}
    OBVIOUS
  <2> DEFINE e == b.equity
             q == b.pos
  <2>1. e \in Nat \ {0} /\ q \in Nat \ {0}
    BY <1>1
  <2> HIDE DEF e, q
  <2>2. e * q \in Nat \ {0}
    BY <2>1
  <2> QED
    BY <2>2 DEF e, q
<1>3. x \in Int
  <2> HIDE DEF notional
  <2>1. 100000 * f.adv \in Int
    BY <1>1
  <2> QED
    BY <1>2, <2>1
<1>4. LiquidityFit(f, b) = Min({1000, x})
  BY DEF LiquidityFit
<1> HIDE DEF x
<1> QED
  BY <1>3, <1>4, MinOfTwo

LEMMA HorizonIs ==
  ASSUME NEW f \in Readings, NEW win \in Nat \ {0}, horizon \in Nat
  PROVE  HorizonFit(f, win) \in Int
<1> DEFINE implied == IF f.bar = 0 THEN 0 ELSE Rounded(win * win, f.bar * f.bar)
           larger  == Max({horizon, implied})
           smaller == Min({horizon, implied})
<1>1. f.bar \in Int
  BY DEF Readings
<1>2. implied \in Nat
  <2> SUFFICES ASSUME f.bar # 0 PROVE Rounded(win * win, f.bar * f.bar) \in Nat
    OBVIOUS
  <2> DEFINE n == win * win
             d == f.bar * f.bar
  <2>1. n \in Nat
    OBVIOUS
  <2>2. d \in Nat \ {0}
    <3> DEFINE e == f.bar
    <3>1. e \in Int /\ e # 0
      BY <1>1
    <3> HIDE DEF e
    <3>2. e * e \in Nat \ {0}
      <4>1. CASE e > 0
        BY <3>1, <4>1
      <4>2. CASE e < 0
        <5> DEFINE g == 0 - e
        <5>1. g \in Nat \ {0} /\ e = 0 - g
          BY <3>1, <4>2
        <5> HIDE DEF g
        <5>2. (0 - g) * (0 - g) = g * g /\ g * g \in Nat \ {0}
          BY <5>1
        <5> QED
          BY <5>1, <5>2
      <4> QED
        BY <3>1, <4>1, <4>2
    <3> QED
      BY <3>2 DEF e
  <2> HIDE DEF n, d
  <2>3. Rounded(n, d) \in Nat
    BY <2>1, <2>2 DEF Rounded
  <2> QED
    BY <2>3 DEF n, d
<1> HIDE DEF implied
<1>3. larger \in Int /\ larger >= horizon /\ larger >= implied
      /\ smaller \in Int /\ smaller <= horizon /\ smaller <= implied
  BY <1>2, MinOfTwo, MaxOfTwo
<1>4. HorizonFit(f, win) =
        IF smaller = 0 THEN 500 ELSE 1000 - (1000 * (larger - smaller)) \div larger
  BY DEF HorizonFit, implied
<1>5. smaller # 0 => larger > 0
  <2>1. CASE horizon = 0 /\ implied = 0
    <3>1. smaller \in {horizon, implied}
      <4>1. smaller = Min({0, 0})
        BY <2>1
      <4>2. \E x \in {0, 0} : \A y \in {0, 0} : x <= y
        OBVIOUS
      <4>3. smaller \in {0, 0}
        BY <4>1, <4>2 DEF Min
      <4> QED
        BY <2>1, <4>3
    <3> QED
      BY <2>1, <3>1
  <2>2. CASE ~(horizon = 0 /\ implied = 0)
    BY <1>2, <1>3, <2>2
  <2> QED
    BY <2>1, <2>2
<1> HIDE DEF larger, smaller
<1>6. smaller # 0 => 1000 - (1000 * (larger - smaller)) \div larger \in Int
  <2> SUFFICES ASSUME smaller # 0 PROVE 1000 - (1000 * (larger - smaller)) \div larger \in Int
    OBVIOUS
  <2>1. 1000 * (larger - smaller) \in Int /\ larger \in Nat \ {0}
    BY <1>3, <1>5
  <2> DEFINE n == 1000 * (larger - smaller)
  <2> HIDE DEF n
  <2>2. n \div larger \in Int
    BY <2>1 DEF n
  <2> QED
    BY <2>2 DEF n
<1> QED
  BY <1>4, <1>6

LEMMA CompositeIs ==
  ASSUME NEW s, NEW weights \in Weights,
         s.ev \in Int, s.safety \in Int, s.liq \in Int, s.hor \in Int
  PROVE  Composite(s, weights) \in Int
<1> DEFINE w == Effective(weights)
           sum == w.ev + w.risk + w.liq + w.hor
           n == w.ev * s.ev + 1000 * (w.risk * s.safety + w.liq * s.liq + w.hor * s.hor)
<1>1. w \in Weights /\ sum > 0
  BY DEF Effective, Weights
<1>2. w.ev \in Int /\ w.risk \in Int /\ w.liq \in Int /\ w.hor \in Int
  BY <1>1 DEF Weights
<1> HIDE DEF w
<1>3. n \in Int
  <2>1. w.ev * s.ev \in Int /\ w.risk * s.safety \in Int /\ w.liq * s.liq \in Int /\ w.hor * s.hor \in Int
    BY <1>2, Products
  <2>2. w.risk * s.safety + w.liq * s.liq + w.hor * s.hor \in Int
    BY <2>1, Products
  <2>3. 1000 * (w.risk * s.safety + w.liq * s.liq + w.hor * s.hor) \in Int
    BY <2>2, Products
  <2> QED
    BY <2>1, <2>3, Products
<1>4. 10000 * sum \in Nat \ {0}
  BY <1>1, <1>2
<1>5. Composite(s, weights) = Clamp(Rounded(n, 10000 * sum), 0, 100)
  BY DEF Composite, w
<1> HIDE DEF n, sum
<1>6. Rounded(n, 10000 * sum) \in Int
  BY <1>3, <1>4, RoundedIsInt
<1>7. \A x \in Int : Clamp(x, 0, 100) \in Int
  BY DEF Clamp
<1> QED
  BY <1>5, <1>6, <1>7

\* The least of up to three bounds.
LEMMA MinOfThree ==
  ASSUME NEW a \in Int, NEW x \in Int, NEW y \in Int, NEW S, a \in S, S \subseteq {a, x, y}
  PROVE  Min(S) \in S /\ Min(S) \in Int /\ \A v \in S : Min(S) <= v
<1>1. \E z \in S : \A v \in S : z <= v
  <2>1. CASE \A v \in S : a <= v
    BY <2>1
  <2>2. CASE x \in S /\ x <= a /\ (y \in S => x <= y)
    <3>1. \A v \in S : x <= v
      BY <2>2
    <3> QED
      BY <2>2, <3>1
  <2>3. CASE y \in S /\ y <= a /\ (x \in S => y <= x)
    <3>1. \A v \in S : y <= v
      BY <2>3
    <3> QED
      BY <2>3, <3>1
  <2> QED
    BY <2>1, <2>2, <2>3
<1>2. Min(S) \in S /\ \A v \in S : Min(S) <= v
  BY <1>1 DEF Min
<1> QED
  BY <1>2

\* A size keeps to the concentration and to the per-trade cap.
LEMMA SizeIs ==
  ASSUME NEW p \in Int, NEW win \in Nat \ {0}, NEW stop \in 50..350, NEW b \in Budgets,
         NEW z, z = PositionFraction(p, win, stop, b)
  PROVE  /\ z \in Int
         /\ b.pos > 0 => 100 * z <= b.pos + 50
         /\ b.trade > 0 => 2 * z * stop <= 20 * b.trade + stop
<1> DEFINE edge == p * win - (1000 - p) * stop
           k == IF edge <= 0 \/ b.kelly <= 0 THEN 0 ELSE Rounded(b.kelly * edge, 16000 * win)
           x == Rounded(b.pos, 100)
           y == Rounded(10 * b.trade, stop)
           S == {k} \cup (IF b.pos > 0 THEN {x} ELSE {}) \cup (IF b.trade > 0 THEN {y} ELSE {})
<1>1. b.pos \in Int /\ b.trade \in Int /\ b.kelly \in Int
  BY DEF Budgets
<1>2. edge \in Int
  <2>1. p * win \in Int /\ 1000 - p \in Int /\ stop \in Int
    BY Products
  <2>2. (1000 - p) * stop \in Int
    BY <2>1, Products
  <2> QED
    BY <2>1, <2>2, Products
<1>3. k \in Int
  <2> HIDE DEF edge
  <2>1. b.kelly * edge \in Int /\ 16000 * win \in Nat \ {0}
    BY <1>1, <1>2, Products
  <2>2. Rounded(b.kelly * edge, 16000 * win) \in Int
    BY <2>1, RoundedIsInt
  <2> QED
    BY <2>2
<1>4. b.pos > 0 => x \in Int /\ 100 * x <= b.pos + 50
  BY <1>1 DEF Rounded
<1>5. x \in Int /\ y \in Int
  <2>1. 100 \in Nat \ {0} /\ stop \in Nat \ {0} /\ 10 * b.trade \in Int
    BY <1>1
  <2> QED
    BY <1>1, <2>1, RoundedIsInt
<1>6. b.trade > 0 => 2 * y * stop <= 20 * b.trade + stop
  <2> SUFFICES ASSUME b.trade > 0 PROVE 2 * y * stop <= 20 * b.trade + stop
    OBVIOUS
  <2> DEFINE n == 20 * b.trade + stop
             d == 2 * stop
  <2>1. n \in Nat /\ d \in Nat \ {0}
    BY <1>1
  <2>2. y = n \div d
    <3>1. 10 * b.trade >= 0 /\ 2 * (10 * b.trade) = 20 * b.trade
      BY <1>1
    <3> QED
      BY <3>1 DEF Rounded
  <2> HIDE DEF n, d, y
  <2>3. d * (n \div d) <= n
    BY <2>1
  <2>4. 2 * y * stop = d * y
    BY <1>5 DEF d
  <2> QED
    BY <2>2, <2>3, <2>4 DEF n
<1>7. z = Min(S)
  BY DEF PositionFraction
<1> HIDE DEF k, x, y, edge
<1>8. k \in S /\ S \subseteq {k, x, y} /\ (b.pos > 0 => x \in S) /\ (b.trade > 0 => y \in S)
  OBVIOUS
<1> HIDE DEF S
<1>9. z \in Int /\ \A v \in S : z <= v
  <2>1. Min(S) \in Int /\ \A v \in S : Min(S) <= v
    BY <1>3, <1>5, <1>8, MinOfThree
  <2> QED
    BY <1>7, <2>1
<1>10. ASSUME b.pos > 0 PROVE 100 * z <= b.pos + 50
  <2>1. z <= x
    BY <1>8, <1>9, <1>10
  <2> QED
    BY <1>1, <1>4, <1>5, <1>9, <1>10, <2>1
<1>11. ASSUME b.trade > 0 PROVE 2 * z * stop <= 20 * b.trade + stop
  <2>1. z <= y
    BY <1>8, <1>9, <1>11
  <2>2. 2 * z * stop <= 2 * y * stop
    BY <1>5, <1>9, <2>1
  <2>3. 2 * z * stop \in Int /\ 2 * y * stop \in Int /\ 20 * b.trade + stop \in Int
    BY <1>1, <1>5, <1>9
  <2>4. 2 * y * stop <= 20 * b.trade + stop
    BY <1>6, <1>11
  <2> DEFINE u == 2 * z * stop
             v == 2 * y * stop
  <2> HIDE DEF u, v
  <2>5. u <= 20 * b.trade + stop
    BY <2>2, <2>3, <2>4 DEF u, v
  <2> QED
    BY <2>5 DEF u
<1> QED
  BY <1>9, <1>10, <1>11

\* What a plan may state of a thesis under a budget.
Sized(m, b) ==
  /\ m.size \in Int /\ m.stop \in Int
  /\ b.pos > 0 => 100 * m.size <= b.pos + 50
  /\ b.trade > 0 => 2 * m.size * m.stop <= 20 * b.trade + m.stop

IsConfig(c) == IsScoring(c.scoring) /\ c.prior \in Priors /\ c.shared \in Weights

LEMMA ThesisIs ==
  ASSUME NEW t, NEW f \in Readings, NEW sig, NEW cfg, NEW b \in Budgets,
         sig.x \in Int, IsConfig(cfg), horizon \in Nat,
         NEW m, m = buildMove(t, scoreThesis(t, f, sig, cfg, b), cfg)
  PROVE  /\ m.key = t /\ m.broken \in BOOLEAN /\ m.rank \in Int /\ m.raw \in Int
         /\ Sized(m, b)
<1> DEFINE p == WinProb(t, f, sig, cfg)
           q == IF p = None THEN 500 ELSE p
           win == Upside(t, f, sig, cfg)
           s == scoreThesis(t, f, sig, cfg, b)
<1>1. f.bar \in Int /\ cfg.prior \in Priors /\ cfg.shared \in Weights
      /\ cfg.scoring.ratio \in Nat \ {0} /\ cfg.scoring.weights \in Weights
  BY DEF Readings, IsConfig, IsScoring, Scorings
<1>2. Stop(f) \in 50..350 /\ win \in Nat \ {0}
  BY <1>1, StopIs, UpsideIs
<1>3. p \in Int
  BY <1>1, HintIs, PriorIs DEF WinProb
<1>4. q \in Int
  BY <1>3
<1>5. /\ s.ev = EVScore(p, win, Stop(f)) /\ s.safety = RiskScore(f) /\ s.liq = LiquidityFit(f, b)
      /\ s.hor = HorizonFit(f, win) /\ s.stop = Stop(f)
      /\ s.size = PositionFraction(q, win, Stop(f), b)
      /\ s.broken = (Targets(sig, t) /\ sig.kind = "thesis_break")
  BY DEF scoreThesis
<1>6. /\ m.key = t /\ m.size = s.size /\ m.stop = s.stop /\ m.broken = s.broken
      /\ m.raw = (IF s.broken THEN 0 ELSE Composite(s, cfg.shared))
      /\ m.rank = (IF s.broken THEN 0 ELSE Composite(s, cfg.scoring.weights))
  BY DEF buildMove
<1> HIDE DEF p, q, win, s
<1>7. s.ev \in Int
  <2>1. win \in Int /\ Stop(f) \in Int
    BY <1>2
  <2>2. EVScore(p, win, Stop(f)) \in Int
    BY <1>3, <2>1, EVIs
  <2> QED
    BY <1>5, <2>2
<1>8. s.safety \in Int /\ s.liq \in Int
  BY <1>5, RiskScoreIs, LiquidityIs
<1>9. s.hor \in Int
  BY <1>2, <1>5, HorizonIs
<1>10. Composite(s, cfg.shared) \in Int /\ Composite(s, cfg.scoring.weights) \in Int
  BY <1>1, <1>7, <1>8, <1>9, CompositeIs
<1>11. Sized(m, b)
  <2> DEFINE z == m.size
             h == Stop(f)
  <2>1. z = PositionFraction(q, win, h, b) /\ h \in 50..350 /\ m.stop = h
    BY <1>2, <1>5, <1>6
  <2> HIDE DEF z, h
  <2>2. /\ z \in Int
        /\ b.pos > 0 => 100 * z <= b.pos + 50
        /\ b.trade > 0 => 2 * z * h <= 20 * b.trade + h
    BY <1>2, <1>4, <2>1, SizeIs
  <2>3. m.stop \in Int
    BY <2>1
  <2> QED
    BY <2>1, <2>2, <2>3 DEF Sized, z
<1>12. m.broken \in BOOLEAN
  <2>1. (Targets(sig, t) /\ sig.kind = "thesis_break") \in BOOLEAN
    OBVIOUS
  <2> QED
    BY <1>5, <1>6, <2>1
<1> QED
  BY <1>6, <1>10, <1>11, <1>12

-----------------------------------------------------------------------------
(* The portfolio.                                                          *)

\* A sum of numbers is a number, and one of nothing is nothing.
LEMMA SumIs ==
  ASSUME NEW n \in Nat, NEW f, \A k \in 1..n : f[k] \in Int
  PROVE  SumTo(f, n) \in Int /\ ((\A k \in 1..n : f[k] = 0) => SumTo(f, n) = 0)
<1> DEFINE step(s) == [k \in 0..n |-> IF k = 0 THEN 0 ELSE s[k - 1] + f[k]]
           runs(m) == {s \in [0..m -> Int] : s[0] = 0 /\ \A k \in 1..m : s[k] = s[k - 1] + f[k]}
           S == {m \in Nat : m <= n => runs(m) # {}}
           sum == CHOOSE s : s = step(s)
<1>1. 0 \in S
  <2> DEFINE s == [k \in 0..0 |-> 0]
  <2>1. s \in [0..0 -> Int] /\ s[0] = 0 /\ 1..0 = {}
    OBVIOUS
  <2> HIDE DEF s
  <2>2. s \in runs(0)
    BY <2>1
  <2> QED
    BY <2>2
<1>2. ASSUME NEW m \in Nat, m \in S PROVE m + 1 \in S
  <2> SUFFICES ASSUME m + 1 <= n PROVE runs(m + 1) # {}
    OBVIOUS
  <2>1. m <= n /\ m + 1 \in 1..n
    OBVIOUS
  <2>2. PICK s : s \in runs(m)
    BY <1>2, <2>1
  <2> DEFINE x == f[m + 1]
             t == [k \in 0..(m + 1) |-> IF k = m + 1 THEN s[m] + x ELSE s[k]]
  <2>3. s \in [0..m -> Int] /\ s[0] = 0 /\ \A k \in 1..m : s[k] = s[k - 1] + f[k]
    BY <2>2
  <2>4. x \in Int
    BY <2>1
  <2>5. t \in [0..(m + 1) -> Int] /\ t[0] = 0
    BY <2>3, <2>4
  <2>6. ASSUME NEW k \in 1..(m + 1) PROVE t[k] = t[k - 1] + f[k]
    <3>1. CASE k = m + 1
      <4>1. t[k] = s[m] + x /\ t[k - 1] = s[m]
        BY <3>1
      <4> QED
        BY <3>1, <4>1
    <3>2. CASE k # m + 1
      <4>1. k \in 1..m /\ t[k] = s[k] /\ t[k - 1] = s[k - 1]
        BY <3>2
      <4> QED
        BY <2>3, <4>1
    <3> QED
      BY <3>1, <3>2
  <2> HIDE DEF t
  <2>7. t \in runs(m + 1)
    BY <2>5, <2>6
  <2> QED
    BY <2>7
<1>3. n \in S
  <2> HIDE DEF S
  <2> QED
    BY <1>1, <1>2, EveryNumber
<1>4. PICK s : s \in runs(n)
  BY <1>3
<1>5. s = step(s)
  <2>1. s \in [0..n -> Int] /\ s[0] = 0 /\ \A k \in 1..n : s[k] = s[k - 1] + f[k]
    BY <1>4
  <2>2. \A k \in 0..n : k = 0 \/ k \in 1..n
    OBVIOUS
  <2>3. \A k \in 0..n : s[k] = step(s)[k]
    BY <2>1, <2>2
  <2> QED
    BY <2>1, <2>3
<1>6. sum = step(sum)
  <2> HIDE DEF step
  <2> QED
    BY <1>5
<1> HIDE DEF sum
<1>7. sum[0] = 0 /\ \A k \in 1..n : sum[k] = sum[k - 1] + f[k]
  BY <1>6
<1> DEFINE R == {m \in Nat : m <= n => sum[m] \in Int}
           Z == {m \in Nat : m <= n => sum[m] = 0}
<1>8. n \in R
  <2>1. 0 \in R
    BY <1>7
  <2>2. ASSUME NEW m \in Nat, m \in R PROVE m + 1 \in R
    <3> SUFFICES ASSUME m + 1 <= n PROVE sum[m + 1] \in Int
      OBVIOUS
    <3>1. sum[m] \in Int /\ m + 1 \in 1..n /\ (m + 1) - 1 = m
      BY <2>2
    <3>2. sum[m + 1] = sum[m] + f[m + 1] /\ f[m + 1] \in Int
      BY <1>7, <3>1
    <3> QED
      BY <3>1, <3>2
  <2> HIDE DEF R
  <2> QED
    BY <2>1, <2>2, EveryNumber
<1>9. ASSUME \A k \in 1..n : f[k] = 0 PROVE n \in Z
  <2>1. 0 \in Z
    BY <1>7
  <2>2. ASSUME NEW m \in Nat, m \in Z PROVE m + 1 \in Z
    <3> SUFFICES ASSUME m + 1 <= n PROVE sum[m + 1] = 0
      OBVIOUS
    <3>1. sum[m] = 0 /\ m + 1 \in 1..n /\ (m + 1) - 1 = m
      BY <2>2
    <3>2. sum[m + 1] = sum[m] + f[m + 1] /\ f[m + 1] = 0
      BY <1>7, <1>9, <3>1
    <3> QED
      BY <3>1, <3>2
  <2> HIDE DEF Z
  <2> QED
    BY <2>1, <2>2, EveryNumber
<1>10. SumTo(f, n) = sum[n]
  BY DEF SumTo, sum
<1> QED
  BY <1>8, <1>9, <1>10

\* The risk of a portfolio is a number, and that of no capital at risk is nothing.
LEMMA RiskIs ==
  ASSUME NEW m, m.rho \in Int, NEW r, \A i \in 1..Len(Tickers) : r[i] \in Int
  PROVE  /\ PortfolioRisk(m, r) \in Int
         /\ (\A i \in 1..Len(Tickers) : r[i] = 0) => PortfolioRisk(m, r) = 0
<1> DEFINE n == Len(Tickers)
           row(i) == [j \in 1..n |-> r[i] * r[j] * Correlation(m, i, j)]
           rows == [i \in 1..n |-> SumTo(row(i), n)]
<1>1. n \in Nat
  BY SizingAssumption
<1>2. \A i, j \in 1..n : Correlation(m, i, j) \in Int
  BY DEF Correlation
<1>3. \A i, j \in 1..n : row(i)[j] \in Int
  BY <1>2, Products
<1>4. (\A i \in 1..n : r[i] = 0) => \A i, j \in 1..n : row(i)[j] = 0
  <2> SUFFICES ASSUME \A i \in 1..n : r[i] = 0, NEW i \in 1..n, NEW j \in 1..n PROVE row(i)[j] = 0
    OBVIOUS
  <2>1. Correlation(m, i, j) \in Int /\ r[i] = 0 /\ r[j] = 0
    BY <1>2
  <2> DEFINE c == Correlation(m, i, j)
  <2>2. 0 * 0 * c = 0
    BY <2>1
  <2> QED
    BY <2>1, <2>2
<1> HIDE DEF row
<1>5. \A i \in 1..n : SumTo(row(i), n) \in Int
                      /\ ((\A j \in 1..n : row(i)[j] = 0) => SumTo(row(i), n) = 0)
  BY <1>1, <1>3, SumIs
<1>6. \A i \in 1..n : rows[i] \in Int /\ rows[i] = SumTo(row(i), n)
  BY <1>5
<1>7. PortfolioRisk(m, r) = SumTo(rows, n)
  BY DEF PortfolioRisk, row
<1> HIDE DEF rows, n
<1>8. SumTo(rows, n) \in Int /\ ((\A i \in 1..n : rows[i] = 0) => SumTo(rows, n) = 0)
  BY <1>1, <1>6, SumIs
<1> QED
  BY <1>4, <1>5, <1>6, <1>7, <1>8 DEF n

\* Places are taken once each: every thesis has one, and every place a thesis.
LEMMA PlacedIs ==
  ASSUME NEW ths, IsFiniteSet(DOMAIN ths), DOMAIN ths \subseteq Int,
         \A i \in DOMAIN ths : ths[i].rank \in Int /\ ths[i].raw \in Int,
         NEW n, n = Cardinality(DOMAIN ths)
  PROVE  /\ n \in Nat
         /\ \A k \in 1..n : Placed(ths, k) \in DOMAIN ths
         /\ \A k, l \in 1..n : Placed(ths, k) = Placed(ths, l) => k = l
         /\ \A i \in DOMAIN ths : \E k \in 1..n : Placed(ths, k) = i
<1> DEFINE D == DOMAIN ths
           above(i) == {j \in D : Outranks(ths[j], ths[i], j, i)}
           place == [i \in D |-> Cardinality(above(i)) + 1]
<1>1. n \in Nat /\ IsFiniteSet(1..n) /\ Cardinality(1..n) = n
  <2>1. n \in Nat
    BY FS_CardinalityType
  <2>2. IsFiniteSet(1..n) /\ Cardinality(1..n) = IF 1 > n THEN 0 ELSE n - 1 + 1
    <3>1. 1 \in Int /\ n \in Int
      BY <2>1
    <3> QED
      BY <3>1, FS_Interval
  <2> QED
    BY <2>1, <2>2
<1>2. ASSUME NEW i \in D, NEW j \in D, i # j
      PROVE  Outranks(ths[i], ths[j], i, j) \/ Outranks(ths[j], ths[i], j, i)
  BY <1>2 DEF Outranks
<1>3. ASSUME NEW i \in D, NEW j \in D, NEW k \in D,
             Outranks(ths[i], ths[j], i, j), Outranks(ths[j], ths[k], j, k)
      PROVE  Outranks(ths[i], ths[k], i, k)
  BY <1>3 DEF Outranks
<1>4. \A i \in D : ~Outranks(ths[i], ths[i], i, i)
  BY DEF Outranks
<1>5. \A i \in D : i \notin above(i) /\ above(i) \in SUBSET D
  BY <1>4
<1>6. \A i, j \in D : Outranks(ths[i], ths[j], i, j) =>
        i \in above(j) /\ above(i) \in SUBSET above(j)
  BY <1>3
<1> HIDE DEF above
<1>7. ASSUME NEW i \in D
      PROVE  IsFiniteSet(above(i)) /\ Cardinality(above(i)) \in Nat /\ Cardinality(above(i)) < n
  <2>1. above(i) \in SUBSET D /\ i \notin above(i) /\ IsFiniteSet(D)
    BY <1>5, <1>7
  <2>2. /\ IsFiniteSet(above(i)) /\ Cardinality(above(i)) <= Cardinality(D)
        /\ Cardinality(D) = Cardinality(above(i)) => D = above(i)
    BY <2>1, FS_Subset
  <2>3. Cardinality(above(i)) \in Nat
    BY <2>2, FS_CardinalityType
  <2>4. D # above(i)
    BY <1>7, <2>1
  <2> QED
    BY <1>1, <2>2, <2>3, <2>4
<1>8. ASSUME NEW i \in D, NEW j \in D, Outranks(ths[i], ths[j], i, j)
      PROVE  Cardinality(above(i)) # Cardinality(above(j))
  <2>1. above(i) \in SUBSET above(j) /\ i \in above(j) /\ i \notin above(i)
    BY <1>5, <1>6, <1>8
  <2>2. IsFiniteSet(above(j))
    BY <1>7
  <2>3. Cardinality(above(j)) = Cardinality(above(i)) => above(j) = above(i)
    BY <2>1, <2>2, FS_Subset
  <2> QED
    BY <2>1, <2>3
<1>9. \A i \in D : place[i] \in 1..n /\ place[i] - 1 = Cardinality(above(i))
  BY <1>1, <1>7
<1>10. \A i, j \in D : place[i] = place[j] => i = j
  BY <1>2, <1>8, <1>9
<1>11. place = [i \in D |-> place[i]]
  OBVIOUS
<1> HIDE DEF place
<1>12. place \in Injection(D, 1..n)
  <2>1. place \in [D -> 1..n]
    BY <1>9, <1>11
  <2> QED
    BY <1>10, <2>1 DEF Injection, IsInjective
<1>13. place \in Surjection(D, 1..n)
  BY <1>1, <1>12, FS_Injection
<1>14. \A k \in 1..n : \E i \in D : place[i] = k
  BY <1>13 DEF Surjection
<1>15. \A k \in 1..n : Placed(ths, k) = CHOOSE i \in D : Cardinality(above(i)) = k - 1
  BY DEF Placed, above
<1>16. ASSUME NEW k \in 1..n
       PROVE  Placed(ths, k) \in D /\ Cardinality(above(Placed(ths, k))) = k - 1
  <2>1. PICK i \in D : place[i] = k
    BY <1>14, <1>16
  <2>2. Cardinality(above(i)) = k - 1
    BY <1>9, <2>1
  <2> QED
    BY <1>15, <1>16, <2>2
<1>17. \A k \in 1..n : Placed(ths, k) \in D /\ place[Placed(ths, k)] = k
  BY <1>1, <1>7, <1>9, <1>16
<1>18. \A i \in D : Placed(ths, place[i]) = i
  BY <1>9, <1>10, <1>17
<1> QED
  BY <1>1, <1>9, <1>17, <1>18

\* The theses of a plan, at the places of their tickers, and how a plan orders them.
AreTheses(ths, b) ==
  /\ DOMAIN ths \subseteq DOMAIN Tickers
  /\ \A i \in DOMAIN ths :
       /\ ths[i].key = Tickers[i] /\ ths[i].broken \in BOOLEAN
       /\ ths[i].rank \in Int /\ ths[i].raw \in Int
       /\ Sized(ths[i], b)

Ordered(ranking, ths) ==
  LET n == Cardinality(DOMAIN ths)
  IN  ranking.moves = IF n = 0 THEN <<insufficientDataMove>> ELSE [k \in 1..n |-> ths[Placed(ths, k)]]

LEMMA ThesesAre ==
  ASSUME SizingInv, NEW sig, sig.x \in Int
  PROVE  AreTheses(Theses(sig), budget)
<1> DEFINE ths == Theses(sig)
<1>1. /\ budget \in Budgets /\ IsConfig(config) /\ horizon \in Nat /\ market \in Markets
  BY DEF SizingInv, IsConfig
<1>2. market.facts \in [Range(Tickers) -> Readings]
  BY <1>1, SizingAssumption
<1>3. DOMAIN ths \subseteq DOMAIN Tickers
  BY DEF Theses, candidateTickers
<1>4. ASSUME NEW i \in DOMAIN ths
      PROVE  /\ ths[i].key = Tickers[i] /\ ths[i].broken \in BOOLEAN
             /\ ths[i].rank \in Int /\ ths[i].raw \in Int
             /\ Sized(ths[i], budget)
  <2> DEFINE t == Tickers[i]
             f == market.facts[t]
  <2>1. ths[i] = buildMove(t, scoreThesis(t, f, sig, config, budget), config)
    BY <1>4 DEF Theses
  <2>2. f \in Readings
    <3>1. t \in Range(Tickers)
      BY <1>3, <1>4 DEF Range
    <3> QED
      BY <1>2, <3>1
  <2> HIDE DEF ths, f
  <2> QED
    BY <1>1, <2>1, <2>2, ThesisIs
<1> QED
  BY <1>3, <1>4 DEF AreTheses

\* A plan sizes a ticker once, and its theses are the ones whose risk was scaled.
LEMMA OrderedIs ==
  ASSUME NEW b, NEW ths, AreTheses(ths, b), NEW ranking, Ordered(ranking, ths), DOMAIN ths # {}
  PROVE  /\ \A k \in LiveTheses(ranking) :
              /\ Held(ranking, ranking.moves[k].key) = {k} /\ Sized(ranking.moves[k], b)
              /\ ranking.moves[k].key \in Range(Tickers)
         /\ HeldRisk(ranking) = AtRisk(ths)
<1> DEFINE D == DOMAIN ths
           n == Cardinality(D)
           at(k) == Placed(ths, k)
<1>1. Len(Tickers) \in Nat /\ DOMAIN Tickers = 1..Len(Tickers)
      /\ \A i, j \in DOMAIN Tickers : Tickers[i] = Tickers[j] => i = j
  BY SizingAssumption
<1>2. D \subseteq DOMAIN Tickers /\ D \subseteq Int /\ IsFiniteSet(D)
  <2>1. IsFiniteSet(DOMAIN Tickers)
    BY <1>1, FS_Interval
  <2>2. D \subseteq DOMAIN Tickers
    BY DEF AreTheses
  <2> QED
    BY <1>1, <2>1, <2>2, FS_Subset
<1>3. \A i \in D : /\ ths[i].key = Tickers[i] /\ ths[i].broken \in BOOLEAN
                   /\ ths[i].rank \in Int /\ ths[i].raw \in Int /\ Sized(ths[i], b)
  BY DEF AreTheses
<1>4. /\ n \in Nat
      /\ \A k \in 1..n : at(k) \in D
      /\ \A k, l \in 1..n : at(k) = at(l) => k = l
      /\ \A i \in D : \E k \in 1..n : at(k) = i
  BY <1>2, <1>3, PlacedIs
<1>5. n # 0
  BY <1>2, FS_EmptySet
<1>6. ranking.moves = [k \in 1..n |-> ths[at(k)]]
  BY <1>5 DEF Ordered
<1> HIDE DEF D, n, at
<1>7. \A k \in 1..n : ranking.moves[k] = ths[at(k)] /\ ranking.moves[k].key = Tickers[at(k)]
  BY <1>3, <1>4, <1>6
<1>8. LiveTheses(ranking) = {k \in 1..n : ~ths[at(k)].broken}
  <2>1. DOMAIN ranking.moves = 1..n
    BY <1>6
  <2> QED
    BY <1>7, <2>1 DEF LiveTheses
<1>9. \A i \in DOMAIN Tickers, k \in 1..n : ranking.moves[k].key = Tickers[i] => at(k) = i
  BY <1>1, <1>2, <1>4, <1>7
<1>10. ASSUME NEW k \in LiveTheses(ranking)
       PROVE  /\ Held(ranking, ranking.moves[k].key) = {k} /\ Sized(ranking.moves[k], b)
              /\ ranking.moves[k].key \in Range(Tickers)
  <2>1. k \in 1..n /\ at(k) \in D /\ at(k) \in DOMAIN Tickers
    BY <1>2, <1>4, <1>8, <1>10
  <2>2. ranking.moves[k] = ths[at(k)] /\ ranking.moves[k].key = Tickers[at(k)]
    BY <1>7, <2>1
  <2>3. Sized(ranking.moves[k], b)
    BY <1>3, <2>1, <2>2
  <2>4. ranking.moves[k].key \in Range(Tickers)
    BY <2>1, <2>2 DEF Range
  <2>5. \A l \in LiveTheses(ranking) : ranking.moves[l].key = ranking.moves[k].key => l = k
    BY <1>4, <1>8, <1>9, <2>1, <2>2
  <2>6. Held(ranking, ranking.moves[k].key) = {k}
    BY <1>10, <2>5 DEF Held
  <2> QED
    BY <2>3, <2>4, <2>6
<1>11. ASSUME NEW i \in DOMAIN Tickers
       PROVE  HeldRisk(ranking)[i] = AtRisk(ths)[i]
  <2>1. AtRisk(ths)[i] = IF i \in D THEN Fraction(ths[i]) * ths[i].stop ELSE 0
    BY <1>11 DEF AtRisk, D
  <2>2. HeldRisk(ranking)[i] = IF Held(ranking, Tickers[i]) = {} THEN 0
                            ELSE LET m == ranking.moves[CHOOSE k \in Held(ranking, Tickers[i]) : TRUE]
                                 IN  m.size * m.stop
    BY <1>11 DEF HeldRisk
  <2>3. \A k \in Held(ranking, Tickers[i]) : k \in LiveTheses(ranking) /\ ranking.moves[k].key = Tickers[i]
    BY DEF Held
  <2>4. \A k \in Held(ranking, Tickers[i]) : k \in 1..n /\ at(k) = i /\ ~ths[i].broken
    BY <1>8, <1>9, <1>11, <2>3
  <2>5. CASE i \in D /\ ~ths[i].broken
    <3>1. PICK k \in 1..n : at(k) = i
      BY <1>4, <2>5
    <3>2. k \in LiveTheses(ranking) /\ ranking.moves[k] = ths[i] /\ ranking.moves[k].key = Tickers[i]
      BY <1>7, <1>8, <2>5, <3>1
    <3>3. Held(ranking, Tickers[i]) = {k}
      BY <1>10, <3>2
    <3>4. HeldRisk(ranking)[i] = ths[i].size * ths[i].stop
      BY <2>2, <3>2, <3>3
    <3>5. Fraction(ths[i]) = ths[i].size
      BY <2>5 DEF Fraction
    <3> QED
      BY <2>1, <2>5, <3>4, <3>5
  <2>6. CASE i \in D /\ ths[i].broken
    <3>1. HeldRisk(ranking)[i] = 0
      BY <2>2, <2>4, <2>6
    <3>2. Fraction(ths[i]) = 0 /\ ths[i].stop \in Int
      BY <1>3, <2>6 DEF Fraction, Sized
    <3> DEFINE s == ths[i].stop
    <3>3. s \in Int /\ AtRisk(ths)[i] = 0 * s
      BY <2>1, <2>6, <3>2
    <3> HIDE DEF s
    <3> QED
      BY <3>1, <3>3
  <2>7. CASE i \notin D
    <3>1. Held(ranking, Tickers[i]) = {}
      BY <1>4, <2>4, <2>7
    <3> QED
      BY <2>1, <2>2, <2>7, <3>1
  <2> QED
    BY <1>3, <2>5, <2>6, <2>7
<1>12. HeldRisk(ranking) = AtRisk(ths)
  BY <1>11 DEF HeldRisk, AtRisk
<1> QED
  BY <1>10, <1>12

\* A plan without a thesis holds nothing.
LEMMA EmptyPlanIs ==
  ASSUME NEW b \in Budgets, NEW ths, DOMAIN ths = {}, NEW ranking, Ordered(ranking, ths)
  PROVE  /\ \A k \in LiveTheses(ranking) :
              /\ Held(ranking, ranking.moves[k].key) = {k} /\ Sized(ranking.moves[k], b)
              /\ ranking.moves[k].size = 0
         /\ HeldRisk(ranking) = AtRisk(ths)
<1> DEFINE x == insufficientDataMove
<1>1. Cardinality(DOMAIN ths) = 0
  BY FS_EmptySet
<1>2. x.size = 0 /\ x.stop = 0 /\ x.broken = FALSE
  BY DEF insufficientDataMove
<1>3. ranking.moves = <<x>>
  BY <1>1 DEF Ordered
<1> HIDE DEF x
<1>4. DOMAIN ranking.moves = {1} /\ ranking.moves[1] = x
  BY <1>3
<1>5. LiveTheses(ranking) = {1}
  BY <1>2, <1>4 DEF LiveTheses
<1>6. Held(ranking, x.key) = {1} /\ \A t : Held(ranking, t) \subseteq {1}
  BY <1>4, <1>5 DEF Held
<1>7. Sized(x, b)
  <2>1. b.pos \in Int /\ b.trade \in Int
    BY DEF Budgets
  <2> QED
    BY <1>2, <2>1 DEF Sized
<1>8. ASSUME NEW i \in DOMAIN Tickers PROVE HeldRisk(ranking)[i] = AtRisk(ths)[i]
  <2>1. AtRisk(ths)[i] = 0
    BY <1>8 DEF AtRisk
  <2>2. HeldRisk(ranking)[i] = IF Held(ranking, Tickers[i]) = {} THEN 0
                            ELSE LET m == ranking.moves[CHOOSE k \in Held(ranking, Tickers[i]) : TRUE]
                                 IN  m.size * m.stop
    BY <1>8 DEF HeldRisk
  <2>3. CASE Held(ranking, Tickers[i]) = {}
    BY <2>1, <2>2, <2>3
  <2>4. CASE Held(ranking, Tickers[i]) # {}
    <3>1. Held(ranking, Tickers[i]) = {1}
      BY <1>6, <2>4
    <3>2. HeldRisk(ranking)[i] = x.size * x.stop
      BY <1>4, <2>2, <3>1
    <3> QED
      BY <1>2, <2>1, <3>2
  <2> QED
    BY <2>3, <2>4
<1>9. HeldRisk(ranking) = AtRisk(ths)
  BY <1>8 DEF HeldRisk, AtRisk
<1> QED
  BY <1>2, <1>4, <1>5, <1>6, <1>7, <1>9

\* The squares ScaleToRiskCap compares bound the risk of the sizes.
LEMMA ScaleIs ==
  ASSUME market \in Markets, NEW b \in Budgets, NEW ths, AreTheses(ths, b)
  PROVE  LET risk == PortfolioRisk(market, AtRisk(ths))
             s    == Scale(ths, b)
         IN  b.agg > 0 => risk <= IF s > 0 THEN s ELSE 100 * b.agg * b.agg
<1> DEFINE r    == AtRisk(ths)
           risk == PortfolioRisk(market, r)
           agg  == AggregateRisk(ths)
           s    == Scale(ths, b)
           cap  == 100 * b.agg * b.agg
<1>1. \A i \in 1..Len(Tickers) : r[i] \in Int
  <2> SUFFICES ASSUME NEW i \in 1..Len(Tickers) PROVE r[i] \in Int
    OBVIOUS
  <2>1. i \in DOMAIN Tickers
    BY SizingAssumption
  <2>2. r[i] = IF i \in DOMAIN ths THEN Fraction(ths[i]) * ths[i].stop ELSE 0
    BY <2>1 DEF AtRisk
  <2>3. i \in DOMAIN ths => Fraction(ths[i]) \in Int /\ ths[i].stop \in Int
    BY DEF AreTheses, Sized, Fraction
  <2> HIDE DEF r
  <2> QED
    BY <2>2, <2>3, Products
<1>2. risk \in Int
  <2>1. market.rho \in Int
    BY SizingAssumption
  <2> HIDE DEF r
  <2> QED
    BY <1>1, <2>1, RiskIs
<1>3. agg = IF risk <= 0 THEN 0 ELSE risk
  BY DEF AggregateRisk
<1>4. s = IF b.agg <= 0 \/ agg <= cap THEN 0 ELSE agg
  BY DEF Scale
<1>5. b.agg \in Int
  BY DEF Budgets
<1>6. b.agg > 0 => cap \in Nat
  <2> SUFFICES ASSUME b.agg > 0 PROVE cap \in Nat
    OBVIOUS
  <2>1. b.agg \in Nat
    BY <1>5
  <2>2. 100 * b.agg \in Nat
    BY <2>1
  <2> QED
    BY <2>1, <2>2
<1> HIDE DEF risk, agg, s, cap
<1>7. b.agg > 0 => risk <= IF s > 0 THEN s ELSE cap
  BY <1>2, <1>3, <1>4, <1>5, <1>6
<1> QED
  BY <1>7 DEF risk, r, s, cap

\* A plan keeps to a budget.
PlanFits(ranking, b, m) ==
  /\ \A k \in LiveTheses(ranking) :
       /\ Held(ranking, ranking.moves[k].key) = {k} /\ Sized(ranking.moves[k], b)
       /\ ranking.moves[k].size = 0 \/ ranking.moves[k].key \in Range(Tickers)
  /\ b.agg > 0 => PortfolioRisk(m, HeldRisk(ranking)) <= IF ranking.scale > 0 THEN ranking.scale ELSE 100 * b.agg * b.agg

LEMMA PlanIs ==
  ASSUME SizingInv, NEW sig, sig.x \in Int
  PROVE  PlanFits(GeneratePlan(sig), budget, market)
<1> DEFINE ths  == Theses(sig)
           ranking == GeneratePlan(sig)
<1>1. AreTheses(ths, budget) /\ budget \in Budgets /\ market \in Markets
  BY ThesesAre DEF SizingInv
<1>2. Ordered(ranking, ths) /\ ranking.scale = Scale(ths, budget)
  BY DEF GeneratePlan, Ordered
<1> HIDE DEF ths, ranking
<1>3. /\ \A k \in LiveTheses(ranking) :
           /\ Held(ranking, ranking.moves[k].key) = {k} /\ Sized(ranking.moves[k], budget)
           /\ ranking.moves[k].size = 0 \/ ranking.moves[k].key \in Range(Tickers)
      /\ HeldRisk(ranking) = AtRisk(ths)
  <2>1. CASE DOMAIN ths = {}
    BY <1>1, <1>2, <2>1, EmptyPlanIs
  <2>2. CASE DOMAIN ths # {}
    BY <1>1, <1>2, <2>2, OrderedIs
  <2> QED
    BY <2>1, <2>2
<1>4. budget.agg > 0 => PortfolioRisk(market, AtRisk(ths)) <=
        IF ranking.scale > 0 THEN ranking.scale ELSE 100 * budget.agg * budget.agg
  BY <1>1, <1>2, ScaleIs
<1>5. PlanFits(ranking, budget, market)
  BY <1>3, <1>4 DEF PlanFits
<1> QED
  BY <1>5 DEF ranking

\* No plan yet fits every budget.
LEMMA UnplannedIs ==
  ASSUME NEW m \in Markets, NEW b \in Budgets
  PROVE  PlanFits(Unplanned, b, m)
<1> DEFINE r   == HeldRisk(Unplanned)
           cap == 100 * b.agg * b.agg
<1>1. Unplanned.moves = <<>> /\ Unplanned.scale = 0
  BY DEF Unplanned
<1>2. LiveTheses(Unplanned) = {}
  BY <1>1 DEF LiveTheses
<1>3. \A i \in 1..Len(Tickers) : r[i] = 0
  <2>1. DOMAIN Tickers = 1..Len(Tickers)
    BY SizingAssumption
  <2> QED
    BY <1>2, <2>1 DEF HeldRisk, Held
<1>4. m.rho \in Int
  BY SizingAssumption
<1> HIDE DEF r
<1>5. PortfolioRisk(m, r) = 0
  BY <1>3, <1>4, RiskIs
<1>6. b.agg > 0 => cap \in Nat
  <2> SUFFICES ASSUME b.agg > 0 PROVE cap \in Nat
    OBVIOUS
  <2>1. b.agg \in Nat
    BY DEF Budgets
  <2>2. 100 * b.agg \in Nat
    BY <2>1
  <2> QED
    BY <2>1, <2>2
<1>7. ~(Unplanned.scale > 0)
  BY <1>1
<1> HIDE DEF cap
<1>8. b.agg > 0 => PortfolioRisk(m, r) <= IF Unplanned.scale > 0 THEN Unplanned.scale ELSE cap
  BY <1>5, <1>6, <1>7
<1> QED
  BY <1>2, <1>8 DEF PlanFits, r, cap

-----------------------------------------------------------------------------
(* Sizes keep to the budget.                                               *)

\* There is no plan before the budget has taken in the goal's constraints, and the plan
\* that there is keeps to the budget.
FitInv ==
  /\ SizingInv
  /\ stage \in {"base", "goal"} => current = Unplanned
  /\ PlanFits(current, budget, market)

LEMMA SignalIs ==
  ASSUME NEW s \in MarketSignals
  PROVE  Parsed(s).x \in Int
<1>1. s.x \in Int
  BY SizingAssumption
<1> QED
  BY <1>1 DEF Parsed, NoMarketSignal

LEMMA FitStart == SizingInit => FitInv
<1> SUFFICES ASSUME SizingInit PROVE FitInv
  OBVIOUS
<1>1. SizingInv
  BY SizingStart
<1>2. current = Unplanned
  BY DEF SizingInit
<1>3. PlanFits(Unplanned, budget, market)
  BY <1>1, UnplannedIs DEF SizingInv
<1> QED
  BY <1>1, <1>2, <1>3 DEF FitInv

LEMMA FitStep == FitInv /\ [SizingNext]_sizingVars => FitInv'
<1> SUFFICES ASSUME FitInv, [SizingNext]_sizingVars PROVE FitInv'
  OBVIOUS
<1>1. SizingInv /\ SizingInv'
  BY SizingStep DEF FitInv
<1>2. CASE Overlay \/ Constrain
  <2>1. current' = current /\ current = Unplanned
    BY <1>2 DEF Overlay, Constrain, FitInv
  <2>2. market' \in Markets /\ budget' \in Budgets
    BY <1>1 DEF SizingInv
  <2>3. PlanFits(current', budget', market')
    BY <2>1, <2>2, UnplannedIs
  <2> QED
    BY <1>1, <2>1, <2>3 DEF FitInv
<1>3. CASE FirstPlan
  <2>1. current' = GeneratePlan(NoMarketSignal) /\ budget' = budget /\ market' = market /\ stage' = "held"
    BY <1>3 DEF FirstPlan
  <2>2. NoMarketSignal.x \in Int
    BY DEF NoMarketSignal
  <2> DEFINE sig == NoMarketSignal
  <2> HIDE DEF sig
  <2>3. PlanFits(GeneratePlan(sig), budget, market)
    BY <1>1, <2>2, PlanIs DEF sig
  <2> QED
    BY <1>1, <2>1, <2>3 DEF FitInv, sig
<1>4. CASE Replan
  <2>1. PICK sig \in {Parsed(s) : s \in MarketSignals} :
          /\ stage' = "replanned" /\ budget' = budget /\ market' = market
          /\ current' \in {GeneratePlan(sig), current}
    BY <1>4 DEF Replan
  <2>2. sig.x \in Int
    BY SignalIs
  <2>3. PlanFits(GeneratePlan(sig), budget, market) /\ PlanFits(current, budget, market)
    BY <1>1, <2>2, PlanIs DEF FitInv
  <2> QED
    BY <1>1, <2>1, <2>3 DEF FitInv
<1>5. CASE UNCHANGED sizingVars
  <2>1. current' = current /\ budget' = budget /\ market' = market /\ stage' = stage
    BY <1>5 DEF sizingVars
  <2> QED
    BY <1>1, <2>1 DEF FitInv
<1> QED
  BY <1>2, <1>3, <1>4, <1>5 DEF SizingNext

LEMMA FitIsBudget == FitInv => SizesWithinBudget
<1> SUFFICES ASSUME FitInv PROVE SizesWithinBudget
  OBVIOUS
<1>1. budget \in Budgets /\ budget.pos \in Int
  BY DEF FitInv, SizingInv, Budgets
<1>2. \A k \in LiveTheses(current) :
        /\ Held(current, current.moves[k].key) = {k} /\ Sized(current.moves[k], budget)
        /\ current.moves[k].size = 0 \/ current.moves[k].key \in Range(Tickers)
  BY DEF FitInv, PlanFits
<1>3. budget.agg > 0 =>
        PortfolioRisk(market, HeldRisk(current)) <=
          IF current.scale > 0 THEN current.scale ELSE 100 * budget.agg * budget.agg
  BY DEF FitInv, PlanFits
<1>4. \A k \in LiveTheses(current) :
        LET m == current.moves[k]
        IN  /\ budget.pos > 0 => 100 * m.size <= budget.pos + 50
            /\ budget.trade > 0 => 2 * m.size * m.stop <= 20 * budget.trade + m.stop
            /\ Held(current, m.key) = {k} /\ (m.size = 0 \/ m.key \in Range(Tickers))
  BY <1>2 DEF Sized
<1>5. ASSUME NEW n \in DOMAIN limits, limits[n].kind = "drawdown_limit", limits[n].limit \in Fractional
      PROVE  /\ budget.agg \in 1..limits[n].limit
             /\ budget.pos > 0 =>
                  \A k \in LiveTheses(current) : 100 * current.moves[k].size <= limits[n].limit + 50
  <2> DEFINE x == limits[n].limit
  <2>1. budget.agg \in 1..x /\ budget.pos <= x
    BY <1>5 DEF FitInv, SizingInv, Limit
  <2>2. x \in Int
    <3>1. x \in Fractional
      BY <1>5
    <3> HIDE DEF x
    <3> QED
      BY <3>1 DEF Fractional
  <2> HIDE DEF x
  <2>3. ASSUME budget.pos > 0, NEW k \in LiveTheses(current)
        PROVE  100 * current.moves[k].size <= x + 50
    <3> DEFINE z == current.moves[k].size
    <3>1. z \in Int /\ 100 * z <= budget.pos + 50
      BY <1>2, <2>3 DEF Sized
    <3> HIDE DEF z
    <3>2. 100 * z <= x + 50
      BY <1>1, <2>1, <2>2, <3>1
    <3> QED
      BY <3>2 DEF z
  <2> QED
    BY <2>1, <2>3 DEF x
<1> QED
  BY <1>3, <1>4, <1>5 DEF SizesWithinBudget

\* Sizes keep to the caps of the budget, one by one and together, and to every drawdown
\* limit of the goal.
THEOREM SizesTheorem == SizingSpec => []SizesWithinBudget
<1>1. SizingInit => FitInv
  BY FitStart
<1>2. FitInv /\ [SizingNext]_sizingVars => FitInv'
  BY FitStep
<1>3. FitInv => SizesWithinBudget
  BY FitIsBudget
<1> QED
  BY <1>1, <1>2, <1>3, PTL DEF SizingSpec
=============================================================================
