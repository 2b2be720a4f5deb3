----------------------------- MODULE LoopProofs -----------------------------
(***************************************************************************)
(* Proofs about three loops over data.                                     *)
(*                                                                         *)
(* SanitizeMoveGraph returns a DAG and cuts only edges that close a cycle, *)
(* for any set of keys, any number of moves and any dependency lists.  The *)
(* order in which visits end is a topological order of the kept edges:     *)
(* when a visit ends, each of its edges was cut or leads to a move whose   *)
(* visit ended before.  The visits under way lie on one path, so that an   *)
(* edge to one of them closes a cycle.                                     *)
(*                                                                         *)
(* The paged reads of the learning commands miss no outcome that was there *)
(* when they began, for any goals, rows, page size and late arrivals: what *)
(* has not been read is still on a page to come.  Over a store at rest     *)
(* they read nothing twice, so that the weights follow the record.         *)
(*                                                                         *)
(* The fit of the calibration curve is the isotonic regression of the      *)
(* observed rates, for any tally of up to a hundred bins, and what round2  *)
(* leaves of it keeps the order of the confidences it is applied to.       *)
(***************************************************************************)
EXTENDS MoveGraph, Learning, Calibration, TLAPS, WellFoundedInduction, FiniteSetTheorems, SequenceTheorems

-----------------------------------------------------------------------------
(* The sanitised graph.                                                    *)

Indices == DOMAIN moves

\* The variables are what they are declared as; a visit only looks at its own edges.
TypeInv ==
  /\ color \in [Indices -> {"white", "gray", "black"}]
  /\ DOMAIN rest = Indices /\ rest = [i \in Indices |-> rest[i]]
  /\ \A i \in Indices : rest[i] \subseteq Edges(moves, i)
  /\ stack \in Seq(Indices) /\ order \in Seq(Indices)

\* The stack holds gray moves, each once.
StackInv ==
  /\ \A k \in 1..Len(stack) : color[stack[k]] = "gray"
  /\ \A k, l \in 1..Len(stack) : stack[k] = stack[l] => k = l

\* An edge that a visit has dealt with is cut, or its target is black.
EdgeInv ==
  \A i \in Indices : color[i] # "white" =>
    \A e \in Edges(moves, i) :
      e \in rest[i] \/ <<i, e[1]>> \in removed \/ color[e[2]] = "black"

\* The black moves are those of the history, each behind the targets it keeps.
OrderInv ==
  /\ \A i \in Indices : color[i] = "black" <=> \E p \in 1..Len(order) : order[p] = i
  /\ \A p \in 1..Len(order) : \A e \in Edges(moves, order[p]) :
       <<order[p], e[1]>> \in removed \/ \E q \in 1..(p - 1) : order[q] = e[2]

GraphInv == TypeInv /\ StackInv /\ EdgeInv /\ OrderInv

(* An edge leads to a move.                                                *)
LEMMA EdgeTarget ==
  ASSUME NEW i \in Indices, NEW e \in Edges(moves, i)
  PROVE  e[2] \in Indices
  BY DEF Edges, Carriers, Indices

(* The innermost visit is of a gray move.                                  *)
LEMMA NodeFacts ==
  ASSUME GraphInv, stack # <<>>
  PROVE  /\ Len(stack) \in Nat \ {0} /\ Node \in Indices /\ color[Node] = "gray"
  BY DEF GraphInv, TypeInv, StackInv, Node

(* Before the search nothing is visited.                                   *)
LEMMA GraphInitInv == GraphInit => GraphInv
  BY DEF GraphInit, GraphInv, TypeInv, StackInv, EdgeInv, OrderInv, Indices

(* Visiting a white move keeps the invariant.                              *)
LEMMA VisitInv ==
  ASSUME GraphInv, NEW i \in Indices, color[i] = "white", Visit(i)
  PROVE  GraphInv'
<1> USE DEF Indices
<1>0. /\ moves' = moves /\ removed' = removed /\ order' = order
      /\ color' = [color EXCEPT ![i] = "gray"]
      /\ rest' = [rest EXCEPT ![i] = Edges(moves, i)]
      /\ stack' = Append(stack, i) /\ stack \in Seq(Indices)
  BY DEF Visit, GraphInv, TypeInv
<1>1. TypeInv'
  <2>1. stack' \in Seq(Indices)
    BY <1>0
  <2>2. color' \in [Indices -> {"white", "gray", "black"}]
    BY <1>0 DEF GraphInv, TypeInv
  <2>3. /\ rest' = [k \in Indices |-> rest'[k]]
        /\ \A k \in Indices : rest'[k] \subseteq Edges(moves, k)
    BY <1>0 DEF GraphInv, TypeInv
  <2> QED
    BY <1>0, <2>1, <2>2, <2>3 DEF GraphInv, TypeInv
<1>2. StackInv'
  <2>1. /\ Len(stack') = Len(stack) + 1 /\ Len(stack) \in Nat
        /\ \A k \in 1..Len(stack) : stack'[k] = stack[k] /\ stack[k] \in Indices
        /\ stack'[Len(stack) + 1] = i
    BY <1>0
  <2>2. \A k \in 1..Len(stack) : stack[k] # i
    BY DEF GraphInv, StackInv
  <2>3. \A k \in 1..Len(stack') : k = Len(stack) + 1 \/ k \in 1..Len(stack)
    BY <2>1
  <2>4. \A k \in 1..Len(stack') : color'[stack'[k]] = "gray"
    BY <1>0, <2>1, <2>2, <2>3 DEF GraphInv, StackInv, TypeInv
  <2>5. \A k, l \in 1..Len(stack') : stack'[k] = stack'[l] => k = l
    BY <2>1, <2>2, <2>3 DEF GraphInv, StackInv
  <2> QED
    BY <2>4, <2>5 DEF StackInv
<1>3. EdgeInv'
  BY <1>0, EdgeTarget DEF GraphInv, EdgeInv, TypeInv
<1>4. OrderInv'
  BY <1>0 DEF GraphInv, OrderInv, TypeInv
<1> QED
  BY <1>1, <1>2, <1>3, <1>4 DEF GraphInv

(* Passing over an edge to a black move keeps it.                          *)
LEMMA PassInv ==
  ASSUME GraphInv, stack # <<>>, Pass
  PROVE  GraphInv'
<1> USE DEF Indices
<1>1. PICK e \in rest[Node] :
        /\ color[e[2]] # "white" /\ ~ClosesCycle(e[2])
        /\ rest' = [rest EXCEPT ![Node] = @ \ {e}]
        /\ UNCHANGED <<moves, color, stack, removed, order>>
  BY DEF Pass
<1>2. Node \in Indices /\ e[2] \in Indices /\ color[e[2]] = "black"
  BY <1>1, NodeFacts, EdgeTarget DEF ClosesCycle, GraphInv, TypeInv
<1>3. TypeInv'
  BY <1>1, <1>2 DEF GraphInv, TypeInv
<1>4. StackInv' /\ OrderInv'
  BY <1>1 DEF GraphInv, StackInv, OrderInv
<1>5. EdgeInv'
  BY <1>1, <1>2 DEF GraphInv, EdgeInv, TypeInv
<1> QED
  BY <1>3, <1>4, <1>5 DEF GraphInv

(* So does cutting one that closes a cycle.                                *)
LEMMA CutInv ==
  ASSUME GraphInv, stack # <<>>, Cut
  PROVE  GraphInv'
<1> USE DEF Indices
<1>1. PICK e \in rest[Node] :
        /\ removed' = removed \cup {<<Node, e[1]>>}
        /\ rest' = [rest EXCEPT ![Node] = {f \in @ : f[1] # e[1]}]
        /\ UNCHANGED <<moves, color, stack, order>>
  BY DEF Cut
<1>2. Node \in Indices
  BY NodeFacts
<1>3. TypeInv'
  BY <1>1, <1>2 DEF GraphInv, TypeInv
<1>4. StackInv' /\ OrderInv'
  BY <1>1 DEF GraphInv, StackInv, OrderInv
<1>5. EdgeInv'
  BY <1>1, <1>2 DEF GraphInv, EdgeInv, TypeInv
<1> QED
  BY <1>3, <1>4, <1>5 DEF GraphInv

(* A visit ends behind the visits of all the moves it keeps an edge to.    *)
LEMMA FinishInv ==
  ASSUME GraphInv, Finish
  PROVE  GraphInv'
<1> USE DEF Indices
<1> DEFINE n == Len(order)
           m == Len(stack)
<1>1. /\ stack # <<>> /\ rest[Node] = {}
      /\ color' = [color EXCEPT ![Node] = "black"]
      /\ stack' = SubSeq(stack, 1, m - 1) /\ order' = Append(order, Node)
      /\ moves' = moves /\ rest' = rest /\ removed' = removed
  BY DEF Finish
<1>2. /\ Node \in Indices /\ color[Node] = "gray" /\ m \in Nat \ {0}
      /\ Node = stack[m]
  BY <1>1, NodeFacts DEF Node
<1>3. /\ stack \in Seq(Indices) /\ order \in Seq(Indices) /\ n \in Nat
      /\ color \in [Indices -> {"white", "gray", "black"}]
  BY DEF GraphInv, TypeInv
<1>4. TypeInv'
  BY <1>1, <1>2, <1>3 DEF GraphInv, TypeInv
<1>5. StackInv'
  <2>1. Len(stack') = m - 1 /\ \A k \in 1..(m - 1) : stack'[k] = stack[k] /\ stack[k] \in Indices
    <3>1. m - 1 \in Nat /\ 1..(m - 1) \subseteq 1..m
      BY <1>2
    <3>2. stack' = [k \in 1..(m - 1) |-> stack[k]]
      BY <1>1, <1>2, <1>3, <3>1, Z3
    <3> QED
      BY <1>3, <3>1, <3>2
  <2>2. \A k \in 1..(m - 1) : stack[k] # Node
    BY <1>2 DEF GraphInv, StackInv
  <2>3. \A k \in 1..(m - 1) : color'[stack'[k]] = "gray"
    BY <1>1, <1>2, <1>3, <2>1, <2>2 DEF GraphInv, StackInv
  <2>4. \A k, l \in 1..(m - 1) : stack'[k] = stack'[l] => k = l
    BY <1>2, <2>1 DEF GraphInv, StackInv
  <2> QED
    BY <2>1, <2>3, <2>4 DEF StackInv
<1>6. EdgeInv'
  BY <1>1, <1>2, <1>3, EdgeTarget DEF GraphInv, EdgeInv
<1>7. OrderInv'
  <2>1. /\ Len(order') = n + 1 /\ order'[n + 1] = Node
        /\ \A p \in 1..n : order'[p] = order[p] /\ order[p] \in Indices
    BY <1>1, <1>2, <1>3
  <2>2. \A i \in Indices : color'[i] = "black" <=> \E p \in 1..Len(order') : order'[p] = i
    <3>1. \A i \in Indices : color[i] = "black" <=> \E p \in 1..n : order[p] = i
      BY DEF GraphInv, OrderInv
    <3>2. \A p : p \in 1..(n + 1) <=> p \in 1..n \/ p = n + 1
      BY <1>3
    <3> QED
      BY <1>1, <1>2, <1>3, <2>1, <3>1, <3>2
  <2>3. ASSUME NEW p \in 1..n, NEW e \in Edges(moves, order[p])
        PROVE  <<order[p], e[1]>> \in removed \/ \E q \in 1..(p - 1) : order'[q] = e[2]
    <3>1. <<order[p], e[1]>> \in removed \/ \E q \in 1..(p - 1) : order[q] = e[2]
      BY DEF GraphInv, OrderInv
    <3> QED
      BY <1>3, <2>1, <3>1
  <2>4. ASSUME NEW e \in Edges(moves, Node)
        PROVE  <<Node, e[1]>> \in removed \/ \E q \in 1..n : order'[q] = e[2]
    <3>1. <<Node, e[1]>> \in removed \/ color[e[2]] = "black"
      BY <1>1, <1>2 DEF GraphInv, EdgeInv
    <3>2. color[e[2]] = "black" => \E q \in 1..n : order[q] = e[2]
      BY <1>2, EdgeTarget DEF GraphInv, OrderInv
    <3> QED
      BY <2>1, <3>1, <3>2
  <2>5. \A p \in 1..Len(order') : \A e \in Edges(moves', order'[p]) :
          <<order'[p], e[1]>> \in removed' \/ \E q \in 1..(p - 1) : order'[q] = e[2]
    <3> SUFFICES ASSUME NEW p \in 1..Len(order'), NEW e \in Edges(moves', order'[p])
                 PROVE  <<order'[p], e[1]>> \in removed' \/ \E q \in 1..(p - 1) : order'[q] = e[2]
      OBVIOUS
    <3>1. CASE p \in 1..n
      BY <1>1, <2>1, <2>3, <3>1
    <3>2. CASE p = n + 1
      <4>1. Node = order'[p] /\ p - 1 = n
        BY <1>3, <2>1, <3>2
      <4> QED
        BY <1>1, <2>4, <4>1
    <3> QED
      BY <1>3, <2>1, <3>1, <3>2
  <2> QED
    BY <1>1, <2>2, <2>5 DEF OrderInv
<1> QED
  BY <1>4, <1>5, <1>6, <1>7 DEF GraphInv

(* Every step of the search keeps the invariant.                           *)
LEMMA GraphNextInv == GraphInv /\ [GraphNext]_graphVars => GraphInv'
<1> SUFFICES ASSUME GraphInv, [GraphNext]_graphVars PROVE GraphInv'
  OBVIOUS
<1>1. CASE Start
  BY <1>1, VisitInv DEF Start, Indices
<1>2. CASE stack # <<>> /\ Descend
  BY <1>2, VisitInv DEF Descend, Indices
<1>3. CASE stack # <<>> /\ Pass
  BY <1>3, PassInv
<1>4. CASE stack # <<>> /\ Cut
  BY <1>4, CutInv
<1>5. CASE Finish
  BY <1>5, FinishInv
<1>6. CASE UNCHANGED graphVars
  BY <1>6 DEF graphVars, GraphInv, TypeInv, StackInv, EdgeInv, OrderInv, Indices, Edges, Carriers
<1> QED
  BY <1>1, <1>2, <1>3, <1>4, <1>5, <1>6 DEF GraphNext, Step

(* A topological order leaves no cycle: of any set of moves, the one that  *)
(* ended first keeps no edge into the set.                                 *)
LEMMA TopologicalIsDag == GraphInv => OutputIsDag
<1> SUFFICES ASSUME GraphInv, Finished, NEW S \in SUBSET Indices, S # {}
             PROVE  \E i \in S : \A j \in S : ~Kept(i, j)
  BY DEF OutputIsDag, Indices
<1> DEFINE T == {p \in 1..Len(order) : order[p] \in S}
<1>1. order \in Seq(Indices) /\ Len(order) \in Nat
  BY DEF GraphInv, TypeInv
<1>2. T # {} /\ T \subseteq Nat
  BY <1>1 DEF GraphInv, OrderInv, Finished, Indices
<1>3. PICK p \in T : \A q \in T : ~(<<q, p>> \in OpToRel(<, Nat))
  BY <1>2, WFMin, NatLessThanWellFounded
<1>4. \A q \in 1..(p - 1) : order[q] \notin S
  <2>1. \A q \in T : ~(q < p)
    BY <1>2, <1>3 DEF OpToRel
  <2> QED
    BY <1>1, <2>1
<1>5. ASSUME NEW j \in S, Kept(order[p], j)
      PROVE  FALSE
  <2>1. PICK n \in DOMAIN moves[order[p]].deps :
          /\ <<order[p], moves[order[p]].deps[n]>> \notin removed
          /\ j \in Carriers(moves, moves[order[p]].deps[n])
    BY <1>5 DEF Kept
  <2>2. <<moves[order[p]].deps[n], j>> \in Edges(moves, order[p])
    BY <2>1 DEF Edges
  <2>3. \E q \in 1..(p - 1) : order[q] = j
    BY <2>1, <2>2 DEF GraphInv, OrderInv
  <2> QED
    BY <1>4, <2>3
<1> QED
  BY <1>5

(* SanitizeMoveGraph: every version the engine builds holds a DAG,         *)
(* whatever keys and dependencies the planner gave its moves.              *)
THEOREM DagTheorem == GraphSpec => []OutputIsDag
<1>1. GraphInv /\ [GraphNext]_graphVars => GraphInv'
  BY GraphNextInv
<1> QED
  BY GraphInitInv, <1>1, TopologicalIsDag, PTL DEF GraphSpec

-----------------------------------------------------------------------------
(* Moves being visited lie on one path: from a move on the stack those     *)
(* visited inside its visit are reached, and every gray move is there.     *)
PathInv ==
  /\ \A i \in Indices : color[i] = "gray" => \E k \in 1..Len(stack) : stack[k] = i
  /\ \A k, l \in 1..Len(stack) : k <= l => Reachable(stack[k], stack[l])

(* Reachability follows one more edge.                                     *)
LEMMA OneEdgeFurther ==
  ASSUME NEW i, NEW k \in Indices, NEW e \in Edges(moves, k), Reachable(i, k)
  PROVE  Reachable(i, e[2])
  BY DEF Reachable, Indices

(* The graph does not change while it is searched.                         *)
LEMMA SameGraph ==
  ASSUME moves' = moves
  PROVE  /\ Indices' = Indices /\ \A i, j : Reachable(i, j)' <=> Reachable(i, j)
         /\ OnlyCyclesAreCut /\ removed' = removed => OnlyCyclesAreCut'
<1>1. \A i, j : Reachable(i, j)' <=> Reachable(i, j)
  BY DEF Reachable, Edges, Carriers
<1>2. \A d : Carriers(moves', d) = Carriers(moves, d)
  OBVIOUS
<1>3. OnlyCyclesAreCut /\ removed' = removed => OnlyCyclesAreCut'
  BY <1>1, <1>2 DEF OnlyCyclesAreCut
<1> QED BY <1>1, <1>3 DEF Indices

(* A visit begins at the root of a search or along an edge of the          *)
(* innermost one.                                                          *)
LEMMA VisitPath ==
  ASSUME GraphInv, PathInv, NEW i \in Indices, Visit(i),
         stack # <<>> => \E e \in rest[Node] : e[2] = i
  PROVE  PathInv'
<1>1. PICK m \in Nat : /\ m = Len(stack) /\ Len(stack') = m + 1 /\ stack'[m + 1] = i
                       /\ \A k \in 1..m : stack'[k] = stack[k]
                       /\ stack # <<>> => m \in 1..m /\ Node = stack[m]
  <2>1. stack \in Seq(Indices) /\ stack' = Append(stack, i)
    BY DEF GraphInv, TypeInv, Visit
  <2>2. stack # <<>> => Len(stack) \in 1..Len(stack)
    BY <2>1
  <2> QED BY <2>1, <2>2 DEF Node
<1>2. /\ moves' = moves /\ \A j \in Indices : j # i => color'[j] = color[j]
      /\ \A k \in 1..m + 1 : k \in 1..m \/ k = m + 1
  BY <1>1 DEF Visit, GraphInv, TypeInv
<1>3. \A k \in 1..m : Reachable(stack[k], i)
  <2> SUFFICES ASSUME NEW k \in 1..m PROVE Reachable(stack[k], i)
    OBVIOUS
  <2>1. stack # <<>>
    BY <1>1
  <2>2. PICK e \in rest[Node] : e[2] = i
    BY <2>1
  <2>3. Node \in Indices /\ e \in Edges(moves, Node)
    BY <2>1, <2>2, NodeFacts DEF GraphInv, TypeInv
  <2>4. m \in 1..m /\ k <= m /\ Node = stack[m]
    BY <1>1, <2>1
  <2>5. Reachable(stack[k], Node)
    BY <1>1, <2>4 DEF PathInv
  <2> QED BY <2>2, <2>3, <2>5, OneEdgeFurther
<1>4. Reachable(i, i)
  BY DEF Reachable
<1>5. ASSUME NEW k \in 1..m + 1, NEW l \in 1..m + 1, k <= l PROVE Reachable(stack'[k], stack'[l])
  <2>1. CASE k \in 1..m /\ l \in 1..m
    BY <1>1, <1>5, <2>1 DEF PathInv
  <2>2. CASE k \in 1..m /\ l = m + 1
    BY <1>1, <1>3, <2>2
  <2>3. CASE k = m + 1
    <3>1. l = m + 1
      BY <1>5, <2>3
    <3> QED BY <1>1, <1>4, <2>3, <3>1
  <2> QED BY <1>2, <2>1, <2>2, <2>3
<1>6. ASSUME NEW j \in Indices, color'[j] = "gray"
      PROVE  \E k \in 1..m + 1 : stack'[k] = j
  <2>1. CASE j = i
    <3>1. m + 1 \in 1..m + 1
      OBVIOUS
    <3> QED BY <1>1, <2>1, <3>1
  <2>2. CASE j # i
    <3>1. PICK k \in 1..m : stack[k] = j
      BY <1>1, <1>2, <1>6, <2>2 DEF PathInv
    <3>2. k \in 1..m + 1
      OBVIOUS
    <3> QED BY <1>1, <3>1, <3>2
  <2> QED BY <2>1, <2>2
<1> QED BY <1>1, <1>2, <1>5, <1>6, SameGraph DEF PathInv

(* A visit that ends was the innermost, and its move is no longer gray.    *)
LEMMA FinishPath == ASSUME GraphInv, PathInv, Finish PROVE PathInv'
<1>1. PICK m \in Nat : /\ Len(stack) = m + 1 /\ Node = stack[m + 1] /\ Len(stack') = m
                       /\ \A k \in 1..m : stack'[k] = stack[k]
  <2>1. stack # <<>> /\ stack \in Seq(Indices) /\ stack' = SubSeq(stack, 1, Len(stack) - 1)
    BY DEF Finish, GraphInv, TypeInv
  <2>2. Len(stack) \in Nat \ {0}
    BY <2>1, NodeFacts
  <2>3. PICK m \in Nat : Len(stack) = m + 1 /\ m = Len(stack) - 1
    BY <2>2
  <2>4. stack' = [k \in 1..m |-> stack[k]]
    BY <2>1, <2>3, Z3
  <2> QED BY <2>3, <2>4 DEF Node
<1>2. /\ moves' = moves /\ Node \in Indices /\ color'[Node] = "black"
      /\ \A j \in Indices : j # Node => color'[j] = color[j]
  BY NodeFacts DEF Finish, GraphInv, TypeInv
<1>3. \A k \in 1..m + 1 : k \in 1..m \/ k = m + 1
  OBVIOUS
<1>4. ASSUME NEW j \in Indices, color'[j] = "gray"
      PROVE  \E k \in 1..m : stack'[k] = j
  <2>1. j # Node /\ color[j] = "gray"
    BY <1>2, <1>4
  <2>2. PICK k \in 1..m + 1 : stack[k] = j
    BY <1>1, <2>1 DEF PathInv
  <2>3. k \in 1..m
    BY <1>1, <1>3, <2>1, <2>2
  <2> QED BY <1>1, <2>2, <2>3
<1>5. \A k, l \in 1..m : k <= l => Reachable(stack'[k], stack'[l])
  <2>1. \A k \in 1..m : k \in 1..m + 1
    OBVIOUS
  <2> QED BY <1>1, <2>1 DEF PathInv
<1> QED BY <1>1, <1>2, <1>4, <1>5, SameGraph DEF PathInv

(* The target of a cut edge is gray, so the move that lists it is reached  *)
(* from there.                                                             *)
LEMMA CutPath ==
  ASSUME GraphInv, PathInv, OnlyCyclesAreCut, stack # <<>>, Cut
  PROVE  PathInv' /\ OnlyCyclesAreCut'
<1>1. PICK e \in rest[Node] :
        /\ color[e[2]] = "gray" /\ removed' = removed \cup {<<Node, e[1]>>}
        /\ UNCHANGED <<moves, color, stack>>
  BY DEF Cut, ClosesCycle
<1>2. /\ Node \in Indices /\ e[2] \in Indices /\ e[2] \in Carriers(moves, e[1])
  <2>1. Node \in Indices /\ e \in Edges(moves, Node)
    BY NodeFacts DEF GraphInv, TypeInv
  <2> QED BY <2>1, EdgeTarget DEF Edges
<1>3. Reachable(e[2], Node)
  <2>1. PICK k \in 1..Len(stack) : stack[k] = e[2]
    BY <1>1, <1>2 DEF PathInv
  <2>2. Len(stack) \in 1..Len(stack) /\ k <= Len(stack) /\ Node = stack[Len(stack)]
    BY NodeFacts DEF Node
  <2> QED BY <2>1, <2>2 DEF PathInv
<1>4. PathInv'
  BY <1>1, SameGraph DEF PathInv
<1>5. OnlyCyclesAreCut'
  <2> SUFFICES ASSUME NEW r \in removed'
               PROVE  \E j \in Carriers(moves', r[2]) : Reachable(j, r[1])'
    BY DEF OnlyCyclesAreCut
  <2>1. CASE r \in removed
    BY <1>1, <2>1, SameGraph DEF OnlyCyclesAreCut
  <2>2. CASE r = <<Node, e[1]>>
    BY <1>1, <1>2, <1>3, <2>2, SameGraph
  <2> QED BY <1>1, <2>1, <2>2
<1> QED BY <1>4, <1>5

(* SanitizeMoveGraph cuts a dependency only when it lies on a cycle of the *)
(* planner's graph, whichever move the search starts at and whatever keys  *)
(* moves share: a plan whose graph is a DAG keeps all of it.               *)
THEOREM CutTheorem == GraphSpec => []OnlyCyclesAreCut
<1>1. GraphInit => PathInv /\ OnlyCyclesAreCut
  BY DEF GraphInit, PathInv, OnlyCyclesAreCut, Indices
<1>2. GraphInv /\ PathInv /\ OnlyCyclesAreCut /\ [GraphNext]_graphVars
        => (PathInv /\ OnlyCyclesAreCut)'
  <2> SUFFICES ASSUME GraphInv, PathInv, OnlyCyclesAreCut, [GraphNext]_graphVars
               PROVE  (PathInv /\ OnlyCyclesAreCut)'
    OBVIOUS
  <2>1. CASE Start
    <3>1. PICK i \in Indices : Visit(i)
      BY <2>1 DEF Start, Indices
    <3>2. stack = <<>>
      BY <2>1 DEF Start
    <3> QED BY <3>1, <3>2, VisitPath, SameGraph DEF Visit
  <2>2. CASE stack # <<>> /\ Descend
    <3>1. PICK j \in Indices : Visit(j) /\ \E e \in rest[Node] : e[2] = j
      BY <2>2 DEF Descend, Indices
    <3> QED BY <3>1, VisitPath, SameGraph DEF Visit
  <2>3. CASE stack # <<>> /\ Pass
    BY <2>3, SameGraph DEF Pass, PathInv
  <2>4. CASE stack # <<>> /\ Cut
    BY <2>4, CutPath
  <2>5. CASE Finish
    BY <2>5, FinishPath, SameGraph DEF Finish
  <2>6. CASE UNCHANGED graphVars
    BY <2>6, SameGraph DEF graphVars, PathInv
  <2> QED BY <2>1, <2>2, <2>3, <2>4, <2>5, <2>6 DEF GraphNext, Step
<1> QED BY <1>1, <1>2, GraphInitInv, GraphNextInv, PTL DEF GraphSpec

-----------------------------------------------------------------------------
(* The learning reads.                                                     *)

Commands == {"calibrate", "strategy-fit"}
Ranks == UNION {UNION {{m.rank : m \in g.versions[v].moves} : v \in DOMAIN g.versions} : g \in Books}

\* An outcome is about a move some version of its goal's plan has.
OutcomeRows(g) ==
  [id : Nat, result : {"success", "failure", "partial"}, version : DOMAIN g.versions, rank : Ranks]

Reading ==
  /\ DOMAIN read = {"at", "command", "offset", "goals", "last", "rows", "samples"}
  /\ read.at \in {"goals", "goal", "outcomes", "done"} /\ read.command \in Commands
  /\ {read.offset, read.rows} \subseteq Nat
  /\ read.goals \in Seq(Books) /\ (read.at = "outcomes" => read.goals # <<>>)
  /\ \E S : read.samples \in Seq(S)

LearningTypes ==
  /\ listed \in Seq(Books) /\ DOMAIN outcomes = Books
  /\ \A g \in Books : outcomes[g] \in Seq(OutcomeRows(g))
  /\ recorded \in Nat /\ DOMAIN due = {"rows", "late"}
  /\ read = NotReading \/ Reading

\* Goal g is listed below the first n.
ListedBelow(g, n) == \E p \in DOMAIN listed : p > n /\ listed[p] = g

\* The read will come to row k of goal g: the goal is on a page to come, or on this page
\* and the row is on one to come of its own.
Ahead(g, k) ==
  \/ read.at = "goals" /\ ListedBelow(g, read.offset)
  \/ read.at \in {"goal", "outcomes"} /\ ~read.last /\ ListedBelow(g, read.offset + PageLimit)
  \/ read.at = "goal" /\ g \in Range(read.goals)
  \/ read.at = "outcomes" /\ g \in Range(Tail(read.goals))
  \/ read.at = "outcomes" /\ g = Head(read.goals) /\ k > read.rows

RowSamples(command, g, row) == Samples(command, g, <<row>>)

\* A due sample comes from a row that the read will come to.
ToCome(s) ==
  \E g \in Books : /\ g.domain = Domain
                   /\ \E k \in DOMAIN outcomes[g] :
                        s \in RowSamples(read.command, g, outcomes[g][k]) /\ Ahead(g, k)

ReadInv == read # NotReading => \A s \in due.rows : s \in Range(read.samples) \/ ToCome(s)

-----------------------------------------------------------------------------
\* What a list of rows gives is what its rows give (goalCalibrationSamples,
\* goalStrategySamples).
LEMMA SamplesByRow ==
  ASSUME NEW command, NEW g, NEW rows, NEW s
  PROVE  s \in Samples(command, g, rows)
           <=> \E k \in DOMAIN rows : s \in RowSamples(command, g, rows[k])
<1>1. \A row : DOMAIN <<row>> = {1} /\ <<row>>[1] = row
  OBVIOUS
<1>2. CASE command = "calibrate"
  <2> DEFINE From(row) == /\ Decisive(row)
                          /\ \E m \in Ranked(g.versions[row.version], row.rank) :
                               s = [row |-> row.id, success |-> row.result = "success",
                                    conf |-> IF m.raw > 0 THEN m.raw ELSE m.conf]
  <2>1. \A list : s \in Samples(command, g, list) <=> \E k \in DOMAIN list : From(list[k])
    <3> TAKE list
    <3>1. s \in Samples(command, g, list) <=> s \in CalibrationSamples(g, list)
      BY <1>2 DEF Samples
    <3>2. s \in CalibrationSamples(g, list) <=>
            \E k \in {i \in DOMAIN list : Decisive(list[i])} :
              s \in {[row |-> list[k].id, success |-> list[k].result = "success",
                     conf |-> IF m.raw > 0 THEN m.raw ELSE m.conf] :
                       m \in Ranked(g.versions[list[k].version], list[k].rank)}
      BY Zenon DEF CalibrationSamples
    <3> QED
      BY <3>1, <3>2, Zenon
  <2> HIDE DEF From
  <2>2. \A row : s \in RowSamples(command, g, row) <=> From(row)
    BY <1>1, <2>1 DEF RowSamples
  <2> QED
    BY <2>1, <2>2
<1>3. CASE command # "calibrate"
  <2> DEFINE From(row) == /\ Decisive(row) /\ g.versions[row.version].strategy # ""
                          /\ s = [row |-> row.id, success |-> row.result = "success",
                                  strategy |-> g.versions[row.version].strategy,
                                  regime |-> g.versions[row.version].regime,
                                  comparator |-> g.versions[row.version].comparator]
  <2>1. \A list : s \in Samples(command, g, list) <=> \E k \in DOMAIN list : From(list[k])
    BY <1>3, Zenon DEF Samples, StrategySamples
  <2> HIDE DEF From
  <2>2. \A row : s \in RowSamples(command, g, row) <=> From(row)
    BY <1>1, <2>1 DEF RowSamples
  <2> QED
    BY <2>1, <2>2
<1> QED
  BY <1>2, <1>3

\* A function on a finite set takes finitely many values.
LEMMA FiniteImage ==
  ASSUME NEW S, IsFiniteSet(S), NEW f, f = [x \in S |-> f[x]]
  PROVE  IsFiniteSet({f[x] : x \in S})
<1> DEFINE T == {f[x] : x \in S}
<1>1. f \in Surjection(S, T)
  BY DEF Surjection
<1> QED
  BY <1>1, FS_Surjection

\* A listing gives finitely many samples.
LEMMA SamplesAreFinite ==
  ASSUME NEW command, NEW g \in Books, NEW rows \in Seq(OutcomeRows(g))
  PROVE  IsFiniteSet(Samples(command, g, rows))
<1>1. IsFiniteSet(DOMAIN rows) /\ \A k \in DOMAIN rows : rows[k].version \in DOMAIN g.versions
  <2>1. Len(rows) \in Nat /\ DOMAIN rows = 1..Len(rows)
    OBVIOUS
  <2>2. \A k \in DOMAIN rows : rows[k] \in OutcomeRows(g)
    OBVIOUS
  <2>3. IsFiniteSet(1..Len(rows))
    BY <2>1, FS_Interval
  <2> QED
    BY <2>1, <2>2, <2>3 DEF OutcomeRows
<1>2. CASE command = "calibrate"
  <2> DEFINE decisive == {i \in DOMAIN rows : Decisive(rows[i])}
             ranked(k) == Ranked(g.versions[rows[k].version], rows[k].rank)
             of(k) == [m \in ranked(k) |-> [row |-> rows[k].id, success |-> rows[k].result = "success",
                                            conf |-> IF m.raw > 0 THEN m.raw ELSE m.conf]]
             each == [k \in decisive |-> {of(k)[m] : m \in ranked(k)}]
  <2>1. IsFiniteSet(decisive)
    BY <1>1, FS_Subset
  <2>2. ASSUME NEW k \in decisive PROVE IsFiniteSet(each[k])
    <3>1. IsFiniteSet(ranked(k))
      BY <1>1, FS_Subset, LearningAssumption DEF Ranked
    <3>2. of(k) = [m \in ranked(k) |-> of(k)[m]]
      OBVIOUS
    <3>3. each[k] = {of(k)[m] : m \in ranked(k)}
      OBVIOUS
    <3> HIDE DEF ranked, of, each
    <3> QED
      BY <3>1, <3>2, <3>3, FiniteImage
  <2>3. IsFiniteSet({each[k] : k \in decisive})
    <3>1. each = [k \in decisive |-> each[k]]
      OBVIOUS
    <3> HIDE DEF each, decisive
    <3> QED
      BY <2>1, <3>1, FiniteImage
  <2>4. IsFiniteSet(UNION {each[k] : k \in decisive})
    <3> HIDE DEF each, decisive
    <3> QED
      BY <2>2, <2>3, FS_UNION
  <2>5. Samples(command, g, rows) = UNION {each[k] : k \in decisive}
    <3> DEFINE made(k) == {[row |-> rows[k].id, success |-> rows[k].result = "success",
                            conf |-> IF m.raw > 0 THEN m.raw ELSE m.conf] : m \in ranked(k)}
    <3>1. \A k \in decisive : each[k] = made(k)
      OBVIOUS
    <3>2. Samples(command, g, rows) = UNION {made(k) : k \in decisive}
      BY <1>2 DEF Samples, CalibrationSamples
    <3> HIDE DEF decisive, each, made
    <3>3. {each[k] : k \in decisive} = {made(k) : k \in decisive}
      BY <3>1
    <3> QED
      BY <3>2, <3>3
  <2> QED
    BY <2>4, <2>5
<1>3. CASE command # "calibrate"
  <2> DEFINE telling == {i \in DOMAIN rows : Decisive(rows[i]) /\ g.versions[rows[i].version].strategy # ""}
             of == [k \in telling |-> [row |-> rows[k].id, success |-> rows[k].result = "success",
                                       strategy |-> g.versions[rows[k].version].strategy,
                                       regime |-> g.versions[rows[k].version].regime,
                                       comparator |-> g.versions[rows[k].version].comparator]]
  <2>1. IsFiniteSet(telling)
    BY <1>1, FS_Subset
  <2>2. IsFiniteSet({of[k] : k \in telling})
    <3>1. of = [k \in telling |-> of[k]]
      OBVIOUS
    <3> HIDE DEF of, telling
    <3> QED
      BY <2>1, <3>1, FiniteImage
  <2>3. Samples(command, g, rows) = {of[k] : k \in telling}
    BY <1>3 DEF Samples, StrategySamples
  <2> QED
    BY <2>2, <2>3
<1> QED
  BY <1>2, <1>3

\* A finite set as a sequence has its members.
LEMMA SequenceOfSet ==
  ASSUME NEW S, IsFiniteSet(S)
  PROVE  SetToSeq(S) \in Seq(S) /\ Range(SetToSeq(S)) = S
<1> DEFINE n == Cardinality(S)
           f == SetToSeq(S)
<1>1. n \in Nat /\ ExistsBijection(1..n, S)
  BY FS_CardinalityType
<1>2. \E b \in [1..n -> S] : IsInjective(b)
  BY <1>1 DEF ExistsBijection, Bijection, Injection
<1>3. f \in [1..n -> S] /\ IsInjective(f)
  BY <1>2 DEF SetToSeq
<1>4. IsFiniteSet(1..n) /\ Cardinality(1..n) = n
  BY <1>1, FS_Interval
<1>5. f \in Injection(1..n, S)
  BY <1>3 DEF Injection
<1> HIDE DEF f, n
<1>6. f \in Surjection(1..n, S)
  BY <1>4, <1>5, FS_Injection DEF n
<1>7. f \in Seq(S)
  BY <1>1, <1>3
<1>8. Range(f) = S
  BY <1>3, <1>6 DEF Range, Surjection
<1> QED
  BY <1>7, <1>8 DEF f

\* A member of a list is its head or in its tail.
LEMMA HeadOrTail ==
  ASSUME NEW S, NEW list \in Seq(S), list # <<>>
  PROVE  /\ Head(list) \in S /\ Tail(list) \in Seq(S)
         /\ \A b \in Range(list) : b = Head(list) \/ b \in Range(Tail(list))
<1>1. /\ Head(list) = list[1] /\ Head(list) \in S /\ Tail(list) \in Seq(S)
      /\ Len(Tail(list)) = Len(list) - 1
      /\ \A i \in 1..(Len(list) - 1) : Tail(list)[i] = list[i + 1]
  OBVIOUS
<1>2. ASSUME NEW i \in 1..Len(list), i # 1 PROVE list[i] \in Range(Tail(list))
  <2>1. (i - 1) \in 1..(Len(list) - 1) /\ (i - 1) + 1 = i
    BY <1>2
  <2>2. (i - 1) \in DOMAIN Tail(list) /\ Tail(list)[i - 1] = list[i]
    BY <1>1, <2>1
  <2> QED
    BY <2>2 DEF Range
<1> QED
  BY <1>1, <1>2 DEF Range

\* A row that arrives moves rows down only.
LEMMA ArrivalMovesDown ==
  ASSUME NEW S, NEW rows \in Seq(S), NEW row \in S, NEW new \in Arrives(rows, row)
  PROVE  /\ new \in Seq(S)
         /\ \A p \in DOMAIN rows : \E q \in DOMAIN new : q >= p /\ new[q] = rows[p]
<1>1. PICK k \in 1..(Len(rows) + 1) : new = InsertAt(rows, k, row)
  BY DEF Arrives
<1> DEFINE a == SubSeq(rows, 1, k - 1)
           b == SubSeq(rows, k, Len(rows))
<1>2. /\ a \in Seq(S) /\ Len(a) = k - 1 /\ \A i \in 1..(k - 1) : a[i] = rows[i]
      /\ b \in Seq(S) /\ Len(b) = Len(rows) - k + 1
      /\ \A i \in 1..(Len(rows) - k + 1) : b[i] = rows[k + i - 1]
  OBVIOUS
<1>3. new = (a \o <<row>>) \o b /\ <<row>> \in Seq(S)
  BY <1>1 DEF InsertAt
<1> HIDE DEF a, b
<1>4. /\ a \o <<row>> \in Seq(S) /\ Len(a \o <<row>>) = k
      /\ \A i \in 1..(k - 1) : (a \o <<row>>)[i] = a[i]
  BY <1>2, <1>3
<1>5. /\ new \in Seq(S) /\ Len(new) = Len(rows) + 1
      /\ \A i \in 1..(k - 1) : new[i] = a[i]
      /\ \A i \in 1..Len(b) : new[k + i] = b[i]
  <2> DEFINE c == a \o <<row>>
  <2>1. c \in Seq(S) /\ b \in Seq(S) /\ Len(c) = k /\ Len(b) = Len(rows) - k + 1 /\ new = c \o b
    BY <1>2, <1>3, <1>4
  <2>2. \A i \in 1..(k - 1) : c[i] = a[i]
    BY <1>4
  <2> HIDE DEF c
  <2>3. /\ new \in Seq(S) /\ Len(new) = Len(c) + Len(b)
        /\ \A i \in 1..Len(c) : new[i] = c[i]
        /\ \A i \in 1..Len(b) : new[Len(c) + i] = b[i]
    BY <2>1
  <2>4. \A i \in 1..(k - 1) : i \in 1..Len(c)
    BY <2>1
  <2> QED
    BY <2>1, <2>2, <2>3, <2>4
<1>6. ASSUME NEW p \in DOMAIN rows PROVE \E q \in DOMAIN new : q >= p /\ new[q] = rows[p]
  <2>1. CASE p < k
    <3>1. p \in 1..(k - 1) /\ p \in DOMAIN new /\ p >= p
      BY <1>5, <2>1
    <3> QED
      BY <1>2, <1>5, <3>1
  <2>2. CASE p >= k
    <3>1. (p - k + 1) \in 1..(Len(rows) - k + 1) /\ k + (p - k + 1) = p + 1 /\ k + (p - k + 1) - 1 = p
      BY <2>2
    <3>2. new[p + 1] = rows[p] /\ (p + 1) \in DOMAIN new
      BY <1>2, <1>5, <3>1
    <3> QED
      BY <3>2
  <2> QED
    BY <2>1, <2>2
<1> QED
  BY <1>5, <1>6

\* A page has the rows from its offset on, up to its size; one that is not full has them all.
LEMMA PageHas ==
  ASSUME NEW S, NEW rows \in Seq(S), NEW offset \in Nat
  PROVE  /\ Window(rows, offset) \in Seq(S)
         /\ \A p \in DOMAIN rows :
              p > offset /\ (p <= offset + PageLimit \/ IsLast(Window(rows, offset)))
                => \E q \in DOMAIN Window(rows, offset) : Window(rows, offset)[q] = rows[p]
<1> DEFINE end == IF offset + PageLimit <= Len(rows) THEN offset + PageLimit ELSE Len(rows)
           page == Window(rows, offset)
<1>1. PageLimit \in Nat \ {0} /\ end \in Nat /\ end <= Len(rows)
  BY LearningAssumption
<1>2. page = SubSeq(rows, offset + 1, end)
  BY DEF Window
<1>3. /\ page \in Seq(S) /\ Len(page) = (IF offset + 1 <= end THEN end - offset ELSE 0)
      /\ \A i \in 1..Len(page) : page[i] = rows[offset + i]
  <2> HIDE DEF end, page
  <2> QED
    BY <1>1, <1>2
<1>4. ASSUME NEW p \in DOMAIN rows, p > offset, p <= offset + PageLimit \/ IsLast(page)
      PROVE  \E q \in DOMAIN page : page[q] = rows[p]
  <2> HIDE DEF page
  <2>1. p <= end
    BY <1>1, <1>3, <1>4 DEF IsLast
  <2>2. (p - offset) \in 1..Len(page) /\ offset + (p - offset) = p
    BY <1>1, <1>3, <1>4, <2>1
  <2> QED
    BY <1>3, <2>2
<1> QED
  BY <1>3, <1>4

-----------------------------------------------------------------------------
\* What the store takes in and what the read makes of it.
LEMMA TypesInit == LearningInit => LearningTypes
<1> SUFFICES ASSUME LearningInit PROVE LearningTypes
  OBVIOUS
<1>1. <<>> \in Seq(Books) /\ \A g \in Books : <<>> \in Seq(OutcomeRows(g))
  OBVIOUS
<1> QED
  BY <1>1 DEF LearningInit, LearningTypes

\* A goal arrives: the listing grows and each goal moves down.
LEMMA GoalFacts ==
  ASSUME LearningTypes, GoalArrives
  PROVE  /\ LearningTypes' /\ outcomes' = outcomes /\ read' = read
         /\ read # NotReading => due'.rows = due.rows
         /\ \A g \in Books, n \in Nat : ListedBelow(g, n) => ListedBelow(g, n)'
<1>1. PICK b \in Books \ Range(listed) : listed' \in Arrives(listed, b)
  BY DEF GoalArrives
<1>2. outcomes' = outcomes /\ read' = read /\ recorded' = recorded /\ Arrival
  BY DEF GoalArrives
<1>3. listed \in Seq(Books)
  BY DEF LearningTypes
<1>4. /\ listed' \in Seq(Books)
      /\ \A p \in DOMAIN listed : \E q \in DOMAIN listed' : q >= p /\ listed'[q] = listed[p]
  BY <1>1, <1>3, ArrivalMovesDown
<1>5. LearningTypes'
  BY <1>2, <1>4 DEF LearningTypes, Reading, Arrival
<1>6. ASSUME NEW g \in Books, NEW n \in Nat, ListedBelow(g, n) PROVE ListedBelow(g, n)'
  <2>1. PICK p \in DOMAIN listed : p > n /\ listed[p] = g
    BY <1>6 DEF ListedBelow
  <2>2. PICK q \in DOMAIN listed' : q >= p /\ listed'[q] = listed[p]
    BY <1>4
  <2>3. q > n
    BY <1>3, <1>4, <2>1, <2>2
  <2> QED
    BY <2>1, <2>2, <2>3 DEF ListedBelow
<1>7. read # NotReading => due'.rows = due.rows
  <2> SUFFICES ASSUME read # NotReading PROVE due'.rows = due.rows
    OBVIOUS
  <2> QED
    BY <1>2 DEF Arrival, LearningTypes
<1> QED
  BY <1>2, <1>5, <1>6, <1>7

\* An outcome arrives: the rows of its goal move down.
LEMMA OutcomeFacts ==
  ASSUME LearningTypes, OutcomeArrives
  PROVE  /\ LearningTypes' /\ listed' = listed /\ read' = read
         /\ read # NotReading => due'.rows = due.rows
         /\ \A g \in Books : \A k \in DOMAIN outcomes[g] :
              \E q \in DOMAIN outcomes'[g] : q >= k /\ outcomes'[g][q] = outcomes[g][k]
<1>1. PICK b \in Range(listed) : \E v \in DOMAIN b.versions : \E m \in b.versions[v].moves :
        \E result \in {"success", "failure", "partial"} :
          /\ recorded' = recorded + 1
          /\ LET row == [id |-> recorded', result |-> result, version |-> v, rank |-> m.rank]
             IN  \E rows \in Arrives(outcomes[b], row) : outcomes' = [outcomes EXCEPT ![b] = rows]
          /\ Arrival
          /\ UNCHANGED <<listed, read>>
  BY DEF OutcomeArrives
<1>2. PICK v \in DOMAIN b.versions : \E m \in b.versions[v].moves :
        \E result \in {"success", "failure", "partial"} :
        /\ recorded' = recorded + 1
        /\ \E rows \in Arrives(outcomes[b], [id |-> recorded', result |-> result, version |-> v, rank |-> m.rank]) :
             outcomes' = [outcomes EXCEPT ![b] = rows]
        /\ Arrival
        /\ UNCHANGED <<listed, read>>
  BY <1>1
<1>3. PICK m \in b.versions[v].moves, result \in {"success", "failure", "partial"} :
        /\ recorded' = recorded + 1
        /\ \E rows \in Arrives(outcomes[b], [id |-> recorded', result |-> result, version |-> v, rank |-> m.rank]) :
             outcomes' = [outcomes EXCEPT ![b] = rows]
        /\ Arrival
        /\ UNCHANGED <<listed, read>>
  BY <1>2
<1> DEFINE row == [id |-> recorded', result |-> result, version |-> v, rank |-> m.rank]
<1>4. PICK rows \in Arrives(outcomes[b], row) : outcomes' = [outcomes EXCEPT ![b] = rows]
  BY <1>3
<1>5. b \in Books /\ outcomes[b] \in Seq(OutcomeRows(b)) /\ recorded' \in Nat /\ DOMAIN outcomes = Books
  BY <1>3 DEF LearningTypes, Range
<1>6. row \in OutcomeRows(b)
  <2>1. m.rank \in Ranks
    BY <1>5 DEF Ranks
  <2> QED
    BY <1>5, <2>1 DEF OutcomeRows
<1> HIDE DEF row
<1>7. /\ rows \in Seq(OutcomeRows(b))
      /\ \A p \in DOMAIN outcomes[b] : \E q \in DOMAIN rows : q >= p /\ rows[q] = outcomes[b][p]
  BY <1>4, <1>5, <1>6, ArrivalMovesDown
<1>8. LearningTypes'
  BY <1>3, <1>4, <1>5, <1>7 DEF LearningTypes, Reading, Arrival
<1>9. ASSUME NEW g \in Books, NEW k \in DOMAIN outcomes[g]
      PROVE  \E q \in DOMAIN outcomes'[g] : q >= k /\ outcomes'[g][q] = outcomes[g][k]
  <2>1. CASE g = b
    BY <1>4, <1>5, <1>7, <2>1
  <2>2. CASE g # b
    <3>1. outcomes'[g] = outcomes[g] /\ k \in Nat
      BY <1>4, <1>5, <2>2 DEF LearningTypes
    <3> QED
      BY <3>1
  <2> QED
    BY <2>1, <2>2
<1>10. read # NotReading => due'.rows = due.rows
  <2> SUFFICES ASSUME read # NotReading PROVE due'.rows = due.rows
    OBVIOUS
  <2> QED
    BY <1>3 DEF Arrival, LearningTypes
<1> QED
  BY <1>3, <1>8, <1>9, <1>10

\* What the store takes in moves nothing out of the read's way.
LEMMA ArrivalsKeepReadInv ==
  ASSUME LearningTypes, ReadInv, GoalArrives \/ OutcomeArrives
  PROVE  LearningTypes' /\ ReadInv'
<1>1. CASE GoalArrives
  <2> SUFFICES ASSUME read # NotReading, NEW s \in due.rows, ToCome(s) PROVE ToCome(s)'
    BY <1>1, GoalFacts DEF ReadInv
  <2>1. PICK g, k : /\ g \in Books /\ g.domain = Domain /\ k \in DOMAIN outcomes[g]
                    /\ s \in RowSamples(read.command, g, outcomes[g][k]) /\ Ahead(g, k)
    BY DEF ToCome
  <2>2. {read.offset, read.offset + PageLimit} \subseteq Nat
    BY LearningAssumption DEF LearningTypes, Reading
  <2>3. Ahead(g, k)'
    <3>1. \A n \in {read.offset, read.offset + PageLimit} : ListedBelow(g, n) => ListedBelow(g, n)'
      BY <1>1, <2>1, <2>2, GoalFacts
    <3>2. read' = read
      BY <1>1, GoalFacts
    <3> QED
      BY <2>1, <3>1, <3>2 DEF Ahead, ListedBelow
  <2>4. outcomes' = outcomes /\ read' = read
    BY <1>1, GoalFacts
  <2>5. RowSamples(read.command, g, outcomes[g][k]) = RowSamples(read'.command, g, outcomes'[g][k])
    BY <2>4
  <2> QED
    BY <2>1, <2>3, <2>4, <2>5 DEF ToCome
<1>2. CASE OutcomeArrives
  <2> SUFFICES ASSUME read # NotReading, NEW s \in due.rows, ToCome(s) PROVE ToCome(s)'
    BY <1>2, OutcomeFacts DEF ReadInv
  <2>1. PICK g, k : /\ g \in Books /\ g.domain = Domain /\ k \in DOMAIN outcomes[g]
                    /\ s \in RowSamples(read.command, g, outcomes[g][k]) /\ Ahead(g, k)
    BY DEF ToCome
  <2>2. PICK q \in DOMAIN outcomes'[g] : q >= k /\ outcomes'[g][q] = outcomes[g][k]
    <3>1. \A h \in Books : \A i \in DOMAIN outcomes[h] :
            \E q \in DOMAIN outcomes'[h] : q >= i /\ outcomes'[h][q] = outcomes[h][i]
      BY <1>2, OutcomeFacts
    <3> QED
      BY <2>1, <3>1
  <2>3. listed' = listed /\ read' = read
    BY <1>2, OutcomeFacts
  <2>4. Ahead(g, q)'
    <3>1. k \in Nat /\ q \in Nat /\ read.rows \in Nat
      <4>1. LearningTypes /\ LearningTypes' /\ Reading
        BY <1>2, OutcomeFacts DEF LearningTypes
      <4>2. outcomes[g] \in Seq(OutcomeRows(g)) /\ outcomes'[g] \in Seq(OutcomeRows(g))
        BY <2>1, <4>1 DEF LearningTypes
      <4> QED
        BY <2>1, <2>2, <4>1, <4>2 DEF Reading
    <3> QED
      BY <2>1, <2>2, <2>3, <3>1 DEF Ahead, ListedBelow
  <2>5. RowSamples(read.command, g, outcomes[g][k]) = RowSamples(read'.command, g, outcomes'[g][q])
    BY <2>2, <2>3
  <2> QED
    BY <2>1, <2>2, <2>4, <2>5 DEF ToCome
<1> QED
  BY <1>1, <1>2, GoalFacts, OutcomeFacts

-----------------------------------------------------------------------------
\* What is yet to come when a read takes a step: the rest is in its samples.
LEMMA ReadKeeps ==
  ASSUME ReadInv, read # NotReading, UNCHANGED <<outcomes, due>>, read'.command = read.command,
         Range(read.samples) \subseteq Range(read'.samples),
         \A g \in Books : \A k \in DOMAIN outcomes[g] : g.domain = Domain /\ Ahead(g, k) =>
           Ahead(g, k)' \/ RowSamples(read.command, g, outcomes[g][k]) \subseteq Range(read'.samples)
  PROVE  ReadInv'
<1> SUFFICES ASSUME NEW s \in due.rows PROVE s \in Range(read'.samples) \/ ToCome(s)'
  BY DEF ReadInv
<1>1. CASE s \in Range(read.samples)
  BY <1>1
<1>2. CASE ToCome(s)
  <2>1. PICK g, k : /\ g \in Books /\ g.domain = Domain /\ k \in DOMAIN outcomes[g]
                    /\ s \in RowSamples(read.command, g, outcomes[g][k]) /\ Ahead(g, k)
    BY <1>2 DEF ToCome
  <2>2. CASE RowSamples(read.command, g, outcomes[g][k]) \subseteq Range(read'.samples)
    BY <2>1, <2>2
  <2>3. CASE Ahead(g, k)'
    <3>1. RowSamples(read.command, g, outcomes[g][k]) = RowSamples(read'.command, g, outcomes'[g][k])
      OBVIOUS
    <3> QED
      BY <2>1, <2>3, <3>1 DEF ToCome
  <2> QED
    BY <2>1, <2>2, <2>3
<1> QED
  BY <1>1, <1>2 DEF ReadInv

\* A read begins with every goal on a page to come (BeginRead).
LEMMA BeginKeeps ==
  ASSUME LearningTypes, BeginRead
  PROVE  LearningTypes' /\ ReadInv'
<1>1. PICK command \in Commands :
        /\ read' = [at |-> "goals", command |-> command, offset |-> 0, goals |-> <<>>, last |-> FALSE,
                    rows |-> 0, samples |-> <<>>]
        /\ due' = [rows |-> UNION {Samples(command, g, outcomes[g]) : g \in {b \in Range(listed) : b.domain = Domain}},
                   late |-> 0]
        /\ UNCHANGED <<listed, outcomes, recorded>>
  BY DEF BeginRead, Commands
<1>2. LearningTypes'
  <2>1. <<>> \in Seq(Books) /\ <<>> \in Seq({})
    OBVIOUS
  <2>2. Reading'
    BY <1>1, <2>1 DEF Reading
  <2> QED
    BY <1>1, <2>2 DEF LearningTypes
<1>3. ASSUME NEW s \in due'.rows PROVE ToCome(s)'
  <2>1. PICK g \in Range(listed) : g.domain = Domain /\ s \in Samples(command, g, outcomes[g])
    BY <1>1
  <2>2. PICK k \in DOMAIN outcomes[g] : s \in RowSamples(command, g, outcomes[g][k])
    BY <2>1, SamplesByRow
  <2>3. PICK p \in DOMAIN listed : listed[p] = g
    BY <2>1 DEF Range
  <2>4. g \in Books /\ p > 0
    BY <2>3 DEF LearningTypes
  <2>5. Ahead(g, k)'
    BY <1>1, <2>3, <2>4 DEF Ahead, ListedBelow
  <2>6. RowSamples(command, g, outcomes[g][k]) = RowSamples(read'.command, g, outcomes'[g][k])
    BY <1>1
  <2> QED
    BY <1>1, <2>1, <2>2, <2>4, <2>5, <2>6 DEF ToCome
<1> QED
  BY <1>2, <1>3 DEF ReadInv

\* A page of goals has the goals at its offset; the rest is further down, unless it is the
\* last one.
LEMMA GoalsPageKeeps ==
  ASSUME LearningTypes, ReadInv, ReadGoals
  PROVE  LearningTypes' /\ ReadInv'
<1> DEFINE page == Window(listed, read.offset)
<1>1. /\ read.at = "goals" /\ UNCHANGED <<listed, outcomes, recorded, due>>
      /\ read' = [read EXCEPT !.at = "goal", !.goals = page, !.last = IsLast(page)]
  BY DEF ReadGoals
<1>2. Reading /\ read # NotReading
  <2>1. NotReading.at = "idle"
    BY DEF NotReading
  <2> QED
    BY <1>1, <2>1 DEF LearningTypes
<1>3. listed \in Seq(Books) /\ read.offset \in Nat
  BY <1>2 DEF LearningTypes, Reading
<1>4. /\ page \in Seq(Books)
      /\ \A p \in DOMAIN listed :
           p > read.offset /\ (p <= read.offset + PageLimit \/ IsLast(page))
             => \E q \in DOMAIN page : page[q] = listed[p]
  BY <1>3, PageHas
<1> HIDE DEF page
<1>5. /\ DOMAIN read' = DOMAIN read /\ read'.at = "goal" /\ read'.goals = page /\ read'.last = IsLast(page)
      /\ read'.command = read.command /\ read'.offset = read.offset /\ read'.rows = read.rows
      /\ read'.samples = read.samples
  BY <1>1, <1>2 DEF Reading
<1>6. LearningTypes'
  <2>1. Reading'
    BY <1>2, <1>4, <1>5 DEF Reading
  <2> QED
    BY <1>1, <2>1 DEF LearningTypes
<1>7. ASSUME NEW g \in Books, NEW k \in DOMAIN outcomes[g], Ahead(g, k) PROVE Ahead(g, k)'
  <2>1. PICK p \in DOMAIN listed : p > read.offset /\ listed[p] = g
    BY <1>1, <1>7 DEF Ahead, ListedBelow
  <2>2. CASE p <= read.offset + PageLimit \/ IsLast(page)
    <3>1. g \in Range(page)
      BY <1>4, <2>1, <2>2 DEF Range
    <3> QED
      BY <1>5, <3>1 DEF Ahead
  <2>3. CASE ~(p <= read.offset + PageLimit \/ IsLast(page))
    <3>1. p > read.offset + PageLimit
      BY <1>3, <2>3, LearningAssumption
    <3> QED
      BY <1>1, <1>5, <2>1, <2>3, <3>1 DEF Ahead, ListedBelow
  <2> QED
    BY <2>2, <2>3
<1> QED
  BY <1>1, <1>2, <1>5, <1>6, <1>7, ReadKeeps

\* The goal that is skipped has another domain; the page that is left was read to its end.
LEMMA NextGoalKeeps ==
  ASSUME LearningTypes, ReadInv, NextGoal
  PROVE  LearningTypes' /\ ReadInv'
<1>1. read.at = "goal" /\ UNCHANGED <<listed, outcomes, recorded, due>>
  BY DEF NextGoal
<1>2. Reading /\ read # NotReading
  <2>1. NotReading.at = "idle"
    BY DEF NotReading
  <2> QED
    BY <1>1, <2>1 DEF LearningTypes
<1>3. CASE read.goals # <<>>
  <2> DEFINE g == Head(read.goals)
  <2>1. /\ g \in Books /\ Tail(read.goals) \in Seq(Books)
        /\ \A b \in Range(read.goals) : b = g \/ b \in Range(Tail(read.goals))
    BY <1>2, <1>3, HeadOrTail DEF Reading
  <2>2. CASE g.domain = Domain /\ g.versions # <<>>
    <3>1. read' = [read EXCEPT !.at = "outcomes", !.rows = 0]
      BY <1>3, <2>2 DEF NextGoal
    <3>2. /\ DOMAIN read' = DOMAIN read /\ read'.at = "outcomes" /\ read'.goals = read.goals /\ read'.last = read.last
          /\ read'.command = read.command /\ read'.offset = read.offset /\ read'.rows = 0
          /\ read'.samples = read.samples
      BY <1>2, <3>1 DEF Reading
    <3>3. LearningTypes'
      <4>1. Reading'
        BY <1>2, <1>3, <3>2 DEF Reading
      <4> QED
        BY <1>1, <4>1 DEF LearningTypes
    <3>4. ASSUME NEW b \in Books, NEW k \in DOMAIN outcomes[b], Ahead(b, k) PROVE Ahead(b, k)'
      <4>1. k > 0
        BY DEF LearningTypes
      <4> QED
        BY <1>1, <2>1, <3>2, <3>4, <4>1 DEF Ahead, ListedBelow
    <3> QED
      BY <1>1, <1>2, <3>2, <3>3, <3>4, ReadKeeps
  <2>3. CASE ~(g.domain = Domain /\ g.versions # <<>>)
    <3>1. read' = [read EXCEPT !.goals = Tail(@)]
      BY <1>3, <2>3 DEF NextGoal
    <3>2. /\ DOMAIN read' = DOMAIN read /\ read'.at = "goal" /\ read'.goals = Tail(read.goals) /\ read'.last = read.last
          /\ read'.command = read.command /\ read'.offset = read.offset /\ read'.rows = read.rows
          /\ read'.samples = read.samples
      BY <1>1, <1>2, <3>1 DEF Reading
    <3>3. LearningTypes'
      <4>1. Reading'
        BY <1>2, <2>1, <3>2 DEF Reading
      <4> QED
        BY <1>1, <4>1 DEF LearningTypes
    <3>4. ASSUME NEW b \in Books, NEW k \in DOMAIN outcomes[b], b.domain = Domain, Ahead(b, k)
          PROVE  Ahead(b, k)'
      <4>1. b # g
        <5>1. outcomes[b] \in Seq(OutcomeRows(b))
          BY DEF LearningTypes
        <5>2. outcomes[b][k] \in OutcomeRows(b)
          BY <5>1
        <5>3. outcomes[b][k].version \in DOMAIN b.versions
          BY <5>2 DEF OutcomeRows
        <5>4. DOMAIN <<>> = {}
          OBVIOUS
        <5> QED
          BY <2>3, <3>4, <5>3, <5>4
      <4> QED
        BY <1>1, <2>1, <3>2, <3>4, <4>1 DEF Ahead, ListedBelow
    <3> QED
      BY <1>1, <1>2, <3>2, <3>3, <3>4, ReadKeeps
  <2> QED
    BY <2>2, <2>3
<1>4. CASE read.goals = <<>>
  <2>1. \A b : b \notin Range(read.goals)
    <3>1. DOMAIN <<>> = {}
      OBVIOUS
    <3> QED
      BY <1>4, <3>1 DEF Range
  <2>2. CASE read.last
    <3>1. read' = [read EXCEPT !.at = "done"]
      BY <1>4, <2>2 DEF NextGoal
    <3>2. /\ DOMAIN read' = DOMAIN read /\ read'.at = "done" /\ read'.goals = read.goals /\ read'.last = read.last
          /\ read'.command = read.command /\ read'.offset = read.offset /\ read'.rows = read.rows
          /\ read'.samples = read.samples
      BY <1>2, <3>1 DEF Reading
    <3>3. LearningTypes'
      <4>1. Reading'
        BY <1>2, <3>2 DEF Reading
      <4> QED
        BY <1>1, <4>1 DEF LearningTypes
    <3>4. \A b \in Books : \A k \in DOMAIN outcomes[b] : ~Ahead(b, k)
      BY <1>1, <2>1, <2>2 DEF Ahead
    <3> QED
      BY <1>1, <1>2, <3>2, <3>3, <3>4, ReadKeeps
  <2>3. CASE ~read.last
    <3>1. read' = [read EXCEPT !.at = "goals", !.offset = @ + PageLimit]
      BY <1>4, <2>3 DEF NextGoal
    <3>2. /\ DOMAIN read' = DOMAIN read /\ read'.at = "goals" /\ read'.goals = read.goals /\ read'.last = read.last
          /\ read'.command = read.command /\ read'.offset = read.offset + PageLimit /\ read'.rows = read.rows
          /\ read'.samples = read.samples
      BY <1>2, <3>1 DEF Reading
    <3>3. LearningTypes'
      <4>1. read.offset + PageLimit \in Nat
        BY <1>2, LearningAssumption DEF Reading
      <4>2. Reading'
        BY <1>2, <3>2, <4>1 DEF Reading
      <4> QED
        BY <1>1, <4>2 DEF LearningTypes
    <3>4. ASSUME NEW b \in Books, NEW k \in DOMAIN outcomes[b], Ahead(b, k) PROVE Ahead(b, k)'
      BY <1>1, <2>1, <3>2, <3>4 DEF Ahead, ListedBelow
    <3> QED
      BY <1>1, <1>2, <3>2, <3>3, <3>4, ReadKeeps
  <2> QED
    BY <2>2, <2>3
<1> QED
  BY <1>3, <1>4

\* The samples of a read stay a list with each page (append).
LEMMA SamplesGrow ==
  ASSUME Reading, NEW T, NEW b \in Seq(T)
  PROVE  /\ \E S : read.samples \o b \in Seq(S)
         /\ Range(read.samples \o b) = Range(read.samples) \cup Range(b)
<1>1. PICK S : read.samples \in Seq(S)
  BY DEF Reading
<1> DEFINE U == S \cup T
<1>2. read.samples \in Seq(U) /\ b \in Seq(U)
  BY <1>1
<1> HIDE DEF U
<1> QED
  BY <1>2, RangeConcatenation

\* A page of outcomes gives the samples of its rows; the rest of the goal's rows is further
\* down, unless it is the last page.
LEMMA OutcomesPageKeeps ==
  ASSUME LearningTypes, ReadInv, ReadOutcomes
  PROVE  LearningTypes' /\ ReadInv'
<1> DEFINE g == Head(read.goals)
           page == Window(outcomes[g], read.rows)
           more == SetToSeq(Samples(read.command, g, page))
<1>1. /\ read.at = "outcomes" /\ UNCHANGED <<listed, outcomes, recorded, due>>
      /\ read' = IF IsLast(page)
                 THEN [[read EXCEPT !.samples = @ \o more] EXCEPT !.at = "goal", !.goals = Tail(@)]
                 ELSE [[read EXCEPT !.samples = @ \o more] EXCEPT !.rows = @ + PageLimit]
  BY DEF ReadOutcomes
<1>2. Reading /\ read # NotReading
  <2>1. NotReading.at = "idle"
    BY DEF NotReading
  <2> QED
    BY <1>1, <2>1 DEF LearningTypes
<1>3. /\ g \in Books /\ Tail(read.goals) \in Seq(Books) /\ read.goals # <<>>
      /\ read.rows \in Nat /\ outcomes[g] \in Seq(OutcomeRows(g))
  <2>1. read.goals \in Seq(Books) /\ read.goals # <<>>
    BY <1>1, <1>2 DEF Reading
  <2> QED
    BY <1>2, <2>1, HeadOrTail DEF Reading, LearningTypes
<1>4. /\ page \in Seq(OutcomeRows(g))
      /\ \A p \in DOMAIN outcomes[g] :
           p > read.rows /\ (p <= read.rows + PageLimit \/ IsLast(page))
             => \E q \in DOMAIN page : page[q] = outcomes[g][p]
  BY <1>3, PageHas
<1> HIDE DEF page
<1>5. /\ more \in Seq(Samples(read.command, g, page)) /\ Range(more) = Samples(read.command, g, page)
  BY <1>3, <1>4, SamplesAreFinite, SequenceOfSet
<1> HIDE DEF more
<1>6. /\ \E S : read.samples \o more \in Seq(S)
      /\ Range(read.samples \o more) = Range(read.samples) \cup Samples(read.command, g, page)
  BY <1>2, <1>5, SamplesGrow
<1>7. /\ DOMAIN read' = DOMAIN read /\ read'.last = read.last /\ read'.command = read.command
      /\ read'.offset = read.offset /\ read'.samples = read.samples \o more
      /\ IF IsLast(page) THEN /\ read'.at = "goal" /\ read'.goals = Tail(read.goals) /\ read'.rows = read.rows
                         ELSE /\ read'.at = "outcomes" /\ read'.goals = read.goals
                              /\ read'.rows = read.rows + PageLimit
  <2>1. DOMAIN read = {"at", "command", "offset", "goals", "last", "rows", "samples"}
    BY <1>2 DEF Reading
  <2>2. CASE IsLast(page)
    BY <1>1, <2>1, <2>2
  <2>3. CASE ~IsLast(page)
    BY <1>1, <2>1, <2>3
  <2> QED
    BY <2>2, <2>3
<1>8. LearningTypes'
  <2>1. read.rows + PageLimit \in Nat
    BY <1>3, LearningAssumption
  <2>2. Reading'
    BY <1>2, <1>3, <1>6, <1>7, <2>1 DEF Reading
  <2> QED
    BY <1>1, <2>2 DEF LearningTypes
<1>9. ASSUME NEW b \in Books, NEW k \in DOMAIN outcomes[b], Ahead(b, k),
              ~(RowSamples(read.command, b, outcomes[b][k]) \subseteq Range(read'.samples))
       PROVE  Ahead(b, k)'
  <2>1. CASE b = g /\ k > read.rows
    <3>1. CASE k <= read.rows + PageLimit \/ IsLast(page)
      <4>1. PICK q \in DOMAIN page : page[q] = outcomes[b][k]
        BY <1>4, <2>1, <3>1
      <4>2. RowSamples(read.command, b, outcomes[b][k]) \subseteq Samples(read.command, g, page)
        BY <2>1, <4>1, SamplesByRow
      <4> QED
        BY <1>6, <1>7, <1>9, <4>2
    <3>2. CASE ~(k <= read.rows + PageLimit \/ IsLast(page))
      <4>1. k > read.rows + PageLimit
        BY <1>3, <2>1, <3>2, LearningAssumption
      <4> QED
        BY <1>7, <2>1, <3>2, <4>1 DEF Ahead
    <3> QED
      BY <3>1, <3>2
  <2>2. CASE b \in Range(Tail(read.goals))
    BY <1>7, <2>2 DEF Ahead
  <2>3. CASE ~read.last /\ ListedBelow(b, read.offset + PageLimit)
    BY <1>1, <1>7, <2>3 DEF Ahead, ListedBelow
  <2> QED
    BY <1>1, <1>9, <2>1, <2>2, <2>3 DEF Ahead
<1> QED
  BY <1>1, <1>2, <1>6, <1>7, <1>8, <1>9, ReadKeeps

\* One step of the store or of a read.
LEMMA ReadNext ==
  ASSUME LearningTypes, ReadInv, [LearningNext]_learningVars
  PROVE  (LearningTypes /\ ReadInv)'
<1>1. CASE UNCHANGED learningVars
  <2>1. UNCHANGED <<listed, outcomes, read, recorded, due>>
    BY <1>1 DEF learningVars
  <2>2. LearningTypes'
    BY <2>1 DEF LearningTypes, Reading
  <2>3. CASE read = NotReading
    BY <2>1, <2>2, <2>3 DEF ReadInv
  <2>4. CASE read # NotReading
    <3>1. \A g \in Books : \A k \in DOMAIN outcomes[g] : Ahead(g, k) => Ahead(g, k)'
      BY <2>1 DEF Ahead, ListedBelow
    <3> QED
      BY <2>1, <2>2, <2>4, <3>1, ReadKeeps
  <2> QED
    BY <2>2, <2>3, <2>4
<1> QED
  BY <1>1, ArrivalsKeepReadInv, BeginKeeps, GoalsPageKeeps, NextGoalKeeps, OutcomesPageKeeps
  DEF LearningNext

\* "every decisive recorded outcome" (service.go:504): rows only move down the listings that
\* the learning commands page through, so that what was recorded when a read began is on a
\* page to come until it is in the samples, for any pages, any late rows and any goals.
THEOREM ReadsAreComplete == LearningSpec => []NoOutcomeMissed
<1>1. LearningInit => LearningTypes /\ ReadInv
  BY TypesInit DEF LearningInit, ReadInv
<1>2. LearningTypes /\ ReadInv /\ [LearningNext]_learningVars => (LearningTypes /\ ReadInv)'
  BY ReadNext
<1>3. LearningTypes /\ ReadInv => NoOutcomeMissed
  <2>1. NotReading.at = "idle"
    BY DEF NotReading
  <2> QED
    BY <2>1 DEF ReadInv, NoOutcomeMissed, ToCome, Ahead
<1> QED
  BY <1>1, <1>2, <1>3, PTL DEF LearningSpec

-----------------------------------------------------------------------------
(* What strategy-fit makes of a read.                                      *)

\* Every element is in a list once.
Once(list) == \A i, j \in DOMAIN list : list[i] = list[j] => i = j

\* Goals are listed once, and outcome ids are unique: an outcome row is inserted under the
\* next one.
RowsInv ==
  /\ Once(listed) /\ due.late \in Nat
  /\ \A g \in Books : \A k \in DOMAIN outcomes[g] : outcomes[g][k].id <= recorded
  /\ \A g, h \in Books : \A k \in DOMAIN outcomes[g] : \A l \in DOMAIN outcomes[h] :
       outcomes[g][k].id = outcomes[h][l].id => g = h /\ k = l

\* A strategy-fit over a store at rest has read each due sample at most once, and never from
\* a row that it is still to come to.
AtRest == read # NotReading /\ read.command = "strategy-fit" /\ due.late = 0

OnceInv ==
  AtRest =>
    /\ due.rows = UNION {Samples("strategy-fit", g, outcomes[g]) : g \in {b \in Range(listed) : b.domain = Domain}}
    /\ Range(read.samples) \subseteq due.rows /\ Once(read.samples)
    /\ \A g \in Books : \A k \in DOMAIN outcomes[g] : \A i \in DOMAIN read.samples :
         read.samples[i].row = outcomes[g][k].id => ~Ahead(g, k)
    /\ read.at \in {"goal", "outcomes"} =>
         /\ Once(read.goals)
         /\ \A g \in Range(read.goals) : g \in Range(listed) /\ ~ListedBelow(g, read.offset + PageLimit)
    /\ read.at = "outcomes" => Head(read.goals).domain = Domain

\* A finite set as a sequence has each member once.
LEMMA SequenceHasOnce ==
  ASSUME NEW S, IsFiniteSet(S)
  PROVE  Once(SetToSeq(S))
<1> DEFINE n == Cardinality(S)
           f == SetToSeq(S)
<1>1. n \in Nat /\ ExistsBijection(1..n, S)
  BY FS_CardinalityType
<1>2. \E b \in [1..n -> S] : IsInjective(b)
  BY <1>1 DEF ExistsBijection, Bijection, Injection
<1>3. f \in [1..n -> S] /\ IsInjective(f)
  BY <1>2 DEF SetToSeq
<1> HIDE DEF f, n
<1> QED
  BY <1>3 DEF IsInjective, Once, f

\* Row k of a new list is the one put in; the rows below it have moved down by one place.
InsertedAt(rows, row, new, k) ==
  /\ Len(new) = Len(rows) + 1 /\ new[k] = row
  /\ \A i \in 1..(k - 1) : new[i] = rows[i]
  /\ \A i \in (k + 1)..(Len(rows) + 1) : new[i] = rows[i - 1]

\* An insert puts one row in (CreateGoal, RecordOutcome).
LEMMA ArrivalIsInsert ==
  ASSUME NEW S, NEW rows \in Seq(S), NEW row \in S, NEW new \in Arrives(rows, row)
  PROVE  new \in Seq(S) /\ \E k \in 1..(Len(rows) + 1) : InsertedAt(rows, row, new, k)
<1>1. PICK k \in 1..(Len(rows) + 1) : new = InsertAt(rows, k, row)
  BY DEF Arrives
<1> DEFINE a == SubSeq(rows, 1, k - 1)
           b == SubSeq(rows, k, Len(rows))
<1>2. /\ a \in Seq(S) /\ Len(a) = k - 1 /\ \A i \in 1..(k - 1) : a[i] = rows[i]
      /\ b \in Seq(S) /\ Len(b) = Len(rows) - k + 1
      /\ \A i \in 1..(Len(rows) - k + 1) : b[i] = rows[k + i - 1]
  OBVIOUS
<1>3. new = (a \o <<row>>) \o b /\ <<row>> \in Seq(S)
  BY <1>1 DEF InsertAt
<1> HIDE DEF a, b
<1>4. /\ a \o <<row>> \in Seq(S) /\ Len(a \o <<row>>) = k /\ (a \o <<row>>)[k] = row
      /\ \A i \in 1..(k - 1) : (a \o <<row>>)[i] = a[i]
  BY <1>2, <1>3
<1> DEFINE c == a \o <<row>>
<1>5. c \in Seq(S) /\ b \in Seq(S) /\ Len(c) = k /\ Len(b) = Len(rows) - k + 1 /\ new = c \o b
  BY <1>2, <1>3, <1>4
<1>6. c[k] = row /\ \A i \in 1..(k - 1) : c[i] = a[i]
  BY <1>4
<1> HIDE DEF c
<1>7. /\ new \in Seq(S) /\ Len(new) = Len(c) + Len(b)
      /\ \A i \in 1..Len(c) : new[i] = c[i]
      /\ \A i \in 1..Len(b) : new[Len(c) + i] = b[i]
  BY <1>5
<1>8. \A i \in (k + 1)..(Len(rows) + 1) :
        i - k \in 1..(Len(rows) - k + 1) /\ k + (i - k) = i /\ k + (i - k) - 1 = i - 1
  OBVIOUS
<1>9. ASSUME NEW i \in (k + 1)..(Len(rows) + 1) PROVE new[i] = rows[i - 1]
  <2>1. new[Len(c) + (i - k)] = b[i - k]
    BY <1>5, <1>7, <1>8
  <2>2. b[i - k] = rows[k + (i - k) - 1]
    BY <1>2, <1>8
  <2> QED
    BY <1>5, <1>8, <2>1, <2>2
<1>10. Len(new) = Len(rows) + 1 /\ k \in 1..Len(c) /\ \A i \in 1..(k - 1) : i \in 1..Len(c)
  BY <1>5, <1>7
<1>11. \A i \in 1..(k - 1) : new[i] = rows[i]
  BY <1>2, <1>6, <1>7, <1>10
<1> QED
  BY <1>6, <1>7, <1>9, <1>10, <1>11 DEF InsertedAt

\* A row that is new to a list leaves each in it once.
LEMMA ArrivalKeepsOnce ==
  ASSUME NEW S, NEW rows \in Seq(S), NEW row \in S \ Range(rows), NEW new \in Arrives(rows, row), Once(rows)
  PROVE  Once(new)
<1>0. PICK k \in 1..(Len(rows) + 1) : InsertedAt(rows, row, new, k)
  BY ArrivalIsInsert
<1>1. /\ new \in Seq(S) /\ Len(new) = Len(rows) + 1 /\ new[k] = row
      /\ \A i \in 1..(k - 1) : new[i] = rows[i]
      /\ \A i \in (k + 1)..(Len(rows) + 1) : new[i] = rows[i - 1]
  BY <1>0, ArrivalIsInsert DEF InsertedAt
<1> DEFINE from(i) == IF i < k THEN i ELSE i - 1
<1>2. ASSUME NEW i \in 1..(Len(rows) + 1), i # k PROVE from(i) \in 1..Len(rows) /\ new[i] = rows[from(i)]
  <2>1. CASE i < k
    <3>1. i \in 1..(k - 1)
      BY <2>1
    <3> QED
      BY <1>1, <2>1, <3>1
  <2>2. CASE ~(i < k)
    <3>1. i \in (k + 1)..(Len(rows) + 1)
      BY <1>2, <2>2
    <3> QED
      BY <1>1, <2>2, <3>1
  <2> QED
    BY <2>1, <2>2
<1>3. \A i, j \in 1..(Len(rows) + 1) : i # k /\ j # k /\ from(i) = from(j) => i = j
  OBVIOUS
<1> HIDE DEF from
<1>4. \A i \in 1..Len(rows) : rows[i] # row
  BY DEF Range
<1>5. DOMAIN new = 1..(Len(rows) + 1) /\ DOMAIN rows = 1..Len(rows)
  BY <1>1
<1> SUFFICES ASSUME NEW i \in DOMAIN new, NEW j \in DOMAIN new, new[i] = new[j] PROVE i = j
  BY DEF Once
<1>6. CASE i = k \/ j = k
  BY <1>1, <1>2, <1>4, <1>5, <1>6
<1>7. CASE i # k /\ j # k
  BY <1>2, <1>3, <1>5, <1>7 DEF Once
<1> QED
  BY <1>6, <1>7

\* What the store takes in keeps the rows apart.
LEMMA ArrivalsKeepRows ==
  ASSUME LearningTypes, RowsInv, GoalArrives \/ OutcomeArrives
  PROVE  RowsInv' /\ (read # NotReading => due'.late # 0) /\ read' = read
<1>0. Arrival => /\ due'.late \in Nat
                 /\ read # NotReading => due'.late # 0
  BY DEF Arrival, LearningTypes, RowsInv
<1>1. CASE GoalArrives
  <2>1. PICK b \in Books \ Range(listed) : listed' \in Arrives(listed, b)
    BY <1>1 DEF GoalArrives
  <2>2. outcomes' = outcomes /\ read' = read /\ recorded' = recorded /\ Arrival
    BY <1>1 DEF GoalArrives
  <2>3. listed \in Seq(Books) /\ Once(listed)
    BY DEF LearningTypes, RowsInv
  <2>4. Once(listed')
    BY <2>1, <2>3, ArrivalKeepsOnce
  <2> QED
    BY <1>0, <2>2, <2>4 DEF RowsInv
<1>2. CASE OutcomeArrives
  <2>1. PICK b \in Range(listed) : \E v \in DOMAIN b.versions : \E m \in b.versions[v].moves :
          \E result \in {"success", "failure", "partial"} :
            /\ recorded' = recorded + 1
            /\ LET row == [id |-> recorded', result |-> result, version |-> v, rank |-> m.rank]
               IN  \E rows \in Arrives(outcomes[b], row) : outcomes' = [outcomes EXCEPT ![b] = rows]
            /\ Arrival
            /\ UNCHANGED <<listed, read>>
    BY <1>2 DEF OutcomeArrives
  <2>2. PICK v \in DOMAIN b.versions : \E m \in b.versions[v].moves :
          \E result \in {"success", "failure", "partial"} :
          /\ recorded' = recorded + 1
          /\ \E rows \in Arrives(outcomes[b], [id |-> recorded', result |-> result, version |-> v, rank |-> m.rank]) :
               outcomes' = [outcomes EXCEPT ![b] = rows]
          /\ Arrival
          /\ UNCHANGED <<listed, read>>
    BY <2>1
  <2>3. PICK m \in b.versions[v].moves, result \in {"success", "failure", "partial"} :
          /\ recorded' = recorded + 1
          /\ \E rows \in Arrives(outcomes[b], [id |-> recorded', result |-> result, version |-> v, rank |-> m.rank]) :
               outcomes' = [outcomes EXCEPT ![b] = rows]
          /\ Arrival
          /\ UNCHANGED <<listed, read>>
    BY <2>2
  <2> DEFINE row == [id |-> recorded', result |-> result, version |-> v, rank |-> m.rank]
  <2>4. PICK rows \in Arrives(outcomes[b], row) : outcomes' = [outcomes EXCEPT ![b] = rows]
    BY <2>3
  <2>5. /\ b \in Books /\ outcomes[b] \in Seq(OutcomeRows(b)) /\ recorded \in Nat /\ recorded' = recorded + 1
        /\ DOMAIN outcomes = Books
    BY <2>3 DEF LearningTypes, Range
  <2>6. row \in OutcomeRows(b) /\ row.id = recorded'
    <3>1. m.rank \in Ranks
      BY <2>5 DEF Ranks
    <3> QED
      BY <2>5, <3>1 DEF OutcomeRows
  <2> HIDE DEF row
  <2>0. /\ rows \in Seq(OutcomeRows(b))
        /\ \E k \in 1..(Len(outcomes[b]) + 1) : InsertedAt(outcomes[b], row, rows, k)
    BY <2>4, <2>5, <2>6, ArrivalIsInsert
  <2>7. PICK k \in 1..(Len(outcomes[b]) + 1) :
          /\ rows \in Seq(OutcomeRows(b)) /\ Len(rows) = Len(outcomes[b]) + 1 /\ rows[k] = row
          /\ \A i \in 1..(k - 1) : rows[i] = outcomes[b][i]
          /\ \A i \in (k + 1)..(Len(outcomes[b]) + 1) : rows[i] = outcomes[b][i - 1]
    BY <2>0 DEF InsertedAt
  <2>8. /\ \A g \in Books : g # b => outcomes'[g] = outcomes[g]
        /\ outcomes'[b] = rows
    BY <2>4, <2>5
  <2> DEFINE from(i) == IF i < k THEN i ELSE i - 1
             top(g, i) == g = b /\ i = k
             was(g, i) == IF g = b THEN from(i) ELSE i
  <2>9. ASSUME NEW g \in Books, NEW i \in DOMAIN outcomes'[g], ~top(g, i)
        PROVE  was(g, i) \in DOMAIN outcomes[g] /\ outcomes'[g][i] = outcomes[g][was(g, i)]
    <3>1. CASE g = b
      <4>1. i \in 1..(Len(outcomes[b]) + 1) /\ i # k
        BY <2>7, <2>8, <2>9, <3>1
      <4>2. from(i) \in DOMAIN outcomes[b] /\ rows[i] = outcomes[b][from(i)]
        BY <2>5, <2>7, <4>1
      <4> QED
        BY <2>8, <3>1, <4>2
    <3>2. CASE g # b
      BY <2>8, <3>2
    <3> QED
      BY <3>1, <3>2
  <2>10. ASSUME NEW g \in Books, NEW i \in DOMAIN outcomes'[g], top(g, i)
         PROVE  outcomes'[g][i].id = recorded + 1
    BY <2>5, <2>6, <2>7, <2>8, <2>10
  <2>11. \A g \in Books : \A i \in DOMAIN outcomes[g] : outcomes[g][i].id \in Nat /\ outcomes[g][i].id <= recorded
    <3>1. \A g \in Books : \A i \in DOMAIN outcomes[g] : outcomes[g][i] \in OutcomeRows(g)
      BY DEF LearningTypes
    <3> QED
      BY <3>1 DEF OutcomeRows, RowsInv
  <2>12. \A i, j \in 1..(Len(outcomes[b]) + 1) : i # k /\ j # k /\ from(i) = from(j) => i = j
    BY <2>7
  <2>13. DOMAIN outcomes'[b] = 1..(Len(outcomes[b]) + 1)
    BY <2>7, <2>8
  <2>14. \A g \in Books : \A i, j \in DOMAIN outcomes'[g] :
           ~top(g, i) /\ ~top(g, j) /\ was(g, i) = was(g, j) => i = j
    BY <2>12, <2>13
  <2>15. \A g, h \in Books : \A i, j : top(g, i) /\ top(h, j) => g = h /\ i = j
    OBVIOUS
  <2> HIDE DEF from, top, was
  <2>16. \A g \in Books : \A i \in DOMAIN outcomes'[g] : outcomes'[g][i].id <= recorded + 1
    BY <2>5, <2>9, <2>10, <2>11
  <2>17. ASSUME NEW g \in Books, NEW h \in Books, NEW i \in DOMAIN outcomes'[g], NEW j \in DOMAIN outcomes'[h],
                outcomes'[g][i].id = outcomes'[h][j].id
         PROVE  g = h /\ i = j
    <3>1. CASE top(g, i) /\ top(h, j)
      BY <2>15, <3>1
    <3>2. CASE top(g, i) /\ ~top(h, j)
      <4>1. outcomes'[h][j].id = recorded + 1 /\ outcomes'[h][j].id <= recorded
        BY <2>9, <2>10, <2>11, <2>17, <3>2
      <4> QED
        BY <2>5, <4>1
    <3>3. CASE ~top(g, i) /\ top(h, j)
      <4>1. outcomes'[g][i].id = recorded + 1 /\ outcomes'[g][i].id <= recorded
        BY <2>9, <2>10, <2>11, <2>17, <3>3
      <4> QED
        BY <2>5, <4>1
    <3>4. CASE ~top(g, i) /\ ~top(h, j)
      <4>1. g = h /\ was(g, i) = was(h, j)
        BY <2>9, <2>17, <3>4 DEF RowsInv
      <4> QED
        BY <2>14, <3>4, <4>1
    <3> QED
      BY <3>1, <3>2, <3>3, <3>4
  <2> QED
    BY <1>0, <2>3, <2>5, <2>16, <2>17 DEF RowsInv
<1> QED
  BY <1>1, <1>2

\* A strategy sample carries the id of its row.
LEMMA StrategyRow ==
  ASSUME NEW g, NEW row, NEW s \in RowSamples("strategy-fit", g, row)
  PROVE  s.row = row.id
<1>1. Samples("strategy-fit", g, <<row>>) = StrategySamples(g, <<row>>)
  BY DEF Samples
<1>2. DOMAIN <<row>> = {1} /\ <<row>>[1] = row
  OBVIOUS
<1>3. s \in StrategySamples(g, <<row>>)
  BY <1>1 DEF RowSamples
<1>4. \E k \in DOMAIN <<row>> : s = [row |-> <<row>>[k].id, success |-> <<row>>[k].result = "success",
                                    strategy |-> g.versions[<<row>>[k].version].strategy,
                                    regime |-> g.versions[<<row>>[k].version].regime,
                                    comparator |-> g.versions[<<row>>[k].version].comparator]
  BY <1>3, Zenon DEF StrategySamples
<1>5. \E k \in DOMAIN <<row>> : s.row = <<row>>[k].id
  BY <1>4
<1> QED
  BY <1>2, <1>5

\* A page has nothing but rows of its window.
LEMMA PageIs ==
  ASSUME NEW S, NEW rows \in Seq(S), NEW offset \in Nat
  PROVE  \A q \in DOMAIN Window(rows, offset) :
           /\ q \in Nat \ {0} /\ q <= PageLimit /\ offset + q \in DOMAIN rows
           /\ Window(rows, offset)[q] = rows[offset + q]
<1> DEFINE end == IF offset + PageLimit <= Len(rows) THEN offset + PageLimit ELSE Len(rows)
           page == Window(rows, offset)
<1>1. PageLimit \in Nat \ {0} /\ end \in Nat /\ end <= Len(rows)
  BY LearningAssumption
<1>2. page = SubSeq(rows, offset + 1, end)
  BY DEF Window
<1>3. /\ page \in Seq(S) /\ Len(page) = (IF offset + 1 <= end THEN end - offset ELSE 0)
      /\ \A i \in 1..Len(page) : page[i] = rows[offset + i]
  <2> HIDE DEF end, page
  <2> QED
    BY <1>1, <1>2
<1>4. end <= offset + PageLimit
  BY <1>1
<1> HIDE DEF end, page
<1>5. ASSUME NEW q \in DOMAIN page
      PROVE  q \in Nat \ {0} /\ q <= PageLimit /\ offset + q \in DOMAIN rows /\ page[q] = rows[offset + q]
  <2>1. q \in 1..Len(page) /\ page[q] = rows[offset + q]
    BY <1>3
  <2>2. q \in Nat \ {0} /\ q <= end - offset
    BY <1>1, <1>3, <2>1
  <2>3. offset + q \in 1..Len(rows)
    BY <1>1, <2>2
  <2> QED
    BY <1>1, <1>4, <2>1, <2>2, <2>3
<1> QED
  BY <1>5 DEF page

\* A list that has each element once has it in its head or in its tail.
LEMMA OnceInTail ==
  ASSUME NEW S, NEW list \in Seq(S), list # <<>>, Once(list)
  PROVE  /\ Once(Tail(list)) /\ Head(list) \notin Range(Tail(list))
         /\ Range(Tail(list)) \subseteq Range(list) /\ Head(list) \in Range(list)
<1>1. /\ Head(list) = list[1] /\ Tail(list) \in Seq(S) /\ Len(list) \in Nat \ {0}
      /\ Len(Tail(list)) = Len(list) - 1
      /\ \A i \in 1..(Len(list) - 1) : Tail(list)[i] = list[i + 1]
  OBVIOUS
<1> DEFINE t == Tail(list)
           n == Len(list)
<1>2. \A i \in DOMAIN t : i + 1 \in DOMAIN list /\ i + 1 # 1 /\ t[i] = list[i + 1]
  BY <1>1
<1>3. 1 \in DOMAIN list
  BY <1>1
<1>4. \A i, j \in DOMAIN t : i + 1 = j + 1 => i = j
  BY <1>1
<1> HIDE DEF t, n
<1>5. Once(t)
  BY <1>2, <1>4 DEF Once
<1>6. list[1] \notin Range(t)
  BY <1>2, <1>3 DEF Once, Range
<1>7. Range(t) \subseteq Range(list) /\ list[1] \in Range(list)
  BY <1>2, <1>3 DEF Range
<1> QED
  BY <1>1, <1>5, <1>6, <1>7 DEF t

\* Two lists that share nothing and have each element once, one after the other.
LEMMA OnceTogether ==
  ASSUME NEW S, NEW a \in Seq(S), NEW b \in Seq(S), Once(a), Once(b), Range(a) \cap Range(b) = {}
  PROVE  /\ Once(a \o b)
         /\ \A i \in DOMAIN (a \o b) : \/ i \in DOMAIN a /\ (a \o b)[i] = a[i]
                                       \/ (a \o b)[i] \in Range(b)
<1> DEFINE c == a \o b
<1>1. /\ Len(a) \in Nat /\ Len(b) \in Nat /\ Len(c) = Len(a) + Len(b) /\ c \in Seq(S)
      /\ \A i \in 1..Len(a) : c[i] = a[i]
      /\ \A i \in 1..Len(b) : c[Len(a) + i] = b[i]
  OBVIOUS
<1>2. ASSUME NEW i \in DOMAIN c
      PROVE  (i \in DOMAIN a /\ c[i] = a[i]) \/ (i - Len(a) \in DOMAIN b /\ c[i] = b[i - Len(a)])
  <2>1. i \in 1..Len(a) \/ (i - Len(a) \in 1..Len(b) /\ Len(a) + (i - Len(a)) = i)
    BY <1>1
  <2> QED
    BY <1>1, <2>1
<1>3. \A i, j \in DOMAIN c : i - Len(a) = j - Len(a) => i = j
  BY <1>1
<1> HIDE DEF c
<1>4. Once(c)
  <2> SUFFICES ASSUME NEW i \in DOMAIN c, NEW j \in DOMAIN c, c[i] = c[j] PROVE i = j
    BY DEF Once
  <2>1. CASE (i \in DOMAIN a /\ c[i] = a[i]) /\ (j \in DOMAIN a /\ c[j] = a[j])
    BY <2>1 DEF Once
  <2>2. CASE /\ i - Len(a) \in DOMAIN b /\ c[i] = b[i - Len(a)]
             /\ j - Len(a) \in DOMAIN b /\ c[j] = b[j - Len(a)]
    BY <1>3, <2>2 DEF Once
  <2>3. (c[i] \in Range(a) \/ ~(i \in DOMAIN a /\ c[i] = a[i])) /\ (c[j] \in Range(a) \/ ~(j \in DOMAIN a /\ c[j] = a[j]))
    BY DEF Range
  <2>4. /\ (i - Len(a) \in DOMAIN b /\ c[i] = b[i - Len(a)]) => c[i] \in Range(b)
        /\ (j - Len(a) \in DOMAIN b /\ c[j] = b[j - Len(a)]) => c[j] \in Range(b)
    BY DEF Range
  <2> QED
    BY <1>2, <2>1, <2>2, <2>3, <2>4
<1> QED
  BY <1>2, <1>4 DEF Range, c

-----------------------------------------------------------------------------
\* What a step of the read keeps if it comes to nothing that it has left behind.
LEMMA NothingComesBack ==
  ASSUME OnceInv, AtRest, UNCHANGED <<listed, outcomes, due>>, read'.samples = read.samples,
         \A g \in Books : \A k \in DOMAIN outcomes[g] : Ahead(g, k)' => Ahead(g, k),
         read'.at \in {"goal", "outcomes"} =>
           /\ Once(read'.goals)
           /\ \A g \in Range(read'.goals) : g \in Range(listed) /\ ~ListedBelow(g, read'.offset + PageLimit),
         read'.at = "outcomes" => Head(read'.goals).domain = Domain
  PROVE  OnceInv'
<1> QED
  BY DEF OnceInv, ListedBelow

\* A read begins without samples (BeginRead).
LEMMA BeginKeepsOnce ==
  ASSUME BeginRead
  PROVE  OnceInv'
<1>1. PICK command \in Commands :
        /\ read' = [at |-> "goals", command |-> command, offset |-> 0, goals |-> <<>>, last |-> FALSE,
                    rows |-> 0, samples |-> <<>>]
        /\ due' = [rows |-> UNION {Samples(command, g, outcomes[g]) : g \in {b \in Range(listed) : b.domain = Domain}},
                   late |-> 0]
        /\ UNCHANGED <<listed, outcomes, recorded>>
  BY DEF BeginRead, Commands
<1> SUFFICES ASSUME AtRest'
             PROVE  /\ due'.rows = UNION {Samples("strategy-fit", g, outcomes[g]) : g \in {b \in Range(listed) : b.domain = Domain}}
                    /\ read'.at = "goals" /\ read'.samples = <<>>
  <2>1. Range(<<>>) = {} /\ DOMAIN <<>> = {}
    BY DEF Range
  <2> QED
    BY <1>1, <2>1 DEF OnceInv, Once
<1>2. command = "strategy-fit"
  BY <1>1 DEF AtRest
<1> QED
  BY <1>1, <1>2

\* The goals of a page are listed once, and none of them is listed below the page (ReadGoals).
LEMMA GoalsPageKeepsOnce ==
  ASSUME LearningTypes, RowsInv, OnceInv, AtRest, ReadGoals
  PROVE  OnceInv'
<1> DEFINE page == Window(listed, read.offset)
<1>1. /\ read.at = "goals" /\ UNCHANGED <<listed, outcomes, recorded, due>>
      /\ read' = [read EXCEPT !.at = "goal", !.goals = page, !.last = IsLast(page)]
  BY DEF ReadGoals
<1>2. Reading
  BY DEF LearningTypes, AtRest
<1>3. listed \in Seq(Books) /\ read.offset \in Nat /\ PageLimit \in Nat \ {0} /\ Once(listed)
  BY <1>2, LearningAssumption DEF LearningTypes, Reading, RowsInv
<1>4. \A q \in DOMAIN page : /\ q \in Nat \ {0} /\ q <= PageLimit /\ read.offset + q \in DOMAIN listed
                            /\ page[q] = listed[read.offset + q]
  BY <1>3, PageIs
<1> HIDE DEF page
<1>5. /\ read'.at = "goal" /\ read'.goals = page /\ read'.samples = read.samples /\ read'.offset = read.offset
  BY <1>1, <1>2 DEF Reading
<1>6. Once(page)
  <2> SUFFICES ASSUME NEW i \in DOMAIN page, NEW j \in DOMAIN page, page[i] = page[j] PROVE i = j
    BY DEF Once
  <2>1. read.offset + i = read.offset + j
    BY <1>3, <1>4 DEF Once
  <2> QED
    BY <1>3, <1>4, <2>1
<1>7. ASSUME NEW g \in Range(page)
      PROVE  g \in Range(listed) /\ ~ListedBelow(g, read.offset + PageLimit) /\ ListedBelow(g, read.offset)
  <2>1. PICK q \in DOMAIN page : page[q] = g
    BY DEF Range
  <2>2. /\ q \in Nat \ {0} /\ q <= PageLimit /\ read.offset + q \in DOMAIN listed
        /\ g = listed[read.offset + q]
    BY <1>4, <2>1
  <2>3. \A p \in DOMAIN listed : listed[p] = g => p = read.offset + q
    BY <1>3, <2>2 DEF Once
  <2>4. read.offset + q > read.offset /\ ~(read.offset + q > read.offset + PageLimit)
    BY <1>3, <2>2
  <2> QED
    BY <2>2, <2>3, <2>4 DEF ListedBelow, Range
<1>8. ASSUME NEW g, ListedBelow(g, read.offset + PageLimit) PROVE ListedBelow(g, read.offset)
  <2>1. PICK p \in DOMAIN listed : p > read.offset + PageLimit /\ listed[p] = g
    BY <1>8 DEF ListedBelow
  <2>2. p > read.offset
    BY <1>3, <2>1
  <2> QED
    BY <2>1, <2>2 DEF ListedBelow
<1>9. ASSUME NEW g \in Books, NEW k \in DOMAIN outcomes[g], Ahead(g, k)' PROVE Ahead(g, k)
  <2>1. ListedBelow(g, read.offset + PageLimit) \/ g \in Range(page)
    BY <1>1, <1>5, <1>9 DEF Ahead, ListedBelow
  <2> QED
    BY <1>1, <1>7, <1>8, <2>1 DEF Ahead
<1> QED
  BY <1>1, <1>5, <1>6, <1>7, <1>9, NothingComesBack

\* The next goal of a page is one of it; a page that is left has none to come (NextGoal).
LEMMA NextGoalKeepsOnce ==
  ASSUME LearningTypes, OnceInv, AtRest, NextGoal
  PROVE  OnceInv'
<1>1. read.at = "goal" /\ UNCHANGED <<listed, outcomes, recorded, due>>
  BY DEF NextGoal
<1>2. Reading
  BY DEF LearningTypes, AtRest
<1>3. /\ read.goals \in Seq(Books) /\ Once(read.goals)
      /\ \A g \in Range(read.goals) : g \in Range(listed) /\ ~ListedBelow(g, read.offset + PageLimit)
  BY <1>1, <1>2 DEF Reading, OnceInv
<1>4. CASE read.goals # <<>>
  <2> DEFINE g == Head(read.goals)
  <2>1. /\ Once(Tail(read.goals)) /\ g \in Range(read.goals)
        /\ Range(Tail(read.goals)) \subseteq Range(read.goals)
    BY <1>3, <1>4, OnceInTail
  <2>2. CASE g.domain = Domain /\ g.versions # <<>>
    <3>1. read' = [read EXCEPT !.at = "outcomes", !.rows = 0]
      BY <1>4, <2>2 DEF NextGoal
    <3>2. /\ read'.at = "outcomes" /\ read'.goals = read.goals /\ read'.last = read.last
          /\ read'.offset = read.offset /\ read'.rows = 0 /\ read'.samples = read.samples
      BY <1>2, <3>1 DEF Reading
    <3>3. ASSUME NEW b \in Books, NEW k \in DOMAIN outcomes[b], Ahead(b, k)' PROVE Ahead(b, k)
      BY <1>1, <2>1, <3>2, <3>3 DEF Ahead, ListedBelow
    <3> QED
      BY <1>1, <1>3, <2>2, <3>2, <3>3, NothingComesBack
  <2>3. CASE ~(g.domain = Domain /\ g.versions # <<>>)
    <3>1. read' = [read EXCEPT !.goals = Tail(@)]
      BY <1>4, <2>3 DEF NextGoal
    <3>2. /\ read'.at = "goal" /\ read'.goals = Tail(read.goals) /\ read'.last = read.last
          /\ read'.offset = read.offset /\ read'.samples = read.samples
      BY <1>1, <1>2, <3>1 DEF Reading
    <3>3. ASSUME NEW b \in Books, NEW k \in DOMAIN outcomes[b], Ahead(b, k)' PROVE Ahead(b, k)
      BY <1>1, <2>1, <3>2, <3>3 DEF Ahead, ListedBelow
    <3> QED
      BY <1>1, <1>3, <2>1, <3>2, <3>3, NothingComesBack
  <2> QED
    BY <2>2, <2>3
<1>5. CASE read.goals = <<>>
  <2>1. CASE read.last
    <3>1. read' = [read EXCEPT !.at = "done"]
      BY <1>5, <2>1 DEF NextGoal
    <3>2. read'.at = "done" /\ read'.samples = read.samples
      BY <1>2, <3>1 DEF Reading
    <3>3. \A b \in Books : \A k \in DOMAIN outcomes[b] : ~Ahead(b, k)'
      BY <3>2 DEF Ahead
    <3> QED
      BY <1>1, <3>2, <3>3, NothingComesBack
  <2>2. CASE ~read.last
    <3>1. read' = [read EXCEPT !.at = "goals", !.offset = @ + PageLimit]
      BY <1>5, <2>2 DEF NextGoal
    <3>2. /\ read'.at = "goals" /\ read'.offset = read.offset + PageLimit /\ read'.samples = read.samples
      BY <1>2, <3>1 DEF Reading
    <3>3. ASSUME NEW b \in Books, NEW k \in DOMAIN outcomes[b], Ahead(b, k)' PROVE Ahead(b, k)
      BY <1>1, <2>2, <3>2, <3>3 DEF Ahead, ListedBelow
    <3> QED
      BY <1>1, <3>2, <3>3, NothingComesBack
  <2> QED
    BY <2>1, <2>2
<1> QED
  BY <1>4, <1>5

\* A page of outcomes gives samples of rows that were still to come, and that are not to come
\* again (ReadOutcomes).
LEMMA OutcomesPageKeepsOnce ==
  ASSUME LearningTypes, RowsInv, OnceInv, AtRest, ReadOutcomes
  PROVE  OnceInv'
<1> DEFINE g == Head(read.goals)
           page == Window(outcomes[g], read.rows)
           new == Samples("strategy-fit", g, page)
           more == SetToSeq(new)
<1>1. /\ read.at = "outcomes" /\ UNCHANGED <<listed, outcomes, recorded, due>> /\ read.command = "strategy-fit"
      /\ read' = IF IsLast(page)
                 THEN [[read EXCEPT !.samples = @ \o more] EXCEPT !.at = "goal", !.goals = Tail(@)]
                 ELSE [[read EXCEPT !.samples = @ \o more] EXCEPT !.rows = @ + PageLimit]
  BY DEF ReadOutcomes, AtRest
<1>2. Reading
  BY DEF LearningTypes, AtRest
<1>3. /\ read.goals \in Seq(Books) /\ read.goals # <<>> /\ Once(read.goals)
      /\ \A b \in Range(read.goals) : b \in Range(listed) /\ ~ListedBelow(b, read.offset + PageLimit)
      /\ g.domain = Domain
  <2>1. /\ read.at \in {"goal", "outcomes"} =>
             /\ Once(read.goals)
             /\ \A b \in Range(read.goals) : b \in Range(listed) /\ ~ListedBelow(b, read.offset + PageLimit)
        /\ read.at = "outcomes" => g.domain = Domain
    BY DEF OnceInv
  <2>0. read.at = "outcomes"
    BY <1>1
  <2>2. read.goals \in Seq(Books) /\ read.goals # <<>>
    BY <1>2, <2>0 DEF Reading
  <2> QED
    BY <2>0, <2>1, <2>2
<1>4. /\ Once(Tail(read.goals)) /\ g \notin Range(Tail(read.goals)) /\ g \in Range(read.goals)
      /\ Range(Tail(read.goals)) \subseteq Range(read.goals)
  BY <1>3, OnceInTail
<1>5. g \in Books /\ g \in Range(listed) /\ read.rows \in Nat /\ outcomes[g] \in Seq(OutcomeRows(g))
  <2>1. g \in Range(listed)
    BY <1>3, <1>4
  <2>2. g \in Books
    BY <1>3, HeadOrTail
  <2>3. read.rows \in Nat
    BY <1>2 DEF Reading
  <2>4. outcomes[g] \in Seq(OutcomeRows(g))
    <3> HIDE DEF g
    <3> QED
      BY <2>2 DEF LearningTypes
  <2> QED
    BY <2>1, <2>2, <2>3, <2>4
<1>6. page \in Seq(OutcomeRows(g))
  BY <1>5, PageHas
<1>7. \A q \in DOMAIN page : /\ q \in Nat \ {0} /\ q <= PageLimit /\ read.rows + q \in DOMAIN outcomes[g]
                            /\ page[q] = outcomes[g][read.rows + q]
  BY <1>5, PageIs
<1> HIDE DEF page
<1>8. more \in Seq(new) /\ Range(more) = new /\ Once(more)
  BY <1>5, <1>6, SamplesAreFinite, SequenceOfSet, SequenceHasOnce
<1>9. ASSUME NEW s \in new
      PROVE  \E q \in DOMAIN page : /\ s \in RowSamples("strategy-fit", g, outcomes[g][read.rows + q])
                                    /\ s.row = outcomes[g][read.rows + q].id
  <2>1. PICK q \in DOMAIN page : s \in RowSamples("strategy-fit", g, page[q])
    BY SamplesByRow
  <2>2. s.row = page[q].id
    BY <2>1, StrategyRow
  <2> QED
    BY <1>7, <2>1, <2>2
<1> HIDE DEF new, more
<1>10. /\ due'.rows = due.rows
       /\ due.rows = UNION {Samples("strategy-fit", b, outcomes[b]) : b \in {c \in Range(listed) : c.domain = Domain}}
       /\ Range(read.samples) \subseteq due.rows /\ Once(read.samples)
       /\ \A b \in Books : \A k \in DOMAIN outcomes[b] : \A i \in DOMAIN read.samples :
            read.samples[i].row = outcomes[b][k].id => ~Ahead(b, k)
  BY <1>1 DEF OnceInv
<1>11. new \subseteq due.rows
  <2> SUFFICES ASSUME NEW s \in new PROVE s \in due.rows
    OBVIOUS
  <2>1. PICK q \in DOMAIN page : s \in RowSamples("strategy-fit", g, outcomes[g][read.rows + q])
    BY <1>9
  <2>2. s \in Samples("strategy-fit", g, outcomes[g])
    BY <1>7, <2>1, SamplesByRow
  <2> QED
    BY <1>3, <1>5, <1>10, <2>2
<1>12. Range(read.samples) \cap new = {}
  <2> SUFFICES ASSUME NEW i \in DOMAIN read.samples, read.samples[i] \in new PROVE FALSE
    BY DEF Range
  <2>1. PICK q \in DOMAIN page : read.samples[i].row = outcomes[g][read.rows + q].id
    BY <1>9
  <2>2. ~Ahead(g, read.rows + q)
    BY <1>5, <1>7, <1>10, <2>1
  <2>3. read.rows + q > read.rows
    BY <1>5, <1>7
  <2> QED
    BY <1>1, <2>2, <2>3 DEF Ahead
<1>13. /\ Once(read.samples \o more)
       /\ Range(read.samples \o more) = Range(read.samples) \cup new
       /\ \A i \in DOMAIN (read.samples \o more) :
            \/ i \in DOMAIN read.samples /\ (read.samples \o more)[i] = read.samples[i]
            \/ (read.samples \o more)[i] \in new
  <2>1. PICK S : read.samples \in Seq(S)
    BY <1>2 DEF Reading
  <2> DEFINE U == S \cup new
  <2>2. read.samples \in Seq(U) /\ more \in Seq(U)
    BY <1>8, <2>1
  <2> HIDE DEF U
  <2> QED
    BY <1>8, <1>10, <1>12, <2>2, OnceTogether, RangeConcatenation
<1>14. /\ read'.samples = read.samples \o more /\ read'.last = read.last /\ read'.offset = read.offset
       /\ IF IsLast(page) THEN /\ read'.at = "goal" /\ read'.goals = Tail(read.goals)
                          ELSE /\ read'.at = "outcomes" /\ read'.goals = read.goals
                               /\ read'.rows = read.rows + PageLimit
  <2>1. DOMAIN read = {"at", "command", "offset", "goals", "last", "rows", "samples"}
    BY <1>2 DEF Reading
  <2>2. CASE IsLast(page)
    BY <1>1, <2>1, <2>2
  <2>3. CASE ~IsLast(page)
    BY <1>1, <2>1, <2>3
  <2> QED
    BY <2>2, <2>3
<1>15. PageLimit \in Nat
  BY LearningAssumption
<1>16. ASSUME NEW b \in Books, NEW k \in DOMAIN outcomes[b], Ahead(b, k)'
       PROVE  Ahead(b, k) /\ \A q \in DOMAIN page : ~(b = g /\ k = read.rows + q)
  <2>1. k \in Nat
    BY DEF LearningTypes
  <2>2. CASE IsLast(page)
    BY <1>1, <1>3, <1>4, <1>14, <1>16, <2>2 DEF Ahead, ListedBelow
  <2>3. CASE ~IsLast(page)
    <3>1. \/ ~read.last /\ ListedBelow(b, read.offset + PageLimit)
          \/ b \in Range(Tail(read.goals))
          \/ b = g /\ k > read.rows + PageLimit
      BY <1>1, <1>14, <1>16, <2>3 DEF Ahead, ListedBelow
    <3>2. k > read.rows + PageLimit => k > read.rows
      BY <1>5, <1>15, <2>1
    <3>3. Ahead(b, k)
      BY <1>1, <3>1, <3>2 DEF Ahead
    <3>4. \A q \in DOMAIN page : ~(b = g /\ k = read.rows + q)
      <4> SUFFICES ASSUME NEW q \in DOMAIN page, b = g, k = read.rows + q PROVE FALSE
        OBVIOUS
      <4>0. g \in Range(read.goals) /\ ~ListedBelow(g, read.offset + PageLimit)
        BY <1>3, <1>4
      <4>1. k > read.rows + PageLimit
        BY <1>4, <3>1, <4>0
      <4>2. q \in Nat /\ q <= PageLimit
        BY <1>7
      <4>3. \A x, y, z \in Nat : y <= z => ~(x + y > x + z)
        OBVIOUS
      <4> QED
        BY <1>5, <1>15, <4>1, <4>2, <4>3
    <3> QED
      BY <3>3, <3>4
  <2> QED
    BY <2>2, <2>3
<1>17. ASSUME NEW b \in Books, NEW k \in DOMAIN outcomes[b], NEW i \in DOMAIN read'.samples,
              read'.samples[i].row = outcomes[b][k].id
       PROVE  ~Ahead(b, k)'
  <2>1. CASE i \in DOMAIN read.samples /\ read'.samples[i] = read.samples[i]
    BY <1>10, <1>16, <1>17, <2>1
  <2>2. CASE read'.samples[i] \in new
    <3>1. PICK q \in DOMAIN page : read'.samples[i].row = outcomes[g][read.rows + q].id
      BY <1>9, <2>2
    <3>2. b = g /\ k = read.rows + q
      <4>1. \A c, h \in Books : \A i1 \in DOMAIN outcomes[c] : \A l \in DOMAIN outcomes[h] :
              outcomes[c][i1].id = outcomes[h][l].id => c = h /\ i1 = l
        BY DEF RowsInv
      <4>2. g \in Books /\ read.rows + q \in DOMAIN outcomes[g] /\ outcomes[b][k].id = outcomes[g][read.rows + q].id
        BY <1>5, <1>7, <1>17, <3>1
      <4> QED
        BY <4>1, <4>2
    <3> QED
      BY <1>16, <3>2
  <2> QED
    BY <1>13, <1>14, <2>1, <2>2
<1>18. /\ Once(read'.goals)
       /\ \A b \in Range(read'.goals) : b \in Range(listed) /\ ~ListedBelow(b, read'.offset + PageLimit)
       /\ read'.at = "outcomes" => Head(read'.goals).domain = Domain
  BY <1>3, <1>4, <1>14
<1>19. Range(read'.samples) \subseteq due'.rows /\ Once(read'.samples)
  BY <1>10, <1>11, <1>13, <1>14
<1>20. \A b \in Books : \A k \in DOMAIN outcomes'[b] : \A i \in DOMAIN read'.samples :
         read'.samples[i].row = outcomes'[b][k].id => ~Ahead(b, k)'
  BY <1>1, <1>17
<1> QED
  BY <1>1, <1>10, <1>18, <1>19, <1>20 DEF OnceInv, ListedBelow

\* A list that has each element of a set once has as many places for the elements of a part of
\* it as the part has elements: counting samples counts rows.
LEMMA PlacesCount ==
  ASSUME NEW S, NEW list \in Seq(S), Once(list), NEW part, part \subseteq Range(list)
  PROVE  /\ IsFiniteSet(part) /\ IsFiniteSet({i \in DOMAIN list : list[i] \in part})
         /\ Cardinality({i \in DOMAIN list : list[i] \in part}) = Cardinality(part)
<1> DEFINE places == {i \in DOMAIN list : list[i] \in part}
           f == [i \in places |-> list[i]]
<1>1. Len(list) \in Nat /\ DOMAIN list = 1..Len(list)
  OBVIOUS
<1>2. IsFiniteSet(1..Len(list))
  BY <1>1, FS_Interval
<1>3. IsFiniteSet(places)
  BY <1>1, <1>2, FS_Subset
<1>4. f \in Bijection(places, part)
  <2>1. f \in [places -> part]
    OBVIOUS
  <2>2. \A i, j \in places : f[i] = f[j] => i = j
    BY DEF Once
  <2>3. \A s \in part : \E i \in places : f[i] = s
    BY DEF Range
  <2> HIDE DEF f, places
  <2> QED
    BY <2>1, <2>2, <2>3 DEF Bijection, Injection, Surjection, IsInjective
<1>5. ExistsBijection(places, part)
  BY <1>4 DEF ExistsBijection
<1> HIDE DEF f, places
<1>6. IsFiniteSet(part) /\ Cardinality(places) = Cardinality(part)
  BY <1>3, <1>4, <1>5, FS_Bijection
<1> QED
  BY <1>3, <1>6 DEF places

\* The Laplace-shrunk rate is on the side of 1 that the record is on; the clamps keep it there.
LEMMA WeightSide ==
  ASSUME NEW wins \in Nat, NEW losses \in Nat
  PROVE  /\ Weight(wins, wins + losses)[1] > Weight(wins, wins + losses)[2] <=> wins > losses
         /\ Weight(wins, wins + losses)[1] < Weight(wins, wins + losses)[2] <=> wins < losses
<1> DEFINE n == wins + losses
           w == Weight(wins, n)
<1>1. CASE 4 * (wins + 1) < n + 2
  <2>1. w = <<1, 2>>
    BY <1>1 DEF Weight
  <2>2. wins < losses
    BY <1>1
  <2> QED
    BY <2>1, <2>2
<1>2. CASE ~(4 * (wins + 1) < n + 2) /\ 4 * (wins + 1) > 3 * (n + 2)
  <2>1. w = <<3, 2>>
    BY <1>2 DEF Weight
  <2>2. wins > losses
    BY <1>2
  <2> QED
    BY <2>1, <2>2
<1>3. CASE ~(4 * (wins + 1) < n + 2) /\ ~(4 * (wins + 1) > 3 * (n + 2))
  <2>1. w = <<2 * (wins + 1), n + 2>>
    BY <1>3 DEF Weight
  <2>2. w[1] = 2 * (wins + 1) /\ w[2] = n + 2
    BY <2>1
  <2> QED
    BY <2>2
<1> QED
  BY <1>1, <1>2, <1>3

\* What is left of a number and the part taken away make it up: losses are the rest of a record.
LEMMA Rest ==
  ASSUME NEW a \in Nat, NEW b \in Nat, a <= b
  PROVE  b - a \in Nat /\ a + (b - a) = b
  OBVIOUS

\* A fit has the weight of the record that row s is of, on the side of 1 that the record is on.
FollowsRecord(fit, rows, s, regime) ==
  LET record == {r \in rows : /\ r.strategy = s.strategy /\ regime \in {"", r.regime}
                              /\ r.comparator \in {Mode} \cup (IF Mode = "utility" THEN {""} ELSE {})}
      wins   == Cardinality({r \in record : r.success})
      losses == Cardinality(record) - wins
      key    == <<s.strategy, regime>>
  IN  /\ key \in DOMAIN fit <=> wins + losses >= MinSamples
      /\ key \in DOMAIN fit =>
           /\ fit[key][1] > fit[key][2] <=> wins > losses
           /\ fit[key][1] < fit[key][2] <=> wins < losses

\* The buckets of samples that have each due row once are the records of those rows.
LEMMA BucketsAreRecords ==
  ASSUME NEW S, NEW samples \in Seq(S), Once(samples), NEW rows, Range(samples) = rows,
         NEW s \in rows, NEW regime \in {"", s.regime}
  PROVE  FollowsRecord(FitStrategyWeights(samples), rows, s, regime)
<1> DEFINE fit == FitStrategyWeights(samples)
           record == {r \in rows : /\ r.strategy = s.strategy /\ regime \in {"", r.regime}
                                   /\ r.comparator \in {Mode} \cup (IF Mode = "utility" THEN {""} ELSE {})}
           won    == {r \in record : r.success}
           wins   == Cardinality(won)
           losses == Cardinality(record) - wins
           key    == <<s.strategy, regime>>
           b      == Bucket(samples, key[1], key[2])
<1>0. Mode # ""
  BY ModeAssumption
<1>1. ASSUME NEW r
      PROVE  r.comparator \in {Mode} \cup (IF Mode = "utility" THEN {""} ELSE {}) <=> Comparable(r)
  <2>1. CASE Mode = "utility"
    BY <2>1 DEF Comparable
  <2>2. CASE Mode # "utility"
    BY <1>0, <2>2 DEF Comparable
  <2> QED
    BY <2>1, <2>2
<1>2. key[1] = s.strategy /\ key[2] = regime
  OBVIOUS
<1>3. b = {i \in DOMAIN samples : samples[i] \in record}
  <2>1. \A i \in DOMAIN samples : samples[i] \in rows
    BY DEF Range
  <2> QED
    BY <1>1, <1>2, <2>1 DEF Bucket
<1>4. {i \in b : samples[i].success} = {i \in DOMAIN samples : samples[i] \in won}
  BY <1>3
<1>5. record \subseteq Range(samples) /\ won \subseteq Range(samples) /\ won \subseteq record
  OBVIOUS
<1>6. key \in {<<samples[i].strategy, "">> : i \in DOMAIN samples}
                \cup {<<samples[i].strategy, samples[i].regime>> : i \in DOMAIN samples}
  <2>1. PICK i \in DOMAIN samples : samples[i] = s
    BY DEF Range
  <2> QED
    BY <2>1
<1>7. key \in Buckets(samples) <=> Cardinality(b) >= MinSamples
  BY <1>6 DEF Buckets
<1>8. /\ DOMAIN fit = Buckets(samples)
      /\ key \in DOMAIN fit => fit[key] = Weight(Cardinality({i \in b : samples[i].success}), Cardinality(b))
  BY DEF FitStrategyWeights
<1> HIDE DEF fit, record, won, key, b
<1>9. Cardinality(b) = Cardinality(record) /\ IsFiniteSet(record)
  BY <1>3, <1>5, PlacesCount
<1>10. Cardinality({i \in b : samples[i].success}) = wins /\ IsFiniteSet(won)
  BY <1>4, <1>5, PlacesCount
<1> HIDE DEF wins, losses
<1>11. wins \in Nat /\ losses \in Nat /\ wins + losses = Cardinality(record)
  <2>1. Cardinality(won) \in Nat /\ Cardinality(record) \in Nat
    BY <1>9, <1>10, FS_CardinalityType
  <2>2. Cardinality(won) <= Cardinality(record)
    BY <1>5, <1>9, FS_Subset
  <2>3. losses = Cardinality(record) - wins /\ wins = Cardinality(won)
    BY DEF wins, losses
  <2>4. /\ Cardinality(record) - Cardinality(won) \in Nat
        /\ Cardinality(won) + (Cardinality(record) - Cardinality(won)) = Cardinality(record)
    BY <2>1, <2>2, Rest
  <2> QED
    BY <2>1, <2>3, <2>4
<1>12. key \in DOMAIN fit => fit[key] = Weight(wins, wins + losses)
  BY <1>8, <1>9, <1>10, <1>11
<1>13. /\ key \in DOMAIN fit <=> wins + losses >= MinSamples
       /\ key \in DOMAIN fit =>
            /\ fit[key][1] > fit[key][2] <=> wins > losses
            /\ fit[key][1] < fit[key][2] <=> wins < losses
  <2>1. key \in DOMAIN fit <=> wins + losses >= MinSamples
    BY <1>7, <1>8, <1>9, <1>11
  <2>2. /\ Weight(wins, wins + losses)[1] > Weight(wins, wins + losses)[2] <=> wins > losses
        /\ Weight(wins, wins + losses)[1] < Weight(wins, wins + losses)[2] <=> wins < losses
    BY <1>11, WeightSide
  <2> QED
    BY <1>12, <2>1, <2>2
<1> QED
  BY <1>13 DEF FollowsRecord, fit, record, won, wins, losses, key

\* The invariant of the reads.
LearningInv == LearningTypes /\ ReadInv /\ RowsInv /\ OnceInv

\* FitStrategyWeights makes a weight of each record with enough decisive outcomes under the
\* configured comparator (commands.go:697-727), and puts it on the side of 1 that the record is
\* on, for any goals, pages and outcomes: a read at rest counts each due outcome exactly once.
THEOREM WeightsFollowTheRecord == LearningSpec => []WeightsMatchRecord
<1>1. LearningInit => LearningInv
  <2> SUFFICES ASSUME LearningInit PROVE LearningInv
    OBVIOUS
  <2>1. DOMAIN <<>> = {}
    OBVIOUS
  <2>2. /\ listed = <<>> /\ outcomes = [g \in Books |-> <<>>]
        /\ read = NotReading /\ recorded = 0 /\ due = [rows |-> {}, late |-> 0]
    BY DEF LearningInit
  <2>3. RowsInv
    BY <2>1, <2>2 DEF RowsInv, Once
  <2> QED
    BY <2>2, <2>3, TypesInit DEF ReadInv, OnceInv, AtRest, LearningInv
<1>2. LearningInv /\ [LearningNext]_learningVars => LearningInv'
  <2> SUFFICES ASSUME LearningInv, [LearningNext]_learningVars PROVE LearningInv'
    OBVIOUS
  <2>0. LearningTypes /\ ReadInv /\ RowsInv /\ OnceInv
    BY DEF LearningInv
  <2>1. (LearningTypes /\ ReadInv)'
    BY ReadNext DEF LearningInv
  <2>2. CASE GoalArrives \/ OutcomeArrives
    <3>1. RowsInv' /\ (read # NotReading => due'.late # 0) /\ read' = read
      BY <2>0, <2>2, ArrivalsKeepRows
    <3> QED
      BY <2>0, <2>1, <3>1 DEF LearningInv, OnceInv, AtRest
  <2>3. CASE BeginRead
    <3>1. due'.late = 0 /\ UNCHANGED <<listed, outcomes, recorded>>
      BY <2>0, <2>3 DEF BeginRead
    <3>2. RowsInv'
      BY <2>0, <3>1 DEF RowsInv
    <3> QED
      BY <2>1, <2>3, <3>2, BeginKeepsOnce DEF LearningInv
  <2>4. CASE ReadGoals \/ NextGoal \/ ReadOutcomes
    <3>1. UNCHANGED <<listed, outcomes, recorded, due>>
      BY <2>0, <2>4 DEF ReadGoals, NextGoal, ReadOutcomes
    <3>2. RowsInv'
      BY <2>0, <3>1 DEF RowsInv
    <3>3. CASE AtRest
      <4>1. OnceInv'
        BY <2>0, <2>4, <3>3, GoalsPageKeepsOnce, NextGoalKeepsOnce, OutcomesPageKeepsOnce
      <4> QED
        BY <2>1, <3>2, <4>1 DEF LearningInv
    <3>4. CASE ~AtRest
      <4>1. read # NotReading
        <5>1. NotReading.at = "idle"
          BY DEF NotReading
        <5> QED
          BY <2>0, <2>4, <5>1 DEF ReadGoals, NextGoal, ReadOutcomes
      <4>2. Reading
        BY <2>0, <4>1 DEF LearningTypes
      <4>3. read'.command = read.command
        <5>1. CASE ReadGoals
          BY <4>2, <5>1 DEF ReadGoals, Reading
        <5>2. CASE NextGoal
          BY <4>2, <5>2 DEF NextGoal, Reading
        <5>3. CASE ReadOutcomes
          BY <4>2, <5>3 DEF ReadOutcomes, Reading
        <5> QED
          BY <2>0, <2>4, <5>1, <5>2, <5>3
      <4>4. ~AtRest'
        BY <2>0, <3>1, <3>4, <4>1, <4>3 DEF AtRest
      <4> QED
        BY <2>0, <2>1, <3>2, <4>4 DEF LearningInv, OnceInv
    <3> QED
      BY <2>0, <3>3, <3>4
  <2>5. CASE UNCHANGED learningVars
    <3>1. UNCHANGED <<listed, outcomes, read, recorded, due>>
      BY <2>0, <2>5 DEF learningVars
    <3> QED
      BY <2>0, <2>1, <3>1 DEF LearningInv, RowsInv, OnceInv, AtRest, Ahead, ListedBelow
  <2> QED
    BY <2>0, <2>2, <2>3, <2>4, <2>5 DEF LearningNext
<1>3. LearningInv => WeightsMatchRecord
  <2> SUFFICES ASSUME LearningInv, read.at = "done", read.command = "strategy-fit", due.late = 0
               PROVE  \A s \in due.rows : \A regime \in {"", s.regime} :
                        FollowsRecord(FitStrategyWeights(read.samples), due.rows, s, regime)
    BY DEF WeightsMatchRecord, FollowsRecord
  <2>0. LearningTypes /\ ReadInv /\ RowsInv /\ OnceInv
    BY DEF LearningInv
  <2>1. NotReading.at = "idle"
    BY DEF NotReading
  <2>2. read # NotReading /\ AtRest /\ Reading
    BY <2>0, <2>1 DEF AtRest, LearningTypes
  <2>3. Range(read.samples) = due.rows /\ Once(read.samples)
    <3>1. due.rows \subseteq Range(read.samples)
      BY <2>0, <2>2 DEF ReadInv, ToCome, Ahead
    <3> QED
      BY <2>0, <2>2, <3>1 DEF OnceInv
  <2>4. PICK S : read.samples \in Seq(S)
    BY <2>2 DEF Reading
  <2> QED
    BY <2>3, <2>4, BucketsAreRecords
<1> QED
  BY <1>1, <1>2, <1>3, PTL DEF LearningSpec

-----------------------------------------------------------------------------
(* Induction over the counters of the fit.                                 *)

\* A set that 0 is in and that no step of one leaves holds every number: otherwise there is
\* a least one outside of it.  This is the induction that the library states of an operator.
\* The fit's loops count bins, blocks and samples, so that the totals need it.
LEMMA EveryNumber ==
  ASSUME NEW S, 0 \in S, \A n \in Nat : n \in S => n + 1 \in S
  PROVE  \A n \in Nat : n \in S
<1> SUFFICES ASSUME NEW n \in Nat, n \notin S PROVE FALSE
  OBVIOUS
<1> DEFINE T == {k \in Nat : k \notin S}
<1>1. n \in T
  OBVIOUS
<1>2. PICK k \in T : \A j \in T : ~(<<j, k>> \in OpToRel(<, Nat))
  BY <1>1, WFMin, NatLessThanWellFounded
<1>3. \A j \in T : ~(j < k)
  BY <1>2 DEF OpToRel
<1>4. k - 1 \in Nat /\ k - 1 < k /\ (k - 1) + 1 = k
  <2>1. k \in Nat /\ k # 0
    OBVIOUS
  <2> QED
    BY <2>1
<1>5. k - 1 \in S
  BY <1>3, <1>4
<1>6. (k - 1) + 1 \in S
  BY <1>4, <1>5
<1>7. k \in S
  BY <1>4, <1>6, Zenon
<1> QED
  BY <1>7

-----------------------------------------------------------------------------
(* The calibration curve: totals of samples and successes.                 *)

\* The running totals of a field: c[k] is that of the first k parts.
Running(parts, n, f, c) ==
  /\ c \in [0..n -> Int] /\ c[0] = 0
  /\ \A k \in 1..n : parts[k][f] \in Int /\ c[k] = c[k - 1] + parts[k][f]

\* There are running totals of any number of parts.
LEMMA RunningExists ==
  ASSUME NEW parts, NEW n \in Nat, NEW f, \A k \in 1..n : parts[k][f] \in Int
  PROVE  \E c : Running(parts, n, f, c)
<1> DEFINE S == {m \in Nat : m <= n => \E c : Running(parts, m, f, c)}
<1>1. 0 \in S
  <2> DEFINE c == [k \in 0..0 |-> 0]
  <2>1. c \in [0..0 -> Int] /\ c[0] = 0 /\ 1..0 = {}
    OBVIOUS
  <2> HIDE DEF c
  <2>2. Running(parts, 0, f, c)
    BY <2>1 DEF Running
  <2> QED
    BY <2>2
<1>2. ASSUME NEW m \in Nat, m \in S PROVE m + 1 \in S
  <2> SUFFICES ASSUME m + 1 <= n PROVE \E c : Running(parts, m + 1, f, c)
    OBVIOUS
  <2>1. PICK c : Running(parts, m, f, c)
    BY <1>2
  <2> DEFINE x == parts[m + 1][f]
             d == [k \in 0..(m + 1) |-> IF k = m + 1 THEN c[m] + x ELSE c[k]]
  <2>2. x \in Int /\ c \in [0..m -> Int] /\ c[0] = 0 /\ \A k \in 1..m : c[k] = c[k - 1] + parts[k][f]
    BY <2>1 DEF Running
  <2>3. d \in [0..(m + 1) -> Int] /\ d[0] = 0 /\ d[m + 1] = d[m] + x
    BY <2>2
  <2>4. \A k \in 1..m : d[k] = d[k - 1] + parts[k][f]
    BY <2>2
  <2>5. \A k \in 1..(m + 1) : k = m + 1 \/ k \in 1..m
    OBVIOUS
  <2>6. (m + 1) - 1 = m /\ \A k \in 1..(m + 1) : parts[k][f] \in Int
    OBVIOUS
  <2> HIDE DEF d
  <2>7. \A k \in 1..(m + 1) : parts[k][f] \in Int /\ d[k] = d[k - 1] + parts[k][f]
    BY <2>3, <2>4, <2>5, <2>6
  <2>8. Running(parts, m + 1, f, d)
    BY <2>3, <2>7 DEF Running
  <2> QED
    BY <2>8
<1>3. n \in S
  <2> HIDE DEF S
  <2> QED
    BY <1>1, <1>2, EveryNumber
<1> QED
  BY <1>3

\* What Total computes, as a difference of running totals.
LEMMA TotalIsDifference ==
  ASSUME NEW parts, NEW n \in Nat, NEW f, NEW c, Running(parts, n, f, c),
         NEW i \in 1..(n + 1), NEW j \in (i - 1)..n
  PROVE  Total(parts, i, j, f) = c[j] - c[i - 1]
<1> DEFINE step(s) == [k \in (i - 1)..j |-> IF k < i THEN 0 ELSE s[k - 1] + parts[k][f]]
           sum == CHOOSE s : s = step(s)
           g == [k \in (i - 1)..j |-> c[k] - c[i - 1]]
<1>1. c \in [0..n -> Int] /\ \A k \in 1..n : parts[k][f] \in Int /\ c[k] = c[k - 1] + parts[k][f]
  BY DEF Running
<1>2. g = step(g)
  <2>1. ASSUME NEW k \in (i - 1)..j
        PROVE  g[k] = IF k < i THEN 0 ELSE g[k - 1] + parts[k][f]
    <3>1. CASE k < i
      <4>1. k = i - 1 /\ c[i - 1] \in Int
        BY <1>1, <3>1
      <4> QED
        BY <3>1, <4>1
    <3>2. CASE ~(k < i)
      <4>1. k \in 1..n /\ k - 1 \in (i - 1)..j /\ c[k - 1] \in Int /\ c[k] \in Int /\ c[i - 1] \in Int
        BY <1>1, <3>2
      <4>2. c[k] = c[k - 1] + parts[k][f]
        BY <1>1, <4>1
      <4>3. g[k] = c[k] - c[i - 1] /\ g[k - 1] = c[k - 1] - c[i - 1]
        BY <4>1
      <4>4. parts[k][f] \in Int
        BY <1>1, <4>1
      <4> HIDE DEF g
      <4> QED
        BY <3>2, <4>1, <4>2, <4>3, <4>4
    <3> QED
      BY <3>1, <3>2
  <2> QED
    BY <2>1
<1>3. sum = step(sum)
  <2> HIDE DEF g
  <2> QED
    BY <1>2
<1>0. Total(parts, i, j, f) = sum[j]
  BY DEF Total
<1> HIDE DEF sum
<1>4. ASSUME NEW k \in (i - 1)..j
      PROVE  sum[k] = IF k < i THEN 0 ELSE sum[k - 1] + parts[k][f]
  BY <1>3
<1> DEFINE S == {m \in Nat : (i - 1) + m <= j => sum[(i - 1) + m] = c[(i - 1) + m] - c[i - 1]}
<1>5. 0 \in S
  <2>1. i - 1 \in (i - 1)..j /\ i - 1 < i /\ (i - 1) + 0 = i - 1 /\ c[i - 1] \in Int
    BY <1>1
  <2> QED
    BY <1>4, <2>1
<1>6. ASSUME NEW m \in Nat, m \in S PROVE m + 1 \in S
  <2> SUFFICES ASSUME (i - 1) + (m + 1) <= j
               PROVE  sum[(i - 1) + (m + 1)] = c[(i - 1) + (m + 1)] - c[i - 1]
    OBVIOUS
  <2> DEFINE k == (i - 1) + (m + 1)
  <2>1. k \in (i - 1)..j /\ ~(k < i) /\ k - 1 = (i - 1) + m /\ k \in 1..n /\ (i - 1) + m <= j /\ k - 1 \in 0..n
    OBVIOUS
  <2>2. /\ sum[k] = sum[k - 1] + parts[k][f] /\ c[k] = c[k - 1] + parts[k][f]
        /\ parts[k][f] \in Int
    BY <1>1, <1>4, <2>1
  <2>3. sum[k - 1] = c[k - 1] - c[i - 1]
    BY <1>6, <2>1
  <2>4. c[k] \in Int /\ c[k - 1] \in Int /\ c[i - 1] \in Int
    BY <1>1, <2>1
  <2> QED
    BY <2>2, <2>3, <2>4
<1>7. j - (i - 1) \in Nat /\ (i - 1) + (j - (i - 1)) = j
  OBVIOUS
<1>8. j - (i - 1) \in S
  <2> HIDE DEF S
  <2> QED
    BY <1>5, <1>6, <1>7, EveryNumber
<1>9. sum[j] = c[j] - c[i - 1]
  BY <1>7, <1>8
<1> QED
  BY <1>0, <1>9

\* The totals of the first parts, from which all the others follow.
LEMMA Totals ==
  ASSUME NEW parts, NEW n \in Nat, NEW f, \A k \in 1..n : parts[k][f] \in Int
  PROVE  /\ Total(parts, 1, 0, f) = 0
         /\ \A k \in 0..n : Total(parts, 1, k, f) \in Int
         /\ \A k \in 1..n : Total(parts, 1, k, f) = Total(parts, 1, k - 1, f) + parts[k][f]
         /\ \A i \in 1..(n + 1) : \A j \in (i - 1)..n :
              Total(parts, i, j, f) = Total(parts, 1, j, f) - Total(parts, 1, i - 1, f)
<1>1. PICK c : Running(parts, n, f, c)
  BY RunningExists
<1>2. c \in [0..n -> Int] /\ c[0] = 0 /\ \A k \in 1..n : c[k] = c[k - 1] + parts[k][f]
  BY <1>1 DEF Running
<1>3. ASSUME NEW k \in 0..n PROVE Total(parts, 1, k, f) = c[k]
  <2>1. 1 \in 1..(n + 1) /\ k \in (1 - 1)..n /\ c[1 - 1] = 0 /\ c[k] \in Int
    BY <1>2
  <2>2. Total(parts, 1, k, f) = c[k] - c[1 - 1]
    BY <1>1, <2>1, TotalIsDifference
  <2> QED
    BY <2>1, <2>2
<1>4. ASSUME NEW i \in 1..(n + 1), NEW j \in (i - 1)..n
      PROVE  Total(parts, i, j, f) = Total(parts, 1, j, f) - Total(parts, 1, i - 1, f)
  <2>1. j \in 0..n /\ i - 1 \in 0..n
    OBVIOUS
  <2> QED
    BY <1>1, <1>3, <2>1, TotalIsDifference
<1>5. \A k \in 1..n : k \in 0..n /\ k - 1 \in 0..n
  OBVIOUS
<1>6. 0 \in 0..n
  OBVIOUS
<1> QED
  BY <1>2, <1>3, <1>4, <1>5, <1>6

\* Parts that agree up to m have the same totals up to there.
LEMMA TotalsAgree ==
  ASSUME NEW a, NEW b, NEW m \in Nat, NEW f,
         \A k \in 1..m : a[k][f] \in Int /\ b[k][f] = a[k][f]
  PROVE  \A k \in 0..m : Total(b, 1, k, f) = Total(a, 1, k, f)
<1> DEFINE S == {k \in Nat : k <= m => Total(b, 1, k, f) = Total(a, 1, k, f)}
<1>1. /\ Total(a, 1, 0, f) = 0 /\ Total(b, 1, 0, f) = 0
      /\ \A k \in 1..m : Total(a, 1, k, f) = Total(a, 1, k - 1, f) + a[k][f]
      /\ \A k \in 1..m : Total(b, 1, k, f) = Total(b, 1, k - 1, f) + b[k][f]
  <2>1. \A k \in 1..m : a[k][f] \in Int
    OBVIOUS
  <2>2. \A k \in 1..m : b[k][f] \in Int
    OBVIOUS
  <2> QED
    BY <2>1, <2>2, Totals
<1>2. 0 \in S
  BY <1>1
<1>3. ASSUME NEW k \in Nat, k \in S PROVE k + 1 \in S
  <2> SUFFICES ASSUME k + 1 <= m PROVE Total(b, 1, k + 1, f) = Total(a, 1, k + 1, f)
    OBVIOUS
  <2>1. k + 1 \in 1..m /\ (k + 1) - 1 = k /\ k <= m
    OBVIOUS
  <2>2. /\ Total(a, 1, k + 1, f) = Total(a, 1, k, f) + a[k + 1][f]
        /\ Total(b, 1, k + 1, f) = Total(b, 1, k, f) + b[k + 1][f]
    BY <1>1, <2>1
  <2>3. Total(b, 1, k, f) = Total(a, 1, k, f)
    BY <1>3, <2>1
  <2> QED
    BY <2>1, <2>2, <2>3
<1> HIDE DEF S
<1>4. \A k \in Nat : k \in S
  BY <1>2, <1>3, EveryNumber
<1> QED
  BY <1>4 DEF S

\* A common factor of two sides can go: rates are compared by products.
LEMMA Cancel ==
  ASSUME NEW a \in Int, NEW b \in Int, NEW d \in Nat \ {0}, d * a <= d * b
  PROVE  a <= b
  OBVIOUS

\* A product with a non-negative number keeps an order.
LEMMA Scaled ==
  ASSUME NEW a \in Int, NEW b \in Int, NEW d \in Nat, a <= b
  PROVE  d * a <= d * b
  OBVIOUS

\* A point above a line stays above one that is less steep: the rate u/p is at least v/q.
LEMMA LessSteep ==
  ASSUME NEW x \in Nat, NEW y \in Int, NEW u \in Int, NEW v \in Int,
         NEW p \in Nat \ {0}, NEW q \in Nat \ {0},
         y * p >= u * x, u * q >= v * p
  PROVE  y * q >= v * x
<1>1. q * (u * x) <= q * (y * p)
  BY Scaled
<1>2. x * (v * p) <= x * (u * q)
  BY Scaled
<1>3. q * (u * x) = x * (u * q)
  OBVIOUS
<1>4. p * (v * x) = x * (v * p) /\ p * (y * q) = q * (y * p)
  OBVIOUS
<1>5. p * (v * x) <= p * (y * q)
  BY <1>1, <1>2, <1>3, <1>4
<1>6. v * x \in Int /\ y * q \in Int
  OBVIOUS
<1> QED
  BY <1>5, <1>6, Cancel

\* Comparing rates by products is transitive: a/p <= b/q <= c/r.
LEMMA RatesChain ==
  ASSUME NEW a \in Int, NEW b \in Int, NEW c \in Int,
         NEW p \in Nat \ {0}, NEW q \in Nat \ {0}, NEW r \in Nat \ {0},
         a * q <= b * p, b * r <= c * q
  PROVE  a * r <= c * p
<1>1. c * q >= b * r /\ b * p >= a * q
  OBVIOUS
<1> QED
  BY <1>1, LessSteep

\* A point over the chord of the first of two blocks that are pooled is over theirs.
LEMMA OverPooledLeft ==
  ASSUME NEW x \in Nat, NEW y \in Int, NEW u \in Nat, NEW v \in Nat,
         NEW p \in Nat \ {0}, NEW q \in Nat \ {0},
         y * p >= u * x, u * q > v * p
  PROVE  y * (p + q) >= (u + v) * x
<1>1. u * (p + q) >= (u + v) * p
  <2>1. u * (p + q) = u * p + u * q /\ (u + v) * p = u * p + v * p
    OBVIOUS
  <2> QED
    BY <2>1
<1>2. p + q \in Nat \ {0} /\ u + v \in Int
  OBVIOUS
<1> QED
  BY <1>1, <1>2, LessSteep

\* And so is one over the chord of the second.
LEMMA OverPooledRight ==
  ASSUME NEW x \in Nat, NEW y \in Int, NEW u \in Nat, NEW v \in Nat,
         NEW p \in Nat \ {0}, NEW q \in Nat \ {0},
         x <= q, y * q >= v * x, u * q > v * p
  PROVE  (u + y) * (p + q) >= (u + v) * (p + x)
<1>1. (q - x) * (v * p) <= (q - x) * (u * q)
  <2>1. q - x \in Nat /\ v * p \in Int /\ u * q \in Int /\ v * p <= u * q
    OBVIOUS
  <2> QED
    BY <2>1, Scaled
<1>2. (p + q) * (v * x) <= (p + q) * (y * q)
  <2>1. p + q \in Nat /\ v * x \in Int /\ y * q \in Int /\ v * x <= y * q
    OBVIOUS
  <2> QED
    BY <2>1, Scaled
<1>3. q * ((u + y) * (p + q)) - q * ((u + v) * (p + x))
        = ((p + q) * (y * q) - (p + q) * (v * x)) + ((q - x) * (u * q) - (q - x) * (v * p))
  OBVIOUS
<1>4. (u + y) * (p + q) \in Int /\ (u + v) * (p + x) \in Int
  OBVIOUS
<1>5. q * ((u + v) * (p + x)) <= q * ((u + y) * (p + q))
  <2> DEFINE a == q * ((u + v) * (p + x))
             b == q * ((u + y) * (p + q))
             c == (p + q) * (y * q)
             d == (p + q) * (v * x)
             e == (q - x) * (u * q)
             f == (q - x) * (v * p)
  <2>1. a \in Int /\ b \in Int /\ c \in Int /\ d \in Int /\ e \in Int /\ f \in Int
    OBVIOUS
  <2>2. b - a = (c - d) + (e - f) /\ d <= c /\ f <= e
    BY <1>1, <1>2, <1>3
  <2> HIDE DEF a, b, c, d, e, f
  <2>3. a <= b
    BY <2>1, <2>2
  <2> QED
    BY <2>3 DEF a, b
<1> QED
  BY <1>4, <1>5, Cancel

\* What never falls from one place to the next never falls.
LEMMA NeverFalls ==
  ASSUME NEW n \in Nat, NEW c, \A k \in 0..n : c[k] \in Int, \A k \in 1..n : c[k - 1] <= c[k]
  PROVE  \A i, j \in 0..n : i <= j => c[i] <= c[j]
<1> SUFFICES ASSUME NEW i \in 0..n, NEW j \in 0..n, i <= j PROVE c[i] <= c[j]
  OBVIOUS
<1> DEFINE S == {m \in Nat : i + m <= n => c[i] <= c[i + m]}
<1>1. 0 \in S
  OBVIOUS
<1>2. ASSUME NEW m \in Nat, m \in S PROVE m + 1 \in S
  <2> SUFFICES ASSUME i + (m + 1) <= n PROVE c[i] <= c[i + (m + 1)]
    OBVIOUS
  <2>1. i + (m + 1) \in 1..n /\ (i + (m + 1)) - 1 = i + m /\ i + m \in 0..n /\ i + m <= n
    OBVIOUS
  <2>2. c[i + m] <= c[i + (m + 1)] /\ c[i] <= c[i + m]
    BY <1>2, <2>1
  <2>3. c[i] \in Int /\ c[i + m] \in Int /\ c[i + (m + 1)] \in Int
    BY <2>1
  <2> QED
    BY <2>2, <2>3
<1>3. j - i \in Nat /\ i + (j - i) = j
  OBVIOUS
<1>4. j - i \in S
  <2> HIDE DEF S
  <2> QED
    BY <1>1, <1>2, <1>3, EveryNumber
<1> QED
  BY <1>3, <1>4

-----------------------------------------------------------------------------
(* The calibration curve: the fit, its blocks and what Apply reads.        *)

\* The samples and successes of the first bins, and of the first blocks.
Counted(i) == Total(tally, 1, i, "n")
Won(i) == Total(tally, 1, i, "wins")
Pooled(k) == Total(blocks, 1, k, "n")
PooledWins(k) == Total(blocks, 1, k, "wins")

Block == [n : Nat \ {0}, wins : Nat, mids : Nat]

FitTypes ==
  /\ tally \in [1..BinCount -> {t \in [n : Nat, wins : Nat] : t.wins <= t.n}]
  /\ bin \in 1..(BinCount + 1) /\ blocks \in Seq(Block)

\* A block ends where some bin ends, and the last one where the loop is.
FitEnds ==
  /\ \A k \in 0..Len(blocks) : \E h \in 0..(bin - 1) :
       Pooled(k) = Counted(h) /\ PooledWins(k) = Won(h)
  /\ Pooled(Len(blocks)) = Counted(bin - 1) /\ PooledWins(Len(blocks)) = Won(bin - 1)

\* The successes counted over the samples never fall below the chord of a block.
OverChord(k, i) ==
  (Won(i) - PooledWins(k - 1)) * blocks[k].n >= blocks[k].wins * (Counted(i) - Pooled(k - 1))

FitChords ==
  \A k \in 1..Len(blocks) : \A i \in 0..(bin - 1) :
    Pooled(k - 1) <= Counted(i) /\ Counted(i) <= Pooled(k) => OverChord(k, i)

\* All but the last two blocks are in order.
FitSorted == \A k \in 1..(Len(blocks) - 2) : ~Above(k, k + 1)

\* The running totals of the bins start at 0, never fall, and count no more successes than samples.
LEMMA TallyTotals ==
  ASSUME FitTypes
  PROVE  /\ Counted(0) = 0 /\ Won(0) = 0
         /\ \A i \in 0..BinCount : Counted(i) \in Nat /\ Won(i) \in Nat
         /\ \A i \in 1..BinCount : /\ Counted(i) = Counted(i - 1) + tally[i].n
                                   /\ Won(i) = Won(i - 1) + tally[i].wins
         /\ \A i, j \in 0..BinCount : i <= j =>
              /\ Counted(i) <= Counted(j) /\ Won(i) <= Won(j)
              /\ Won(j) - Won(i) <= Counted(j) - Counted(i)
         /\ \A i \in 1..(BinCount + 1), j \in 0..BinCount : i - 1 <= j =>
              /\ Total(tally, i, j, "n") = Counted(j) - Counted(i - 1)
              /\ Total(tally, i, j, "wins") = Won(j) - Won(i - 1)
<1>1. BinCount \in Nat
  BY CalibrationAssumption
<1>2. \A i \in 1..BinCount : /\ tally[i].n \in Nat /\ tally[i].wins \in Nat /\ tally[i].wins <= tally[i].n
                             /\ tally[i]["n"] \in Int /\ tally[i]["wins"] \in Int
  BY DEF FitTypes
<1>3. /\ Counted(0) = 0 /\ \A i \in 0..BinCount : Counted(i) \in Int
      /\ \A i \in 1..BinCount : Counted(i) = Counted(i - 1) + tally[i].n
      /\ \A i \in 1..(BinCount + 1) : \A j \in (i - 1)..BinCount :
           Total(tally, i, j, "n") = Counted(j) - Counted(i - 1)
  BY <1>1, <1>2, Totals DEF Counted
<1>4. /\ Won(0) = 0 /\ \A i \in 0..BinCount : Won(i) \in Int
      /\ \A i \in 1..BinCount : Won(i) = Won(i - 1) + tally[i].wins
      /\ \A i \in 1..(BinCount + 1) : \A j \in (i - 1)..BinCount :
           Total(tally, i, j, "wins") = Won(j) - Won(i - 1)
  BY <1>1, <1>2, Totals DEF Won
<1> DEFINE c == [i \in 0..BinCount |-> Counted(i)]
           w == [i \in 0..BinCount |-> Won(i)]
           d == [i \in 0..BinCount |-> Counted(i) - Won(i)]
<1>5. \A i \in 1..BinCount : i \in 0..BinCount /\ i - 1 \in 0..BinCount
  BY <1>1
<1>12. ASSUME NEW i \in 1..BinCount
       PROVE  /\ Counted(i - 1) <= Counted(i) /\ Won(i - 1) <= Won(i)
              /\ Counted(i - 1) - Won(i - 1) <= Counted(i) - Won(i)
  <2>1. Counted(i - 1) \in Int /\ Won(i - 1) \in Int
    BY <1>3, <1>4, <1>5
  <2>2. tally[i].n \in Nat /\ tally[i].wins \in Nat /\ tally[i].wins <= tally[i].n
    BY <1>2
  <2>3. Counted(i) = Counted(i - 1) + tally[i].n /\ Won(i) = Won(i - 1) + tally[i].wins
    BY <1>3, <1>4
  <2> QED
    BY <2>1, <2>2, <2>3
<1>6. \A i, j \in 0..BinCount : i <= j => Counted(i) <= Counted(j)
  <2>1. (\A i \in 0..BinCount : c[i] \in Int) /\ \A i \in 1..BinCount : c[i - 1] <= c[i]
    BY <1>3, <1>4, <1>5, <1>12
  <2>2. \A i, j \in 0..BinCount : i <= j => c[i] <= c[j]
    <3> HIDE DEF c
    <3> QED
      BY <1>1, <2>1, NeverFalls
  <2> QED
    BY <2>2
<1>7. \A i, j \in 0..BinCount : i <= j => Won(i) <= Won(j)
  <2>1. (\A i \in 0..BinCount : w[i] \in Int) /\ \A i \in 1..BinCount : w[i - 1] <= w[i]
    BY <1>3, <1>4, <1>5, <1>12
  <2>2. \A i, j \in 0..BinCount : i <= j => w[i] <= w[j]
    <3> HIDE DEF w
    <3> QED
      BY <1>1, <2>1, NeverFalls
  <2> QED
    BY <2>2
<1>8. \A i, j \in 0..BinCount : i <= j => Won(j) - Won(i) <= Counted(j) - Counted(i)
  <2>1. (\A i \in 0..BinCount : d[i] \in Int) /\ \A i \in 1..BinCount : d[i - 1] <= d[i]
    <3>1. \A i \in 0..BinCount : d[i] = Counted(i) - Won(i)
      OBVIOUS
    <3> HIDE DEF d
    <3>2. \A i \in 0..BinCount : d[i] \in Int
      BY <3>1, <1>3, <1>4
    <3>3. \A i \in 1..BinCount : d[i - 1] <= d[i]
      BY <3>1, <1>5, <1>12
    <3> QED
      BY <3>2, <3>3
  <2>2. \A i, j \in 0..BinCount : i <= j => d[i] <= d[j]
    <3> HIDE DEF d
    <3> QED
      BY <1>1, <2>1, NeverFalls
  <2> QED
    BY <2>2, <1>3, <1>4
<1>9. \A i \in 0..BinCount : 0 <= i /\ 0 \in 0..BinCount
  BY <1>1
<1>10. \A i \in 0..BinCount : Counted(i) \in Nat /\ Won(i) \in Nat
  BY <1>3, <1>4, <1>6, <1>7, <1>9
<1>11. \A i \in 1..(BinCount + 1), j \in 0..BinCount : i - 1 <= j => j \in (i - 1)..BinCount
  BY <1>1
<1> QED
  BY <1>3, <1>4, <1>6, <1>7, <1>8, <1>10, <1>11

\* The running totals of the blocks start at 0 and never fall.
LEMMA BlockTotals ==
  ASSUME FitTypes
  PROVE  /\ Len(blocks) \in Nat /\ DOMAIN blocks = 1..Len(blocks)
         /\ \A k \in 1..Len(blocks) : /\ blocks[k] \in Block
                                      /\ blocks[k].n \in Nat \ {0} /\ blocks[k].wins \in Nat /\ blocks[k].mids \in Nat
         /\ Pooled(0) = 0 /\ PooledWins(0) = 0
         /\ \A k \in 0..Len(blocks) : Pooled(k) \in Nat /\ PooledWins(k) \in Nat
         /\ \A k \in 1..Len(blocks) : /\ Pooled(k) = Pooled(k - 1) + blocks[k].n
                                      /\ PooledWins(k) = PooledWins(k - 1) + blocks[k].wins
         /\ \A k, l \in 0..Len(blocks) : k <= l => Pooled(k) <= Pooled(l)
<1> DEFINE n == Len(blocks)
<1>1. n \in Nat /\ DOMAIN blocks = 1..n
  BY DEF FitTypes
<1>2. \A k \in 1..n : blocks[k] \in Block
  BY DEF FitTypes
<1>3. \A k \in 1..n : /\ blocks[k].n \in Nat \ {0} /\ blocks[k].wins \in Nat /\ blocks[k].mids \in Nat
                      /\ blocks[k]["n"] \in Int /\ blocks[k]["wins"] \in Int
  BY <1>2 DEF Block
<1> HIDE DEF n
<1>4. /\ Pooled(0) = 0 /\ \A i \in 0..n : Pooled(i) \in Int
      /\ \A i \in 1..n : Pooled(i) = Pooled(i - 1) + blocks[i].n
  BY <1>1, <1>3, Totals DEF Pooled
<1>5. /\ PooledWins(0) = 0 /\ \A i \in 0..n : PooledWins(i) \in Int
      /\ \A i \in 1..n : PooledWins(i) = PooledWins(i - 1) + blocks[i].wins
  BY <1>1, <1>3, Totals DEF PooledWins
<1> DEFINE c == [i \in 0..n |-> Pooled(i)]
           w == [i \in 0..n |-> PooledWins(i)]
<1>6. \A i \in 1..n : i \in 0..n /\ i - 1 \in 0..n
  BY <1>1
<1>7. \A i, j \in 0..n : i <= j => Pooled(i) <= Pooled(j)
  <2>0. \A i \in 0..n : c[i] = Pooled(i) /\ Pooled(i) \in Int
    BY <1>4
  <2>1. (\A i \in 0..n : c[i] \in Int) /\ \A i \in 1..n : c[i - 1] <= c[i]
    <3> SUFFICES ASSUME NEW i \in 1..n PROVE c[i - 1] <= c[i]
      BY <2>0
    <3>1. /\ c[i] = Pooled(i) /\ c[i - 1] = Pooled(i - 1) /\ Pooled(i - 1) \in Int
          /\ Pooled(i) = Pooled(i - 1) + blocks[i].n
      BY <1>4, <1>6, <2>0
    <3> HIDE DEF c
    <3> QED
      BY <1>3, <3>1
  <2>2. \A i, j \in 0..n : i <= j => c[i] <= c[j]
    <3> HIDE DEF c
    <3> QED
      BY <1>1, <2>1, NeverFalls
  <2> QED
    BY <2>2
<1>8. \A i, j \in 0..n : i <= j => PooledWins(i) <= PooledWins(j)
  <2>1. (\A i \in 0..n : w[i] \in Int) /\ \A i \in 1..n : w[i - 1] <= w[i]
    BY <1>3, <1>5, <1>6
  <2>2. \A i, j \in 0..n : i <= j => w[i] <= w[j]
    <3> HIDE DEF w
    <3> QED
      BY <1>1, <2>1, NeverFalls
  <2> QED
    BY <2>2
<1>9. \A i \in 0..n : 0 <= i /\ 0 \in 0..n
  BY <1>1
<1>10. \A k \in 0..n : Pooled(k) \in Nat /\ PooledWins(k) \in Nat
  BY <1>4, <1>5, <1>7, <1>8, <1>9
<1> QED
  BY <1>1, <1>2, <1>3, <1>4, <1>5, <1>7, <1>10 DEF n

FitMids ==
  /\ \A k \in 1..Len(blocks) : blocks[k].n <= blocks[k].mids
  /\ \A k \in 1..(Len(blocks) - 1) : \E h \in 1..BinCount :
       blocks[k].mids <= (2 * h - 1) * blocks[k].n /\ (2 * h + 1) * blocks[k + 1].n <= blocks[k + 1].mids
  /\ Len(blocks) > 0 => blocks[Len(blocks)].mids <= (2 * bin - 3) * blocks[Len(blocks)].n

FitInv == FitTypes /\ FitEnds /\ FitChords /\ FitSorted /\ FitMids

\* The tally stays while it is fitted.
LEMMA SameTally ==
  ASSUME tally' = tally
  PROVE  \A i : Counted(i)' = Counted(i) /\ Won(i)' = Won(i)
  BY DEF Counted, Won

\* Bins without a sample in between are not counted.
LEMMA SameCount ==
  ASSUME FitTypes, NEW i \in 0..BinCount, NEW j \in 0..BinCount, Counted(i) = Counted(j)
  PROVE  Won(i) = Won(j)
<1>1. /\ Counted(i) \in Nat /\ Won(i) \in Nat /\ Counted(j) \in Nat /\ Won(j) \in Nat
      /\ i <= j => Won(i) <= Won(j) /\ Won(j) - Won(i) <= Counted(j) - Counted(i)
      /\ j <= i => Won(j) <= Won(i) /\ Won(i) - Won(j) <= Counted(i) - Counted(j)
  BY TallyTotals
<1>2. i <= j \/ j <= i
  OBVIOUS
<1> QED
  BY <1>1, <1>2

\* Before the loop there are no blocks, and the totals are 0.
LEMMA FitInit == CalibrationInit => FitInv
<1> SUFFICES ASSUME CalibrationInit PROVE FitInv
  OBVIOUS
<1>1. bin = 1 /\ blocks = <<>> /\ Len(blocks) = 0 /\ BinCount \in Nat \ {0}
  BY CalibrationAssumption DEF CalibrationInit
<1>2. FitTypes
  <2>1. <<>> \in Seq(Block)
    OBVIOUS
  <2>2. tally \in [1..BinCount -> {t \in [n : Nat, wins : Nat] : t.wins <= t.n}]
    BY CalibrationAssumption DEF CalibrationInit
  <2> QED
    BY <1>1, <2>1, <2>2 DEF FitTypes
<1>3. Counted(0) = 0 /\ Won(0) = 0 /\ Pooled(0) = 0 /\ PooledWins(0) = 0
  BY <1>2, TallyTotals, BlockTotals
<1>4. FitEnds
  BY <1>1, <1>3 DEF FitEnds
<1>5. 1..0 = {} /\ 1..(0 - 2) = {} /\ 1..(0 - 1) = {}
  OBVIOUS
<1>6. FitChords /\ FitSorted /\ FitMids
  BY <1>1, <1>5 DEF FitChords, FitSorted, FitMids
<1> QED
  BY <1>2, <1>4, <1>6 DEF FitInv

\* A bin without samples.
LEMMA SkipKeeps ==
  ASSUME FitInv, AddBin, tally[bin].n = 0
  PROVE  FitInv'
<1>1. /\ bin' = bin + 1 /\ blocks' = blocks /\ tally' = tally
      /\ bin \in 1..BinCount /\ BinCount \in Nat
  BY CalibrationAssumption DEF AddBin, FitInv, FitTypes
<1>2. FitTypes /\ FitTypes'
  BY <1>1 DEF FitInv, FitTypes
<1>3. \A i : /\ Counted(i)' = Counted(i) /\ Won(i)' = Won(i)
             /\ Pooled(i)' = Pooled(i) /\ PooledWins(i)' = PooledWins(i)
  BY <1>1, SameTally DEF Pooled, PooledWins
<1>4. /\ Counted(bin) = Counted(bin - 1) /\ Won(bin) = Won(bin - 1)
  <2>1. /\ Counted(bin) = Counted(bin - 1) + tally[bin].n
        /\ Won(bin) = Won(bin - 1) + tally[bin].wins
        /\ Counted(bin - 1) \in Nat /\ Won(bin - 1) \in Nat
    BY <1>1, <1>2, TallyTotals
  <2>2. tally[bin].n = 0 /\ tally[bin].wins = 0
    BY <1>1, <1>2 DEF FitTypes
  <2> QED
    BY <2>1, <2>2
<1>5. /\ bin' - 1 = bin
      /\ \A i \in 0..bin : i = bin \/ i \in 0..(bin - 1)
      /\ bin - 1 \in 0..(bin - 1) /\ \A i \in 0..(bin - 1) : i \in 0..bin
  BY <1>1
<1>6. FitEnds'
  BY <1>1, <1>3, <1>4, <1>5 DEF FitInv, FitEnds
<1>7. FitChords'
  <2> SUFFICES ASSUME NEW k \in 1..Len(blocks), NEW i \in 0..bin,
                      Pooled(k - 1) <= Counted(i), Counted(i) <= Pooled(k)
               PROVE  OverChord(k, i)
    BY <1>1, <1>3, <1>5 DEF FitChords, OverChord
  <2>1. CASE i \in 0..(bin - 1)
    BY <2>1 DEF FitInv, FitChords
  <2>2. CASE i = bin
    <3>1. Counted(i) = Counted(bin - 1) /\ Won(i) = Won(bin - 1)
      BY <1>4, <2>2
    <3>2. OverChord(k, bin - 1)
      BY <1>5, <3>1 DEF FitInv, FitChords
    <3> QED
      BY <3>1, <3>2 DEF OverChord
  <2> QED
    BY <1>5, <2>1, <2>2
<1>8. FitSorted'
  BY <1>1 DEF FitInv, FitSorted, Above
<1>9. FitMids'
  <2> SUFFICES ASSUME Len(blocks) > 0
               PROVE  blocks[Len(blocks)].mids <= (2 * (bin + 1) - 3) * blocks[Len(blocks)].n
    BY <1>1 DEF FitInv, FitMids
  <2> DEFINE b == blocks[Len(blocks)]
  <2>1. b.n \in Nat \ {0} /\ b.mids \in Nat
    BY <1>2, BlockTotals
  <2>2. b.mids <= (2 * bin - 3) * b.n
    BY DEF FitInv, FitMids
  <2> HIDE DEF b
  <2>3. (2 * (bin + 1) - 3) * b.n = (2 * bin - 3) * b.n + 2 * b.n
    BY <1>1, <2>1
  <2>4. b.mids <= (2 * (bin + 1) - 3) * b.n
    BY <1>1, <2>1, <2>2, <2>3
  <2> QED
    BY <2>4 DEF b
<1> QED
  BY <1>2, <1>6, <1>7, <1>8, <1>9 DEF FitInv

\* A bin with samples is a block.
LEMMA GrowKeeps ==
  ASSUME FitInv, AddBin, tally[bin].n # 0
  PROVE  FitInv'
<1>0. PICK L \in Nat : L = Len(blocks)
  BY DEF FitInv, FitTypes
<1> DEFINE t == tally[bin]
           c == [n |-> t.n, wins |-> t.wins, mids |-> (2 * bin - 1) * t.n]
<1>1. /\ bin' = bin + 1 /\ blocks' = Append(blocks, c) /\ tally' = tally
      /\ bin \in 1..BinCount /\ BinCount \in Nat /\ ~MustPool
  BY CalibrationAssumption DEF AddBin, FitInv, FitTypes
<1>2. FitTypes
  BY DEF FitInv
<1>3. /\ t.n \in Nat \ {0} /\ t.wins \in Nat /\ t.wins <= t.n
  BY <1>1, <1>2 DEF FitTypes
<1>4. /\ c \in Block /\ c.n = t.n /\ c.wins = t.wins /\ c.mids = (2 * bin - 1) * t.n
      /\ (2 * bin - 1) * t.n \in Nat
  <2>1. 2 * bin - 1 \in Nat /\ \A a, b \in Nat : a * b \in Nat
    BY <1>1
  <2>2. (2 * bin - 1) * t.n \in Nat
    BY <1>3, <2>1
  <2> QED
    BY <1>3, <2>2 DEF Block
<1> HIDE DEF c
<1>5. /\ blocks \in Seq(Block) /\ L \in Nat /\ blocks' \in Seq(Block) /\ Len(blocks') = L + 1
      /\ \A k \in 1..L : blocks'[k] = blocks[k] /\ blocks[k] \in Block
      /\ blocks'[L + 1] = c
  BY <1>0, <1>1, <1>2, <1>4 DEF FitTypes
<1>6. FitTypes'
  BY <1>1, <1>2, <1>5 DEF FitTypes
<1>7. \A i : Counted(i)' = Counted(i) /\ Won(i)' = Won(i)
  BY <1>1, SameTally
<1>8. /\ \A k \in 0..L : Pooled(k)' = Pooled(k) /\ PooledWins(k)' = PooledWins(k)
      /\ Pooled(L + 1)' = Pooled(L) + t.n /\ PooledWins(L + 1)' = PooledWins(L) + t.wins
  <2>1. \A k \in 1..L : /\ blocks[k]["n"] \in Int /\ blocks'[k]["n"] = blocks[k]["n"]
                        /\ blocks[k]["wins"] \in Int /\ blocks'[k]["wins"] = blocks[k]["wins"]
    <3>1. \A b \in Block : b["n"] \in Int /\ b["wins"] \in Int
      BY DEF Block
    <3> QED
      BY <1>5, <3>1
  <2>2. \A k \in 0..L : /\ Total(blocks', 1, k, "n") = Total(blocks, 1, k, "n")
                        /\ Total(blocks', 1, k, "wins") = Total(blocks, 1, k, "wins")
    <3>1. \A k \in 0..L : Total(blocks', 1, k, "n") = Total(blocks, 1, k, "n")
      BY <2>1, TotalsAgree
    <3>2. \A k \in 0..L : Total(blocks', 1, k, "wins") = Total(blocks, 1, k, "wins")
      BY <2>1, TotalsAgree
    <3> QED
      BY <3>1, <3>2
  <2>3. \A k \in 1..(L + 1) : blocks'[k]["n"] \in Int /\ blocks'[k]["wins"] \in Int
    <3>1. \A k \in 1..(L + 1) : blocks'[k] \in Block
      BY <1>5
    <3> QED
      BY <3>1 DEF Block
  <2>4. L + 1 \in Nat /\ L + 1 \in 1..(L + 1) /\ (L + 1) - 1 = L /\ L \in 0..L
    BY <1>5
  <2>5. /\ Total(blocks', 1, L + 1, "n") = Total(blocks', 1, L, "n") + blocks'[L + 1]["n"]
        /\ Total(blocks', 1, L + 1, "wins") = Total(blocks', 1, L, "wins") + blocks'[L + 1]["wins"]
    <3> DEFINE m == L + 1
    <3>1. m \in Nat /\ m \in 1..m /\ m - 1 = L
      BY <2>4
    <3> HIDE DEF m
    <3>2. /\ Total(blocks', 1, m, "n") = Total(blocks', 1, m - 1, "n") + blocks'[m]["n"]
          /\ Total(blocks', 1, m, "wins") = Total(blocks', 1, m - 1, "wins") + blocks'[m]["wins"]
      <4>1. \A k \in 1..m : blocks'[k]["n"] \in Int /\ blocks'[k]["wins"] \in Int
        BY <2>3 DEF m
      <4> QED
        BY <3>1, <4>1, Totals
    <3> QED
      BY <3>1, <3>2 DEF m
  <2> QED
    BY <1>4, <1>5, <2>2, <2>4, <2>5 DEF Pooled, PooledWins
<1>9. /\ Counted(bin) = Counted(bin - 1) + t.n /\ Won(bin) = Won(bin - 1) + t.wins
      /\ Counted(bin - 1) \in Nat /\ Won(bin - 1) \in Nat
      /\ \A i \in 0..(bin - 1) : Counted(i) \in Nat /\ Counted(i) <= Counted(bin - 1)
  <2>1. /\ bin - 1 \in 0..BinCount /\ bin \in 1..BinCount /\ \A i \in 0..(bin - 1) : i \in 0..BinCount /\ i <= bin - 1
    BY <1>1
  <2> QED
    BY <1>2, <2>1, TallyTotals
<1>10. /\ bin' - 1 = bin
       /\ \A i \in 0..bin : i = bin \/ i \in 0..(bin - 1)
       /\ bin - 1 \in 0..(bin - 1) /\ bin \in 0..bin /\ \A i \in 0..(bin - 1) : i \in 0..bin
       /\ \A k \in 0..(L + 1) : k = L + 1 \/ k \in 0..L
       /\ \A k \in 1..(L + 1) : k = L + 1 \/ k \in 1..L
       /\ \A k \in 1..L : k \in 0..L /\ k - 1 \in 0..L
       /\ L \in 0..L /\ (L + 1) - 1 = L
  BY <1>1, <1>5
<1>11. Pooled(L) = Counted(bin - 1) /\ PooledWins(L) = Won(bin - 1)
  BY <1>0 DEF FitInv, FitEnds
<1>12. Pooled(L + 1)' = Counted(bin) /\ PooledWins(L + 1)' = Won(bin)
  BY <1>8, <1>9, <1>11
<1>13. FitEnds'
  <2>1. ASSUME NEW k \in 0..(L + 1)
        PROVE  \E h \in 0..bin : Pooled(k)' = Counted(h) /\ PooledWins(k)' = Won(h)
    <3>1. CASE k = L + 1
      BY <1>10, <1>12, <3>1
    <3>2. CASE k \in 0..L
      <4>1. PICK h \in 0..(bin - 1) : Pooled(k) = Counted(h) /\ PooledWins(k) = Won(h)
        BY <1>0, <3>2 DEF FitInv, FitEnds
      <4> QED
        BY <1>8, <1>10, <3>2, <4>1
    <3> QED
      BY <1>10, <3>1, <3>2
  <2> QED
    BY <1>1, <1>5, <1>7, <1>10, <1>12, <2>1 DEF FitEnds
<1>14. FitChords'
  <2> SUFFICES ASSUME NEW k \in 1..(L + 1), NEW i \in 0..bin,
                      Pooled(k - 1)' <= Counted(i), Counted(i) <= Pooled(k)'
               PROVE  (Won(i) - PooledWins(k - 1)') * blocks'[k].n
                        >= blocks'[k].wins * (Counted(i) - Pooled(k - 1)')
    BY <1>1, <1>5, <1>7, <1>10 DEF FitChords, OverChord
  <2>1. CASE k \in 1..L
    <3>0. k \in 0..L /\ k - 1 \in 0..L
      BY <1>10, <2>1
    <3>1. Pooled(k)' = Pooled(k) /\ Pooled(k - 1)' = Pooled(k - 1) /\ PooledWins(k - 1)' = PooledWins(k - 1)
      BY <1>8, <3>0
    <3>2. Counted(bin - 1) \in Nat /\ Pooled(k) \in Nat /\ Pooled(k) <= Counted(bin - 1)
      <4>1. L \in 0..Len(blocks) /\ k \in 0..Len(blocks) /\ k <= L
        BY <1>0, <3>0
      <4>2. Pooled(k) \in Nat /\ Pooled(k) <= Pooled(L)
        BY <1>2, <4>1, BlockTotals
      <4> QED
        BY <1>9, <1>11, <4>2
    <3>3. i # bin
      <4> SUFFICES ASSUME i = bin PROVE FALSE
        OBVIOUS
      <4>1. Counted(bin) = Counted(bin - 1) + t.n /\ Counted(bin) <= Pooled(k)
        BY <1>9, <3>1
      <4> QED
        BY <1>3, <3>2, <4>1
    <3>4. OverChord(k, i)
      BY <1>0, <1>10, <2>1, <3>1, <3>3 DEF FitInv, FitChords
    <3> QED
      BY <1>5, <2>1, <3>1, <3>4 DEF OverChord
  <2>2. CASE k = L + 1
    <3>1. /\ Pooled(k - 1)' = Counted(bin - 1) /\ PooledWins(k - 1)' = Won(bin - 1)
          /\ blocks'[k].n = t.n /\ blocks'[k].wins = t.wins
      BY <1>4, <1>5, <1>8, <1>10, <1>11, <2>2
    <3>2. CASE i = bin
      <4>1. Won(i) - PooledWins(k - 1)' = t.wins /\ Counted(i) - Pooled(k - 1)' = t.n
        BY <1>3, <1>9, <3>1, <3>2
      <4>2. t.wins * t.n >= t.wins * t.n
        BY <1>3
      <4> QED
        BY <3>1, <4>1, <4>2
    <3>3. CASE i \in 0..(bin - 1)
      <4>1. Counted(i) = Counted(bin - 1)
        BY <1>9, <3>1, <3>3
      <4>2. Won(i) = Won(bin - 1)
        <5>1. i \in 0..BinCount /\ bin - 1 \in 0..BinCount
          BY <1>1, <3>3
        <5> QED
          BY <1>2, <4>1, <5>1, SameCount
      <4>3. Won(i) - PooledWins(k - 1)' = 0 /\ Counted(i) - Pooled(k - 1)' = 0
        BY <1>9, <3>1, <4>1, <4>2
      <4>4. 0 * t.n >= t.wins * 0
        BY <1>3
      <4> QED
        BY <3>1, <4>3, <4>4
    <3> QED
      BY <1>10, <3>2, <3>3
  <2> QED
    BY <1>10, <2>1, <2>2
<1>15. FitSorted'
  <2> SUFFICES ASSUME NEW k \in 1..(L - 1) PROVE ~Above(k, k + 1)'
    BY <1>5 DEF FitSorted
  <2>1. k \in 1..L /\ k + 1 \in 1..L
    BY <1>5
  <2>2. Above(k, k + 1)' <=> Above(k, k + 1)
    BY <1>5, <2>1 DEF Above
  <2>3. CASE k \in 1..(L - 2)
    BY <1>0, <2>2, <2>3 DEF FitInv, FitSorted
  <2>4. CASE k = L - 1
    <3>1. L > 1 /\ k + 1 = L
      BY <1>5, <2>4
    <3> QED
      BY <1>0, <1>1, <2>2, <2>4, <3>1 DEF MustPool
  <2> QED
    BY <1>5, <2>3, <2>4
<1>16. FitMids'
  <2>1. \A k \in 1..L : blocks[k].n \in Nat \ {0} /\ blocks[k].mids \in Nat
    BY <1>5 DEF Block
  <2>2. \A k \in 1..(L + 1) : blocks'[k].n <= blocks'[k].mids
    <3>1. \A k \in 1..L : blocks'[k].n <= blocks'[k].mids
      BY <1>0, <1>5 DEF FitInv, FitMids
    <3>2. t.n <= (2 * bin - 1) * t.n
      <4>1. 1 <= 2 * bin - 1 /\ 2 * bin - 1 \in Int
        BY <1>1
      <4>2. t.n * 1 <= t.n * (2 * bin - 1)
        BY <1>3, <4>1, Scaled
      <4> QED
        BY <1>1, <1>3, <4>2
    <3> QED
      BY <1>4, <1>5, <1>10, <3>1, <3>2
  <2>3. ASSUME NEW k \in 1..L
        PROVE  \E h \in 1..BinCount :
                 /\ blocks'[k].mids <= (2 * h - 1) * blocks'[k].n
                 /\ (2 * h + 1) * blocks'[k + 1].n <= blocks'[k + 1].mids
    <3>1. CASE k \in 1..(L - 1)
      <4>1. k + 1 \in 1..L
        BY <1>5, <3>1
      <4>2. PICK h \in 1..BinCount :
              blocks[k].mids <= (2 * h - 1) * blocks[k].n /\ (2 * h + 1) * blocks[k + 1].n <= blocks[k + 1].mids
        BY <1>0, <3>1 DEF FitInv, FitMids
      <4> QED
        BY <1>5, <4>1, <4>2
    <3>2. CASE k = L
      <4>1. blocks[k].n <= blocks[k].mids /\ blocks[k].mids <= (2 * bin - 3) * blocks[k].n
        BY <1>0, <3>2 DEF FitInv, FitMids
      <4>2. bin # 1
        <5>1. bin = 1 => (2 * bin - 3) * blocks[k].n = 0 - blocks[k].n
          BY <2>1
        <5> QED
          BY <2>1, <4>1, <5>1
      <4>3. bin - 1 \in 1..BinCount /\ 2 * (bin - 1) - 1 = 2 * bin - 3 /\ 2 * (bin - 1) + 1 = 2 * bin - 1
        BY <1>1, <4>2
      <4>4. (2 * (bin - 1) + 1) * t.n <= (2 * bin - 1) * t.n
        BY <1>4, <4>3
      <4>5. blocks'[k] = blocks[k] /\ blocks'[k + 1] = c
        BY <1>5, <3>2
      <4> QED
        BY <1>4, <4>1, <4>3, <4>4, <4>5
    <3> QED
      BY <1>5, <3>1, <3>2
  <2>4. blocks'[L + 1].mids <= (2 * bin' - 3) * blocks'[L + 1].n
    <3>1. 2 * bin' - 3 = 2 * bin - 1
      BY <1>1
    <3> QED
      BY <1>4, <1>5, <3>1
  <2> QED
    BY <1>5, <2>2, <2>3, <2>4, <1>10 DEF FitMids
<1> QED
  BY <1>6, <1>13, <1>14, <1>15, <1>16 DEF FitInv

\* What pooling does to the list of blocks: the last two become one.
LEMMA PoolFacts ==
  ASSUME FitInv, Pool
  PROVE  \E K \in Nat \ {0} : \E c \in Block :
           /\ Len(blocks) = K + 1 /\ Len(blocks') = K /\ blocks' \in Seq(Block)
           /\ \A k \in 1..(K - 1) : blocks'[k] = blocks[k]
           /\ blocks'[K] = c
           /\ c.n = blocks[K].n + blocks[K + 1].n
           /\ c.wins = blocks[K].wins + blocks[K + 1].wins
           /\ c.mids = blocks[K].mids + blocks[K + 1].mids
           /\ Above(K, K + 1) /\ bin' = bin /\ tally' = tally
<1>1. PICK L \in Nat : L = Len(blocks)
  BY DEF FitInv, FitTypes
<1>2. L > 1 /\ Above(L - 1, L)
  BY <1>1 DEF Pool, MustPool
<1> DEFINE K == L - 1
           a == blocks[K]
           b == blocks[K + 1]
           c == [n |-> a.n + b.n, wins |-> a.wins + b.wins, mids |-> a.mids + b.mids]
<1>3. K \in Nat \ {0} /\ K + 1 = L /\ K \in 1..L /\ L \in 1..L
  BY <1>2
<1>4. blocks' = Append(SubSeq(blocks, 1, K - 1), c) /\ bin' = bin /\ tally' = tally
  BY <1>1 DEF Pool
<1>5. blocks \in Seq(Block) /\ a \in Block /\ b \in Block
  BY <1>1, <1>3 DEF FitInv, FitTypes
<1>6. c \in Block /\ c.n = a.n + b.n /\ c.wins = a.wins + b.wins /\ c.mids = a.mids + b.mids
  <2>1. /\ a.n \in Nat \ {0} /\ a.wins \in Nat /\ a.mids \in Nat
        /\ b.n \in Nat \ {0} /\ b.wins \in Nat /\ b.mids \in Nat
    BY <1>5 DEF Block
  <2>2. /\ a.n + b.n \in Nat \ {0} /\ a.wins + b.wins \in Nat /\ a.mids + b.mids \in Nat
    BY <2>1
  <2> QED
    BY <2>2 DEF Block
<1> HIDE DEF a, b, c
<1>7. /\ SubSeq(blocks, 1, K - 1) \in Seq(Block) /\ Len(SubSeq(blocks, 1, K - 1)) = K - 1
      /\ \A k \in 1..(K - 1) : SubSeq(blocks, 1, K - 1)[k] = blocks[k]
  <2>1. K - 1 \in Nat /\ Len(blocks) \in Nat /\ 1..(K - 1) \subseteq 1..Len(blocks)
    BY <1>1, <1>3
  <2>2. SubSeq(blocks, 1, K - 1) = [k \in 1..(K - 1) |-> blocks[k]]
    BY <1>5, <2>1, Z3
  <2> QED
    BY <1>5, <2>1, <2>2
<1>8. /\ blocks' \in Seq(Block) /\ Len(blocks') = K /\ blocks'[K] = c
      /\ \A k \in 1..(K - 1) : blocks'[k] = blocks[k]
  <2> DEFINE s == SubSeq(blocks, 1, K - 1)
  <2>1. /\ s \in Seq(Block) /\ Len(s) = K - 1 /\ \A k \in 1..(K - 1) : s[k] = blocks[k]
        /\ blocks' = Append(s, c)
    BY <1>4, <1>7
  <2> HIDE DEF s
  <2> QED
    BY <1>3, <1>6, <2>1
<1>9. Above(K, K + 1)
  BY <1>2, <1>3
<1> QED
  BY <1>1, <1>3, <1>4, <1>6, <1>8, <1>9 DEF a, b

\* The last two blocks are out of order and become one.
LEMMA PoolKeeps ==
  ASSUME FitInv, Pool
  PROVE  FitInv'
<1>1. PICK K \in Nat \ {0}, c \in Block :
           /\ Len(blocks) = K + 1 /\ Len(blocks') = K /\ blocks' \in Seq(Block)
           /\ \A k \in 1..(K - 1) : blocks'[k] = blocks[k]
           /\ blocks'[K] = c
           /\ c.n = blocks[K].n + blocks[K + 1].n
           /\ c.wins = blocks[K].wins + blocks[K + 1].wins
           /\ c.mids = blocks[K].mids + blocks[K + 1].mids
           /\ Above(K, K + 1) /\ bin' = bin /\ tally' = tally
  BY PoolFacts
<1>2. FitTypes /\ FitTypes'
  BY <1>1 DEF FitInv, FitTypes
<1>3. \A i : Counted(i)' = Counted(i) /\ Won(i)' = Won(i)
  BY <1>1, SameTally
<1>4. /\ \A k \in 1..(K + 1) : /\ blocks[k] \in Block /\ blocks[k].n \in Nat \ {0}
                               /\ blocks[k].wins \in Nat /\ blocks[k].mids \in Nat
      /\ \A k \in 0..(K + 1) : Pooled(k) \in Nat /\ PooledWins(k) \in Nat
      /\ \A k \in 1..(K + 1) : /\ Pooled(k) = Pooled(k - 1) + blocks[k].n
                               /\ PooledWins(k) = PooledWins(k - 1) + blocks[k].wins
  BY <1>1, <1>2, BlockTotals
<1>5. /\ K \in 1..(K + 1) /\ K + 1 \in 1..(K + 1) /\ (K + 1) - 1 = K /\ K \in 0..(K + 1)
      /\ K + 1 \in 0..(K + 1) /\ K - 1 \in 0..(K + 1) /\ K - 1 \in Nat /\ K - 1 \in 0..(K - 1) /\ K \in 0..K
      /\ \A k \in 1..(K - 1) : k \in 1..(K + 1) /\ k \in 0..(K - 1) /\ k - 1 \in 0..(K - 1)
      /\ \A k \in 0..(K - 1) : k \in 0..(K + 1)
      /\ \A k \in 0..K : k = K \/ k \in 0..(K - 1)
      /\ \A k \in 1..K : k = K \/ k \in 1..(K - 1)
  OBVIOUS
<1>6. /\ \A k \in 0..(K - 1) : Pooled(k)' = Pooled(k) /\ PooledWins(k)' = PooledWins(k)
      /\ Pooled(K)' = Pooled(K + 1) /\ PooledWins(K)' = PooledWins(K + 1)
  <2>1. \A b \in Block : b["n"] \in Int /\ b["wins"] \in Int
    BY DEF Block
  <2>2. \A k \in 1..(K - 1) : /\ blocks[k]["n"] \in Int /\ blocks'[k]["n"] = blocks[k]["n"]
                              /\ blocks[k]["wins"] \in Int /\ blocks'[k]["wins"] = blocks[k]["wins"]
    BY <1>1, <1>4, <1>5, <2>1
  <2>3. \A k \in 0..(K - 1) : /\ Total(blocks', 1, k, "n") = Total(blocks, 1, k, "n")
                              /\ Total(blocks', 1, k, "wins") = Total(blocks, 1, k, "wins")
    <3> DEFINE m == K - 1
    <3>1. m \in Nat
      BY <1>5
    <3>2. \A k \in 1..m : /\ blocks[k]["n"] \in Int /\ blocks'[k]["n"] = blocks[k]["n"]
                          /\ blocks[k]["wins"] \in Int /\ blocks'[k]["wins"] = blocks[k]["wins"]
      BY <2>2
    <3> HIDE DEF m
    <3>3. \A k \in 0..m : Total(blocks', 1, k, "n") = Total(blocks, 1, k, "n")
      BY <3>1, <3>2, TotalsAgree
    <3>4. \A k \in 0..m : Total(blocks', 1, k, "wins") = Total(blocks, 1, k, "wins")
      BY <3>1, <3>2, TotalsAgree
    <3> QED
      BY <3>3, <3>4 DEF m
  <2>4. \A k \in 1..K : blocks'[k]["n"] \in Int /\ blocks'[k]["wins"] \in Int
    BY <1>1, <1>5, <2>1, <2>2
  <2>5. /\ Total(blocks', 1, K, "n") = Total(blocks', 1, K - 1, "n") + blocks'[K]["n"]
        /\ Total(blocks', 1, K, "wins") = Total(blocks', 1, K - 1, "wins") + blocks'[K]["wins"]
    <3>1. K \in 1..K
      OBVIOUS
    <3> QED
      BY <2>4, <3>1, Totals
  <2>6. Pooled(K)' = Pooled(K - 1) + c.n /\ PooledWins(K)' = PooledWins(K - 1) + c.wins
    BY <1>1, <1>5, <2>3, <2>5 DEF Pooled, PooledWins
  <2>7. Pooled(K + 1) = Pooled(K) + blocks[K + 1].n /\ Pooled(K) = Pooled(K - 1) + blocks[K].n
    BY <1>4, <1>5
  <2>8. /\ PooledWins(K + 1) = PooledWins(K) + blocks[K + 1].wins
        /\ PooledWins(K) = PooledWins(K - 1) + blocks[K].wins
    BY <1>4, <1>5
  <2>9. Pooled(K)' = Pooled(K + 1) /\ PooledWins(K)' = PooledWins(K + 1)
    <3>1. /\ Pooled(K - 1) \in Nat /\ PooledWins(K - 1) \in Nat
          /\ blocks[K].n \in Nat /\ blocks[K + 1].n \in Nat
          /\ blocks[K].wins \in Nat /\ blocks[K + 1].wins \in Nat
      BY <1>4, <1>5
    <3>2. c.n = blocks[K].n + blocks[K + 1].n /\ c.wins = blocks[K].wins + blocks[K + 1].wins
      BY <1>1
    <3> QED
      BY <2>6, <2>7, <2>8, <3>1, <3>2
  <2> QED
    BY <2>3, <2>9 DEF Pooled, PooledWins
<1>7. FitEnds'
  <2>1. ASSUME NEW k \in 0..K
        PROVE  \E h \in 0..(bin - 1) : Pooled(k)' = Counted(h) /\ PooledWins(k)' = Won(h)
    <3>1. CASE k = K
      BY <1>1, <1>5, <1>6, <3>1 DEF FitInv, FitEnds
    <3>2. CASE k \in 0..(K - 1)
      BY <1>1, <1>5, <1>6, <3>2 DEF FitInv, FitEnds
    <3> QED
      BY <1>5, <3>1, <3>2
  <2>2. Pooled(K)' = Counted(bin - 1) /\ PooledWins(K)' = Won(bin - 1)
    BY <1>1, <1>6 DEF FitInv, FitEnds
  <2> QED
    BY <1>1, <1>3, <2>1, <2>2 DEF FitEnds
<1>8. FitChords'
  <2> SUFFICES ASSUME NEW k \in 1..K, NEW i \in 0..(bin - 1),
                      Pooled(k - 1)' <= Counted(i), Counted(i) <= Pooled(k)'
               PROVE  (Won(i) - PooledWins(k - 1)') * blocks'[k].n
                        >= blocks'[k].wins * (Counted(i) - Pooled(k - 1)')
    BY <1>1, <1>3 DEF FitChords, OverChord
  <2>1. CASE k \in 1..(K - 1)
    <3>1. Pooled(k)' = Pooled(k) /\ Pooled(k - 1)' = Pooled(k - 1) /\ PooledWins(k - 1)' = PooledWins(k - 1)
      BY <1>5, <1>6, <2>1
    <3>2. OverChord(k, i)
      BY <1>1, <1>5, <2>1, <3>1 DEF FitInv, FitChords
    <3> QED
      BY <1>1, <2>1, <3>1, <3>2 DEF OverChord
  <2>2. CASE k = K
    <3> DEFINE p == blocks[K].n
               q == blocks[K + 1].n
               u == blocks[K].wins
               v == blocks[K + 1].wins
               x0 == Pooled(K - 1)
               y0 == PooledWins(K - 1)
               x == Counted(i)
               y == Won(i)
    <3>1. p \in Nat \ {0} /\ q \in Nat \ {0} /\ u \in Nat /\ v \in Nat /\ x0 \in Nat /\ y0 \in Nat
      BY <1>4, <1>5
    <3>2. x \in Nat /\ y \in Nat
      <4>1. i \in 0..BinCount
        BY <1>2, CalibrationAssumption DEF FitTypes
      <4> QED
        BY <1>2, <4>1, TallyTotals
    <3>3. u * q > v * p
      BY <1>1 DEF Above
    <3>4. Pooled(K) = x0 + p /\ PooledWins(K) = y0 + u /\ Pooled(K + 1) = (x0 + p) + q
      BY <1>4, <1>5
    <3>5. /\ blocks'[k].n = p + q /\ blocks'[k].wins = u + v
          /\ Pooled(k - 1)' = x0 /\ PooledWins(k - 1)' = y0 /\ Pooled(k)' = (x0 + p) + q
      BY <1>1, <1>5, <1>6, <2>2, <3>4
    <3>6. x0 <= x /\ x <= (x0 + p) + q
      BY <3>5
    <3>7. x <= x0 + p => (y - y0) * p >= u * (x - x0)
      <4>1. x <= x0 + p => OverChord(K, i)
        BY <1>1, <1>5, <3>4, <3>6 DEF FitInv, FitChords
      <4> QED
        BY <4>1 DEF OverChord
    <3>8. x0 + p <= x => (y - (y0 + u)) * q >= v * (x - (x0 + p))
      <4>1. x0 + p <= x => OverChord(K + 1, i)
        BY <1>1, <1>5, <3>4, <3>6 DEF FitInv, FitChords
      <4> QED
        BY <1>5, <3>4, <4>1 DEF OverChord
    <3> HIDE DEF p, q, u, v, x0, y0, x, y
    <3>9. CASE x <= x0 + p
      <4>1. x - x0 \in Nat /\ y - y0 \in Int
        BY <3>1, <3>2, <3>6
      <4>2. (y - y0) * (p + q) >= (u + v) * (x - x0)
        BY <3>1, <3>3, <3>7, <3>9, <4>1, OverPooledLeft
      <4> QED
        BY <3>5, <4>2 DEF x, y
    <3>10. CASE ~(x <= x0 + p)
      <4> DEFINE e == x - (x0 + p)
                 f == y - (y0 + u)
      <4>1. e \in Nat /\ f \in Int /\ e <= q /\ p + e = x - x0 /\ u + f = y - y0 /\ x0 + p <= x
        BY <3>1, <3>2, <3>6, <3>10
      <4>2. f * q >= v * e
        BY <3>8, <4>1
      <4> HIDE DEF e, f
      <4>3. (u + f) * (p + q) >= (u + v) * (p + e)
        BY <3>1, <3>3, <4>1, <4>2, OverPooledRight
      <4> QED
        BY <3>5, <4>1, <4>3 DEF x, y
    <3> QED
      BY <3>9, <3>10
  <2> QED
    BY <1>5, <2>1, <2>2
<1>9. FitSorted'
  <2> SUFFICES ASSUME NEW k \in 1..(K - 2) PROVE ~Above(k, k + 1)'
    BY <1>1 DEF FitSorted
  <2>1. k \in 1..(K - 1) /\ k + 1 \in 1..(K - 1) /\ k \in 1..((K + 1) - 2)
    OBVIOUS
  <2>2. Above(k, k + 1)' <=> Above(k, k + 1)
    BY <1>1, <2>1 DEF Above
  <2> QED
    BY <1>1, <2>1, <2>2 DEF FitInv, FitSorted
<1>10. FitMids'
  <2> DEFINE p == blocks[K].n
             q == blocks[K + 1].n
             m == blocks[K].mids
             o == blocks[K + 1].mids
  <2>1. /\ p \in Nat \ {0} /\ q \in Nat \ {0} /\ m \in Nat /\ o \in Nat
        /\ c.n = p + q /\ c.mids = m + o /\ bin \in Nat \ {0} /\ BinCount \in Nat
    BY <1>1, <1>2, <1>4, <1>5, CalibrationAssumption DEF FitTypes
  <2>2. /\ p <= m /\ q <= o /\ o <= (2 * bin - 3) * q
        /\ \E h \in 1..BinCount : m <= (2 * h - 1) * p /\ (2 * h + 1) * q <= o
    BY <1>1, <1>5 DEF FitInv, FitMids
  <2> HIDE DEF p, q, m, o
  <2>3. PICK h \in 1..BinCount : m <= (2 * h - 1) * p /\ (2 * h + 1) * q <= o
    BY <2>2
  <2>4. \A k \in 1..K : blocks'[k].n <= blocks'[k].mids
    <3>1. \A k \in 1..(K - 1) : blocks'[k].n <= blocks'[k].mids
      BY <1>1, <1>5 DEF FitInv, FitMids
    <3> QED
      BY <1>1, <1>5, <2>1, <2>2, <3>1
  <2>5. 2 * h + 1 <= 2 * bin - 3
    <3>1. q * (2 * h + 1) <= q * (2 * bin - 3)
      <4>1. q * (2 * h + 1) = (2 * h + 1) * q /\ q * (2 * bin - 3) = (2 * bin - 3) * q
        BY <2>1
      <4>2. (2 * h + 1) * q \in Int /\ (2 * bin - 3) * q \in Int
        BY <2>1
      <4> QED
        BY <2>1, <2>2, <2>3, <4>1, <4>2
    <3>2. 2 * h + 1 \in Int /\ 2 * bin - 3 \in Int
      BY <2>1
    <3> QED
      BY <2>1, <3>1, <3>2, Cancel
  <2>6. m + o <= (2 * bin - 3) * (p + q)
    <3>1. p * (2 * h - 1) <= p * (2 * bin - 3)
      <4>1. 2 * h - 1 \in Int /\ 2 * bin - 3 \in Int /\ 2 * h - 1 <= 2 * bin - 3
        BY <2>1, <2>5
      <4> QED
        BY <2>1, <4>1, Scaled
    <3>2. p * (2 * h - 1) = (2 * h - 1) * p /\ (2 * bin - 3) * (p + q) = p * (2 * bin - 3) + (2 * bin - 3) * q
      BY <2>1
    <3>3. (2 * h - 1) * p \in Int /\ p * (2 * bin - 3) \in Int /\ (2 * bin - 3) * q \in Int
      BY <2>1
    <3> QED
      BY <2>1, <2>2, <2>3, <3>1, <3>2, <3>3
  <2>7. ASSUME NEW k \in 1..(K - 1)
        PROVE  \E l \in 1..BinCount :
                 /\ blocks'[k].mids <= (2 * l - 1) * blocks'[k].n
                 /\ (2 * l + 1) * blocks'[k + 1].n <= blocks'[k + 1].mids
    <3>1. PICK l \in 1..BinCount :
             /\ blocks[k].mids <= (2 * l - 1) * blocks[k].n
             /\ (2 * l + 1) * blocks[k + 1].n <= blocks[k + 1].mids
      <4>1. k \in 1..(Len(blocks) - 1)
        BY <1>1
      <4> QED
        BY <4>1 DEF FitInv, FitMids
    <3>2. CASE k + 1 \in 1..(K - 1)
      BY <1>1, <3>1, <3>2
    <3>3. CASE k = K - 1
      <4>1. k + 1 = K
        BY <3>3
      <4>2. (2 * l + 1) * p <= m
        BY <3>1, <4>1 DEF p, m
      <4>3. 2 * l + 1 <= 2 * h - 1
        <5>1. p * (2 * l + 1) <= p * (2 * h - 1)
          <6>1. p * (2 * l + 1) = (2 * l + 1) * p /\ p * (2 * h - 1) = (2 * h - 1) * p
            BY <2>1
          <6>2. (2 * l + 1) * p \in Int /\ (2 * h - 1) * p \in Int
            BY <2>1
          <6> QED
            BY <2>1, <2>3, <4>2, <6>1, <6>2
        <5> QED
          BY <2>1, <5>1, Cancel
      <4>4. (2 * l + 1) * (p + q) <= m + o
        <5>1. q * (2 * l + 1) <= q * (2 * h + 1)
          <6>1. 2 * l + 1 \in Int /\ 2 * h + 1 \in Int /\ 2 * l + 1 <= 2 * h + 1
            BY <4>3
          <6> QED
            BY <2>1, <6>1, Scaled
        <5>2. q * (2 * h + 1) = (2 * h + 1) * q /\ (2 * l + 1) * (p + q) = (2 * l + 1) * p + q * (2 * l + 1)
          BY <2>1
        <5>3. (2 * l + 1) * p \in Int /\ q * (2 * l + 1) \in Int /\ (2 * h + 1) * q \in Int
          BY <2>1
        <5> QED
          BY <2>1, <2>3, <4>2, <5>1, <5>2, <5>3
      <4>5. blocks'[k + 1] = c /\ blocks'[k] = blocks[k]
        BY <1>1, <4>1
      <4> QED
        BY <2>1, <3>1, <4>4, <4>5
    <3> QED
      BY <3>2, <3>3
  <2>8. blocks'[K].mids <= (2 * bin' - 3) * blocks'[K].n
    BY <1>1, <2>1, <2>6
  <2> QED
    BY <1>1, <2>4, <2>7, <2>8 DEF FitMids
<1> QED
  BY <1>2, <1>7, <1>8, <1>9, <1>10 DEF FitInv

\* After the last pooling every two blocks are in order.
LEMMA BlocksInOrder ==
  ASSUME FitInv, ~MustPool
  PROVE  \A k, l \in 1..Len(blocks) : k <= l => blocks[k].wins * blocks[l].n <= blocks[l].wins * blocks[k].n
<1>1. PICK L \in Nat : L = Len(blocks)
  BY DEF FitInv, FitTypes
<1>2. \A k \in 1..L : blocks[k].n \in Nat \ {0} /\ blocks[k].wins \in Nat
  BY <1>1, BlockTotals DEF FitInv
<1>3. ASSUME NEW k \in 1..(L - 1)
      PROVE  blocks[k].wins * blocks[k + 1].n <= blocks[k + 1].wins * blocks[k].n
  <2>1. k \in 1..L /\ k + 1 \in 1..L
    OBVIOUS
  <2>2. ~Above(k, k + 1)
    <3>1. CASE k \in 1..(L - 2)
      BY <1>1, <3>1 DEF FitInv, FitSorted
    <3>2. CASE k = L - 1
      <4>1. L > 1 /\ k + 1 = L
        BY <3>2
      <4> QED
        BY <1>1, <3>2, <4>1 DEF MustPool
    <3> QED
      BY <3>1, <3>2
  <2>3. blocks[k].wins * blocks[k + 1].n \in Int /\ blocks[k + 1].wins * blocks[k].n \in Int
    BY <1>2, <2>1
  <2> QED
    BY <2>2, <2>3 DEF Above
<1> SUFFICES ASSUME NEW k \in 1..L, NEW l \in 1..L, k <= l
             PROVE  blocks[k].wins * blocks[l].n <= blocks[l].wins * blocks[k].n
  BY <1>1
<1> DEFINE S == {m \in Nat : k + m <= L =>
                   blocks[k].wins * blocks[k + m].n <= blocks[k + m].wins * blocks[k].n}
<1>4. 0 \in S
  <2>1. k + 0 = k /\ blocks[k].wins * blocks[k].n <= blocks[k].wins * blocks[k].n
    BY <1>2
  <2> QED
    BY <2>1
<1>5. ASSUME NEW m \in Nat, m \in S PROVE m + 1 \in S
  <2> SUFFICES ASSUME k + (m + 1) <= L
               PROVE  blocks[k].wins * blocks[k + (m + 1)].n <= blocks[k + (m + 1)].wins * blocks[k].n
    OBVIOUS
  <2> DEFINE j == k + m
  <2>1. j \in 1..(L - 1) /\ j \in 1..L /\ j + 1 \in 1..L /\ k + (m + 1) = j + 1 /\ k + m <= L
    OBVIOUS
  <2>2. blocks[k].wins * blocks[j].n <= blocks[j].wins * blocks[k].n
    BY <1>5, <2>1
  <2> HIDE DEF j
  <2>3. blocks[j].wins * blocks[j + 1].n <= blocks[j + 1].wins * blocks[j].n
    BY <1>3, <2>1
  <2>4. /\ blocks[k].n \in Nat \ {0} /\ blocks[k].wins \in Int
        /\ blocks[j].n \in Nat \ {0} /\ blocks[j].wins \in Int
        /\ blocks[j + 1].n \in Nat \ {0} /\ blocks[j + 1].wins \in Int
    BY <1>2, <2>1
  <2>5. blocks[k].wins * blocks[j + 1].n <= blocks[j + 1].wins * blocks[k].n
    <3> DEFINE a == blocks[k].wins
               p == blocks[k].n
               b == blocks[j].wins
               q == blocks[j].n
               c == blocks[j + 1].wins
               r == blocks[j + 1].n
    <3>1. /\ a \in Int /\ b \in Int /\ c \in Int
          /\ p \in Nat \ {0} /\ q \in Nat \ {0} /\ r \in Nat \ {0}
          /\ a * q <= b * p /\ b * r <= c * q
      BY <2>2, <2>3, <2>4
    <3> HIDE DEF a, b, c, p, q, r
    <3>2. a * r <= c * p
      BY <3>1, RatesChain
    <3> QED
      BY <3>2 DEF a, c, p, r
  <2> QED
    BY <2>1, <2>5
<1>6. l - k \in Nat /\ k + (l - k) = l
  OBVIOUS
<1>7. l - k \in S
  <2> HIDE DEF S
  <2> QED
    BY <1>4, <1>5, <1>6, EveryNumber
<1> QED
  BY <1>6, <1>7

\* A point is on or above the line through block K.
Supports(K, x, y) == (y - PooledWins(K - 1)) * blocks[K].n >= blocks[K].wins * (x - Pooled(K - 1))

\* One step along a steeper line stays above the line through a block.
LEMMA StepUp ==
  ASSUME NEW a \in Int, NEW b \in Int, NEW x \in Nat, NEW y \in Int, NEW u \in Nat, NEW p \in Nat \ {0},
         NEW v \in Nat, NEW q \in Nat \ {0},
         b * p >= u * a, y * q >= v * x, u * q <= v * p
  PROVE  (b + y) * p >= u * (a + x)
<1>1. y * p >= u * x
  <2>1. v * p >= u * q
    OBVIOUS
  <2> QED
    BY <2>1, LessSteep
<1>2. (b + y) * p = b * p + y * p /\ u * (a + x) = u * a + u * x
  OBVIOUS
<1>3. b * p \in Int /\ y * p \in Int /\ u * a \in Int /\ u * x \in Int
  OBVIOUS
<1> QED
  BY <1>1, <1>2, <1>3

\* The same, back along a line that is less steep.
LEMMA StepBack ==
  ASSUME NEW a \in Int, NEW b \in Int, NEW x \in Nat, NEW y \in Int, NEW u \in Nat, NEW p \in Nat \ {0},
         NEW v \in Nat, NEW q \in Nat \ {0},
         b * p >= u * a, y * q <= v * x, v * p <= u * q
  PROVE  (b - y) * p >= u * (a - x)
<1>1. (0 - y) * p >= (0 - u) * x
  <2>1. (0 - y) * q >= (0 - v) * x
    OBVIOUS
  <2>2. (0 - v) * p >= (0 - u) * q
    OBVIOUS
  <2> QED
    BY <2>1, <2>2, LessSteep
<1>2. (b - y) * p = b * p + (0 - y) * p /\ u * (a - x) = u * a + (0 - u) * x
  OBVIOUS
<1>3. b * p \in Int /\ (0 - y) * p \in Int /\ u * a \in Int /\ (0 - u) * x \in Int
  OBVIOUS
<1> QED
  BY <1>1, <1>2, <1>3

\* The ends of the other blocks are on or above the line through a block.
LEMMA EndsAbove ==
  ASSUME FitInv, ~MustPool, NEW K \in 1..Len(blocks)
  PROVE  \A k \in 0..Len(blocks) : Supports(K, Pooled(k), PooledWins(k))
<1>1. PICK L \in Nat : L = Len(blocks)
  BY DEF FitInv, FitTypes
<1>2. /\ \A k \in 1..L : blocks[k].n \in Nat \ {0} /\ blocks[k].wins \in Nat
      /\ \A k \in 0..L : Pooled(k) \in Nat /\ PooledWins(k) \in Nat
      /\ \A k \in 1..L : /\ Pooled(k) = Pooled(k - 1) + blocks[k].n
                         /\ PooledWins(k) = PooledWins(k - 1) + blocks[k].wins
  BY <1>1, BlockTotals DEF FitInv
<1>3. \A k, l \in 1..L : k <= l => blocks[k].wins * blocks[l].n <= blocks[l].wins * blocks[k].n
  BY <1>1, BlocksInOrder
<1> DEFINE u == blocks[K].wins
           p == blocks[K].n
           x0 == Pooled(K - 1)
           y0 == PooledWins(K - 1)
           above(k) == (PooledWins(k) - y0) * p >= u * (Pooled(k) - x0)
<1>4. u \in Nat /\ p \in Nat \ {0} /\ x0 \in Nat /\ y0 \in Nat /\ K \in 1..L /\ K - 1 \in 0..L
  BY <1>1, <1>2
<1>5. above(K - 1)
  <2>1. y0 - y0 = 0 /\ x0 - x0 = 0 /\ 0 * p = 0 /\ u * 0 = 0
    BY <1>4
  <2> QED
    BY <2>1
<1> HIDE DEF u, p, x0, y0
<1>6. ASSUME NEW k \in 1..L, k >= K, above(k - 1) PROVE above(k)
  <2> DEFINE a == Pooled(k - 1) - x0
             b == PooledWins(k - 1) - y0
             x == blocks[k].n
             y == blocks[k].wins
  <2>1. k - 1 \in 0..L /\ k \in 0..L
    OBVIOUS
  <2>2. a \in Int /\ b \in Int /\ x \in Nat \ {0} /\ y \in Nat
    <3>1. Pooled(k - 1) \in Nat /\ PooledWins(k - 1) \in Nat
      BY <1>2, <2>1
    <3>2. a \in Int /\ b \in Int
      BY <1>4, <3>1
    <3>3. x \in Nat \ {0} /\ y \in Nat
      BY <1>2
    <3> QED
      BY <3>2, <3>3
  <2>3. u * x <= y * p
    BY <1>3, <1>4, <1>6 DEF u, p
  <2>4. b * p >= u * a
    BY <1>6
  <2>5. PooledWins(k) - y0 = b + y /\ Pooled(k) - x0 = a + x
    <3>1. /\ Pooled(k) = Pooled(k - 1) + x /\ PooledWins(k) = PooledWins(k - 1) + y
          /\ Pooled(k - 1) \in Nat /\ PooledWins(k - 1) \in Nat
      BY <1>2, <2>1
    <3>2. x \in Nat /\ y \in Nat
      BY <2>2
    <3> HIDE DEF x, y
    <3> QED
      BY <1>4, <3>1, <3>2
  <2> HIDE DEF a, b, x, y
  <2>6. y * x >= y * x
    BY <2>2
  <2>7. (b + y) * p >= u * (a + x)
    BY <1>4, <2>2, <2>3, <2>4, <2>6, StepUp
  <2> QED
    BY <2>5, <2>7
<1>7. ASSUME NEW k \in 1..L, k < K, above(k) PROVE above(k - 1)
  <2> DEFINE a == Pooled(k) - x0
             b == PooledWins(k) - y0
             x == blocks[k].n
             y == blocks[k].wins
  <2>1. k - 1 \in 0..L /\ k \in 0..L
    OBVIOUS
  <2>2. a \in Int /\ b \in Int /\ x \in Nat \ {0} /\ y \in Nat
    <3>1. Pooled(k) \in Nat /\ PooledWins(k) \in Nat
      BY <1>2, <2>1
    <3>2. a \in Int /\ b \in Int
      BY <1>4, <3>1
    <3>3. x \in Nat \ {0} /\ y \in Nat
      BY <1>2
    <3> QED
      BY <3>2, <3>3
  <2>3. y * p <= u * x
    BY <1>3, <1>4, <1>7 DEF u, p
  <2>4. b * p >= u * a
    BY <1>7
  <2>5. PooledWins(k - 1) - y0 = b - y /\ Pooled(k - 1) - x0 = a - x
    <3>1. /\ Pooled(k) = Pooled(k - 1) + x /\ PooledWins(k) = PooledWins(k - 1) + y
          /\ Pooled(k - 1) \in Nat /\ PooledWins(k - 1) \in Nat
      BY <1>2, <2>1
    <3>2. x \in Nat /\ y \in Nat
      BY <2>2
    <3> HIDE DEF x, y
    <3> QED
      BY <1>4, <3>1, <3>2
  <2> HIDE DEF a, b, x, y
  <2>6. y * x <= y * x
    BY <2>2
  <2>7. (b - y) * p >= u * (a - x)
    BY <1>4, <2>2, <2>3, <2>4, <2>6, StepBack
  <2> QED
    BY <2>5, <2>7
<1> HIDE DEF above
<1> DEFINE S == {m \in Nat : (K - 1) + m <= L => above((K - 1) + m)}
           T == {m \in Nat : m <= K - 1 => above((K - 1) - m)}
<1>8. \A m \in Nat : m \in S
  <2>1. 0 \in S
    <3>1. (K - 1) + 0 = K - 1
      OBVIOUS
    <3> QED
      BY <1>5, <3>1
  <2>2. ASSUME NEW m \in Nat, m \in S PROVE m + 1 \in S
    <3> SUFFICES ASSUME (K - 1) + (m + 1) <= L PROVE above((K - 1) + (m + 1))
      OBVIOUS
    <3> DEFINE k == (K - 1) + (m + 1)
    <3>1. k \in 1..L /\ k >= K /\ k - 1 = (K - 1) + m /\ (K - 1) + m <= L
      BY <1>4
    <3>2. above(k - 1)
      BY <2>2, <3>1
    <3> HIDE DEF k
    <3>3. above(k)
      BY <1>6, <3>1, <3>2
    <3> QED
      BY <3>3 DEF k
  <2> HIDE DEF S
  <2> QED
    BY <2>1, <2>2, EveryNumber
<1>9. \A m \in Nat : m \in T
  <2>1. 0 \in T
    <3>1. (K - 1) - 0 = K - 1
      OBVIOUS
    <3> QED
      BY <1>5, <3>1
  <2>2. ASSUME NEW m \in Nat, m \in T PROVE m + 1 \in T
    <3> SUFFICES ASSUME m + 1 <= K - 1 PROVE above((K - 1) - (m + 1))
      OBVIOUS
    <3> DEFINE k == (K - 1) - m
    <3>1. k \in 1..L /\ k < K /\ k - 1 = (K - 1) - (m + 1) /\ m <= K - 1
      BY <1>4
    <3>2. above(k)
      BY <2>2, <3>1
    <3> HIDE DEF k
    <3>3. above(k - 1)
      BY <1>7, <3>1, <3>2
    <3> QED
      BY <3>1, <3>3
  <2> HIDE DEF T
  <2> QED
    BY <2>1, <2>2, EveryNumber
<1>10. ASSUME NEW k \in 0..L PROVE above(k)
  <2>1. CASE k >= K - 1
    <3>1. k - (K - 1) \in Nat /\ (K - 1) + (k - (K - 1)) = k /\ k <= L
      BY <1>4, <2>1
    <3> QED
      BY <1>8, <3>1
  <2>2. CASE ~(k >= K - 1)
    <3>1. (K - 1) - k \in Nat /\ (K - 1) - ((K - 1) - k) = k /\ (K - 1) - k <= K - 1
      BY <1>4, <2>2
    <3> QED
      BY <1>9, <3>1
  <2> QED
    BY <2>1, <2>2
<1> QED
  BY <1>1, <1>10 DEF above, Supports, u, p, x0, y0

\* And so is everything counted in between: the running successes are nowhere below the
\* line through any block.
LEMMA PointsAbove ==
  ASSUME FitInv, ~MustPool, bin = BinCount + 1, NEW K \in 1..Len(blocks)
  PROVE  \A i \in 0..BinCount : Supports(K, Counted(i), Won(i))
<1>1. PICK L \in Nat : L = Len(blocks)
  BY DEF FitInv, FitTypes
<1>2. /\ \A k \in 1..L : blocks[k].n \in Nat \ {0} /\ blocks[k].wins \in Nat
      /\ \A k \in 0..L : Pooled(k) \in Nat /\ PooledWins(k) \in Nat
      /\ \A k \in 1..L : /\ Pooled(k) = Pooled(k - 1) + blocks[k].n
                         /\ PooledWins(k) = PooledWins(k - 1) + blocks[k].wins
      /\ Pooled(0) = 0 /\ PooledWins(0) = 0
  BY <1>1, BlockTotals DEF FitInv
<1>3. \A k, l \in 1..L : k <= l => blocks[k].wins * blocks[l].n <= blocks[l].wins * blocks[k].n
  BY <1>1, BlocksInOrder
<1>4. BinCount \in Nat /\ \A i \in 0..BinCount : Counted(i) \in Nat /\ Won(i) \in Nat
  BY TallyTotals, CalibrationAssumption DEF FitInv
<1>5. \A k \in 0..L : Supports(K, Pooled(k), PooledWins(k))
  BY <1>1, EndsAbove
<1>6. ASSUME NEW k \in 1..L, NEW i \in 0..BinCount, Pooled(k - 1) <= Counted(i), Counted(i) <= Pooled(k)
      PROVE  Supports(K, Counted(i), Won(i))
  <2> DEFINE u == blocks[K].wins
             p == blocks[K].n
             v == blocks[k].wins
             q == blocks[k].n
             x0 == Pooled(K - 1)
             y0 == PooledWins(K - 1)
             x1 == Pooled(k - 1)
             y1 == PooledWins(k - 1)
             x == Counted(i)
             y == Won(i)
  <2>1. /\ u \in Nat /\ p \in Nat \ {0} /\ v \in Nat /\ q \in Nat \ {0} /\ x \in Nat /\ y \in Nat
        /\ x0 \in Nat /\ y0 \in Nat /\ x1 \in Nat /\ y1 \in Nat
    <3>1. K \in 1..L /\ K - 1 \in 0..L /\ k - 1 \in 0..L
      BY <1>1
    <3> QED
      BY <1>2, <1>4, <3>1
  <2>2. x1 <= x /\ x <= x1 + q /\ Pooled(k) = x1 + q /\ PooledWins(k) = y1 + v
    BY <1>2, <1>6
  <2>3. (y - y1) * q >= v * (x - x1)
    <3>1. OverChord(k, i)
      <4>1. i \in 0..(bin - 1)
        BY <1>4
      <4> QED
        BY <1>1, <1>6, <4>1 DEF FitInv, FitChords
    <3> QED
      BY <3>1 DEF OverChord
  <2>4. (y1 - y0) * p >= u * (x1 - x0)
    <3>1. k - 1 \in 0..L
      OBVIOUS
    <3> QED
      BY <1>5, <3>1 DEF Supports
  <2>5. ((y1 + v) - y0) * p >= u * ((x1 + q) - x0)
    <3>1. k \in 0..L
      OBVIOUS
    <3> QED
      BY <1>5, <2>2, <3>1 DEF Supports
  <2>6. (K <= k => u * q <= v * p) /\ (k <= K => v * p <= u * q)
    BY <1>1, <1>3
  <2> SUFFICES (y - y0) * p >= u * (x - x0)
    BY DEF Supports
  <2> HIDE DEF u, p, v, q, x0, y0, x1, y1, x, y
  <2>7. CASE K <= k
    <3> DEFINE a == x1 - x0
               b == y1 - y0
               e == x - x1
               f == y - y1
    <3>1. /\ a \in Int /\ b \in Int /\ e \in Nat /\ f \in Int /\ b + f = y - y0 /\ a + e = x - x0
          /\ b * p >= u * a /\ f * q >= v * e
      BY <2>1, <2>2, <2>3, <2>4
    <3> HIDE DEF a, b, e, f
    <3>2. (b + f) * p >= u * (a + e)
      BY <2>1, <2>6, <2>7, <3>1, StepUp
    <3> QED
      BY <3>1, <3>2
  <2>8. CASE k <= K
    <3> DEFINE a == (x1 + q) - x0
               b == (y1 + v) - y0
               e == (x1 + q) - x
               f == (y1 + v) - y
    <3>1. /\ a \in Int /\ b \in Int /\ e \in Nat /\ f \in Int /\ b - f = y - y0 /\ a - e = x - x0
          /\ b * p >= u * a
      BY <2>1, <2>2, <2>5
    <3>2. f * q <= v * e
      <4>1. f * q = v * q - (y - y1) * q /\ v * e = v * q - v * (x - x1)
        BY <2>1
      <4>2. v * q \in Int /\ (y - y1) * q \in Int /\ v * (x - x1) \in Int
        BY <2>1
      <4> QED
        BY <2>3, <4>1, <4>2
    <3> HIDE DEF a, b, e, f
    <3>3. (b - f) * p >= u * (a - e)
      BY <2>1, <2>6, <2>8, <3>1, <3>2, StepBack
    <3> QED
      BY <3>1, <3>3
  <2>9. K \in Int /\ k \in Int
    OBVIOUS
  <2> QED
    BY <2>7, <2>8, <2>9
<1> DEFINE S == {m \in Nat : m <= L => \A i \in 0..BinCount : Counted(i) <= Pooled(m) =>
                                         Supports(K, Counted(i), Won(i))}
<1>7. 0 \in S
  <2> SUFFICES ASSUME NEW i \in 0..BinCount, Counted(i) <= Pooled(0)
               PROVE  Supports(K, Counted(i), Won(i))
    OBVIOUS
  <2>1. Counted(i) = Counted(0) /\ 0 \in 0..BinCount /\ Counted(0) = 0 /\ Won(0) = 0
    BY <1>2, <1>4, TallyTotals DEF FitInv
  <2>2. Won(i) = Won(0)
    BY <2>1, SameCount DEF FitInv
  <2>3. Supports(K, Pooled(0), PooledWins(0)) /\ 0 \in 0..L
    BY <1>5
  <2> QED
    BY <1>2, <2>1, <2>2, <2>3
<1>8. ASSUME NEW m \in Nat, m \in S PROVE m + 1 \in S
  <2> SUFFICES ASSUME m + 1 <= L, NEW i \in 0..BinCount, Counted(i) <= Pooled(m + 1)
               PROVE  Supports(K, Counted(i), Won(i))
    OBVIOUS
  <2>1. m + 1 \in 1..L /\ (m + 1) - 1 = m /\ m <= L /\ m \in 0..L
    OBVIOUS
  <2>2. Counted(i) \in Nat /\ Pooled(m) \in Nat
    BY <1>2, <1>4, <2>1
  <2>3. CASE Counted(i) <= Pooled(m)
    BY <1>8, <2>1, <2>3
  <2>4. CASE Pooled(m) <= Counted(i)
    BY <1>6, <2>1, <2>4
  <2> QED
    BY <2>2, <2>3, <2>4
<1>9. L \in S
  <2> HIDE DEF S
  <2> QED
    BY <1>7, <1>8, EveryNumber
<1>10. ASSUME NEW i \in 0..BinCount PROVE Counted(i) <= Pooled(L)
  <2>1. Pooled(L) = Counted(BinCount)
    BY <1>1, <1>4 DEF FitInv, FitEnds
  <2>2. i <= BinCount /\ BinCount \in 0..BinCount
    BY <1>4
  <2> QED
    BY <2>1, <2>2, TallyTotals DEF FitInv
<1> QED
  BY <1>9, <1>10

\* The block of a bin: the first that ends where the bin does or later.
LEMMA BlockOfBin ==
  ASSUME FitInv, bin = BinCount + 1, NEW i \in 1..BinCount, tally[i].n > 0
  PROVE  /\ BlockOf(i) \in 1..Len(blocks)
         /\ Pooled(BlockOf(i) - 1) < Counted(i) /\ Counted(i) <= Pooled(BlockOf(i))
<1>1. PICK L \in Nat : L = Len(blocks) /\ DOMAIN blocks = 1..L
  BY DEF FitInv, FitTypes
<1>2. /\ \A k \in 0..L : Pooled(k) \in Nat
      /\ Pooled(0) = 0
  BY <1>1, BlockTotals DEF FitInv
<1>3. /\ Counted(i) \in Nat /\ Counted(i) > 0 /\ Counted(i) <= Counted(BinCount)
  <2>1. BinCount \in Nat /\ i \in 0..BinCount /\ i - 1 \in 0..BinCount /\ BinCount \in 0..BinCount /\ i <= BinCount
    BY CalibrationAssumption
  <2>2. Counted(i) \in Nat /\ Counted(i - 1) \in Nat /\ Counted(i) = Counted(i - 1) + tally[i].n
        /\ Counted(i) <= Counted(BinCount)
    BY <2>1, TallyTotals DEF FitInv
  <2>3. tally[i].n \in Nat
    BY DEF FitInv, FitTypes
  <2> QED
    BY <2>2, <2>3
<1>4. Pooled(L) = Counted(BinCount)
  <2>1. bin - 1 = BinCount
    BY CalibrationAssumption
  <2> QED
    BY <1>1, <2>1 DEF FitInv, FitEnds
<1> DEFINE T == {k \in 1..L : Pooled(k) >= Counted(i)}
           is(k) == /\ Pooled(k) >= Counted(i) /\ \A l \in 1..(k - 1) : Pooled(l) < Counted(i)
<1>5. L \in T /\ T \subseteq Nat
  <2>1. L # 0
    BY <1>2, <1>3, <1>4
  <2> QED
    BY <1>3, <1>4, <2>1
<1>6. PICK k \in T : \A l \in T : ~(<<l, k>> \in OpToRel(<, Nat))
  BY <1>5, WFMin, NatLessThanWellFounded
<1>7. \A l \in T : ~(l < k)
  BY <1>5, <1>6 DEF OpToRel
<1>8. k \in 1..L /\ is(k)
  <2>1. ASSUME NEW l \in 1..(k - 1) PROVE Pooled(l) < Counted(i)
    <3>1. l \in 1..L /\ l < k /\ l \in 0..L
      OBVIOUS
    <3>2. ~(Pooled(l) >= Counted(i))
      BY <1>7, <3>1
    <3> QED
      BY <1>2, <1>3, <3>1, <3>2
  <2> QED
    BY <2>1
<1>9. BlockOf(i) = CHOOSE m \in 1..L : is(m)
  BY <1>1 DEF BlockOf, Pooled, Counted
<1> HIDE DEF is
<1>10. BlockOf(i) \in 1..L /\ is(BlockOf(i))
  BY <1>8, <1>9
<1>11. Pooled(BlockOf(i) - 1) < Counted(i)
  <2>1. CASE BlockOf(i) = 1
    BY <1>2, <1>3, <2>1
  <2>2. CASE BlockOf(i) # 1
    <3>1. BlockOf(i) - 1 \in 1..(BlockOf(i) - 1)
      BY <1>10, <2>2
    <3> QED
      BY <1>10, <3>1 DEF is
  <2> QED
    BY <2>1, <2>2
<1>12. Counted(i) <= Pooled(BlockOf(i))
  <2>1. Pooled(BlockOf(i)) >= Counted(i) /\ BlockOf(i) \in 0..L
    BY <1>10 DEF is
  <2> QED
    BY <1>2, <1>3, <2>1
<1> QED
  BY <1>1, <1>10, <1>11, <1>12

\* The bins that are pooled in one block end where it does, or later: a line through the
\* block supports all that was counted, so that it is what the max-min formula gives.
LEMMA FitIsIsotonic == FitInv /\ Fitted => IsIsotonicRegression
<1> SUFFICES ASSUME FitInv, Fitted, NEW i \in 1..BinCount, tally[i].n > 0
             PROVE  /\ \A j \in 1..i : \E k \in i..BinCount : AtMost(j, k, BlockOf(i))
                    /\ \E j \in 1..i : \A k \in i..BinCount : AtLeast(j, k, BlockOf(i))
  BY DEF IsIsotonicRegression
<1>1. BinCount \in Nat /\ bin = BinCount + 1 /\ ~MustPool /\ bin - 1 = BinCount
  BY CalibrationAssumption DEF FitInv, FitTypes, Fitted
<1>2. PICK K \in 1..Len(blocks) :
        K = BlockOf(i) /\ Pooled(K - 1) < Counted(i) /\ Counted(i) <= Pooled(K)
  BY <1>1, BlockOfBin
<1>3. /\ K - 1 \in 0..Len(blocks) /\ K \in 0..Len(blocks) /\ Len(blocks) \in Nat
  BY <1>2 DEF FitInv, FitTypes
<1> DEFINE u == blocks[K].wins
           p == blocks[K].n
           x0 == Pooled(K - 1)
           y0 == PooledWins(K - 1)
<1>4. /\ u \in Nat /\ p \in Nat \ {0} /\ x0 \in Nat /\ y0 \in Nat
      /\ Pooled(K) = x0 + p /\ PooledWins(K) = y0 + u
  BY <1>3, BlockTotals DEF FitInv
<1>5. /\ \A l \in 0..BinCount : Counted(l) \in Nat /\ Won(l) \in Nat
      /\ \A l, m \in 0..BinCount : l <= m => Counted(l) <= Counted(m)
      /\ \A l \in 1..(BinCount + 1), m \in 0..BinCount : l - 1 <= m =>
           /\ Total(tally, l, m, "n") = Counted(m) - Counted(l - 1)
           /\ Total(tally, l, m, "wins") = Won(m) - Won(l - 1)
  BY TallyTotals DEF FitInv
<1>6. \A l \in 0..BinCount : (Won(l) - y0) * p >= u * (Counted(l) - x0)
  BY <1>1, PointsAbove DEF Supports
<1>7. \A k \in 0..Len(blocks) : \E h \in 0..BinCount : Pooled(k) = Counted(h) /\ PooledWins(k) = Won(h)
  BY <1>1 DEF FitInv, FitEnds
<1>8. i \in 0..BinCount /\ i - 1 \in 0..BinCount /\ Counted(i - 1) < Counted(i)
  <2>1. i \in 0..BinCount /\ i - 1 \in 0..BinCount
    BY <1>1
  <2>2. Counted(i) = Counted(i - 1) + tally[i].n /\ tally[i].n \in Nat
    BY TallyTotals DEF FitInv, FitTypes
  <2>3. Counted(i - 1) \in Nat /\ Counted(i) \in Nat
    BY <1>5, <2>1
  <2> QED
    BY <2>1, <2>2, <2>3
<1> HIDE DEF u, p, x0, y0
<1>9. PICK h \in 0..BinCount : x0 + p = Counted(h) /\ y0 + u = Won(h)
  BY <1>3, <1>4, <1>7
<1>10. PICK g \in 0..BinCount : x0 = Counted(g) /\ y0 = Won(g)
  BY <1>3, <1>7 DEF x0, y0
<1>11. h \in i..BinCount
  <2>1. h <= i - 1 => Counted(h) <= Counted(i - 1)
    BY <1>5, <1>8
  <2>2. Counted(h) \in Nat /\ Counted(i) \in Nat /\ Counted(i - 1) \in Nat /\ Counted(i) <= Counted(h)
    BY <1>2, <1>4, <1>5, <1>8, <1>9
  <2> QED
    BY <1>8, <2>1, <2>2
<1>12. g + 1 \in 1..i
  <2>1. i <= g => Counted(i) <= Counted(g)
    BY <1>5, <1>8
  <2>2. Counted(g) \in Nat /\ Counted(i) \in Nat /\ Counted(g) < Counted(i)
    BY <1>2, <1>5, <1>8, <1>10 DEF x0
  <2> QED
    BY <1>8, <2>1, <2>2
<1>13. ASSUME NEW j \in 1..i PROVE AtMost(j, h, K)
  <2> DEFINE a == Counted(j - 1)
             b == Won(j - 1)
  <2>1. j - 1 \in 0..BinCount /\ j \in 1..(BinCount + 1) /\ j - 1 <= h
    BY <1>1, <1>11
  <2>2. a \in Nat /\ b \in Nat /\ (b - y0) * p >= u * (a - x0)
    BY <1>5, <1>6, <2>1
  <2>3. Total(tally, j, h, "n") = (x0 + p) - a /\ Total(tally, j, h, "wins") = (y0 + u) - b
    BY <1>5, <1>9, <2>1
  <2> HIDE DEF a, b
  <2>4. ((y0 + u) - b) * p <= u * ((x0 + p) - a)
    <3>1. ((y0 + u) - b) * p = u * p - (b - y0) * p /\ u * ((x0 + p) - a) = u * p - u * (a - x0)
      BY <1>4, <2>2
    <3>2. u * p \in Int /\ (b - y0) * p \in Int /\ u * (a - x0) \in Int
      BY <1>4, <2>2
    <3> QED
      BY <2>2, <3>1, <3>2
  <2> QED
    BY <2>3, <2>4 DEF AtMost, u, p
<1>14. ASSUME NEW k \in i..BinCount PROVE AtLeast(g + 1, k, K)
  <2>1. k \in 0..BinCount /\ g + 1 \in 1..(BinCount + 1) /\ (g + 1) - 1 = g /\ (g + 1) - 1 <= k
    BY <1>1, <1>12
  <2>2. (Won(k) - y0) * p >= u * (Counted(k) - x0)
    BY <1>6, <2>1
  <2>3. Total(tally, g + 1, k, "n") = Counted(k) - x0 /\ Total(tally, g + 1, k, "wins") = Won(k) - y0
    <3> DEFINE m == g + 1
    <3>1. m \in 1..(BinCount + 1) /\ m - 1 = g /\ m - 1 <= k
      BY <2>1
    <3> HIDE DEF m
    <3>2. Total(tally, m, k, "n") = Counted(k) - x0 /\ Total(tally, m, k, "wins") = Won(k) - y0
      BY <1>5, <1>10, <2>1, <3>1
    <3> QED
      BY <3>2 DEF m
  <2> QED
    BY <2>2, <2>3 DEF AtLeast, u, p
<1> QED
  BY <1>2, <1>11, <1>12, <1>13, <1>14

\* Counts of samples multiply to a denominator that is not 0.
LEMMA Positive == ASSUME NEW a \in Nat \ {0}, NEW b \in Nat \ {0} PROVE a * b \in Nat \ {0}
  OBVIOUS

\* Rounding to the nearest: half a unit up or down.
LEMMA NearestIs ==
  ASSUME NEW a \in Int, NEW d \in Nat \ {0}
  PROVE  /\ Nearest(a, d) \in Int
         /\ Nearest(a, d) * (2 * d) <= 2 * a + d /\ 2 * a + d < (Nearest(a, d) + 1) * (2 * d)
<1> DEFINE x == 2 * a + d
           e == 2 * d
<1>1. x \in Int /\ e \in Nat \ {0}
  OBVIOUS
<1> HIDE DEF x, e
<1>2. x \div e \in Int /\ (x \div e) * e <= x /\ x < ((x \div e) + 1) * e
  BY <1>1
<1> QED
  BY <1>2 DEF Nearest, x, e

\* Of two fractions that are at least a whole number apart, so are the rounded ones.
LEMMA NearestKeepsDistance ==
  ASSUME NEW a \in Int, NEW d \in Nat \ {0}, NEW b \in Int, NEW e \in Nat \ {0}, NEW s \in Nat,
         a * e + s * (d * e) <= b * d
  PROVE  Nearest(a, d) + s <= Nearest(b, e)
<1> DEFINE m == Nearest(a, d)
           n == Nearest(b, e)
<1>1. m \in Int /\ n \in Int /\ m * (2 * d) <= 2 * a + d /\ 2 * b + e < (n + 1) * (2 * e)
  BY NearestIs
<1> SUFFICES ASSUME n + 1 <= m + s PROVE FALSE
  BY <1>1
<1> HIDE DEF m, n
<1>2. e * (m * (2 * d)) <= e * (2 * a + d)
  <2>1. m * (2 * d) \in Int /\ 2 * a + d \in Int
    BY <1>1
  <2> QED
    BY <1>1, <2>1, Scaled
<1>3. d * (2 * b + e + 1) <= d * ((n + 1) * (2 * e))
  <2>1. 2 * b + e + 1 \in Int /\ (n + 1) * (2 * e) \in Int
    BY <1>1
  <2> QED
    BY <1>1, <2>1, Scaled
<1>4. (2 * (d * e)) * (n + 1) <= (2 * (d * e)) * (m + s)
  <2>1. 2 * (d * e) \in Nat
    BY Positive
  <2> QED
    BY <1>1, <2>1, Scaled
<1> DEFINE w == d * e
           z == w * m
           y == w * n
           v == w * s
<1>5. w \in Nat \ {0} /\ z \in Int /\ y \in Int /\ v \in Int
  BY <1>1, Positive
<1>6. /\ e * (m * (2 * d)) = 2 * z /\ e * (2 * a + d) = 2 * (a * e) + w
      /\ d * (2 * b + e + 1) = 2 * (b * d) + w + d /\ d * ((n + 1) * (2 * e)) = 2 * y + 2 * w
      /\ (2 * (d * e)) * (n + 1) = 2 * y + 2 * w /\ (2 * (d * e)) * (m + s) = 2 * z + 2 * v
      /\ s * (d * e) = v
  BY <1>1
<1>7. a * e \in Int /\ b * d \in Int
  OBVIOUS
<1> HIDE DEF w, z, y, v
<1> QED
  BY <1>2, <1>3, <1>4, <1>5, <1>6, <1>7

\* Neighbouring blocks are a bin apart, which is a percent at least, and in order.
LEMMA NeighboursInOrder ==
  ASSUME FitInv, ~MustPool, NEW k \in 1..(Len(blocks) - 1)
  PROVE  Curve[k].mid < Curve[k + 1].mid /\ Curve[k].rate <= Curve[k + 1].rate
<1> DEFINE p == blocks[k].n
           q == blocks[k + 1].n
           m == blocks[k].mids
           o == blocks[k + 1].mids
           u == blocks[k].wins
           v == blocks[k + 1].wins
           B == BinCount
<1>1. Len(blocks) \in Nat /\ k \in 1..Len(blocks) /\ k + 1 \in 1..Len(blocks) /\ DOMAIN blocks = 1..Len(blocks)
  BY DEF FitInv, FitTypes
<1>2. /\ p \in Nat \ {0} /\ q \in Nat \ {0} /\ m \in Nat /\ o \in Nat /\ u \in Nat /\ v \in Nat
  BY <1>1, BlockTotals DEF FitInv
<1>3. u * q <= v * p
  <2>1. k <= k + 1
    OBVIOUS
  <2> QED
    BY <1>1, <2>1, BlocksInOrder
<1>4. PICK h \in 1..B : m <= (2 * h - 1) * p /\ (2 * h + 1) * q <= o
  BY DEF FitInv, FitMids
<1>5. B \in 1..100
  BY CalibrationAssumption
<1>6. /\ Curve[k].mid = Nearest(100 * m, 2 * B * p) /\ Curve[k + 1].mid = Nearest(100 * o, 2 * B * q)
      /\ Curve[k].rate = Nearest(100 * u, p) /\ Curve[k + 1].rate = Nearest(100 * v, q)
  BY <1>1 DEF Curve
<1> HIDE DEF p, q, m, o, u, v, B
<1>7. Nearest(100 * u, p) + 0 <= Nearest(100 * v, q)
  <2>1. (100 * u) * q = 100 * (u * q) /\ (100 * v) * p = 100 * (v * p) /\ 0 * (p * q) = 0
    BY <1>2
  <2>2. u * q \in Int /\ v * p \in Int
    BY <1>2
  <2>3. (100 * u) * q + 0 * (p * q) <= (100 * v) * p
    BY <1>3, <2>1, <2>2
  <2>4. 100 * u \in Int /\ 100 * v \in Int
    BY <1>2
  <2> QED
    BY <1>2, <2>3, <2>4, NearestKeepsDistance
<1>8. Nearest(100 * m, 2 * B * p) + 1 <= Nearest(100 * o, 2 * B * q)
  <2> DEFINE w == p * q
             c == B * w
             x == h * c
             y == B * c
  <2>1. w \in Nat \ {0} /\ c \in Nat \ {0}
    BY <1>2, <1>5, Positive
  <2>2. x \in Int /\ y \in Int
    BY <2>1, <1>5
  <2>3. q * m <= q * ((2 * h - 1) * p) /\ p * ((2 * h + 1) * q) <= p * o
    <3>1. (2 * h - 1) * p \in Int /\ (2 * h + 1) * q \in Int
      BY <1>2, <1>5
    <3> QED
      BY <1>2, <1>4, <3>1, Scaled
  <2>4. q * ((2 * h - 1) * p) = (2 * h - 1) * w /\ p * ((2 * h + 1) * q) = (2 * h + 1) * w
    BY <1>2, <1>5
  <2> DEFINE f == q * m
             g == p * o
  <2>5. f \in Int /\ g \in Int /\ (2 * h - 1) * w \in Int /\ (2 * h + 1) * w \in Int
    BY <1>2, <2>1, <1>5
  <2>6. B * f <= B * ((2 * h - 1) * w) /\ B * ((2 * h + 1) * w) <= B * g
    BY <1>5, <2>3, <2>4, <2>5, Scaled
  <2>7. B * ((2 * h - 1) * w) = 2 * x - c /\ B * ((2 * h + 1) * w) = 2 * x + c
    BY <1>2, <1>5
  <2>8. y <= 100 * c
    <3>1. c * B <= c * 100
      BY <1>5, <2>1, Scaled
    <3> QED
      BY <1>5, <2>1, <3>1
  <2>9. /\ (100 * m) * (2 * B * q) = 200 * (B * f) /\ (100 * o) * (2 * B * p) = 200 * (B * g)
        /\ (2 * B * p) * (2 * B * q) = 4 * y
    BY <1>2, <1>5
  <2>10. B * f \in Int /\ B * g \in Int
    BY <2>5, <1>5
  <2>11. 2 * B * p \in Nat \ {0} /\ 2 * B * q \in Nat \ {0}
    BY <1>2, <1>5, Positive
  <2>12. 200 * (B * f) + 4 * y <= 200 * (B * g)
    <3> DEFINE i == B * f
               j == B * g
    <3>1. i <= 2 * x - c /\ 2 * x + c <= j /\ i \in Int /\ j \in Int
      BY <2>6, <2>7, <2>10
    <3> HIDE DEF i, j, x, y, c
    <3>2. 200 * i + 4 * y <= 200 * j
      BY <2>1, <2>2, <2>8, <3>1
    <3> QED
      BY <3>2 DEF i, j
  <2> HIDE DEF f, g, w, c, x, y
  <2>13. (100 * m) * (2 * B * q) + 1 * ((2 * B * p) * (2 * B * q)) <= (100 * o) * (2 * B * p)
    <3>1. 1 * ((2 * B * p) * (2 * B * q)) = 4 * y
      BY <2>9, <2>2
    <3> QED
      BY <2>9, <2>12, <3>1
  <2>14. 100 * m \in Int /\ 100 * o \in Int
    BY <1>2
  <2> QED
    BY <2>11, <2>13, <2>14, NearestKeepsDistance
<1>9. /\ Nearest(100 * u, p) \in Int /\ Nearest(100 * v, q) \in Int
      /\ Nearest(100 * m, 2 * B * p) \in Int /\ Nearest(100 * o, 2 * B * q) \in Int
  <2>1. 2 * B * p \in Nat \ {0} /\ 2 * B * q \in Nat \ {0}
    BY <1>2, <1>5, Positive
  <2>2. 100 * u \in Int /\ 100 * v \in Int /\ 100 * m \in Int /\ 100 * o \in Int
    BY <1>2
  <2> QED
    BY <1>2, <2>1, <2>2, NearestIs
<1> QED
  BY <1>6, <1>7, <1>8, <1>9

\* Bins that Apply can read between: mids that rise and rates that do not fall.
InOrder(bins, n) ==
  /\ Len(bins) = n /\ (bins # <<>> => n > 0)
  /\ \A k \in 1..n : bins[k].mid \in Int /\ bins[k].rate \in Int
  /\ \A k, l \in 1..n : k <= l => bins[k].rate <= bins[l].rate
  /\ \A k, l \in 1..n : k < l => bins[k].mid < bins[l].mid

\* The curve a fit stores is one: its mids rise and its rates do not fall, as round2 leaves them.
LEMMA CurveInOrder ==
  ASSUME FitInv, ~MustPool
  PROVE  InOrder(Curve, Len(blocks))
<1>1. PICK L \in Nat : L = Len(blocks) /\ DOMAIN blocks = 1..L
  BY DEF FitInv, FitTypes
<1>2. ASSUME NEW k \in 1..L PROVE Curve[k].mid \in Int /\ Curve[k].rate \in Int
  <2>1. blocks[k].n \in Nat \ {0} /\ blocks[k].wins \in Nat /\ blocks[k].mids \in Nat
    BY <1>1, BlockTotals DEF FitInv
  <2>2. 2 * BinCount * blocks[k].n \in Nat \ {0}
    BY <2>1, CalibrationAssumption, Positive
  <2>3. 100 * blocks[k].mids \in Int /\ 100 * blocks[k].wins \in Int
    BY <2>1
  <2>4. /\ Curve[k].mid = Nearest(100 * blocks[k].mids, 2 * BinCount * blocks[k].n)
        /\ Curve[k].rate = Nearest(100 * blocks[k].wins, blocks[k].n)
    BY <1>1 DEF Curve
  <2> QED
    BY <2>1, <2>2, <2>3, <2>4, NearestIs
<1>3. \A k \in 1..(L - 1) : Curve[k].mid < Curve[k + 1].mid /\ Curve[k].rate <= Curve[k + 1].rate
  BY <1>1, NeighboursInOrder
<1>4. Len(Curve) = L /\ (Curve # <<>> => L > 0)
  <2>1. L = 0 => Curve = <<>>
    BY <1>1 DEF Curve
  <2> QED
    BY <1>1, <2>1 DEF Curve
<1> HIDE DEF Curve
<1> DEFINE r == [k \in 0..L |-> IF k = 0 THEN Curve[1].rate ELSE Curve[k].rate]
           d == [k \in 0..L |-> IF k = 0 THEN Curve[1].mid - 1 ELSE Curve[k].mid - k]
<1>5. CASE L = 0
  BY <1>1, <1>4, <1>5 DEF InOrder
<1>6. CASE L # 0
  <2>1. 1 \in 1..L
    BY <1>6
  <2>2. ASSUME NEW k \in 1..L
        PROVE  r[k - 1] <= r[k] /\ d[k - 1] <= d[k]
    <3>1. CASE k = 1
      BY <1>2, <3>1
    <3>2. CASE k # 1
      <4> DEFINE j == k - 1
      <4>1. j \in 1..(L - 1) /\ j \in 1..L /\ j \in 0..L /\ k \in 0..L /\ j # 0 /\ k # 0 /\ k = j + 1
        BY <3>2
      <4>2. r[j] = Curve[j].rate /\ r[k] = Curve[k].rate /\ d[j] = Curve[j].mid - j /\ d[k] = Curve[k].mid - k
        BY <4>1
      <4>3. Curve[j].mid < Curve[k].mid /\ Curve[j].rate <= Curve[k].rate
        BY <1>3, <4>1
      <4>4. Curve[j].mid \in Int /\ Curve[k].mid \in Int
        BY <1>2, <4>1
      <4> HIDE DEF r, d, j
      <4> QED
        BY <4>1, <4>2, <4>3, <4>4 DEF j
    <3> QED
      BY <3>1, <3>2
  <2>3. \A k \in 0..L : r[k] \in Int /\ d[k] \in Int
    <3> SUFFICES ASSUME NEW k \in 0..L PROVE r[k] \in Int /\ d[k] \in Int
      OBVIOUS
    <3>1. k = 0 \/ k \in 1..L
      OBVIOUS
    <3> QED
      BY <1>2, <2>1, <3>1
  <2>4. \A k \in 1..L : r[k] = Curve[k].rate /\ d[k] = Curve[k].mid - k /\ k \in 0..L
    OBVIOUS
  <2> HIDE DEF r, d
  <2>5. (\A k, l \in 0..L : k <= l => r[k] <= r[l]) /\ (\A k, l \in 0..L : k <= l => d[k] <= d[l])
    <3>1. \A k, l \in 0..L : k <= l => r[k] <= r[l]
      BY <2>2, <2>3, NeverFalls
    <3>2. \A k, l \in 0..L : k <= l => d[k] <= d[l]
      BY <2>2, <2>3, NeverFalls
    <3> QED
      BY <3>1, <3>2
  <2>6. \A k, l \in 1..L : k <= l => Curve[k].rate <= Curve[l].rate
    BY <2>4, <2>5
  <2>7. ASSUME NEW k \in 1..L, NEW l \in 1..L, k < l PROVE Curve[k].mid < Curve[l].mid
    <3>1. Curve[k].mid - k <= Curve[l].mid - l
      <4>1. k <= l
        BY <2>7
      <4> QED
        BY <2>4, <2>5, <4>1
    <3>2. Curve[k].mid \in Int /\ Curve[l].mid \in Int
      BY <1>2
    <3> QED
      BY <2>7, <3>1, <3>2
  <2> QED
    BY <1>1, <1>2, <1>4, <2>6, <2>7 DEF InOrder
<1> QED
  BY <1>5, <1>6

\* A value between two bins.
Between(bins, i, c) ==
  <<bins[i - 1].rate * (bins[i].mid - bins[i - 1].mid)
      + (c - bins[i - 1].mid) * (bins[i].rate - bins[i - 1].rate),
    bins[i].mid - bins[i - 1].mid>>

\* The four things Apply may return.
LEMMA ApplyIs ==
  ASSUME NEW bins, NEW n \in Nat, InOrder(bins, n), NEW c \in Int
  PROVE  \/ bins = <<>> /\ Apply(bins, c) = <<c, 1>>
         \/ bins # <<>> /\ c <= bins[1].mid /\ Apply(bins, c) = <<bins[1].rate, 1>>
         \/ /\ bins # <<>> /\ c > bins[1].mid /\ c >= bins[n].mid
            /\ Apply(bins, c) = <<bins[n].rate, 1>>
         \/ \E i \in 2..n : /\ bins # <<>> /\ bins[i - 1].mid < c /\ c <= bins[i].mid /\ c < bins[n].mid
                            /\ Apply(bins, c) = Between(bins, i, c)
<1>1. /\ Len(bins) = n /\ \A k \in 1..n : bins[k].mid \in Int /\ bins[k].rate \in Int
      /\ \A k, l \in 1..n : k < l => bins[k].mid < bins[l].mid
  BY DEF InOrder
<1>2. CASE bins = <<>>
  BY <1>2 DEF Apply
<1>0. bins # <<>> => n \in 1..n /\ 1 \in 1..n
  BY DEF InOrder
<1>3. CASE bins # <<>> /\ c <= bins[1].mid
  <2>1. CASE c >= bins[n].mid
    <3>1. n = 1
      BY <1>0, <1>1, <1>3, <2>1
    <3> QED
      BY <1>1, <1>3, <3>1 DEF Apply
  <2>2. CASE ~(c >= bins[n].mid)
    BY <1>1, <1>3, <2>2 DEF Apply
  <2> QED
    BY <2>1, <2>2
<1>4. CASE bins # <<>> /\ ~(c <= bins[1].mid) /\ c >= bins[n].mid
  <2>1. Apply(bins, c) = <<bins[n].rate, 1>>
    BY <1>1, <1>4 DEF Apply
  <2>2. bins[1].mid \in Int
    BY <1>0, <1>1, <1>4
  <2> QED
    BY <1>4, <2>1, <2>2
<1>5. CASE bins # <<>> /\ ~(c <= bins[1].mid) /\ ~(c >= bins[n].mid)
  <2> DEFINE is(k) == c <= bins[k].mid /\ \A l \in 2..(k - 1) : c > bins[l].mid
             i == CHOOSE k \in 2..n : is(k)
             T == {k \in 2..n : c <= bins[k].mid}
  <2>1. Apply(bins, c) = Between(bins, i, c)
    BY <1>1, <1>5 DEF Apply, Between
  <2>2. n \in T /\ T \subseteq Nat
    BY <1>1, <1>5
  <2>3. PICK k \in T : \A l \in T : ~(<<l, k>> \in OpToRel(<, Nat))
    BY <2>2, WFMin, NatLessThanWellFounded
  <2>4. \A l \in T : ~(l < k)
    BY <2>2, <2>3 DEF OpToRel
  <2>5. k \in 2..n /\ is(k)
    <3>1. ASSUME NEW l \in 2..(k - 1) PROVE c > bins[l].mid
      <4>1. l \in 2..n /\ l \in 1..n /\ l < k
        OBVIOUS
      <4>2. ~(c <= bins[l].mid) /\ bins[l].mid \in Int
        BY <1>1, <2>4, <4>1
      <4> QED
        BY <4>2
    <3> QED
      BY <3>1
  <2> HIDE DEF is
  <2>6. i \in 2..n /\ is(i)
    BY <2>5
  <2> HIDE DEF i
  <2>7. i \in 1..n /\ n \in 1..n /\ 1 \in 1..n
    BY <2>6
  <2>8. bins[i - 1].mid < c
    <3>1. CASE i = 2
      <4>1. bins[1].mid \in Int
        BY <1>1, <2>7
      <4> QED
        BY <1>5, <3>1, <4>1
    <3>2. CASE i # 2
      <4>1. i - 1 \in 2..(i - 1) /\ i - 1 \in 1..n
        BY <2>6, <3>2
      <4>2. c > bins[i - 1].mid /\ bins[i - 1].mid \in Int
        BY <1>1, <2>6, <4>1 DEF is
      <4> QED
        BY <4>2
    <3> QED
      BY <3>1, <3>2
  <2>9. c <= bins[i].mid /\ c < bins[n].mid
    <3>1. bins[n].mid \in Int
      BY <1>1, <2>7
    <3> QED
      BY <1>5, <2>6, <3>1 DEF is
  <2> QED
    BY <1>5, <2>1, <2>6, <2>8, <2>9
<1> QED
  BY <1>2, <1>3, <1>4, <1>5

\* A value between two bins has a rate between theirs.
LEMMA BetweenBounds ==
  ASSUME NEW r \in Int, NEW s \in Int, r <= s, NEW d \in Nat \ {0}, NEW x \in Nat, x <= d
  PROVE  /\ r * d + x * (s - r) \in Int
         /\ r * d <= r * d + x * (s - r) /\ r * d + x * (s - r) <= s * d
<1>1. s - r \in Nat
  OBVIOUS
<1>2. (s - r) * x <= (s - r) * d /\ (s - r) * 0 <= (s - r) * x
  BY <1>1, Scaled
<1>3. (s - r) * x = x * (s - r) /\ (s - r) * d = s * d - r * d /\ (s - r) * 0 = 0
  OBVIOUS
<1>4. x * (s - r) \in Int /\ r * d \in Int /\ s * d \in Int
  OBVIOUS
<1> QED
  BY <1>2, <1>3, <1>4

\* Apply keeps the order of any two confidences, whatever the curve.
LEMMA ApplyKeepsOrder ==
  ASSUME NEW bins, NEW n \in Nat, InOrder(bins, n), NEW c \in Int, NEW e \in Int, c <= e
  PROVE  Apply(bins, c)[1] * Apply(bins, e)[2] <= Apply(bins, e)[1] * Apply(bins, c)[2]
<1> DEFINE p == Apply(bins, c)
           q == Apply(bins, e)
           mid(k) == bins[k].mid
           rate(k) == bins[k].rate
           low(x) == x <= mid(1)
           high(x) == x > mid(1) /\ x >= mid(n)
           at(i, x) == mid(i - 1) < x /\ x <= mid(i) /\ x < mid(n)
           span(i) == mid(i) - mid(i - 1)
           num(i, x) == rate(i - 1) * span(i) + (x - mid(i - 1)) * (rate(i) - rate(i - 1))
<1>1. /\ Len(bins) = n /\ \A k \in 1..n : mid(k) \in Int /\ rate(k) \in Int
      /\ \A k, l \in 1..n : k <= l => rate(k) <= rate(l)
      /\ \A k, l \in 1..n : k < l => mid(k) < mid(l)
  BY DEF InOrder
<1>2. \/ bins = <<>> /\ p = <<c, 1>>
      \/ bins # <<>> /\ low(c) /\ p = <<rate(1), 1>>
      \/ bins # <<>> /\ high(c) /\ p = <<rate(n), 1>>
      \/ bins # <<>> /\ \E i \in 2..n : at(i, c) /\ p = <<num(i, c), span(i)>>
  BY ApplyIs DEF Between
<1>3. \/ bins = <<>> /\ q = <<e, 1>>
      \/ bins # <<>> /\ low(e) /\ q = <<rate(1), 1>>
      \/ bins # <<>> /\ high(e) /\ q = <<rate(n), 1>>
      \/ bins # <<>> /\ \E i \in 2..n : at(i, e) /\ q = <<num(i, e), span(i)>>
  BY ApplyIs DEF Between
<1>4. CASE bins = <<>>
  BY <1>2, <1>3, <1>4
<1>5. ASSUME bins # <<>>
      PROVE  p[1] * q[2] <= q[1] * p[2]
  <2>1. n \in 1..n /\ 1 \in 1..n /\ \A i \in 2..n : i \in 1..n /\ i - 1 \in 1..n /\ i - 1 < i
    BY <1>5 DEF InOrder
  <2>2. \A k, l \in 1..n : k <= l => mid(k) <= mid(l)
    <3> HIDE DEF mid
    <3> SUFFICES ASSUME NEW k \in 1..n, NEW l \in 1..n, k <= l PROVE mid(k) <= mid(l)
      OBVIOUS
    <3>1. CASE k = l
      BY <1>1, <3>1
    <3>2. CASE k # l
      <4>1. k < l
        BY <3>2
      <4> QED
        BY <1>1, <4>1
    <3> QED
      BY <3>1, <3>2
  <2>3. ASSUME NEW i \in 2..n, NEW x \in Int, at(i, x)
        PROVE  /\ span(i) \in Nat \ {0} /\ num(i, x) \in Int
               /\ rate(i - 1) * span(i) <= num(i, x) /\ num(i, x) <= rate(i) * span(i)
               /\ rate(i - 1) \in Int /\ rate(i) \in Int /\ mid(i - 1) \in Int /\ mid(i) \in Int
    <3>1. /\ rate(i - 1) \in Int /\ rate(i) \in Int /\ mid(i - 1) \in Int /\ mid(i) \in Int
          /\ rate(i - 1) <= rate(i)
      BY <1>1, <2>1
    <3> HIDE DEF mid, rate
    <3>2. span(i) \in Nat \ {0} /\ x - mid(i - 1) \in Nat /\ x - mid(i - 1) <= span(i)
      BY <2>3, <3>1
    <3> HIDE DEF span
    <3> QED
      BY <3>1, <3>2, BetweenBounds
  <2> HIDE DEF p, q
  <2>4. CASE low(c) /\ p = <<rate(1), 1>>
    <3>1. rate(1) \in Int /\ rate(n) \in Int /\ rate(1) <= rate(n) /\ p[1] = rate(1) /\ p[2] = 1
      BY <1>1, <2>1, <2>4
    <3>2. CASE q = <<rate(1), 1>>
      BY <3>1, <3>2
    <3>3. CASE q = <<rate(n), 1>>
      BY <3>1, <3>3
    <3>4. ASSUME NEW i \in 2..n, at(i, e), q = <<num(i, e), span(i)>>
          PROVE  p[1] * q[2] <= q[1] * p[2]
      <4>1. /\ span(i) \in Nat \ {0} /\ num(i, e) \in Int
            /\ rate(i - 1) * span(i) <= num(i, e) /\ rate(i - 1) \in Int
        BY <2>3, <3>4
      <4>2. rate(1) <= rate(i - 1)
        <5>1. i - 1 \in 1..n /\ 1 <= i - 1
          BY <2>1
        <5> QED
          BY <1>1, <2>1, <5>1
      <4>3. q[1] = num(i, e) /\ q[2] = span(i)
        BY <3>4
      <4> HIDE DEF rate, span, num
      <4>4. span(i) * rate(1) <= span(i) * rate(i - 1)
        BY <3>1, <4>1, <4>2, Scaled
      <4>5. span(i) * rate(1) = rate(1) * span(i) /\ span(i) * rate(i - 1) = rate(i - 1) * span(i)
        BY <3>1, <4>1
      <4>6. rate(1) * span(i) \in Int /\ rate(i - 1) * span(i) \in Int
        BY <3>1, <4>1
      <4> QED
        BY <3>1, <4>1, <4>3, <4>4, <4>5, <4>6
    <3> QED
      BY <1>3, <1>5, <3>2, <3>3, <3>4
  <2>5. CASE high(c) /\ p = <<rate(n), 1>>
    <3>1. mid(1) \in Int /\ mid(n) \in Int /\ rate(n) \in Int
      BY <1>1, <2>1
    <3> HIDE DEF mid
    <3>2. ~low(e)
      BY <1>5, <2>5, <3>1
    <3>3. ~\E i \in 2..n : at(i, e)
      BY <2>5, <3>1
    <3>4. q = <<rate(n), 1>>
      BY <1>3, <1>5, <3>2, <3>3 DEF mid
    <3> QED
      BY <2>5, <3>1, <3>4
  <2>6. ASSUME NEW j \in 2..n, at(j, c), p = <<num(j, c), span(j)>>
        PROVE  p[1] * q[2] <= q[1] * p[2]
    <3>1. /\ span(j) \in Nat \ {0} /\ num(j, c) \in Int /\ num(j, c) <= rate(j) * span(j)
          /\ rate(j) \in Int /\ mid(j - 1) \in Int /\ mid(j) \in Int
      BY <2>3, <2>6
    <3>2. j \in 1..n /\ j - 1 \in 1..n /\ mid(1) \in Int /\ mid(1) <= mid(j - 1)
      <4>1. j \in 1..n /\ j - 1 \in 1..n /\ 1 <= j - 1
        BY <2>1
      <4> QED
        BY <1>1, <2>1, <2>2, <4>1
    <3>3. p[1] = num(j, c) /\ p[2] = span(j)
      BY <2>6
    <3>4. ~low(e)
      <4> HIDE DEF mid
      <4> QED
        BY <2>6, <3>1, <3>2
    <3>5. CASE q = <<rate(n), 1>>
      <4>1. rate(n) \in Int /\ rate(j) <= rate(n)
        <5>1. j <= n
          OBVIOUS
        <5> QED
          BY <1>1, <2>1, <3>2, <5>1
      <4>2. q[1] = rate(n) /\ q[2] = 1
        BY <3>5
      <4> HIDE DEF rate, span, num
      <4>3. span(j) * rate(j) <= span(j) * rate(n)
        BY <3>1, <4>1, Scaled
      <4>4. span(j) * rate(j) = rate(j) * span(j) /\ span(j) * rate(n) = rate(n) * span(j)
        BY <3>1, <4>1
      <4>5. rate(j) * span(j) \in Int /\ rate(n) * span(j) \in Int
        BY <3>1, <4>1
      <4> QED
        BY <3>1, <3>3, <4>2, <4>3, <4>4, <4>5
    <3>6. ASSUME NEW i \in 2..n, at(i, e), q = <<num(i, e), span(i)>>
          PROVE  p[1] * q[2] <= q[1] * p[2]
      <4>1. /\ span(i) \in Nat \ {0} /\ num(i, e) \in Int
            /\ rate(i - 1) * span(i) <= num(i, e)
            /\ rate(i - 1) \in Int /\ rate(i) \in Int /\ mid(i - 1) \in Int /\ mid(i) \in Int
        BY <2>3, <3>6
      <4>2. q[1] = num(i, e) /\ q[2] = span(i) /\ i \in 1..n /\ i - 1 \in 1..n
        BY <2>1, <3>6
      <4>3. CASE i = j
        <5> DEFINE d == span(j)
                   a == num(j, c)
                   b == num(j, e)
        <5>1. rate(j - 1) \in Int /\ rate(j - 1) <= rate(j)
          BY <1>1, <3>2
        <5>2. a <= b
          <6> HIDE DEF rate, mid, span
          <6>1. (rate(j) - rate(j - 1)) * (c - mid(j - 1)) <= (rate(j) - rate(j - 1)) * (e - mid(j - 1))
            BY <3>1, <5>1, Scaled
          <6>2. /\ (rate(j) - rate(j - 1)) * (c - mid(j - 1)) = (c - mid(j - 1)) * (rate(j) - rate(j - 1))
                /\ (rate(j) - rate(j - 1)) * (e - mid(j - 1)) = (e - mid(j - 1)) * (rate(j) - rate(j - 1))
            BY <3>1, <5>1
          <6> DEFINE g == (c - mid(j - 1)) * (rate(j) - rate(j - 1))
                     h == (e - mid(j - 1)) * (rate(j) - rate(j - 1))
                     o == rate(j - 1) * span(j)
          <6>3. g \in Int /\ h \in Int /\ o \in Int /\ g <= h /\ a = o + g /\ b = o + h
            BY <3>1, <5>1, <6>1, <6>2
          <6> HIDE DEF g, h, o, a, b
          <6> QED
            BY <6>3
        <5>3. a \in Int /\ b \in Int /\ d \in Nat
          BY <3>1, <4>1, <4>3
        <5>4. p[1] = a /\ p[2] = d /\ q[1] = b /\ q[2] = d
          BY <3>3, <4>2, <4>3
        <5> HIDE DEF a, b, d
        <5>5. d * a <= d * b /\ d * a = a * d /\ d * b = b * d
          BY <5>2, <5>3, Scaled
        <5> QED
          BY <5>4, <5>5
      <4>4. CASE i < j
        <5>1. mid(i) <= mid(j - 1)
          <6>1. i <= j - 1
            BY <4>4
          <6> QED
            BY <2>2, <3>2, <4>2, <6>1
        <5> HIDE DEF mid
        <5> QED
          BY <2>6, <3>1, <3>6, <4>1, <5>1
      <4>5. CASE j < i
        <5>1. rate(j) <= rate(i - 1)
          <6>1. j <= i - 1
            BY <4>5
          <6> QED
            BY <1>1, <3>2, <4>2, <6>1
        <5> DEFINE a == num(j, c)
                   b == num(i, e)
                   d == span(j)
                   f == span(i)
                   r == rate(j)
                   s == rate(i - 1)
        <5>2. /\ a \in Int /\ b \in Int /\ d \in Nat \ {0} /\ f \in Nat \ {0} /\ r \in Int /\ s \in Int
              /\ a <= r * d /\ s * f <= b /\ r <= s
          BY <3>1, <4>1, <5>1
        <5>3. p[1] = a /\ p[2] = d /\ q[1] = b /\ q[2] = f
          BY <3>3, <4>2
        <5> HIDE DEF a, b, d, f, r, s
        <5>4. f * a <= f * (r * d) /\ d * (s * f) <= d * b
          <6>1. r * d \in Int /\ s * f \in Int
            BY <5>2
          <6> QED
            BY <5>2, <6>1, Scaled
        <5>5. (d * f) * r <= (d * f) * s
          BY <5>2, Positive, Scaled
        <5>6. /\ f * (r * d) = (d * f) * r /\ d * (s * f) = (d * f) * s
              /\ f * a = a * f /\ d * b = b * d
          BY <5>2
        <5>7. (d * f) * r \in Int /\ (d * f) * s \in Int /\ a * f \in Int /\ b * d \in Int
          BY <5>2
        <5> QED
          BY <5>3, <5>4, <5>5, <5>6, <5>7
      <4> QED
        BY <4>3, <4>4, <4>5
    <3> QED
      BY <1>3, <1>5, <3>4, <3>5, <3>6
  <2> QED
    BY <1>2, <1>5, <2>4, <2>5, <2>6
<1> QED
  BY <1>4, <1>5

\* What the curve says of the confidences of a plan keeps their order.
LEMMA CurveKeepsOrder == FitInv /\ Fitted => KeepsOrder
<1> SUFFICES ASSUME FitInv, Fitted PROVE KeepsOrder
  OBVIOUS
<1>1. PICK n \in Nat : n = Len(blocks)
  BY DEF FitInv, FitTypes
<1>2. InOrder(Curve, n)
  BY <1>1, CurveInOrder DEF Fitted
<1>3. \A k \in 1..(Len(Curve) - 1) : Curve[k].mid < Curve[k + 1].mid
  <2>1. Len(Curve) = n
    BY <1>2 DEF InOrder
  <2> SUFFICES ASSUME NEW k \in 1..(n - 1) PROVE Curve[k].mid < Curve[k + 1].mid
    BY <2>1
  <2>2. k \in 1..n /\ k + 1 \in 1..n /\ k < k + 1
    OBVIOUS
  <2> QED
    BY <1>2, <2>2 DEF InOrder
<1>4. ASSUME NEW c \in {10 * k : k \in 0..9}
      PROVE  Apply(Curve, c)[1] * Apply(Curve, c + 10)[2] <= Apply(Curve, c + 10)[1] * Apply(Curve, c)[2]
  <2>1. c \in Int /\ c + 10 \in Int /\ c <= c + 10
    OBVIOUS
  <2> QED
    BY <1>2, <2>1, ApplyKeepsOrder
<1> QED
  BY <1>3, <1>4 DEF KeepsOrder

\* FitCalibration pools neighbouring blocks while they are out of order (calibrate.go:85-90).
\* For any tally, every bin ends with the rate that the max-min formula of isotonic regression
\* gives it, and after round2 Apply still keeps the order of the stated confidences: the
\* successes counted over the samples never fall below the chord of a block, and once the
\* chords are in order each of them extends to a line below the whole of the count.
THEOREM CurveTheorem == CalibrationSpec => []CurveIsFaithful
<1>1. CalibrationInit => FitInv
  BY FitInit
<1>2. FitInv /\ [CalibrationNext]_calibrationVars => FitInv'
  <2> SUFFICES ASSUME FitInv, [CalibrationNext]_calibrationVars PROVE FitInv'
    OBVIOUS
  <2>1. CASE AddBin
    BY <2>1, SkipKeeps, GrowKeeps
  <2>2. CASE Pool
    BY <2>2, PoolKeeps
  <2>3. CASE UNCHANGED calibrationVars
    <3>1. tally' = tally /\ bin' = bin /\ blocks' = blocks
      BY <2>3 DEF calibrationVars
    <3> QED
      BY <3>1 DEF FitInv, FitTypes, FitEnds, FitChords, OverChord, FitSorted, Above, FitMids,
                  Counted, Won, Pooled, PooledWins
  <2> QED
    BY <2>1, <2>2, <2>3 DEF CalibrationNext
<1>3. FitInv => CurveIsFaithful
  BY FitIsIsotonic, CurveKeepsOrder DEF CurveIsFaithful
<1> QED
  BY <1>1, <1>2, <1>3, PTL DEF CalibrationSpec
=============================================================================
