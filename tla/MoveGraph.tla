------------------------------ MODULE MoveGraph ------------------------------
(***************************************************************************)
(* SanitizeMoveGraph (internal/domain/move_graph.go): whatever dependency  *)
(* graph a planner's moves carry, every stored plan version holds a DAG.   *)
(*                                                                         *)
(* A move is its key and the keys it depends on.  The first pass is an     *)
(* operator; the depth-first search that breaks cycles is a machine with   *)
(* an explicit stack.  An edge of a move is a dependency and one of the    *)
(* moves that carry it as their key: a planner may give two moves one key. *)
(***************************************************************************)
EXTENDS Integers, Sequences, FiniteSets

CONSTANTS MoveKeys,  \* the keys moves carry and refer to; NoKey is one of them
          NoKey,     \* the empty key
          MaxMoves,  \* model bound: the moves of a plan
          MaxDeps    \* model bound: the length of a DependsOn list

ASSUME GraphAssumption == MaxMoves \in Nat /\ MaxDeps \in Nat /\ NoKey \in MoveKeys

VARIABLES
  moves,    \* out: the moves after the first pass
  color,    \* color: "white", "gray" or "black"
  rest,     \* the edges a visit has yet to look at
  stack,    \* the moves being visited, innermost last
  removed,  \* remove: the <<move, dependency>> pairs that close a cycle
  order     \* history, for the properties: the moves in the order their visits ended

graphVars == <<moves, color, rest, stack, removed, order>>

Lists(S, n) == UNION {[1..k -> S] : k \in 0..n}
\* keyToIndices: the moves a dependency may refer to.
Carriers(ms, dep) == IF dep = NoKey THEN {} ELSE {j \in DOMAIN ms : ms[j].key = dep}

\* Pass 1 on move i with dependencies ds: empty, self, dangling and repeated ones go.
Useful(keys, i, ds, n) ==
  /\ ds[n] \notin {NoKey, keys[i]} /\ \E j \in DOMAIN keys : keys[j] = ds[n]
  /\ \A k \in 1..(n - 1) : ds[k] # ds[n]

Pruned(keys, i, ds) ==
  LET kept[n \in 0..Len(ds)] ==
        IF n = 0 THEN <<>>
        ELSE IF Useful(keys, i, ds, n) THEN Append(kept[n - 1], ds[n]) ELSE kept[n - 1]
  IN  kept[Len(ds)]

\* The moves after the first pass, whatever dependencies they came with.
Plans(keys) ==
  LET moved(i) == {[key |-> keys[i], deps |-> Pruned(keys, i, ds)] : ds \in Lists(MoveKeys, MaxDeps)}
  IN  {ms \in [DOMAIN keys -> UNION {moved(i) : i \in DOMAIN keys}] : \A i \in DOMAIN keys : ms[i] \in moved(i)}

\* What visit(i) looks at, and in which order: the dependencies as they are listed and,
\* for each, the moves that carry it from the first to the last.
Edges(ms, i) ==
  UNION {{<<ms[i].deps[n], j>> : j \in Carriers(ms, ms[i].deps[n])} : n \in DOMAIN ms[i].deps}

Precedes(ms, i, e, f) ==
  IF e[1] = f[1] THEN e[2] < f[2]
  ELSE \E n \in DOMAIN ms[i].deps : ms[i].deps[n] = e[1] /\ \A k \in 1..n : ms[i].deps[k] # f[1]

GraphInit ==
  /\ \E keys \in Lists(MoveKeys, MaxMoves) : moves \in Plans(keys)
  /\ color = [i \in DOMAIN moves |-> "white"]
  /\ rest = [i \in DOMAIN moves |-> {}]
  /\ stack = <<>> /\ removed = {} /\ order = <<>>

\* visit(i): the move turns gray and its edges are looked at.
Visit(i) ==
  /\ color' = [color EXCEPT ![i] = "gray"]
  /\ rest' = [rest EXCEPT ![i] = Edges(moves, i)]
  /\ stack' = Append(stack, i)
  /\ UNCHANGED <<moves, removed, order>>

\* The loop over the moves starts at the first white one.
Start ==
  /\ stack = <<>>
  /\ \E i \in DOMAIN moves :
       /\ color[i] = "white" /\ \A k \in DOMAIN moves : color[k] = "white" => i <= k
       /\ Visit(i)

Node == stack[Len(stack)]

\* e is the edge the innermost visit looks at now.
Looks(e) ==
  /\ stack # <<>> /\ e \in rest[Node]
  /\ \A f \in rest[Node] \ {e} : Precedes(moves, Node, e, f)

\* A white target is visited first; the edge is done when that visit has ended.
Descend ==
  \E j \in DOMAIN moves :
    /\ color[j] = "white" /\ \E e \in rest[Node] : e[2] = j /\ Looks(e)
    /\ Visit(j)

\* A gray target is being visited, so the dependency closes a cycle and is cut, whatever
\* other moves carry its key.  A black target is no obstacle.
ClosesCycle_SelfOnly(j) == j = Node          \* mutant: a longer cycle is not seen
ClosesCycle_Visited(j) == color[j] # "white"  \* mutant: one mark for both kinds of visits
ClosesCycle(j) == color[j] = "gray"

Pass ==
  \E e \in rest[Node] :
    /\ Looks(e) /\ color[e[2]] # "white" /\ ~ClosesCycle(e[2])
    /\ rest' = [rest EXCEPT ![Node] = @ \ {e}]
    /\ UNCHANGED <<moves, color, stack, removed, order>>

Cut ==
  \E e \in rest[Node] :
    /\ Looks(e) /\ color[e[2]] # "white" /\ ClosesCycle(e[2])
    /\ removed' = removed \cup {<<Node, e[1]>>}
    /\ rest' = [rest EXCEPT ![Node] = {f \in @ : f[1] # e[1]}]
    /\ UNCHANGED <<moves, color, stack, order>>

\* The visit of a move ends when it has no edge left.
Finish ==
  /\ stack # <<>> /\ rest[Node] = {}
  /\ color' = [color EXCEPT ![Node] = "black"]
  /\ stack' = SubSeq(stack, 1, Len(stack) - 1)
  /\ order' = Append(order, Node)
  /\ UNCHANGED <<moves, rest, removed>>

\* An action on the innermost visit, if there is one.
Step == stack # <<>> /\ (Descend \/ Pass \/ Cut \/ Finish)

GraphNext == Start \/ Step

GraphSpec == GraphInit /\ [][GraphNext]_graphVars

\* SanitizeMoveGraph returns the moves without the removed dependencies.
Finished == stack = <<>> /\ \A i \in DOMAIN moves : color[i] = "black"
Kept(i, j) == \E n \in DOMAIN moves[i].deps :
                <<i, moves[i].deps[n]>> \notin removed /\ j \in Carriers(moves, moves[i].deps[n])

-----------------------------------------------------------------------------
(* Properties.                                                             *)

\* What is stored is a DAG, also when moves share a key and a dependency means all of
\* them: every set of moves has one that waits for none of the set.
OutputIsDag ==
  Finished => \A S \in SUBSET DOMAIN moves : S # {} => \E i \in S : \A j \in S : ~Kept(i, j)

\* Nothing is cut that did not close a cycle: from some move that carries the dependency
\* the move that lists it can be reached, so that a graph that is a DAG already is
\* stored as the planner gave it, and a second pass would change nothing.
Reachable(i, j) ==
  \A S \in SUBSET DOMAIN moves :
    (i \in S /\ \A k \in S : \A e \in Edges(moves, k) : e[2] \in S) => j \in S

OnlyCyclesAreCut ==
  \A r \in removed : \E j \in Carriers(moves, r[2]) : Reachable(j, r[1])
=============================================================================
