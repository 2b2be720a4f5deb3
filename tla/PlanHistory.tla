---------------------------- MODULE PlanHistory ----------------------------
(***************************************************************************)
(* The promise of the decision history (docs/concepts.md, "Key             *)
(* invariants"): the versions of a plan form an append-only log, a version *)
(* once written never changes, and a version is appended only for a change *)
(* that is material with respect to the version it replaces.               *)
(***************************************************************************)
EXTENDS Naturals, Sequences

CONSTANTS Plans,      \* plan ids
          Authors,    \* what a version was written for: a signal, or nothing
          Contents,   \* plan contents
          InitialContent,
          Material(_, _)  \* the second content is a material change of the first

VARIABLE log          \* per plan, its versions; version n is log[p][n]

HInit == \A p \in Plans : /\ Len(log[p]) = 1
                          /\ log[p][1].content = InitialContent

AppendVersion(p) ==
  \E c \in Contents, a \in Authors :
    /\ Material(log[p][Len(log[p])].content, c)
    /\ log' = [log EXCEPT ![p] = Append(@, [content |-> c, by |-> a])]

HNext == \E p \in Plans : AppendVersion(p)

HSpec == HInit /\ [][HNext]_log
=============================================================================
