---------------------------- MODULE MCReplanning ----------------------------
(* Instances of Replanning for TLC: one plan, so that all signals contend for *)
(* the same versions.  The planner's answer is fixed by the signal's note, as *)
(* with the deterministic planner the repository's tests use, except for s3,  *)
(* which may come out either way.  The contents a, b, d share their moves:    *)
(* both b and d are a material change of a, d is not one of b.                *)
EXTENDS Replanning, TLC

CONSTANTS p1, s1, s2, s3

a == [moves |-> <<"x">>, confidence |-> 5]
b == [moves |-> <<"x">>, confidence |-> 7]
c == [moves |-> <<"y">>, confidence |-> 7]
d == [moves |-> <<"x">>, confidence |-> 8]

MCContents == {a, b, c, d}
MCPlanOf == [s \in Signals |-> p1]
MCReplies == [s \in Signals |-> IF s = s1 THEN {b} ELSE IF s = s2 THEN {c} ELSE {a, d}]
=============================================================================
