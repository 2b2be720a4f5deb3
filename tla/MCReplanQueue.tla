--------------------------- MODULE MCReplanQueue ---------------------------
(* Instances of ReplanQueue for TLC: two plans, of which the first gets two  *)
(* of the three signals, so that a FIFO can hold more than one job.          *)
EXTENDS ReplanQueue, TLC

CONSTANTS p1, p2, s1, s2, s3

MCPlanOf == (s1 :> p1) @@ (s2 :> p1) @@ (s3 :> p2)
=============================================================================
