------------------------------ MODULE MCStartup ------------------------------
(***************************************************************************)
(* Instances of Startup for TLC: p1 has a crypto store of its own, p2 and   *)
(* p3 share one, and p4 runs without Matrix on the path of p2 and p3.       *)
(***************************************************************************)
EXTENDS Startup

CONSTANTS p1, p2, p3, p4, s1, s2

Paths == [p \in {p1, p2, p3, p4} |-> IF p = p1 THEN s1 ELSE s2]
=============================================================================
