---------------------------- MODULE MCMatrixSync ----------------------------
(***************************************************************************)
(* Instances of MatrixSync for TLC.                                         *)
(***************************************************************************)
EXTENDS MatrixSync, TLC

CONSTANTS r1, r2, u1, u2

FirstSeen == [r \in Rooms |-> IF r = r1 THEN 1 ELSE 2]
Symmetry == Permutations({u1, u2})
=============================================================================
