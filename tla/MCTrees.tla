------------------------------- MODULE MCTrees ------------------------------
(***************************************************************************)
(* Instances of Trees for TLC.  Processes are interchangeable, and so are  *)
(* claims: nothing in Trees orders or names them.                          *)
(***************************************************************************)
EXTENDS Trees, TLC

CONSTANTS p1, p2, w1, r1, r2, c1, c2

Symmetry == Permutations(Processes) \cup Permutations(Claims)
=============================================================================
