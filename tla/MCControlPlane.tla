--------------------------- MODULE MCControlPlane ---------------------------
(***************************************************************************)
(* ControlPlane for TLC, with the model values of its run.                 *)
(***************************************************************************)
EXTENDS ControlPlane, TLC

CONSTANTS f, u1, u2, m1, k1, k2, a1, a2, r1, r2, x1, x2, p1, p2, q1, q2, libA, libB

\* Patents, queries and packages are interchangeable.
Alike == Permutations(Patent) \cup Permutations(Query) \cup Permutations(Package)
=============================================================================
