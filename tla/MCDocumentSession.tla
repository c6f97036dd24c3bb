------------------------- MODULE MCDocumentSession -------------------------
(***************************************************************************)
(* An instance of DocumentSession for TLC: a session of three operations   *)
(* beside one of two.                                                      *)
(***************************************************************************)
EXTENDS DocumentSession, TLC

CONSTANTS k1, k2, s1, s2

\* One query, which matches one of the two contents.
MCFilter == {{"a"}}
MCMaxOps == [s \in Session |-> IF s = s1 THEN 3 ELSE 2]

Keys == Permutations({k1, k2})
=============================================================================
