---------------------------- MODULE MCRiskLedger ----------------------------
(***************************************************************************)
(* Instances of RiskLedger for TLC.                                        *)
(***************************************************************************)
EXTENDS RiskLedgerProps, TLC

CONSTANTS k1, v1, v2

\* Change 1 and 3 bring the first revision (the same blob at two commits),
\* 2 deletes the file, 4 brings another revision.
MCRevisionOf == [c \in Change |-> CASE c \in {1, 3} -> "r1"
                                    [] c = 2 -> NoRevision
                                    [] OTHER -> "r2"]

None == [f \in Request |-> 0]
MCLimitReviews == [None EXCEPT !["review"] = 2, !["stop"] = 1]
MCLimitTracking == [None EXCEPT !["stop"] = 2, !["reanalysis"] = 1,
                                !["explanation"] = 2, !["health"] = 2]

Reviewers == Permutations({v1, v2})
=============================================================================
