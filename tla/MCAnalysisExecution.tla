------------------------ MODULE MCAnalysisExecution ------------------------
(***************************************************************************)
(* Instances of AnalysisExecution for TLC.                                 *)
(***************************************************************************)
EXTENDS AnalysisExecutionProps, TLC

CONSTANTS w1, w2, t1, t2

None == [f \in Fault |-> 0]

\* Each fault and each kind of request once.
MCLimitFaults == [f \in Fault |-> 1]

\* Several changes of the artifact: an untracking, a dispatch that outlives
\* its deadline.
MCLimitChanges == [None EXCEPT !["detach"] = 1, !["untrack"] = 1]

\* No instance dies and the store answers.
MCLimitCalm ==
  [None EXCEPT !["duplicate"] = 1, !["request"] = 1, !["detach"] = 1]

MCLimitCrash == [None EXCEPT !["crash"] = 1]

Interchangeable == Permutations({w1, w2}) \cup Permutations({t1, t2})
=============================================================================
