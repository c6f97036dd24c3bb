----------------------------- MODULE MCSettling -----------------------------
(***************************************************************************)
(* What must settle in the analysis, for TLC: every change is decided      *)
(* (AnalysisExecution), and the decisions follow the settings of the       *)
(* workspace (PolicyRevalidation).  The second has a coarser view of the   *)
(* runs of the first, so a behaviour is one of a single question: the one  *)
(* chosen at the start, while the other module rests in its initial state. *)
(***************************************************************************)
EXTENDS MCAnalysisExecution, PolicyRevalidation

CONSTANT Question  \* the questions to choose from

VARIABLE question
settlingVars == <<question, vars, policyVars>>

SettlingInit == question \in Question /\ Init /\ PolicyInit

OnAttempts(A) == question = "attempts" /\ A /\ UNCHANGED <<question, policyVars>>
OnSettings(A) == question = "settings" /\ A /\ UNCHANGED <<question, vars>>

SettlingNext == OnAttempts(Next) \/ OnSettings(PolicyStep)
SettlingSpec == SettlingInit /\ [][SettlingNext]_settlingVars

\* The fairness of AnalysisExecution and of PolicyFairSpec.
SettlingFairSpec ==
  /\ SettlingSpec
  /\ \A w \in Worker : WF_settlingVars(OnAttempts(WorkerStep(w)))
  /\ \A e \in Event :
       /\ WF_settlingVars(OnAttempts(\E t \in Task : Enqueue(e, t)))
       /\ WF_settlingVars(OnAttempts(LeaseExpires(e)))
  /\ \A t \in Task : WF_settlingVars(OnAttempts(\E w \in Worker : Deliver(w, t)))
  /\ WF_settlingVars(OnSettings(BeginDaily))
  /\ \A s \in Sweep : WF_settlingVars(OnSettings(SweepStep(s)))
  /\ \A f \in DependencyFile : WF_settlingVars(OnSettings(RunStep(f)))

\* SettingsTakeEffect, where the question is about the settings.
SettingsSettle == question = "settings" => SettingsTakeEffect
=============================================================================
