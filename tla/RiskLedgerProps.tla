-------------------------- MODULE RiskLedgerProps --------------------------
(***************************************************************************)
(* What the risk ledger promises to the people who review it.              *)
(***************************************************************************)
EXTENDS RiskLedger

\* An excluded risk is a closed one whoever wrote it last: results, returns
\* of the file and exclusions move lifecycle and disposition of the same
\* document in six different units of work.
ExcludedIsClosed ==
  \A k \in Key : risk[k].disposition = "EXCLUDED" => risk[k].state = "RESOLVED"

\* An ETag that is still valid shows the disposition the risk still has, so
\* a judgement replaces the one its author saw: every change of the
\* disposition, the system's included, is a new version
\* (RISK_DISPOSITION_POLICY.md, "review_version").
ValidViewIsCurrent ==
  \A v \in Reviewer :
    LET k == view[v].key IN
    k # NoKey =>
      /\ view[v].version <= risk[k].version
      /\ view[v].version = risk[k].version
           => view[v].disposition = risk[k].disposition

\* What a person said of a risk is changed by a person or by an exclusion,
\* never by a result (RISK_DISPOSITION_POLICY.md, "a reanalysis does not
\* cover a human's disposition").
Human == {"MONITORING", "ACCEPTED_RISK"}
JudgementIsKept ==
  [][\A k \in Key :
       risk[k].disposition \in Human /\ risk'[k].disposition # risk[k].disposition
         => \/ risk'[k].disposition = "EXCLUDED"
            \/ \E v \in Reviewer, d \in UserSelectable :
                 view[v].key = k /\ ChangeDisposition(v, d)]_vars

\* A judgement made on one revision never covers another one: a risk comes
\* out of exclusion with its old judgement only when the artifact is back at
\* the revision the judgement was made on.
OldJudgementStaysBehind ==
  [][\A k \in Key :
       risk[k].disposition = "EXCLUDED" /\ risk'[k].disposition \in Human
         => /\ artifact'.latest = excluded[k].evidence
            /\ risk'[k].evidence = excluded[k].evidence
            /\ risk'[k].disposition = excluded[k].disposition]_vars

\* A risk in care leaves the active list only in the step that records the
\* artifact's latest revision as completely analyzed: no partial, stale or
\* failed result closes one.
ClosedByCompleteAnalysis ==
  [][\A k \in Key :
       Active(k) /\ risk'[k].state = "RESOLVED"
                 /\ risk'[k].disposition # "EXCLUDED"
         => artifact'.analyzed = artifact'.latest]_vars

\* A risk on the active list belongs to a file that is watched, or a result
\* that passed the gate before the watch stopped has opened it since: health
\* reports, lost custodians, returns, late gates and results of files watched
\* again open none of a file that is not (RISK_DISPOSITION_POLICY.md, section
\* 3: it would sit in the active list and read as if the file were tracked).
ActiveIsWatched == \A k \in Key : Active(k) => Watched \/ k \in overtaken

Said(d) == IF d \in Human THEN d ELSE "UNREVIEWED"

Standing(k) ==
  IF risk[k].state = "NONE" THEN "unknown"
  ELSE IF risk[k].disposition = "EXCLUDED"
       THEN IF Active(k) THEN "torn" ELSE "suspended"
       ELSE IF Active(k) THEN "open" ELSE "closed"

Contract == INSTANCE RiskContract
              WITH Judgement <- Human,
                   Unjudged <- "UNREVIEWED",
                   standing <- [k \in Key |-> Standing(k)],
                   judgement <- [k \in Key |-> Said(risk[k].disposition)],
                   left <- [k \in Key |-> Said(excluded[k].disposition)]

\* Results, reviews, exclusions and returns together implement the life of
\* a risk as RiskContract promises it, every risk of the artifact on its own.
ImplementsContract == Contract!Spec
=============================================================================
