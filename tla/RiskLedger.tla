----------------------------- MODULE RiskLedger -----------------------------
(***************************************************************************)
(* The risks of ONE artifact and ONE analysis type: the results that open, *)
(* confirm and close them, the people who judge them, and the losses and   *)
(* returns of the file that exclude and revive them.                       *)
(*                                                                         *)
(* Every unit of work is an optimistic transaction over the documents it   *)
(* read, so one unit of work is one action.  An execution of the pipeline  *)
(* is reduced to the two moments the ledger sees: the gate lets it pass,   *)
(* and, minutes of model calls later, its result arrives.  Of several such *)
(* executions of a change one stands for all: a change is "cleared" while  *)
(* a result of it may still arrive.                                        *)
(*                                                                         *)
(* A change is its fingerprint.  Two changes may name the same revision    *)
(* (the initial tree of a GitHub repository names blobs, whatever commit   *)
(* it is read at), and a DELETE may name none (Drive and Local).           *)
(***************************************************************************)
EXTENDS Naturals

CONSTANTS
  Key,         \* risk keys of the artifact
  Change,      \* fingerprints of the changes of the artifact
  Deletes,     \* the changes whose change_type is DELETE
  Revision,    \* revisions of the artifact
  RevisionOf,  \* what a change names: a revision, or NoRevision
  NoRevision,  \* None
  Reviewer,    \* people with a risk open in front of them
  NoKey,       \* the reviewer has nothing open
  Limit        \* bound on each kind of outside request and status report

Request == {"reanalysis", "stop", "review", "explanation", "health"}

ASSUME ChangeAssumption ==
  /\ Deletes \subseteq Change
  /\ RevisionOf \in [Change -> Revision \cup {NoRevision}]
  /\ \A c \in Change \ Deletes : RevisionOf[c] \in Revision
ASSUME NoneAssumption == NoRevision \notin Revision /\ NoKey \notin Key
ASSUME LimitAssumption == Limit \in [Request -> Nat]

VARIABLES
  change,       \* ChangeEvent and AnalysisJob of each change, as one status
  cleared,      \* changes with an execution past the gate
  artifact,     \* Artifact and ArtifactState
  mount,        \* WorkspaceMount: status, or ABSENT once it is removed
  source,       \* SourceConnection and SourceWorkspace: their one status
  risk,         \* Risk documents
  excluded,     \* RiskEvent: the last exclusion of each risk
  explanation,  \* Risk.explanation_safe, and the one being written
  view,         \* what each reviewer has open: the ETag and what it showed
  used,         \* how many outside requests of each kind happened
  late,         \* history: the cleared changes the watch has stopped under
  overtaken     \* history: risks such a change left open on an unwatched file

history == <<late, overtaken>>
place == <<mount, source>>
vars == <<change, cleared, artifact, mount, source, risk, excluded, explanation,
          view, used, late, overtaken>>

Lifecycle == {"NEW", "EXISTING", "RESOLVED"}
UserSelectable == {"UNREVIEWED", "MONITORING", "ACCEPTED_RISK"}
Disposition == UserSelectable \cup {"EXCLUDED"}
Known == Revision \cup {NoRevision}
Health == {"ACTIVE", "REAUTH_REQUIRED", "SOURCE_OFFLINE"}
MountStatus == Health \cup {"MANAGER_ACTION_REQUIRED", "DISABLED", "ABSENT"}

RiskDoc == [state : Lifecycle \cup {"NONE"}, disposition : Disposition,
            version : Nat, evidence : Known]
ArtifactDoc == [latest : Known, analyzed : Known, status : {"ACTIVE", "ARCHIVED"},
                availability : {"NONE", "AVAILABLE", "DELETED"}]

TypeOK ==
  /\ change \in [Change -> {"none", "queued", "running", "ended"}]
  /\ cleared \subseteq Change
  /\ artifact \in ArtifactDoc
  /\ mount \in MountStatus /\ source \in Health
  /\ risk \in [Key -> RiskDoc]
  /\ excluded \in [Key -> [disposition : Disposition, evidence : Known]]
  /\ explanation \in [Key -> [text : Known, draft : Known]]
  /\ view \in [Reviewer -> [key : Key \cup {NoKey}, version : Nat,
                            disposition : Disposition]]
  /\ used \in [Request -> Nat]
  /\ late \subseteq cleared /\ overtaken \subseteq Key

Init ==
  /\ change = [c \in Change |-> "none"]
  /\ cleared = {}
  /\ artifact = [latest |-> NoRevision, analyzed |-> NoRevision,
                 status |-> "ACTIVE", availability |-> "NONE"]
  /\ mount = "ACTIVE" /\ source = "ACTIVE"
  /\ risk = [k \in Key |-> [state |-> "NONE", disposition |-> "UNREVIEWED",
                            version |-> 0, evidence |-> NoRevision]]
  /\ excluded = [k \in Key |-> [disposition |-> "UNREVIEWED",
                                evidence |-> NoRevision]]
  /\ explanation = [k \in Key |-> [text |-> NoRevision, draft |-> NoRevision]]
  /\ view = [v \in Reviewer |-> [key |-> NoKey, version |-> 0,
                                 disposition |-> "UNREVIEWED"]]
  /\ used = [f \in Request |-> 0]
  /\ late = {} /\ overtaken = {}

Spend(f) ==
  /\ used[f] < Limit[f]
  /\ used' = [used EXCEPT ![f] = @ + 1]

Exists(k) == risk[k].state # "NONE"
Active(k) == risk[k].state \in {"NEW", "EXISTING"}

\* History: the file is there and neither it nor its mount was taken out of
\* care.  A source that is offline or asks for a manager is still watched.
Watched == /\ artifact.availability = "AVAILABLE"
           /\ artifact.status = "ACTIVE"
           /\ mount \notin {"DISABLED", "ABSENT"}

\* What intake asks of mount and source before it accepts a change.
Processable == mount = "ACTIVE" /\ source = "ACTIVE"

-----------------------------------------------------------------------------
(* Exclusion and revival of the artifact's risks.                          *)

\* Mutant: an excluded risk is excluded again.
ExcludableAgain(k) == Exists(k)

\* Risks an exclusion moves: an excluded one is skipped.
Excludable(k) == Exists(k) /\ risk[k].disposition # "EXCLUDED"

\* Mutant: the system's disposition does not count as a new version.
ExcludedUnversioned(rk) ==
  [rk EXCEPT !.state = "RESOLVED", !.disposition = "EXCLUDED"]
\* Mutant: the disposition is replaced and the risk left open.
ExcludedOpen(rk) ==
  [rk EXCEPT !.disposition = "EXCLUDED", !.version = @ + 1]

Excluded(rk) == [rk EXCEPT !.state = "RESOLVED", !.disposition = "EXCLUDED",
                           !.version = @ + 1]

\* exclude_risks, for every risk of the artifact.
ExcludeRisks ==
  /\ risk' = [k \in Key |-> IF Excludable(k) THEN Excluded(risk[k])
                            ELSE risk[k]]
  /\ excluded' = [k \in Key |->
                    IF Excludable(k)
                    THEN [disposition |-> risk[k].disposition,
                          evidence |-> risk[k].evidence]
                    ELSE excluded[k]]
  /\ overtaken' = {}

\* The watch stops: its risks are excluded, whatever is under way.
StopWatch == ExcludeRisks /\ late' = cleared

\* Mutant: the judgement comes back whatever the file is now.
DispositionBeforeAny(k, revision) ==
  IF excluded[k].disposition # "EXCLUDED" THEN excluded[k].disposition
  ELSE "UNREVIEWED"

\* The disposition a revived risk gets: the one before the exclusion if the
\* file came back with the revision it was judged on.
DispositionBeforeExclusion(k, revision) ==
  IF /\ revision = risk[k].evidence /\ revision = excluded[k].evidence
     /\ excluded[k].disposition # "EXCLUDED"
  THEN excluded[k].disposition ELSE "UNREVIEWED"

\* revive_artifact_risks, when the file comes back as this revision.
ReviveRisks(revision) ==
  /\ risk' = [k \in Key |->
       IF risk[k].disposition = "EXCLUDED"
       THEN [risk[k] EXCEPT
               !.state = "EXISTING",
               !.disposition = DispositionBeforeExclusion(k, revision),
               !.version = @ + 1]
       ELSE risk[k]]
  /\ UNCHANGED excluded

-----------------------------------------------------------------------------
(* Intake: register_source_change of a fingerprint not seen before.  One   *)
(* already seen never reaches the artifact nor its risks.                  *)

ArtifactAfter(c) ==
  [artifact EXCEPT
     !.latest = IF RevisionOf[c] = NoRevision THEN @ ELSE RevisionOf[c],
     !.status = "ACTIVE",
     !.availability = IF c \in Deletes THEN "DELETED" ELSE "AVAILABLE"]

RegisterDelete(c) ==
  /\ c \in Deletes
  /\ change[c] = "none" /\ Processable
  /\ change' = [change EXCEPT ![c] = "ended"]
  /\ artifact' = ArtifactAfter(c)
  /\ StopWatch
  /\ UNCHANGED <<cleared, place, explanation, view, used>>

RegisterChange(c) ==
  /\ c \notin Deletes
  /\ change[c] = "none" /\ Processable
  /\ change' = [change EXCEPT ![c] = "queued"]
  /\ artifact' = ArtifactAfter(c)
  /\ IF artifact.availability = "DELETED"
     THEN ReviveRisks(RevisionOf[c])
     ELSE UNCHANGED <<risk, excluded>>
  /\ UNCHANGED <<cleared, place, explanation, view, used, history>>

-----------------------------------------------------------------------------
(* Administration, and what is said of the source.                        *)

\* untrack_artifact, again on an artifact that is archived already.
UntrackArtifact ==
  /\ artifact.availability # "NONE"
  /\ Spend("stop")
  /\ artifact' = [artifact EXCEPT !.status = "ARCHIVED"]
  /\ StopWatch
  /\ UNCHANGED <<change, cleared, place, explanation, view>>

\* disable_mount, whatever else the status says; remove_mount, also of a
\* disabled one.
DisableMount ==
  /\ \/ mount \notin {"DISABLED", "ABSENT"} /\ mount' = "DISABLED"
     \/ mount # "ABSENT" /\ mount' = "ABSENT"
  /\ Spend("stop")
  /\ StopWatch
  /\ UNCHANGED <<change, cleared, artifact, source, explanation, view>>

\* The same folder is mounted again: the source keeps its status, and the
\* risks wait for an analysis.
Remount ==
  /\ mount \in {"DISABLED", "ABSENT"}
  /\ mount' = "ACTIVE"
  /\ UNCHANGED <<change, cleared, artifact, source, risk, excluded, explanation,
                 view, used, history>>

\* record_source_health: the provider's word is the status of the source and
\* of a mount that is not disabled.  The risks stay as they are.
RecordHealth(health) ==
  /\ mount \notin {"DISABLED", "ABSENT"}
  /\ Spend("health")
  /\ mount' = health /\ source' = health
  /\ UNCHANGED <<change, cleared, artifact, risk, excluded, explanation, view,
                 history>>

\* _manager_action_mounts: the custodian left or lost the role.  The risks
\* stay as they are.
AskManager ==
  /\ mount \notin {"DISABLED", "ABSENT"}
  /\ Spend("health")
  /\ mount' = "MANAGER_ACTION_REQUIRED"
  /\ UNCHANGED <<change, cleared, artifact, source, risk, excluded, explanation,
                 view, history>>

-----------------------------------------------------------------------------
(* Analysis.                                                               *)

\* What the gate asks of artifact, mount and source.
Tracked == /\ artifact.availability = "AVAILABLE"
           /\ artifact.status = "ACTIVE"
           /\ Processable

\* A claim, or the takeover of a failed execution.
Claim(c) ==
  /\ c \notin Deletes
  /\ change[c] = "queued"
  /\ change' = [change EXCEPT ![c] = "running"]
  /\ UNCHANGED <<cleared, artifact, place, risk, excluded, explanation, view,
                 used, history>>

\* request_reanalysis, retry_failed, a repeated delivery of a failed change.
Reanalyze(c) ==
  /\ c \notin Deletes
  /\ change[c] \in {"running", "ended"}
  /\ Spend("reanalysis")
  /\ change' = [change EXCEPT ![c] = "queued"]
  /\ UNCHANGED <<cleared, artifact, place, risk, excluded, explanation, view,
                 history>>

\* Mutant: the gate looks at the revision and not at the tracking.
GateApproveUntracked(c) ==
  /\ change[c] = "running"
  /\ artifact.latest = RevisionOf[c]
  /\ cleared' = cleared \cup {c}
  /\ UNCHANGED <<change, artifact, place, risk, excluded, explanation, view,
                 used, history>>

GateApprove(c) ==
  /\ change[c] = "running"
  /\ Tracked /\ artifact.latest = RevisionOf[c]
  /\ cleared' = cleared \cup {c}
  /\ UNCHANGED <<change, artifact, place, risk, excluded, explanation, view,
                 used, history>>

\* The ignore policy leaves the file out: the job ends and so do the risks.
GateIgnore(c) ==
  /\ change[c] = "running"
  /\ Tracked /\ artifact.latest = RevisionOf[c]
  /\ change' = [change EXCEPT ![c] = "ended"]
  /\ ExcludeRisks
  /\ UNCHANGED <<cleared, artifact, place, explanation, view, used, late>>

\* Any other end of an execution: another denial, a failure recorded.
EndRun(c) ==
  /\ change[c] = "running"
  /\ change' = [change EXCEPT ![c] = "ended"]
  /\ UNCHANGED <<cleared, artifact, place, risk, excluded, explanation, view,
                 used, history>>

\* An execution past the gate gives up, or its result is refused.
DropRun(c) ==
  /\ c \in cleared
  /\ cleared' = cleared \ {c} /\ late' = late \ {c}
  /\ UNCHANGED <<change, artifact, place, risk, excluded, explanation, view,
                 used, overtaken>>

AnalysisIsAuthoritative(coverage) == coverage = "COMPLETE"
AnalysisCanRecord(coverage) == coverage # "NONE"

\* Mutant: what a partial result does not show is closed too.
AbsenceResolvesPartial(k, coverage) == Active(k) /\ AnalysisCanRecord(coverage)

\* decide_lifecycle without a candidate.  absence_can_resolve adds nothing: a
\* LICENSE result without any candidate may close only when COMPLETE.
AbsenceResolves(k, coverage) ==
  Active(k) /\ AnalysisIsAuthoritative(coverage)

\* Mutant: the state takes the word of the history event.
ConfirmedMisnamed(rk, revision) ==
  [rk EXCEPT !.state = "CONFIRMED", !.evidence = revision]

\* Mutant: a confirmed risk is one nobody has reviewed.
ConfirmedForgetful(rk, revision) ==
  [rk EXCEPT !.state = "EXISTING", !.evidence = revision,
             !.disposition = "UNREVIEWED"]

Confirmed(rk, revision) ==
  [rk EXCEPT !.state = "EXISTING", !.evidence = revision]

\* _reconcile for one risk of the artifact.
Reconciled(k, found, coverage, revision) ==
  LET rk == risk[k] IN
  IF k \in found
  THEN IF rk.state = "NONE"
       THEN [state |-> "NEW", disposition |-> "UNREVIEWED", version |-> 0,
             evidence |-> revision]
       ELSE IF rk.disposition = "EXCLUDED"
       THEN [state |-> "NEW", disposition |-> "UNREVIEWED",
             version |-> rk.version + 1, evidence |-> revision]
       ELSE Confirmed(rk, revision)
  ELSE IF AbsenceResolves(k, coverage)
       THEN [rk EXCEPT !.state = "RESOLVED"]
       ELSE rk

\* accept_analysis_result of a SUCCEEDED result with these candidates.  A
\* result that records nothing (FAILED, or coverage NONE) only ends the run.
AcceptResult(c, found, coverage) ==
  /\ c \in cleared /\ change[c] = "running"
  /\ artifact.latest = RevisionOf[c]
  /\ AnalysisCanRecord(coverage)
  /\ change' = [change EXCEPT ![c] = "ended"]
  /\ cleared' = cleared \ {c}
  /\ risk' = [k \in Key |-> Reconciled(k, found, coverage, RevisionOf[c])]
  /\ artifact' = IF AnalysisIsAuthoritative(coverage)
                 THEN [artifact EXCEPT !.analyzed = RevisionOf[c]]
                 ELSE artifact
  /\ late' = late \ {c}
  /\ overtaken' = IF c \in late /\ ~Watched THEN overtaken \cup found
                  ELSE overtaken
  /\ UNCHANGED <<place, excluded, explanation, view, used>>

-----------------------------------------------------------------------------
(* People and explanations.                                                *)

\* A reviewer opens a risk: its disposition and the version as ETag.
OpenRisk(v, k) ==
  /\ Exists(k)
  /\ view' = [view EXCEPT ![v] = [key |-> k, version |-> risk[k].version,
                                  disposition |-> risk[k].disposition]]
  /\ UNCHANGED <<change, cleared, artifact, place, risk, excluded, explanation,
                 used, history>>

\* change_disposition: the version must be the one seen, an excluded risk
\* cannot be judged, and the same disposition again changes nothing.
ChangeDisposition(v, d) ==
  LET k == view[v].key IN
  /\ k # NoKey
  /\ view[v].version = risk[k].version
  /\ risk[k].disposition # "EXCLUDED" /\ risk[k].disposition # d
  /\ Spend("review")
  /\ risk' = [risk EXCEPT ![k].disposition = d, ![k].version = @ + 1]
  /\ UNCHANGED <<change, cleared, artifact, place, excluded, explanation, view,
                 history>>

\* explain_risks for an affected risk: one that has an explanation already
\* is skipped ...
SkipExplanation(k) ==
  /\ Exists(k) /\ explanation[k].text # NoRevision
  /\ Spend("explanation")
  /\ UNCHANGED <<change, cleared, artifact, place, risk, excluded, explanation,
                 view, history>>

\* ... for another the explainer is called on the evidence of its latest
\* job; a risk closed by a complete result has none.
BeginExplanation(k) ==
  /\ Active(k) \/ risk[k].disposition = "EXCLUDED"
  /\ explanation[k].text = NoRevision
  /\ Spend("explanation")
  /\ explanation' = [explanation EXCEPT ![k].draft = risk[k].evidence]
  /\ UNCHANGED <<change, cleared, artifact, place, risk, excluded, view, history>>

\* The explainer answered: saved over whatever the risk says now, or failed.
EndExplanation(k) ==
  /\ explanation[k].draft # NoRevision
  /\ \E text \in {explanation[k].draft, explanation[k].text} :
       explanation' = [explanation EXCEPT ![k] = [text |-> text,
                                                  draft |-> NoRevision]]
  /\ UNCHANGED <<change, cleared, artifact, place, risk, excluded, view, used,
                 history>>

-----------------------------------------------------------------------------
Next ==
  \/ \E c \in Change :
       \/ RegisterDelete(c) \/ RegisterChange(c)
       \/ Claim(c) \/ Reanalyze(c) \/ GateApprove(c) \/ GateIgnore(c)
       \/ EndRun(c) \/ DropRun(c)
       \/ \E found \in SUBSET Key, coverage \in {"COMPLETE", "PARTIAL"} :
            AcceptResult(c, found, coverage)
  \/ UntrackArtifact \/ DisableMount \/ Remount \/ AskManager
  \/ \E health \in Health : RecordHealth(health)
  \/ \E v \in Reviewer : \/ \E k \in Key : OpenRisk(v, k)
                         \/ \E d \in UserSelectable : ChangeDisposition(v, d)
  \/ \E k \in Key : \/ SkipExplanation(k) \/ BeginExplanation(k)
                    \/ EndExplanation(k)

Spec == Init /\ [][Next]_vars
=============================================================================
