------------------------- MODULE RiskLedger_proofs -------------------------
(***************************************************************************)
(* Theorems about the risk ledger for any keys, changes, revisions,        *)
(* reviewers and bounds: its types and invariants, that the active list    *)
(* shows unwatched files only by results the end of the watch overtook,    *)
(* and that the ledger implements its contract.                            *)
(***************************************************************************)
EXTENDS RiskLedgerProps, TLAPS

USE DEF Lifecycle, UserSelectable, Disposition, Known, RiskDoc, ArtifactDoc,
        Request, Health, MountStatus, place, history

Coverage == {"COMPLETE", "PARTIAL"}

-----------------------------------------------------------------------------
(* Types.                                                                  *)

\* One more request keeps the counters typed.
LEMMA SpendTyped ==
  ASSUME TypeOK, NEW f \in Request, Spend(f)
  PROVE  used' \in [Request -> Nat]
  BY DEF TypeOK, Spend

\* The documents of one risk are typed.
LEMMA RiskTyped ==
  ASSUME TypeOK, NEW k \in Key
  PROVE  /\ risk[k] \in RiskDoc
         /\ risk[k].version + 1 \in Nat
         /\ excluded[k] \in [disposition : Disposition, evidence : Known]
  BY DEF TypeOK

\* The dispositions of a revived risk are those a person may choose.
LEMMA RestoredTyped ==
  ASSUME TypeOK, NEW k \in Key, NEW revision \in Known
  PROVE  DispositionBeforeExclusion(k, revision) \in UserSelectable
  BY DEF TypeOK, DispositionBeforeExclusion

\* An exclusion keeps risks and exclusion records typed.
LEMMA ExcludeTyped ==
  ASSUME TypeOK, ExcludeRisks
  PROVE  /\ risk' \in [Key -> RiskDoc]
         /\ excluded' \in [Key -> [disposition : Disposition,
                                   evidence : Known]]
         /\ overtaken' \subseteq Key
  <1>1. ASSUME NEW k \in Key
        PROVE  Excluded(risk[k]) \in RiskDoc
    BY RiskTyped DEF Excluded
  <1>2. ASSUME NEW k \in Key
        PROVE  (IF Excludable(k) THEN Excluded(risk[k]) ELSE risk[k]) \in RiskDoc
    BY <1>1 DEF TypeOK
  <1>3. ASSUME NEW k \in Key
        PROVE  (IF Excludable(k)
                THEN [disposition |-> risk[k].disposition,
                      evidence |-> risk[k].evidence]
                ELSE excluded[k])
                 \in [disposition : Disposition, evidence : Known]
    BY DEF TypeOK
  <1> HIDE DEF RiskDoc, Disposition, Known
  <1> QED
    BY <1>2, <1>3 DEF ExcludeRisks

\* A revival keeps risks and exclusion records typed.
LEMMA ReviveTyped ==
  ASSUME TypeOK, NEW revision \in Known, ReviveRisks(revision)
  PROVE  /\ risk' \in [Key -> RiskDoc]
         /\ excluded' \in [Key -> [disposition : Disposition,
                                   evidence : Known]]
  <1>1. ASSUME NEW k \in Key
        PROVE  [risk[k] EXCEPT
                  !.state = "EXISTING",
                  !.disposition = DispositionBeforeExclusion(k, revision),
                  !.version = @ + 1] \in RiskDoc
    BY RestoredTyped, RiskTyped
  <1>2. risk \in [Key -> RiskDoc]
    BY DEF TypeOK
  <1>3. excluded' \in [Key -> [disposition : Disposition, evidence : Known]]
    BY DEF TypeOK, ReviveRisks
  <1> HIDE DEF RiskDoc, Disposition, Known
  <1> QED
    BY <1>1, <1>2, <1>3 DEF ReviveRisks

\* The artifact after a change is typed.
LEMMA ArtifactTyped ==
  ASSUME TypeOK, NEW c \in Change
  PROVE  ArtifactAfter(c) \in ArtifactDoc
  BY ChangeAssumption DEF TypeOK, ArtifactAfter

\* A reconciled risk is typed.
LEMMA ReconciledTyped ==
  ASSUME TypeOK, NEW k \in Key, NEW found \in SUBSET Key,
         NEW coverage \in Coverage, NEW revision \in Known
  PROVE  Reconciled(k, found, coverage, revision) \in RiskDoc
  <1>1. risk[k] \in RiskDoc
    BY DEF TypeOK
  <1>2. [state |-> "NEW", disposition |-> "UNREVIEWED", version |-> 0,
         evidence |-> revision] \in RiskDoc
    OBVIOUS
  <1>3. [state |-> "NEW", disposition |-> "UNREVIEWED",
         version |-> risk[k].version + 1, evidence |-> revision] \in RiskDoc
    BY <1>1
  <1>4. Confirmed(risk[k], revision) \in RiskDoc
    BY <1>1 DEF Confirmed
  <1>5. [risk[k] EXCEPT !.state = "RESOLVED"] \in RiskDoc
    BY <1>1
  <1> HIDE DEF RiskDoc
  <1> QED
    BY <1>1, <1>2, <1>3, <1>4, <1>5 DEF Reconciled

\* The ledger starts well typed.
LEMMA TypeInit == Init => TypeOK
  BY DEF Init, TypeOK

\* Every step keeps the variables typed.
LEMMA TypeStep == TypeOK /\ [Next]_vars => TypeOK'
  <1> SUFFICES ASSUME TypeOK, [Next]_vars PROVE TypeOK'
    OBVIOUS
  <1>1. CASE UNCHANGED vars
    BY <1>1 DEF TypeOK, vars
  <1>2. ASSUME NEW c \in Change, RegisterDelete(c) PROVE TypeOK'
    BY <1>2, ExcludeTyped, ArtifactTyped
    DEF TypeOK, RegisterDelete, StopWatch
  <1>3. ASSUME NEW c \in Change, RegisterChange(c) PROVE TypeOK'
    <2>1. RevisionOf[c] \in Known
      BY ChangeAssumption
    <2>2. /\ risk' \in [Key -> RiskDoc]
          /\ excluded' \in [Key -> [disposition : Disposition,
                                    evidence : Known]]
      BY <1>3, <2>1, ReviveTyped DEF TypeOK, RegisterChange
    <2> QED
      BY <1>3, <2>2, ArtifactTyped DEF TypeOK, RegisterChange
  <1>4. ASSUME UntrackArtifact PROVE TypeOK'
    BY <1>4, ExcludeTyped, SpendTyped
    DEF TypeOK, UntrackArtifact, StopWatch
  <1>5. ASSUME DisableMount PROVE TypeOK'
    BY <1>5, ExcludeTyped, SpendTyped
    DEF TypeOK, DisableMount, StopWatch
  <1>6. ASSUME Remount PROVE TypeOK'
    BY <1>6 DEF TypeOK, Remount
  <1>7. ASSUME NEW c \in Change, Claim(c) \/ EndRun(c) PROVE TypeOK'
    BY <1>7 DEF TypeOK, Claim, EndRun
  <1>8. ASSUME NEW c \in Change, Reanalyze(c) PROVE TypeOK'
    BY <1>8, SpendTyped DEF TypeOK, Reanalyze
  <1>9. ASSUME NEW c \in Change, GateApprove(c) \/ DropRun(c) PROVE TypeOK'
    BY <1>9 DEF TypeOK, GateApprove, DropRun
  <1>10. ASSUME NEW c \in Change, GateIgnore(c) PROVE TypeOK'
    BY <1>10, ExcludeTyped DEF TypeOK, GateIgnore
  <1>11. ASSUME NEW c \in Change, NEW found \in SUBSET Key,
                NEW coverage \in Coverage, AcceptResult(c, found, coverage)
         PROVE  TypeOK'
    <2>1. RevisionOf[c] \in Known
      BY ChangeAssumption
    <2>2. risk' \in [Key -> RiskDoc]
      BY <1>11, <2>1, ReconciledTyped DEF AcceptResult
    <2>3. artifact' \in ArtifactDoc
      BY <1>11, <2>1 DEF AcceptResult, TypeOK
    <2> QED
      BY <1>11, <2>2, <2>3 DEF AcceptResult, TypeOK
  <1>12. ASSUME NEW v \in Reviewer, NEW k \in Key, OpenRisk(v, k) PROVE TypeOK'
    BY <1>12 DEF TypeOK, OpenRisk
  <1>13. ASSUME NEW v \in Reviewer, NEW d \in UserSelectable,
                ChangeDisposition(v, d)
         PROVE  TypeOK'
    BY <1>13, SpendTyped DEF TypeOK, ChangeDisposition
  <1>14. ASSUME NEW k \in Key, SkipExplanation(k) \/ BeginExplanation(k)
         PROVE  TypeOK'
    <2>1. /\ used' \in [Request -> Nat]
          /\ risk[k].evidence \in Known
      BY <1>14, SpendTyped, RiskTyped DEF SkipExplanation, BeginExplanation
    <2>2. explanation' \in [Key -> [text : Known, draft : Known]]
      BY <1>14, <2>1 DEF TypeOK, SkipExplanation, BeginExplanation
    <2> QED
      BY <1>14, <2>1, <2>2 DEF TypeOK, SkipExplanation, BeginExplanation
  <1>15. ASSUME NEW k \in Key, EndExplanation(k) PROVE TypeOK'
    BY <1>15 DEF TypeOK, EndExplanation
  <1>16. ASSUME AskManager \/ \E health \in Health : RecordHealth(health)
         PROVE  TypeOK'
    BY <1>16, SpendTyped DEF TypeOK, AskManager, RecordHealth
  <1> QED
    BY <1>1, <1>2, <1>3, <1>4, <1>5, <1>6, <1>7, <1>8, <1>9, <1>10, <1>11,
       <1>12, <1>13, <1>14, <1>15, <1>16 DEF Next, Coverage

\* Every reachable state of the ledger is well typed.
THEOREM TypeCorrect == Spec => []TypeOK
  BY TypeInit, TypeStep, PTL DEF Spec

-----------------------------------------------------------------------------
(* What a step may do to one risk.                                         *)

Untouched(k) == risk'[k] = risk[k] /\ excluded'[k] = excluded[k]

ExcludedNow(k) ==
  /\ Excludable(k)
  /\ risk'[k] = Excluded(risk[k])
  /\ excluded'[k] = [disposition |-> risk[k].disposition,
                     evidence |-> risk[k].evidence]

RevivedNow(k) ==
  /\ risk[k].disposition = "EXCLUDED"
  /\ risk'[k] = [risk[k] EXCEPT
                   !.state = "EXISTING",
                   !.disposition = DispositionBeforeExclusion(k, artifact'.latest),
                   !.version = @ + 1]
  /\ excluded'[k] = excluded[k]

AppearedNow(k) ==
  /\ risk[k].state = "NONE"
  /\ \E revision \in Known :
       risk'[k] = [state |-> "NEW", disposition |-> "UNREVIEWED", version |-> 0,
                   evidence |-> revision]
  /\ excluded'[k] = excluded[k]

FoundAgainNow(k) ==
  /\ Exists(k) /\ risk[k].disposition = "EXCLUDED"
  /\ \E revision \in Known :
       risk'[k] = [state |-> "NEW", disposition |-> "UNREVIEWED",
                   version |-> risk[k].version + 1, evidence |-> revision]
  /\ excluded'[k] = excluded[k]

ConfirmedNow(k) ==
  /\ Exists(k) /\ risk[k].disposition # "EXCLUDED"
  /\ \E revision \in Known : risk'[k] = Confirmed(risk[k], revision)
  /\ excluded'[k] = excluded[k]

ResolvedNow(k) ==
  /\ Active(k)
  /\ risk'[k] = [risk[k] EXCEPT !.state = "RESOLVED"]
  /\ artifact'.analyzed = artifact'.latest
  /\ excluded'[k] = excluded[k]

ReviewedNow(k) ==
  /\ risk[k].disposition # "EXCLUDED"
  /\ \E v \in Reviewer, d \in UserSelectable :
       /\ view[v].key = k /\ ChangeDisposition(v, d)
       /\ view[v].version = risk[k].version
       /\ risk'[k] = [risk[k] EXCEPT !.disposition = d, !.version = @ + 1]
  /\ excluded'[k] = excluded[k]

RiskStep(k) ==
  \/ Untouched(k) \/ ExcludedNow(k) \/ RevivedNow(k) \/ AppearedNow(k)
  \/ FoundAgainNow(k) \/ ConfirmedNow(k) \/ ResolvedNow(k) \/ ReviewedNow(k)

\* An exclusion moves a risk as ExcludedNow says or leaves it alone.
LEMMA ExcludeMoves ==
  ASSUME NEW k \in Key, ExcludeRisks
  PROVE  Untouched(k) \/ ExcludedNow(k)
  BY DEF ExcludeRisks, Untouched, ExcludedNow

\* A result moves a risk in one of the ways _reconcile knows.
LEMMA ResultMoves ==
  ASSUME TypeOK, NEW k \in Key, NEW c \in Change, NEW found \in SUBSET Key,
         NEW coverage \in Coverage, AcceptResult(c, found, coverage)
  PROVE  \/ Untouched(k) \/ AppearedNow(k) \/ FoundAgainNow(k)
         \/ ConfirmedNow(k) \/ ResolvedNow(k)
  <1>1. /\ risk'[k] = Reconciled(k, found, coverage, RevisionOf[c])
        /\ excluded'[k] = excluded[k]
        /\ RevisionOf[c] \in Known
    BY ChangeAssumption DEF AcceptResult
  <1>2. CASE k \in found
    BY <1>1, <1>2 DEF Reconciled, AppearedNow, FoundAgainNow, ConfirmedNow,
                      Exists
  <1>3. CASE k \notin found /\ AbsenceResolves(k, coverage)
    <2>1. artifact'.analyzed = artifact'.latest
      BY <1>3 DEF AcceptResult, AbsenceResolves, TypeOK
    <2> QED
      BY <1>1, <1>3, <2>1 DEF Reconciled, ResolvedNow, AbsenceResolves
  <1>4. CASE k \notin found /\ ~AbsenceResolves(k, coverage)
    BY <1>1, <1>4 DEF Reconciled, Untouched
  <1> QED
    BY <1>2, <1>3, <1>4

\* Every step of the system moves every risk in one of these ways.
LEMMA RiskMoves ==
  ASSUME TypeOK, [Next]_vars, NEW k \in Key
  PROVE  RiskStep(k)
  <1>1. CASE UNCHANGED <<risk, excluded>>
    BY <1>1 DEF RiskStep, Untouched
  <1>2. CASE ExcludeRisks
    BY <1>2, ExcludeMoves DEF RiskStep
  <1>3. ASSUME NEW c \in Change, RegisterChange(c) PROVE RiskStep(k)
    <2>1. CASE artifact.availability = "DELETED"
      <3>1. artifact'.latest = RevisionOf[c]
        BY <1>3, ChangeAssumption, NoneAssumption
        DEF RegisterChange, ArtifactAfter, TypeOK
      <3>2. ReviveRisks(RevisionOf[c])
        BY <1>3, <2>1 DEF RegisterChange
      <3>3. CASE risk[k].disposition = "EXCLUDED"
        <4>1. risk'[k] = [risk[k] EXCEPT
                !.state = "EXISTING",
                !.disposition = DispositionBeforeExclusion(k, RevisionOf[c]),
                !.version = @ + 1]
          BY <3>2, <3>3 DEF ReviveRisks
        <4>2. excluded'[k] = excluded[k]
          BY <3>2 DEF ReviveRisks
        <4> QED
          BY <3>1, <3>3, <4>1, <4>2 DEF RevivedNow, RiskStep
      <3>4. CASE risk[k].disposition # "EXCLUDED"
        BY <3>2, <3>4 DEF ReviveRisks, RiskStep, Untouched
      <3> QED
        BY <3>3, <3>4
    <2>2. CASE artifact.availability # "DELETED"
      BY <1>1, <1>3, <2>2 DEF RegisterChange
    <2> QED
      BY <2>1, <2>2
  <1>4. ASSUME NEW c \in Change, NEW found \in SUBSET Key,
               NEW coverage \in Coverage, AcceptResult(c, found, coverage)
        PROVE  RiskStep(k)
    BY <1>4, ResultMoves DEF RiskStep
  <1>5. ASSUME NEW v \in Reviewer, NEW d \in UserSelectable,
               ChangeDisposition(v, d)
        PROVE  RiskStep(k)
    <2>1. CASE view[v].key = k
      BY <1>5, <2>1 DEF ChangeDisposition, TypeOK, RiskStep, ReviewedNow
    <2>2. CASE view[v].key # k
      BY <1>5, <2>2 DEF ChangeDisposition, TypeOK, RiskStep, Untouched
    <2> QED
      BY <2>1, <2>2
  <1> QED
    BY <1>1, <1>2, <1>3, <1>4, <1>5
    DEF Next, vars, Coverage, RegisterDelete, Claim, Reanalyze, GateApprove,
        GateIgnore, EndRun, DropRun, UntrackArtifact, DisableMount, Remount,
        StopWatch, AskManager, RecordHealth, OpenRisk, SkipExplanation, BeginExplanation, EndExplanation

-----------------------------------------------------------------------------
(* The inductive invariant.                                                *)

\* A risk that was never found is blank.
Blank == \A k \in Key : risk[k].state = "NONE" =>
           risk[k].disposition = "UNREVIEWED" /\ risk[k].version = 0

\* What a reviewer has open exists.
Opened == \A v \in Reviewer : view[v].key # NoKey => Exists(view[v].key)

LedgerInv == TypeOK /\ Blank /\ Opened /\ ExcludedIsClosed /\ ValidViewIsCurrent

\* A risk keeps version and disposition, or gets the next version.
LEMMA VersionLaw ==
  ASSUME TypeOK, Blank, NEW k \in Key, RiskStep(k)
  PROVE  \/ /\ risk'[k].version = risk[k].version
            /\ risk'[k].disposition = risk[k].disposition
         \/ risk'[k].version = risk[k].version + 1
  <1> USE RiskTyped
  <1>1. CASE Untouched(k)
    BY <1>1 DEF Untouched
  <1>2. CASE ExcludedNow(k)
    BY <1>2 DEF ExcludedNow, Excluded
  <1>3. CASE RevivedNow(k)
    BY <1>3 DEF RevivedNow
  <1>4. CASE AppearedNow(k)
    BY <1>4 DEF AppearedNow, Blank
  <1>5. CASE FoundAgainNow(k)
    BY <1>5 DEF FoundAgainNow
  <1>6. CASE ConfirmedNow(k)
    BY <1>6 DEF ConfirmedNow, Confirmed
  <1>7. CASE ResolvedNow(k)
    BY <1>7 DEF ResolvedNow
  <1>8. CASE ReviewedNow(k)
    BY <1>8 DEF ReviewedNow
  <1> QED
    BY <1>1, <1>2, <1>3, <1>4, <1>5, <1>6, <1>7, <1>8 DEF RiskStep

\* A step leaves a blank risk blank and an excluded risk closed.
LEMMA ShapeLaw ==
  ASSUME TypeOK, Blank, Opened, ExcludedIsClosed, NEW k \in Key, RiskStep(k)
  PROVE  /\ risk'[k].state = "NONE" =>
              risk'[k].disposition = "UNREVIEWED" /\ risk'[k].version = 0
         /\ risk'[k].disposition = "EXCLUDED" => risk'[k].state = "RESOLVED"
  <1> USE RiskTyped
  <1>1. CASE Untouched(k)
    BY <1>1 DEF Untouched, Blank, ExcludedIsClosed
  <1>2. CASE ExcludedNow(k)
    BY <1>2 DEF ExcludedNow, Excluded
  <1>3. CASE RevivedNow(k)
    <2>1. DispositionBeforeExclusion(k, artifact'.latest) # "EXCLUDED"
      BY DEF DispositionBeforeExclusion
    <2> QED
      BY <1>3, <2>1 DEF RevivedNow
  <1>4. CASE AppearedNow(k)
    BY <1>4 DEF AppearedNow
  <1>5. CASE FoundAgainNow(k)
    BY <1>5 DEF FoundAgainNow
  <1>6. CASE ConfirmedNow(k)
    BY <1>6 DEF ConfirmedNow, Confirmed, Exists
  <1>7. CASE ResolvedNow(k)
    BY <1>7 DEF ResolvedNow
  <1>8. CASE ReviewedNow(k)
    <2>1. risk[k].state # "NONE" /\ k # NoKey
      BY <1>8, NoneAssumption DEF ReviewedNow, Opened, Exists
    <2> QED
      BY <1>8, <2>1 DEF ReviewedNow
  <1> QED
    BY <1>1, <1>2, <1>3, <1>4, <1>5, <1>6, <1>7, <1>8 DEF RiskStep

\* No risk that exists is unmade.
LEMMA StaysKnown ==
  ASSUME TypeOK, NEW k \in Key, RiskStep(k), Exists(k)
  PROVE  risk'[k].state # "NONE"
  <1> USE RiskTyped
  <1>1. CASE Untouched(k) \/ ReviewedNow(k)
    BY <1>1 DEF Untouched, ReviewedNow, Exists
  <1>2. CASE ExcludedNow(k) \/ ResolvedNow(k)
    BY <1>2 DEF ExcludedNow, Excluded, ResolvedNow
  <1>3. CASE RevivedNow(k)
    BY <1>3 DEF RevivedNow
  <1>4. CASE ConfirmedNow(k)
    BY <1>4 DEF ConfirmedNow, Confirmed
  <1>5. ~AppearedNow(k)
    BY DEF AppearedNow, Exists
  <1>6. CASE FoundAgainNow(k)
    <2>1. risk'[k].state = "NEW"
      BY <1>6 DEF FoundAgainNow
    <2> QED
      BY <2>1
  <1> QED
    BY <1>1, <1>2, <1>3, <1>4, <1>5, <1>6 DEF RiskStep

\* The invariant holds at the start ...
LEMMA LedgerInit == Init => LedgerInv
  BY TypeInit, NoneAssumption
  DEF Init, LedgerInv, Blank, Opened, ExcludedIsClosed, ValidViewIsCurrent

\* ... and every step keeps it.
LEMMA LedgerStep == LedgerInv /\ [Next]_vars => LedgerInv'
  <1> SUFFICES ASSUME LedgerInv, [Next]_vars PROVE LedgerInv'
    OBVIOUS
  <1>1. TypeOK'
    BY TypeStep DEF LedgerInv
  <1>2. \A k \in Key : RiskStep(k)
    BY RiskMoves DEF LedgerInv
  <1>3. Blank' /\ ExcludedIsClosed'
    BY <1>2, ShapeLaw DEF LedgerInv, Blank, ExcludedIsClosed
  <1>4. \/ view' = view
        \/ \E v \in Reviewer, k \in Key : OpenRisk(v, k)
    BY DEF Next, vars, RegisterDelete, RegisterChange, Claim, Reanalyze,
           GateApprove, GateIgnore, EndRun, DropRun, AcceptResult,
           UntrackArtifact, DisableMount, Remount, AskManager, RecordHealth,
           ChangeDisposition,
           SkipExplanation, BeginExplanation, EndExplanation
  <1>5. CASE view' = view
    <2>1. Opened'
      BY <1>2, <1>5, StaysKnown DEF LedgerInv, Opened, Exists, TypeOK
    <2>2. ASSUME NEW v \in Reviewer, view[v].key # NoKey
          PROVE  LET k == view[v].key IN
                 /\ view[v].version <= risk'[k].version
                 /\ view[v].version = risk'[k].version
                      => view[v].disposition = risk'[k].disposition
      <3> DEFINE k == view[v].key
      <3>1. k \in Key /\ view[v].version \in Nat
        BY <2>2 DEF LedgerInv, TypeOK
      <3>2. /\ view[v].version <= risk[k].version
            /\ view[v].version = risk[k].version
                 => view[v].disposition = risk[k].disposition
        BY <2>2 DEF LedgerInv, ValidViewIsCurrent
      <3>3. \/ /\ risk'[k].version = risk[k].version
               /\ risk'[k].disposition = risk[k].disposition
            \/ risk'[k].version = risk[k].version + 1
        BY <1>2, <3>1, VersionLaw DEF LedgerInv
      <3>4. risk[k].version \in Nat
        BY <3>1, RiskTyped DEF LedgerInv
      <3> HIDE DEF k
      <3>5. /\ view[v].version <= risk'[k].version
            /\ view[v].version = risk'[k].version
                 => view[v].disposition = risk'[k].disposition
        BY <3>1, <3>2, <3>3, <3>4
      <3> QED
        BY <3>5 DEF k
    <2>3. ValidViewIsCurrent'
      BY <1>5, <2>2 DEF ValidViewIsCurrent
    <2> QED
      BY <1>1, <1>3, <2>1, <2>3 DEF LedgerInv
  <1>6. ASSUME NEW v \in Reviewer, NEW k \in Key, OpenRisk(v, k)
        PROVE  Opened' /\ ValidViewIsCurrent'
    <2>1. /\ risk' = risk
          /\ Exists(k)
          /\ view' = [view EXCEPT ![v] = [key |-> k, version |-> risk[k].version,
                                          disposition |-> risk[k].disposition]]
      BY <1>6 DEF OpenRisk
    <2>2. risk[k].version \in Nat
      BY RiskTyped DEF LedgerInv
    <2> QED
      BY <2>1, <2>2 DEF LedgerInv, TypeOK, Opened, ValidViewIsCurrent, Exists
  <1> QED
    BY <1>1, <1>3, <1>4, <1>5, <1>6 DEF LedgerInv

\* An excluded risk is closed, whatever wrote it last.
THEOREM ExcludedIsClosedCorrect == Spec => []ExcludedIsClosed
  <1>1. LedgerInv => ExcludedIsClosed
    BY DEF LedgerInv
  <1> QED
    BY <1>1, LedgerInit, LedgerStep, PTL DEF Spec

\* A version that is still valid shows the disposition the risk still has.
THEOREM ValidViewIsCurrentCorrect == Spec => []ValidViewIsCurrent
  <1>1. LedgerInv => ValidViewIsCurrent
    BY DEF LedgerInv
  <1> QED
    BY <1>1, LedgerInit, LedgerStep, PTL DEF Spec

-----------------------------------------------------------------------------
(* Action properties.                                                      *)

\* Only a person or an exclusion changes what a person said.
THEOREM JudgementIsKeptCorrect == Spec => JudgementIsKept
  <1>1. ASSUME LedgerInv, [Next]_vars, NEW k \in Key,
               risk[k].disposition \in Human,
               risk'[k].disposition # risk[k].disposition
        PROVE  \/ risk'[k].disposition = "EXCLUDED"
               \/ \E v \in Reviewer, d \in UserSelectable :
                    view[v].key = k /\ ChangeDisposition(v, d)
    <2>1. RiskStep(k) /\ risk[k] \in RiskDoc
      BY <1>1, RiskMoves, RiskTyped DEF LedgerInv
    <2>2. risk[k].state # "NONE" /\ risk[k].disposition # "EXCLUDED"
      BY <1>1 DEF LedgerInv, Blank, Human
    <2>3. ~RevivedNow(k) /\ ~AppearedNow(k) /\ ~FoundAgainNow(k)
      BY <2>2 DEF RevivedNow, AppearedNow, FoundAgainNow
    <2>4. ~Untouched(k) /\ ~ResolvedNow(k) /\ ~ConfirmedNow(k)
      BY <1>1, <2>1 DEF Untouched, ResolvedNow, ConfirmedNow, Confirmed
    <2>5. CASE ExcludedNow(k)
      BY <2>1, <2>5 DEF ExcludedNow, Excluded
    <2>6. CASE ReviewedNow(k)
      BY <2>6 DEF ReviewedNow
    <2> QED
      BY <2>1, <2>3, <2>4, <2>5, <2>6 DEF RiskStep
  <1>2. LedgerInv /\ [Next]_vars =>
          [\A k \in Key :
             risk[k].disposition \in Human
               /\ risk'[k].disposition # risk[k].disposition
             => \/ risk'[k].disposition = "EXCLUDED"
                \/ \E v \in Reviewer, d \in UserSelectable :
                     view[v].key = k /\ ChangeDisposition(v, d)]_vars
    BY <1>1
  <1> QED
    BY <1>2, LedgerInit, LedgerStep, PTL DEF Spec, JudgementIsKept

\* A judgement comes back only with the revision it was made on.
THEOREM OldJudgementStaysBehindCorrect == Spec => OldJudgementStaysBehind
  <1>1. ASSUME LedgerInv, [Next]_vars, NEW k \in Key,
               risk[k].disposition = "EXCLUDED", risk'[k].disposition \in Human
        PROVE  /\ artifact'.latest = excluded[k].evidence
               /\ risk'[k].evidence = excluded[k].evidence
               /\ risk'[k].disposition = excluded[k].disposition
    <2>1. RiskStep(k) /\ risk[k] \in RiskDoc
      BY <1>1, RiskMoves, RiskTyped DEF LedgerInv
    <2>2. risk[k].state = "RESOLVED"
      BY <1>1 DEF LedgerInv, ExcludedIsClosed
    <2>3. ~Untouched(k) /\ ~AppearedNow(k)
      BY <1>1, <2>2 DEF Untouched, AppearedNow, Human
    <2>4. ~ExcludedNow(k) /\ ~ConfirmedNow(k) /\ ~ReviewedNow(k)
      BY <1>1 DEF ExcludedNow, Excludable, ConfirmedNow, ReviewedNow
    <2>5. ~ResolvedNow(k)
      BY <2>2 DEF ResolvedNow, Active
    <2>6. FoundAgainNow(k) => risk'[k].disposition = "UNREVIEWED"
      BY DEF FoundAgainNow
    <2>7. RevivedNow(k)
      BY <1>1, <2>1, <2>3, <2>4, <2>5, <2>6 DEF RiskStep, Human
    <2>8. risk'[k].disposition = DispositionBeforeExclusion(k, artifact'.latest)
          /\ risk'[k].evidence = risk[k].evidence
      BY <2>1, <2>7 DEF RevivedNow
    <2> QED
      BY <1>1, <2>8 DEF DispositionBeforeExclusion, Human
  <1>2. LedgerInv /\ [Next]_vars =>
          [\A k \in Key :
             risk[k].disposition = "EXCLUDED" /\ risk'[k].disposition \in Human
             => /\ artifact'.latest = excluded[k].evidence
                /\ risk'[k].evidence = excluded[k].evidence
                /\ risk'[k].disposition = excluded[k].disposition]_vars
    BY <1>1
  <1> QED
    BY <1>2, LedgerInit, LedgerStep, PTL DEF Spec, OldJudgementStaysBehind

\* A risk in care closes only with a complete analysis of the latest revision.
THEOREM ClosedByCompleteAnalysisCorrect == Spec => ClosedByCompleteAnalysis
  <1>1. ASSUME LedgerInv, [Next]_vars, NEW k \in Key,
               Active(k), risk'[k].state = "RESOLVED",
               risk'[k].disposition # "EXCLUDED"
        PROVE  artifact'.analyzed = artifact'.latest
    <2>1. RiskStep(k) /\ risk[k] \in RiskDoc
      BY <1>1, RiskMoves, RiskTyped DEF LedgerInv
    <2>2. ~Untouched(k) /\ ~AppearedNow(k)
      BY <1>1 DEF Untouched, AppearedNow, Active
    <2>3. ~ExcludedNow(k) /\ ~ConfirmedNow(k)
      BY <1>1, <2>1 DEF ExcludedNow, Excluded, ConfirmedNow, Confirmed
    <2>4. ~RevivedNow(k) /\ ~ReviewedNow(k)
      BY <1>1, <2>1 DEF RevivedNow, ReviewedNow, Active
    <2>5. FoundAgainNow(k) => risk'[k].state = "NEW"
      BY DEF FoundAgainNow
    <2> QED
      BY <1>1, <2>1, <2>2, <2>3, <2>4, <2>5 DEF RiskStep, ResolvedNow
  <1>2. LedgerInv /\ [Next]_vars =>
          [\A k \in Key :
             Active(k) /\ risk'[k].state = "RESOLVED"
                       /\ risk'[k].disposition # "EXCLUDED"
             => artifact'.analyzed = artifact'.latest]_vars
    BY <1>1
  <1> QED
    BY <1>2, LedgerInit, LedgerStep, PTL DEF Spec, ClosedByCompleteAnalysis

-----------------------------------------------------------------------------
(* What is active on a file that is not watched.                           *)

\* A result under way is late or one of a watched file, and an active risk
\* is one of a watched file or was left open by a late result.
WatchInv == (cleared \ late # {} => Watched) /\ ActiveIsWatched

\* After an exclusion nothing is active.
LEMMA ExcludeCloses ==
  ASSUME LedgerInv, ExcludeRisks, NEW k \in Key
  PROVE  ~(risk'[k].state \in {"NEW", "EXISTING"})
  <1>1. risk[k] \in RiskDoc /\ (Untouched(k) \/ ExcludedNow(k))
    BY RiskTyped, ExcludeMoves DEF LedgerInv
  <1>2. CASE ExcludedNow(k)
    BY <1>1, <1>2 DEF ExcludedNow, Excluded
  <1>3. CASE Untouched(k)
    <2>1. risk'[k] = risk[k] /\ risk'[k] \in RiskDoc
      BY <1>1, <1>3 DEF Untouched
    <2>2. CASE Excludable(k)
      <3>1. risk'[k] = Excluded(risk[k])
        BY <2>2 DEF ExcludeRisks
      <3> QED
        BY <1>1, <3>1 DEF Excluded
    <2>3. CASE ~Excludable(k)
      BY <2>1, <2>3 DEF Excludable, Exists, LedgerInv, ExcludedIsClosed
    <2> QED
      BY <2>2, <2>3
  <1> QED
    BY <1>1, <1>2, <1>3

\* Every step of the system keeps it.
LEMMA WatchStep == LedgerInv /\ WatchInv /\ [Next]_vars => WatchInv'
  <1> SUFFICES ASSUME LedgerInv, WatchInv, [Next]_vars PROVE WatchInv'
    OBVIOUS
  <1> USE DEF Watched, Active
  <1>1. CASE UNCHANGED <<cleared, late, overtaken, artifact, mount, risk>>
    BY <1>1 DEF WatchInv, ActiveIsWatched
  <1>2. CASE StopWatch /\ cleared' = cleared
    BY <1>2, ExcludeCloses DEF WatchInv, ActiveIsWatched, StopWatch
  <1>3. ASSUME NEW c \in Change, RegisterDelete(c) PROVE WatchInv'
    BY <1>2, <1>3 DEF RegisterDelete
  <1>4. ASSUME NEW c \in Change, RegisterChange(c) PROVE WatchInv'
    <2>1. Watched'
      BY <1>4 DEF RegisterChange, ArtifactAfter, Processable, LedgerInv, TypeOK
    <2> QED
      BY <2>1 DEF WatchInv, ActiveIsWatched
  <1>5. ASSUME UntrackArtifact \/ DisableMount PROVE WatchInv'
    BY <1>2, <1>5 DEF UntrackArtifact, DisableMount
  <1>6. ASSUME Remount PROVE WatchInv'
    <2>1. ~Watched
      BY <1>6 DEF Remount
    <2> QED
      BY <1>6, <2>1 DEF Remount, WatchInv, ActiveIsWatched
  \* Neither a health report nor a lost custodian ends the watch.
  <1>7. ASSUME AskManager \/ \E health \in Health : RecordHealth(health)
        PROVE  WatchInv'
    <2>1. Watched' <=> Watched
      BY <1>7 DEF AskManager, RecordHealth
    <2>2. UNCHANGED <<cleared, late, overtaken, risk>>
      BY <1>7 DEF AskManager, RecordHealth
    <2> QED
      BY <2>1, <2>2 DEF WatchInv, ActiveIsWatched
  <1>8. ASSUME NEW c \in Change, GateApprove(c) PROVE WatchInv'
    <2>1. Watched'
      BY <1>8 DEF GateApprove, Tracked, Processable
    <2> QED
      BY <2>1 DEF WatchInv, ActiveIsWatched
  <1>9. ASSUME NEW c \in Change, GateIgnore(c) PROVE WatchInv'
    BY <1>9, ExcludeCloses DEF GateIgnore, WatchInv, ActiveIsWatched
  <1>10. ASSUME NEW c \in Change, DropRun(c) PROVE WatchInv'
    BY <1>10 DEF DropRun, WatchInv, ActiveIsWatched
  <1>11. ASSUME NEW c \in Change, NEW found \in SUBSET Key,
                NEW coverage \in Coverage, AcceptResult(c, found, coverage)
         PROVE  WatchInv'
    <2>1. Watched' <=> Watched
      BY <1>11 DEF AcceptResult, LedgerInv, TypeOK
    <2>2. cleared' \ late' # {} => cleared \ late # {}
      BY <1>11 DEF AcceptResult
    <2>3. ASSUME NEW k \in Key, Active(k)', ~Watched
          PROVE  k \in overtaken'
      <3>1. c \in late /\ overtaken' = overtaken \cup found
        BY <1>11, <2>3 DEF AcceptResult, WatchInv
      <3>2. CASE k \notin found
        <4>1. risk'[k] = Reconciled(k, found, coverage, RevisionOf[c])
          BY <1>11 DEF AcceptResult
        <4>2. Active(k)
          BY <2>3, <3>2, <4>1, RiskTyped DEF Reconciled, LedgerInv
        <4> QED
          BY <2>3, <3>1, <4>2 DEF WatchInv, ActiveIsWatched
      <3> QED
        BY <3>1, <3>2
    <2> QED
      BY <2>1, <2>2, <2>3 DEF WatchInv, ActiveIsWatched
  <1>12. ASSUME NEW v \in Reviewer, NEW d \in UserSelectable,
                ChangeDisposition(v, d)
         PROVE  WatchInv'
    <2>1. ASSUME NEW k \in Key PROVE risk'[k].state = risk[k].state
      BY <1>12, RiskTyped DEF ChangeDisposition, LedgerInv, TypeOK
    <2> QED
      BY <1>12, <2>1 DEF ChangeDisposition, WatchInv, ActiveIsWatched
  <1> QED
    BY <1>1, <1>3, <1>4, <1>5, <1>6, <1>7, <1>8, <1>9, <1>10, <1>11, <1>12
    DEF Next, vars, Coverage, Claim, Reanalyze, EndRun, OpenRisk,
        SkipExplanation, BeginExplanation, EndExplanation

\* Whatever stops, is reported or comes late, and whenever: a risk is active
\* on a file that is not watched only by a result that had passed the gate
\* before the watch stopped.
THEOREM ActiveIsWatchedCorrect == Spec => []ActiveIsWatched
  <1>1. Init => WatchInv
    BY DEF Init, WatchInv, ActiveIsWatched, Active
  <1>2. LedgerInv /\ WatchInv /\ [Next]_vars => WatchInv'
    BY WatchStep
  <1>3. WatchInv => ActiveIsWatched
    BY DEF WatchInv
  <1> QED
    BY <1>1, <1>2, <1>3, LedgerInit, LedgerStep, PTL DEF Spec

-----------------------------------------------------------------------------
(* The ledger implements its contract.                                     *)

\* The shape a risk has in the contract.
LEMMA Shapes ==
  ASSUME LedgerInv, NEW k \in Key
  PROVE  /\ risk[k].state = "NONE" => Standing(k) = "unknown"
         /\ risk[k].disposition = "EXCLUDED" => Standing(k) = "suspended"
         /\ risk[k].disposition # "EXCLUDED" /\ Active(k) => Standing(k) = "open"
         /\ risk[k].disposition # "EXCLUDED" /\ risk[k].state = "RESOLVED"
              => Standing(k) = "closed"
  BY DEF LedgerInv, Blank, ExcludedIsClosed, Standing, Active

\* A step of the ledger is for each risk a step of the contract.
LEMMA ContractStep ==
  ASSUME LedgerInv, LedgerInv', NEW k \in Key, RiskStep(k)
  PROVE  Contract!Step(k)
  <1>1. /\ risk[k] \in RiskDoc /\ risk'[k] \in RiskDoc
        /\ risk[k].state \in {"NONE", "NEW", "EXISTING", "RESOLVED"}
    BY DEF LedgerInv, TypeOK, RiskDoc, Lifecycle
  <1>2. /\ risk'[k].state = "NONE" => Standing(k)' = "unknown"
        /\ risk'[k].disposition = "EXCLUDED" => Standing(k)' = "suspended"
        /\ risk'[k].disposition # "EXCLUDED"
             /\ risk'[k].state \in {"NEW", "EXISTING"} => Standing(k)' = "open"
        /\ risk'[k].disposition # "EXCLUDED" /\ risk'[k].state = "RESOLVED"
             => Standing(k)' = "closed"
    BY DEF LedgerInv, Blank, ExcludedIsClosed, Standing, Active
  <1>0. /\ risk[k].state = "NONE" => Standing(k) = "unknown"
        /\ risk[k].disposition = "EXCLUDED" => Standing(k) = "suspended"
        /\ risk[k].disposition # "EXCLUDED"
             /\ risk[k].state \in {"NEW", "EXISTING"} => Standing(k) = "open"
        /\ risk[k].disposition # "EXCLUDED" /\ risk[k].state = "RESOLVED"
             => Standing(k) = "closed"
    BY Shapes DEF Active
  <1> USE <1>0 DEF Active, Said, Human
  <1>3. CASE Untouched(k)
    <2>1. Standing(k)' = Standing(k)
      BY <1>3 DEF Untouched, Standing
    <2> QED
      BY <1>3, <2>1 DEF Untouched, Contract!Step, Contract!Same
  <1>4. CASE ExcludedNow(k)
    <2>1. /\ risk'[k].disposition = "EXCLUDED"
          /\ excluded'[k].disposition = risk[k].disposition
      BY <1>1, <1>4 DEF ExcludedNow, Excluded
    <2>2. Standing(k) \in {"open", "closed"}
      BY <1>1, <1>4 DEF ExcludedNow, Excludable, Exists
    <2> QED
      BY <1>2, <2>1, <2>2 DEF Contract!Step, Contract!LoseCare
  <1>5. CASE RevivedNow(k)
    <2>1. /\ risk'[k].state = "EXISTING"
          /\ risk'[k].disposition
               = DispositionBeforeExclusion(k, artifact'.latest)
          /\ excluded'[k] = excluded[k]
      BY <1>1, <1>5 DEF RevivedNow
    <2>2. risk'[k].disposition \in {"UNREVIEWED", excluded[k].disposition}
          /\ risk'[k].disposition # "EXCLUDED"
      BY <2>1 DEF DispositionBeforeExclusion
    <2>3. Standing(k) = "suspended" /\ Standing(k)' = "open"
      BY <1>2, <1>5, <2>1, <2>2 DEF RevivedNow
    <2> QED
      BY <2>1, <2>2, <2>3
      DEF Contract!Step, Contract!ResumeCare, Contract!Moves
  <1>6. CASE AppearedNow(k)
    <2>1. risk'[k].state = "NEW" /\ risk'[k].disposition = "UNREVIEWED"
      BY <1>6 DEF AppearedNow
    <2>2. Standing(k) = "unknown" /\ Standing(k)' = "open"
      BY <1>2, <1>6, <2>1 DEF AppearedNow
    <2> QED
      BY <1>6, <2>1, <2>2
      DEF AppearedNow, Contract!Step, Contract!Appear, Contract!Moves
  <1>7. CASE FoundAgainNow(k)
    <2>1. risk'[k].state = "NEW" /\ risk'[k].disposition = "UNREVIEWED"
      BY <1>7 DEF FoundAgainNow
    <2>2. Standing(k) = "suspended" /\ Standing(k)' = "open"
      BY <1>2, <1>7, <2>1 DEF FoundAgainNow
    <2> QED
      BY <1>7, <2>1, <2>2
      DEF FoundAgainNow, Contract!Step, Contract!ResumeCare, Contract!Moves
  <1>8. CASE ConfirmedNow(k)
    <2>1. /\ risk'[k].state = "EXISTING"
          /\ risk'[k].disposition = risk[k].disposition
          /\ risk[k].disposition # "EXCLUDED" /\ risk[k].state # "NONE"
          /\ excluded'[k] = excluded[k]
      BY <1>1, <1>8 DEF ConfirmedNow, Confirmed, Exists
    <2>2. Standing(k)' = "open" /\ Standing(k) \in {"open", "closed"}
      BY <1>1, <1>2, <2>1
    <2> QED
      BY <2>1, <2>2
      DEF Contract!Step, Contract!Same, Contract!FoundAgain, Contract!Moves
  <1>9. CASE ResolvedNow(k)
    <2>1. /\ risk'[k].state = "RESOLVED"
          /\ risk'[k].disposition = risk[k].disposition
          /\ excluded'[k] = excluded[k]
      BY <1>1, <1>9 DEF ResolvedNow
    <2>2. risk[k].disposition # "EXCLUDED"
      BY <1>9 DEF ResolvedNow, LedgerInv, ExcludedIsClosed
    <2>3. Standing(k) = "open" /\ Standing(k)' = "closed"
      BY <1>2, <1>9, <2>1, <2>2 DEF ResolvedNow
    <2> QED
      BY <2>1, <2>3 DEF Contract!Step, Contract!Clear, Contract!Moves
  <1>10. CASE ReviewedNow(k)
    <2>1. /\ risk'[k].state = risk[k].state
          /\ risk'[k].disposition \in UserSelectable
          /\ risk[k].disposition # "EXCLUDED"
          /\ excluded'[k] = excluded[k]
      BY <1>1, <1>10 DEF ReviewedNow
    <2>2. risk[k].state # "NONE"
      BY <1>10, NoneAssumption DEF ReviewedNow, LedgerInv, Opened, Exists
    <2>3. Standing(k) \in {"open", "closed"} /\ Standing(k)' = Standing(k)
      BY <1>1, <1>2, <2>1, <2>2 DEF UserSelectable
    <2> QED
      BY <2>1, <2>3 DEF Contract!Step, Contract!Judge
  <1> QED
    BY <1>3, <1>4, <1>5, <1>6, <1>7, <1>8, <1>9, <1>10 DEF RiskStep

\* Documents, results, reviews and returns implement the contract of a risk.
THEOREM ContractCorrect == Spec => ImplementsContract
  <1>1. Init => Contract!Init
    BY DEF Init, Contract!Init, Standing, Said, Human
  <1>2. LedgerInv /\ LedgerInv' /\ [Next]_vars => [Contract!Next]_(Contract!vars)
    BY RiskMoves, ContractStep DEF LedgerInv, Contract!Next
  <1> QED
    BY <1>1, <1>2, LedgerInit, LedgerStep, PTL
    DEF Spec, ImplementsContract, Contract!Spec
=============================================================================
