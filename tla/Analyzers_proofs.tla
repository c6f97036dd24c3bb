-------------------------- MODULE Analyzers_proofs --------------------------
(***************************************************************************)
(* What a patent analysis and a license analysis may close, for any        *)
(* patents, queries, caps, limits and packages.  The patent result sees    *)
(* neither the failures nor the ledger, only the verdicts: FailureIsSeen   *)
(* says that a failure left its mark on them or on the searches,           *)
(* KnownIsLookedAt that the open risks are among them.  The license result *)
(* sees neither the declarations nor the answers, only what was read of    *)
(* them: LossIsNoted and FailureIsNoted say the same of that.              *)
(***************************************************************************)
EXTENDS PatentAnalysis, LicenseAnalysis, TLAPS

Early == {"idle", "extract", "search", "relax", "carry", "screen"}
Late == {"screen", "fetch", "compare"}

\* Until documents are fetched only searches can fail; a document or a
\* comparison that failed has left a candidate without a verdict.
FailureIsSeen ==
  /\ stage \in Early => failed \subseteq {"search"}
  /\ failed \subseteq {"search"} \/ \E p \in Patent : verdict[p] = "missing"

\* An open risk has evidence under its latest job, hence is found by the
\* lookup, and what a whole lookup found is a candidate.
KnownIsLookedAt ==
  /\ Open \subseteq proven
  /\ lookup = "whole" /\ stage \in Late => Known \subseteq Candidates

PatentInv == PatentTypeOK /\ FailureIsSeen /\ KnownIsLookedAt

LEMMA InitPatent == PatentInit => PatentInv
BY DEF PatentInit, PatentInv, PatentTypeOK, FailureIsSeen, KnownIsLookedAt, Open, Late, Early

-----------------------------------------------------------------------------
(* Patents: the end of a run.                                              *)

LEMMA ForgottenKeeps ==
  ASSUME PatentInv, Forgotten, UNCHANGED ledgerPart
  PROVE  PatentInv'
BY DEF PatentInv, PatentTypeOK, FailureIsSeen, KnownIsLookedAt, Open, Late, Early,
       Forgotten, ledgerPart

LEMMA AcceptPatentsKeeps ==
  ASSUME PatentInv, AcceptPatents
  PROVE  PatentInv'
<1> DEFINE closed == IF Complete THEN Open \ Overlapping ELSE {}
<1> DEFINE had == IF again THEN proven \cap ofLast ELSE {}
<1>1. /\ Overlapping \subseteq Patent /\ closed \subseteq Open
      /\ \A p \in Patent : patentRisk'[p] =
           IF p \in Overlapping THEN "open"
           ELSE IF p \in closed THEN "resolved" ELSE patentRisk[p]
      /\ patentRisk' \in [Patent -> {"none", "open", "resolved"}]
      /\ proven' = (proven \ closed) \cup Overlapping \cup (closed \cap had)
      /\ ofLast' = Overlapping \cup closed \cup IF again THEN ofLast ELSE {}
  BY DEF AcceptPatents, Overlapping, PatentInv, PatentTypeOK
<1>2. PatentTypeOK'
  <2>1. proven' \subseteq Patent /\ ofLast' \subseteq Patent
    BY <1>1 DEF PatentInv, PatentTypeOK, Open
  <2> QED BY <1>1, <2>1 DEF PatentInv, PatentTypeOK, AcceptPatents, Forgotten
<1>3. FailureIsSeen'
  BY DEF AcceptPatents, Forgotten, FailureIsSeen
<1>4. KnownIsLookedAt'
  <2>1. \A p \in Patent : patentRisk'[p] = "open" => p \in proven'
    BY <1>1 DEF PatentInv, KnownIsLookedAt, Open
  <2> QED BY <2>1 DEF AcceptPatents, Forgotten, KnownIsLookedAt, Open, Late
<1> QED BY <1>2, <1>3, <1>4 DEF PatentInv

-----------------------------------------------------------------------------
(* Patents: the steps of a run, while the ledger waits.                    *)

\* No verdict is touched.
LEMMA VerdictsUntouched ==
  ASSUME PatentInv, PatentTypeOK', UNCHANGED <<verdict, ledgerPart>>,
         stage' \in Early => stage \in Early,
         failed' \subseteq failed \cup {"search"},
         stage' \in Late /\ lookup' = "whole" => stage \in Late /\ lookup = "whole"
  PROVE  PatentInv'
<1>1. FailureIsSeen'
  BY DEF PatentInv, FailureIsSeen
<1>2. KnownIsLookedAt'
  BY DEF PatentInv, KnownIsLookedAt, Known, Open, Candidates, ledgerPart
<1> QED BY <1>1, <1>2 DEF PatentInv

LEMMA SearchKeeps ==
  ASSUME PatentInv,
         \/ BeginAnalysis \/ SearchDeadline
         \/ \E S \in SUBSET Query : Extract(S) \/ Relax(S)
         \/ \E q \in Query : FailSearch(q) \/ \E F \in SUBSET Patent : AnswerSearch(q, F)
  PROVE  PatentInv'
<1>1. PatentTypeOK'
  <2>1. CASE BeginAnalysis \/ SearchDeadline
    BY <2>1 DEF PatentInv, PatentTypeOK, BeginAnalysis, SearchDeadline, Goes, ledgerPart
  <2>2. ASSUME NEW S \in SUBSET Query, Extract(S) \/ Relax(S) PROVE PatentTypeOK'
    BY <2>2 DEF PatentInv, PatentTypeOK, Extract, Relax, Goes, ledgerPart
  <2>3. ASSUME NEW q \in Query, FailSearch(q) PROVE PatentTypeOK'
    BY <2>3 DEF PatentInv, PatentTypeOK, FailSearch, Goes, ledgerPart
  <2>4. ASSUME NEW q \in Query, NEW F \in SUBSET Patent, AnswerSearch(q, F)
        PROVE  PatentTypeOK'
    BY <2>4 DEF PatentInv, PatentTypeOK, AnswerSearch, Goes, ledgerPart
  <2> QED BY <2>1, <2>2, <2>3, <2>4
<1>2. /\ UNCHANGED <<verdict, ledgerPart>> /\ stage' \notin Late /\ stage \in Early
      /\ failed' \subseteq failed \cup {"search"}
  BY DEF BeginAnalysis, SearchDeadline, Extract, Relax, AnswerSearch, FailSearch,
         Goes, Early, Late
<1> QED BY <1>1, <1>2, VerdictsUntouched

LEMMA RankKeeps ==
  ASSUME PatentInv, NEW S \in SUBSET Patent, Rank(S)
  PROVE  PatentInv'
<1>1. PatentTypeOK'
  BY DEF PatentInv, PatentTypeOK, Rank, Goes, ledgerPart
<1>2. FailureIsSeen' /\ KnownIsLookedAt'
  BY DEF PatentInv, FailureIsSeen, KnownIsLookedAt, Rank, Goes, Early, Late, Open, ledgerPart
<1> QED BY <1>1, <1>2 DEF PatentInv

\* Wanted adds candidates and keeps the others.
LEMMA WantedAdds ==
  ASSUME PatentTypeOK, NEW S \in SUBSET Patent, verdict' = Wanted(S)
  PROVE  /\ Candidates' = Candidates \cup S
         /\ \A p \in Patent : verdict[p] = "missing" => verdict'[p] = "missing"
         /\ verdict' \in [Patent -> {"no", "wanted", "held", "retried", "missing",
                                     "overlaps", "clear"}]
BY DEF PatentTypeOK, Wanted, Candidates

LEMMA CarryKeeps ==
  ASSUME PatentInv, NEW S \in SUBSET Patent, CarryForward(S)
  PROVE  PatentInv'
<1>1. verdict' = Wanted(S) /\ S \subseteq Known /\ UNCHANGED <<failed, ledgerPart>>
      /\ stage = "carry" /\ stage' = "screen"
      /\ lookup' = IF S = Known THEN "whole" ELSE "cut"
  BY DEF CarryForward, Goes
<1>2. PatentTypeOK'
  BY <1>1, WantedAdds DEF PatentInv, PatentTypeOK, CarryForward, Goes, ledgerPart
<1>3. FailureIsSeen'
  BY <1>1 DEF PatentInv, FailureIsSeen, Early
<1>4. KnownIsLookedAt'
  BY <1>1, WantedAdds DEF PatentInv, KnownIsLookedAt, Known, Open, ledgerPart
<1> QED BY <1>2, <1>3, <1>4 DEF PatentInv

LEMMA CarryNothingKeeps ==
  ASSUME PatentInv, CarryNothing \/ StartComparing
  PROVE  PatentInv'
<1>1. PatentTypeOK'
  BY DEF PatentInv, PatentTypeOK, CarryNothing, StartComparing, Goes, ledgerPart
<1> QED BY <1>1, VerdictsUntouched DEF CarryNothing, StartComparing, Goes, Early, Late

LEMMA ScreenKeeps ==
  ASSUME PatentInv, NEW S \in SUBSET Patent, Screen(S)
  PROVE  PatentInv'
<1>1. verdict' = Wanted(S) /\ UNCHANGED <<failed, lookup, ledgerPart>>
      /\ stage = "screen" /\ stage' = "fetch"
  BY DEF Screen, Goes
<1>2. PatentTypeOK'
  BY <1>1, WantedAdds DEF PatentInv, PatentTypeOK, Screen, Goes, ledgerPart
<1>3. FailureIsSeen'
  BY <1>1 DEF PatentInv, FailureIsSeen, Early
<1>4. KnownIsLookedAt'
  BY <1>1, WantedAdds DEF PatentInv, KnownIsLookedAt, Known, Open, ledgerPart, Late
<1> QED BY <1>2, <1>3, <1>4 DEF PatentInv

\* A verdict on one candidate; what is missing stays missing, and every
\* failure that is new leaves the candidate missing.
LEMMA OneVerdict ==
  ASSUME PatentInv, PatentTypeOK', NEW p \in Patent,
         UNCHANGED <<stage, lookup, ledgerPart>>, stage \in {"fetch", "compare"},
         verdict[p] \notin {"no", "missing"}, verdict'[p] # "no",
         \A o \in Patent \ {p} : verdict'[o] = verdict[o],
         failed' = failed \/ verdict'[p] = "missing"
  PROVE  PatentInv'
<1>1. FailureIsSeen'
  BY DEF PatentInv, FailureIsSeen, Early
<1>2. KnownIsLookedAt'
  BY DEF PatentInv, KnownIsLookedAt, Known, Open, Candidates, ledgerPart
<1> QED BY <1>1, <1>2 DEF PatentInv

LEMMA FetchKeeps ==
  ASSUME PatentInv, NEW p \in Patent, NEW outcome \in {"document", "empty", "failure"},
         FetchDocument(p, outcome)
  PROVE  PatentInv'
<1>1. PatentTypeOK'
  BY DEF PatentInv, PatentTypeOK, FetchDocument, Goes, ledgerPart
<1>2. /\ verdict[p] = "wanted" /\ verdict'[p] \in {"held", "missing"}
      /\ \A o \in Patent \ {p} : verdict'[o] = verdict[o]
      /\ failed' = failed \/ verdict'[p] = "missing"
  BY DEF PatentInv, PatentTypeOK, FetchDocument
<1> QED BY <1>1, <1>2, OneVerdict DEF FetchDocument, Goes

LEMMA CompareKeeps ==
  ASSUME PatentInv, NEW p \in Patent,
         NEW answer \in {"overlaps", "clear", "empty", "malformed", "failure"},
         Compare(p, answer)
  PROVE  PatentInv'
<1>1. AfterMalformed(p) \in {"retried", "missing"}
  BY DEF AfterMalformed
<1>2. /\ verdict[p] \in {"held", "retried"}
      /\ verdict'[p] \in {"overlaps", "clear", "retried", "missing"}
      /\ \A o \in Patent \ {p} : verdict'[o] = verdict[o]
      /\ verdict' \in [Patent -> {"no", "wanted", "held", "retried", "missing",
                                  "overlaps", "clear"}]
  BY <1>1 DEF PatentInv, PatentTypeOK, Compare
<1>3. failed' = failed \/ verdict'[p] = "missing"
  BY <1>1 DEF PatentInv, PatentTypeOK, Compare, AfterMalformed
<1>4. PatentTypeOK'
  BY <1>2 DEF PatentInv, PatentTypeOK, Compare, Goes, ledgerPart
<1> QED BY <1>2, <1>3, <1>4, OneVerdict DEF Compare, Goes

LEMMA PatentStepKeeps == PatentInv /\ [PatentStep]_patentVars => PatentInv'
<1> SUFFICES ASSUME PatentInv, [PatentStep]_patentVars PROVE PatentInv'
  OBVIOUS
<1>1. CASE UNCHANGED patentVars
  BY <1>1 DEF patentVars, PatentInv, PatentTypeOK, FailureIsSeen, KnownIsLookedAt,
              Known, Open, Candidates
<1>2. CASE PatentStep
  <2>1. CASE ExtractNothing \/ NoSearchAnswered \/ DropAnalysis
    BY <2>1, ForgottenKeeps DEF ExtractNothing, NoSearchAnswered, DropAnalysis
  <2>2. CASE AcceptPatents
    BY <2>2, AcceptPatentsKeeps
  <2>3. CASE \/ BeginAnalysis \/ SearchDeadline
             \/ \E S \in SUBSET Query : Extract(S) \/ Relax(S)
             \/ \E q \in Query : FailSearch(q) \/ \E F \in SUBSET Patent : AnswerSearch(q, F)
    BY <2>3, SearchKeeps
  <2>4. CASE CarryNothing \/ StartComparing
    BY <2>4, CarryNothingKeeps
  <2>5. CASE \E S \in SUBSET Patent : Rank(S) \/ CarryForward(S) \/ Screen(S)
    BY <2>5, RankKeeps, CarryKeeps, ScreenKeeps
  <2>6. CASE \E p \in Patent :
               \/ \E outcome \in {"document", "empty", "failure"} : FetchDocument(p, outcome)
               \/ \E answer \in {"overlaps", "clear", "empty", "malformed", "failure"} :
                    Compare(p, answer)
    BY <2>6, FetchKeeps, CompareKeeps
  <2> QED BY <1>2, <2>1, <2>2, <2>3, <2>4, <2>5, <2>6 DEF PatentStep
<1> QED BY <1>1, <1>2

LEMMA PatentInvariant == PatentSpec => []PatentInv
BY InitPatent, PatentStepKeeps, PTL DEF PatentSpec

\* Only the acceptance of a complete result closes a risk.
LEMMA OnlyCompleteCloses ==
  ASSUME PatentInv, PatentStep, NEW p \in Patent, Closes(p)
  PROVE  Complete /\ p \in Open \ Overlapping
<1>1. AcceptPatents
  BY DEF PatentStep, Closes, ledgerPart, BeginAnalysis, ExtractNothing, SearchDeadline,
         NoSearchAnswered, CarryNothing, StartComparing, DropAnalysis, Extract, Relax,
         FailSearch, AnswerSearch, Rank, CarryForward, Screen, FetchDocument, Compare
<1> QED BY <1>1 DEF AcceptPatents, Closes, Open, Overlapping, PatentInv, PatentTypeOK

-----------------------------------------------------------------------------
(* Patents: theorems.                                                      *)

\* The state of a run and of the ledger keeps its types.
THEOREM PatentTypeCorrect == PatentSpec => []PatentTypeOK
BY PatentInvariant, PTL DEF PatentInv

\* A run in which a search, a document or a comparison failed closes no risk.
THEOREM FailureClosesNothingCorrect == PatentSpec => FailureClosesNothing
<1>1. PatentInv /\ [PatentStep]_patentVars
        => [failed # {} => \A p \in Patent : ~ Closes(p)]_patentVars
  <2> SUFFICES ASSUME PatentInv, PatentStep, failed # {}, NEW p \in Patent, Closes(p)
               PROVE  FALSE
    OBVIOUS
  <2>1. /\ "search" \notin failed
        /\ \A c \in Candidates : verdict[c] \in {"overlaps", "clear"}
    BY OnlyCompleteCloses DEF Complete, SearchComplete
  <2>2. PICK c \in Patent : verdict[c] = "missing"
    BY <2>1 DEF PatentInv, FailureIsSeen
  <2> QED BY <2>1, <2>2 DEF Candidates
<1> QED BY <1>1, PatentInvariant, PTL DEF PatentSpec, FailureClosesNothing

\* Where the lookup of earlier patents was whole, a risk is closed by a
\* comparison of its patent and by nothing else.
THEOREM ClosedWasComparedCorrect == PatentSpec => ClosedWasCompared
<1>1. PatentInv /\ [PatentStep]_patentVars
        => [\A p \in Patent : Closes(p) => verdict[p] = "clear" \/ lookup # "whole"]_patentVars
  <2> SUFFICES ASSUME PatentInv, PatentStep, NEW p \in Patent, Closes(p), lookup = "whole"
               PROVE  verdict[p] = "clear"
    OBVIOUS
  <2>1. Complete /\ p \in Open \ Overlapping
    BY OnlyCompleteCloses
  <2>2. stage \in Late
    BY DEF PatentStep, Closes, ledgerPart, BeginAnalysis, ExtractNothing, SearchDeadline,
           NoSearchAnswered, CarryNothing, StartComparing, DropAnalysis, Extract, Relax,
           FailSearch, AnswerSearch, Rank, CarryForward, Screen, FetchDocument, Compare,
           AcceptPatents, Late
  <2>3. p \in Candidates
    BY <2>1, <2>2 DEF PatentInv, KnownIsLookedAt, Known, Open
  <2> QED BY <2>1, <2>3 DEF Complete, Overlapping, Candidates
<1> QED BY <1>1, PatentInvariant, PTL DEF PatentSpec, ClosedWasCompared

-----------------------------------------------------------------------------
(* Licenses.                                                               *)

\* What was not read of the declarations has its reason on record.
LossIsNoted ==
  /\ reading = "evaluate" /\ seen # declared => losses # {}
  /\ reading # "evaluate" => seen = {}

\* A lookup that failed shows in the coverage.
FailureIsNoted ==
  /\ reading = "evaluate" /\ ~ degraded => \A p \in seen : license[p] # "failed"
  /\ reading # "evaluate" => \A p \in Package : license[p] = "none"

LicenseInv == LicenseTypeOK /\ LossIsNoted /\ FailureIsNoted

LEMMA InitLicense == LicenseInit => LicenseInv
BY DEF LicenseInit, LicenseInv, LicenseTypeOK, LossIsNoted, FailureIsNoted

LEMMA LicenseForgottenKeeps ==
  ASSUME LicenseInv, LicenseForgotten, licenseRisk' \subseteq LicenseKey
  PROVE  LicenseInv'
BY DEF LicenseInv, LicenseTypeOK, LossIsNoted, FailureIsNoted, LicenseForgotten

LEMMA RisksAreKeys ==
  ASSUME LicenseInv, \A p \in seen : license[p] # "none"
  PROVE  LicenseRisks \subseteq LicenseKey
BY DEF LicenseInv, LicenseTypeOK, LicenseRisks, Reported, LicenseKey, Expression

LEMMA EvaluateKeeps ==
  ASSUME LicenseInv, NEW p \in Package, NEW dev \in Expression \cup {"absent", "failed"},
         NEW registry \in Expression \cup {"absent", "failed"}, NEW fails \in BOOLEAN,
         Evaluate(p, dev, registry, fails)
  PROVE  LicenseInv'
<1> DEFINE fact == LicenseOf(dev, registry)
<1>1. fact \in Expression \cup {"failed"}
  BY DEF LicenseOf, Expression
<1>2. /\ license' = [license EXCEPT ![p] = fact]
      /\ degraded' = (degraded \/ fact = "failed" \/ fails)
      /\ UNCHANGED <<format, declared, reading, configured, seen, losses, licenseRisk>>
  BY DEF Evaluate
<1>3. LicenseTypeOK'
  BY <1>1, <1>2 DEF LicenseInv, LicenseTypeOK
<1>4. LossIsNoted'
  BY <1>2 DEF LicenseInv, LossIsNoted
<1>5. FailureIsNoted'
  <2>1. reading = "evaluate" /\ reading' = "evaluate"
    BY <1>2 DEF Evaluate
  <2>2. ~ degraded' => ~ degraded /\ fact # "failed"
    BY <1>2
  <2>3. ~ degraded' => \A q \in seen' : license'[q] # "failed"
    BY <1>2, <2>1, <2>2 DEF LicenseInv, LicenseTypeOK, FailureIsNoted
  <2> QED BY <2>1, <2>3 DEF FailureIsNoted
<1> QED BY <1>3, <1>4, <1>5 DEF LicenseInv

LEMMA LicenseStepKeeps == LicenseInv /\ [LicenseStep]_licenseVars => LicenseInv'
<1> SUFFICES ASSUME LicenseInv, [LicenseStep]_licenseVars PROVE LicenseInv'
  OBVIOUS
<1>1. CASE UNCHANGED licenseVars
  BY <1>1 DEF licenseVars, LicenseInv, LicenseTypeOK, LossIsNoted, FailureIsNoted
<1>2. ASSUME NEW packages \in SUBSET Package, NEW profile \in BOOLEAN,
             BeginLicenses(packages, profile)
      PROVE  LicenseInv'
  BY <1>2 DEF BeginLicenses, LicenseInv, LicenseTypeOK, LossIsNoted, FailureIsNoted
<1>3. ASSUME NEW packages \in SUBSET Package,
             NEW reasons \in SUBSET {"cut", "line", "silent"}, Read(packages, reasons)
      PROVE  LicenseInv'
  <2>1. LicenseTypeOK' /\ LossIsNoted'
    BY <1>3 DEF Read, LicenseInv, LicenseTypeOK, LossIsNoted
  <2>2. FailureIsNoted'
    BY <1>3 DEF Read, LicenseInv, LicenseTypeOK, FailureIsNoted
  <2> QED BY <2>1, <2>2 DEF LicenseInv
<1>4. CASE Unreadable
  BY <1>4 DEF Unreadable, LicenseInv, LicenseTypeOK, LossIsNoted, FailureIsNoted
<1>5. CASE AcceptLicenses
  <2>1. LicenseRisks \subseteq LicenseKey
    <3>1. \A p \in seen : license[p] # "none"
      BY <1>5 DEF AcceptLicenses, LicenseInv, LossIsNoted
    <3> QED BY <3>1, RisksAreKeys
  <2> QED BY <1>5, <2>1, LicenseForgottenKeeps DEF AcceptLicenses, LicenseInv, LicenseTypeOK
<1>6. CASE DropLicenses
  BY <1>6, LicenseForgottenKeeps DEF DropLicenses, LicenseInv, LicenseTypeOK
<1> QED BY <1>1, <1>2, <1>3, <1>4, <1>5, <1>6, EvaluateKeeps DEF LicenseStep

LEMMA LicenseInvariant == LicenseSpec => []LicenseInv
BY InitLicense, LicenseStepKeeps, PTL DEF LicenseSpec

\* The state of a run and the open risks keep their types.
THEOREM LicenseTypeCorrect == LicenseSpec => []LicenseTypeOK
BY LicenseInvariant, PTL DEF LicenseInv

\* Where no entry was lost in silence and the cut left something to read, a
\* license risk is closed by a judgement of this run or by a declaration that
\* is no longer there.
THEOREM ClosedWasJudgedCorrect == LicenseSpec => ClosedWasJudged
<1> DEFINE Judged(k) == \/ k[1] \notin declared
                        \/ license[k[1]] \in Expression /\ k \notin LicenseRisks
                        \/ "silent" \in losses
                        \/ "cut" \in losses /\ seen = {}
<1>1. LicenseInv /\ [LicenseStep]_licenseVars
        => [\A k \in licenseRisk \ licenseRisk' : Judged(k)]_licenseVars
  <2> SUFFICES ASSUME LicenseInv, LicenseStep, NEW k \in licenseRisk, k \notin licenseRisk',
                      k[1] \in declared
               PROVE  Judged(k)
    OBVIOUS
  <2>1. AcceptLicenses
    BY DEF LicenseStep, BeginLicenses, Read, Unreadable, Evaluate, DropLicenses
  <2>2. LicensesComplete /\ k \notin LicenseRisks
    BY <2>1 DEF AcceptLicenses
  <2>3. CASE k[1] \in seen
    <3>1. license[k[1]] \notin {"none", "failed"}
      BY <2>1, <2>2, <2>3 DEF AcceptLicenses, LicensesComplete, LicenseInv, FailureIsNoted
    <3> QED BY <2>2, <2>3, <3>1 DEF LicenseInv, LicenseTypeOK
  <2>4. CASE k[1] \notin seen
    BY <2>2, <2>4 DEF LicensesComplete, LicenseInv, LicenseTypeOK, LossIsNoted
  <2> QED BY <2>3, <2>4
<1> QED BY <1>1, LicenseInvariant, PTL DEF LicenseSpec, ClosedWasJudged
=============================================================================
