-------------------------- MODULE LicenseAnalysis --------------------------
(***************************************************************************)
(* The license analyzer: the part of a dependency file that the security   *)
(* gate lets through, what its parser reads of it, the license of each     *)
(* declaration, and what the ledger makes of the result.  A declaration    *)
(* that was not read looks like one that was removed, so a result that     *)
(* did not read the whole file must not close risks.                       *)
(*                                                                         *)
(* ONE dependency file is edited and analyzed again and again.  SPDX       *)
(* expressions, the policy table and the clauses attached as evidence are  *)
(* reduced to what decides about a risk.                                   *)
(***************************************************************************)
EXTENDS Naturals, FiniteSets

CONSTANT Package   \* ecosystem, name and version of a declaration

VARIABLES
  format,        \* "lines" (requirements), "sections" (setup.cfg, TOML), "document"
  declared,      \* what the revision under analysis declares
  reading,       \* of the analysis under way
  configured,    \* its workspace's WorkspaceLicensePolicy.is_configured
  seen,          \* declarations read: the DependencySet
  losses,        \* why some may not have been read
  license,       \* each declaration: what its metadata came to in this run
  degraded,      \* a lookup or a clause search failed
  licenseRisk    \* the ledger: the risks that are not closed

licenseVars == <<format, declared, reading, configured, seen, losses, license,
                 degraded, licenseRisk>>

Expression == {"copyleft", "permissive", "UNKNOWN"}

\* license_risk_key: the same package under another license is another risk.
LicenseKey == Package \X Expression

LicenseTypeOK ==
  /\ format \in {"lines", "sections", "document"}
  /\ reading \in {"idle", "read", "evaluate", "unreadable"}
  /\ declared \subseteq Package /\ seen \subseteq declared
  /\ configured \in BOOLEAN /\ degraded \in BOOLEAN
  /\ losses \subseteq {"cut", "line", "silent"}
  /\ license \in [Package -> Expression \cup {"none", "failed"}]
  /\ licenseRisk \subseteq LicenseKey

LicenseInit ==
  /\ format \in {"lines", "sections", "document"}
  /\ reading = "idle" /\ declared = {} /\ seen = {} /\ losses = {}
  /\ configured = FALSE /\ degraded = FALSE
  /\ license = [p \in Package |-> "none"]
  /\ licenseRisk = {}

\* Mutant: the DependencySet outlives the run.
LicenseForgottenButSeen ==
  /\ reading' = "idle" /\ declared' = {} /\ losses' = {} /\ configured' = FALSE
  /\ degraded' = FALSE /\ license' = [p \in Package |-> "none"]
  /\ UNCHANGED <<format, seen>>

\* What a run leaves behind: nothing but the ledger.
LicenseForgotten ==
  /\ reading' = "idle" /\ declared' = {} /\ seen' = {} /\ losses' = {}
  /\ configured' = FALSE /\ degraded' = FALSE
  /\ license' = [p \in Package |-> "none"]
  /\ UNCHANGED format

\* A revision to analyze; people set the deployment profile or clear it.
BeginLicenses(packages, profile) ==
  /\ reading = "idle"
  /\ reading' = "read" /\ declared' = packages /\ configured' = profile
  /\ UNCHANGED <<format, seen, losses, license, degraded, licenseRisk>>

\* The parser read `packages`.  Others are lost beyond the gate's byte limit
\* ("cut": content_scope says so), as lines that are no requirement ("line":
\* the analyzer asks for them) or as entries that the other parsers leave out
\* and versions the DependencySet keeps no second one of ("silent").
Read(packages, reasons) ==
  /\ reading = "read"
  /\ packages \subseteq declared
  /\ packages # declared => reasons # {}
  /\ "line" \in reasons => format = "lines"
  /\ "cut" \in reasons => format # "document"
  /\ seen' = packages /\ losses' = reasons
  /\ reading' = "evaluate"
  /\ UNCHANGED <<format, declared, configured, license, degraded, licenseRisk>>

\* DependencyParseError: a cut or broken document.  PARTIAL without candidates.
Unreadable ==
  /\ reading = "read" /\ format # "lines"
  /\ reading' = "unreadable"
  /\ UNCHANGED <<format, declared, configured, seen, losses, license, degraded,
                 licenseRisk>>

\* get_license: deps.dev, and where it knows nothing the registry.  "absent"
\* is a 404 (or no version to ask for); any other failure ends the lookup.
LicenseOf(devAnswer, registryAnswer) ==
  IF devAnswer = "failed" THEN "failed"
  ELSE IF devAnswer \in Expression \ {"UNKNOWN"} THEN devAnswer
  ELSE IF registryAnswer # "absent" THEN registryAnswer
  ELSE IF devAnswer = "UNKNOWN" THEN "UNKNOWN" ELSE "failed"

\* _evaluate of one declaration.  Only a configured policy asks for clauses,
\* and only where somebody must look (needs_review).
Evaluate(p, devAnswer, registryAnswer, clausesFail) ==
  /\ reading = "evaluate" /\ p \in seen /\ license[p] = "none"
  /\ LET fact == LicenseOf(devAnswer, registryAnswer)
     IN  /\ clausesFail => configured /\ fact \in {"copyleft", "UNKNOWN"}
         /\ license' = [license EXCEPT ![p] = fact]
         /\ degraded' = (degraded \/ fact = "failed" \/ clausesFail)
  /\ UNCHANGED <<format, declared, reading, configured, seen, losses, licenseRisk>>

-----------------------------------------------------------------------------
(* The result.                                                             *)

\* The expression a candidate is reported under.
Reported(p) == IF license[p] = "failed" THEN "UNKNOWN" ELSE license[p]

\* Without a profile, and without metadata, the outcome is UNKNOWN, which a
\* person must see; NO_ACTION is no risk.
RiskWorthy(p) == ~configured \/ Reported(p) # "permissive"

LicenseRisks == {<<p, Reported(p)>> : p \in {q \in seen : RiskWorthy(q)}}

\* Mutant: a lookup that failed is an UNKNOWN license and no more.
LicensesCompleteUnlessCut ==
  /\ reading = "evaluate" /\ "line" \notin losses
  /\ seen # {} => "cut" \notin losses

\* COMPLETE.  Where nothing was read the cut is not asked about.
LicensesComplete ==
  /\ reading = "evaluate" /\ "line" \notin losses
  /\ seen # {} => ~degraded /\ "cut" \notin losses

\* What is reported is recorded; what is not is closed by COMPLETE only.
AcceptLicenses ==
  /\ reading = "unreadable"
     \/ (reading = "evaluate" /\ \A p \in seen : license[p] # "none")
  /\ licenseRisk' = LicenseRisks \cup IF LicensesComplete THEN {} ELSE licenseRisk
  /\ LicenseForgotten

\* Refused as superseded, or an exception out of the cache, or a crash.
DropLicenses == reading # "idle" /\ LicenseForgotten /\ UNCHANGED licenseRisk

LicenseStep ==
  \/ \E packages \in SUBSET Package, profile \in BOOLEAN : BeginLicenses(packages, profile)
  \/ \E packages \in SUBSET Package, reasons \in SUBSET {"cut", "line", "silent"} :
       Read(packages, reasons)
  \/ \E p \in Package, dev, registry \in Expression \cup {"absent", "failed"},
        fails \in BOOLEAN : Evaluate(p, dev, registry, fails)
  \/ Unreadable \/ AcceptLicenses \/ DropLicenses

LicenseSpec == LicenseInit /\ [][LicenseStep]_licenseVars

-----------------------------------------------------------------------------
(* Properties.                                                             *)

\* A license risk is closed only when the file no longer declares its package
\* or this very run looked its license up and came to another judgement;
\* never because the declaration was not read or the registry did not answer.
\* Except where an entry was lost in silence, or a cut file has no
\* declaration in the part that was kept (LicenseAnalyzer.analyze).
ClosedWasJudged ==
  [][\A k \in licenseRisk \ licenseRisk' :
       \/ k[1] \notin declared
       \/ license[k[1]] \in Expression /\ k \notin LicenseRisks
       \/ "silent" \in losses
       \/ "cut" \in losses /\ seen = {}]_licenseVars
=============================================================================
