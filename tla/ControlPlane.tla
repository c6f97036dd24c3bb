---------------------------- MODULE ControlPlane ----------------------------
(***************************************************************************)
(* Six parts of the control plane: the people and mounts of a              *)
(* workspace, its deletion, the connection of a source, the webhooks of a  *)
(* GitHub branch, the patent analysis of a document and the license        *)
(* analysis of a dependency file.  What they share is named in their       *)
(* comments and none of it is written by two of them, so a behaviour is    *)
(* one of a single part: the one chosen at the start, while the others     *)
(* rest in an initial state.                                               *)
(***************************************************************************)
EXTENDS WorkspaceAdmin, WorkspaceErasure, SourceRegistration,
        GitHubFeed, PatentAnalysis, LicenseAnalysis

CONSTANT Part  \* the parts to choose from

VARIABLE part
controlVars == <<part, adminVars, erasureVars, regVars, gitVars, patentVars, licenseVars>>

Init ==
  /\ part \in Part
  /\ AdminInit
  /\ ErasureInit /\ (part # "erasure" => risks = {})
  /\ RegInit /\ (part # "registration" => provider = "drive")
  /\ GitInit /\ (part # "github" => \A x \in Path : branch.content[x] = 0)
  /\ PatentInit /\ (part # "patents" => plan = "baseline")
  /\ LicenseInit /\ (part # "licenses" => format = "lines")

OnPeople(A) ==
  /\ part = "people" /\ A
  /\ UNCHANGED <<part, erasureVars, regVars, gitVars, patentVars, licenseVars>>
OnErasure(A) ==
  /\ part = "erasure" /\ A
  /\ UNCHANGED <<part, adminVars, regVars, gitVars, patentVars, licenseVars>>
OnRegistration(A) ==
  /\ part = "registration" /\ A
  /\ UNCHANGED <<part, adminVars, erasureVars, gitVars, patentVars, licenseVars>>
OnGitHub(A) ==
  /\ part = "github" /\ A
  /\ UNCHANGED <<part, adminVars, erasureVars, regVars, patentVars, licenseVars>>
OnPatents(A) ==
  /\ part = "patents" /\ A
  /\ UNCHANGED <<part, adminVars, erasureVars, regVars, gitVars, licenseVars>>
OnLicenses(A) ==
  /\ part = "licenses" /\ A
  /\ UNCHANGED <<part, adminVars, erasureVars, regVars, gitVars, patentVars>>

Next ==
  \/ OnPeople(AdminStep) \/ OnErasure(ErasureStep) \/ OnRegistration(RegStep)
  \/ OnGitHub(GitStep) \/ OnPatents(PatentStep) \/ OnLicenses(LicenseStep)

Spec == Init /\ [][Next]_controlVars

\* Type correctness of the six.
ControlTypeOK ==
  /\ AdminTypeOK /\ ErasureTypeOK /\ RegTypeOK
  /\ GitTypeOK /\ PatentTypeOK /\ LicenseTypeOK
=============================================================================
