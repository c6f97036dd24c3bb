------------------------- MODULE ControlPlane_proofs -------------------------
(***************************************************************************)
(* Proofs about the control plane: who owns a workspace, who answers for   *)
(* its mounts and that a removal is final, for any people, mounts and      *)
(* offered roles; what its deletion leaves, for any risks and attempts;    *)
(* that a mounted source stays connected, for any requests, records and    *)
(* sweeps; and that the part a behaviour takes and the five at rest keep   *)
(* their types.                                                            *)
(*                                                                         *)
(* The invariants of the people are proved together: a transfer keeps      *)
(* OneOwner because the owner on record is the one active owner, and       *)
(* CustodyIsMarked because the former owner's new role may still mount     *)
(* sources.  The deletion goes by Progress, what an attempt that is alone  *)
(* has reached at each of its steps.  Of a connection, whoever has read a  *)
(* record as PENDING and too old will take it away later; ReadersAreLate   *)
(* says that a record which became ACTIVE in between is known to be lost   *)
(* (cut).                                                                  *)
(***************************************************************************)
EXTENDS ControlPlane, GitHubFeed_proofs, Analyzers_proofs

USE PeopleAssumption, OfferedAssumption, HandleAssumption

\* Nobody is invited as an owner.
InvitesNoOwner == \A u \in User : invitation[u].role # "OWNER"

\* A mount has been authorised by somebody.
MountedIsInCare == \A m \in Mount : mount[m] # "ABSENT" => custodian[m] \in User

AdminInv ==
  AdminTypeOK /\ OneOwner /\ CustodyIsMarked /\ InvitesNoOwner /\ MountedIsInCare

\* An owner or source manager may mount sources, and nobody else.
LEMMA MayMount ==
  ASSUME NEW r \in Role
  PROVE  "SOURCE_MOUNT" \in PermissionsFor(r) <=> r \in {"OWNER", "SOURCE_MANAGER"}
BY DEF Role, PermissionsFor

LEMMA InitAdmin == AdminInit => AdminInv
BY DEF AdminInit, AdminInv, AdminTypeOK, InvitesNoOwner, MountedIsInCare, OneOwner, CustodyIsMarked, Role,
       SourceStatus, MountStatus

LEMMA AskedManager ==
  ASSUME NEW S \in SUBSET Mount, AdminTypeOK, AskManager(S)
  PROVE  /\ mount' \in [Mount -> MountStatus \cup {"ABSENT"}]
         /\ overruled' \subseteq Mount
         /\ \A m \in Mount \ S : mount'[m] = mount[m]
         /\ \A m \in S : mount'[m] = "MANAGER_ACTION_REQUIRED"
         /\ \A m \in S : mount'[m] \notin SourceStatus
         /\ overruled' = overruled \ S
BY DEF AskManager, AdminTypeOK, MountStatus, SourceStatus

\* Actions that touch neither the workspace nor its members.
LEMMA PeopleUntouched ==
  ASSUME AdminInv, UNCHANGED <<workspace, member>>, AdminTypeOK',
         InvitesNoOwner', MountedIsInCare',
         \A m \in Mount : mount'[m] \in SourceStatus /\ m \notin overruled' =>
            \/ Authorized(custodian'[m], "SOURCE_MOUNT")
            \/ /\ mount[m] \in SourceStatus /\ m \notin overruled
               /\ custodian'[m] = custodian[m]
  PROVE  AdminInv'
<1>1. OneOwner'
  BY DEF AdminInv, OneOwner
<1>2. CustodyIsMarked'
  <2> SUFFICES ASSUME NEW m \in Mount, m \notin overruled', mount'[m] \in SourceStatus
               PROVE  Authorized(custodian[m], "SOURCE_MOUNT")'
    BY DEF CustodyIsMarked
  <2>1. Authorized(custodian'[m], "SOURCE_MOUNT")
    BY DEF AdminInv, CustodyIsMarked
  <2> QED BY <2>1 DEF Authorized
<1> QED BY <1>1, <1>2 DEF AdminInv

LEMMA InviteKeeps ==
  ASSUME AdminInv, NEW a \in User, NEW u \in User, NEW r \in Offered,
         InviteMember(a, u, r)
  PROVE  AdminInv'
<1>1. AdminTypeOK'
  BY DEF AdminInv, AdminTypeOK, InviteMember
<1>2. InvitesNoOwner'
  BY DEF AdminInv, AdminTypeOK, InviteMember, InvitesNoOwner
<1> QED BY <1>1, <1>2, PeopleUntouched DEF InviteMember, AdminInv, CustodyIsMarked, MountedIsInCare

LEMMA RevokeKeeps ==
  ASSUME AdminInv, NEW a \in User, NEW u \in User, RevokeInvitation(a, u)
  PROVE  AdminInv'
<1>1. AdminTypeOK'
  BY DEF AdminInv, AdminTypeOK, RevokeInvitation
<1>2. InvitesNoOwner'
  BY DEF AdminInv, AdminTypeOK, RevokeInvitation, InvitesNoOwner
<1> QED BY <1>1, <1>2, PeopleUntouched DEF RevokeInvitation, AdminInv, CustodyIsMarked, MountedIsInCare

LEMMA DeletionKeeps ==
  ASSUME AdminInv, NEW a \in User, RequestDeletion(a)
  PROVE  AdminInv'
<1>1. AdminTypeOK' /\ workspace'.owner = workspace.owner
  BY DEF AdminInv, AdminTypeOK, RequestDeletion
<1>2. OneOwner'
  BY <1>1 DEF AdminInv, OneOwner, RequestDeletion
<1>3. CustodyIsMarked'
  BY DEF AdminInv, CustodyIsMarked, RequestDeletion, Authorized
<1>4. InvitesNoOwner' /\ MountedIsInCare'
  BY DEF AdminInv, InvitesNoOwner, MountedIsInCare, RequestDeletion
<1> QED BY <1>1, <1>2, <1>3, <1>4 DEF AdminInv

LEMMA RegisterKeeps ==
  ASSUME AdminInv, NEW a \in User, NEW m \in Mount, RegisterMount(a, m)
  PROVE  AdminInv'
<1>1. AdminTypeOK'
  BY DEF AdminInv, AdminTypeOK, RegisterMount, SourceStatus, MountStatus
<1>2. /\ custodian'[m] = a /\ Authorized(a, "SOURCE_MOUNT")
      /\ \A n \in Mount \ {m} : mount'[n] = mount[n] /\ custodian'[n] = custodian[n]
  BY DEF AdminInv, AdminTypeOK, RegisterMount
<1>3. MountedIsInCare'
  BY <1>2 DEF AdminInv, MountedIsInCare
<1> QED BY <1>1, <1>2, <1>3, PeopleUntouched DEF RegisterMount, AdminInv, InvitesNoOwner

LEMMA DisableKeeps ==
  ASSUME AdminInv, NEW a \in User, NEW m \in Mount,
         DisableMount(a, m) \/ RemoveMount(a, m)
  PROVE  AdminInv'
<1>1. AdminTypeOK'
  BY DEF AdminInv, AdminTypeOK, DisableMount, RemoveMount, MountStatus
<1>2. /\ mount'[m] \notin SourceStatus /\ UNCHANGED <<workspace, member, invitation, custodian>>
      /\ \A n \in Mount \ {m} : mount'[n] = mount[n]
      /\ overruled' = overruled \ {m} /\ (mount'[m] # "ABSENT" => mount[m] # "ABSENT")
      /\ UNCHANGED invitation
  BY DEF AdminInv, AdminTypeOK, DisableMount, RemoveMount, OwnerAdministers, SourceStatus
<1>3. InvitesNoOwner' /\ MountedIsInCare'
  BY <1>2 DEF AdminInv, InvitesNoOwner, MountedIsInCare
<1> QED BY <1>1, <1>2, <1>3, PeopleUntouched

\* A report takes a mount out of MANAGER_ACTION_REQUIRED only into overruled.
LEMMA HealthKeeps ==
  ASSUME AdminInv, NEW m \in Mount, NEW h \in SourceStatus, RecordHealth(m, h)
  PROVE  AdminInv'
<1>1. AdminTypeOK'
  BY DEF AdminInv, AdminTypeOK, RecordHealth, MountStatus
<1>2. /\ UNCHANGED <<workspace, member, invitation, custodian>>
      /\ \A n \in Mount \ {m} : mount'[n] = mount[n]
      /\ overruled \subseteq overruled'
      /\ mount[m] # "ABSENT" /\ (m \notin overruled' => mount[m] \in SourceStatus)
  BY DEF AdminInv, AdminTypeOK, RecordHealth, MountStatus
<1>3. InvitesNoOwner' /\ MountedIsInCare'
  BY <1>2 DEF AdminInv, InvitesNoOwner, MountedIsInCare
<1> QED BY <1>1, <1>2, <1>3, PeopleUntouched

\* Who could not be added had no membership and owned nothing.
LEMMA AcceptKeeps ==
  ASSUME AdminInv, NEW u \in User, AcceptInvitation(u)
  PROVE  AdminInv'
<1>1. AdminTypeOK'
  BY DEF AdminInv, AdminTypeOK, AcceptInvitation
<1>2. InvitesNoOwner'
  BY DEF AdminInv, AdminTypeOK, AcceptInvitation, InvitesNoOwner
<1>3. /\ member[u].status = "NONE" /\ member'[u].role # "OWNER"
      /\ \A v \in User \ {u} : member'[v] = member[v]
      /\ UNCHANGED <<workspace, mount, custodian, overruled>>
  BY DEF AdminInv, AdminTypeOK, AcceptInvitation, CanBeAdded, InvitesNoOwner
<1>4. OneOwner'
  <2>1. \A v \in User : member'[v] = [role |-> "OWNER", status |-> "ACTIVE"]
                           <=> member[v] = [role |-> "OWNER", status |-> "ACTIVE"]
    BY <1>3
  <2> QED BY <2>1, <1>3 DEF AdminInv, OneOwner
<1>5. CustodyIsMarked'
  BY <1>3 DEF AdminInv, AdminTypeOK, CustodyIsMarked, MountedIsInCare, SourceStatus,
              Authorized
<1> QED BY <1>1, <1>2, <1>3, <1>4, <1>5 DEF AdminInv, MountedIsInCare

\* The role or the membership of somebody who owns nothing, and a mark on the
\* mounts in that person's care if they could mount sources until now.
LEMMA MemberLowered ==
  ASSUME AdminInv, AdminTypeOK', NEW u \in User, NEW S \in SUBSET Mount, AskManager(S),
         member[u].role # "OWNER", member'[u].role # "OWNER",
         \A v \in User \ {u} : member'[v] = member[v],
         UNCHANGED <<workspace, invitation, custodian>>,
         \A m \in S : mount[m] # "ABSENT",
         \A m \in Mount \ S : mount[m] \in SourceStatus /\ custodian[m] = u
                             => ~ Authorized(u, "SOURCE_MOUNT")
  PROVE  AdminInv'
<1>1. InvitesNoOwner' /\ MountedIsInCare'
  BY AskedManager DEF AdminInv, InvitesNoOwner, MountedIsInCare
<1>2. OneOwner'
  <2>1. \A v \in User : member'[v] = [role |-> "OWNER", status |-> "ACTIVE"]
                           <=> member[v] = [role |-> "OWNER", status |-> "ACTIVE"]
    OBVIOUS
  <2> QED BY <2>1 DEF AdminInv, OneOwner
<1>3. CustodyIsMarked'
  <2> SUFFICES ASSUME NEW m \in Mount, m \notin overruled', mount'[m] \in SourceStatus
               PROVE  Authorized(custodian[m], "SOURCE_MOUNT")'
    BY DEF CustodyIsMarked
  <2>1. m \notin S /\ mount'[m] = mount[m] /\ m \notin overruled
    BY AskedManager DEF AdminInv
  <2>2. /\ Authorized(custodian[m], "SOURCE_MOUNT") /\ custodian[m] # u
        /\ custodian[m] \in User
    BY <2>1 DEF AdminInv, CustodyIsMarked, MountedIsInCare, SourceStatus
  <2> QED BY <2>2 DEF Authorized
<1> QED BY <1>1, <1>2, <1>3 DEF AdminInv

LEMMA InCare ==
  ASSUME AdminTypeOK, NEW u \in User
  PROVE  /\ InTheCareOf(u) \subseteq Mount
         /\ \A m \in InTheCareOf(u) : mount[m] # "ABSENT"
         /\ \A m \in Mount : mount[m] \in SourceStatus /\ custodian[m] = u
                             => m \in InTheCareOf(u)
BY DEF InTheCareOf, SourceStatus

LEMMA RemoveKeeps ==
  ASSUME AdminInv, NEW a \in User, NEW u \in User, RemoveMember(a, u)
  PROVE  AdminInv'
<1> DEFINE S == InTheCareOf(u)
<1>1. S \in SUBSET Mount /\ AskManager(S)
  BY InCare DEF AdminInv, RemoveMember
<1>2. AdminTypeOK'
  BY <1>1, AskedManager DEF AdminInv, AdminTypeOK, RemoveMember
<1>3. /\ member[u].role # "OWNER" /\ member'[u].role = member[u].role
      /\ \A v \in User \ {u} : member'[v] = member[v]
      /\ UNCHANGED <<workspace, invitation, custodian>>
  BY DEF AdminInv, AdminTypeOK, RemoveMember
<1> QED BY <1>1, <1>2, <1>3, InCare, MemberLowered DEF AdminInv

LEMMA RoleKeeps ==
  ASSUME AdminInv, NEW a \in User, NEW u \in User, NEW r \in Offered,
         ChangeMemberRole(a, u, r)
  PROVE  AdminInv'
<1> DEFINE S == IF member[u].role = "SOURCE_MANAGER" THEN InTheCareOf(u) ELSE {}
<1>1. S \in SUBSET Mount /\ AskManager(S)
  BY InCare DEF AdminInv, ChangeMemberRole
<1>2. AdminTypeOK'
  BY <1>1, AskedManager DEF AdminInv, AdminTypeOK, ChangeMemberRole
<1>3. /\ member[u].role # "OWNER" /\ member'[u].role # "OWNER"
      /\ \A v \in User \ {u} : member'[v] = member[v]
      /\ UNCHANGED <<workspace, invitation, custodian>>
  BY DEF AdminInv, AdminTypeOK, ChangeMemberRole
<1>4. \A m \in Mount \ S : mount[m] \in SourceStatus /\ custodian[m] = u
                           => ~ Authorized(u, "SOURCE_MOUNT")
  BY <1>3, InCare, MayMount DEF Authorized, AdminInv, AdminTypeOK
<1>5. \A m \in S : mount[m] # "ABSENT"
  BY InCare DEF AdminInv
<1> QED BY <1>1, <1>2, <1>3, <1>4, <1>5, MemberLowered

\* The successor's membership is active, the former owner's stays so.
LEMMA TransferKeeps ==
  ASSUME AdminInv, NEW a \in User, NEW u \in User, TransferOwnership(a, u)
  PROVE  AdminInv'
<1>1. AdminTypeOK'
  <2>1. workspace' \in [status : {"ACTIVE", "DELETING"}, owner : User]
    BY DEF AdminInv, AdminTypeOK, TransferOwnership
  <2>2. member' \in [User -> [role : Role, status : {"NONE", "ACTIVE", "REMOVED"}]]
    <3>1. ASSUME NEW v \in User
          PROVE  member'[v] \in [role : Role, status : {"NONE", "ACTIVE", "REMOVED"}]
      BY DEF AdminInv, AdminTypeOK, TransferOwnership, FormerOwnerRole, Role
    <3>2. member' = [v \in User |-> member'[v]]
      BY DEF AdminInv, AdminTypeOK, TransferOwnership
    <3> QED BY <3>1, <3>2
  <2> QED BY <2>1, <2>2 DEF AdminInv, AdminTypeOK, TransferOwnership
<1>2. /\ workspace.owner = a /\ workspace'.owner = u /\ u # a
      /\ member'[a] = [role |-> "SOURCE_MANAGER", status |-> "ACTIVE"]
      /\ member'[u] = [role |-> "OWNER", status |-> "ACTIVE"]
      /\ \A v \in User \ {a, u} : member'[v] = member[v]
      /\ UNCHANGED <<invitation, mount, custodian, overruled>>
  BY DEF AdminInv, AdminTypeOK, TransferOwnership, FormerOwnerRole, Authorized
<1>3. OneOwner'
  BY <1>2 DEF AdminInv, OneOwner
<1>4. CustodyIsMarked'
  <2>1. Authorized(a, "SOURCE_MOUNT")' /\ Authorized(u, "SOURCE_MOUNT")'
    BY <1>2, MayMount DEF Authorized, Role
  <2> QED BY <2>1, <1>2 DEF AdminInv, CustodyIsMarked, MountedIsInCare, SourceStatus,
                          Authorized
<1> QED BY <1>1, <1>2, <1>3, <1>4 DEF AdminInv, InvitesNoOwner, MountedIsInCare

LEMMA AdminStepKeeps == AdminInv /\ [AdminStep]_adminVars => AdminInv'
<1> SUFFICES ASSUME AdminInv, [AdminStep]_adminVars PROVE AdminInv'
  OBVIOUS
<1>1. CASE UNCHANGED adminVars
  BY <1>1 DEF adminVars, AdminInv, AdminTypeOK, OneOwner, CustodyIsMarked,
              InvitesNoOwner, MountedIsInCare, Authorized
<1>2. CASE AdminStep
  BY <1>2, InviteKeeps, RevokeKeeps, DeletionKeeps, RegisterKeeps, DisableKeeps,
     HealthKeeps, AcceptKeeps, RemoveKeeps, RoleKeeps, TransferKeeps DEF AdminStep
<1> QED BY <1>1, <1>2

LEMMA AdminInvariant == AdminSpec => []AdminInv
<1> QED BY InitAdmin, AdminStepKeeps, PTL DEF AdminSpec

\* The documents of a workspace keep their types.
THEOREM AdminTypeCorrect == AdminSpec => []AdminTypeOK
BY AdminInvariant, PTL DEF AdminInv

\* Through any invitations, role changes, removals and transfers the owner on
\* record is the one active owner.
THEOREM OneOwnerCorrect == AdminSpec => []OneOwner
BY AdminInvariant, PTL DEF AdminInv

\* A followed mount that no health report has overruled is in the care of a
\* member who may mount sources.
THEOREM CustodyIsMarkedCorrect == AdminSpec => []CustodyIsMarked
BY AdminInvariant, PTL DEF AdminInv

\* No operation takes a membership out of REMOVED: a removed owner cannot be
\* (an owner is active), and an invitation is accepted only by who never
\* was a member.
THEOREM RemovalIsFinalCorrect == AdminSpec => RemovalIsFinal
<1>1. AdminInv /\ [AdminStep]_adminVars
        => [\A u \in User : member[u].status = "REMOVED"
                             => member'[u].status = "REMOVED"]_adminVars
  <2> SUFFICES ASSUME AdminInv, AdminStep, NEW u \in User, member[u].status = "REMOVED"
               PROVE  member'[u].status = "REMOVED"
    OBVIOUS
  <2>1. ASSUME NEW v \in User, AcceptInvitation(v) PROVE member'[u].status = "REMOVED"
    BY <2>1 DEF AdminInv, AdminTypeOK, AcceptInvitation, CanBeAdded
  <2>2. ASSUME NEW a \in User, NEW v \in User, NEW r \in Offered,
               ChangeMemberRole(a, v, r) \/ InviteMember(a, v, r)
        PROVE  member'[u].status = "REMOVED"
    BY <2>2 DEF AdminInv, AdminTypeOK, ChangeMemberRole, InviteMember
  <2>3. ASSUME NEW a \in User, NEW v \in User,
               TransferOwnership(a, v) \/ RemoveMember(a, v) \/ RevokeInvitation(a, v)
        PROVE  member'[u].status = "REMOVED"
    BY <2>3 DEF AdminInv, AdminTypeOK, TransferOwnership, RemoveMember,
                RevokeInvitation, Authorized
  <2>4. ASSUME NEW v \in User, RequestDeletion(v) PROVE member'[u].status = "REMOVED"
    BY <2>4 DEF RequestDeletion
  <2>5. ASSUME NEW a \in User, NEW m \in Mount,
               RegisterMount(a, m) \/ DisableMount(a, m) \/ RemoveMount(a, m)
        PROVE  member'[u].status = "REMOVED"
    BY <2>5 DEF RegisterMount, DisableMount, RemoveMount
  <2>6. ASSUME NEW m \in Mount, NEW h \in SourceStatus, RecordHealth(m, h)
        PROVE  member'[u].status = "REMOVED"
    BY <2>6 DEF RecordHealth
  <2> QED BY <2>1, <2>2, <2>3, <2>4, <2>5, <2>6 DEF AdminStep
<1> QED BY <1>1, AdminInvariant, PTL DEF AdminSpec, RemovalIsFinal

-----------------------------------------------------------------------------
(* The deletion.                                                           *)

Alone == "overlap" \notin meanwhile

AfterMembers == {"mounts", "artifacts", "risks", "sources", "keys", "workspace", "done"}
AfterRisks == {"sources", "keys", "workspace"}

\* The owner's membership goes before the mount, the artifact and the risks,
\* and nobody brings it back.
OwnerGoesFirst ==
  /\ "owner" \in docs => /\ {"workspace", "mount", "artifact"} \subseteq docs
                         /\ evidence \cup keys \subseteq risks
                         /\ \A a \in Attempt : step[a] \notin AfterMembers
  /\ "workspace" \notin docs => status = "DELETING"
  /\ \A a \in Attempt : Underway(a) => status = "DELETING"

\* What attempt a, if it is alone, has reached.
Listed(a) ==
  step[a] \notin {"operational", "list"} =>
    /\ listed[a].documents = {"mount", "artifact"}
    /\ risks \cup evidence \cup keys \subseteq listed[a].risks \cup meanwhile

Progress(a) ==
  /\ step[a] \in {"operational", "list", "jobs", "evidence", "members"} => "owner" \in docs
  /\ step[a] # "operational" => docs \cap {"operational"} \subseteq meanwhile
  /\ Listed(a)
  /\ step[a] \in {"evidence", "members"} \cup AfterMembers => "job" \notin docs
  /\ step[a] \in {"members"} \cup AfterMembers => evidence \subseteq meanwhile
  /\ step[a] \in AfterMembers => "owner" \notin docs
  /\ step[a] \in AfterMembers \ {"mounts"} => "mount" \notin docs
  /\ step[a] \in AfterRisks \cup {"risks"} => "artifact" \notin docs
  /\ step[a] \in AfterRisks => risks = {}
  /\ step[a] \in {"keys", "workspace"} => "source" \notin docs
  /\ step[a] = "workspace" => keys \subseteq meanwhile

OneAlone ==
  Alone => /\ \A a, b \in Attempt : Underway(a) /\ Underway(b) => a = b
           /\ "workspace" \notin docs => \A a \in Attempt : ~ Underway(a)
           /\ \A a \in Attempt : Underway(a) => Progress(a)

ErasureInv == ErasureTypeOK /\ OwnerGoesFirst /\ OneAlone /\ GoneIsComplete

LEMMA InitErasure == ErasureInit => ErasureInv
BY DEF ErasureInit, ErasureInv, ErasureTypeOK, OwnerGoesFirst, OneAlone, GoneIsComplete,
       Document, Step, Underway, AfterMembers

\* What one step of the canonical eraser removes.
LEMMA Erased ==
  ASSUME ErasureTypeOK, NEW a \in Attempt, EraseNext(a)
  PROVE  /\ UNCHANGED <<status, listed, worker, round, meanwhile>>
         /\ step' = [step EXCEPT ![a] = After(step[a])] /\ Underway(a)
         /\ docs' \subseteq docs /\ risks' \subseteq risks
         /\ evidence' \subseteq evidence /\ keys' \subseteq keys
         /\ step[a] \notin {"operational", "list"}
         /\ step[a] = "jobs" =>
              /\ step'[a] = "evidence" /\ UNCHANGED <<risks, evidence, keys>>
              /\ docs \ {"job"} \subseteq docs'
              /\ "artifact" \in listed[a].documents => "job" \notin docs'
         /\ step[a] = "evidence" =>
              /\ step'[a] = "members" /\ UNCHANGED <<docs, risks, keys>>
              /\ evidence' = evidence \ listed[a].risks
         /\ step[a] = "members" =>
              /\ step'[a] = "mounts" /\ UNCHANGED <<risks, evidence, keys>>
              /\ docs' = docs \ {"owner"}
         /\ step[a] = "mounts" =>
              /\ step'[a] = "artifacts" /\ UNCHANGED <<risks, evidence, keys>>
              /\ docs' = docs \ {"mount"}
         /\ step[a] = "artifacts" =>
              /\ step'[a] = "risks" /\ UNCHANGED <<risks, evidence, keys>>
              /\ docs' = docs \ {"artifact"}
         /\ step[a] = "risks" =>
              /\ step'[a] = "sources" /\ UNCHANGED <<docs, evidence, keys>>
              /\ risks' = {}
         /\ step[a] = "sources" =>
              /\ step'[a] = "keys" /\ UNCHANGED <<risks, evidence, keys>>
              /\ docs \ {"source"} \subseteq docs'
              /\ "mount" \in listed[a].documents /\ "mount" \notin docs => "source" \notin docs'
         /\ step[a] = "keys" =>
              /\ step'[a] = "workspace" /\ UNCHANGED <<docs, risks, evidence>>
              /\ keys' = keys \ listed[a].risks
         /\ step[a] = "workspace" =>
              /\ step'[a] = "done" /\ UNCHANGED <<risks, evidence, keys>>
              /\ docs' = docs \ {"workspace"}
         /\ step[a] \in {"jobs", "evidence", "members", "mounts", "artifacts", "risks",
                         "sources", "keys", "workspace"}
<1>1. /\ UNCHANGED <<status, listed, worker, round, meanwhile>>
      /\ step' = [step EXCEPT ![a] = After(step[a])] /\ Underway(a)
      /\ step'[a] = After(step[a])
      /\ step[a] \in {"jobs", "evidence", "members", "mounts", "artifacts", "risks",
                      "sources", "keys", "workspace"}
  BY DEF EraseNext, ErasureTypeOK, Step, Underway
<1>2. CASE step[a] = "jobs"
  BY <1>1, <1>2 DEF EraseNext, After
<1>3. CASE step[a] = "evidence"
  BY <1>1, <1>3 DEF EraseNext, After
<1>4. CASE step[a] = "members"
  BY <1>1, <1>4 DEF EraseNext, After
<1>5. CASE step[a] = "mounts"
  BY <1>1, <1>5 DEF EraseNext, After
<1>6. CASE step[a] = "artifacts"
  BY <1>1, <1>6 DEF EraseNext, After
<1>7. CASE step[a] = "risks"
  BY <1>1, <1>7 DEF EraseNext, After
<1>8. CASE step[a] = "sources"
  BY <1>1, <1>8 DEF EraseNext, After
<1>9. CASE step[a] = "keys"
  BY <1>1, <1>9 DEF EraseNext, After, KeysOf
<1>10. CASE step[a] = "workspace"
  BY <1>1, <1>10 DEF EraseNext, After
<1> QED BY <1>1, <1>2, <1>3, <1>4, <1>5, <1>6, <1>7, <1>8, <1>9, <1>10

LEMMA TypeNext ==
  ASSUME ErasureTypeOK, NEW a \in Attempt, EraseNext(a)
  PROVE  ErasureTypeOK'
<1>1. step'[a] \in Step
  BY Erased DEF Step
<1>2. step' \in [Attempt -> Step]
  BY <1>1, Erased DEF ErasureTypeOK
<1> QED BY <1>2, Erased DEF ErasureTypeOK

LEMMA OwnerNext ==
  ASSUME ErasureInv, NEW a \in Attempt, EraseNext(a)
  PROVE  OwnerGoesFirst'
<1>1. \A b \in Attempt \ {a} : step'[b] = step[b]
  BY Erased DEF ErasureInv, ErasureTypeOK
<1>2. CASE step[a] \in AfterMembers \cup {"members"}
  <2>1. "owner" \notin docs'
    BY <1>2, Erased DEF ErasureInv, OwnerGoesFirst, AfterMembers
  <2>2. status' = "DELETING"
    BY Erased DEF ErasureInv, OwnerGoesFirst
  <2> QED BY <2>1, <2>2 DEF OwnerGoesFirst
<1>3. CASE step[a] \in {"jobs", "evidence"}
  <2>1. /\ docs \ {"job"} \subseteq docs' /\ docs' \subseteq docs /\ risks' = risks
        /\ evidence' \subseteq evidence /\ keys' = keys /\ step'[a] \notin AfterMembers
        /\ status' = "DELETING"
    BY <1>3, Erased DEF ErasureInv, OwnerGoesFirst, AfterMembers
  <2> QED BY <2>1, <1>1 DEF ErasureInv, OwnerGoesFirst
<1> QED BY <1>2, <1>3, Erased DEF AfterMembers, ErasureInv

LEMMA ProgressNext ==
  ASSUME ErasureInv, NEW a \in Attempt, EraseNext(a), Alone'
  PROVE  Progress(a)'
<1>1. Alone /\ Progress(a) /\ ErasureTypeOK
  BY Erased DEF Alone, ErasureInv, OneAlone
<1> USE DEF AfterMembers, AfterRisks
<1>2. Listed(a)'
  BY <1>1, Erased DEF Progress, Listed
<1>3. CASE step[a] = "jobs"
  BY <1>1, <1>2, <1>3, Erased DEF Progress, Listed
<1>4. CASE step[a] = "evidence"
  BY <1>1, <1>2, <1>4, Erased DEF Progress, Listed
<1>5. CASE step[a] = "members"
  BY <1>1, <1>2, <1>5, Erased DEF Progress, Listed
<1>6. CASE step[a] = "mounts"
  BY <1>1, <1>2, <1>6, Erased DEF Progress, Listed
<1>7. CASE step[a] = "artifacts"
  BY <1>1, <1>2, <1>7, Erased DEF Progress, Listed
<1>8. CASE step[a] = "risks"
  BY <1>1, <1>2, <1>8, Erased DEF Progress, Listed
<1>9. CASE step[a] = "sources"
  BY <1>1, <1>2, <1>9, Erased DEF Progress, Listed
<1>10. CASE step[a] = "keys"
  BY <1>1, <1>2, <1>10, Erased DEF Progress, Listed
<1>11. CASE step[a] = "workspace"
  BY <1>1, <1>2, <1>11, Erased DEF Progress, Listed
<1> QED BY <1>1, <1>3, <1>4, <1>5, <1>6, <1>7, <1>8, <1>9, <1>10, <1>11, Erased

LEMMA NextKeeps ==
  ASSUME ErasureInv, NEW a \in Attempt, EraseNext(a)
  PROVE  ErasureInv'
<1>1. ErasureTypeOK' /\ OwnerGoesFirst'
  BY TypeNext, OwnerNext DEF ErasureInv
<1>2. /\ \A b \in Attempt \ {a} : step'[b] = step[b]
      /\ UNCHANGED <<status, listed, worker, round, meanwhile>> /\ Underway(a)
      /\ docs' \subseteq docs /\ Alone' = Alone
  BY Erased DEF ErasureInv, ErasureTypeOK, Alone
<1>3. Alone => \A b \in Attempt \ {a} : ~ Underway(b) /\ ~ Underway(b)'
  BY <1>2 DEF ErasureInv, OneAlone, Underway
<1>4. Alone /\ "workspace" \notin docs' => step[a] = "workspace" /\ ~ Underway(a)'
  <2>1. Alone => "workspace" \in docs
    BY <1>2 DEF ErasureInv, OneAlone
  <2>2. "workspace" \in docs /\ "workspace" \notin docs' => step[a] = "workspace"
    BY Erased DEF ErasureInv
  <2>3. step[a] = "workspace" => ~ Underway(a)'
    BY Erased DEF Underway, ErasureInv
  <2> QED BY <2>1, <2>2, <2>3
<1>5. OneAlone'
  BY <1>2, <1>3, <1>4, ProgressNext DEF OneAlone
<1>6. GoneIsComplete'
  <2> SUFFICES ASSUME Alone, "workspace" \notin docs'
               PROVE  /\ docs' \subseteq meanwhile \cap {"operational"}
                      /\ risks' = {} /\ evidence' \subseteq meanwhile /\ keys' \subseteq meanwhile
    BY <1>2 DEF GoneIsComplete, Alone
  <2>1. Progress(a) /\ step[a] = "workspace"
    BY <1>2, <1>4 DEF ErasureInv, OneAlone
  <2>2. /\ docs' = docs \ {"workspace"} /\ UNCHANGED <<risks, evidence, keys>>
    BY <2>1, Erased DEF ErasureInv
  <2> QED BY <2>1, <2>2 DEF Progress, ErasureInv, ErasureTypeOK, Document,
                            AfterMembers, AfterRisks
<1> QED BY <1>1, <1>5, <1>6 DEF ErasureInv

\* A second attempt beside another one is an overlap.
LEMMA BeginKeeps ==
  ASSUME ErasureInv, NEW a \in Attempt, Begin(a)
  PROVE  ErasureInv'
<1>1. /\ step' = [step EXCEPT ![a] = "operational"] /\ step[a] = "idle"
      /\ step'[a] = "operational" /\ \A b \in Attempt \ {a} : step'[b] = step[b]
      /\ {"workspace", "owner"} \subseteq docs /\ status' = "DELETING"
      /\ UNCHANGED <<docs, risks, evidence, keys, listed>>
      /\ meanwhile \subseteq meanwhile'
      /\ Alone' => Alone /\ ~ Deleting
  BY DEF Begin, ErasureInv, ErasureTypeOK, Alone
<1>2. ErasureTypeOK'
  BY DEF Begin, ErasureInv, ErasureTypeOK, Step
<1>3. OwnerGoesFirst'
  BY <1>1 DEF ErasureInv, OwnerGoesFirst, AfterMembers
<1>4. Progress(a)'
  BY <1>1 DEF Progress, Listed, AfterMembers, AfterRisks
<1>5. Alone' => \A b \in Attempt \ {a} : ~ Underway(b)'
  BY <1>1 DEF Deleting, Underway
<1>6. OneAlone' /\ GoneIsComplete'
  BY <1>1, <1>4, <1>5 DEF OneAlone, GoneIsComplete
<1> QED BY <1>2, <1>3, <1>6 DEF ErasureInv

LEMMA EarlyKeeps ==
  ASSUME ErasureInv, NEW a \in Attempt, EraseOperational(a) \/ ListOwned(a)
  PROVE  ErasureInv'
<1>1. /\ step[a] \in {"operational", "list"} /\ step'[a] \in {"list", "jobs"}
      /\ \A b \in Attempt \ {a} : step'[b] = step[b] /\ listed'[b] = listed[b]
      /\ docs' \subseteq docs /\ docs \ {"operational"} \subseteq docs'
      /\ UNCHANGED <<status, risks, evidence, keys, meanwhile>>
  BY DEF EraseOperational, ListOwned, ErasureInv, ErasureTypeOK
<1>2. ErasureTypeOK'
  BY DEF EraseOperational, ListOwned, ErasureInv, ErasureTypeOK, Step
<1>3. OwnerGoesFirst'
  BY <1>1 DEF ErasureInv, OwnerGoesFirst, AfterMembers, Underway
<1>4. Alone => "owner" \in docs /\ Progress(a)
  BY <1>1 DEF ErasureInv, OneAlone, Progress, Underway
<1>5. Alone => Progress(a)'
  <2>1. CASE EraseOperational(a)
    <3>1. "owner" \in docs => "operational" \notin docs' /\ "owner" \in docs'
      BY <2>1 DEF EraseOperational, ErasureInv, OwnerGoesFirst
    <3>2. step'[a] = "list"
      BY <2>1 DEF EraseOperational, ErasureInv, ErasureTypeOK
    <3> QED BY <1>4, <3>1, <3>2 DEF Progress, Listed, AfterMembers, AfterRisks
  <2>2. CASE ListOwned(a)
    <3>1. /\ step'[a] = "jobs" /\ docs' = docs /\ step[a] = "list"
          /\ listed'[a].documents = docs \cap {"mount", "artifact"}
          /\ listed'[a].risks = risks
      BY <2>2 DEF ListOwned, ErasureInv, ErasureTypeOK
    <3>2. Listed(a)' \/ ~ Alone
      BY <1>1, <1>4, <3>1 DEF Listed, ErasureInv, OwnerGoesFirst
    <3> QED BY <1>1, <1>4, <3>1, <3>2 DEF Progress, AfterMembers, AfterRisks
  <2> QED BY <2>1, <2>2
<1>6. Alone => \A b \in Attempt \ {a} : ~ Underway(b) /\ ~ Underway(b)'
  BY <1>1 DEF ErasureInv, OneAlone, Underway
<1>7. OneAlone' /\ GoneIsComplete'
  BY <1>1, <1>4, <1>5, <1>6 DEF OneAlone, GoneIsComplete, ErasureInv, OwnerGoesFirst, Alone
<1> QED BY <1>2, <1>3, <1>7 DEF ErasureInv

LEMMA FailKeeps ==
  ASSUME ErasureInv, NEW a \in Attempt, Fail(a)
  PROVE  ErasureInv'
<1>1. /\ step'[a] = "failed" /\ \A b \in Attempt \ {a} : step'[b] = step[b]
      /\ UNCHANGED <<docs, status, risks, evidence, keys, listed, meanwhile>>
  BY DEF Fail, ErasureInv, ErasureTypeOK
<1>2. ErasureTypeOK'
  BY DEF Fail, ErasureInv, ErasureTypeOK, Step
<1>3. OwnerGoesFirst'
  BY <1>1 DEF ErasureInv, OwnerGoesFirst, AfterMembers, Underway
<1>4. \A b \in Attempt : Underway(b)' => Underway(b) /\ b # a
  BY <1>1 DEF Underway
<1>5. \A b \in Attempt \ {a} : Progress(b)' = Progress(b)
  BY <1>1 DEF Progress, Listed
<1>6. OneAlone' /\ GoneIsComplete'
  BY <1>1, <1>4, <1>5 DEF ErasureInv, OneAlone, GoneIsComplete, Alone
<1> QED BY <1>2, <1>3, <1>6 DEF ErasureInv

\* A result accepted during the deletion is on record, and one before it is
\* listed by the attempt that follows.
LEMMA ResultKeeps ==
  ASSUME ErasureInv, NEW r \in Risk, AcceptResult(r)
  PROVE  ErasureInv'
<1>1. /\ {"workspace", "artifact", "job"} \subseteq docs
      /\ UNCHANGED <<docs, status, step, listed>>
      /\ risks' = risks \cup {r} /\ evidence' = evidence \cup {r} /\ keys' = keys \cup {r}
      /\ meanwhile' \in {meanwhile, meanwhile \cup {r}}
      /\ Deleting => r \in meanwhile'
  BY DEF AcceptResult
<1>2. ErasureTypeOK'
  BY DEF AcceptResult, ErasureInv, ErasureTypeOK
<1>3. OwnerGoesFirst'
  BY <1>1 DEF ErasureInv, OwnerGoesFirst, Underway
<1>4. Alone' => Alone
  BY <1>1 DEF Alone
<1>5. ASSUME NEW a \in Attempt, Underway(a), Progress(a) PROVE Progress(a)'
  <2>1. /\ meanwhile' = meanwhile \cup {r} /\ r \in meanwhile'
        /\ step[a] \notin {"evidence", "members"} \cup AfterMembers
    BY <1>1, <1>5 DEF Deleting, Progress
  <2>2. Listed(a)'
    BY <1>1, <1>5, <2>1 DEF Progress, Listed
  <2> QED BY <1>1, <1>5, <2>1, <2>2 DEF Progress, AfterMembers, AfterRisks
<1>6. OneAlone'
  BY <1>1, <1>4, <1>5 DEF ErasureInv, OneAlone, Underway
<1>7. GoneIsComplete'
  BY <1>1 DEF GoneIsComplete
<1> QED BY <1>2, <1>3, <1>6, <1>7 DEF ErasureInv

LEMMA RoundKeeps ==
  ASSUME ErasureInv, BeginRound \/ SaveRound
  PROVE  ErasureInv'
<1>1. /\ UNCHANGED <<status, risks, evidence, keys, step, listed>>
      /\ docs' \in {docs, docs \cup {"operational"}}
      /\ meanwhile' \in {meanwhile, meanwhile \cup {"operational"}}
      /\ docs' # docs /\ status = "DELETING" => "operational" \in meanwhile'
  BY DEF BeginRound, SaveRound
<1>2. ErasureTypeOK'
  BY DEF BeginRound, SaveRound, ErasureInv, ErasureTypeOK, Document
<1>3. OwnerGoesFirst'
  BY <1>1 DEF ErasureInv, OwnerGoesFirst, Underway
<1>4. Alone' => Alone
  BY <1>1 DEF Alone
<1>5. ASSUME NEW a \in Attempt, Underway(a), Progress(a) PROVE Progress(a)'
  <2>1. status = "DELETING"
    BY <1>5 DEF ErasureInv, OwnerGoesFirst
  <2> QED BY <1>1, <1>5, <2>1 DEF Progress, Listed
<1>6. OneAlone'
  BY <1>1, <1>4, <1>5 DEF ErasureInv, OneAlone, Underway
<1>7. GoneIsComplete'
  BY <1>1, <1>4 DEF ErasureInv, OwnerGoesFirst, GoneIsComplete, Alone
<1> QED BY <1>2, <1>3, <1>6, <1>7 DEF ErasureInv

LEMMA ErasureStepKeeps == ErasureInv /\ [ErasureStep]_erasureVars => ErasureInv'
<1> SUFFICES ASSUME ErasureInv, [ErasureStep]_erasureVars PROVE ErasureInv'
  OBVIOUS
<1>1. CASE UNCHANGED erasureVars
  BY <1>1 DEF erasureVars, ErasureInv, ErasureTypeOK, OwnerGoesFirst, OneAlone,
              GoneIsComplete, Alone, Underway, Progress, Listed
<1>2. CASE ErasureStep
  BY <1>2, BeginKeeps, EarlyKeeps, NextKeeps, FailKeeps, ResultKeeps, RoundKeeps
     DEF ErasureStep
<1> QED BY <1>1, <1>2

LEMMA ErasureInvariant == ErasureSpec => []ErasureInv
BY InitErasure, ErasureStepKeeps, PTL DEF ErasureSpec

\* The documents of a workspace under deletion keep their types.
THEOREM ErasureTypeCorrect == ErasureSpec => []ErasureTypeOK
BY ErasureInvariant, PTL DEF ErasureInv

\* Unless attempts overlapped, a workspace whose document is gone has left
\* nothing but what was written while it was being erased.
THEOREM GoneIsCompleteCorrect == ErasureSpec => []GoneIsComplete
BY ErasureInvariant, PTL DEF ErasureInv

\* As long as the owner can ask again, all that is left can be found.
THEOREM RetryFindsAllCorrect == ErasureSpec => []RetryFindsAll
<1>1. ErasureInv => RetryFindsAll
  BY DEF ErasureInv, OwnerGoesFirst, RetryFindsAll
<1> QED BY <1>1, ErasureInvariant, PTL

-----------------------------------------------------------------------------
(* The connection of a source.                                             *)

\* A request that goes on names a record.
NamesRecord ==
  \A r \in Call :
    call[r].at # "ended" =>
      \/ call[r].handle \in Handle
      \/ call[r].at \in {"idle", "connect"} /\ call[r].seen # "usable"

ReadersAreLate ==
  \A h \in Handle \ cut :
    pending[h] = "ACTIVE" =>
      /\ h \notin swept
      /\ \A o \in Call : call[o].at = "expire" => call[o].handle # h

RegInv == RegTypeOK /\ NamesRecord /\ ReadersAreLate /\ MountedStaysConnected

LEMMA InitReg == RegInit => RegInv
BY DEF RegInit, RegInv, RegTypeOK, NamesRecord, ReadersAreLate, MountedStaysConnected

-----------------------------------------------------------------------------
(* Steps of a request.                                                     *)

\* A request moves, reads at most, and does not leave "activate".
LEMMA RequestMoves ==
  ASSUME RegInv, RegTypeOK', NamesRecord', NEW r \in Call,
         UNCHANGED <<pending, bound, swept, cut>>,
         \A o \in Call \ {r} : call'[o] = call[o],
         call[r].at # "activate",
         call'[r].at = "expire" => pending[call'[r].handle] # "ACTIVE"
  PROVE  RegInv'
<1>1. ReadersAreLate'
  BY DEF RegInv, ReadersAreLate
<1>2. MountedStaysConnected'
  BY DEF RegInv, MountedStaysConnected, At
<1> QED BY <1>1, <1>2 DEF RegInv

LEMMA FindKeeps ==
  ASSUME RegInv, NEW r \in Call, FindConnection(r) \/ NameConnection(r)
  PROVE  RegInv'
<1>1. /\ UNCHANGED <<pending, bound, swept, cut>> /\ call[r].at = "idle"
      /\ \A o \in Call \ {r} : call'[o] = call[o]
      /\ call'[r].at \in {"connect", "require"}
  BY DEF RegInv, RegTypeOK, FindConnection, NameConnection, At, GoesTo
<1>2. RegTypeOK'
  <2>1. CASE FindConnection(r) /\ Stored = {}
    BY <2>1 DEF RegInv, RegTypeOK, FindConnection, GoesTo
  <2>2. ASSUME NEW h \in Stored,
               call' = [call EXCEPT ![r] =
                 [at |-> "connect", handle |-> h,
                  seen |-> IF Usable(h) THEN "usable" ELSE "spent"]],
               UNCHANGED <<provider, pending, lapsed, bound, mounted, swept, cut>>
        PROVE  RegTypeOK'
    <3>1. (IF Usable(h) THEN "usable" ELSE "spent") \in {"none", "usable", "spent"}
      OBVIOUS
    <3> QED BY <2>2, <3>1 DEF RegInv, RegTypeOK, Stored
  <2>3. ASSUME NEW h \in Handle,
               call' = [call EXCEPT ![r].at = "require", ![r].handle = h],
               UNCHANGED <<provider, pending, lapsed, bound, mounted, swept, cut>>
        PROVE  RegTypeOK'
    <3> DEFINE States == {"idle", "connect", "require", "expire", "check", "again",
                          "register", "bind", "activate", "ended"}
               Requests == [at : States, handle : Handle \cup {0},
                            seen : {"none", "usable", "spent"}]
    <3>1. call \in [Call -> Requests]
      BY DEF RegInv, RegTypeOK
    <3>2. [call[r] EXCEPT !.at = "require", !.handle = h] \in Requests
      BY <3>1
    <3> HIDE DEF Requests
    <3>3. call' \in [Call -> Requests]
      BY <2>3, <3>1, <3>2
    <3> QED BY <2>3, <3>3 DEF RegInv, RegTypeOK, Stored, Requests
  <2> QED BY <2>1, <2>2, <2>3 DEF FindConnection, NameConnection
<1>3. /\ call'[r].at = "require" => call'[r].handle \in Handle
      /\ call'[r].handle \in Handle \/ call'[r].seen # "usable"
  <2>1. CASE NameConnection(r)
    <3>1. PICK h \in Handle : call' = [call EXCEPT ![r].at = "require", ![r].handle = h]
      BY <2>1 DEF NameConnection
    <3> QED BY <3>1 DEF RegInv, RegTypeOK
  <2>2. CASE FindConnection(r)
    BY <2>2 DEF RegInv, RegTypeOK, NamesRecord, FindConnection, At, GoesTo, Stored
  <2> QED BY <2>1, <2>2
<1>4. NamesRecord'
  BY <1>1, <1>3 DEF RegInv, NamesRecord
<1> QED BY <1>1, <1>2, <1>4, RequestMoves

\* A request that is not about to activate, and takes no ACTIVE record away
\* but one in cut, leaves the bindings connected.
LEMMA ConnectedStay ==
  ASSUME RegInv, NEW r \in Call, UNCHANGED <<bound, cut>>, call[r].at # "activate",
         \A o \in Call \ {r} : call'[o] = call[o],
         \A h \in Handle \ cut : pending[h] = "ACTIVE" => pending'[h] = "ACTIVE"
  PROVE  MountedStaysConnected'
<1>1. SUFFICES ASSUME NEW h \in bound \ cut
               PROVE  \/ pending'[h] = "ACTIVE"
                      \/ \E o \in Call : call'[o].at = "activate" /\ call'[o].handle = h
  BY DEF MountedStaysConnected, At
<1>2. h \in Handle \ cut
  BY DEF RegInv, RegTypeOK
<1>3. CASE pending[h] = "ACTIVE"
  BY <1>2, <1>3
<1>4. CASE \E o \in Call : call[o].at = "activate" /\ call[o].handle = h
  <2>1. PICK o \in Call : call[o].at = "activate" /\ call[o].handle = h
    BY <1>4
  <2>2. call'[o] = call[o]
    BY <2>1
  <2> QED BY <2>1, <2>2
<1> QED BY <1>3, <1>4 DEF RegInv, MountedStaysConnected, At

\* A new record is PENDING.
LEMMA ConnectKeeps ==
  ASSUME RegInv, NEW r \in Call, Connect(r)
  PROVE  RegInv'
<1>1. RegTypeOK'
  BY DEF RegInv, RegTypeOK, Connect, At, GoesTo
<1>2. NamesRecord'
  BY DEF RegInv, RegTypeOK, NamesRecord, Connect, At, GoesTo
<1>3. /\ UNCHANGED <<bound, swept, cut>> /\ call[r].at = "connect" /\ call'[r].at = "require"
      /\ \A o \in Call \ {r} : call'[o] = call[o]
      /\ \A h \in Handle : pending'[h] = "ACTIVE" <=> pending[h] = "ACTIVE"
  BY DEF RegInv, RegTypeOK, Connect, At, GoesTo
<1>4. ReadersAreLate'
  BY <1>3 DEF RegInv, ReadersAreLate
<1>5. MountedStaysConnected'
  BY <1>3, ConnectedStay
<1> QED BY <1>1, <1>2, <1>4, <1>5 DEF RegInv

\* Only a record read as PENDING is about to expire.
LEMMA RequireKeeps ==
  ASSUME RegInv, NEW r \in Call, RequirePending(r) \/ CheckTracked(r) \/ Register(r)
  PROVE  RegInv'
<1>1. /\ UNCHANGED <<pending, bound, swept, cut>>
      /\ call[r].at \in {"require", "again", "check", "register"}
      /\ \A o \in Call \ {r} : call'[o] = call[o]
      /\ call'[r].handle = call[r].handle
      /\ call'[r].at = "expire" => pending[call[r].handle] = "PENDING"
  BY DEF RegInv, RegTypeOK, RequirePending, CheckTracked, Register, At, GoesTo
<1>2. RegTypeOK'
  BY DEF RegInv, RegTypeOK, RequirePending, CheckTracked, Register, At, GoesTo
<1>3. NamesRecord'
  BY <1>1, <1>2 DEF RegInv, NamesRecord
<1> QED BY <1>1, <1>2, <1>3, RequestMoves

LEMMA ExpireKeeps ==
  ASSUME RegInv, NEW r \in Call, ExpirePending(r)
  PROVE  RegInv'
<1> DEFINE h == call[r].handle
<1>1. h \in Handle
  BY DEF RegInv, NamesRecord, ExpirePending, At
<1>2. /\ UNCHANGED <<bound, swept, cut>> /\ call[r].at = "expire" /\ call'[r].at = "ended"
      /\ \A o \in Call \ {r} : call'[o] = call[o]
      /\ pending'[h] = "EXPIRED" /\ \A g \in Handle \ {h} : pending'[g] = pending[g]
      /\ h \in cut \/ pending[h] # "ACTIVE"
  BY <1>1 DEF RegInv, RegTypeOK, ReadersAreLate, ExpirePending, At, GoesTo
<1>3. RegTypeOK'
  BY DEF RegInv, RegTypeOK, ExpirePending, At, GoesTo
<1>4. NamesRecord'
  BY <1>2 DEF RegInv, NamesRecord
<1>5. ReadersAreLate'
  BY <1>2 DEF RegInv, ReadersAreLate
<1>6. MountedStaysConnected'
  <2>1. \A g \in Handle \ cut : pending[g] = "ACTIVE" => pending'[g] = "ACTIVE"
    BY <1>2
  <2> QED BY <1>2, <2>1, ConnectedStay
<1> QED BY <1>3, <1>4, <1>5, <1>6 DEF RegInv

\* The connection that is bound is about to be activated.
LEMMA BindKeeps ==
  ASSUME RegInv, NEW r \in Call, SaveBinding(r)
  PROVE  RegInv'
<1>1. call[r].handle \in Handle
  BY DEF RegInv, NamesRecord, SaveBinding, At
<1>2. /\ UNCHANGED <<pending, swept, cut>>
      /\ bound' \subseteq {call[r].handle} \cup bound
      /\ call[r].at = "bind" /\ call'[r].at = "activate"
      /\ call'[r].handle = call[r].handle
      /\ \A o \in Call \ {r} : call'[o] = call[o]
  BY DEF RegInv, RegTypeOK, SaveBinding, At, GoesTo
<1>3. RegTypeOK'
  BY <1>1 DEF RegInv, RegTypeOK, SaveBinding, At, GoesTo
<1>4. NamesRecord'
  BY <1>1, <1>2 DEF RegInv, NamesRecord
<1>5. ReadersAreLate'
  BY <1>2 DEF RegInv, ReadersAreLate
<1>6. MountedStaysConnected'
  BY <1>2 DEF RegInv, MountedStaysConnected, At
<1> QED BY <1>3, <1>4, <1>5, <1>6 DEF RegInv

LEMMA ActivateKeeps ==
  ASSUME RegInv, NEW r \in Call, ActivatePending(r)
  PROVE  RegInv'
<1> DEFINE h == call[r].handle
<1>1. h \in Handle
  BY DEF RegInv, NamesRecord, ActivatePending, At
<1>2. /\ UNCHANGED <<bound, swept>> /\ call[r].at = "activate" /\ call'[r].at = "ended"
      /\ \A o \in Call \ {r} : call'[o] = call[o]
      /\ pending'[h] = "ACTIVE" /\ \A g \in Handle \ {h} : pending'[g] = pending[g]
      /\ cut' = IF Overtaken(r) THEN cut \cup {h} ELSE cut \ {h}
  BY <1>1 DEF RegInv, RegTypeOK, ActivatePending, At, GoesTo
<1>3. h \notin cut' => /\ h \notin swept
                       /\ \A o \in Call : call'[o].at = "expire" => call'[o].handle # h
  BY <1>2 DEF Overtaken, At
<1>4. RegTypeOK'
  BY <1>1 DEF RegInv, RegTypeOK, ActivatePending, At, GoesTo
<1>5. NamesRecord'
  BY <1>2 DEF RegInv, NamesRecord
<1>6. ReadersAreLate'
  <2> SUFFICES ASSUME NEW g \in Handle \ {h}, g \notin cut', pending'[g] = "ACTIVE"
               PROVE  /\ g \notin swept'
                      /\ \A o \in Call : call'[o].at = "expire" => call'[o].handle # g
    BY <1>2, <1>3 DEF ReadersAreLate
  <2>1. g \notin cut /\ pending[g] = "ACTIVE"
    BY <1>2
  <2>2. ASSUME NEW o \in Call, call'[o].at = "expire" PROVE call[o].at = "expire" /\ call'[o] = call[o]
    <3>1. o # r
      BY <2>2, <1>2
    <3> QED BY <2>2, <3>1, <1>2
  <2>3. g \notin swept /\ \A o \in Call : call[o].at = "expire" => call[o].handle # g
    BY <2>1 DEF RegInv, ReadersAreLate
  <2>4. g \notin swept'
    BY <1>2, <2>3
  <2>5. ASSUME NEW o \in Call, call'[o].at = "expire" PROVE call'[o].handle # g
    BY <2>2, <2>3, <2>5
  <2> QED BY <2>4, <2>5
<1>7. MountedStaysConnected'
  <2> SUFFICES ASSUME NEW g \in bound \ {h}, g \notin cut'
               PROVE  \/ pending'[g] = "ACTIVE"
                      \/ \E o \in Call : call'[o].at = "activate" /\ call'[o].handle = g
    BY <1>2 DEF MountedStaysConnected, At
  <2>1. g \in Handle /\ g \notin cut
    BY <1>2 DEF RegInv, RegTypeOK
  <2>2. \/ pending[g] = "ACTIVE"
        \/ \E o \in Call : call[o].at = "activate" /\ call[o].handle = g
    BY <2>1 DEF RegInv, MountedStaysConnected, At
  <2>3. ASSUME NEW o \in Call, call[o].at = "activate", call[o].handle = g
        PROVE  call'[o].at = "activate" /\ call'[o].handle = g
    <3>1. o # r
      BY <2>3
    <3> QED BY <2>3, <3>1, <1>2
  <2> QED BY <1>2, <2>1, <2>2, <2>3
<1> QED BY <1>4, <1>5, <1>6, <1>7 DEF RegInv

LEMMA AbortKeeps ==
  ASSUME RegInv, NEW r \in Call, Abort(r)
  PROVE  RegInv'
<1>1. /\ UNCHANGED <<pending, bound, swept>> /\ call'[r].at = "ended" /\ cut \subseteq cut'
      /\ \A o \in Call \ {r} : call'[o] = call[o]
      /\ call[r].at = "activate" =>
           call[r].handle \in cut' \/ pending[call[r].handle] = "ACTIVE"
  BY DEF RegInv, RegTypeOK, Abort, At, GoesTo
<1>2. RegTypeOK'
  BY DEF RegInv, RegTypeOK, NamesRecord, Abort, At, GoesTo
<1>3. NamesRecord'
  BY <1>1 DEF RegInv, NamesRecord
<1>4. ReadersAreLate'
  BY <1>1 DEF RegInv, ReadersAreLate
<1>5. MountedStaysConnected'
  BY <1>1 DEF RegInv, MountedStaysConnected, At
<1> QED BY <1>2, <1>3, <1>4, <1>5 DEF RegInv

-----------------------------------------------------------------------------
(* The schedule, the owner and the clock.                                  *)

LEMMA SweepKeeps ==
  ASSUME RegInv, NEW h \in Handle, SweepRecord(h)
  PROVE  RegInv'
<1>1. /\ UNCHANGED <<bound, call, cut>> /\ h \in swept /\ swept' = swept \ {h}
      /\ pending'[h] = "GONE" /\ \A g \in Handle \ {h} : pending'[g] = pending[g]
      /\ h \in cut \/ pending[h] # "ACTIVE"
  BY DEF RegInv, RegTypeOK, ReadersAreLate, SweepRecord
<1>2. RegTypeOK'
  BY DEF RegInv, RegTypeOK, SweepRecord
<1>3. NamesRecord'
  BY <1>1 DEF RegInv, NamesRecord
<1>4. ReadersAreLate'
  BY <1>1 DEF RegInv, ReadersAreLate
<1>5. MountedStaysConnected'
  BY <1>1 DEF RegInv, RegTypeOK, MountedStaysConnected, At
<1> QED BY <1>2, <1>3, <1>4, <1>5 DEF RegInv

LEMMA OthersKeep ==
  ASSUME RegInv,
         \/ SweepPage \/ \E h \in Handle : Lapse(h)
         \/ \E s \in {"DISABLED", "ABSENT"} : Withdraw(s)
  PROVE  RegInv'
<1>1. /\ UNCHANGED <<pending, bound, call, cut>>
      /\ \A h \in swept' \ swept : pending[h] = "PENDING"
  BY DEF SweepPage, Lapse, Withdraw, IsCleanupCandidate
<1>2. RegTypeOK'
  BY DEF RegInv, RegTypeOK, SweepPage, Lapse, Withdraw, Stored
<1>3. NamesRecord'
  BY <1>1 DEF RegInv, NamesRecord
<1>4. ReadersAreLate'
  BY <1>1 DEF RegInv, ReadersAreLate
<1>5. MountedStaysConnected'
  BY <1>1 DEF RegInv, MountedStaysConnected, At
<1> QED BY <1>2, <1>3, <1>4, <1>5 DEF RegInv

LEMMA RegStepKeeps == RegInv /\ [RegStep]_regVars => RegInv'
<1> SUFFICES ASSUME RegInv, [RegStep]_regVars PROVE RegInv'
  OBVIOUS
<1>1. CASE UNCHANGED regVars
  BY <1>1 DEF regVars, RegInv, RegTypeOK, NamesRecord, ReadersAreLate,
              MountedStaysConnected, At
<1>2. CASE RegStep
  <2>1. ASSUME NEW r \in Call,
               \/ FindConnection(r) \/ Connect(r) \/ NameConnection(r)
               \/ RequirePending(r)
               \/ ExpirePending(r) \/ CheckTracked(r) \/ Register(r) \/ SaveBinding(r)
               \/ ActivatePending(r) \/ Abort(r)
        PROVE  RegInv'
    BY <2>1, FindKeeps, ConnectKeeps, RequireKeeps, ExpireKeeps, BindKeeps,
       ActivateKeeps, AbortKeeps
  <2>2. CASE \E h \in Handle : SweepRecord(h)
    BY <2>2, SweepKeeps
  <2>3. CASE \/ SweepPage \/ \E h \in Handle : Lapse(h)
             \/ \E s \in {"DISABLED", "ABSENT"} : Withdraw(s)
    BY <2>3, OthersKeep
  <2> QED BY <1>2, <2>1, <2>2, <2>3 DEF RegStep
<1> QED BY <1>1, <1>2

LEMMA RegInvariant == RegSpec => []RegInv
BY InitReg, RegStepKeeps, PTL DEF RegSpec

-----------------------------------------------------------------------------
(* Theorems.                                                               *)

\* Records, bindings, the mount and the requests keep their types.
THEOREM RegTypeCorrect == RegSpec => []RegTypeOK
BY RegInvariant, PTL DEF RegInv

\* Whatever requests, sweeps and expiries interleave, a bound connection is
\* ACTIVE or about to be, unless the request died or a late reader overtook it.
THEOREM MountedStaysConnectedCorrect == RegSpec => []MountedStaysConnected
BY RegInvariant, PTL DEF RegInv

-----------------------------------------------------------------------------
(* The six parts in one specification.                                     *)

\* A behaviour of the whole is one of each part: of the part chosen at the
\* start, and of the others at rest.
LEMMA ControlParts ==
  Spec => /\ AdminSpec /\ ErasureSpec /\ RegSpec
          /\ GitSpec /\ PatentSpec /\ LicenseSpec
<1>1. Init => /\ AdminInit /\ ErasureInit /\ RegInit
              /\ GitInit /\ PatentInit /\ LicenseInit
  BY DEF Init
<1>2. [Next]_controlVars => /\ [AdminStep]_adminVars /\ [ErasureStep]_erasureVars
                            /\ [RegStep]_regVars /\ [GitStep]_gitVars
                            /\ [PatentStep]_patentVars /\ [LicenseStep]_licenseVars
  <2> SUFFICES ASSUME [Next]_controlVars
               PROVE  /\ [AdminStep]_adminVars /\ [ErasureStep]_erasureVars
                      /\ [RegStep]_regVars /\ [GitStep]_gitVars
                      /\ [PatentStep]_patentVars /\ [LicenseStep]_licenseVars
    OBVIOUS
  <2>1. CASE OnPeople(AdminStep)
    BY <2>1 DEF OnPeople
  <2>2. CASE OnErasure(ErasureStep)
    BY <2>2 DEF OnErasure
  <2>3. CASE OnRegistration(RegStep)
    BY <2>3 DEF OnRegistration
  <2>4. CASE OnGitHub(GitStep)
    BY <2>4 DEF OnGitHub
  <2>5. CASE OnPatents(PatentStep)
    BY <2>5 DEF OnPatents
  <2>6. CASE OnLicenses(LicenseStep)
    BY <2>6 DEF OnLicenses
  <2>7. CASE UNCHANGED controlVars
    BY <2>7 DEF controlVars
  <2> QED
    BY <2>1, <2>2, <2>3, <2>4, <2>5, <2>6, <2>7 DEF Next
<1> QED
  BY <1>1, <1>2, PTL DEF Spec, AdminSpec, ErasureSpec, RegSpec, GitSpec, PatentSpec, LicenseSpec

\* Members, risks, records, deliveries, verdicts and declarations keep their
\* shapes, whichever part is chosen at the start.
THEOREM ControlTypeCorrect == Spec => []ControlTypeOK
BY ControlParts, AdminTypeCorrect, ErasureTypeCorrect, RegTypeCorrect,
   GitTypeCorrect, PatentTypeCorrect, LicenseTypeCorrect, PTL DEF ControlTypeOK
=============================================================================
