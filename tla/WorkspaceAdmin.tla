--------------------------- MODULE WorkspaceAdmin ---------------------------
(***************************************************************************)
(* The administration of ONE workspace: who belongs to it, with which      *)
(* role, who owns it, and whose source mounts it follows.                  *)
(*                                                                         *)
(* Every operation is one unit of work over the documents it read, hence   *)
(* one action.  A person has one e-mail address, and an invitation's       *)
(* identity is the address.  A mount stands for the source connection, the *)
(* source workspace and the WorkspaceMount that derive their identities    *)
(* from it: the connection keeps the person who authorised it when the     *)
(* mount is removed.  Audit events and the risks of a mount are left out:  *)
(* RiskLedger has the latter.                                              *)
(***************************************************************************)
EXTENDS Naturals, FiniteSets

CONSTANTS
  User,      \* people with an account
  Founder,   \* who creates the workspace
  NoUser,    \* nobody has authorised the connection
  Mount,     \* source mounts
  Offered    \* the roles invitations and role changes ask for

Role == {"OWNER", "SOURCE_MANAGER", "RISK_REVIEWER", "VIEWER"}

ASSUME PeopleAssumption == Founder \in User /\ NoUser \notin User
ASSUME OfferedAssumption == Offered \subseteq Role

VARIABLES
  workspace,   \* RiskWorkspace: status and owner_user_id
  member,      \* Membership of each person
  invitation,  \* MembershipInvitation of each person's address
  mount,       \* WorkspaceMount: status
  custodian,   \* authorized_by_user_id, and mounted_by_user_id of the mount
  source,      \* SourceConnection and SourceWorkspace: status
  overruled    \* mounts a health report took out of MANAGER_ACTION_REQUIRED

adminVars == <<workspace, member, invitation, mount, custodian, source,
               overruled>>

SourceStatus == {"ACTIVE", "REAUTH_REQUIRED", "SOURCE_OFFLINE"}
MountStatus == SourceStatus \cup {"MANAGER_ACTION_REQUIRED", "DISABLED"}

AdminTypeOK ==
  /\ workspace \in [status : {"ACTIVE", "DELETING"}, owner : User]
  /\ member \in [User -> [role : Role, status : {"NONE", "ACTIVE", "REMOVED"}]]
  /\ invitation \in [User -> [role : Role, status : {"NONE", "PENDING",
                                                     "ACCEPTED", "REVOKED"}]]
  /\ mount \in [Mount -> MountStatus \cup {"ABSENT"}]
  /\ custodian \in [Mount -> User \cup {NoUser}]
  /\ source \in [Mount -> SourceStatus \cup {"ABSENT"}]
  /\ overruled \subseteq Mount

\* create_workspace, on a store with no sources.
AdminInit ==
  /\ workspace = [status |-> "ACTIVE", owner |-> Founder]
  /\ member = [u \in User |->
                 IF u = Founder THEN [role |-> "OWNER", status |-> "ACTIVE"]
                 ELSE [role |-> "VIEWER", status |-> "NONE"]]
  /\ invitation = [u \in User |-> [role |-> "VIEWER", status |-> "NONE"]]
  /\ mount = [m \in Mount |-> "ABSENT"]
  /\ custodian = [m \in Mount |-> NoUser]
  /\ source = [m \in Mount |-> "ABSENT"]
  /\ overruled = {}

-----------------------------------------------------------------------------
(* What a role permits.                                                    *)

PermissionsFor(role) ==
  CASE role = "VIEWER" -> {"VWS_VIEW", "RISK_VIEW"}
    [] role = "RISK_REVIEWER" -> {"VWS_VIEW", "RISK_VIEW", "RISK_REVIEW"}
    [] role = "SOURCE_MANAGER" -> {"VWS_VIEW", "RISK_VIEW", "RISK_REVIEW",
                                   "SOURCE_MOUNT", "OWN_SOURCE_MANAGE"}
    [] role = "OWNER" -> {"VWS_VIEW", "RISK_VIEW", "RISK_REVIEW",
                          "SOURCE_MOUNT", "OWN_SOURCE_MANAGE",
                          "VWS_SECURITY_MANAGE", "MEMBER_MANAGE",
                          "WORKSPACE_DELETE", "OWNERSHIP_TRANSFER"}

\* authorize_vws_action of an action that is not about one mount.
Authorized(actor, permission) ==
  /\ member[actor].status = "ACTIVE"
  /\ permission \in PermissionsFor(member[actor].role)

\* authorize_vws_action of MOUNT_DISABLE and MOUNT_REMOVE.
OwnerAdministers(actor, m) ==
  /\ Authorized(actor, "VWS_SECURITY_MANAGE")
  /\ member[actor].role = "OWNER"
  /\ mount[m] # "ABSENT"

-----------------------------------------------------------------------------
(* Members.                                                                *)

\* One invitation ever per address: its identity is derived from it.
InviteMember(actor, u, role) ==
  /\ Authorized(actor, "MEMBER_MANAGE")
  /\ role # "OWNER"
  /\ invitation[u].status = "NONE"
  /\ invitation' = [invitation EXCEPT ![u] = [role |-> role,
                                              status |-> "PENDING"]]
  /\ UNCHANGED <<workspace, member, mount, custodian, source, overruled>>

\* Mutant: the membership is saved over the old one instead of added.
IsNewMember(u) == member[u].status # "ACTIVE"

\* memberships.add: one membership ever per person, removed or not.
CanBeAdded(u) == member[u].status = "NONE"

AcceptInvitation(u) ==
  /\ invitation[u].status = "PENDING"
  /\ CanBeAdded(u)
  /\ invitation' = [invitation EXCEPT ![u].status = "ACCEPTED"]
  /\ member' = [member EXCEPT ![u] = [role |-> invitation[u].role,
                                      status |-> "ACTIVE"]]
  /\ UNCHANGED <<workspace, mount, custodian, source, overruled>>

RevokeInvitation(actor, u) ==
  /\ Authorized(actor, "MEMBER_MANAGE")
  /\ invitation[u].status = "PENDING"
  /\ invitation' = [invitation EXCEPT ![u].status = "REVOKED"]
  /\ UNCHANGED <<workspace, member, mount, custodian, source, overruled>>

\* Mutant: mounts that report a problem of their own are passed over.
InTheCareOfActive(u) == {m \in Mount : custodian[m] = u /\ mount[m] = "ACTIVE"}

\* The mounts _manager_action_mounts picks.
InTheCareOf(u) ==
  {m \in Mount : custodian[m] = u /\ mount[m] \notin {"ABSENT", "DISABLED"}}

AskManager(mounts) ==
  /\ mount' = [m \in Mount |-> IF m \in mounts THEN "MANAGER_ACTION_REQUIRED"
                               ELSE mount[m]]
  /\ overruled' = overruled \ mounts

ChangeMemberRole(actor, target, role) ==
  /\ Authorized(actor, "MEMBER_MANAGE")
  /\ member[target].status = "ACTIVE"
  /\ member[target].role # "OWNER" /\ role # "OWNER"
  /\ member[target].role # role
  /\ member' = [member EXCEPT ![target].role = role]
  /\ AskManager(IF member[target].role = "SOURCE_MANAGER"
                THEN InTheCareOf(target) ELSE {})
  /\ UNCHANGED <<workspace, invitation, custodian, source>>

\* Mutant: the previous owner keeps the role.
KeepsRole(u) == "OWNER"

\* The role the previous owner gets, which keeps the mounts in its care.
FormerOwnerRole(u) == "SOURCE_MANAGER"

TransferOwnership(actor, successor) ==
  /\ Authorized(actor, "OWNERSHIP_TRANSFER")
  /\ workspace.owner = actor /\ member[actor].role = "OWNER"
  /\ successor # actor
  /\ member[successor].status = "ACTIVE"
  /\ workspace' = [workspace EXCEPT !.owner = successor]
  /\ member' = [member EXCEPT ![actor].role = FormerOwnerRole(actor),
                              ![successor].role = "OWNER"]
  /\ UNCHANGED <<invitation, mount, custodian, source, overruled>>

RemoveMember(actor, target) ==
  /\ Authorized(actor, "MEMBER_MANAGE")
  /\ member[target].status = "ACTIVE"
  /\ member[target].role # "OWNER" /\ target # workspace.owner
  /\ member' = [member EXCEPT ![target].status = "REMOVED"]
  /\ AskManager(InTheCareOf(target))
  /\ UNCHANGED <<workspace, invitation, custodian, source>>

\* The first unit of work of request_workspace_deletion, also of a retry:
\* WorkspaceErasure has the rest.
RequestDeletion(actor) ==
  /\ Authorized(actor, "WORKSPACE_DELETE")
  /\ workspace.owner = actor
  /\ workspace' = [workspace EXCEPT !.status = "DELETING"]
  /\ UNCHANGED <<member, invitation, mount, custodian, source, overruled>>

-----------------------------------------------------------------------------
(* Mounts.                                                                 *)

\* register_source_metadata, one unit of work: a known connection belongs to
\* whoever authorised it first, and only a disabled mount is set ACTIVE again.
RegisterMount(actor, m) ==
  /\ workspace.status = "ACTIVE"
  /\ Authorized(actor, "SOURCE_MOUNT")
  /\ custodian[m] \in {NoUser, actor}
  /\ custodian' = [custodian EXCEPT ![m] = actor]
  /\ source' = [source EXCEPT ![m] = IF @ = "ABSENT" THEN "ACTIVE" ELSE @]
  /\ mount' = [mount EXCEPT ![m] = IF @ \in {"ABSENT", "DISABLED"} THEN "ACTIVE"
                                   ELSE @]
  /\ UNCHANGED <<workspace, member, invitation, overruled>>

DisableMount(actor, m) ==
  /\ OwnerAdministers(actor, m)
  /\ mount[m] # "DISABLED"
  /\ mount' = [mount EXCEPT ![m] = "DISABLED"]
  /\ overruled' = overruled \ {m}
  /\ UNCHANGED <<workspace, member, invitation, custodian, source>>

RemoveMount(actor, m) ==
  /\ OwnerAdministers(actor, m)
  /\ mount' = [mount EXCEPT ![m] = "ABSENT"]
  /\ overruled' = overruled \ {m}
  /\ UNCHANGED <<workspace, member, invitation, custodian, source>>

\* refresh_source_health and record_source_health: what the provider says
\* replaces what the mount said, unless it is disabled.  No adapter reports
\* DISABLED, so a source is never disabled.
RecordHealth(m, health) ==
  /\ mount[m] \notin {"ABSENT", "DISABLED"}
  /\ source' = [source EXCEPT ![m] = health]
  /\ mount' = [mount EXCEPT ![m] = health]
  /\ overruled' = IF mount[m] = "MANAGER_ACTION_REQUIRED"
                  THEN overruled \cup {m} ELSE overruled
  /\ UNCHANGED <<workspace, member, invitation, custodian>>

AdminStep ==
  \/ \E a, u \in User :
       \/ \E r \in Offered : InviteMember(a, u, r) \/ ChangeMemberRole(a, u, r)
       \/ RevokeInvitation(a, u)
       \/ TransferOwnership(a, u)
       \/ RemoveMember(a, u)
  \/ \E u \in User : AcceptInvitation(u) \/ RequestDeletion(u)
  \/ \E a \in User, m \in Mount :
       RegisterMount(a, m) \/ DisableMount(a, m) \/ RemoveMount(a, m)
  \/ \E m \in Mount, h \in SourceStatus : RecordHealth(m, h)

AdminSpec == AdminInit /\ [][AdminStep]_adminVars

-----------------------------------------------------------------------------
(* Properties.                                                             *)

\* The owner the workspace names is the one active member with the role
\* OWNER: through invitations, role changes, removals and transfers the
\* workspace is never without an owner and never has two.
OneOwner ==
  {u \in User : member[u] = [role |-> "OWNER", status |-> "ACTIVE"]}
    = {workspace.owner}

\* A followed mount is in the care of a member who may still mount sources.
\* One whose custodian left or lost the role asks for a manager until the
\* next health report, which sets it back to what the provider says.
CustodyIsMarked ==
  \A m \in Mount \ overruled :
    mount[m] \in SourceStatus => Authorized(custodian[m], "SOURCE_MOUNT")

\* A removed member never belongs to the workspace again: not through an
\* invitation that was pending, a role change or a transfer.
RemovalIsFinal ==
  [][\A u \in User : member[u].status = "REMOVED"
                       => member'[u].status = "REMOVED"]_adminVars
=============================================================================
