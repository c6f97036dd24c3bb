-------------------------- MODULE WorkspaceErasure --------------------------
(***************************************************************************)
(* The deletion of ONE workspace: a request marks it DELETING, then the    *)
(* operational eraser and the canonical eraser remove its documents, one   *)
(* collection after the other and outside any transaction.  An attempt may *)
(* fail between any two of its steps; the owner may ask again, also while  *)
(* an attempt is still under way.  Meanwhile a worker may finish an        *)
(* analysis and the scheduler a round of reconciliation.                   *)
(*                                                                         *)
(* The workspace has one artifact, in the one mount of its source.  A risk *)
(* stands for the documents found only through it: its evidence and events *)
(* ("evidence") and the record of its unique key ("keys").                 *)
(***************************************************************************)

CONSTANTS
  Risk,      \* risks of the workspace, found before the deletion or during it
  Attempt    \* requests to delete it

VARIABLES
  docs,       \* single documents: workspace, owner, mount, artifact, job, ...
  status,     \* RiskWorkspace.status
  risks,      \* Risk documents
  evidence,   \* risks whose RiskEvidence and RiskEvent documents exist
  keys,       \* risks whose unique-key record exists
  step,       \* what each attempt does next
  listed,     \* what the canonical eraser of each attempt read at its start
  worker,     \* the worker's analysis: before its result is accepted, or after
  round,      \* a reconciliation round that holds the mount's runtime state
  meanwhile   \* what was committed while an attempt was under way, and whether
              \* two attempts overlapped

erasureVars == <<docs, status, risks, evidence, keys, step, listed, worker,
                 round, meanwhile>>

Document == {"workspace", "owner", "mount", "artifact", "job", "source",
             "operational"}
Step == {"idle", "operational", "list", "jobs", "evidence", "members", "mounts",
         "artifacts", "risks", "sources", "keys", "workspace", "done", "failed"}

ErasureTypeOK ==
  /\ docs \subseteq Document
  /\ status \in {"ACTIVE", "DELETING"}
  /\ risks \subseteq Risk /\ evidence \subseteq Risk /\ keys \subseteq Risk
  /\ step \in [Attempt -> Step]
  /\ listed \in [Attempt -> [documents : SUBSET {"mount", "artifact"},
                             risks : SUBSET Risk]]
  /\ worker \in {"running", "ended"}
  /\ round \in {"none", "holding"}
  /\ meanwhile \subseteq Risk \cup {"operational", "overlap"}

ErasureInit ==
  /\ docs = Document
  /\ status = "ACTIVE"
  /\ risks \in SUBSET Risk /\ evidence = risks /\ keys = risks
  /\ step = [a \in Attempt |-> "idle"]
  /\ listed = [a \in Attempt |-> [documents |-> {}, risks |-> {}]]
  /\ worker = "running" /\ round = "none"
  /\ meanwhile = {}

Underway(a) == step[a] \notin {"idle", "done", "failed"}
Deleting == \E a \in Attempt : Underway(a)

-----------------------------------------------------------------------------
(* The attempts.                                                           *)

\* request_workspace_deletion: the requester is a member, whose membership
\* goes with the rest of the workspace.
Begin(a) ==
  /\ step[a] = "idle"
  /\ {"workspace", "owner"} \subseteq docs
  /\ status' = "DELETING"
  /\ step' = [step EXCEPT ![a] = "operational"]
  /\ meanwhile' = IF Deleting THEN meanwhile \cup {"overlap"} ELSE meanwhile
  /\ UNCHANGED <<docs, risks, evidence, keys, listed, worker, round>>

\* FirestoreOperationalEraser finds the records through the mounts.
EraseOperational(a) ==
  /\ step[a] = "operational"
  /\ docs' = IF "mount" \in docs THEN docs \ {"operational"} ELSE docs
  /\ step' = [step EXCEPT ![a] = "list"]
  /\ UNCHANGED <<status, risks, evidence, keys, listed, worker, round,
                 meanwhile>>

\* The identities the canonical eraser collects before it removes anything.
ListOwned(a) ==
  /\ step[a] = "list"
  /\ listed' = [listed EXCEPT ![a] =
                  [documents |-> docs \cap {"mount", "artifact"},
                   risks |-> risks]]
  /\ step' = [step EXCEPT ![a] = "jobs"]
  /\ UNCHANGED <<docs, status, risks, evidence, keys, worker, round,
                 meanwhile>>

\* Mutant: the risks go before what is found only through them.
RisksFirst(s) ==
  CASE s = "jobs" -> "risks" [] s = "risks" -> "evidence"
    [] s = "evidence" -> "members" [] s = "members" -> "mounts"
    [] s = "mounts" -> "artifacts" [] s = "artifacts" -> "sources"
    [] s = "sources" -> "keys" [] s = "keys" -> "workspace"
    [] OTHER -> "done"

\* The order of the canonical eraser.
After(s) ==
  CASE s = "jobs" -> "evidence" [] s = "evidence" -> "members"
    [] s = "members" -> "mounts" [] s = "mounts" -> "artifacts"
    [] s = "artifacts" -> "risks" [] s = "risks" -> "sources"
    [] s = "sources" -> "keys" [] s = "keys" -> "workspace"
    [] OTHER -> "done"

\* Mutant: unique keys outlive the documents they belong to.
NoKeysOf(a) == {}

\* The unique-key records of the documents listed at the start.
KeysOf(a) == keys \cap listed[a].risks

\* One collection.  Jobs, evidence and keys are found through what was listed,
\* the rest by the workspace; a source goes if no mount needs it any more.
EraseNext(a) ==
  /\ step[a] \in Step \ {"idle", "operational", "list", "done", "failed"}
  /\ step' = [step EXCEPT ![a] = After(step[a])]
  /\ docs' = docs \ (CASE step[a] = "jobs" /\ "artifact" \in listed[a].documents
                            -> {"job"}
                       [] step[a] = "members" -> {"owner"}
                       [] step[a] = "mounts" -> {"mount"}
                       [] step[a] = "artifacts" -> {"artifact"}
                       [] step[a] = "sources" /\ "mount" \in listed[a].documents
                          /\ "mount" \notin docs -> {"source"}
                       [] step[a] = "workspace" -> {"workspace"}
                       [] OTHER -> {})
  /\ evidence' = IF step[a] = "evidence" THEN evidence \ listed[a].risks
                 ELSE evidence
  /\ risks' = IF step[a] = "risks" THEN {} ELSE risks
  /\ keys' = IF step[a] = "keys" THEN keys \ KeysOf(a) ELSE keys
  /\ UNCHANGED <<status, listed, worker, round, meanwhile>>

\* The request ends with an error: the store, the vault or the process fails.
Fail(a) ==
  /\ Underway(a)
  /\ step' = [step EXCEPT ![a] = "failed"]
  /\ UNCHANGED <<docs, status, risks, evidence, keys, listed, worker, round,
                 meanwhile>>

-----------------------------------------------------------------------------
(* Who else writes.                                                        *)

\* The result of an analysis is accepted: neither the mount nor the status of
\* the workspace is looked at, only that its documents are there.
AcceptResult(r) ==
  /\ worker = "running"
  /\ {"workspace", "artifact", "job"} \subseteq docs
  /\ r \notin risks
  /\ worker' = "ended"
  /\ risks' = risks \cup {r}
  /\ evidence' = evidence \cup {r}
  /\ keys' = keys \cup {r}
  /\ meanwhile' = IF Deleting THEN meanwhile \cup {r} ELSE meanwhile
  /\ UNCHANGED <<docs, status, step, listed, round>>

\* A reconciliation round finds the mount and reads its runtime state.
BeginRound ==
  /\ round = "none" /\ "mount" \in docs
  /\ round' = "holding"
  /\ UNCHANGED <<docs, status, risks, evidence, keys, step, listed, worker,
                 meanwhile>>

\* It saves the state it read, with a new cursor, whatever happened meanwhile.
SaveRound ==
  /\ round = "holding"
  /\ round' = "none"
  /\ docs' = docs \cup {"operational"}
  /\ meanwhile' = IF status = "DELETING"
                  THEN meanwhile \cup {"operational"} ELSE meanwhile
  /\ UNCHANGED <<status, risks, evidence, keys, step, listed, worker>>

ErasureStep ==
  \/ \E a \in Attempt : \/ Begin(a) \/ EraseOperational(a) \/ ListOwned(a)
                        \/ EraseNext(a) \/ Fail(a)
  \/ \E r \in Risk : AcceptResult(r)
  \/ BeginRound \/ SaveRound

ErasureSpec == ErasureInit /\ [][ErasureStep]_erasureVars

-----------------------------------------------------------------------------
(* Properties.                                                             *)

\* When the workspace document is gone nothing of the workspace is left but
\* what was written while it was being erased: the last document removed
\* tells that the erasure is complete.  Two attempts that overlap break this:
\* one that began early but listed late misses what it would find through the
\* documents the other has removed, and outruns the other if that one fails.
GoneIsComplete ==
  ("workspace" \notin docs /\ "overlap" \notin meanwhile) =>
    /\ docs \subseteq meanwhile \cap {"operational"}
    /\ risks = {} /\ evidence \subseteq meanwhile /\ keys \subseteq meanwhile

\* While somebody can still ask again, whatever an attempt that failed has
\* left can be found: evidence and keys through their risks, the source and
\* the operational records through the mount.
RetryFindsAll ==
  "owner" \in docs =>
    /\ evidence \cup keys \subseteq risks
    /\ docs \cap {"source", "operational"} # {} => "mount" \in docs

\* "A workspace whose erasure failed stays DELETING and is finished by asking
\* again": then somebody must be able to ask.
FailureCanBeRetried ==
  (status = "DELETING" /\ "workspace" \in docs /\ ~Deleting) => "owner" \in docs
=============================================================================
