------------------------- MODULE SourceRegistration -------------------------
(***************************************************************************)
(* Connecting ONE Drive folder or GitHub repository to a workspace and     *)
(* mounting it: the connection record ("pending", whatever its status),    *)
(* the canonical mount and the binding that leads from the mount back to   *)
(* the connection.  The binding is what every later call to the provider   *)
(* resolves, and neither store is written together with the other.         *)
(*                                                                         *)
(* The service holds a lock while it connects and while it mounts, but the *)
(* lock is one of each process and the API runs in several, so the         *)
(* requests interleave between their reads and writes.  The person, the    *)
(* workspace and the scope of the request are the same throughout;         *)
(* WorkspaceAdmin has who may mount.                                       *)
(***************************************************************************)
EXTENDS Naturals

CONSTANTS
  Handle,    \* ids of connection records, in the order of their documents
  Call       \* requests that connect and mount

ASSUME HandleAssumption == Handle \subseteq Nat \ {0}

VARIABLES
  provider,  \* "drive" or "github"
  pending,   \* PendingSourceConnection.status of each record
  lapsed,    \* records whose expires_at has passed
  bound,     \* connections of the mount's SourceMountBindings
  mounted,   \* WorkspaceMount: status
  call,      \* what each request does next, and what it has read
  swept,     \* records a cleanup has read as expired and will delete
  cut        \* bound connections that a fault or an overtaken reader loses

regVars == <<provider, pending, lapsed, bound, mounted, call, swept, cut>>

Stored == {h \in Handle : pending[h] \notin {"NEW", "GONE"}}

RegTypeOK ==
  /\ provider \in {"drive", "github"}
  /\ pending \in [Handle -> {"NEW", "PENDING", "ACTIVE", "EXPIRED", "GONE"}]
  /\ lapsed \subseteq Handle /\ bound \subseteq Handle /\ swept \subseteq Handle
  /\ mounted \in {"ABSENT", "ACTIVE", "DISABLED"}
  /\ call \in [Call -> [at : {"idle", "connect", "require", "expire", "check",
                              "again", "register", "bind", "activate", "ended"},
                        handle : Handle \cup {0},
                        seen : {"none", "usable", "spent"}]]
  /\ cut \subseteq Handle

RegInit ==
  /\ provider \in {"drive", "github"}
  /\ pending = [h \in Handle |-> "NEW"]
  /\ lapsed = {} /\ bound = {} /\ swept = {} /\ cut = {}
  /\ mounted = "ABSENT"
  /\ call = [r \in Call |-> [at |-> "idle", handle |-> 0, seen |-> "none"]]

At(r, place) == call[r].at = place
GoesTo(r, place) == call' = [call EXCEPT ![r].at = place]

-----------------------------------------------------------------------------
(* Connecting.                                                             *)

\* What _create_pending makes of a stored record.
Usable(h) ==
  pending[h] = "ACTIVE" \/ (pending[h] = "PENDING" /\ h \notin lapsed)

\* get_pending_by_key: the first document of the query, whatever its status.
FindConnection(r) ==
  /\ At(r, "idle")
  /\ \/ /\ Stored = {}
        /\ GoesTo(r, "connect")
     \/ \E h \in Stored :
          /\ \A other \in Stored : h <= other
          /\ call' = [call EXCEPT ![r] =
               [at |-> "connect", handle |-> h,
                seen |-> IF Usable(h) THEN "usable" ELSE "spent"]]
  /\ UNCHANGED <<provider, pending, lapsed, bound, mounted, swept, cut>>

\* A usable record is kept; saving an ACTIVE one again renews its credential.
Connect(r) ==
  /\ At(r, "connect")
  /\ \/ /\ call[r].seen = "usable"
        /\ GoesTo(r, "require")
        /\ pending' = pending
     \/ /\ call[r].seen # "usable"
        /\ \E h \in Handle :
             /\ pending[h] = "NEW"
             /\ pending' = [pending EXCEPT ![h] = "PENDING"]
             /\ call' = [call EXCEPT ![r].at = "require", ![r].handle = h]
  /\ UNCHANGED <<provider, lapsed, bound, mounted, swept, cut>>

\* A repository is also mounted through a connection the browser names.
NameConnection(r) ==
  /\ At(r, "idle") /\ provider = "github"
  /\ \E h \in Handle \ {x \in Handle : pending[x] = "NEW"} :
       call' = [call EXCEPT ![r].at = "require", ![r].handle = h]
  /\ UNCHANGED <<provider, pending, lapsed, bound, mounted, swept, cut>>

-----------------------------------------------------------------------------
(* Mounting.                                                               *)

\* _require_pending, which mounting a Drive folder does twice.
RequirePending(r) ==
  /\ At(r, "require") \/ At(r, "again")
  /\ LET h == call[r].handle IN
     GoesTo(r, CASE pending[h] \in {"GONE", "EXPIRED"} -> "ended"
                 [] pending[h] = "PENDING" /\ h \in lapsed -> "expire"
                 [] OTHER -> IF provider = "drive" /\ At(r, "require")
                             THEN "check" ELSE "register")
  /\ UNCHANGED <<provider, pending, lapsed, bound, mounted, swept, cut>>

ExpirePending(r) ==
  /\ At(r, "expire")
  /\ pending' = [pending EXCEPT ![call[r].handle] = "EXPIRED"]
  /\ GoesTo(r, "ended")
  /\ UNCHANGED <<provider, lapsed, bound, mounted, swept, cut>>

\* _tracked_drive_file_ids: a folder with a binding is tracked (its canonical
\* source stays when the mount goes), so that the request ends here.
CheckTracked(r) ==
  /\ At(r, "check")
  /\ GoesTo(r, IF bound # {} THEN "ended" ELSE "again")
  /\ UNCHANGED <<provider, pending, lapsed, bound, mounted, swept, cut>>

\* register_source_metadata, one unit of work.
Register(r) ==
  /\ At(r, "register")
  /\ mounted' = "ACTIVE"
  /\ GoesTo(r, "bind")
  /\ UNCHANGED <<provider, pending, lapsed, bound, swept, cut>>

\* The registration key of a folder is the folder's, so its one binding is
\* replaced; that of a repository is the connection's.
SaveBinding(r) ==
  /\ At(r, "bind")
  /\ bound' = {call[r].handle} \cup (IF provider = "drive" THEN {} ELSE bound)
  /\ GoesTo(r, "activate")
  /\ UNCHANGED <<provider, pending, lapsed, mounted, swept, cut>>

\* Somebody read the record as PENDING and too old, and will delete it or
\* write EXPIRED over it all the same.
Overtaken(r) ==
  \/ call[r].handle \in swept
  \/ \E o \in Call \ {r} : At(o, "expire") /\ call[o].handle = call[r].handle

ActivatePending(r) ==
  /\ At(r, "activate")
  /\ pending' = [pending EXCEPT ![call[r].handle] = "ACTIVE"]
  /\ cut' = IF Overtaken(r) THEN cut \cup {call[r].handle}
            ELSE cut \ {call[r].handle}
  /\ GoesTo(r, "ended")
  /\ UNCHANGED <<provider, lapsed, bound, mounted, swept>>

\* The request fails, or its process: between two of its writes.
Abort(r) ==
  /\ call[r].at \notin {"idle", "ended"}
  /\ GoesTo(r, "ended")
  /\ cut' = IF At(r, "activate") /\ pending[call[r].handle] # "ACTIVE"
            THEN cut \cup {call[r].handle} ELSE cut
  /\ UNCHANGED <<provider, pending, lapsed, bound, mounted, swept>>

-----------------------------------------------------------------------------
(* The schedule, the owner and the clock.                                  *)

\* Mutant: any record whose time has passed.
IsLate(h) == h \in lapsed /\ h \in Stored

\* _is_cleanup_candidate.
IsCleanupCandidate(h) == h \in lapsed /\ pending[h] = "PENDING"

\* cleanup_expired reads a page of records and then deletes one by one.
SweepPage ==
  /\ swept = {}
  /\ swept' = {h \in Handle : IsCleanupCandidate(h)}
  /\ swept' # {}
  /\ UNCHANGED <<provider, pending, lapsed, bound, mounted, call, cut>>

SweepRecord(h) ==
  /\ h \in swept
  /\ swept' = swept \ {h}
  /\ pending' = [pending EXCEPT ![h] = "GONE"]
  /\ UNCHANGED <<provider, lapsed, bound, mounted, call, cut>>

Lapse(h) ==
  /\ h \in Stored \ lapsed
  /\ lapsed' = lapsed \cup {h}
  /\ UNCHANGED <<provider, pending, bound, mounted, call, swept, cut>>

\* disable_mount and remove_mount know nothing of bindings or connections.
Withdraw(status) ==
  /\ mounted # "ABSENT" /\ mounted # status
  /\ mounted' = status
  /\ UNCHANGED <<provider, pending, lapsed, bound, call, swept, cut>>

RegStep ==
  \/ \E r \in Call :
       \/ FindConnection(r) \/ Connect(r) \/ NameConnection(r)
       \/ RequirePending(r)
       \/ ExpirePending(r) \/ CheckTracked(r) \/ Register(r) \/ SaveBinding(r)
       \/ ActivatePending(r) \/ Abort(r)
  \/ \E h \in Handle : SweepRecord(h) \/ Lapse(h)
  \/ SweepPage
  \/ \E s \in {"DISABLED", "ABSENT"} : Withdraw(s)

RegSpec == RegInit /\ [][RegStep]_regVars

-----------------------------------------------------------------------------
(* Properties.                                                             *)

\* The provider is reachable through every binding: its connection is stored
\* and ACTIVE, or about to be.  The exceptions are a request that ended
\* between its last two writes, and a record that somebody read as PENDING
\* and too old just before it was mounted and then deleted or overwrote.
MountedStaysConnected ==
  \A h \in bound \ cut :
    \/ pending[h] = "ACTIVE"
    \/ \E r \in Call : At(r, "activate") /\ call[r].handle = h
=============================================================================
