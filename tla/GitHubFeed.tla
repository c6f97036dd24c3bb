----------------------------- MODULE GitHubFeed -----------------------------
(***************************************************************************)
(* The mounts of one GitHub repository: pushes to the tracked branch, their *)
(* webhook deliveries (late, out of order, repeated by hand), and the      *)
(* listing of the tree when a mount is made.                               *)
(*                                                                         *)
(* A commit changes one file here; a push has as many commits as somebody  *)
(* pushed at once.  The commits of a push reach the ledger one by one, each *)
(* in a unit of work of its own.                                           *)
(***************************************************************************)
EXTENDS SourceIntake, Sequences, SequencesExt, FiniteSets

CONSTANTS
  Path,        \* paths of the repository
  Tracked,     \* the paths GitHubTrackingScope.is_tracked accepts
  GitMount,    \* mounts of the repository
  Request,     \* slots for webhook requests under way
  MaxCommits,  \* bound: commits of the branch
  MaxRequests, \* bound: webhook requests in all
  MaxStops     \* bound: requests and scans that end half-way

ASSUME TrackedAssumption == Tracked \subseteq Path
ASSUME GitFinite == IsFiniteSet(Path) /\ IsFiniteSet(GitMount)
ASSUME GitBounds == MaxCommits \in Nat /\ MaxRequests \in Nat /\ MaxStops \in Nat

VARIABLES
  branch,     \* the tracked branch: its files, commits and pushes
  lastSeen,   \* GitHubRuntime.last_seen_delivery_id of each mount
  gitLedger,  \* the canonical ledger of each mount
  request,    \* webhook requests under way
  scan,       \* the initial listing of each mount
  gitUsed,    \* requests and stops so far
  upTo,       \* the newest commit each mount has dealt with
  done,       \* commits registered in each mount, or none of its business
  missed,     \* commits a request dropped
  disorder    \* mounts that took an older commit after a newer one

gitVars == <<branch, lastSeen, gitLedger, request, scan, gitUsed, upTo, done,
             missed, disorder>>

Commit == [status : {"added", "removed", "renamed", "modified"}, file : Path,
           from : Path, content : Nat]
Push == [first : Nat, last : Nat]

\* A batch item: the change and the commit it is known by.
Work(change, commit) == [change |-> change, commit |-> commit]
IdleRequest == [delivery |-> 0, todo |-> <<>>, batch |-> <<>>, at |-> "idle"]
NoScan == [at |-> "none", batch |-> <<>>]

GitInit ==
  /\ \E present \in SUBSET Path :
       branch = [content |-> [p \in Path |-> IF p \in present THEN 1 ELSE 0],
                 commits |-> <<>>, pushes |-> <<>>]
  /\ lastSeen = [m \in GitMount |-> 0]
  /\ gitLedger = [m \in GitMount |-> EmptyLedger(Path)]
  /\ request = [r \in Request |-> IdleRequest]
  /\ scan = [m \in GitMount |-> NoScan]
  /\ gitUsed = [requests |-> 0, stops |-> 0]
  /\ upTo = [m \in GitMount |-> 0]
  /\ done = [m \in GitMount |-> {}]
  /\ missed = [m \in GitMount |-> {}]
  /\ disorder = {}
-----------------------------------------------------------------------------
(* The repository.                                                         *)

\* The commits somebody can make on top of a branch that holds content.
NextCommits(content) ==
  LET here == {p \in Path : content[p] # 0}
  IN  {[status |-> "added", file |-> p, from |-> p, content |-> 1] : p \in Path \ here}
      \cup {[status |-> "modified", file |-> p, from |-> p, content |-> content[p] + 1] : p \in here}
      \cup {[status |-> "removed", file |-> p, from |-> p, content |-> 0] : p \in here}
      \cup {[status |-> "renamed", file |-> q, from |-> p, content |-> content[p]] :
              p \in here, q \in Path \ here}

ContentAfter(content, commit) ==
  [p \in Path |-> IF p = commit.file THEN commit.content
                  ELSE IF p = commit.from THEN 0 ELSE content[p]]

\* A push of one commit, or of two at once.
PushCommits ==
  /\ Len(branch.commits) < MaxCommits
  /\ \E c \in NextCommits(branch.content) :
       \E more \in {<<>>} \cup {<<d>> : d \in NextCommits(ContentAfter(branch.content, c))} :
         LET commits == branch.commits \o <<c>> \o more
         IN  /\ Len(commits) <= MaxCommits
             /\ branch' = [content |-> IF more = <<>> THEN ContentAfter(branch.content, c)
                                       ELSE ContentAfter(ContentAfter(branch.content, c), more[1]),
                           commits |-> commits,
                           pushes |-> Append(branch.pushes,
                             [first |-> Len(branch.commits) + 1, last |-> Len(commits)])]
  /\ UNCHANGED <<lastSeen, gitLedger, request, scan, gitUsed, upTo, done, missed, disorder>>
-----------------------------------------------------------------------------
(* The webhook.                                                            *)

\* handle_github_webhook: a delivery, or its repetition, reaches an instance.
\* The delivery id of a push is its number; with no mount of the repository
\* there is nothing to do.
Deliver(r, d) ==
  LET mounts == {m \in GitMount : scan[m].at # "none"} IN
  /\ request[r].at = "idle" /\ gitUsed.requests < MaxRequests
  /\ d \in DOMAIN branch.pushes
  /\ request' = IF mounts = {} THEN request
                ELSE [request EXCEPT ![r] =
                        [IdleRequest EXCEPT !.delivery = d, !.at = "next",
                                            !.todo = SetToSeq(mounts)]]
  /\ gitUsed' = [gitUsed EXCEPT !.requests = @ + 1]
  /\ UNCHANGED <<branch, lastSeen, gitLedger, scan, upTo, done, missed, disorder>>

\* What a file of a commit is to a mount: nothing, or a change.
Concerns(commit) ==
  \/ commit.file \in Tracked
  \/ commit.status = "renamed" /\ commit.from \in Tracked
\* Mutant: a renamed file is a modified one.
KindOfNoMove(commit) ==
  CASE commit.status = "removed" -> "DELETE"
    [] commit.status = "added" -> "CREATE"
    [] OTHER -> "UPDATE"
KindOf(commit) ==
  CASE commit.status = "renamed" -> "MOVE"
    [] commit.status = "removed" -> "DELETE"
    [] commit.status = "added" -> "CREATE"
    [] OTHER -> "UPDATE"
ChangeOf(n, delivery) ==
  LET commit == branch.commits[n]
  IN  Change(<<"commit", n, commit.file>>, KindOf(commit), commit.file, commit.from, delivery)

Fresh(m, delivery) == lastSeen[m] # delivery

\* Mutant: the delivery is saved as seen before its commits are read.
ProcessMarkedFirst(r) ==
  LET m == Head(request[r].todo)
      push == branch.pushes[request[r].delivery]
      ours == {n \in push.first .. push.last : Concerns(branch.commits[n])}
      order == Ascending(ours)
  IN  /\ request[r].at = "next" /\ request[r].todo # <<>>
      /\ lastSeen' = [lastSeen EXCEPT ![m] = request[r].delivery]
      /\ request' = [request EXCEPT ![r] =
           IF Fresh(m, request[r].delivery)
           THEN [@ EXCEPT !.at = "mark", !.batch =
                   [i \in DOMAIN order |->
                      Work(ChangeOf(order[i], request[r].delivery), order[i])]]
           ELSE [@ EXCEPT !.at = "persist"]]
      /\ UNCHANGED <<branch, gitLedger, scan, gitUsed, upTo, done, missed, disorder>>

\* process_push_event for the next mount, to the commits read from GitHub:
\* nothing if the delivery is the last one seen, else its changes.
Process(r) ==
  LET m == Head(request[r].todo)
      push == branch.pushes[request[r].delivery]
      ours == {n \in push.first .. push.last : Concerns(branch.commits[n])}
      order == Ascending(ours)
  IN  /\ request[r].at = "next" /\ request[r].todo # <<>>
      /\ request' = [request EXCEPT ![r] =
           IF Fresh(m, request[r].delivery)
           THEN [@ EXCEPT !.at = "mark", !.batch =
                   [i \in DOMAIN order |->
                      Work(ChangeOf(order[i], request[r].delivery), order[i])]]
           ELSE [@ EXCEPT !.at = "persist"]]
      /\ UNCHANGED <<branch, lastSeen, gitLedger, scan, gitUsed, upTo, done, missed, disorder>>

\* process_push_event, its end: the delivery is saved as seen.
MarkSeen(r) ==
  LET m == Head(request[r].todo)
      push == branch.pushes[request[r].delivery]
      ours == {request[r].batch[i].commit : i \in DOMAIN request[r].batch}
  IN  /\ request[r].at = "mark"
      /\ request' = [request EXCEPT ![r].at = "persist"]
      /\ lastSeen' = [lastSeen EXCEPT ![m] = request[r].delivery]
      /\ done' = [done EXCEPT ![m] = @ \cup ((push.first .. push.last) \ ours)]
      /\ UNCHANGED <<branch, gitLedger, scan, gitUsed, upTo, missed, disorder>>

\* What a mount takes in, and in which order it does.
Take(m, work) ==
  /\ gitLedger' = [gitLedger EXCEPT ![m] = Registered(@, work.change)]
  /\ upTo' = [upTo EXCEPT ![m] = IF @ < work.commit THEN work.commit ELSE @]
  /\ disorder' = IF /\ work.commit < upTo[m]
                    /\ ~ OnRecord(gitLedger[m], work.change.fingerprint)
                 THEN disorder \cup {m} ELSE disorder

\* sink.persist of the next change.  An exception ends the request: what is
\* left of the batch is dropped, and the mounts after this one are not served.
PersistCommit(r) ==
  LET m == Head(request[r].todo)
      work == Head(request[r].batch)
  IN  /\ request[r].at = "persist" /\ request[r].batch # <<>>
      /\ IF Refused(gitLedger[m], work.change, TRUE)
         THEN /\ missed' = [missed EXCEPT ![m] =
                   @ \cup {request[r].batch[i].commit : i \in DOMAIN request[r].batch}]
              /\ request' = [request EXCEPT ![r] = IdleRequest]
              /\ UNCHANGED <<gitLedger, done, upTo, disorder>>
         ELSE /\ Take(m, work)
              /\ done' = [done EXCEPT ![m] = @ \cup {work.commit}]
              /\ request' = [request EXCEPT ![r].batch = Tail(@)]
              /\ UNCHANGED missed
      /\ UNCHANGED <<branch, lastSeen, scan, gitUsed>>

\* The loop over the mounts goes on: after the changes of a mount, or past a
\* mount of which GitHub finds something no more, with nothing marked.
NextMount(r) ==
  /\ \/ request[r].at = "persist" /\ request[r].batch = <<>>
     \/ request[r].at = "mark"
  /\ request' = [request EXCEPT ![r] =
       IF Len(@.todo) = 1 THEN IdleRequest
       ELSE [@ EXCEPT !.at = "next", !.batch = <<>>, !.todo = Tail(request[r].todo)]]
  /\ UNCHANGED <<branch, lastSeen, gitLedger, scan, gitUsed, upTo, done, missed, disorder>>

\* The instance stops, GitHub does not answer, or the store refuses three
\* times in a row.  Before the delivery is marked nothing is lost.
Stop(r) ==
  /\ request[r].at \in {"mark", "persist"} /\ gitUsed.stops < MaxStops
  /\ gitUsed' = [gitUsed EXCEPT !.stops = @ + 1]
  /\ missed' = IF request[r].at = "mark" THEN missed
               ELSE [missed EXCEPT ![Head(request[r].todo)] =
                 @ \cup {request[r].batch[i].commit : i \in DOMAIN request[r].batch}]
  /\ request' = [request EXCEPT ![r] = IdleRequest]
  /\ UNCHANGED <<branch, lastSeen, gitLedger, scan, upTo, done, disorder>>
-----------------------------------------------------------------------------
(* The mount request, from the moment the tracking scope is saved: from    *)
(* then on deliveries reach the mount, what came before is the scan's.     *)

MountRepository(m) ==
  /\ scan[m].at = "none"
  /\ scan' = [scan EXCEPT ![m].at = "list"]
  /\ done' = [done EXCEPT ![m] = DOMAIN branch.commits]
  /\ upTo' = [upTo EXCEPT ![m] = Len(branch.commits)]
  /\ UNCHANGED <<branch, lastSeen, gitLedger, request, gitUsed, missed, disorder>>

\* initial_changes: the tracked files of the tree at the head of the branch,
\* named by their blobs.
ListTree(m) ==
  LET present == {p \in Tracked : branch.content[p] # 0}
      creation(p) == Change(<<"blob", branch.content[p], p>>, "CREATE", p, p, 0)
  IN  /\ scan[m].at = "list"
      /\ scan' = [scan EXCEPT ![m] =
           [@ EXCEPT !.at = "persist", !.batch = SetToSeq({Work(creation(p), Len(branch.commits)) : p \in present})]]
      /\ UNCHANGED <<branch, lastSeen, gitLedger, request, gitUsed, upTo, done, missed, disorder>>

PersistFile(m) ==
  LET work == Head(scan[m].batch)
  IN  /\ scan[m].at = "persist" /\ scan[m].batch # <<>>
      /\ IF Refused(gitLedger[m], work.change, TRUE)
         THEN /\ scan' = [scan EXCEPT ![m].at = "failed", ![m].batch = <<>>]
              /\ UNCHANGED <<gitLedger, upTo, disorder>>
         ELSE /\ Take(m, work)
              /\ scan' = [scan EXCEPT ![m].batch = Tail(@)]
      /\ UNCHANGED <<branch, lastSeen, request, gitUsed, done, missed>>

EndScan(m) ==
  /\ scan[m].at = "persist" /\ scan[m].batch = <<>>
  /\ scan' = [scan EXCEPT ![m].at = "done"]
  /\ UNCHANGED <<branch, lastSeen, gitLedger, request, gitUsed, upTo, done, missed, disorder>>

GitStep ==
  \/ PushCommits
  \/ \E r \in Request : \/ \E d \in DOMAIN branch.pushes : Deliver(r, d)
                        \/ Process(r) \/ MarkSeen(r) \/ PersistCommit(r) \/ NextMount(r) \/ Stop(r)
  \/ \E m \in GitMount : MountRepository(m) \/ ListTree(m) \/ PersistFile(m) \/ EndScan(m)

GitSpec == GitInit /\ [][GitStep]_gitVars
-----------------------------------------------------------------------------
GitTypeOK ==
  /\ branch.content \in [Path -> Nat] /\ branch.commits \in Seq(Commit)
  /\ branch.pushes \in Seq(Push)
  /\ lastSeen \in [GitMount -> 0 .. Len(branch.pushes)]
  /\ \A m \in GitMount : gitLedger[m].artifact \in [Path -> Availability]
  /\ \A r \in Request : request[r].at \in {"idle", "next", "mark", "persist"}
  /\ \A m \in GitMount : scan[m].at \in {"none", "list", "persist", "done", "failed"}
  /\ disorder \subseteq GitMount

\* A mount whose scan is over and that has dealt with every commit, in order
\* and with nothing dropped, holds exactly the tracked files of the branch.
BranchIsFollowed ==
  \A m \in GitMount :
    (/\ scan[m].at = "done" /\ missed[m] = {} /\ m \notin disorder
     /\ \A r \in Request : request[r].at = "idle"
     /\ DOMAIN branch.commits \subseteq done[m])
    => \A p \in Tracked :
         (gitLedger[m].artifact[p] = "AVAILABLE") <=> (branch.content[p] # 0)

\* The last delivery seen is dealt with once nobody works on it: it may be
\* marked before its changes are registered, and by two requests at once, but
\* a repetition is turned away only if each change is registered or was lost
\* with a request that failed.
SeenIsAnswered ==
  \A m \in GitMount : \A d \in DOMAIN branch.pushes :
    (/\ lastSeen[m] = d
     /\ \A r \in Request : request[r].at = "idle" \/ request[r].delivery # d)
    => (branch.pushes[d].first .. branch.pushes[d].last) \subseteq (done[m] \cup missed[m])
=============================================================================
