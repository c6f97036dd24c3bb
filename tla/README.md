# IP Risk Agent v2 in TLA+

IP Risk Agent watches the files of a workspace (a local folder, a GitHub
repository, a Google Drive folder), analyzes every change for licence and
patent risk, and keeps a ledger of risks that people review. This directory
holds the TLA+ model of its control plane: what the API process, the task queue,
the workers, the schedulers, the sources, the desktop application and the people
do to the shared documents, in every order. Paths below are relative to the repository; `B/` stands for
`src/backend/src/ip_risk_agent/`.

## 1. Inventory

| Component | State it keeps | Operations | Talks to |
|---|---|---|---|
| Change intake (`B/application/process_change`) | `ChangeEvent` (status, attempts, lease), the artifact's latest revision and availability | register a change, meet a duplicate, revive or exclude the artifact's risks | queue (enqueue after commit), ledger |
| Analysis job lifecycle (`B/application/analysis_jobs`) | `AnalysisJob` (status, started_at, required and completed analyzers) | claim, take over, fail, retry, reanalyze | intake, pipeline |
| Task queue and worker (`B/composition/pipeline.py`, `B/composition/app.py`, `B/gcp/cloud_tasks.py`, `src/deploy/cloud-tasks-queue.yaml`) | tasks and their tries in Cloud Tasks; an execution's local variables | deliver, answer 200 / 500 / 503, outlive a deadline, die | everything the pipeline calls |
| Security gate (`B/application/security_gate`) | access log, approvals | validate the context, deny (and end the job) or approve a minimized snapshot | job, ledger (policy exclusions) |
| Risk ledger (`B/core/risk`, `B/application/risk_reconcile`, `risk_review`, `risk_explanation`, `risk_exclusion.py`) | `Risk` (lifecycle state, disposition, review version, latest evidence), `RiskEvent`, `RiskReview` | accept an analysis result, review, explain, exclude, revive | pipeline, API, administration |
| Control facade (`B/application/public_facade`) | none of its own | the units of work other packages call: claim, fail, untrack, revalidate, newest change | all of the above |
| Unit of work and store (`B/persistence`) | documents, the reads and queries a session made | get, query, create, set, commit with every read validated | every service |
| Drive connector and schedule (`B/connectors/google_drive`, `B/composition/scheduler_operations.py`) | `DriveRuntime`: change cursor and watch channel; mount status | mount and scan, webhook, reconcile a page, renew a channel, record health | intake |
| GitHub connector (`B/connectors/github`) | `GitHubRuntime`: last delivery id; installation, mounts | webhook, initial tree | intake |
| Local connector (`B/connectors/local`) and desktop watcher (`src/apps/desktop`) | debounce timers, held DELETEs, known hashes, a bounded retrying queue; staged contents | watch, correlate a move, enqueue, drain, report, restart | intake |
| Source registration (`B/composition/source_registration.py`) | pending connection records, mount bindings | connect, find, mount, expire, clean up, withdraw | administration, connectors |
| Device enrolment and OAuth state (`B/composition/device_auth.py`) | challenges, device tokens | start, complete, cancel, expire | connectors |
| Administration (`B/application/workspace_admin`, `B/core/workspaces`, `memberships`, `mounts`) | workspace, memberships, invitations, mounts and their custodian | invite, accept, revoke, change a role, transfer, remove, mount, disable, record health | ledger, intake |
| Workspace deletion (`B/application/workspace_admin`, `B/application/workspace_purge.py`, `B/persistence/core_firestore/eraser.py`) | every document of one workspace | request, erase collection by collection, ask again | all documents |
| Security policy (`B/application/security_policy`) | ignore rules and license profile of a workspace | edit either, ask for the dependency files again, once a day or when the profile is saved | jobs, gate, license analyzer |
| Patent analyzer (`B/intelligence/patent`) | none across runs: the earlier patents come from stored evidence | extract, search, relax, rank, carry over, screen, fetch, compare | ledger |
| License analyzer (`B/intelligence/license`) | none across runs | read a dependency file, look licences up, judge | gate's snapshot, ledger |
| Retrieval and language models (`B/intelligence/rag`, the model clients) | vector index, caches | search, complete | analyzers |
| API, history, notifications, frontend | read models | requests and views | every service |

### What is hard

* The queue is at least once, un-named and retrying. The same event is delivered
  by duplicates, retries and reanalysis at the same time; a dispatch is given up
  after 240 s while the handler may still be running; the lease lasts 300 s.
* No transaction spans a provider or a model call. What an execution read
  before the call may be stale after it: another attempt owns the event, a newer
  revision or a DELETE is registered, the artifact was untracked.
* A commit and the enqueue that follows it are two steps.
* Changes of one artifact may be registered in another order than they were
  observed (two webhooks, a webhook and the quarter-hourly reconciliation).
* Two state machines, `ChangeEvent` and `AnalysisJob`, are moved by eight units of
  work and must never disagree.
* A human judgement on a risk lives in the same document an analysis rewrites;
  exclusion and return of a file move it too.
* The desktop watcher correlates events over timers, and its queue tries its head
  for ever.
* The cursor of a feed is saved apart from the changes it stands for, and the jobs
  that move it load and save the whole record around calls to the provider.
* An erasure runs outside any transaction, collection by collection, while the
  other processes go on writing.
* A connection record and a mount binding are two documents without a common
  transaction, and the lock around them is one of each process.
* The rules and the license profile are read in different moments of a run; an edit asks
  for the files again and is refused where a run of the old settings is under way.
* An analyzer's result that leaves a finding out closes its risk, if it claims to be
  complete; every call on the way to it may fail.

`PROJECT.json` lists these as hazards, each at the line where it bites and with
the properties that would catch it.

### What makes each component correct

* Intake, jobs, queue, worker: every registered change is decided in the end;
  nobody waits for a task that does not exist; two executions never pass for one
  another; a result is written only for the revision and the attempt it was made
  for.
* Risk ledger: an analysis never writes over or forges a human judgement; a
  judgement is applied to the risk the person saw; a risk leaves the active list
  only on complete evidence or by exclusion; an excluded risk stays excluded until
  the file comes back.
* Unit of work: committed transactions are serializable although reads are made
  one document at a time.
* Connectors: a cursor passes no change nobody answers for; what the ledger holds of
  a source ends up being what the source holds; a repetition is turned away only if
  the original was dealt with.
* Source registration: whatever a mount's binding names can be fetched from.
* Administration: a workspace always has exactly one owner; a followed mount is in
  the care of somebody who may mount, or asks for a manager; removal is for good.
* Deletion: whatever an attempt leaves, the next one finds; when the workspace
  document is gone, so is everything else.
* Analyzers: a risk is closed because this run judged it, never because a call failed.
* Security policy: what is saved in the end decides about every file in the
  revalidation's reach, whatever was under way when it was saved.

## 2. The modules

One action is one unit of work: everything a service does between opening a unit
of work and its commit, or between two calls of an outside party. Module 3 is the
reason this is sound: a unit of work that commits did what it would have done
alone. A conflict makes a service open a new unit of work and start over
(`_concurrency_attempts`); a step that never commits is a step not taken, or,
where the caller sees the error, an action of its own (`DeliverError`,
`StoreError`).

| Module | What it is |
|---|---|
| `AnalysisExecution` | M1: the analysis of the changes of one artifact: intake, queue, workers, requests |
| `AnalysisExecutionProps` | M1's properties and the refinement mapping to `AnalysisContract` |
| `AnalysisContract` | what the product promises about a change, without queue, workers or documents |
| `AnalysisExecution_proofs` | M1's theorems on its documents, the fence, the order of registration and the contract |
| `AnalysisOwnership_proofs` | M1's theorems on who owns an attempt |
| `RiskLedger` | M2: the risks of one artifact: results, reviews, exclusions, returns, explanations |
| `RiskLedgerProps` | M2's properties and the mapping to `RiskContract` |
| `RiskContract` | what the ledger promises about one risk |
| `RiskLedger_proofs` | M2's theorems, and that it implements `RiskContract` |
| `DocumentSession` | M3: units of work over Firestore, with their properties |
| `DocumentSession_proofs` | M3's theorems |
| `SourceIntake` | what intake makes of a source's change: the fingerprints on record, a repetition, a clash, a refused MOVE. Used by M4 to M6 |
| `DriveFeed` | M4: a mounted Drive folder, its change feed, the cursor and the jobs that move it |
| `GitHubFeed` | M5: the mounts of one repository, its pushes, their deliveries and the scan of the tree |
| `DesktopFeed` | M6: a local folder, the watcher's timers, the desktop's queue and the report |
| `WorkspaceAdmin` | M7: the people, the owner, the invitations and the mounts of a workspace |
| `WorkspaceErasure` | M8: the deletion of a workspace beside everything that still writes |
| `SourceRegistration` | M9: connection records, bindings and mounts, between every read and write |
| `PatentAnalysis` | M10: the patent analyzer and what the ledger makes of its result |
| `LicenseAnalysis` | M11: the license analyzer and what the ledger makes of its result |
| `PolicyRevalidation` | M12: the settings of a workspace, the revalidations they cause and the runs that read them |
| `SourceFeeds` | M4 and M6 in one specification: a behaviour takes one of them, chosen at the start |
| `ControlPlane` | M5 and M7 to M11 in one specification, in the same way |
| `GitHubFeed_proofs` | M5's theorems, and the lemmas on finite sets, sequences and ledgers that the feeds share |
| `SourceFeeds_proofs` | M4's and M6's theorems, and the types of the specification that chooses one |
| `Analyzers_proofs` | M10's and M11's theorems |
| `ControlPlane_proofs` | M7's, M8's and M9's theorems, and the types of the specification that chooses one |
| `MCAnalysisExecution`, `MCRiskLedger`, `MCDocumentSession` | the instances of M1, M2 and M3 that TLC checks, with the `.cfg` files |
| `MCSourceFeeds`, `MCControlPlane` | the instances of `SourceFeeds` and `ControlPlane` |
| `MCSettling` | M1 and M12 in one specification, in the same way, for what must settle |

The parts of `SourceFeeds`, `ControlPlane` and `MCSettling` write no common state and do
not meet. These modules interleave nothing: the part a behaviour takes is chosen at the
start, the others rest in an initial state, and one run covers independent state spaces
whose sizes add up. That a behaviour of the whole is one of each part is proved for the
first two (`FeedsParts`, `ControlParts`).

`PROJECT.json` maps every definition to the lines it models.

### M1, AnalysisExecution

| TLA+ | Code |
|---|---|
| `event`, `job`, `artifact` | the Firestore documents, reduced to the fields the transitions read: status, attempts, lease; status, started_at; latest revision, availability, status |
| `intents` | the `enqueue_change` call a committed intake or request still has to make |
| `task` | Cloud Tasks: waiting or dispatched, number of tries |
| `exec` | the local variables of `AnalysisPipeline.execute` and its position between units of work and provider calls |
| `used` | how many faults and outside requests have happened, each within `Limit` |
| `before` | history: for each change, what was on record when it was registered; the order of registration need not be that of observation |
| `Register`, `RegisterDuplicate` | `register_source_change`, for a new and for a known fingerprint |
| `Enqueue`, `LoseEnqueue` | the call to the queue after the commit, or its failure |
| `RetryFailed`, `RequestReanalysis`, `UntrackArtifact` | what people and the daily revalidation ask for |
| `DeliverClaim`, `DeliverDuplicate`, `DeliverError` | `/internal/analyze-change` up to the outcome of the claim |
| `CheckNewerFirst` ... `Explain` | the stages of `execute`, in its order |
| `RecordFailure`, `RefuseFailure` | `_fail`: recorded by the owner of the attempt, refused for anybody else |
| `DispatchDeadline`, `LeaseExpires`, `Crash`, `StoreError` | 240 s pass, 300 s pass, the instance dies, Firestore fails |

Abstractions. An event *is* the rank of its `observed_at`, and a revision has the
name of the event that brought it. A moment is the number of claims made by then,
because `started_at` of a job and of a result are only ever compared with each
other. Content, the gate's rules and the analyzers' findings are choices among
their outcomes. One analyzer is routed per change, so one result ends the job. The
lease is taken after the dispatch began and is longer than the dispatch deadline,
so it ends only after the execution has lost its dispatch; the queue's backoff
(5 s up) may be shorter, which is what a takeover depends on.

### M2, RiskLedger

| TLA+ | Code |
|---|---|
| `risk`, `excluded` | the `Risk` document (lifecycle, disposition, review version, revision of its evidence) and its last exclusion event |
| `change`, `cleared` | event and job of a change as one status, and whether an execution of it is past the gate |
| `artifact` | latest and last completely analyzed revision, availability, status |
| `mount`, `source` | the status of the mount in all its values, ABSENT once it is removed; the status that source connection and source workspace share. Intake and the gate ask that both are ACTIVE (`Processable`, `Tracked`) |
| `explanation` | `explanation_safe` and the explanation being written, each by the revision of its evidence |
| `view` | the risk a person has open: the ETag and the disposition it showed |
| `RegisterDelete`, `RegisterChange` | intake's effect on the artifact and its risks (exclude, revive) |
| `UntrackArtifact`, `DisableMount`, `Remount` | the other ways the watch stops and starts: `DisableMount` is disabling and removing, from any status, and excludes the risks like a DELETE (`StopWatch`) |
| `RecordHealth`, `AskManager` | the source needs a new authorization, is offline or is well again (`B/application/public_facade/service.py:562`); the custodian left or lost the role (`B/core/workspaces/services.py:498`). Nothing is analyzed meanwhile, and no risk is excluded: the file is still `Watched` |
| `Claim`, `GateApprove`, `GateIgnore`, `EndRun`, `DropRun` | a run as the ledger sees it |
| `AcceptResult` with `Reconciled` | `_accept_once`: one step for the whole artifact |
| `OpenRisk`, `ChangeDisposition` | a review under `If-Match` |
| `SkipExplanation`, `BeginExplanation`, `EndExplanation` | `explain_risks`, two units of work around a model call |

M1 tells executions of one change apart, M2 does not: several executions of a change
are one membership in `cleared`, which allows every order of gate and result
that M1 allows, and more. Priority, summary, history and notifications follow the
modelled fields and are left out.

Two variables are history: `late` has the changes that were past the gate when the watch
stopped, `overtaken` the risks that a result of such a change opened, or kept open, on a
file nobody watches.

### M3, DocumentSession

`reads`, `answers`, `overlay` and `writes` are the four maps of
`FirestoreDocumentSession`; `Get`, `Query`, `Create`, `Set` and `Delete` are its
operations, `Commit` and `Refuse` the two outcomes of `atomic_commit`, which is one
Firestore transaction. The sessions run any operations in any order on any documents.
Two variables are history: `serial` is what the operations of the session would
have returned and left on every possible store, run alone; `undisturbed` says whether
anybody else changed the store since the session began.

### SourceIntake

A `ledger` is what the canonical store knows of one mount: the changes by
fingerprint and the artifact behind each name. `Clashes` is
`_require_matching_duplicate`: a fingerprint on record must come with the change it
came with. `CannotMove` is the refusal of a MOVE from a name without an artifact or
to a name that has one. `Refused` adds the mount's status, `Registered` the effect
on the artifacts. `Ascending` is the order in which a page or a push is handed over.
What becomes of the registered change is M1's matter.

### M4, DriveFeed

| TLA+ | Code |
|---|---|
| `drive` | the provider: where each file is, its version, the change feed |
| `runtime`, `channels` | `DriveRuntime` (`change_cursor`, channel id) and the channels opened at the provider |
| `job` | the local variables of the four async functions between two awaits: mounting, webhook, schedule, renewal |
| `intake` | the ledger, and whether the mount is ACTIVE |
| `Touch`, `Withdraw` | edits of a file: created, changed, moved in or out, removed |
| `Attach`, `EnsureCursor`, `Scan` | the request that mounts: start token, listing, registration |
| `BeginRound`, `List`, `SaveRuntime`, `Persist` | `reconcile`: load the runtime, list a page, save the cursor, register the page |
| `BeginRenewal`, `Renew` | `renew_watch` |
| `RecordHealth`, `ReadForNeighbour` | an outage and its end; a round of another workspace that shares the cursor |
| `Die`, `FallDue` | an instance ends between two awaits; a channel is about to expire |
| `settled`, `lost`, `clashed`, `scanned` | history: which entries were answered for, dropped by a failure, refused |

### M5, GitHubFeed

`branch` holds the commits and pushes of the tracked branch. `Deliver` is a webhook
that may be of any push, late or again; `Process` is `process_push_event` for the next
mount of the repository (`NextMount` also passes over one of which GitHub or the store finds something
no more, with nothing marked), and `MarkSeen` its end, which saves the delivery id before
the changes of the push are registered one by one (`PersistCommit`). `MountRepository`, `ListTree`, `PersistFile` and `EndScan` are the
initial listing, which runs beside the webhooks. `Stop` is a request or a scan that
ends half-way. History: `done` has the commits a mount has registered, or that are none
of its business (those before the mount was made are the listing's), `missed` those
dropped with a request, `upTo` the newest commit taken in, `disorder` the mounts that
took an older one after it.

### M6, DesktopFeed

| TLA+ | Code |
|---|---|
| `folder`, `Write`, `Unlink`, `Rename` | the disk and the raw events of the watcher |
| `debounce`, `Flush` | `pending` and the 3 s timer of a path |
| `held`, `heldBy`, `ReleaseDelete` | `pendingDeletes` and the 2 s a DELETE waits for a CREATE of the same content |
| `cache` | `contentHashCache`, empty after a restart |
| `queue`, `Report`, `Skip` | `RetryingDesktopEventQueue` with its capacity, and the reporter that reads the file again |
| `Open`, `Quit` | the application starts (every file is reported as CREATE) and is closed |

The two times are reduced to what their order decides: an entry made while a DELETE is
held back is flushed after it, since the debounce is longer than the window.

### M7, WorkspaceAdmin

One action per unit of work of `WorkspaceAdministrationService`: each checks the role of the
actor as the code does (`PermissionsFor`, `OwnerAdministers`) and the status it
requires. A mount stands for connection, source workspace and `WorkspaceMount`,
whose identities derive from each other; `custodian` is the connection's
`authorized_by`. `overruled` is history: mounts that asked for a manager and were
set back by a health report.

### M8, WorkspaceErasure

`docs` are the single documents, `risks`, `evidence` and `keys` those of the
artifact. An attempt goes through the collections in the erasers' order
(`EraseOperational`, `ListOwned`, `EraseNext`); children are found only through what
`ListOwned` read. `Fail` ends it anywhere. `AcceptResult` and `SaveRound` are the
worker and the scheduler that still write; `meanwhile` remembers what they wrote and
whether two attempts overlapped.

### M9, SourceRegistration

`call` is a request that connects (`FindConnection`, `Connect`, `NameConnection`) and
mounts (`RequirePending`, `CheckTracked`, `Register`, `SaveBinding`,
`ActivatePending`); the cleanup reads a page of expired records (`SweepPage`) and
deletes them one by one (`SweepRecord`). Each action is one read or write. `cut` is
history: bound connections that a fault between the last two writes, or a reader
that was overtaken, loses.

### M10, PatentAnalysis, and M11, LicenseAnalysis

One document is analyzed again and again; the providers answer what they like each
time. M10 follows `PatentAnalyzer.analyze`: extraction, searches under a deadline,
one relaxed round, ranking up to `CompareCap`, the patents of earlier results up to
`CarryLimit`, screening, documents, comparisons with one repetition, and
`AcceptPatents`, which is what `risk_reconcile` does with a complete or a partial
result. `proven` is the evidence stored under each risk's latest job, which the next
run's lookup reads. M11 follows `LicenseAnalyzer.analyze`: what the parser kept of
the part the gate let through (`losses` says why something may be missing), the two
metadata services, and `AcceptLicenses`.

### M12, PolicyRevalidation

| TLA+ | Code |
|---|---|
| `settings` | the license profile (a number: the saves so far) and the files the ignore rules leave out |
| `newest`, `queued`, `run` | the newest change of a file (event and job in one, with its lease), its task, its execution |
| `standing` | what the ledger holds: the profile of the last verdict, or that the file was excluded |
| `sweep` | the loops of `revalidate_mount_licenses`: the daily one and one for each saved profile, with the files they listed |
| `SaveProfile`, `SaveRules`, `ChangeFile` | `update_license_profile`, `update_ignore_policy`, a new revision |
| `BeginDaily`, `ListFiles`, `RequestFile`, `EnqueueFile`, `EndSweep` | the schedule; the loop: list in one unit of work, then for each file commit and enqueue, up to `RequestLimit` |
| `DeliverFile`, `GateLeavesOut`, `GateApproves`, `ReadProfile`, `AcceptVerdict` | a run: claimed, the rules read by the gate, the profile read by the analyzer, decided |
| `FailRun`, `CrashRun`, `LeaseEnds`, `LoseFile`, `DieSweeping` | a run fails or its worker dies and its lease ends; the enqueue or the loop is lost |

A run here ends before its lease does; attempts and late executions are M1's. The files
are those of one mount that the schedule reaches. Saving the rules asks for nothing: the
files they leave out or let in again follow with the next daily round.

## 3. What is checked

| Run | Asks |
|---|---|
| `execution_faults` | M1, one change, each fault and request once, two tries: types, `Lockstep`, `AttemptsFence`, `PendingIsQueued`, `ProcessingIsOwned`, `OneAnalysisAtATime`, `VerdictBelongsToAttempt`, and that it implements `AnalysisContract` |
| `execution_changes` | M1, two revisions and a DELETE, registered in any order: nothing is given up as superseded but for a change observed or registered later (`SupersededMeansNewer`), no verdict once another revision was registered later (`NoVerdictAfterLaterRevision`) |
| `execution_liveness` | with fairness, M1: every registered change is decided (`EventuallySettled`); M12: the saved settings in the end decide about every file within the limit, unless its task was lost (`SettingsSettle`) |
| `ledger_reviews` | M2, reviews against results and exclusions; that it implements `RiskContract` |
| `ledger_tracking` | M2, the watch stops twice, also while results are under way; sources fail and custodians leave: active risks belong to watched files, but for those `overtaken` by a result that had passed the gate before (`ActiveIsWatched`) |
| `session_serial` | M3: serializability, and who is refused |
| `source_feeds` | M4 and M6: `NothingSkipped` (the Drive cursor passes nothing nobody answers for), `FolderIsMirrored` (an idle desktop has reported what is on the disk), and with fairness `DriveSettles`, `DesktopSettles` |
| `control_plane` | M7: `OneOwner`, `CustodyIsMarked`, `RemovalIsFinal`; M8: `GoneIsComplete`, `RetryFindsAll`; M9: `MountedStaysConnected`; M5: `BranchIsFollowed`, `SeenIsAnswered`; M10: `ClosedWasCompared`, `FailureClosesNothing`; M11: `ClosedWasJudged` |

Four more runs, `execution_zombie`, `desktop_restart`, `deletion_retry` and
`patents_forgotten`, each show one statement of the documentation that the code does
not keep; see section 5. Every property of the passing runs has a mutant in
`PROJECT.json`: a change of one mapped definition, as a bug in that code would make
it, under which the same run finds the property violated.

Several properties name the cases in which the code does break them: the history
variables `overtaken`, `lost`, `clashed`, `gap`, `returned`, `missed`, `disorder`,
`overruled`, `meanwhile`, `cut`, `lookup` and `losses` say which case occurred. The property then
says that nothing else breaks it, and section 5 lists the cases.

### Bounds

* `execution_faults`: two workers and two task slots are the least for an execution
  and its successor, and for a second task of the same event; two tries let a task
  outlive a failed dispatch. Each fault and request (untracking included) happens
  once, in every combination and order. A third execution would need a second
  detached one; `AttemptsFence`, `Lockstep` and the ownership properties are proved
  for any number.
* `execution_changes`: a DELETE between two revisions is the shortest sequence in which
  a change without analysis comes between two with one; registered in every order, it
  is also the shortest in which an older observation takes the latest revision back. Two
  tries, one dispatch that outlives its deadline, one untracking.
* `execution_liveness`: one change, two tries, one duplicate, one request, one detached
  dispatch. A liveness counterexample needs no more than one event: events meet only
  in `latest_revision`, and there an older event ends FAILED. For the settings: two files
  and a limit of one, so that one is beyond it and the other first; one save, two
  changes, one failure. One file with two saves and two failures was checked once.
* `ledger_*`: one risk key. Every action treats each key on its own (`ContractCorrect` is
  proved for any number), so a second key only multiplies states. Changes 1 and 3 name
  the same revision, 2 is a DELETE without one, 4 names another: the least in which a
  file leaves and comes back with the same and with other content. Two reviewers hold
  each other's stale versions. `ledger_tracking` has no reviewers and takes changes 1, 2
  and 4: two stops, so that the watch begins again and stops once more; two health
  reports or lost custodians, so that a source fails and is well again; one reanalysis and
  two explanations.
* `session_serial`: two documents are needed for a torn read and a write skew, a
  third operation for read, read, write beside a session that reads and writes; the
  query matches one of two contents, so documents enter and leave its answer.
* `source_feeds`, Drive: one file, pages of one change, a feed of two changes after
  which it is compared; two jobs under way are the least to save over each other's
  runtime, and one of each kind may be among them. One mounting, one channel, one
  fault. (Two channels, for safety only, were checked once: 2.4 million states.)
* `source_feeds`, desktop: two paths are a rename and what stands in its way, two
  contents an edit and its undoing, a queue of two is full after one rename and one
  edit; two edits on top of the initial folder, one restart, one lost answer.
* `control_plane`, people: a founder and two others let ownership move and come back and
  the former owner be removed; one mount (mounts do not meet) and the two roles that
  differ in whether they may mount. Deletion: two attempts, two risks, one known
  before and one found meanwhile. Registration: two records, two requests (three
  were checked once: 3.1 million states). GitHub: a tracked and an untracked path, so
  renames cross the scope; two commits in one push or two, two requests, one stop
  (two mounts were searched once, the first 11 million states; both
  properties are proved for any number). Patents: two, with a cap and a
  limit of one, so both cut something off. Licenses: two packages, one of which can
  be lost.

The runs use symmetry of workers, task slots, reviewers, documents, patents, queries
or packages where nothing orders them, and none where liveness is checked. Deadlock
is checked in `session_serial`; the other models do come to rest, when everything is
decided and no request, edit or fault is left in the bound.

### Fairness

`FairSpec` of M1 asks for weak fairness of each worker's next step (a running
handler keeps running; a crash is a fault outside of it), of the enqueue after a
commit (the same process makes the call), of the delivery of each queued task
(Cloud Tasks delivers at least once) and of the end of each lease (time passes).
It asks nothing of registrations, requests, faults or people.
`EventuallySettled` is checked where no instance dies and the store answers: under a
crash it is false, which `execution_zombie` shows, with the same fairness.

`SettlingFairSpec` adds, for the settings, that the daily round begins (Cloud Scheduler),
that a loop that has begun goes on (its death is a fault), and that tasks are delivered,
runs continue and leases end. Saves, changes, failures and deaths are never fair. A
stable end is claimed although the daily round asks again for ever: what it decides
again, it decides the same.

`FairSpec` of `SourceFeeds` asks, for Drive, for weak fairness of the next step of
each running job, of the health report that ends an outage, and for strong fairness
of the schedule's `BeginRound`: Cloud Scheduler calls every 15 minutes whatever else
is running, and in the model a round can be kept out only by the bound on jobs. For
the desktop it asks that the application is started again some day, that timers fire
(`Flush`, `ReleaseDelete`) and that the queue's drain goes on until an answer arrives
(`Skip \/ Report(TRUE)`). Edits, restarts, webhooks, faults and lost answers are
never fair. Both liveness properties name what the code gives up on: a page dropped
by a failure or a clash (`DriveSettles`), an event lost, passed over, or at the head
of the queue and always refused (`DesktopSettles`).

## 4. What is proved

TLAPS proves, for any sets of events, workers, tasks, keys, changes, reviewers,
documents, queries, sessions, people, mounts, attempts, requests, patents, packages, files,
paths, contents, jobs and deliveries, and for any bounds, under the assumptions stated as `ASSUME` in the modules:

* **M1** `TypeCorrect`, `FenceCorrect`, `LockstepCorrect`. The inductive invariant
  `TypeInv` adds to the types that a task slot in use names an event (`TaskOK`), that a
  worker at work holds an event and an attempt number not above that event's
  (`WorkerOK`), and that a dispatch has one execution (`DispatchOK`). The fence needs
  `WorkerOK`: a claim raises the number above every one in use. `Lockstep` is
  preserved because each transition moves both documents.
* **M1** `PendingIsQueuedCorrect`, `ProcessingIsOwnedCorrect`, `OneAnalysisCorrect`,
  `VerdictBelongsToAttemptCorrect`. Each is relative to the faults it excludes. A step
  that sets PENDING creates the enqueue call in the same commit, and a queued task of a
  PENDING event can only be claimed; a PROCESSING event's owner leaves only through a
  step that ends the event. For `OneAnalysisAtATime` the strengthening `Alone` says that,
  as long as nothing was detached, an undecided execution owns its event's attempt and
  the event is PROCESSING under a live lease, so that no claim can take it. The same
  invariant gives `VerdictBelongsToAttempt`: the code compares starting times, and the
  comparison can only mistake an execution that is no longer alone.
* **M1** `ContractCorrect`: M1 implements `AnalysisContract`. An initial state maps to an
  initial state and every step, for each change, to a step of the contract or a stutter.
  `DocumentInv` adds to `TypeInv` and `Lockstep` that nobody works on a DELETE
  (`DeletesUnworked`): it has no job, so no claim finds one.
* **M1** `SupersededCorrect` and `LaterRevisionCorrect`, for changes registered in any order.
  `OrderInv` says that what was on record before a change is on record, and that of two
  changes at most one was before the other (`BeforeOK`); that the latest revision is the
  one registered last, which every other on record was before (`LatestIsLast`); and that
  whoever works on a change works on one that has a job (`WorkedHasJob`). So a change whose
  revision is not the latest is given up to one registered after it, and an accepted one has
  none after it. Neither says that the later one is the newer observation (section 5).
* **M2** types, `ExcludedIsClosed`, `ValidViewIsCurrent`, `JudgementIsKept`,
  `OldJudgementStaysBehind`, `ClosedByCompleteAnalysis`. `LedgerInv` is the types, that a
  risk that does not exist carries no judgement (`Blank`), that a view is of a risk that exists (`Opened`),
  and the two state properties. The action properties follow from the invariant and a
  case split over the shapes a step can give a risk (`RiskStep`).
* **M2** `ActiveIsWatchedCorrect`, by `WatchInv`: a change past the gate that is not late
  means that the file is watched. Every step that ends the watch excludes all risks and
  makes every change past the gate late, and the gate asks for more than the watch.
* **M2** `ContractCorrect`: initial states map to initial states of `RiskContract` and
  every step is, for each risk, one of its steps or a stutter.
* **M3** `TypeCorrect`, `SerializableCorrect`, `RefusedOnlyIfDisturbedCorrect`.
  `SessionInv` says that overlay, reads and writes agree (`Bookkept`), that an
  undisturbed session's expectations hold (`Calm`), and that on *every* store meeting
  its expectations so far the session's operations would have gone the same way and
  left its writes applied to that store (`Explained`). The quantifier is what makes it
  inductive: which store the session will commit to is not known while it runs.
* **M4** `DriveTypeCorrect`, `NothingSkippedCorrect`. `DriveInv` follows each entry of the
  feed: what the cursor has passed, or a job is on its way to move it past, is settled,
  lost, or in the hands of a job that will register it (`PassedIsAccounted`), of a folder
  that had a cursor before it was listed (`ListedHasCursor`); what a job holds, pages and
  token, fits its position and the feed (`JobsFit`, `RecordFits`). The strengthening is
  about the jobs because the cursor alone does not say who read what it has passed.
* **M5** `GitTypeCorrect`, `SeenAnsweredCorrect`. `GitInv` says that a request under way
  tells of a push that exists (`RequestShape`, `SeenIsPushed`, `PushesOnBranch`), and that
  each commit of the delivery seen last is done, missed, or carried by a request
  (`SeenIsCarried`): two requests may carry the same one, and the second may mark it
  seen while the first still registers.
* **M5** `BranchFollowedCorrect`. `FollowInv` says that the content of the branch at a path is
  what the last commit that touches it left there (`BranchTold`); that a request holds
  exactly what concerns the mount of its push (`WorkOfPush`); that a mount is nobody's before it
  is made and knows commits only before it is listed (`TodoMounted`, `Unlisted`); that a file
  of the listing that waits is new to the mount, and on the branch unless a later commit
  touched it (`Waiting`); that what is done and concerns the mount is not beyond `upTo`
  (`DoneIsPassed`, `RecordIsDone`). From these, for each path of which every commit is
  done, the ledger shows what the last one left, once the listing has reached it
  (`OrderlyAgrees`). In order means that a new change never has a commit below `upTo`, so
  the last change taken in of a path is of its last commit, renames included.
* **M6** `DeskTypeCorrect`, `FolderMirroredCorrect`. `DeskInv` relates the four places a
  change of a path can be: the timers (`EntryAgrees`), the held DELETEs (`FoundIsHeld`,
  `HeldIsGone`), the queue and the ledger. With nothing lost or passed over, the queue run
  to its end on the ledger shows every file that no timer waits for (`FilesArrive`), and
  shows none that is gone (`GoneLeave`).
* **M7** `AdminTypeCorrect`, `OneOwnerCorrect`, `CustodyIsMarkedCorrect`,
  `RemovalIsFinalCorrect`. `AdminInv` adds to the two properties that no invitation
  offers the role OWNER (`InvitesNoOwner`) and that a mount on record has been
  authorised by somebody (`MountedIsInCare`); the owner's own role changes only by a
  transfer, which moves document and memberships together.
* **M8** `ErasureTypeCorrect`, `GoneIsCompleteCorrect`, `RetryFindsAllCorrect`.
  `ErasureInv` says that the owner's membership goes before the mount, the artifact,
  the risks and the workspace (`OwnerGoesFirst`), which gives `RetryFindsAll` for any
  number of overlapping attempts; and that, as long as no two attempts overlapped, the
  one under way has removed what its position says (`Progress`) and had listed all that
  was there (`Listed`).
* **M9** `RegTypeCorrect`, `MountedStaysConnectedCorrect`. `RegInv` adds that a request
  that goes on names a record (`NamesRecord`) and that nobody who read an ACTIVE record
  before it was mounted still means to expire or delete it, unless it is in `cut`
  (`ReadersAreLate`).
* **M10** `PatentTypeCorrect`, `FailureClosesNothingCorrect`, `ClosedWasComparedCorrect`.
  `PatentInv` adds that a document or comparison that failed has left a candidate
  without a verdict (`FailureIsSeen`), so that the result cannot be complete, and that
  every open risk has evidence under its latest job and a whole lookup makes its patent
  a candidate (`KnownIsLookedAt`).
* **M11** `LicenseTypeCorrect`, `ClosedWasJudgedCorrect`. `LicenseInv` adds that what was
  not read of the declarations has its reason in `losses` (`LossIsNoted`) and that a
  failed lookup shows in the coverage (`FailureIsNoted`).

* **The specifications TLC runs** `FeedsTypeCorrect`, `ControlTypeCorrect`: `SourceFeeds` and
  `ControlPlane` keep the types of all their parts. A step of the chosen part is a stutter of
  the others, so a behaviour is one of each part (`FeedsParts`, `ControlParts`), and each
  property of a part follows from the part's own theorem above. Nothing is said of parts
  that move at the same time: they share no state.

The strengthenings are needed because the properties alone say nothing about the
steps under way. Each was checked by TLC on a small instance before it was proved.

Beyond types of the bounds, the assumptions are: paths, files and mounts of a source are
finitely many (`GitFinite`, `FileAssumption`), a page holds something (`PageAssumption`),
the queue of the desktop holds something (`CapacityAssumption`), absence is no content
(`ContentAssumption`), tracked paths are paths (`TrackedAssumption`).

Two properties were false of a larger instance than the runs have, and the proofs found
it; in both cases history was kept wrongly and the code is as it was. With three Drive
jobs at once, an entry could be dropped by two of them while only one was noted
(`Dropped` notes both). With two tracked paths, a commit counted as dealt with because a
listing of the same moment named another file (`done` now takes registered commits only).

Only model-checked: the liveness properties (`EventuallySettled`, `SettingsSettle`,
`DriveSettles`, `DesktopSettles`), which are out of the prover's reach, and the properties
that section 5 shows to be violated. Every safety property of the passing runs is proved.

## 5. Where code and documentation disagree

| Run | What it shows |
|---|---|
| `execution_zombie` | a worker dies; the queue's retry comes before the lease ends, is answered 200 and consumed; the event stays PROCESSING until a person asks again |
| `desktop_restart` | after a restart the desktop reports a file as CREATE; if the server has that content as an UPDATE or MOVE it refuses the report, and the queue tries it for ever |
| `deletion_retry` | a deletion fails after the memberships were erased: nobody is left who may ask again |
| `patents_forgotten` | the job that closes a patent risk becomes its latest and stores no evidence: the next complete run does not look at the patent, and the risk cannot be reopened |

Refuted by TLC as well, in runs that are not kept (the models have the behaviour, and
the properties of section 3 name it):

* `started_at` is the analyzer's start, not the claim's: the result of an execution that
  outlived its dispatch and starts its analyzer after the takeover is accepted for its
  successor's attempt (`B/application/risk_reconcile/service.py:586`).
* An older observation registered later takes `latest_revision` back; the newest
  revision is refused as superseded and the older one gives up to it
  (`B/application/process_change/service.py:468`). `SupersededMeansNewer` and
  `NoVerdictAfterLaterRevision` hold of the order of registration.
* The watch stops during the model calls; the late result brings the excluded risks back
  into the active list (`risk_reconcile/service.py:588`), where they read as if the file were
  tracked (`src/docs/RISK_DISPOSITION_POLICY.md`, section 3). `overtaken` has these risks; the
  next exclusion of the artifact ends it.
* A risk excluded with its mount and found again on the same revision loses its judgement
  (`risk_reconcile/service.py:349`).
* The explanation of the old revision is kept when the risk is confirmed on a new one
  (`B/application/risk_explanation/service.py:97`).
* Drive: a version listed by the scan and by the feed has one fingerprint and two change
  types, and the second is refused (`B/connectors/google_drive/adapter.py:433`, `:484`).
  The page's rest is dropped with it.
* Drive: a connection is named by its folder (`B/application/public_facade/service.py:740`),
  so two workspaces that follow the folder share one cursor: a round of one moves it past
  what the other has not read.

Found while reading and modelled as they are, without a property of their own:

* A source that is offline, needs a new authorization or asks for a manager keeps its active
  risks (`B/application/public_facade/service.py:562`, `B/core/workspaces/services.py:498`), although
  intake and the gate refuse everything that could confirm or close them.
* A leftover second task takes a terminally FAILED event over and executes it again
  (`B/application/analysis_jobs/service.py:117`). A risk whose file returns with other
  content comes back EXISTING (`B/application/risk_exclusion.py:208`), while
  `src/docs/RISK_DISPOSITION_POLICY.md:102` says NEW.
* Drive: a removed file of another folder is reported as DELETE to every mount
  (`adapter.py:471`); a page read while the mount is not ACTIVE is lost, since the cursor has
  moved; mounting, renewal and reconciliation save over each other's `DriveRuntime`.
* A health report sets a mount that asks for a manager back to ACTIVE. A new owner is not
  told of mounts that asked before. One invitation and one membership per person, ever.
* GitHub: the first change that intake refuses drops the rest of the push. Removals in a
  forced push are not seen.
* Desktop: the fingerprint of a DELETE is constant per path, so a second DELETE is
  passed over; a file gone before its MOVE is reported leaves the old name AVAILABLE;
  files removed while the application is closed are never reported.
* Deletion: two overlapping attempts can leave the source workspace and unique keys; a
  worker's result between listing and erasing leaves orphans, and a scheduler round
  saves `DriveRuntime` again after it was erased.
* Registration: a request that ends between saving the binding and activating the record
  leaves a mount whose binding leads to no usable connection; so does a cleanup or an
  expiry that read the record just before.
* Patents: `_carried_forward` (`B/intelligence/patent/analyzer.py:525`) takes a failed lookup
  for an empty one, and the limit cuts the list; the run may still be COMPLETE and close
  risks nobody looked at, against the comment at `analyzer.py:373`.
* Settings: a revalidation takes every exception for a refusal
  (`B/application/public_facade/service.py:359`). If it was the enqueue that failed, the change
  is PENDING without a task, and every later revalidation is refused for it; only a new
  revision of the file, or another report of the same one, ends that (`Stranded`).
* Settings: every revalidation begins with the same files and stops at its limit, so files
  beyond it may keep the verdict of an old profile (`WithinReach`; the specification knows
  it of the schedule).
* Licenses: a cut file with no declaration in the part that was kept is COMPLETE
  (`B/intelligence/license/analyzer.py:263`); entries of lock, `setup.cfg` and TOML files that
  cannot be read, and a second version of a package, are dropped in silence.

## 6. What is not modelled

In the modules: the text of rules, minimisation and redaction in the gate; SPDX
expressions, the license policy table, prompts, scores, quotes and caches of the
analyzers; a failure of the model that screens patents (`FailureClosesNothing` is about
searches, documents and comparisons); the walk over Drive folders (a folder ten levels down is inside or not by the
way it is reached), so the scan's limits too: it stops at 300 items and ten levels down
(`DriveFeed.Scan` lists every file), path hints and path filters; priorities, summaries, history and
notifications; audit events, renaming of a workspace; the
in-memory unit of work (tests and local runs), whose global revision number is stricter
than M3.

Whole components:

* Cause attribution and the retention of evidence are pure selections over lists that no
  transition reads. (`_attribute` names UNKNOWN for a reanalysis, which keeps the job's id.)
* The rest of security policy: the version conflict of two rules edits (one document, one
  unit of work each, which M3 covers) and the data access summary.
* Device enrolment and OAuth state: single-use challenges, each behind one document, that
  nothing else reads.
* Retrieval and language models: their answers are inputs of M10 and M11.
* Repositories and mappers: typed access to documents; their identity checks repeat those
  of the transitions.
* HTTP API, sessions, history, notifications, frontend, desktop shell: requests and views
  over the documents above.
* Validation, evaluation and deployment scripts.

The modules cover about a sixth of the implementation's lines. The rest is mostly
conversion and text: Firestore mappers, request models, parsers, prompts, provider
clients, views and scripts, which hold no state and no order of events, so a model of
them would be a transliteration without a property.

## 7. Plan

Done, in this order: M1, because the queue and the attempts are where the most actors
meet; M2, because people depend on it; M3, because the others stand on it; the sources
(M4 to M6); the workspace (M7, M8) and its connections (M9); the analyzers (M10, M11);
the settings they follow (M12).

What is left, most useful first:

| Next | Questions | Proofs |
|---|---|---|
| M2's `cleared` implemented by M1's workers | does the ledger see only orders of gate and result that the queue produces? | the refinement |
| M4 and M5 with M1's intake | a registered change of a feed is decided | none (liveness) |
| M12's runs implemented by M1's | does a late execution bring an old profile back? | none (liveness) |
| Device enrolment and OAuth state | single use, expiry, two instances without a common lock | single use |
