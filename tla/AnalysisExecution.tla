------------------------- MODULE AnalysisExecution -------------------------
(***************************************************************************)
(* The analysis of the changes of ONE artifact: intake of a SourceChange,  *)
(* the Cloud Tasks queue, the workers that claim, fetch, gate, analyze and *)
(* accept, and the requests that put a finished analysis back.             *)
(*                                                                         *)
(* Documents live in Firestore; every unit of work is an optimistic        *)
(* transaction, so one unit of work is one action.  What lies between two  *)
(* units of work (a queue call, a provider call, a model call) is a gap in *)
(* which every other actor may move, and a worker may die.                 *)
(*                                                                         *)
(* Time is abstracted to the orders the code relies on.                    *)
(*   - observed_at: an event IS its observation rank, e < f iff e was      *)
(*     observed before f; revisions are named by the event that brought    *)
(*     them.                                                               *)
(*   - job.started_at and result.started_at are compared only with each    *)
(*     other: a moment is the number of claims of the event made by then.  *)
(*   - the lease is "live" until it is "expired".  It is taken after the   *)
(*     dispatch begins and lasts 300 s while the dispatch deadline is      *)
(*     240 s, so it outlives the dispatch that took it; the queue's        *)
(*     backoff (5 s to 3600 s) may end before or after it expires.         *)
(***************************************************************************)
EXTENDS Naturals

CONSTANTS
  Event,       \* change events of the artifact, as observation ranks
  Deletes,     \* the events whose change_type is DELETE
  Worker,      \* concurrent executions of the task handler
  Task,        \* slots for undelivered or running Cloud Tasks tasks
  NoEvent,     \* the worker or the slot holds no event
  NoTask,      \* the worker answers no dispatch
  MaxTries,    \* tries before the queue gives a task up (count or age)
  Limit        \* bound on each kind of fault and outside request

Fault == {"duplicate", "request", "untrack", "lost", "crash", "detach",
          "store"}

ASSUME EventAssumption == Event \subseteq Nat /\ Deletes \subseteq Event
ASSUME NoneAssumption == NoEvent \notin Event /\ NoTask \notin Task
ASSUME TriesAssumption == MaxTries \in Nat \ {0}
ASSUME LimitAssumption == Limit \in [Fault -> Nat]

VARIABLES
  event,     \* ChangeEvent documents: status, attempts, lease
  job,       \* AnalysisJob documents: status, startedAt
  artifact,  \* Artifact and ArtifactState: latest revision, availability
  intents,   \* enqueue calls a committed unit of work still owes
  task,      \* Cloud Tasks: where each task is and how often it was tried
  exec,      \* the executions: program counter and local variables
  used,      \* how many faults and outside requests happened
  before     \* history: what was on record when a change was registered

vars == <<event, job, artifact, intents, task, exec, used, before>>

EventStatus == {"NONE", "PENDING", "PROCESSING", "DONE", "FAILED"}
JobStatus == {"NONE", "QUEUED", "RUNNING", "SUCCEEDED", "INCONCLUSIVE",
              "FAILED"}
Verdict == {"SUCCEEDED", "INCONCLUSIVE", "FAILED"}
Holding == {"claimed", "fetching", "fetched", "gated", "analyzing",
            "analyzed", "explaining", "failing"}
\* Why a run is given up.  MOVED and SUPERSEDED are both recorded as
\* SOURCE:REVISION_SUPERSEDED: MOVED is the provider holding another revision
\* than the asked one, SUPERSEDED is the control plane's own finding.
FailureCode == {"NONE", "SUPERSEDED", "MOVED", "OTHER"}

EventDoc == [status : EventStatus, attempts : Nat,
             lease : {"none", "live", "expired"}]
JobDoc == [status : JobStatus, startedAt : Nat]
ArtifactDoc == [latest : Event \cup {NoEvent},
                availability : {"AVAILABLE", "DELETED"},
                status : {"ACTIVE", "ARCHIVED"}]
TaskRecord == [state : {"free", "queued", "dispatched"},
               ev : Event \cup {NoEvent}, tries : Nat]
Execution == [pc : Holding \cup {"idle"}, ev : Event \cup {NoEvent},
              attempt : Nat, task : Task \cup {NoTask}, startedAt : Nat,
              code : FailureCode, retryable : BOOLEAN]

TypeOK ==
  /\ event \in [Event -> EventDoc]
  /\ job \in [Event -> JobDoc]
  /\ artifact \in ArtifactDoc
  /\ intents \in [Event -> Nat]
  /\ task \in [Task -> TaskRecord]
  /\ exec \in [Worker -> Execution]
  /\ used \in [Fault -> Nat]
  /\ before \in [Event -> SUBSET Event]

Idle == [pc |-> "idle", ev |-> NoEvent, attempt |-> 0, task |-> NoTask,
         startedAt |-> 0, code |-> "NONE", retryable |-> FALSE]
Free == [state |-> "free", ev |-> NoEvent, tries |-> 0]

Init ==
  /\ event = [e \in Event |->
                [status |-> "NONE", attempts |-> 0, lease |-> "none"]]
  /\ job = [e \in Event |-> [status |-> "NONE", startedAt |-> 0]]
  /\ artifact = [latest |-> NoEvent, availability |-> "AVAILABLE",
                 status |-> "ACTIVE"]
  /\ intents = [e \in Event |-> 0]
  /\ task = [t \in Task |-> Free]
  /\ exec = [w \in Worker |-> Idle]
  /\ used = [f \in Fault |-> 0]
  /\ before = [e \in Event |-> {}]

\* One more fault or outside request of kind f, within its bound.
Spend(f) ==
  /\ used[f] < Limit[f]
  /\ used' = [used EXCEPT ![f] = @ + 1]

-----------------------------------------------------------------------------
(* The pure transitions of ChangeEvent and AnalysisJob.                    *)

ClaimChangeEvent(ev) ==
  [status |-> "PROCESSING", attempts |-> ev.attempts + 1, lease |-> "live"]
\* Mutant: a takeover keeps the number of the attempt it replaces.
ReclaimSameAttempt(ev) ==
  [status |-> "PROCESSING", attempts |-> ev.attempts, lease |-> "live"]
ReclaimChangeEvent(ev) ==
  [status |-> "PROCESSING", attempts |-> ev.attempts + 1, lease |-> "live"]
CompleteChangeEvent(ev) ==
  [status |-> "DONE", attempts |-> ev.attempts, lease |-> "none"]
FailChangeEvent(ev) ==
  [status |-> "FAILED", attempts |-> ev.attempts, lease |-> "none"]
RequeueChangeEvent(ev) ==
  [status |-> "PENDING", attempts |-> ev.attempts, lease |-> "none"]
ReanalyzeChangeEvent(ev) ==
  [status |-> "PENDING", attempts |-> ev.attempts, lease |-> "none"]
LeaseIsLive(ev) == ev.status = "PROCESSING" /\ ev.lease = "live"

\* Mutant: the job takes the event's status word.
ClaimJobMisnamed(moment) == [status |-> "PROCESSING", startedAt |-> moment]
ClaimJob(moment) == [status |-> "RUNNING", startedAt |-> moment]
ReclaimJob(moment) == [status |-> "RUNNING", startedAt |-> moment]
CompleteJob(jb, verdict) == [status |-> verdict, startedAt |-> jb.startedAt]
RequeueJob == [status |-> "QUEUED", startedAt |-> 0]
ReanalyzeJob == [status |-> "QUEUED", startedAt |-> 0]

\* The two documents say the event is being executed.
Running(e) == event[e].status = "PROCESSING" /\ job[e].status = "RUNNING"

\* Mutant: an inconclusive job leaves its event PROCESSING.
ConcludeHalf(e, verdict) ==
  /\ job' = [job EXCEPT ![e] = CompleteJob(@, verdict)]
  /\ event' = [event EXCEPT ![e] =
                 IF verdict = "FAILED" THEN FailChangeEvent(@)
                 ELSE IF verdict = "SUCCEEDED" THEN CompleteChangeEvent(@)
                 ELSE @]

\* event and job of e end with the verdict of an accepted or denied run.
Conclude(e, verdict) ==
  /\ job' = [job EXCEPT ![e] = CompleteJob(@, verdict)]
  /\ event' = [event EXCEPT ![e] = IF verdict = "FAILED"
                                   THEN FailChangeEvent(@)
                                   ELSE CompleteChangeEvent(@)]

-----------------------------------------------------------------------------
(* Intake: the API process, the webhook and the scheduler.                 *)

\* register_source_change for a fingerprint seen for the first time.  The
\* unit of work overwrites the artifact's state with this change whatever
\* its observed_at is: changes come in any order.  A DELETE is born DONE,
\* has no job and is not queued; GitHub's names a revision, Drive's and
\* Local's leave the latest one.
Register(e) ==
  /\ event[e].status = "NONE"
  /\ IF e \in Deletes
     THEN /\ event' = [event EXCEPT ![e].status = "DONE"]
          /\ \E latest \in {artifact.latest, e} :
               artifact' = [latest |-> latest, availability |-> "DELETED",
                            status |-> "ACTIVE"]
          /\ UNCHANGED <<job, intents>>
     ELSE /\ event' = [event EXCEPT ![e].status = "PENDING"]
          /\ job' = [job EXCEPT ![e].status = "QUEUED"]
          /\ artifact' = [latest |-> e, availability |-> "AVAILABLE",
                          status |-> "ACTIVE"]
          /\ intents' = [intents EXCEPT ![e] = @ + 1]
  /\ before' = [before EXCEPT ![e] = {f \in Event : event[f].status # "NONE"}]
  /\ UNCHANGED <<task, exec, used>>

\* Mutant: a FAILED change is put back and not queued.
RegisterDuplicateUnqueued(e) ==
  /\ e \notin Deletes
  /\ Spend("duplicate")
  /\ event[e].status = "FAILED" /\ job[e].status = "FAILED"
  /\ event' = [event EXCEPT ![e] = RequeueChangeEvent(@)]
  /\ job' = [job EXCEPT ![e] = RequeueJob]
  /\ UNCHANGED <<artifact, intents, task, exec, before>>

\* The same change delivered again.  PENDING is queued once more and FAILED
\* is put back; PROCESSING and DONE answer DUPLICATE and change nothing.
RegisterDuplicate(e) ==
  /\ e \notin Deletes
  /\ Spend("duplicate")
  /\ intents' = [intents EXCEPT ![e] = @ + 1]
  /\ \/ /\ event[e].status = "PENDING" /\ job[e].status = "QUEUED"
        /\ UNCHANGED <<event, job>>
     \/ /\ event[e].status = "FAILED" /\ job[e].status = "FAILED"
        /\ event' = [event EXCEPT ![e] = RequeueChangeEvent(@)]
        /\ job' = [job EXCEPT ![e] = RequeueJob]
  /\ UNCHANGED <<artifact, task, exec, before>>

\* The enqueue call that follows the commit reaches Cloud Tasks ...
Enqueue(e, t) ==
  /\ intents[e] > 0
  /\ task[t].state = "free"
  /\ intents' = [intents EXCEPT ![e] = @ - 1]
  /\ task' = [task EXCEPT ![t] = [state |-> "queued", ev |-> e, tries |-> 0]]
  /\ UNCHANGED <<event, job, artifact, exec, used, before>>

\* ... or fails, or the process dies between the commit and the call.
LoseEnqueue(e) ==
  /\ intents[e] > 0
  /\ Spend("lost")
  /\ intents' = [intents EXCEPT ![e] = @ - 1]
  /\ UNCHANGED <<event, job, artifact, task, exec, before>>

\* Mutant: the put back event is saved and its job is not.
RetryFailedHalf(e) ==
  /\ Spend("request")
  /\ intents' = [intents EXCEPT ![e] = @ + 1]
  /\ event[e].status = "FAILED" /\ job[e].status = "FAILED"
  /\ event' = [event EXCEPT ![e] = RequeueChangeEvent(@)]
  /\ UNCHANGED <<job, artifact, task, exec, before>>

\* retry_failed: a FAILED execution is put back, a PENDING one queued again.
RetryFailed(e) ==
  /\ Spend("request")
  /\ intents' = [intents EXCEPT ![e] = @ + 1]
  /\ \/ /\ event[e].status = "PENDING" /\ job[e].status = "QUEUED"
        /\ UNCHANGED <<event, job>>
     \/ /\ event[e].status = "FAILED" /\ job[e].status = "FAILED"
        /\ event' = [event EXCEPT ![e] = RequeueChangeEvent(@)]
        /\ job' = [job EXCEPT ![e] = RequeueJob]
  /\ UNCHANGED <<artifact, task, exec, before>>

\* Mutant: the reanalysis is committed and never queued.
ReanalysisUnqueued(e) ==
  /\ e \notin Deletes
  /\ event[e].status \notin {"NONE", "PENDING"}
  /\ ~LeaseIsLive(event[e])
  /\ Spend("request")
  /\ event' = [event EXCEPT ![e] = ReanalyzeChangeEvent(@)]
  /\ job' = [job EXCEPT ![e] = ReanalyzeJob]
  /\ UNCHANGED <<artifact, intents, task, exec, before>>

\* request_reanalysis: anything but PENDING and a live lease is put back.
RequestReanalysis(e) ==
  /\ e \notin Deletes
  /\ event[e].status \notin {"NONE", "PENDING"}
  /\ ~LeaseIsLive(event[e])
  /\ Spend("request")
  /\ event' = [event EXCEPT ![e] = ReanalyzeChangeEvent(@)]
  /\ job' = [job EXCEPT ![e] = ReanalyzeJob]
  /\ intents' = [intents EXCEPT ![e] = @ + 1]
  /\ UNCHANGED <<artifact, task, exec, before>>

\* untrack_artifact: the artifact is archived, no event is written.
UntrackArtifact ==
  /\ artifact.latest # NoEvent
  /\ artifact.status = "ACTIVE"
  /\ Spend("untrack")
  /\ artifact' = [artifact EXCEPT !.status = "ARCHIVED"]
  /\ UNCHANGED <<event, job, intents, task, exec, before>>

-----------------------------------------------------------------------------
(* Cloud Tasks and the task handler.                                       *)

\* An attached execution answers its dispatch: 2xx deletes the task, any
\* other status puts it back until its tries are used up.
Answer(t, ok) ==
  IF t = NoTask
  THEN task' = task
  ELSE task' = [task EXCEPT ![t] = IF ok \/ @.tries >= MaxTries
                                   THEN Free
                                   ELSE [state |-> "queued", ev |-> @.ev,
                                         tries |-> @.tries]]

\* The claim finds nothing to do: a live lease, or a finished execution.
NothingToClaim(e) ==
  \/ Running(e) /\ event[e].lease = "live"
  \/ event[e].status = "DONE" /\ job[e].status \in {"SUCCEEDED", "INCONCLUSIVE"}

Claimable(e) == event[e].status = "PENDING" /\ job[e].status = "QUEUED"

\* Mutant: the takeover does not look at the lease.
ReclaimableAnyLease(e) ==
  \/ Running(e)
  \/ event[e].status = "FAILED" /\ job[e].status = "FAILED"

Reclaimable(e) ==
  \/ Running(e) /\ event[e].lease = "expired"
  \/ event[e].status = "FAILED" /\ job[e].status = "FAILED"

\* Worker w takes the dispatch of t with its (re)claim of e committed.
Hold(w, t, e) ==
  /\ task' = [task EXCEPT ![t] = [state |-> "dispatched", ev |-> e,
                                  tries |-> @.tries + 1]]
  /\ exec' = [exec EXCEPT ![w] = [pc |-> "claimed", ev |-> e,
                                  attempt |-> event'[e].attempts, task |-> t,
                                  startedAt |-> 0, code |-> "NONE",
                                  retryable |-> FALSE]]

\* A dispatch whose claim answers DUPLICATE: 200, and the task is consumed.
DeliverDuplicate(w, t) ==
  /\ exec[w].pc = "idle"
  /\ task[t].state = "queued"
  /\ NothingToClaim(task[t].ev)
  /\ task' = [task EXCEPT ![t] = Free]
  /\ UNCHANGED <<event, job, artifact, intents, exec, used, before>>

DeliverClaim(w, t) ==
  LET e == task[t].ev IN
  /\ exec[w].pc = "idle"
  /\ task[t].state = "queued"
  /\ \/ /\ Claimable(e)
        /\ event' = [event EXCEPT ![e] = ClaimChangeEvent(@)]
        /\ job' = [job EXCEPT ![e] = ClaimJob(event[e].attempts + 1)]
     \/ /\ Reclaimable(e)
        /\ event' = [event EXCEPT ![e] = ReclaimChangeEvent(@)]
        /\ job' = [job EXCEPT ![e] = ReclaimJob(event[e].attempts + 1)]
  /\ Hold(w, t, e)
  /\ UNCHANGED <<artifact, intents, used, before>>

\* A dispatch whose claim never commits: a Firestore error or three lost
\* optimistic commits.  500, and the task is tried again.
DeliverError(t) ==
  /\ task[t].state = "queued"
  /\ Spend("store")
  /\ task' = [task EXCEPT ![t] = IF @.tries + 1 >= MaxTries
                                 THEN Free
                                 ELSE [state |-> "queued", ev |-> @.ev,
                                       tries |-> @.tries + 1]]
  /\ UNCHANGED <<event, job, artifact, intents, exec, before>>

\* The dispatch deadline passes: the queue lets go and will deliver again
\* while the execution may still be running.
DispatchDeadline(w) ==
  /\ exec[w].task # NoTask
  /\ Spend("detach")
  /\ Answer(exec[w].task, FALSE)
  /\ exec' = [exec EXCEPT ![w].task = NoTask]
  /\ UNCHANGED <<event, job, artifact, intents, before>>

\* The instance running w is gone; its dispatch fails.
Crash(w) ==
  /\ exec[w].pc # "idle"
  /\ Spend("crash")
  /\ Answer(exec[w].task, FALSE)
  /\ exec' = [exec EXCEPT ![w] = Idle]
  /\ UNCHANGED <<event, job, artifact, intents, before>>

\* The execution w holds the current attempt of e.
Owns(w, e) ==
  /\ exec[w].pc # "idle"
  /\ exec[w].ev = e
  /\ exec[w].attempt = event[e].attempts

\* The lease of e runs out; it outlives the dispatch that took it.
LeaseExpires(e) ==
  /\ LeaseIsLive(event[e])
  /\ \A w \in Worker : Owns(w, e) => exec[w].task = NoTask
  /\ event' = [event EXCEPT ![e].lease = "expired"]
  /\ UNCHANGED <<job, artifact, intents, task, exec, used, before>>

-----------------------------------------------------------------------------
(* AnalysisPipeline.execute after a successful claim.                      *)

NewerChangeExists(e) ==
  \E f \in Event : event[f].status # "NONE" /\ f > e

Goto(w, label) == exec' = [exec EXCEPT ![w].pc = label]

Failing(w, code, retryable) ==
  exec' = [exec EXCEPT ![w].pc = "failing", ![w].code = code,
                       ![w].retryable = retryable]

\* The execution is over and answers the queue.
Return(w, ok) ==
  /\ Answer(exec[w].task, ok)
  /\ exec' = [exec EXCEPT ![w] = Idle]

\* Mutant: the event counts itself as a later one.
CheckNewerOrEqual(w) ==
  /\ exec[w].pc = "claimed"
  /\ IF \E f \in Event : event[f].status # "NONE" /\ f >= exec[w].ev
     THEN Failing(w, "SUPERSEDED", FALSE)
     ELSE Goto(w, "fetching")
  /\ UNCHANGED <<event, job, artifact, intents, task, used, before>>

CheckNewerFirst(w) ==
  /\ exec[w].pc = "claimed"
  /\ IF NewerChangeExists(exec[w].ev)
     THEN Failing(w, "SUPERSEDED", FALSE)
     ELSE Goto(w, "fetching")
  /\ UNCHANGED <<event, job, artifact, intents, task, used, before>>

\* Mutant: a connector error answers 200 and records nothing.
FetchUnrecorded(w) ==
  /\ exec[w].pc = "fetching"
  /\ \/ Goto(w, "fetched") /\ task' = task
     \/ Return(w, TRUE)
  /\ UNCHANGED <<event, job, artifact, intents, used, before>>

\* fetch_snapshot: content of the asked revision; a connector error, which
\* may be retryable; or another revision than the asked one, which is not.
FetchSnapshot(w) ==
  /\ exec[w].pc = "fetching"
  /\ \/ Goto(w, "fetched")
     \/ \E retryable \in BOOLEAN : Failing(w, "OTHER", retryable)
     \/ Failing(w, "MOVED", FALSE)
  /\ UNCHANGED <<event, job, artifact, intents, task, used, before>>

ContextAvailable ==
  artifact.availability = "AVAILABLE" /\ artifact.status = "ACTIVE"

\* The gate's unit of work ends the execution with a denial: HTTP 200.
GateDeny(w) ==
  LET e == exec[w].ev IN
  /\ exec[w].pc = "fetched"
  /\ IF ~Running(e)
     THEN UNCHANGED <<event, job>>
     ELSE \/ /\ ~ContextAvailable
             /\ Conclude(e, "FAILED")
          \/ /\ ContextAvailable /\ artifact.latest # e
             /\ Conclude(e, "INCONCLUSIVE")
          \/ /\ ContextAvailable /\ artifact.latest = e
             /\ \E verdict \in {"INCONCLUSIVE", "FAILED"} : Conclude(e, verdict)
  /\ Return(w, TRUE)
  /\ UNCHANGED <<artifact, intents, used, before>>

GateApprove(w) ==
  LET e == exec[w].ev IN
  /\ exec[w].pc = "fetched"
  /\ Running(e) /\ ContextAvailable /\ artifact.latest = e
  /\ Goto(w, "gated")
  /\ UNCHANGED <<event, job, artifact, intents, task, used, before>>

\* The last look before the paid calls; the analyzer stamps its start.
CheckNewerLast(w) ==
  LET e == exec[w].ev IN
  /\ exec[w].pc = "gated"
  /\ IF NewerChangeExists(e)
     THEN Failing(w, "SUPERSEDED", FALSE)
     ELSE exec' = [exec EXCEPT ![w].pc = "analyzing",
                               ![w].startedAt = event[e].attempts]
  /\ UNCHANGED <<event, job, artifact, intents, task, used, before>>

Analyze(w) ==
  /\ exec[w].pc = "analyzing"
  /\ \/ Goto(w, "analyzed")
     \/ \E retryable \in BOOLEAN : Failing(w, "OTHER", retryable)
  /\ UNCHANGED <<event, job, artifact, intents, task, used, before>>

\* _validate_result up to the revision check.
AttemptAcceptable(w) ==
  Running(exec[w].ev) /\ exec[w].startedAt >= job[exec[w].ev].startedAt

\* Mutant: the result is accepted whatever the artifact's latest revision.
AcceptAnyRevision(w) ==
  LET e == exec[w].ev IN
  /\ exec[w].pc = "analyzed"
  /\ AttemptAcceptable(w)
  /\ \E verdict \in Verdict : Conclude(e, verdict)
  /\ Goto(w, "explaining")
  /\ UNCHANGED <<artifact, intents, task, used, before>>

\* accept_analysis_result: one routed analyzer, so one result ends the job.
AcceptResult(w) ==
  LET e == exec[w].ev IN
  /\ exec[w].pc = "analyzed"
  /\ AttemptAcceptable(w) /\ artifact.latest = e
  /\ \E verdict \in Verdict : Conclude(e, verdict)
  /\ Goto(w, "explaining")
  /\ UNCHANGED <<artifact, intents, task, used, before>>

RejectResult(w) ==
  /\ exec[w].pc = "analyzed"
  /\ \/ ~AttemptAcceptable(w) /\ Failing(w, "OTHER", FALSE)
     \/ /\ AttemptAcceptable(w)
        /\ artifact.latest # exec[w].ev
        /\ Failing(w, "SUPERSEDED", FALSE)
  /\ UNCHANGED <<event, job, artifact, intents, task, used, before>>

\* Explanations never change the verdict; the answer is 200.
Explain(w) ==
  /\ exec[w].pc = "explaining"
  /\ Return(w, TRUE)
  /\ UNCHANGED <<event, job, artifact, intents, used, before>>

\* _fail: the failure is recorded by the owner of the attempt, and the
\* answer is 503 for a retryable code and 200 for a terminal one.
RecordFailure(w) ==
  LET e == exec[w].ev IN
  /\ exec[w].pc = "failing"
  /\ event[e].attempts = exec[w].attempt /\ Running(e)
  /\ Conclude(e, "FAILED")
  /\ Return(w, ~exec[w].retryable)
  /\ UNCHANGED <<artifact, intents, used, before>>

\* _fail raises for an attempt that lost the lease or whose execution is
\* not running any more: 500.
RefuseFailure(w) ==
  LET e == exec[w].ev IN
  /\ exec[w].pc = "failing"
  /\ event[e].attempts # exec[w].attempt \/ ~Running(e)
  /\ Return(w, FALSE)
  /\ UNCHANGED <<event, job, artifact, intents, used, before>>

\* A Firestore error or an exhausted conflict retry escapes: 500.  Inside
\* the try block it becomes a retryable failure; around the first newer
\* check and in _fail nothing catches it.
StoreError(w) ==
  /\ Spend("store")
  /\ \/ /\ exec[w].pc \in {"claimed", "failing"}
        /\ Return(w, FALSE)
     \/ /\ exec[w].pc \in {"fetched", "gated", "analyzed", "explaining"}
        /\ Failing(w, "OTHER", TRUE)
        /\ task' = task
  /\ UNCHANGED <<event, job, artifact, intents, before>>

-----------------------------------------------------------------------------
WorkerStep(w) ==
  \/ CheckNewerFirst(w) \/ FetchSnapshot(w) \/ GateDeny(w) \/ GateApprove(w)
  \/ CheckNewerLast(w) \/ Analyze(w) \/ AcceptResult(w) \/ RejectResult(w)
  \/ Explain(w) \/ RecordFailure(w) \/ RefuseFailure(w)

Deliver(w, t) == DeliverDuplicate(w, t) \/ DeliverClaim(w, t)

Next ==
  \/ \E e \in Event : \/ Register(e) \/ RegisterDuplicate(e)
                      \/ LoseEnqueue(e) \/ RetryFailed(e)
                      \/ RequestReanalysis(e) \/ LeaseExpires(e)
                      \/ \E t \in Task : Enqueue(e, t)
  \/ UntrackArtifact
  \/ \E t \in Task : DeliverError(t)
  \/ \E w \in Worker : \/ WorkerStep(w) \/ DispatchDeadline(w) \/ Crash(w)
                       \/ StoreError(w)
                       \/ \E t \in Task : Deliver(w, t)

Spec == Init /\ [][Next]_vars

\* What the platform owes: a running handler keeps running, the process that
\* committed calls the queue, the queue delivers every task it holds, and a
\* lease nobody renews runs out.  Nobody owes a request or a registration.
Fairness ==
  /\ \A w \in Worker : WF_vars(WorkerStep(w))
  /\ \A e \in Event : /\ WF_vars(\E t \in Task : Enqueue(e, t))
                      /\ WF_vars(LeaseExpires(e))
  /\ \A t \in Task : WF_vars(\E w \in Worker : Deliver(w, t))

FairSpec == Spec /\ Fairness
=============================================================================
