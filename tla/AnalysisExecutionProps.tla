----------------------- MODULE AnalysisExecutionProps -----------------------
(***************************************************************************)
(* What the execution of one artifact's changes promises.                  *)
(***************************************************************************)
EXTENDS AnalysisExecution

\* A task that was created carries an event, and a worker at work answers
\* for one, under an attempt number some claim of that event gave it.
TaskOK == \A t \in Task : task[t].state # "free" => task[t].ev \in Event

WorkerOK ==
  \A w \in Worker :
    exec[w].pc # "idle" => /\ exec[w].ev \in Event
                           /\ exec[w].attempt <= event[exec[w].ev].attempts

\* An open dispatch is answered by exactly one execution.
DispatchOK ==
  /\ \A w \in Worker :
       exec[w].task # NoTask => /\ exec[w].pc # "idle"
                                /\ task[exec[w].task].state = "dispatched"
  /\ \A v, w \in Worker :
       exec[v].task = exec[w].task /\ exec[v].task # NoTask => v = w

\* The ChangeEvent and its AnalysisJob, two documents moved by eight
\* different units of work, are always one state machine: claim,
\* _handle_duplicate and the reanalysis requests raise on any other pair
\* (analysis_jobs/service.py "execution state cannot be claimed"), after
\* which no delivery could ever move the event again.
InStep(e) ==
  \/ event[e].status = "NONE" /\ job[e].status = "NONE"
  \/ event[e].status = "PENDING" /\ job[e].status = "QUEUED"
  \/ Running(e)
  \/ event[e].status = "DONE" /\ job[e].status \in {"SUCCEEDED", "INCONCLUSIVE"}
  \/ event[e].status = "DONE" /\ job[e].status = "NONE" /\ e \in Deletes
  \/ event[e].status = "FAILED" /\ job[e].status = "FAILED"

Lockstep == \A e \in Event : InStep(e)

\* An attempt number is a fencing token: whatever dies, is delivered twice
\* or is put back, no two executions hold the same attempt of an event, so
\* "attempt does not own the current lease" tells owner from zombie.
AttemptsFence ==
  \A v, w \in Worker :
    v # w /\ exec[v].pc # "idle" /\ exec[w].pc # "idle"
          /\ exec[v].ev = exec[w].ev
      => exec[v].attempt # exec[w].attempt

\* Nothing was lost on the way between the commits and the queue.
NoTaskLost == used["lost"] = 0 /\ used["store"] = 0

\* An event is never left PENDING with nobody about to claim it: unless an
\* enqueue or a claim was lost, a task or an owed enqueue exists for it.
\* Reanalysis, retries and duplicate deliveries put events back while older
\* tasks of the same event are running, answering or being consumed.
PendingIsQueued ==
  NoTaskLost =>
    \A e \in Event : event[e].status = "PENDING" =>
      \/ intents[e] > 0
      \/ \E t \in Task : task[t].state = "queued" /\ task[t].ev = e

\* Nothing killed an execution between its claim and its last commit.
NoExecutionLost == used["crash"] = 0 /\ used["store"] = 0

\* A PROCESSING event has an execution that owns its attempt and will write
\* its end, unless an instance died or the store failed under it: handing
\* the task back, late answers and reanalysis never orphan it.
ProcessingIsOwned ==
  NoExecutionLost =>
    \A e \in Event : event[e].status = "PROCESSING" =>
      \E w \in Worker : Owns(w, e) /\ exec[w].pc # "explaining"

\* The execution has neither a verdict nor a failure to report yet.
Undecided == Holding \ {"explaining", "failing"}

\* f came to the record when e was on it: the order of registration, which
\* need not be the order of observation.
RegisteredAfter(f, e) == e \in before[f]

\* A run is dropped as SUPERSEDED only for another change of the artifact,
\* one observed later or one registered later, in whatever order changes
\* are registered (risk_reconcile/service.py: "the execution that has the
\* new revision already exists").
SupersededMeansNewer ==
  \A w \in Worker :
    exec[w].pc = "failing" /\ exec[w].code = "SUPERSEDED"
      => \/ NewerChangeExists(exec[w].ev)
         \/ \E f \in Event : RegisteredAfter(f, exec[w].ev)

\* Between its claim and its verdict an execution works alone: no second
\* delivery, duplicate intake or reanalysis starts another one of the same
\* event beside it, as long as no dispatch outlives its deadline.
OneAnalysisAtATime ==
  used["detach"] = 0 =>
    \A v, w \in Worker :
      v # w /\ exec[v].pc \in Undecided /\ exec[w].pc \in Undecided
        => exec[v].ev # exec[w].ev

\* The verdict an execution puts on an event belongs to that execution's
\* own attempt, whatever died and was taken over, as long as no dispatch
\* outlives its deadline: results are told apart by started_at alone, and
\* that is when the analyzer was built (risk_reconcile/service.py:586).
VerdictBelongsToAttempt ==
  [][\A w \in Worker :
       used["detach"] = 0 /\ AcceptResult(w)
         => exec[w].attempt = event[exec[w].ev].attempts]_vars

\* A verdict is never written once another revision was registered after the
\* one it is about, even one that arrived after the last look of the
\* pipeline, and whichever of the two was observed first.
NoVerdictAfterLaterRevision ==
  [][\A w \in Worker :
       AcceptResult(w) =>
         \A f \in Event \ Deletes : ~ RegisteredAfter(f, exec[w].ev)]_vars

\* Every registered change is decided in the end: however requests, retries,
\* duplicate deliveries and late executions interleave, the event does not
\* stay PENDING or PROCESSING for good.
Settled(e) == event[e].status \in {"DONE", "FAILED"}
EventuallySettled ==
  \A e \in Event : event[e].status # "NONE" ~> Settled(e)

\* A PROCESSING event leaves PROCESSING: while the queue holds its task a
\* zombie is taken over once its lease has run out.
ProcessingEnds ==
  \A e \in Event : event[e].status = "PROCESSING"
                      ~> event[e].status # "PROCESSING"

\* The two documents of a change, read as one phase.
Phase(e) ==
  CASE event[e].status = "NONE" /\ job[e].status = "NONE" -> "unknown"
    [] event[e].status = "PENDING" /\ job[e].status = "QUEUED" -> "waiting"
    [] Running(e) -> "running"
    [] event[e].status = "DONE"
         /\ job[e].status \in {"NONE", "SUCCEEDED", "INCONCLUSIVE"} -> "decided"
    [] event[e].status = "FAILED" /\ job[e].status = "FAILED" -> "failed"
    [] OTHER -> "torn"

Contract == INSTANCE AnalysisContract
              WITH phase <- [e \in Event |-> Phase(e)],
                   attempts <- [e \in Event |-> event[e].attempts]

\* Event and job documents, leases, queue and workers together implement
\* the contract of a change: whatever is delivered twice, lost or late,
\* each step is a contract step of one change or none at all.
ImplementsContract == Contract!Spec
=============================================================================
