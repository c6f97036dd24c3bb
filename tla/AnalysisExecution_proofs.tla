---------------------- MODULE AnalysisExecution_proofs ----------------------
(***************************************************************************)
(* Proofs about the execution of an artifact's changes, for any number of  *)
(* changes, workers, tasks, tries and faults.                              *)
(***************************************************************************)
EXTENDS AnalysisExecutionProps, TLAPS

\* Types alone are not inductive: a claim reads the event a task names, and
\* an execution reads the event it answers for and answers an open dispatch.
TypeInv == TypeOK /\ TaskOK /\ WorkerOK /\ DispatchOK

\* What every step but a claim leaves alone: whoever is at work after the
\* step was at work before it, on the same attempt of the same event ...
ClaimsKept ==
  \A w \in Worker :
    exec'[w].pc # "idle" => /\ exec[w].pc # "idle"
                            /\ exec'[w].ev = exec[w].ev
                            /\ exec'[w].attempt = exec[w].attempt

\* ... a dispatch still being answered is still open ...
DispatchesKept ==
  \A w \in Worker :
    exec'[w].task # NoTask => /\ exec'[w].pc # "idle"
                              /\ exec'[w].task = exec[w].task
                              /\ task'[exec[w].task].state = "dispatched"

\* ... and no event was attempted once more.
AttemptsKept == \A e \in Event : event'[e].attempts = event[e].attempts

-----------------------------------------------------------------------------
(* What the helpers of the specification do.                               *)

\* One execution moves on and keeps its claim and its dispatch.
LEMMA GotoFacts ==
  ASSUME TypeInv, NEW w \in Worker, exec[w].pc # "idle",
         NEW label \in Holding, Goto(w, label), task' = task
  PROVE  exec' \in [Worker -> Execution] /\ ClaimsKept /\ DispatchesKept
<1>1. exec' \in [Worker -> Execution]
  BY DEF TypeInv, TypeOK, Goto, Execution
<1>2. ClaimsKept
  BY DEF TypeInv, TypeOK, Goto, Execution, ClaimsKept
<1>3. DispatchesKept
  BY <1>2 DEF TypeInv, TypeOK, DispatchOK, Goto, Execution, Holding, DispatchesKept
<1> QED
  BY <1>1, <1>2, <1>3

\* So does one on its way to report a failure.
LEMMA FailingFacts ==
  ASSUME TypeInv, NEW w \in Worker, exec[w].pc # "idle",
         NEW code \in FailureCode, NEW retryable \in BOOLEAN,
         Failing(w, code, retryable), task' = task
  PROVE  exec' \in [Worker -> Execution] /\ ClaimsKept /\ DispatchesKept
<1>1. exec' \in [Worker -> Execution]
  <2> SUFFICES ASSUME NEW v \in Worker PROVE exec'[v] \in Execution
    BY DEF TypeInv, TypeOK, Failing
  <2>1. exec[v] \in Execution
    BY DEF TypeInv, TypeOK
  <2>2. CASE v = w
    BY <2>1, <2>2 DEF TypeInv, TypeOK, Failing, Execution, Holding
  <2>3. CASE v # w
    BY <2>1, <2>3 DEF TypeInv, TypeOK, Failing
  <2> QED
    BY <2>2, <2>3
<1>2. ClaimsKept
  BY DEF TypeInv, TypeOK, Failing, Execution, ClaimsKept
<1>3. DispatchesKept
  BY DEF TypeInv, TypeOK, DispatchOK, Failing, Execution, DispatchesKept
<1> QED
  BY <1>1, <1>2, <1>3

\* The answer of an open dispatch frees its task or puts it back, and
\* touches no other task.
LEMMA AnswerFacts ==
  ASSUME TypeInv, NEW t \in Task \cup {NoTask}, NEW ok,
         t # NoTask => task[t].state = "dispatched", Answer(t, ok)
  PROVE  /\ task' \in [Task -> TaskRecord]
         /\ TaskOK'
         /\ \A u \in Task : u # t => task'[u] = task[u]
<1>1. CASE t = NoTask
  BY <1>1, NoneAssumption DEF TypeInv, TypeOK, TaskOK, Answer
<1>2. CASE t # NoTask
  <2> DEFINE back == [state |-> "queued", ev |-> task[t].ev,
                      tries |-> task[t].tries]
             next == IF ok \/ task[t].tries >= MaxTries THEN Free ELSE back
  <2>1. task[t] \in TaskRecord /\ task[t].ev \in Event
    BY <1>2 DEF TypeInv, TypeOK, TaskOK
  <2>2. back \in TaskRecord /\ back.ev \in Event
    BY <2>1 DEF TaskRecord
  <2>3. Free \in TaskRecord /\ Free.state = "free"
    BY DEF TaskRecord, Free
  <2>4. task' = [task EXCEPT ![t] = next]
    BY <1>2 DEF Answer
  <2>5. next \in TaskRecord /\ (next.state = "free" \/ next.ev \in Event)
    BY <2>2, <2>3
  <2>6. task \in [Task -> TaskRecord] /\ t \in Task
    BY <1>2 DEF TypeInv, TypeOK
  <2> HIDE DEF next
  <2> QED
    BY <2>4, <2>5, <2>6 DEF TypeInv, TaskOK
<1> QED
  BY <1>1, <1>2

\* An execution that ends, or loses its instance, holds nothing.
LEMMA ReturnFacts ==
  ASSUME TypeInv, NEW w \in Worker, exec' = [exec EXCEPT ![w] = Idle],
         NEW ok, Answer(exec[w].task, ok)
  PROVE  /\ exec' \in [Worker -> Execution]
         /\ ClaimsKept
         /\ task' \in [Task -> TaskRecord]
         /\ TaskOK'
         /\ DispatchesKept
<1>1. Idle \in Execution /\ Idle.pc = "idle" /\ Idle.task = NoTask
  BY DEF Idle, Execution, FailureCode
<1>2. exec' \in [Worker -> Execution] /\ ClaimsKept
  BY <1>1 DEF TypeInv, TypeOK, ClaimsKept
<1>3. exec[w].task \in Task \cup {NoTask}
  BY DEF TypeInv, TypeOK, Execution
<1>4. /\ task' \in [Task -> TaskRecord]
      /\ TaskOK'
      /\ \A u \in Task : u # exec[w].task => task'[u] = task[u]
  BY <1>3, AnswerFacts DEF TypeInv, DispatchOK
<1>5. DispatchesKept
  <2> SUFFICES ASSUME NEW v \in Worker, exec'[v].task # NoTask
               PROVE  /\ exec'[v].pc # "idle"
                      /\ exec'[v].task = exec[v].task
                      /\ task'[exec[v].task].state = "dispatched"
    BY DEF DispatchesKept
  <2>1. v # w /\ exec'[v] = exec[v]
    BY <1>1 DEF TypeInv, TypeOK
  <2>2. exec[v].task \in Task /\ exec[v].task # exec[w].task
    BY <2>1 DEF TypeInv, TypeOK, Execution, DispatchOK
  <2> QED
    BY <1>4, <2>1, <2>2 DEF TypeInv, DispatchOK
<1> QED
  BY <1>2, <1>4, <1>5

\* Ending an execution keeps the number of its attempts.
LEMMA ConcludeFacts ==
  ASSUME TypeInv, NEW e \in Event, NEW verdict \in Verdict, Conclude(e, verdict)
  PROVE  /\ event' \in [Event -> EventDoc]
         /\ job' \in [Event -> JobDoc]
         /\ AttemptsKept
<1>1. event' \in [Event -> EventDoc] /\ AttemptsKept
  BY DEF TypeInv, TypeOK, Conclude, EventDoc, EventStatus, AttemptsKept,
         FailChangeEvent, CompleteChangeEvent
<1>2. job' \in [Event -> JobDoc]
  BY DEF TypeInv, TypeOK, Conclude, JobDoc, JobStatus, Verdict, CompleteJob
<1> QED
  BY <1>1, <1>2

\* One more fault is still a count of faults.
LEMMA SpendFacts ==
  ASSUME TypeInv, NEW f \in Fault, Spend(f)
  PROVE  used' \in [Fault -> Nat]
BY DEF TypeInv, TypeOK, Spend

-----------------------------------------------------------------------------
(* Type correctness.                                                       *)

LEMMA InitTypeInv == Init => TypeInv
<1> SUFFICES ASSUME Init PROVE TypeInv
  OBVIOUS
<1>1. event \in [Event -> EventDoc] /\ job \in [Event -> JobDoc]
  BY DEF Init, EventDoc, JobDoc, EventStatus, JobStatus
<1>2. artifact \in ArtifactDoc /\ intents \in [Event -> Nat]
  BY DEF Init, ArtifactDoc
<1>3. task \in [Task -> TaskRecord] /\ TaskOK
  BY DEF Init, TaskRecord, Free, TaskOK
<1>4. exec \in [Worker -> Execution] /\ WorkerOK
  BY DEF Init, Execution, Idle, FailureCode, WorkerOK
<1>6. DispatchOK
  BY DEF Init, Idle, DispatchOK
<1>5. used \in [Fault -> Nat] /\ before \in [Event -> SUBSET Event]
  BY DEF Init
<1> QED
  BY <1>1, <1>2, <1>3, <1>4, <1>5, <1>6 DEF TypeInv, TypeOK

\* What holds after every step that is not a claim ...
Kept == TypeOK' /\ TaskOK' /\ ClaimsKept /\ DispatchesKept /\ AttemptsKept

\* ... keeps the executions in order.
LEMMA KeptTypeInv ==
  ASSUME TypeInv, Kept
  PROVE  TypeInv'
<1>1. WorkerOK'
  BY DEF TypeInv, WorkerOK, Kept, ClaimsKept, AttemptsKept
<1>2. DispatchOK'
  BY DEF TypeInv, DispatchOK, Kept, ClaimsKept, DispatchesKept
<1> QED
  BY <1>1, <1>2 DEF TypeInv, Kept

\* A step that leaves tasks and executions alone keeps the dispatches.
LEMMA StillOpen ==
  ASSUME TypeInv, UNCHANGED <<task, exec>>
  PROVE  TaskOK' /\ ClaimsKept /\ DispatchesKept
BY DEF TypeInv, TaskOK, DispatchOK, ClaimsKept, DispatchesKept

LEMMA RegisterKeeps ==
  ASSUME TypeInv, NEW e \in Event, Register(e)
  PROVE  Kept
<1>1. event' \in [Event -> EventDoc] /\ AttemptsKept
  <2>1. CASE event' = [event EXCEPT ![e].status = "DONE"]
    BY <2>1 DEF TypeInv, TypeOK, EventDoc, EventStatus, AttemptsKept
  <2>2. CASE event' = [event EXCEPT ![e].status = "PENDING"]
    BY <2>2 DEF TypeInv, TypeOK, EventDoc, EventStatus, AttemptsKept
  <2> QED
    BY <2>1, <2>2 DEF Register
<1>2. job' \in [Event -> JobDoc]
  BY DEF TypeInv, TypeOK, Register, JobDoc, JobStatus
<1>3. artifact' \in ArtifactDoc
  BY DEF TypeInv, TypeOK, Register, ArtifactDoc
<1>4. intents' \in [Event -> Nat]
  BY DEF TypeInv, TypeOK, Register
<1> QED
  BY StillOpen, <1>1, <1>2, <1>3, <1>4
  DEF TypeInv, TypeOK, Register, Kept

LEMMA RegisterDuplicateKeeps ==
  ASSUME TypeInv, NEW e \in Event, RegisterDuplicate(e)
  PROVE  Kept
<1>1. event' \in [Event -> EventDoc] /\ AttemptsKept
  <2>1. CASE event' = event
    BY <2>1 DEF TypeInv, TypeOK, AttemptsKept
  <2>2. CASE event' = [event EXCEPT ![e] = RequeueChangeEvent(@)]
    BY <2>2 DEF TypeInv, TypeOK, RequeueChangeEvent, EventDoc, EventStatus,
                AttemptsKept
  <2> QED
    BY <2>1, <2>2 DEF RegisterDuplicate
<1>2. job' \in [Event -> JobDoc] /\ intents' \in [Event -> Nat]
  BY DEF TypeInv, TypeOK, RegisterDuplicate, RequeueJob, JobDoc, JobStatus
<1>3. used' \in [Fault -> Nat]
  BY SpendFacts DEF TypeInv, RegisterDuplicate, Fault
<1> QED
  BY StillOpen, <1>1, <1>2, <1>3
  DEF TypeInv, TypeOK, RegisterDuplicate, Kept

LEMMA RetryFailedKeeps ==
  ASSUME TypeInv, NEW e \in Event, RetryFailed(e)
  PROVE  Kept
<1>1. event' \in [Event -> EventDoc] /\ AttemptsKept
  <2>1. CASE event' = event
    BY <2>1 DEF TypeInv, TypeOK, AttemptsKept
  <2>2. CASE event' = [event EXCEPT ![e] = RequeueChangeEvent(@)]
    BY <2>2 DEF TypeInv, TypeOK, RequeueChangeEvent, EventDoc, EventStatus,
                AttemptsKept
  <2> QED
    BY <2>1, <2>2 DEF RetryFailed
<1>2. job' \in [Event -> JobDoc] /\ intents' \in [Event -> Nat]
  BY DEF TypeInv, TypeOK, RetryFailed, RequeueJob, JobDoc, JobStatus
<1>3. used' \in [Fault -> Nat]
  BY SpendFacts DEF TypeInv, RetryFailed, Fault
<1> QED
  BY StillOpen, <1>1, <1>2, <1>3
  DEF TypeInv, TypeOK, RetryFailed, Kept

LEMMA RequestReanalysisKeeps ==
  ASSUME TypeInv, NEW e \in Event, RequestReanalysis(e)
  PROVE  Kept
<1>1. event' \in [Event -> EventDoc] /\ AttemptsKept
  BY DEF TypeInv, TypeOK, RequestReanalysis, ReanalyzeChangeEvent, EventDoc,
         EventStatus, AttemptsKept
<1>2. job' \in [Event -> JobDoc] /\ intents' \in [Event -> Nat]
  BY DEF TypeInv, TypeOK, RequestReanalysis, ReanalyzeJob, JobDoc, JobStatus
<1>3. used' \in [Fault -> Nat]
  BY SpendFacts DEF TypeInv, RequestReanalysis, Fault
<1> QED
  BY StillOpen, <1>1, <1>2, <1>3
  DEF TypeInv, TypeOK, RequestReanalysis, Kept

LEMMA EnqueueKeeps ==
  ASSUME TypeInv, NEW e \in Event, NEW t \in Task, Enqueue(e, t)
  PROVE  Kept
<1>1. task' \in [Task -> TaskRecord] /\ TaskOK'
  BY DEF TypeInv, TypeOK, TaskOK, Enqueue, TaskRecord
<1>2. intents' \in [Event -> Nat]
  BY DEF TypeInv, TypeOK, Enqueue
<1>3. ClaimsKept /\ DispatchesKept
  BY DEF TypeInv, TypeOK, DispatchOK, Execution, Enqueue, ClaimsKept,
         DispatchesKept
<1> QED
  BY <1>1, <1>2, <1>3 DEF TypeInv, TypeOK, Enqueue, AttemptsKept, Kept

LEMMA LoseEnqueueKeeps ==
  ASSUME TypeInv, NEW e \in Event, LoseEnqueue(e)
  PROVE  Kept
<1>1. used' \in [Fault -> Nat]
  BY SpendFacts DEF TypeInv, LoseEnqueue, Fault
<1>2. intents' \in [Event -> Nat]
  BY DEF TypeInv, TypeOK, LoseEnqueue
<1> QED
  BY StillOpen, <1>1, <1>2
  DEF TypeInv, TypeOK, LoseEnqueue, AttemptsKept, Kept

LEMMA LeaseExpiresKeeps ==
  ASSUME TypeInv, NEW e \in Event, LeaseExpires(e)
  PROVE  Kept
<1>1. event' \in [Event -> EventDoc] /\ AttemptsKept
  BY DEF TypeInv, TypeOK, LeaseExpires, EventDoc, AttemptsKept
<1> QED
  BY StillOpen, <1>1 DEF TypeInv, TypeOK, LeaseExpires, Kept

LEMMA UntrackArtifactKeeps ==
  ASSUME TypeInv, UntrackArtifact
  PROVE  Kept
<1>1. used' \in [Fault -> Nat]
  BY SpendFacts DEF TypeInv, UntrackArtifact, Fault
<1>2. artifact' \in ArtifactDoc
  BY DEF TypeInv, TypeOK, UntrackArtifact, ArtifactDoc
<1> QED
  BY StillOpen, <1>1, <1>2
  DEF TypeInv, TypeOK, UntrackArtifact, AttemptsKept, Kept

\* A queued task is answered by nobody yet: freeing it or counting a try
\* disturbs no dispatch.
LEMMA QueuedTaskFacts ==
  ASSUME TypeInv, NEW t \in Task, task[t].state = "queued", exec' = exec,
         NEW next \in TaskRecord, next.state = "free" \/ next.ev \in Event,
         task' = [task EXCEPT ![t] = next]
  PROVE  /\ task' \in [Task -> TaskRecord]
         /\ TaskOK' /\ ClaimsKept /\ DispatchesKept
<1>1. task' \in [Task -> TaskRecord]
  BY DEF TypeInv, TypeOK
<1>2. TaskOK'
  BY DEF TypeInv, TypeOK, TaskOK
<1>3. ClaimsKept
  BY DEF ClaimsKept
<1>4. ASSUME NEW w \in Worker, exec[w].task # NoTask
      PROVE  exec[w].pc # "idle" /\ task'[exec[w].task].state = "dispatched"
  <2>1. exec[w].task \in Task /\ task[exec[w].task].state = "dispatched"
    BY <1>4 DEF TypeInv, TypeOK, Execution, DispatchOK
  <2>2. exec[w].task # t
    BY <2>1
  <2>3. task'[exec[w].task] = task[exec[w].task]
    BY <2>1, <2>2 DEF TypeInv, TypeOK
  <2> QED
    BY <1>4, <2>1, <2>3 DEF TypeInv, DispatchOK
<1> QED
  BY <1>1, <1>2, <1>3, <1>4 DEF DispatchesKept

LEMMA DeliverDuplicateKeeps ==
  ASSUME TypeInv, NEW w \in Worker, NEW t \in Task, DeliverDuplicate(w, t)
  PROVE  Kept
<1>1. Free \in TaskRecord /\ Free.state = "free"
  BY DEF TaskRecord, Free
<1>2. task' \in [Task -> TaskRecord] /\ TaskOK' /\ ClaimsKept /\ DispatchesKept
  BY <1>1, QueuedTaskFacts DEF DeliverDuplicate
<1> QED
  BY <1>2 DEF TypeInv, TypeOK, DeliverDuplicate, AttemptsKept, Kept

LEMMA DeliverErrorKeeps ==
  ASSUME TypeInv, NEW t \in Task, DeliverError(t)
  PROVE  Kept
<1> DEFINE back == [state |-> "queued", ev |-> task[t].ev,
                    tries |-> task[t].tries + 1]
           next == IF task[t].tries + 1 >= MaxTries THEN Free ELSE back
<1>1. Free \in TaskRecord /\ Free.state = "free"
  BY DEF TaskRecord, Free
<1>2. task[t] \in TaskRecord /\ task[t].state = "queued" /\ task[t].ev \in Event
  BY DEF TypeInv, TypeOK, TaskOK, DeliverError
<1>3. back \in TaskRecord /\ back.ev \in Event
  BY <1>2 DEF TaskRecord
<1>4. next \in TaskRecord /\ (next.state = "free" \/ next.ev \in Event)
  BY <1>1, <1>3
<1>5. task' = [task EXCEPT ![t] = next] /\ exec' = exec
  BY DEF DeliverError
<1> HIDE DEF next
<1>6. task' \in [Task -> TaskRecord] /\ TaskOK' /\ ClaimsKept /\ DispatchesKept
  BY <1>2, <1>4, <1>5, QueuedTaskFacts
<1>7. used' \in [Fault -> Nat]
  BY SpendFacts DEF DeliverError, Fault
<1> QED
  BY <1>6, <1>7 DEF TypeInv, TypeOK, DeliverError, AttemptsKept, Kept

LEMMA DispatchDeadlineKeeps ==
  ASSUME TypeInv, NEW w \in Worker, DispatchDeadline(w)
  PROVE  Kept
<1>1. exec' \in [Worker -> Execution] /\ ClaimsKept
  BY DEF TypeInv, TypeOK, DispatchDeadline, Execution, ClaimsKept
<1>2. exec[w].task \in Task /\ task[exec[w].task].state = "dispatched"
  BY DEF TypeInv, TypeOK, Execution, DispatchOK, DispatchDeadline
<1>3. /\ task' \in [Task -> TaskRecord]
      /\ TaskOK'
      /\ \A u \in Task : u # exec[w].task => task'[u] = task[u]
  <2>1. Answer(exec[w].task, FALSE)
    BY DEF DispatchDeadline
  <2>2. exec[w].task \in Task \cup {NoTask}
    BY <1>2
  <2> QED
    BY <1>2, <2>1, <2>2, AnswerFacts
<1>4. DispatchesKept
  <2> SUFFICES ASSUME NEW v \in Worker, exec'[v].task # NoTask
               PROVE  /\ exec'[v].pc # "idle"
                      /\ exec'[v].task = exec[v].task
                      /\ task'[exec[v].task].state = "dispatched"
    BY DEF DispatchesKept
  <2>1. v # w /\ exec'[v] = exec[v]
    BY DEF TypeInv, TypeOK, DispatchDeadline, Execution
  <2>2. exec[v].task \in Task
    BY <2>1 DEF TypeInv, TypeOK, Execution
  <2>3. exec[v].task # exec[w].task
    BY <2>1 DEF TypeInv, DispatchOK
  <2> QED
    BY <1>3, <2>1, <2>2, <2>3 DEF TypeInv, DispatchOK
<1>5. used' \in [Fault -> Nat]
  BY SpendFacts DEF DispatchDeadline, Fault
<1> QED
  BY <1>1, <1>3, <1>4, <1>5
  DEF TypeInv, TypeOK, DispatchDeadline, AttemptsKept, Kept

LEMMA CrashKeeps ==
  ASSUME TypeInv, NEW w \in Worker, Crash(w)
  PROVE  Kept
<1>1. /\ exec' \in [Worker -> Execution] /\ ClaimsKept
      /\ task' \in [Task -> TaskRecord] /\ TaskOK' /\ DispatchesKept
  BY ReturnFacts DEF Crash
<1>2. used' \in [Fault -> Nat]
  BY SpendFacts DEF Crash, Fault
<1> QED
  BY <1>1, <1>2 DEF TypeInv, TypeOK, Crash, AttemptsKept, Kept

LEMMA StoreErrorKeeps ==
  ASSUME TypeInv, NEW w \in Worker, StoreError(w)
  PROVE  Kept
<1>1. used' \in [Fault -> Nat]
  BY SpendFacts DEF StoreError, Fault
<1>2. CASE Return(w, FALSE)
  BY <1>1, <1>2, ReturnFacts
  DEF TypeInv, TypeOK, StoreError, Return, AttemptsKept, Kept
<1>3. CASE exec[w].pc # "idle" /\ Failing(w, "OTHER", TRUE) /\ task' = task
  <2>1. exec' \in [Worker -> Execution] /\ ClaimsKept /\ DispatchesKept
    BY <1>3, FailingFacts DEF FailureCode
  <2> QED
    BY <1>1, <1>3, <2>1
    DEF TypeInv, TypeOK, TaskOK, StoreError, AttemptsKept, Kept
<1> QED
  BY <1>2, <1>3 DEF StoreError

-----------------------------------------------------------------------------
(* The steps of AnalysisPipeline.execute.                                  *)

\* Steps that move one execution and nothing else.
LEMMA OnlyExecMoves ==
  ASSUME TypeInv, exec' \in [Worker -> Execution], ClaimsKept, DispatchesKept,
         UNCHANGED <<event, job, artifact, intents, task, used, before>>
  PROVE  Kept
BY DEF TypeInv, TypeOK, TaskOK, AttemptsKept, Kept

LEMMA CheckNewerFirstKeeps ==
  ASSUME TypeInv, NEW w \in Worker, CheckNewerFirst(w)
  PROVE  Kept
<1>1. exec[w].pc # "idle" /\ task' = task
  BY DEF CheckNewerFirst
<1>2. Failing(w, "SUPERSEDED", FALSE) \/ Goto(w, "fetching")
  BY DEF CheckNewerFirst
<1>3. exec' \in [Worker -> Execution] /\ ClaimsKept /\ DispatchesKept
  BY <1>1, <1>2, FailingFacts, GotoFacts DEF Holding, FailureCode
<1> QED
  BY <1>3, OnlyExecMoves DEF CheckNewerFirst

LEMMA FetchSnapshotKeeps ==
  ASSUME TypeInv, NEW w \in Worker, FetchSnapshot(w)
  PROVE  Kept
<1>1. exec[w].pc # "idle" /\ task' = task
  BY DEF FetchSnapshot
<1>2. \/ Goto(w, "fetched")
      \/ \E retryable \in BOOLEAN : Failing(w, "OTHER", retryable)
      \/ Failing(w, "MOVED", FALSE)
  BY DEF FetchSnapshot
<1>3. exec' \in [Worker -> Execution] /\ ClaimsKept /\ DispatchesKept
  BY <1>1, <1>2, FailingFacts, GotoFacts DEF Holding, FailureCode
<1> QED
  BY <1>3, OnlyExecMoves DEF FetchSnapshot

LEMMA AnalyzeKeeps ==
  ASSUME TypeInv, NEW w \in Worker, Analyze(w)
  PROVE  Kept
<1>1. exec[w].pc # "idle" /\ task' = task
  BY DEF Analyze
<1>2. \/ Goto(w, "analyzed")
      \/ \E retryable \in BOOLEAN : Failing(w, "OTHER", retryable)
  BY DEF Analyze
<1>3. exec' \in [Worker -> Execution] /\ ClaimsKept /\ DispatchesKept
  BY <1>1, <1>2, FailingFacts, GotoFacts DEF Holding, FailureCode
<1> QED
  BY <1>3, OnlyExecMoves DEF Analyze

LEMMA GateApproveKeeps ==
  ASSUME TypeInv, NEW w \in Worker, GateApprove(w)
  PROVE  Kept
<1>1. exec[w].pc # "idle" /\ task' = task /\ Goto(w, "gated")
  BY DEF GateApprove
<1>2. exec' \in [Worker -> Execution] /\ ClaimsKept /\ DispatchesKept
  BY <1>1, GotoFacts DEF Holding
<1> QED
  BY <1>2, OnlyExecMoves DEF GateApprove

LEMMA RejectResultKeeps ==
  ASSUME TypeInv, NEW w \in Worker, RejectResult(w)
  PROVE  Kept
<1>1. exec[w].pc # "idle" /\ task' = task
  BY DEF RejectResult
<1>2. Failing(w, "OTHER", FALSE) \/ Failing(w, "SUPERSEDED", FALSE)
  BY DEF RejectResult
<1>3. exec' \in [Worker -> Execution] /\ ClaimsKept /\ DispatchesKept
  BY <1>1, <1>2, FailingFacts DEF FailureCode
<1> QED
  BY <1>3, OnlyExecMoves DEF RejectResult

\* The analyzer stamps its start with the number of claims made by then.
LEMMA CheckNewerLastKeeps ==
  ASSUME TypeInv, WorkerOK, NEW w \in Worker, CheckNewerLast(w)
  PROVE  Kept
<1> DEFINE e == exec[w].ev
<1>1. exec[w].pc # "idle" /\ task' = task /\ e \in Event
  BY DEF CheckNewerLast, TypeInv, WorkerOK
<1>2. CASE Failing(w, "SUPERSEDED", FALSE)
  <2>1. exec' \in [Worker -> Execution] /\ ClaimsKept /\ DispatchesKept
    BY <1>1, <1>2, FailingFacts DEF FailureCode
  <2> QED
    BY <2>1, OnlyExecMoves DEF CheckNewerLast
<1>3. CASE exec' = [exec EXCEPT ![w].pc = "analyzing",
                                ![w].startedAt = event[e].attempts]
  <2>1. event[e].attempts \in Nat
    BY <1>1 DEF TypeInv, TypeOK, EventDoc
  <2>2. ASSUME NEW v \in Worker PROVE exec'[v] \in Execution
    <3>1. exec[v] \in Execution
      BY DEF TypeInv, TypeOK
    <3>2. CASE v = w
      BY <1>3, <2>1, <3>1, <3>2 DEF TypeInv, TypeOK, Execution, Holding
    <3>3. CASE v # w
      BY <1>3, <3>1, <3>3 DEF TypeInv, TypeOK
    <3> QED
      BY <3>2, <3>3
  <2>3. exec' \in [Worker -> Execution]
    BY <1>3, <2>2 DEF TypeInv, TypeOK
  <2>4. ClaimsKept
    BY <1>1, <1>3 DEF TypeInv, TypeOK, Execution, ClaimsKept
  <2>5. DispatchesKept
    BY <1>1, <1>3, <2>4
    DEF TypeInv, TypeOK, DispatchOK, Execution, DispatchesKept
  <2> QED
    BY <2>3, <2>4, <2>5, OnlyExecMoves DEF CheckNewerLast
<1> QED
  BY <1>2, <1>3 DEF CheckNewerLast

\* Steps that end one execution, with or without ending its event.
LEMMA ReturnKeeps ==
  ASSUME TypeInv, NEW w \in Worker, NEW ok, Return(w, ok),
         event' \in [Event -> EventDoc], job' \in [Event -> JobDoc],
         AttemptsKept, UNCHANGED <<artifact, intents, used, before>>
  PROVE  Kept
BY ReturnFacts DEF TypeInv, TypeOK, Return, Kept

LEMMA GateDenyKeeps ==
  ASSUME TypeInv, NEW w \in Worker, GateDeny(w)
  PROVE  Kept
<1> DEFINE e == exec[w].ev
<1>1. e \in Event
  BY DEF GateDeny, TypeInv, WorkerOK
<1>2. \/ UNCHANGED <<event, job>>
      \/ \E verdict \in {"INCONCLUSIVE", "FAILED"} : Conclude(e, verdict)
  BY DEF GateDeny
<1>3. event' \in [Event -> EventDoc] /\ job' \in [Event -> JobDoc] /\ AttemptsKept
  <2>1. CASE UNCHANGED <<event, job>>
    BY <2>1 DEF TypeInv, TypeOK, AttemptsKept
  <2>2. CASE \E verdict \in {"INCONCLUSIVE", "FAILED"} : Conclude(e, verdict)
    BY <1>1, <2>2, ConcludeFacts DEF Verdict
  <2> QED
    BY <1>2, <2>1, <2>2
<1>4. Return(w, TRUE) /\ UNCHANGED <<artifact, intents, used, before>>
  BY DEF GateDeny
<1> QED
  BY <1>3, <1>4, ReturnKeeps

LEMMA AcceptResultKeeps ==
  ASSUME TypeInv, NEW w \in Worker, AcceptResult(w)
  PROVE  Kept
<1> DEFINE e == exec[w].ev
<1>1. e \in Event /\ exec[w].pc # "idle"
  BY DEF AcceptResult, TypeInv, WorkerOK
<1>2. /\ \E verdict \in Verdict : Conclude(e, verdict)
      /\ Goto(w, "explaining")
      /\ UNCHANGED <<artifact, intents, task, used, before>>
  BY DEF AcceptResult
<1>3. event' \in [Event -> EventDoc] /\ job' \in [Event -> JobDoc] /\ AttemptsKept
  BY <1>1, <1>2, ConcludeFacts
<1>4. exec' \in [Worker -> Execution] /\ ClaimsKept /\ DispatchesKept
  BY <1>1, <1>2, GotoFacts DEF Holding
<1> QED
  BY <1>2, <1>3, <1>4 DEF TypeInv, TypeOK, TaskOK, Kept

LEMMA ExplainKeeps ==
  ASSUME TypeInv, NEW w \in Worker, Explain(w)
  PROVE  Kept
BY ReturnKeeps DEF Explain, TypeInv, TypeOK, AttemptsKept

LEMMA RecordFailureKeeps ==
  ASSUME TypeInv, NEW w \in Worker, RecordFailure(w)
  PROVE  Kept
<1> DEFINE e == exec[w].ev
<1>1. e \in Event
  BY DEF RecordFailure, TypeInv, WorkerOK
<1>2. /\ Conclude(e, "FAILED")
      /\ Return(w, ~exec[w].retryable)
      /\ UNCHANGED <<artifact, intents, used, before>>
  BY DEF RecordFailure
<1>3. event' \in [Event -> EventDoc] /\ job' \in [Event -> JobDoc] /\ AttemptsKept
  BY <1>1, <1>2, ConcludeFacts DEF Verdict
<1> QED
  BY <1>2, <1>3, ReturnKeeps

LEMMA RefuseFailureKeeps ==
  ASSUME TypeInv, NEW w \in Worker, RefuseFailure(w)
  PROVE  Kept
BY ReturnKeeps DEF RefuseFailure, TypeInv, TypeOK, AttemptsKept

LEMMA WorkerStepKeeps ==
  ASSUME TypeInv, NEW w \in Worker, WorkerStep(w)
  PROVE  Kept
BY CheckNewerFirstKeeps, FetchSnapshotKeeps, GateDenyKeeps, GateApproveKeeps,
   CheckNewerLastKeeps, AnalyzeKeeps, AcceptResultKeeps, RejectResultKeeps,
   ExplainKeeps, RecordFailureKeeps, RefuseFailureKeeps
DEF WorkerStep, TypeInv

LEMMA StutterKeeps ==
  ASSUME TypeInv, UNCHANGED vars
  PROVE  Kept
BY StillOpen DEF vars, TypeInv, TypeOK, TaskOK, AttemptsKept, Kept

\* Every step is a claim, or keeps claims, dispatches and attempts.
LEMMA StepCases ==
  ASSUME TypeInv, [Next]_vars
  PROVE  Kept \/ \E w \in Worker, t \in Task : DeliverClaim(w, t)
<1>1. ASSUME NEW e \in Event,
             \/ Register(e) \/ RegisterDuplicate(e) \/ LoseEnqueue(e)
             \/ RetryFailed(e) \/ RequestReanalysis(e) \/ LeaseExpires(e)
             \/ \E t \in Task : Enqueue(e, t)
      PROVE  Kept
  BY <1>1, RegisterKeeps, RegisterDuplicateKeeps, LoseEnqueueKeeps,
     RetryFailedKeeps, RequestReanalysisKeeps, LeaseExpiresKeeps, EnqueueKeeps
<1>2. ASSUME NEW w \in Worker,
             WorkerStep(w) \/ DispatchDeadline(w) \/ Crash(w) \/ StoreError(w)
      PROVE  Kept
  BY <1>2, WorkerStepKeeps, DispatchDeadlineKeeps, CrashKeeps, StoreErrorKeeps
<1>3. ASSUME NEW w \in Worker, NEW t \in Task, Deliver(w, t)
      PROVE  Kept \/ DeliverClaim(w, t)
  BY <1>3, DeliverDuplicateKeeps DEF Deliver
<1> QED
  BY <1>1, <1>2, <1>3, UntrackArtifactKeeps, DeliverErrorKeeps, StutterKeeps
  DEF Next

-----------------------------------------------------------------------------
(* The claim: the one step that starts an execution.                       *)

LEMMA ClaimFacts ==
  ASSUME TypeInv, NEW w \in Worker, NEW t \in Task, DeliverClaim(w, t)
  PROVE  LET e == task[t].ev IN
         /\ e \in Event /\ exec[w].pc = "idle" /\ task[t].state = "queued"
         /\ event' = [event EXCEPT ![e] =
                        [status |-> "PROCESSING",
                         attempts |-> event[e].attempts + 1, lease |-> "live"]]
         /\ job' = [job EXCEPT ![e] =
                      [status |-> "RUNNING",
                       startedAt |-> event[e].attempts + 1]]
         /\ task' = [task EXCEPT ![t] =
                       [state |-> "dispatched", ev |-> e,
                        tries |-> task[t].tries + 1]]
         /\ exec' = [exec EXCEPT ![w] =
                       [pc |-> "claimed", ev |-> e,
                        attempt |-> event[e].attempts + 1, task |-> t,
                        startedAt |-> 0, code |-> "NONE",
                        retryable |-> FALSE]]
         /\ UNCHANGED <<artifact, intents, used, before>>
<1> DEFINE e == task[t].ev
<1>1. e \in Event /\ exec[w].pc = "idle" /\ task[t].state = "queued"
  BY DEF TypeInv, TaskOK, DeliverClaim
<1>2. event' = [event EXCEPT ![e] =
                  [status |-> "PROCESSING",
                   attempts |-> event[e].attempts + 1, lease |-> "live"]]
  BY DEF DeliverClaim, ClaimChangeEvent, ReclaimChangeEvent
<1>3. event'[e].attempts = event[e].attempts + 1
  BY <1>1, <1>2 DEF TypeInv, TypeOK
<1>4. job' = [job EXCEPT ![e] = [status |-> "RUNNING",
                                 startedAt |-> event[e].attempts + 1]]
  BY DEF DeliverClaim, ClaimJob, ReclaimJob
<1>5. task' = [task EXCEPT ![t] = [state |-> "dispatched", ev |-> e,
                                   tries |-> task[t].tries + 1]]
  BY DEF DeliverClaim, Hold
<1>6. exec' = [exec EXCEPT ![w] =
                 [pc |-> "claimed", ev |-> e,
                  attempt |-> event[e].attempts + 1, task |-> t,
                  startedAt |-> 0, code |-> "NONE", retryable |-> FALSE]]
  BY <1>3 DEF DeliverClaim, Hold
<1> QED
  BY <1>1, <1>2, <1>4, <1>5, <1>6 DEF DeliverClaim

LEMMA ClaimTypeInv ==
  ASSUME TypeInv, NEW w \in Worker, NEW t \in Task, DeliverClaim(w, t)
  PROVE  TypeInv'
<1> DEFINE e == task[t].ev
           n == event[e].attempts + 1
           newEvent == [status |-> "PROCESSING", attempts |-> n, lease |-> "live"]
           newTask == [state |-> "dispatched", ev |-> e,
                       tries |-> task[t].tries + 1]
           newExec == [pc |-> "claimed", ev |-> e, attempt |-> n, task |-> t,
                       startedAt |-> 0, code |-> "NONE", retryable |-> FALSE]
<1>1. /\ e \in Event /\ exec[w].pc = "idle" /\ task[t].state = "queued"
      /\ event' = [event EXCEPT ![e] = newEvent]
      /\ task' = [task EXCEPT ![t] = newTask]
      /\ exec' = [exec EXCEPT ![w] = newExec]
  BY ClaimFacts
<1>2. n \in Nat /\ task[t].tries + 1 \in Nat
  BY <1>1 DEF TypeInv, TypeOK, EventDoc, TaskRecord
<1>3. newEvent \in EventDoc /\ newTask \in TaskRecord /\ newExec \in Execution
  BY <1>1, <1>2 DEF EventDoc, EventStatus, TaskRecord, Execution, Holding,
                    FailureCode
<1>4. TypeOK'
  <2>1. event' \in [Event -> EventDoc]
    BY <1>1, <1>3 DEF TypeInv, TypeOK
  <2>2. job' \in [Event -> JobDoc]
    <3>1. [status |-> "RUNNING", startedAt |-> n] \in JobDoc
      BY <1>2 DEF JobDoc, JobStatus
    <3>2. job' = [job EXCEPT ![e] = [status |-> "RUNNING", startedAt |-> n]]
      BY ClaimFacts
    <3> QED
      BY <3>1, <3>2 DEF TypeInv, TypeOK
  <2>3. task' \in [Task -> TaskRecord]
    BY <1>1, <1>3 DEF TypeInv, TypeOK
  <2>4. exec' \in [Worker -> Execution]
    BY <1>1, <1>3 DEF TypeInv, TypeOK
  <2> QED
    BY <2>1, <2>2, <2>3, <2>4 DEF TypeInv, TypeOK, DeliverClaim
<1>5. TaskOK'
  BY <1>1 DEF TypeInv, TypeOK, TaskOK
<1>6. WorkerOK'
  <2> SUFFICES ASSUME NEW v \in Worker, exec'[v].pc # "idle"
               PROVE  /\ exec'[v].ev \in Event
                      /\ exec'[v].attempt <= event'[exec'[v].ev].attempts
    BY DEF WorkerOK
  <2>1. CASE v = w
    BY <1>1, <1>2, <2>1 DEF TypeInv, TypeOK
  <2>2. CASE v # w
    <3>1. exec'[v] = exec[v] /\ exec[v].ev \in Event
          /\ exec[v].attempt <= event[exec[v].ev].attempts
      BY <1>1, <2>2 DEF TypeInv, TypeOK, WorkerOK
    <3>2. exec[v].attempt \in Nat /\ event[exec[v].ev].attempts \in Nat
      BY <3>1 DEF TypeInv, TypeOK, Execution, EventDoc
    <3>3. \/ event'[exec[v].ev] = event[exec[v].ev]
          \/ exec[v].ev = e /\ event'[e].attempts = event[e].attempts + 1
      BY <1>1, <3>1 DEF TypeInv, TypeOK
    <3> QED
      BY <3>1, <3>2, <3>3
  <2> QED
    BY <2>1, <2>2
<1>7. DispatchOK'
  <2>1. \A v \in Worker : exec[v].task # NoTask =>
          exec[v].task \in Task /\ exec[v].task # t
    BY <1>1 DEF TypeInv, TypeOK, Execution, DispatchOK
  <2>2. t # NoTask
    BY NoneAssumption
  <2>3. ASSUME NEW v \in Worker, exec'[v].task # NoTask
        PROVE  exec'[v].pc # "idle" /\ task'[exec'[v].task].state = "dispatched"
    BY <1>1, <2>1, <2>3 DEF TypeInv, TypeOK, DispatchOK
  <2>4. ASSUME NEW u \in Worker, NEW v \in Worker,
               exec'[u].task = exec'[v].task, exec'[u].task # NoTask
        PROVE  u = v
    <3>1. CASE u = w
      BY <1>1, <2>1, <2>2, <2>4, <3>1 DEF TypeInv, TypeOK
    <3>2. CASE v = w
      BY <1>1, <2>1, <2>2, <2>4, <3>2 DEF TypeInv, TypeOK
    <3>3. CASE u # w /\ v # w
      BY <1>1, <2>4, <3>3 DEF TypeInv, TypeOK, DispatchOK
    <3> QED
      BY <3>1, <3>2, <3>3
  <2> QED
    BY <2>3, <2>4 DEF DispatchOK
<1> QED
  BY <1>4, <1>5, <1>6, <1>7 DEF TypeInv

LEMMA StepTypeInv == TypeInv /\ [Next]_vars => TypeInv'
BY StepCases, KeptTypeInv, ClaimTypeInv

LEMMA InvTypeInv == Spec => []TypeInv
<1> QED
  BY InitTypeInv, StepTypeInv, PTL DEF Spec

\* The documents, tasks and executions always have their types.
THEOREM TypeCorrect == Spec => []TypeOK
<1>1. TypeInv => TypeOK
  BY DEF TypeInv
<1> QED
  BY <1>1, InvTypeInv, PTL

-----------------------------------------------------------------------------
(* Fencing: the attempt number tells the owner of an event from a zombie.  *)

LEMMA StepFence == TypeInv /\ AttemptsFence /\ [Next]_vars => AttemptsFence'
<1> SUFFICES ASSUME TypeInv, AttemptsFence, [Next]_vars
             PROVE  AttemptsFence'
  OBVIOUS
<1>1. CASE Kept
  BY <1>1 DEF AttemptsFence, Kept, ClaimsKept
<1>2. ASSUME NEW w \in Worker, NEW t \in Task, DeliverClaim(w, t)
      PROVE  AttemptsFence'
  <2> DEFINE e == task[t].ev
  <2>1. /\ e \in Event
        /\ \A v \in Worker : v # w => exec'[v] = exec[v]
        /\ exec'[w].ev = e /\ exec'[w].attempt = event[e].attempts + 1
    <3>1. e \in Event
      BY <1>2, ClaimFacts
    <3>2. exec' = [exec EXCEPT ![w] =
                     [pc |-> "claimed", ev |-> e,
                      attempt |-> event[e].attempts + 1, task |-> t,
                      startedAt |-> 0, code |-> "NONE", retryable |-> FALSE]]
      BY <1>2, ClaimFacts
    <3> QED
      BY <3>1, <3>2 DEF TypeInv, TypeOK
  <2>2. ASSUME NEW v \in Worker, v # w, exec'[v].pc # "idle", exec'[v].ev = e
        PROVE  exec'[v].attempt # event[e].attempts + 1
    <3>1. exec[v].attempt <= event[e].attempts
      BY <2>1, <2>2 DEF TypeInv, WorkerOK
    <3>2. exec[v].attempt \in Nat /\ event[e].attempts \in Nat
      BY <2>1 DEF TypeInv, TypeOK, Execution, EventDoc
    <3> QED
      BY <2>1, <2>2, <3>1, <3>2
  <2> QED
    BY <2>1, <2>2 DEF AttemptsFence
<1> QED
  BY <1>1, <1>2, StepCases

\* Whatever crashes, is delivered twice or is put back, and for any number of
\* workers: no two executions hold the same attempt of a change.
THEOREM FenceCorrect == Spec => []AttemptsFence
<1>1. Init => AttemptsFence
  BY DEF Init, Idle, AttemptsFence
<1> QED
  BY <1>1, InvTypeInv, StepFence, PTL DEF Spec

-----------------------------------------------------------------------------
(* The two documents of a change move together.                            *)

\* A step that moves the documents of one change at most, and these to a
\* pair the state machine has, keeps the documents of all changes in step.
LEMMA OneChangeMoves ==
  ASSUME TypeInv, Lockstep, NEW e \in Event, InStep(e)',
         \A f \in Event \ {e} : event'[f] = event[f] /\ job'[f] = job[f]
  PROVE  Lockstep'
BY DEF Lockstep, InStep, Running

\* Ending an execution that is running keeps its documents in step.
LEMMA ConcludeLockstep ==
  ASSUME TypeInv, Lockstep, NEW e \in Event, NEW verdict \in Verdict,
         Conclude(e, verdict)
  PROVE  Lockstep'
<1>1. /\ job'[e].status = verdict
      /\ event'[e].status = IF verdict = "FAILED" THEN "FAILED" ELSE "DONE"
      /\ \A f \in Event \ {e} : event'[f] = event[f] /\ job'[f] = job[f]
  BY DEF TypeInv, TypeOK, Conclude, CompleteJob, FailChangeEvent,
         CompleteChangeEvent
<1>2. InStep(e)'
  BY <1>1 DEF InStep, Verdict
<1> QED
  BY <1>1, <1>2, OneChangeMoves

\* Putting a change back keeps its documents in step.
LEMMA PutBackLockstep ==
  ASSUME TypeInv, Lockstep, NEW e \in Event,
         event' = [event EXCEPT ![e] = RequeueChangeEvent(@)],
         job' = [job EXCEPT ![e] = RequeueJob]
  PROVE  Lockstep'
<1>1. /\ job'[e].status = "QUEUED" /\ event'[e].status = "PENDING"
      /\ \A f \in Event \ {e} : event'[f] = event[f] /\ job'[f] = job[f]
  BY DEF TypeInv, TypeOK, RequeueChangeEvent, RequeueJob
<1>2. InStep(e)'
  BY <1>1 DEF InStep
<1> QED
  BY <1>1, <1>2, OneChangeMoves

LEMMA RegisterLockstep ==
  ASSUME TypeInv, Lockstep, NEW e \in Event, Register(e)
  PROVE  Lockstep'
<1>1. event[e].status = "NONE" /\ job[e].status = "NONE"
  BY DEF Register, Lockstep, InStep, Running
<1>2. CASE e \in Deletes
  <2>1. event' = [event EXCEPT ![e].status = "DONE"] /\ job' = job
    BY <1>2 DEF Register
  <2>2. InStep(e)'
    BY <1>1, <1>2, <2>1 DEF TypeInv, TypeOK, EventDoc, InStep
  <2> QED
    BY <2>1, <2>2, OneChangeMoves DEF TypeInv, TypeOK
<1>3. CASE e \notin Deletes
  <2>1. /\ event' = [event EXCEPT ![e].status = "PENDING"]
        /\ job' = [job EXCEPT ![e].status = "QUEUED"]
    BY <1>3 DEF Register
  <2>2. InStep(e)'
    BY <2>1 DEF TypeInv, TypeOK, EventDoc, JobDoc, InStep
  <2> QED
    BY <2>1, <2>2, OneChangeMoves DEF TypeInv, TypeOK
<1> QED
  BY <1>2, <1>3

LEMMA LeaseExpiresLockstep ==
  ASSUME TypeInv, Lockstep, NEW e \in Event, LeaseExpires(e)
  PROVE  Lockstep'
<1>1. event[e] \in EventDoc
  BY DEF TypeInv, TypeOK
<1>2. event' = [event EXCEPT ![e].lease = "expired"] /\ job' = job
  BY DEF LeaseExpires
<1>3. event'[e].status = event[e].status
  BY <1>1, <1>2 DEF TypeInv, TypeOK, EventDoc
<1>4. \A f \in Event \ {e} : event'[f] = event[f] /\ job'[f] = job[f]
  BY <1>2 DEF TypeInv, TypeOK
<1>5. InStep(e)'
  BY <1>2, <1>3 DEF Lockstep, InStep, Running
<1> QED
  BY <1>4, <1>5, OneChangeMoves

LEMMA ClaimLockstep ==
  ASSUME TypeInv, Lockstep, NEW w \in Worker, NEW t \in Task,
         DeliverClaim(w, t)
  PROVE  Lockstep'
<1>1. PICK e \in Event : e = task[t].ev
  BY ClaimFacts
<1> DEFINE newEvent == [status |-> "PROCESSING",
                        attempts |-> event[e].attempts + 1, lease |-> "live"]
           newJob == [status |-> "RUNNING",
                      startedAt |-> event[e].attempts + 1]
<1>2. /\ event' = [event EXCEPT ![e] = newEvent]
      /\ job' = [job EXCEPT ![e] = newJob]
  BY <1>1, ClaimFacts
<1>3. event'[e].status = "PROCESSING" /\ job'[e].status = "RUNNING"
  BY <1>2 DEF TypeInv, TypeOK
<1> HIDE DEF newEvent, newJob
<1>4. \A f \in Event \ {e} : event'[f] = event[f] /\ job'[f] = job[f]
  BY <1>2 DEF TypeInv, TypeOK
<1>5. InStep(e)'
  BY <1>3 DEF InStep, Running
<1> QED
  BY <1>4, <1>5, OneChangeMoves

LEMMA StepLockstep == TypeInv /\ Lockstep /\ [Next]_vars => Lockstep'
<1> SUFFICES ASSUME TypeInv, Lockstep, [Next]_vars
             PROVE  Lockstep'
  OBVIOUS
<1>1. CASE UNCHANGED <<event, job>>
  BY <1>1 DEF Lockstep, InStep, Running
<1>2. ASSUME NEW e \in Event, RegisterDuplicate(e) \/ RetryFailed(e)
      PROVE  Lockstep'
  BY <1>1, <1>2, PutBackLockstep DEF RegisterDuplicate, RetryFailed
<1>3. ASSUME NEW e \in Event, RequestReanalysis(e)
      PROVE  Lockstep'
  BY <1>3, PutBackLockstep DEF RequestReanalysis, ReanalyzeChangeEvent,
     RequeueChangeEvent, ReanalyzeJob, RequeueJob
<1>4. ASSUME NEW w \in Worker, WorkerStep(w)
      PROVE  Lockstep'
  <2>1. CASE \E verdict \in Verdict : Conclude(exec[w].ev, verdict)
                                      /\ exec[w].ev \in Event
    BY <2>1, ConcludeLockstep
  <2>2. exec[w].pc # "idle" => exec[w].ev \in Event
    BY DEF TypeInv, WorkerOK
  <2>3. GateDeny(w) => \/ UNCHANGED <<event, job>>
                       \/ \E verdict \in Verdict : Conclude(exec[w].ev, verdict)
    BY DEF GateDeny, Verdict
  <2>4. AcceptResult(w) => \E verdict \in Verdict : Conclude(exec[w].ev, verdict)
    BY DEF AcceptResult
  <2>5. RecordFailure(w) => \E verdict \in Verdict : Conclude(exec[w].ev, verdict)
    BY DEF RecordFailure, Verdict
  <2>6. CASE GateDeny(w)
    BY <1>1, <2>1, <2>2, <2>3, <2>6 DEF GateDeny
  <2>7. CASE AcceptResult(w)
    BY <2>1, <2>2, <2>4, <2>7 DEF AcceptResult
  <2>8. CASE RecordFailure(w)
    BY <2>1, <2>2, <2>5, <2>8 DEF RecordFailure
  <2>9. CASE UNCHANGED <<event, job>>
    BY <1>1, <2>9
  <2> QED
    BY <1>4, <2>6, <2>7, <2>8, <2>9
    DEF WorkerStep, CheckNewerFirst, FetchSnapshot, GateApprove,
        CheckNewerLast, Analyze, RejectResult, Explain, RefuseFailure
<1>5. ASSUME NEW w \in Worker, DispatchDeadline(w) \/ Crash(w) \/ StoreError(w)
      PROVE  Lockstep'
  BY <1>1, <1>5 DEF DispatchDeadline, Crash, StoreError
<1>6. ASSUME NEW w \in Worker, NEW t \in Task, Deliver(w, t)
      PROVE  Lockstep'
  BY <1>1, <1>6, ClaimLockstep DEF Deliver, DeliverDuplicate
<1>7. ASSUME NEW e \in Event, NEW t \in Task, Enqueue(e, t)
      PROVE  UNCHANGED <<event, job>>
  BY <1>7 DEF Enqueue
<1>8. CASE Next
  <2>1. ASSUME NEW e \in Event,
               \/ Register(e) \/ RegisterDuplicate(e) \/ LoseEnqueue(e)
               \/ RetryFailed(e) \/ RequestReanalysis(e) \/ LeaseExpires(e)
               \/ \E t \in Task : Enqueue(e, t)
        PROVE  Lockstep'
    BY <1>1, <1>2, <1>3, <1>7, <2>1, RegisterLockstep, LeaseExpiresLockstep
    DEF LoseEnqueue
  <2>2. CASE UntrackArtifact \/ \E t \in Task : DeliverError(t)
    BY <1>1, <2>2 DEF UntrackArtifact, DeliverError
  <2> QED
    BY <1>4, <1>5, <1>6, <1>8, <2>1, <2>2 DEF Next
<1>9. CASE UNCHANGED vars
  BY <1>1, <1>9 DEF vars
<1> QED
  BY <1>8, <1>9

\* claim, intake and the reanalysis requests never meet a pair of documents
\* they refuse: ChangeEvent and AnalysisJob are one state machine.
THEOREM LockstepCorrect == Spec => []Lockstep
<1>1. Init => Lockstep
  <2>1. \A e \in Event : Init => event[e].status = "NONE" /\ job[e].status = "NONE"
    BY DEF Init
  <2> QED
    BY <2>1 DEF Lockstep, InStep
<1> QED
  BY <1>1, InvTypeInv, StepLockstep, PTL DEF Spec

-----------------------------------------------------------------------------
(* What a step does to the two documents of a change.                      *)

\* A deleted artifact's change has no job: nobody ever works on it.
DeletesUnworked == \A e \in Deletes : job[e].status = "NONE"

DocumentInv == TypeInv /\ Lockstep /\ DeletesUnworked

\* The step leaves the documents of e where they are.
RestsNow(e) ==
  /\ event'[e].status = event[e].status
  /\ event'[e].attempts = event[e].attempts
  /\ job'[e].status = job[e].status

\* The step registers e ...
RecordedNow(e) ==
  /\ Register(e)
  /\ event[e].status = "NONE" /\ job[e].status = "NONE"
  /\ \/ /\ e \in Deletes
        /\ event'[e].status = "DONE" /\ job'[e].status = "NONE"
     \/ /\ e \notin Deletes
        /\ event'[e].status = "PENDING" /\ job'[e].status = "QUEUED"
  /\ event'[e].attempts = event[e].attempts

\* ... starts an attempt at it, first, repeated or taken over ...
AttemptedNow(e) ==
  /\ \/ event[e].status = "PENDING" /\ job[e].status = "QUEUED"
     \/ event[e].status = "PROCESSING" /\ job[e].status = "RUNNING"
     \/ event[e].status = "FAILED" /\ job[e].status = "FAILED"
  /\ event'[e].status = "PROCESSING" /\ job'[e].status = "RUNNING"
  /\ event'[e].attempts = event[e].attempts + 1

\* ... ends the attempt that runs ...
ConcludedNow(e) ==
  /\ event[e].status = "PROCESSING" /\ job[e].status = "RUNNING"
  /\ \/ /\ event'[e].status = "DONE"
        /\ job'[e].status \in {"SUCCEEDED", "INCONCLUSIVE"}
     \/ event'[e].status = "FAILED" /\ job'[e].status = "FAILED"
  /\ event'[e].attempts = event[e].attempts

\* ... or puts it back.
PutBackNow(e) ==
  /\ e \notin Deletes
  /\ event[e].status \in {"PROCESSING", "DONE", "FAILED"}
  /\ event'[e].status = "PENDING" /\ job'[e].status = "QUEUED"
  /\ event'[e].attempts = event[e].attempts

MovesNow(e) ==
  \/ RestsNow(e) \/ RecordedNow(e) \/ AttemptedNow(e)
  \/ ConcludedNow(e) \/ PutBackNow(e)

OneMovesNow ==
  \/ \A f \in Event : RestsNow(f)
  \/ \E e \in Event : MovesNow(e) /\ \A f \in Event \ {e} : RestsNow(f)

LEMMA RegisterMoves ==
  ASSUME DocumentInv, NEW e \in Event, Register(e)
  PROVE  OneMovesNow
<1>1. event[e].status = "NONE" /\ job[e].status = "NONE"
  BY DEF Register, DocumentInv, Lockstep, InStep, Running
<1>2. /\ event \in [Event -> EventDoc] /\ job \in [Event -> JobDoc]
      /\ event[e] \in EventDoc /\ job[e] \in JobDoc
  BY DEF DocumentInv, TypeInv, TypeOK
<1>3. \A f \in Event \ {e} : RestsNow(f)
  BY <1>2 DEF Register, RestsNow
<1>4. RecordedNow(e)
  <2>1. CASE e \in Deletes
    <3>1. event' = [event EXCEPT ![e].status = "DONE"] /\ job' = job
      BY <2>1 DEF Register
    <3> QED
      BY <1>1, <1>2, <2>1, <3>1 DEF RecordedNow, EventDoc
  <2>2. CASE e \notin Deletes
    <3>1. /\ event' = [event EXCEPT ![e].status = "PENDING"]
          /\ job' = [job EXCEPT ![e].status = "QUEUED"]
      BY <2>2 DEF Register
    <3> QED
      BY <1>1, <1>2, <2>2, <3>1 DEF RecordedNow, EventDoc, JobDoc
  <2> QED
    BY <2>1, <2>2
<1> QED
  BY <1>3, <1>4 DEF OneMovesNow, MovesNow

\* Whoever puts a change back writes both documents.
LEMMA PutBackMoves ==
  ASSUME DocumentInv, NEW e \in Event, e \notin Deletes,
         event[e].status \in {"PROCESSING", "DONE", "FAILED"},
         event' = [event EXCEPT ![e] = RequeueChangeEvent(@)],
         job' = [job EXCEPT ![e] = RequeueJob]
  PROVE  OneMovesNow
<1>1. \A f \in Event \ {e} : RestsNow(f)
  BY DEF DocumentInv, TypeInv, TypeOK, RestsNow
<1>2. PutBackNow(e)
  BY DEF DocumentInv, TypeInv, TypeOK, RequeueChangeEvent, RequeueJob,
         PutBackNow
<1> QED
  BY <1>1, <1>2 DEF OneMovesNow, MovesNow

LEMMA RequestMoves ==
  ASSUME DocumentInv, NEW e \in Event,
         RegisterDuplicate(e) \/ RetryFailed(e) \/ RequestReanalysis(e)
  PROVE  OneMovesNow
<1>1. CASE UNCHANGED <<event, job>>
  BY <1>1 DEF OneMovesNow, RestsNow
<1>2. CASE RegisterDuplicate(e) \/ RetryFailed(e)
  <2>1. event[e].status = "FAILED" /\ job[e].status = "FAILED" => e \notin Deletes
    BY DEF DocumentInv, DeletesUnworked
  <2> QED
    BY <1>1, <1>2, <2>1, PutBackMoves DEF RegisterDuplicate, RetryFailed
<1>3. CASE RequestReanalysis(e)
  <2>1. event[e].status \in {"PROCESSING", "DONE", "FAILED"}
    BY <1>3 DEF DocumentInv, TypeInv, TypeOK, EventDoc, EventStatus,
                RequestReanalysis
  <2> QED
    BY <1>3, <2>1, PutBackMoves
    DEF RequestReanalysis, ReanalyzeChangeEvent, RequeueChangeEvent,
        ReanalyzeJob, RequeueJob
<1> QED
  BY <1>2, <1>3

LEMMA LeaseMoves ==
  ASSUME DocumentInv, NEW e \in Event, LeaseExpires(e)
  PROVE  OneMovesNow
<1>1. event \in [Event -> EventDoc] /\ event[e] \in EventDoc
  BY DEF DocumentInv, TypeInv, TypeOK
<1>2. \A f \in Event : RestsNow(f)
  BY <1>1 DEF LeaseExpires, EventDoc, RestsNow
<1> QED
  BY <1>2 DEF OneMovesNow

LEMMA ClaimMoves ==
  ASSUME DocumentInv, NEW w \in Worker, NEW t \in Task, DeliverClaim(w, t)
  PROVE  OneMovesNow
<1>1. PICK e \in Event : e = task[t].ev
  BY ClaimFacts DEF DocumentInv
<1> DEFINE n == event[e].attempts + 1
           newEvent == [status |-> "PROCESSING", attempts |-> n, lease |-> "live"]
           newJob == [status |-> "RUNNING", startedAt |-> n]
<1>2. /\ event' = [event EXCEPT ![e] = newEvent]
      /\ job' = [job EXCEPT ![e] = newJob]
  BY <1>1, ClaimFacts DEF DocumentInv
<1>3. /\ newEvent.status = "PROCESSING" /\ newEvent.attempts = n
      /\ newJob.status = "RUNNING"
  OBVIOUS
<1> HIDE DEF newEvent, newJob
<1>4. event'[e] = newEvent /\ job'[e] = newJob
  BY <1>2 DEF DocumentInv, TypeInv, TypeOK
<1>5. \A f \in Event \ {e} : RestsNow(f)
  BY <1>2 DEF DocumentInv, TypeInv, TypeOK, RestsNow
<1>6. \/ event[e].status = "PENDING" /\ job[e].status = "QUEUED"
      \/ event[e].status = "PROCESSING" /\ job[e].status = "RUNNING"
      \/ event[e].status = "FAILED" /\ job[e].status = "FAILED"
  BY <1>1 DEF DeliverClaim, Claimable, Reclaimable, Running
<1>7. AttemptedNow(e)
  BY <1>3, <1>4, <1>6 DEF AttemptedNow
<1> QED
  BY <1>5, <1>7 DEF OneMovesNow, MovesNow

\* A verdict, a denial or a failure ends an attempt that runs.
LEMMA ConcludeMoves ==
  ASSUME DocumentInv, NEW e \in Event, Running(e), NEW verdict \in Verdict,
         Conclude(e, verdict)
  PROVE  OneMovesNow
<1>1. /\ job'[e].status = verdict
      /\ event'[e].status = IF verdict = "FAILED" THEN "FAILED" ELSE "DONE"
      /\ event'[e].attempts = event[e].attempts
      /\ \A f \in Event \ {e} : event'[f] = event[f] /\ job'[f] = job[f]
  BY DEF DocumentInv, TypeInv, TypeOK, Conclude, CompleteJob,
         FailChangeEvent, CompleteChangeEvent
<1>2. ConcludedNow(e)
  BY <1>1 DEF ConcludedNow, Running, Verdict
<1> QED
  BY <1>1, <1>2 DEF OneMovesNow, MovesNow, RestsNow

LEMMA WorkerMoves ==
  ASSUME DocumentInv, NEW w \in Worker, WorkerStep(w)
  PROVE  OneMovesNow
<1> DEFINE e == exec[w].ev
           ends == Running(e) /\ \E verdict \in Verdict : Conclude(e, verdict)
<1>1. CASE UNCHANGED <<event, job>>
  BY <1>1 DEF OneMovesNow, RestsNow
<1>2. exec[w].pc # "idle" => e \in Event
  BY DEF DocumentInv, TypeInv, WorkerOK
<1>3. CASE exec[w].pc # "idle" /\ ends
  BY <1>2, <1>3, ConcludeMoves
<1>4. CASE GateDeny(w)
  <2>1. UNCHANGED <<event, job>> \/ ends
    BY <1>4 DEF GateDeny, Verdict
  <2> QED
    BY <1>1, <1>3, <1>4, <2>1 DEF GateDeny
<1>5. CASE AcceptResult(w)
  BY <1>3, <1>5 DEF AcceptResult, AttemptAcceptable
<1>6. CASE RecordFailure(w)
  <2>1. ends
    BY <1>6 DEF RecordFailure, Verdict
  <2> QED
    BY <1>3, <1>6, <2>1 DEF RecordFailure
<1> QED
  BY <1>1, <1>4, <1>5, <1>6
  DEF WorkerStep, CheckNewerFirst, FetchSnapshot, GateApprove,
      CheckNewerLast, Analyze, RejectResult, Explain, RefuseFailure

\* Every step moves the documents of one change at most, and as the two
\* state machines together allow.
LEMMA DocumentsMove ==
  ASSUME DocumentInv, [Next]_vars
  PROVE  OneMovesNow
<1>1. CASE UNCHANGED <<event, job>>
  BY <1>1 DEF OneMovesNow, RestsNow
<1>2. ASSUME NEW e \in Event,
             \/ Register(e) \/ RegisterDuplicate(e) \/ LoseEnqueue(e)
             \/ RetryFailed(e) \/ RequestReanalysis(e) \/ LeaseExpires(e)
             \/ \E t \in Task : Enqueue(e, t)
      PROVE  OneMovesNow
  BY <1>1, <1>2, RegisterMoves, RequestMoves, LeaseMoves
  DEF LoseEnqueue, Enqueue
<1>3. ASSUME NEW w \in Worker,
             WorkerStep(w) \/ DispatchDeadline(w) \/ Crash(w) \/ StoreError(w)
      PROVE  OneMovesNow
  BY <1>1, <1>3, WorkerMoves DEF DispatchDeadline, Crash, StoreError
<1>4. ASSUME NEW w \in Worker, NEW t \in Task, Deliver(w, t)
      PROVE  OneMovesNow
  BY <1>1, <1>4, ClaimMoves DEF Deliver, DeliverDuplicate
<1>5. CASE UntrackArtifact \/ \E t \in Task : DeliverError(t)
  BY <1>1, <1>5 DEF UntrackArtifact, DeliverError
<1>6. CASE UNCHANGED vars
  BY <1>1, <1>6 DEF vars
<1> QED
  BY <1>2, <1>3, <1>4, <1>5, <1>6 DEF Next

LEMMA StepDocuments == DocumentInv /\ [Next]_vars => DocumentInv'
<1> SUFFICES ASSUME DocumentInv, [Next]_vars PROVE DocumentInv'
  OBVIOUS
<1>1. OneMovesNow
  BY DocumentsMove
<1>2. DeletesUnworked'
  <2> SUFFICES ASSUME NEW e \in Deletes PROVE job'[e].status = "NONE"
    BY DEF DeletesUnworked
  <2>1. e \in Event /\ job[e].status = "NONE"
    BY EventAssumption DEF DocumentInv, DeletesUnworked
  <2>2. MovesNow(e)
    BY <1>1, <2>1 DEF OneMovesNow, MovesNow
  <2> QED
    BY <2>1, <2>2 DEF MovesNow, RestsNow, RecordedNow, AttemptedNow,
                      ConcludedNow, PutBackNow, DocumentInv, Lockstep, InStep,
                      Running
<1> QED
  BY <1>2, StepTypeInv, StepLockstep DEF DocumentInv

LEMMA InvDocuments == Spec => []DocumentInv
<1>1. Init => DocumentInv
  <2> SUFFICES ASSUME Init PROVE DocumentInv
    OBVIOUS
  <2>1. \A e \in Event : event[e].status = "NONE" /\ job[e].status = "NONE"
    BY DEF Init
  <2> QED
    BY <2>1, InitTypeInv, EventAssumption
    DEF DocumentInv, DeletesUnworked, Lockstep, InStep
<1> QED
  BY <1>1, StepDocuments, PTL DEF Spec

-----------------------------------------------------------------------------
(* The execution implements the contract of a change.                      *)

\* The phase of a change reads off its documents.
LEMMA Phases ==
  ASSUME NEW e \in Event
  PROVE  /\ event[e].status = "NONE" /\ job[e].status = "NONE"
              => Phase(e) = "unknown"
         /\ event[e].status = "PENDING" /\ job[e].status = "QUEUED"
              => Phase(e) = "waiting"
         /\ event[e].status = "PROCESSING" /\ job[e].status = "RUNNING"
              => Phase(e) = "running"
         /\ event[e].status = "DONE"
              /\ job[e].status \in {"NONE", "SUCCEEDED", "INCONCLUSIVE"}
              => Phase(e) = "decided"
         /\ event[e].status = "FAILED" /\ job[e].status = "FAILED"
              => Phase(e) = "failed"
  BY DEF Phase, Running

\* A change whose documents rest keeps its phase.
LEMMA RestsInPhase ==
  ASSUME NEW e \in Event, RestsNow(e)
  PROVE  Phase(e)' = Phase(e)
  BY DEF RestsNow, Phase, Running

\* Where one change goes from one phase to another, the contract moves.
LEMMA ContractMoves ==
  ASSUME NEW e \in Event, \A f \in Event \ {e} : Phase(f)' = Phase(f),
         NEW from, NEW to, Phase(e) \in from, Phase(e)' = to
  PROVE  Contract!Move(e, from, to)
<1> DEFINE P == [f \in Event |-> Phase(f)]
<1>1. P' = [P EXCEPT ![e] = to]
  OBVIOUS
<1> QED
  BY <1>1 DEF Contract!Move

LEMMA ContractStep ==
  ASSUME DocumentInv, NEW e \in Event, MovesNow(e),
         \A f \in Event \ {e} : RestsNow(f)
  PROVE  [Contract!Next]_(Contract!vars)
<1> DEFINE A == [f \in Event |-> event[f].attempts]
<1>1. \A f \in Event \ {e} : Phase(f)' = Phase(f)
  BY RestsInPhase
<1>2. event'[e].attempts = event[e].attempts => A' = A
  BY DEF RestsNow
<1>3. event'[e].attempts = event[e].attempts + 1 => A' = [A EXCEPT ![e] = @ + 1]
  BY DEF RestsNow
<1>4. /\ event'[e].status = "NONE" /\ job'[e].status = "NONE"
           => Phase(e)' = "unknown"
      /\ event'[e].status = "PENDING" /\ job'[e].status = "QUEUED"
           => Phase(e)' = "waiting"
      /\ event'[e].status = "PROCESSING" /\ job'[e].status = "RUNNING"
           => Phase(e)' = "running"
      /\ event'[e].status = "DONE"
           /\ job'[e].status \in {"NONE", "SUCCEEDED", "INCONCLUSIVE"}
           => Phase(e)' = "decided"
      /\ event'[e].status = "FAILED" /\ job'[e].status = "FAILED"
           => Phase(e)' = "failed"
  BY DEF Phase, Running
<1> HIDE DEF A
<1>5. CASE RestsNow(e)
  <2>1. \A f \in Event : Phase(f)' = Phase(f)
    BY <1>1, <1>5, RestsInPhase
  <2>2. [f \in Event |-> Phase(f)]' = [f \in Event |-> Phase(f)]
    BY <2>1
  <2>3. A' = A
    BY <1>2, <1>5 DEF RestsNow
  <2> QED
    BY <2>2, <2>3 DEF Contract!vars, A
<1>6. CASE RecordedNow(e)
  <2>1. /\ Phase(e) \in {"unknown"}
        /\ Phase(e)' = IF e \in Deletes THEN "decided" ELSE "waiting"
    BY <1>4, <1>6, Phases DEF RecordedNow
  <2>2. Contract!Move(e, {"unknown"},
                      IF e \in Deletes THEN "decided" ELSE "waiting")
    BY <1>1, <2>1, ContractMoves
  <2>3. A' = A
    BY <1>2, <1>6 DEF RecordedNow
  <2> QED
    BY <2>2, <2>3 DEF Contract!Next, Contract!Record, A
<1>7. CASE AttemptedNow(e)
  <2>1. Phase(e) \in {"waiting", "failed", "running"} /\ Phase(e)' = "running"
    BY <1>4, <1>7, Phases DEF AttemptedNow
  <2>2. Contract!Move(e, {"waiting", "failed", "running"}, "running")
    BY <1>1, <2>1, ContractMoves
  <2>3. A' = [A EXCEPT ![e] = @ + 1]
    BY <1>3, <1>7 DEF AttemptedNow
  <2> QED
    BY <2>2, <2>3 DEF Contract!Next, Contract!Attempt, A
<1>8. CASE ConcludedNow(e)
  <2>1. Phase(e) \in {"running"} /\ Phase(e)' \in {"decided", "failed"}
    BY <1>4, <1>8, Phases DEF ConcludedNow
  <2>2. \/ Contract!Move(e, {"running"}, "decided")
        \/ Contract!Move(e, {"running"}, "failed")
    BY <1>1, <2>1, ContractMoves
  <2>3. A' = A
    BY <1>2, <1>8 DEF ConcludedNow
  <2> QED
    BY <2>2, <2>3 DEF Contract!Next, Contract!Decide, Contract!Fail, A
<1>9. CASE PutBackNow(e)
  <2>1. /\ Phase(e) \in {"decided", "failed", "running"}
        /\ Phase(e)' = "waiting" /\ e \notin Deletes
    BY <1>4, <1>9, Phases DEF PutBackNow, DocumentInv, Lockstep, InStep, Running
  <2>2. Contract!Move(e, {"decided", "failed", "running"}, "waiting")
    BY <1>1, <2>1, ContractMoves
  <2>3. A' = A
    BY <1>2, <1>9 DEF PutBackNow
  <2> QED
    BY <2>1, <2>2, <2>3 DEF Contract!Next, Contract!PutBack, A
<1> QED
  BY <1>5, <1>6, <1>7, <1>8, <1>9 DEF MovesNow

\* Documents, leases, queue and workers implement the contract of a change:
\* whatever is delivered twice, lost or late, each step of the system is a
\* contract step of one change or none at all.
THEOREM ContractCorrect == Spec => ImplementsContract
<1>1. Init => Contract!Init
  <2> SUFFICES ASSUME Init PROVE Contract!Init
    OBVIOUS
  <2>1. \A e \in Event : /\ event[e].status = "NONE" /\ job[e].status = "NONE"
                         /\ event[e].attempts = 0
    BY DEF Init
  <2>2. \A e \in Event : Phase(e) = "unknown"
    BY <2>1, Phases
  <2> QED
    BY <2>1, <2>2 DEF Contract!Init
<1>2. DocumentInv /\ [Next]_vars => [Contract!Next]_(Contract!vars)
  <2> SUFFICES ASSUME DocumentInv, OneMovesNow
               PROVE  [Contract!Next]_(Contract!vars)
    BY DocumentsMove
  <2>1. CASE \A f \in Event : RestsNow(f)
    <3>1. \A f \in Event : /\ Phase(f)' = Phase(f)
                           /\ event'[f].attempts = event[f].attempts
      BY <2>1, RestsInPhase DEF RestsNow
    <3>2. /\ [f \in Event |-> Phase(f)]' = [f \in Event |-> Phase(f)]
          /\ [f \in Event |-> event[f].attempts]'
               = [f \in Event |-> event[f].attempts]
      BY <3>1
    <3> QED
      BY <3>2 DEF Contract!vars
  <2> QED
    BY <2>1, ContractStep DEF OneMovesNow
<1> QED
  BY <1>1, <1>2, InvDocuments, PTL DEF Spec, ImplementsContract, Contract!Spec

-----------------------------------------------------------------------------
(* Later changes, whatever the order they are observed and registered in.  *)

\* Nothing came before a change that is not on record, and of two changes
\* at most one came before the other.
BeforeOK ==
  /\ \A e \in Event : event[e].status = "NONE" => before[e] = {}
  /\ \A e, f \in Event :
       f \in before[e] => event[f].status # "NONE" /\ e \notin before[f]

\* Every other revision on record came before the artifact's latest one.
LatestIsLast ==
  /\ artifact.latest # NoEvent => event[artifact.latest].status # "NONE"
  /\ \A f \in Event \ Deletes :
       event[f].status # "NONE" =>
         /\ artifact.latest # NoEvent
         /\ f # artifact.latest => f \in before[artifact.latest]

\* Whoever works on a change works on one that has a job.
WorkedHasJob ==
  \A w \in Worker : exec[w].pc # "idle" => job[exec[w].ev].status # "NONE"

OrderInv ==
  /\ DocumentInv /\ BeforeOK /\ LatestIsLast /\ WorkedHasJob
  /\ SupersededMeansNewer

\* Nothing on record is forgotten, and only intake puts something on record.
LEMMA RecordsKept ==
  ASSUME DocumentInv, [Next]_vars, NEW e \in Event
  PROVE  /\ event[e].status # "NONE" => event'[e].status # "NONE"
         /\ job[e].status # "NONE" => job'[e].status # "NONE"
         /\ event[e].status = "NONE" =>
              event'[e].status = "NONE" \/ Register(e)
<1>1. MovesNow(e)
  BY DocumentsMove DEF OneMovesNow, MovesNow
<1> QED
  BY <1>1 DEF MovesNow, RestsNow, RecordedNow, AttemptedNow, ConcludedNow,
              PutBackNow

\* Only intake moves the latest revision and the order of the record.
LEMMA LatestMoves ==
  ASSUME [Next]_vars, \A e \in Event : ~Register(e)
  PROVE  artifact'.latest = artifact.latest /\ before' = before
<1>1. CASE UNCHANGED vars
  BY <1>1 DEF vars
<1>2. CASE UntrackArtifact
  BY <1>2 DEF UntrackArtifact
<1>3. ASSUME NEW e \in Event,
             \/ RegisterDuplicate(e) \/ LoseEnqueue(e)
             \/ RetryFailed(e) \/ RequestReanalysis(e) \/ LeaseExpires(e)
             \/ \E t \in Task : Enqueue(e, t)
      PROVE  artifact' = artifact /\ before' = before
  BY <1>3 DEF RegisterDuplicate, LoseEnqueue, RetryFailed, RequestReanalysis,
              LeaseExpires, Enqueue
<1>4. ASSUME NEW w \in Worker,
             WorkerStep(w) \/ DispatchDeadline(w) \/ Crash(w) \/ StoreError(w)
      PROVE  artifact' = artifact /\ before' = before
  BY <1>4
  DEF WorkerStep, CheckNewerFirst, FetchSnapshot, GateDeny, GateApprove,
      CheckNewerLast, Analyze, AcceptResult, RejectResult, Explain,
      RecordFailure, RefuseFailure, DispatchDeadline, Crash, StoreError
<1>5. ASSUME NEW w \in Worker, NEW t \in Task, Deliver(w, t)
      PROVE  artifact' = artifact /\ before' = before
  BY <1>5 DEF Deliver, DeliverDuplicate, DeliverClaim
<1>6. CASE \E t \in Task : DeliverError(t)
  BY <1>6 DEF DeliverError
<1> QED
  BY <1>1, <1>2, <1>3, <1>4, <1>5, <1>6 DEF Next, vars

LEMMA StepBefore ==
  ASSUME DocumentInv, BeforeOK, [Next]_vars
  PROVE  BeforeOK'
<1>1. CASE \A e \in Event : ~Register(e)
  <2>1. before' = before
    BY <1>1, LatestMoves
  <2> QED
    BY <2>1, RecordsKept DEF BeforeOK
<1>2. ASSUME NEW e \in Event, Register(e)
      PROVE  BeforeOK'
  <2> DEFINE seen == {f \in Event : event[f].status # "NONE"}
  <2>1. event[e].status = "NONE" /\ before' = [before EXCEPT ![e] = seen]
    BY <1>2 DEF Register
  <2>2. /\ \A f \in Event \ {e} : event'[f] = event[f]
        /\ event'[e].status # "NONE"
    BY <1>2 DEF Register, DocumentInv, TypeInv, TypeOK, EventDoc
  <2>3. before \in [Event -> SUBSET Event] /\ before[e] = {}
    BY <2>1 DEF DocumentInv, TypeInv, TypeOK, BeforeOK
  <2>4. \A f \in Event : before'[f] = IF f = e THEN seen ELSE before[f]
    BY <2>1, <2>3
  <2>5. \A f \in Event : e \notin before[f]
    BY <2>1 DEF BeforeOK
  <2>6. ASSUME NEW f \in Event, event'[f].status = "NONE"
        PROVE  before'[f] = {}
    BY <2>2, <2>4, <2>6 DEF BeforeOK
  <2>7. ASSUME NEW f \in Event, NEW g \in Event, g \in before'[f]
        PROVE  event'[g].status # "NONE" /\ f \notin before'[g]
    <3>1. CASE f = e
      <4>0. before'[e] = seen
        BY <2>1, <2>3
      <4>1. g # e /\ event[g].status # "NONE"
        BY <2>1, <2>7, <3>1, <4>0
      <4>2. event'[g] = event[g] /\ before'[g] = before[g]
        BY <2>2, <2>4, <4>1
      <4> QED
        BY <2>5, <3>1, <4>1, <4>2
    <3>2. CASE f # e
      BY <2>2, <2>4, <2>5, <2>7, <3>2 DEF BeforeOK
    <3> QED
      BY <3>1, <3>2
  <2> QED
    BY <2>6, <2>7 DEF BeforeOK
<1> QED
  BY <1>1, <1>2

LEMMA StepLatest ==
  ASSUME DocumentInv, LatestIsLast, [Next]_vars
  PROVE  LatestIsLast'
<1>1. artifact.latest \in Event \cup {NoEvent} /\ NoEvent \notin Event
  BY NoneAssumption DEF DocumentInv, TypeInv, TypeOK, ArtifactDoc
<1>2. CASE \A e \in Event : ~Register(e)
  <2>1. artifact'.latest = artifact.latest /\ before' = before
    BY <1>2, LatestMoves
  <2>2. \A f \in Event : event'[f].status # "NONE" <=> event[f].status # "NONE"
    BY <1>2, RecordsKept
  <2> QED
    BY <1>1, <2>1, <2>2 DEF LatestIsLast
<1>3. ASSUME NEW e \in Event, Register(e)
      PROVE  LatestIsLast'
  <2>1. /\ event[e].status = "NONE"
        /\ \A f \in Event : event[f].status # "NONE" => f \in before'[e]
        /\ \A f \in Event \ {e} : before'[f] = before[f]
    BY <1>3 DEF Register, DocumentInv, TypeInv, TypeOK
  <2>2. \A f \in Event \ {e} : event'[f] = event[f]
    BY <1>3 DEF Register, DocumentInv, TypeInv, TypeOK
  <2>3. event'[e].status # "NONE"
    BY <1>3 DEF Register, DocumentInv, TypeInv, TypeOK, EventDoc
  <2>4. CASE artifact'.latest = e
    BY <1>1, <2>1, <2>2, <2>3, <2>4 DEF LatestIsLast
  <2>5. CASE e \in Deletes /\ artifact'.latest = artifact.latest
    <3>1. artifact.latest # e
      BY <1>1, <2>1 DEF LatestIsLast
    <3> QED
      BY <1>1, <2>1, <2>2, <2>5, <3>1 DEF LatestIsLast
  <2> QED
    BY <1>3, <2>4, <2>5 DEF Register
<1> QED
  BY <1>2, <1>3

LEMMA StepWorked ==
  ASSUME DocumentInv, WorkedHasJob, [Next]_vars
  PROVE  WorkedHasJob'
<1>1. CASE Kept
  BY <1>1, RecordsKept
  DEF Kept, ClaimsKept, WorkedHasJob, DocumentInv, TypeInv, WorkerOK
<1>2. ASSUME NEW w \in Worker, NEW t \in Task, DeliverClaim(w, t)
      PROVE  WorkedHasJob'
  <2>1. PICK e \in Event : e = task[t].ev
    BY <1>2, ClaimFacts DEF DocumentInv
  <2> DEFINE n == event[e].attempts + 1
             newJob == [status |-> "RUNNING", startedAt |-> n]
             newExec == [pc |-> "claimed", ev |-> e, attempt |-> n, task |-> t,
                         startedAt |-> 0, code |-> "NONE", retryable |-> FALSE]
  <2>2. job' = [job EXCEPT ![e] = newJob] /\ exec' = [exec EXCEPT ![w] = newExec]
    BY <1>2, <2>1, ClaimFacts DEF DocumentInv
  <2>3. newJob.status # "NONE" /\ newExec.ev = e
    OBVIOUS
  <2> HIDE DEF newJob, newExec
  <2> SUFFICES ASSUME NEW v \in Worker, exec'[v].pc # "idle"
               PROVE  job'[exec'[v].ev].status # "NONE"
    BY DEF WorkedHasJob
  <2>4. CASE v = w
    BY <2>2, <2>3, <2>4 DEF DocumentInv, TypeInv, TypeOK
  <2>5. CASE v # w
    <3>1. exec'[v] = exec[v] /\ exec[v].ev \in Event
      BY <2>2, <2>5 DEF DocumentInv, TypeInv, TypeOK, WorkerOK
    <3> QED
      BY <3>1, RecordsKept DEF WorkedHasJob
  <2> QED
    BY <2>4, <2>5
<1> QED
  BY <1>1, <1>2, StepCases DEF DocumentInv

\* A change later than e in the order of observation or of registration.
LaterChange(e) ==
  NewerChangeExists(e) \/ \E f \in Event : RegisteredAfter(f, e)

\* An execution that reports a superseded revision reported it before, or
\* has just seen a change that is later in one of the two orders.
SupersededNow(w) ==
  exec'[w].pc = "failing" /\ exec'[w].code = "SUPERSEDED" =>
    /\ exec[w].pc # "idle" /\ exec'[w].ev = exec[w].ev
    /\ \/ exec[w].pc = "failing" /\ exec[w].code = "SUPERSEDED"
       \/ LaterChange(exec[w].ev)

\* The artifact's latest revision is another one only when that one was
\* registered later.
LEMMA AnotherIsLater ==
  ASSUME OrderInv, NEW w \in Worker, exec[w].pc # "idle",
         artifact.latest # exec[w].ev
  PROVE  LaterChange(exec[w].ev)
<1> DEFINE e == exec[w].ev
<1>1. e \in Event /\ job[e].status # "NONE"
  BY DEF OrderInv, WorkedHasJob, DocumentInv, TypeInv, WorkerOK
<1>2. event[e].status # "NONE" /\ e \notin Deletes
  BY <1>1 DEF OrderInv, DocumentInv, DeletesUnworked, Lockstep, InStep, Running
<1>3. artifact.latest # NoEvent /\ e \in before[artifact.latest]
  BY <1>1, <1>2 DEF OrderInv, LatestIsLast
<1>4. artifact.latest \in Event
  BY <1>3 DEF OrderInv, DocumentInv, TypeInv, TypeOK, ArtifactDoc
<1> QED
  BY <1>3, <1>4 DEF LaterChange, RegisteredAfter

LEMMA StepSuperseded ==
  ASSUME OrderInv, [Next]_vars, NEW v \in Worker
  PROVE  SupersededNow(v)
<1> USE DEF SupersededNow
<1>1. exec \in [Worker -> Execution]
  BY DEF OrderInv, DocumentInv, TypeInv, TypeOK
<1>2. CASE exec'[v] = exec[v]
  BY <1>2
<1>3. ASSUME NEW w \in Worker, exec[w].pc # "idle",
             NEW label \in Holding \ {"failing"}, Goto(w, label)
      PROVE  SupersededNow(v)
  BY <1>1, <1>3 DEF Goto, Execution
<1>4. ASSUME NEW w \in Worker, exec[w].pc # "idle",
             NEW code \in FailureCode, NEW retryable \in BOOLEAN,
             Failing(w, code, retryable),
             code = "SUPERSEDED" => LaterChange(exec[w].ev)
      PROVE  SupersededNow(v)
  BY <1>1, <1>4 DEF Failing, Execution
<1>5. ASSUME NEW w \in Worker, exec' = [exec EXCEPT ![w] = Idle]
      PROVE  SupersededNow(v)
  BY <1>1, <1>5 DEF Idle
<1>6. ASSUME NEW w \in Worker, WorkerStep(w) PROVE SupersededNow(v)
  <2>1. CASE CheckNewerFirst(w)
    BY <1>3, <1>4, <2>1 DEF CheckNewerFirst, FailureCode, Holding, LaterChange
  <2>2. CASE FetchSnapshot(w)
    BY <1>3, <1>4, <2>2 DEF FetchSnapshot, FailureCode, Holding
  <2>3. CASE GateApprove(w)
    BY <1>3, <2>3 DEF GateApprove, Holding
  <2>4. CASE CheckNewerLast(w)
    <3>1. CASE NewerChangeExists(exec[w].ev)
      BY <1>4, <2>4, <3>1 DEF CheckNewerLast, FailureCode, LaterChange
    <3>2. CASE ~NewerChangeExists(exec[w].ev)
      BY <1>1, <2>4, <3>2 DEF CheckNewerLast, Execution
    <3> QED
      BY <3>1, <3>2
  <2>5. CASE Analyze(w)
    BY <1>3, <1>4, <2>5 DEF Analyze, FailureCode, Holding
  <2>6. CASE AcceptResult(w)
    BY <1>3, <2>6 DEF AcceptResult, Holding
  <2>7. CASE RejectResult(w)
    <3>1. exec[w].pc # "idle"
      BY <2>7 DEF RejectResult
    <3>2. \/ Failing(w, "OTHER", FALSE)
          \/ Failing(w, "SUPERSEDED", FALSE) /\ LaterChange(exec[w].ev)
      BY <2>7, <3>1, AnotherIsLater DEF RejectResult
    <3> QED
      BY <1>4, <3>1, <3>2 DEF FailureCode
  <2>8. CASE GateDeny(w) \/ Explain(w) \/ RecordFailure(w) \/ RefuseFailure(w)
    BY <1>5, <2>8
    DEF GateDeny, Explain, RecordFailure, RefuseFailure, Return
  <2> QED
    BY <1>6, <2>1, <2>2, <2>3, <2>4, <2>5, <2>6, <2>7, <2>8 DEF WorkerStep
<1>7. ASSUME NEW w \in Worker, DispatchDeadline(w) PROVE SupersededNow(v)
  BY <1>1, <1>7 DEF DispatchDeadline, Execution, OrderInv, DocumentInv,
                    TypeInv, DispatchOK
<1>8. ASSUME NEW w \in Worker, Crash(w) \/ StoreError(w) PROVE SupersededNow(v)
  BY <1>4, <1>5, <1>8 DEF Crash, StoreError, Return, FailureCode
<1>9. ASSUME NEW w \in Worker, NEW t \in Task, DeliverClaim(w, t)
      PROVE  SupersededNow(v)
  <2> DEFINE newExec == [pc |-> "claimed", ev |-> task[t].ev,
                         attempt |-> event'[task[t].ev].attempts, task |-> t,
                         startedAt |-> 0, code |-> "NONE", retryable |-> FALSE]
  <2>1. exec' = [exec EXCEPT ![w] = newExec]
    BY <1>9 DEF DeliverClaim, Hold
  <2>2. newExec.pc = "claimed"
    OBVIOUS
  <2> HIDE DEF newExec
  <2> QED
    BY <1>1, <2>1, <2>2
<1> QED
  BY <1>2, <1>6, <1>7, <1>8, <1>9
  DEF Next, vars, Deliver, DeliverDuplicate, UntrackArtifact, DeliverError,
      Register, RegisterDuplicate, LoseEnqueue, RetryFailed,
      RequestReanalysis, LeaseExpires, Enqueue

LEMMA StepOrder == OrderInv /\ [Next]_vars => OrderInv'
<1> SUFFICES ASSUME OrderInv, [Next]_vars PROVE OrderInv'
  OBVIOUS
<1>1. ASSUME NEW e \in Event, LaterChange(e) PROVE LaterChange(e)'
  <2>1. CASE NewerChangeExists(e)
    BY <2>1, RecordsKept DEF OrderInv, NewerChangeExists, LaterChange
  <2>2. ASSUME NEW f \in Event, RegisteredAfter(f, e)
        PROVE  RegisteredAfter(f, e)'
    <3>1. CASE \A g \in Event : ~Register(g)
      BY <2>2, <3>1, LatestMoves DEF RegisteredAfter
    <3>2. ASSUME NEW g \in Event, Register(g) PROVE f # g
      BY <2>2, <3>2 DEF Register, RegisteredAfter, OrderInv, BeforeOK
    <3>3. ASSUME NEW g \in Event, Register(g) PROVE before'[f] = before[f]
      BY <3>2, <3>3 DEF Register, OrderInv, DocumentInv, TypeInv, TypeOK
    <3> QED
      BY <2>2, <3>1, <3>3 DEF RegisteredAfter
  <2> QED
    BY <1>1, <2>1, <2>2 DEF LaterChange
<1>2. SupersededMeansNewer'
  <2> SUFFICES ASSUME NEW w \in Worker, exec'[w].pc = "failing",
                      exec'[w].code = "SUPERSEDED"
               PROVE  LaterChange(exec[w].ev)'
    BY DEF SupersededMeansNewer, LaterChange
  <2>1. /\ exec[w].ev \in Event /\ exec'[w].ev = exec[w].ev
        /\ LaterChange(exec[w].ev)
    BY StepSuperseded
    DEF SupersededNow, OrderInv, SupersededMeansNewer, LaterChange,
        DocumentInv, TypeInv, WorkerOK
  <2> QED
    BY <1>1, <2>1
<1> QED
  BY <1>2, StepDocuments, StepBefore, StepLatest, StepWorked DEF OrderInv

LEMMA InvOrder == Spec => []OrderInv
<1>1. Init => BeforeOK /\ LatestIsLast /\ WorkedHasJob /\ SupersededMeansNewer
  BY DEF Init, BeforeOK, LatestIsLast, WorkedHasJob, SupersededMeansNewer, Idle
<1>2. /\ DocumentInv /\ BeforeOK /\ LatestIsLast /\ WorkedHasJob
      /\ SupersededMeansNewer
      => OrderInv
  BY DEF OrderInv
<1>3. OrderInv /\ [Next]_vars => OrderInv'
  BY StepOrder
<1> QED
  BY <1>1, <1>2, <1>3, InvDocuments, PTL DEF Spec

\* In whatever order changes are registered: a run is given up as superseded
\* only for another change, observed or registered after its own.
THEOREM SupersededCorrect == Spec => []SupersededMeansNewer
<1>1. OrderInv => SupersededMeansNewer
  BY DEF OrderInv
<1> QED
  BY <1>1, InvOrder, PTL

\* In whatever order changes are registered: the verdict of a run is never
\* written once another revision was registered after the one it examined.
THEOREM LaterRevisionCorrect == Spec => NoVerdictAfterLaterRevision
<1>1. OrderInv /\ [Next]_vars =>
        [\A w \in Worker :
           AcceptResult(w) =>
             \A f \in Event \ Deletes : ~ RegisteredAfter(f, exec[w].ev)]_vars
  <2> SUFFICES ASSUME OrderInv, NEW w \in Worker, AcceptResult(w),
                      NEW f \in Event \ Deletes, RegisteredAfter(f, exec[w].ev)
               PROVE  FALSE
    OBVIOUS
  <2>1. artifact.latest = exec[w].ev /\ exec[w].ev \in Event
    BY DEF AcceptResult, OrderInv, DocumentInv, TypeInv, WorkerOK
  <2>2. exec[w].ev \in before[f] /\ f # exec[w].ev /\ event[f].status # "NONE"
    BY <2>1 DEF RegisteredAfter, OrderInv, BeforeOK
  <2>3. f \in before[exec[w].ev]
    BY <2>1, <2>2 DEF OrderInv, LatestIsLast
  <2> QED
    BY <2>1, <2>2, <2>3 DEF OrderInv, BeforeOK
<1> QED
  BY <1>1, InvOrder, PTL DEF Spec, NoVerdictAfterLaterRevision
=============================================================================
