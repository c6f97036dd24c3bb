---------------------- MODULE AnalysisOwnership_proofs ----------------------
(***************************************************************************)
(* Proofs about who is responsible for a change: a change that waits has a *)
(* task or an owed enqueue, a change that is executed has an execution     *)
(* that owns it, and that execution works alone until its verdict.         *)
(***************************************************************************)
EXTENDS AnalysisExecution_proofs

-----------------------------------------------------------------------------
(* What the steps do to the documents, the tasks and the counts of faults. *)

\* Ending an execution decides its change and touches no other.
LEMMA ConcludeDecides ==
  ASSUME TypeInv, NEW e \in Event, NEW verdict \in Verdict, Conclude(e, verdict)
  PROVE  /\ event'[e].status \in {"DONE", "FAILED"}
         /\ \A f \in Event \ {e} : event'[f] = event[f] /\ job'[f] = job[f]
BY DEF TypeInv, TypeOK, Conclude, CompleteJob, FailChangeEvent,
       CompleteChangeEvent

\* The answer of a dispatch leaves the queued tasks queued.
LEMMA AnswerLeavesQueued ==
  ASSUME TypeInv, NEW w \in Worker, NEW ok, Answer(exec[w].task, ok),
         NEW t \in Task, task[t].state = "queued"
  PROVE  task'[t] = task[t]
<1>1. exec[w].task \in Task \cup {NoTask}
  BY DEF TypeInv, TypeOK, Execution
<1>2. exec[w].task # NoTask => task[exec[w].task].state = "dispatched"
  BY DEF TypeInv, DispatchOK
<1>3. \A u \in Task : u # exec[w].task => task'[u] = task[u]
  BY <1>1, <1>2, AnswerFacts
<1> QED
  BY <1>2, <1>3, NoneAssumption

\* Only a claim starts to process a change, and only intake and requests
\* make one wait.
StartsNothing ==
  \A e \in Event :
    /\ event'[e].status = "PROCESSING" => event[e].status = "PROCESSING"
    /\ event'[e].status = "PENDING" => event[e].status = "PENDING"

LEMMA WorkerStartsNothing ==
  ASSUME TypeInv, NEW w \in Worker, WorkerStep(w)
  PROVE  StartsNothing
<1>1. exec[w].pc # "idle" => exec[w].ev \in Event
  BY DEF TypeInv, WorkerOK
<1>2. ASSUME exec[w].pc # "idle", NEW verdict \in Verdict,
             Conclude(exec[w].ev, verdict)
      PROVE  StartsNothing
  BY <1>1, <1>2, ConcludeDecides DEF StartsNothing
<1>3. CASE event' = event
  BY <1>3 DEF StartsNothing
<1>4. CASE GateDeny(w)
  BY <1>2, <1>3, <1>4 DEF GateDeny, Verdict
<1>5. CASE AcceptResult(w)
  BY <1>2, <1>5 DEF AcceptResult
<1>6. CASE RecordFailure(w)
  BY <1>2, <1>6 DEF RecordFailure, Verdict
<1> QED
  BY <1>3, <1>4, <1>5, <1>6
  DEF WorkerStep, CheckNewerFirst, FetchSnapshot, GateApprove,
      CheckNewerLast, Analyze, RejectResult, Explain, RefuseFailure

\* An execution touches no task but the one it answers for, and owes the
\* queue nothing.
LEMMA WorkerLeavesQueued ==
  ASSUME TypeInv, NEW w \in Worker, WorkerStep(w)
  PROVE  /\ \A t \in Task : task[t].state = "queued" => task'[t] = task[t]
         /\ UNCHANGED <<intents, used>>
<1>1. ASSUME NEW ok, Return(w, ok)
      PROVE  \A t \in Task : task[t].state = "queued" => task'[t] = task[t]
  BY <1>1, AnswerLeavesQueued DEF Return
<1>2. CASE task' = task /\ UNCHANGED <<intents, used>>
  BY <1>2
<1>3. CASE GateDeny(w) \/ Explain(w) \/ RecordFailure(w) \/ RefuseFailure(w)
  BY <1>1, <1>3 DEF GateDeny, Explain, RecordFailure, RefuseFailure
<1> QED
  BY <1>2, <1>3
  DEF WorkerStep, CheckNewerFirst, FetchSnapshot, GateApprove,
      CheckNewerLast, Analyze, AcceptResult, RejectResult

\* Faults are counted, never forgotten.
LEMMA FaultsAreCounted ==
  ASSUME TypeInv, [Next]_vars, NEW f \in Fault, used'[f] = 0
  PROVE  used[f] = 0
<1>1. ASSUME NEW g \in Fault, Spend(g)
      PROVE  used[f] = 0
  <2>1. used[f] \in Nat
    BY DEF TypeInv, TypeOK
  <2> QED
    BY <1>1, <2>1 DEF TypeInv, TypeOK, Spend
<1>2. CASE used' = used
  BY <1>2
<1>3. ASSUME NEW e \in Event,
             \/ Register(e) \/ RegisterDuplicate(e) \/ LoseEnqueue(e)
             \/ RetryFailed(e) \/ RequestReanalysis(e) \/ LeaseExpires(e)
             \/ \E t \in Task : Enqueue(e, t)
      PROVE  used[f] = 0
  BY <1>1, <1>2, <1>3
  DEF Register, RegisterDuplicate, LoseEnqueue, RetryFailed,
      RequestReanalysis, LeaseExpires, Enqueue, Fault
<1>4. ASSUME NEW w \in Worker,
             WorkerStep(w) \/ DispatchDeadline(w) \/ Crash(w) \/ StoreError(w)
      PROVE  used[f] = 0
  BY <1>1, <1>2, <1>4, WorkerLeavesQueued
  DEF DispatchDeadline, Crash, StoreError, Fault
<1>5. ASSUME NEW w \in Worker, NEW t \in Task, Deliver(w, t)
      PROVE  used[f] = 0
  BY <1>2, <1>5 DEF Deliver, DeliverDuplicate, DeliverClaim
<1>6. CASE UntrackArtifact \/ \E t \in Task : DeliverError(t)
  BY <1>1, <1>6 DEF UntrackArtifact, DeliverError, Fault
<1>7. CASE UNCHANGED vars
  BY <1>2, <1>7 DEF vars
<1> QED
  BY <1>3, <1>4, <1>5, <1>6, <1>7 DEF Next

-----------------------------------------------------------------------------
(* A change that waits is queued.                                          *)

\* What a step owes a waiting change e, short of losing a task.
StillWaiting(e) ==
  event'[e].status = "PENDING" =>
    \/ intents'[e] > 0
    \/ \E t \in Task : task'[t].state = "queued" /\ task'[t].ev = e
    \/ /\ event[e].status = "PENDING"
       /\ intents'[e] = intents[e]
       /\ \A t \in Task : task[t].state = "queued" /\ task[t].ev = e
                            => task'[t] = task[t]

LEMMA StillWaitingIsQueued ==
  ASSUME TypeInv, PendingIsQueued, [Next]_vars, \A e \in Event : StillWaiting(e)
  PROVE  PendingIsQueued'
<1>1. NoTaskLost' => NoTaskLost
  BY FaultsAreCounted DEF NoTaskLost, Fault
<1> QED
  BY <1>1 DEF PendingIsQueued, StillWaiting

\* One more enqueue is owed for e, and nothing changes for the others.
LEMMA OwedIsWaiting ==
  ASSUME TypeInv, NEW e \in Event, intents' = [intents EXCEPT ![e] = @ + 1],
         task' = task, \A f \in Event \ {e} : event'[f] = event[f]
  PROVE  \A f \in Event : StillWaiting(f)
<1>1. intents'[e] > 0
  BY DEF TypeInv, TypeOK
<1>2. \A f \in Event \ {e} : intents'[f] = intents[f]
  BY DEF TypeInv, TypeOK
<1> QED
  BY <1>1, <1>2 DEF StillWaiting

LEMMA RegisterWaits ==
  ASSUME TypeInv, NEW e \in Event, Register(e)
  PROVE  \A f \in Event : StillWaiting(f)
<1>1. \A f \in Event \ {e} : event'[f] = event[f]
  BY DEF TypeInv, TypeOK, Register
<1>2. CASE e \in Deletes
  <2>1. event'[e].status = "DONE" /\ UNCHANGED <<intents, task>>
    BY <1>2 DEF TypeInv, TypeOK, EventDoc, Register
  <2> QED
    BY <1>1, <2>1 DEF StillWaiting
<1>3. CASE e \notin Deletes
  BY <1>1, <1>3, OwedIsWaiting DEF Register
<1> QED
  BY <1>2, <1>3

LEMMA RequestWaits ==
  ASSUME TypeInv, NEW e \in Event,
         RegisterDuplicate(e) \/ RetryFailed(e) \/ RequestReanalysis(e)
  PROVE  \A f \in Event : StillWaiting(f)
<1>1. \A f \in Event \ {e} : event'[f] = event[f]
  BY DEF TypeInv, TypeOK, RegisterDuplicate, RetryFailed, RequestReanalysis
<1> QED
  BY <1>1, OwedIsWaiting DEF RegisterDuplicate, RetryFailed, RequestReanalysis

LEMMA EnqueueWaits ==
  ASSUME TypeInv, NEW e \in Event, NEW t \in Task, Enqueue(e, t)
  PROVE  \A f \in Event : StillWaiting(f)
<1>1. task'[t].state = "queued" /\ task'[t].ev = e
  BY DEF TypeInv, TypeOK, Enqueue
<1>2. \A u \in Task : task[u].state = "queued" => task'[u] = task[u]
  BY DEF TypeInv, TypeOK, Enqueue
<1>3. \A f \in Event \ {e} : intents'[f] = intents[f] /\ event' = event
  BY DEF TypeInv, TypeOK, Enqueue
<1> QED
  BY <1>1, <1>2, <1>3 DEF StillWaiting

LEMMA LeaseExpiresWaits ==
  ASSUME TypeInv, NEW e \in Event, LeaseExpires(e)
  PROVE  \A f \in Event : StillWaiting(f)
<1>1. event' = [event EXCEPT ![e].lease = "expired"] /\ UNCHANGED <<intents, task>>
  BY DEF LeaseExpires
<1>2. \A f \in Event : event'[f].status = event[f].status
  BY <1>1 DEF TypeInv, TypeOK, EventDoc
<1> QED
  BY <1>1, <1>2 DEF StillWaiting

\* The tasks of a waiting change are neither consumed as duplicates nor
\* claimed without taking the change out of waiting.
LEMMA DeliverWaits ==
  ASSUME TypeInv, NEW w \in Worker, NEW t \in Task, Deliver(w, t)
  PROVE  \A f \in Event : StillWaiting(f)
<1>1. PICK e \in Event : e = task[t].ev
  BY DEF Deliver, DeliverDuplicate, DeliverClaim, TypeInv, TaskOK
<1>2. UNCHANGED intents
  BY DEF Deliver, DeliverDuplicate, DeliverClaim
<1>3. \A u \in Task : u # t => task'[u] = task[u]
  BY DEF Deliver, DeliverDuplicate, DeliverClaim, Hold, TypeInv, TypeOK
<1>4. event'[e].status # "PENDING" /\ \A f \in Event \ {e} : event'[f] = event[f]
  <2>1. CASE DeliverDuplicate(w, t)
    BY <1>1, <2>1 DEF DeliverDuplicate, NothingToClaim, Running
  <2>2. CASE DeliverClaim(w, t)
    <3> DEFINE doc == [status |-> "PROCESSING",
                       attempts |-> event[e].attempts + 1, lease |-> "live"]
    <3>1. event' = [event EXCEPT ![e] = doc]
      BY <1>1, <2>2, ClaimFacts
    <3> QED
      BY <3>1 DEF TypeInv, TypeOK
  <2> QED
    BY <2>1, <2>2 DEF Deliver
<1> QED
  BY <1>1, <1>2, <1>3, <1>4 DEF StillWaiting

LEMMA WorkerStepWaits ==
  ASSUME TypeInv, NEW w \in Worker, WorkerStep(w)
  PROVE  \A f \in Event : StillWaiting(f)
BY WorkerStartsNothing, WorkerLeavesQueued DEF StartsNothing, StillWaiting

\* A dispatch that ends by its deadline or with its instance.
LEMMA LostAnswerWaits ==
  ASSUME TypeInv, NEW w \in Worker, DispatchDeadline(w) \/ Crash(w)
  PROVE  \A f \in Event : StillWaiting(f)
<1>1. Answer(exec[w].task, FALSE) /\ UNCHANGED <<event, intents>>
  BY DEF DispatchDeadline, Crash
<1>2. \A t \in Task : task[t].state = "queued" => task'[t] = task[t]
  BY <1>1, AnswerLeavesQueued
<1> QED
  BY <1>1, <1>2 DEF StillWaiting

LEMMA StepPending == TypeInv /\ PendingIsQueued /\ [Next]_vars => PendingIsQueued'
<1> SUFFICES ASSUME TypeInv, PendingIsQueued, [Next]_vars
             PROVE  PendingIsQueued'
  OBVIOUS
<1>1. CASE \A e \in Event : StillWaiting(e)
  BY <1>1, StillWaitingIsQueued
<1>2. ASSUME NEW f \in {"lost", "store"}, Spend(f)
      PROVE  PendingIsQueued'
  <2>1. used[f] \in Nat /\ f \in Fault
    BY DEF TypeInv, TypeOK, Fault
  <2>2. used'[f] # 0
    BY <1>2, <2>1 DEF TypeInv, TypeOK, Spend
  <2> QED
    BY <2>2 DEF PendingIsQueued, NoTaskLost
<1>3. ASSUME NEW e \in Event,
             \/ Register(e) \/ RegisterDuplicate(e) \/ LoseEnqueue(e)
             \/ RetryFailed(e) \/ RequestReanalysis(e) \/ LeaseExpires(e)
             \/ \E t \in Task : Enqueue(e, t)
      PROVE  PendingIsQueued'
  BY <1>1, <1>2, <1>3, RegisterWaits, RequestWaits, EnqueueWaits,
     LeaseExpiresWaits
  DEF LoseEnqueue
<1>4. ASSUME NEW w \in Worker,
             WorkerStep(w) \/ DispatchDeadline(w) \/ Crash(w) \/ StoreError(w)
      PROVE  PendingIsQueued'
  BY <1>1, <1>2, <1>4, WorkerStepWaits, LostAnswerWaits DEF StoreError
<1>5. ASSUME NEW w \in Worker, NEW t \in Task, Deliver(w, t)
      PROVE  PendingIsQueued'
  BY <1>1, <1>5, DeliverWaits
<1>6. CASE UntrackArtifact
  BY <1>1, <1>6 DEF UntrackArtifact, StillWaiting
<1>7. ASSUME NEW t \in Task, DeliverError(t)
      PROVE  PendingIsQueued'
  BY <1>2, <1>7 DEF DeliverError
<1>8. CASE UNCHANGED vars
  BY <1>1, <1>8 DEF vars, StillWaiting
<1> QED
  BY <1>3, <1>4, <1>5, <1>6, <1>7, <1>8 DEF Next

\* As long as no enqueue call and no claim is lost, a change that waits has
\* a task in the queue or an owed enqueue, for any number of tasks.
THEOREM PendingIsQueuedCorrect == Spec => []PendingIsQueued
<1>1. Init => PendingIsQueued
  BY DEF Init, PendingIsQueued
<1> QED
  BY <1>1, InvTypeInv, StepPending, PTL DEF Spec

-----------------------------------------------------------------------------
(* A change that is executed has an execution that owns it.                *)

\* The execution w will write the end of e.
WillEnd(w, e) == Owns(w, e) /\ exec[w].pc # "explaining"

\* What a step owes a change e it leaves PROCESSING, short of a crash.
StillOwned(e) ==
  event'[e].status = "PROCESSING" =>
    \/ \E w \in Worker : WillEnd(w, e)'
    \/ /\ event[e].status = "PROCESSING"
       /\ \A w \in Worker : WillEnd(w, e) => WillEnd(w, e)'

LEMMA StillOwnedIsOwned ==
  ASSUME TypeInv, ProcessingIsOwned, [Next]_vars, \A e \in Event : StillOwned(e)
  PROVE  ProcessingIsOwned'
<1>1. NoExecutionLost' => NoExecutionLost
  BY FaultsAreCounted DEF NoExecutionLost, Fault
<1> QED
  BY <1>1 DEF ProcessingIsOwned, StillOwned, WillEnd

LEMMA IntakeOwned ==
  ASSUME TypeInv, NEW e \in Event,
         \/ Register(e) \/ RegisterDuplicate(e) \/ RetryFailed(e)
         \/ RequestReanalysis(e) \/ LeaseExpires(e)
  PROVE  \A f \in Event : StillOwned(f)
<1>1. exec' = exec
  BY DEF Register, RegisterDuplicate, RetryFailed, RequestReanalysis,
         LeaseExpires
<1>2. AttemptsKept
  BY RegisterKeeps, RegisterDuplicateKeeps, RetryFailedKeeps,
     RequestReanalysisKeeps, LeaseExpiresKeeps DEF Kept
<1>3. \A f \in Event :
        event'[f].status = "PROCESSING" => event[f].status = "PROCESSING"
  <2>1. CASE Register(e)
    BY <2>1 DEF TypeInv, TypeOK, EventDoc, Register
  <2>2. CASE RegisterDuplicate(e) \/ RetryFailed(e) \/ RequestReanalysis(e)
    BY <2>2 DEF TypeInv, TypeOK, RegisterDuplicate, RetryFailed,
                RequestReanalysis, RequeueChangeEvent, ReanalyzeChangeEvent
  <2>3. CASE LeaseExpires(e)
    BY <2>3 DEF TypeInv, TypeOK, EventDoc, LeaseExpires
  <2> QED
    BY <2>1, <2>2, <2>3
<1> QED
  BY <1>1, <1>2, <1>3 DEF AttemptsKept, StillOwned, WillEnd, Owns

LEMMA DeadlineOwned ==
  ASSUME TypeInv, NEW w \in Worker, DispatchDeadline(w)
  PROVE  \A e \in Event : StillOwned(e)
<1>1. \A v \in Worker : /\ exec'[v].pc = exec[v].pc
                        /\ exec'[v].ev = exec[v].ev
                        /\ exec'[v].attempt = exec[v].attempt
  BY DEF TypeInv, TypeOK, Execution, DispatchDeadline
<1> QED
  BY <1>1 DEF DispatchDeadline, StillOwned, WillEnd, Owns

LEMMA ClaimOwned ==
  ASSUME TypeInv, NEW w \in Worker, NEW t \in Task, DeliverClaim(w, t)
  PROVE  \A f \in Event : StillOwned(f)
<1>1. PICK e \in Event : e = task[t].ev
  BY ClaimFacts
<1> DEFINE n == event[e].attempts + 1
           doc == [status |-> "PROCESSING", attempts |-> n, lease |-> "live"]
           holder == [pc |-> "claimed", ev |-> e, attempt |-> n, task |-> t,
                      startedAt |-> 0, code |-> "NONE", retryable |-> FALSE]
<1>2. /\ exec[w].pc = "idle"
      /\ event' = [event EXCEPT ![e] = doc]
      /\ exec' = [exec EXCEPT ![w] = holder]
  BY <1>1, ClaimFacts
<1>3. WillEnd(w, e)'
  BY <1>2 DEF TypeInv, TypeOK, WillEnd, Owns
<1>4. \A f \in Event \ {e} : event'[f] = event[f]
  BY <1>2 DEF TypeInv, TypeOK
<1>5. \A v \in Worker : exec[v].pc # "idle" => exec'[v] = exec[v]
  BY <1>2 DEF TypeInv, TypeOK
<1> HIDE DEF doc, holder
<1> QED
  BY <1>3, <1>4, <1>5 DEF StillOwned, WillEnd, Owns

\* An execution that goes on still owns its change.
LEMMA GoesOn ==
  ASSUME TypeInv, NEW w \in Worker, event' = event,
         exec[w].pc # "idle", exec'[w].pc \in Holding \ {"explaining"},
         exec'[w].ev = exec[w].ev, exec'[w].attempt = exec[w].attempt,
         \A v \in Worker \ {w} : exec'[v] = exec[v]
  PROVE  \A e \in Event : StillOwned(e)
<1>1. ASSUME NEW v \in Worker, NEW e \in Event, WillEnd(v, e)
      PROVE  WillEnd(v, e)'
  <2>1. CASE v = w
    BY <1>1, <2>1 DEF WillEnd, Owns, Holding
  <2>2. CASE v # w
    BY <1>1, <2>2 DEF WillEnd, Owns
  <2> QED
    BY <2>1, <2>2
<1> QED
  BY <1>1 DEF StillOwned

\* An execution that stops, or only explains from now on, has decided its
\* change or does not own it.
LEMMA LeavesDecided ==
  ASSUME TypeInv, NEW w \in Worker, NEW e \in Event, e = exec[w].ev,
         \A v \in Worker \ {w} : exec'[v] = exec[v],
         \/ event' = event /\ ~(WillEnd(w, e) /\ event[e].status = "PROCESSING")
         \/ \E verdict \in Verdict : Conclude(e, verdict)
  PROVE  \A f \in Event : StillOwned(f)
<1>1. CASE event' = event
  <2>1. ASSUME NEW f \in Event, event'[f].status = "PROCESSING",
               NEW v \in Worker, WillEnd(v, f),
               ~(WillEnd(w, e) /\ event[e].status = "PROCESSING")
        PROVE  WillEnd(v, f)'
    BY <1>1, <2>1 DEF WillEnd, Owns
  <2>2. CASE ~(WillEnd(w, e) /\ event[e].status = "PROCESSING")
    BY <1>1, <2>1, <2>2 DEF StillOwned
  <2>3. CASE \E verdict \in Verdict : Conclude(e, verdict)
    <3>1. event'[e].status \in {"DONE", "FAILED"}
      BY <2>3, ConcludeDecides
    <3>2. ASSUME NEW f \in Event, f # e, NEW v \in Worker, WillEnd(v, f)
          PROVE  WillEnd(v, f)'
      BY <1>1, <3>2 DEF WillEnd, Owns
    <3> QED
      BY <1>1, <3>1, <3>2 DEF StillOwned
  <2> QED
    BY <2>2, <2>3
<1>2. CASE \E verdict \in Verdict : Conclude(e, verdict)
  <2>1. /\ event'[e].status \in {"DONE", "FAILED"}
        /\ \A f \in Event \ {e} : event'[f] = event[f]
    BY <1>2, ConcludeDecides
  <2>2. ASSUME NEW f \in Event, f # e, NEW v \in Worker, WillEnd(v, f)
        PROVE  WillEnd(v, f)'
    BY <2>1, <2>2 DEF WillEnd, Owns
  <2> QED
    BY <2>1, <2>2 DEF StillOwned
<1> QED
  BY <1>1, <1>2

LEMMA WorkerStepOwned ==
  ASSUME TypeInv, Lockstep, NEW w \in Worker, WorkerStep(w)
  PROVE  \A f \in Event : StillOwned(f)
<1>1. PICK e : e = exec[w].ev
  OBVIOUS
<1>2. exec[w].pc # "idle" /\ e \in Event
  BY <1>1 DEF TypeInv, WorkerOK, WorkerStep, CheckNewerFirst, FetchSnapshot,
     GateDeny, GateApprove, CheckNewerLast, Analyze, AcceptResult,
     RejectResult, Explain, RecordFailure, RefuseFailure
<1>3. \A v \in Worker \ {w} : exec'[v] = exec[v]
  BY DEF TypeInv, TypeOK, WorkerStep, CheckNewerFirst, FetchSnapshot,
     GateDeny, GateApprove, CheckNewerLast, Analyze, AcceptResult,
     RejectResult, Explain, RecordFailure, RefuseFailure, Goto, Failing, Return
<1>4. event[e].status = "PROCESSING" => Running(e)
  BY <1>2 DEF Lockstep, InStep, Running
<1>5. CASE GateDeny(w)
  BY <1>1, <1>2, <1>3, <1>4, <1>5, LeavesDecided DEF GateDeny, Verdict
<1>6. CASE AcceptResult(w)
  BY <1>1, <1>2, <1>3, <1>6, LeavesDecided DEF AcceptResult
<1>7. CASE Explain(w)
  BY <1>1, <1>2, <1>3, <1>7, LeavesDecided DEF Explain, WillEnd
<1>8. CASE RecordFailure(w)
  BY <1>1, <1>2, <1>3, <1>8, LeavesDecided DEF RecordFailure, Verdict
<1>9. CASE RefuseFailure(w)
  BY <1>1, <1>2, <1>3, <1>4, <1>9, LeavesDecided DEF RefuseFailure, WillEnd, Owns
<1>10. ASSUME NEW label \in Holding \ {"explaining"}, Goto(w, label), event' = event
       PROVE  \A f \in Event : StillOwned(f)
  <2>1. /\ exec'[w].pc = label /\ exec'[w].ev = exec[w].ev
        /\ exec'[w].attempt = exec[w].attempt
    BY <1>10 DEF TypeInv, TypeOK, Execution, Goto
  <2> QED
    BY <1>2, <1>3, <1>10, <2>1, GoesOn
<1>11. ASSUME NEW code, NEW retryable, Failing(w, code, retryable), event' = event
       PROVE  \A f \in Event : StillOwned(f)
  <2>1. /\ exec'[w].pc = "failing" /\ exec'[w].ev = exec[w].ev
        /\ exec'[w].attempt = exec[w].attempt
    BY <1>11 DEF TypeInv, TypeOK, Execution, Failing
  <2> QED
    BY <1>2, <1>3, <1>11, <2>1, GoesOn DEF Holding
<1>12. CASE CheckNewerLast(w)
  <2>1. CASE Failing(w, "SUPERSEDED", FALSE)
    BY <1>11, <1>12, <2>1 DEF CheckNewerLast
  <2>2. CASE exec' = [exec EXCEPT ![w].pc = "analyzing",
                                  ![w].startedAt = event[e].attempts]
    <3>1. /\ exec'[w].pc = "analyzing" /\ exec'[w].ev = exec[w].ev
          /\ exec'[w].attempt = exec[w].attempt
      BY <2>2 DEF TypeInv, TypeOK, Execution
    <3> QED
      BY <1>2, <1>3, <1>12, <3>1, GoesOn DEF Holding, CheckNewerLast
  <2> QED
    BY <1>1, <1>12, <2>1, <2>2 DEF CheckNewerLast
<1>13. CASE \/ CheckNewerFirst(w) \/ FetchSnapshot(w) \/ GateApprove(w)
            \/ Analyze(w) \/ RejectResult(w)
  BY <1>10, <1>11, <1>13
  DEF CheckNewerFirst, FetchSnapshot, GateApprove, Analyze, RejectResult,
      Holding
<1> QED
  BY <1>5, <1>6, <1>7, <1>8, <1>9, <1>12, <1>13 DEF WorkerStep

LEMMA StepOwned ==
  TypeInv /\ Lockstep /\ ProcessingIsOwned /\ [Next]_vars => ProcessingIsOwned'
<1> SUFFICES ASSUME TypeInv, Lockstep, ProcessingIsOwned, [Next]_vars
             PROVE  ProcessingIsOwned'
  OBVIOUS
<1>1. CASE \A e \in Event : StillOwned(e)
  BY <1>1, StillOwnedIsOwned
<1>2. ASSUME NEW f \in {"crash", "store"}, Spend(f)
      PROVE  ProcessingIsOwned'
  <2>1. used[f] \in Nat /\ f \in Fault
    BY DEF TypeInv, TypeOK, Fault
  <2>2. used'[f] # 0
    BY <1>2, <2>1 DEF TypeInv, TypeOK, Spend
  <2> QED
    BY <2>2 DEF ProcessingIsOwned, NoExecutionLost
<1>3. CASE UNCHANGED <<event, exec>>
  BY <1>1, <1>3 DEF StillOwned, WillEnd, Owns
<1>4. ASSUME NEW e \in Event,
             \/ Register(e) \/ RegisterDuplicate(e) \/ LoseEnqueue(e)
             \/ RetryFailed(e) \/ RequestReanalysis(e) \/ LeaseExpires(e)
             \/ \E t \in Task : Enqueue(e, t)
      PROVE  ProcessingIsOwned'
  BY <1>1, <1>3, <1>4, IntakeOwned DEF LoseEnqueue, Enqueue
<1>5. ASSUME NEW w \in Worker,
             WorkerStep(w) \/ DispatchDeadline(w) \/ Crash(w) \/ StoreError(w)
      PROVE  ProcessingIsOwned'
  BY <1>1, <1>2, <1>5, WorkerStepOwned, DeadlineOwned DEF Crash, StoreError
<1>6. ASSUME NEW w \in Worker, NEW t \in Task, Deliver(w, t)
      PROVE  ProcessingIsOwned'
  BY <1>1, <1>3, <1>6, ClaimOwned DEF Deliver, DeliverDuplicate
<1>7. CASE UntrackArtifact \/ \E t \in Task : DeliverError(t)
  BY <1>3, <1>7 DEF UntrackArtifact, DeliverError
<1>8. CASE UNCHANGED vars
  BY <1>3, <1>8 DEF vars
<1> QED
  BY <1>4, <1>5, <1>6, <1>7, <1>8 DEF Next

\* As long as no instance dies and no store error escapes, a change that is
\* PROCESSING has an execution that owns its attempt and will write its end.
THEOREM ProcessingIsOwnedCorrect == Spec => []ProcessingIsOwned
<1>1. Init => ProcessingIsOwned
  BY DEF Init, ProcessingIsOwned
<1> QED
  BY <1>1, InvTypeInv, LockstepCorrect, StepOwned, PTL DEF Spec

-----------------------------------------------------------------------------
(* An execution works alone until its verdict.                             *)

\* The execution answers for a change, owns its attempt, and is attached to
\* its dispatch, so its lease is live.
Holds(w) ==
  /\ Owns(w, exec[w].ev)
  /\ exec[w].task # NoTask
  /\ Running(exec[w].ev) /\ event[exec[w].ev].lease = "live"

\* OneAnalysisAtATime alone is not inductive: it says nothing about the
\* lease that keeps other claims and reanalysis requests away.
Alone ==
  used["detach"] = 0 => \A w \in Worker : exec[w].pc \in Undecided => Holds(w)

\* Alone with fencing is what the property needs.
LEMMA AloneIsOne ==
  ASSUME TypeInv, AttemptsFence, Alone
  PROVE  OneAnalysisAtATime
<1> SUFFICES ASSUME used["detach"] = 0, NEW v \in Worker, NEW w \in Worker,
                    exec[v].pc \in Undecided, exec[w].pc \in Undecided,
                    exec[v].ev = exec[w].ev
             PROVE  v = w
  BY DEF OneAnalysisAtATime
<1> QED
  BY DEF Alone, Holds, Owns, AttemptsFence, Undecided, Holding

\* A holder that keeps its change, attempt and task, while the documents of
\* the change stay as they are, is a holder still.
LEMMA HolderStays ==
  ASSUME NEW w \in Worker, Holds(w), exec'[w].pc # "idle",
         exec'[w].ev = exec[w].ev, exec'[w].attempt = exec[w].attempt,
         exec'[w].task = exec[w].task,
         event'[exec[w].ev] = event[exec[w].ev],
         job'[exec[w].ev] = job[exec[w].ev]
  PROVE  Holds(w)'
BY DEF Holds, Owns, Running

\* Steps of intake and requests: none of them touches a change whose lease
\* is live, and a lease does not run out while its owner is attached.
LEMMA IntakeAlone ==
  ASSUME TypeInv, Lockstep, Alone, NEW e \in Event,
         \/ Register(e) \/ RegisterDuplicate(e) \/ RetryFailed(e)
         \/ RequestReanalysis(e) \/ LeaseExpires(e)
  PROVE  Alone'
<1>1. exec' = exec
  BY DEF Register, RegisterDuplicate, RetryFailed, RequestReanalysis,
         LeaseExpires
<1>2. \A f \in Event \ {e} : event'[f] = event[f] /\ job'[f] = job[f]
  BY DEF TypeInv, TypeOK, Register, RegisterDuplicate, RetryFailed,
         RequestReanalysis, LeaseExpires
<1>3. used'["detach"] = 0 => used["detach"] = 0
  BY DEF TypeInv, TypeOK, Register, RegisterDuplicate, RetryFailed,
         RequestReanalysis, LeaseExpires, Spend, Fault
<1>4. ASSUME NEW w \in Worker, Holds(w), exec[w].ev = e
      PROVE  event'[e] = event[e] /\ job'[e] = job[e]
  <2>1. event[e].status = "PROCESSING" /\ event[e].lease = "live"
    BY <1>4 DEF Holds, Running
  <2>2. ~Register(e) /\ ~RetryFailed(e) /\ ~RegisterDuplicate(e)
    BY <2>1 DEF Register, RetryFailed, RegisterDuplicate
  <2>3. ~RequestReanalysis(e)
    BY <2>1 DEF RequestReanalysis, LeaseIsLive
  <2>4. ~LeaseExpires(e)
    BY <1>4 DEF LeaseExpires, Holds
  <2> QED
    BY <2>2, <2>3, <2>4
<1>5. ASSUME NEW w \in Worker, exec[w].pc \in Undecided, Holds(w)
      PROVE  Holds(w)'
  <2>1. exec[w].ev \in Event
    BY <1>5 DEF TypeInv, WorkerOK, Holds, Owns
  <2> QED
    BY <1>1, <1>2, <1>4, <1>5, <2>1, HolderStays DEF Holds, Owns
<1> QED
  BY <1>1, <1>3, <1>5 DEF Alone

LEMMA ClaimAlone ==
  ASSUME TypeInv, Alone, NEW w \in Worker, NEW t \in Task, DeliverClaim(w, t)
  PROVE  Alone'
<1>1. PICK e \in Event : e = task[t].ev
  BY ClaimFacts
<1> DEFINE n == event[e].attempts + 1
           doc == [status |-> "PROCESSING", attempts |-> n, lease |-> "live"]
           run == [status |-> "RUNNING", startedAt |-> n]
           holder == [pc |-> "claimed", ev |-> e, attempt |-> n, task |-> t,
                      startedAt |-> 0, code |-> "NONE", retryable |-> FALSE]
<1>2. /\ event' = [event EXCEPT ![e] = doc]
      /\ job' = [job EXCEPT ![e] = run]
      /\ exec' = [exec EXCEPT ![w] = holder]
      /\ used' = used
  BY <1>1, ClaimFacts
<1>3. Holds(w)'
  BY <1>2, NoneAssumption DEF TypeInv, TypeOK, Holds, Owns, Running
<1>4. ASSUME NEW v \in Worker, v # w, exec[v].pc \in Undecided, Holds(v)
      PROVE  Holds(v)'
  <2>1. exec[v].ev # e
    BY <1>1, <1>4 DEF DeliverClaim, Claimable, Reclaimable, Holds, Running
  <2>2. exec[v].ev \in Event /\ exec[v].pc # "idle"
    BY <1>4 DEF TypeInv, WorkerOK, Holds, Owns
  <2>3. exec'[v] = exec[v] /\ event'[exec[v].ev] = event[exec[v].ev]
        /\ job'[exec[v].ev] = job[exec[v].ev]
    BY <1>2, <1>4, <2>1, <2>2 DEF TypeInv, TypeOK
  <2> QED
    BY <1>4, <2>2, <2>3, HolderStays
<1>5. \A v \in Worker \ {w} : exec'[v] = exec[v]
  BY <1>2 DEF TypeInv, TypeOK
<1> HIDE DEF doc, run, holder
<1> QED
  BY <1>2, <1>3, <1>4, <1>5 DEF Alone

\* An execution writes the documents of its own change only, and only when
\* nobody else holds it; and it never comes back from its verdict.
LEMMA WorkerStepAlone ==
  ASSUME TypeInv, AttemptsFence, Alone, NEW w \in Worker, WorkerStep(w)
  PROVE  Alone'
<1>1. PICK e : e = exec[w].ev
  OBVIOUS
<1>2. exec[w].pc # "idle" /\ e \in Event
  BY <1>1 DEF TypeInv, WorkerOK, WorkerStep, CheckNewerFirst, FetchSnapshot,
     GateDeny, GateApprove, CheckNewerLast, Analyze, AcceptResult,
     RejectResult, Explain, RecordFailure, RefuseFailure
<1>3. \A v \in Worker \ {w} : exec'[v] = exec[v]
  BY DEF TypeInv, TypeOK, WorkerStep, CheckNewerFirst, FetchSnapshot,
     GateDeny, GateApprove, CheckNewerLast, Analyze, AcceptResult,
     RejectResult, Explain, RecordFailure, RefuseFailure, Goto, Failing, Return
<1>4. used' = used
  BY WorkerLeavesQueued
<1>5. ASSUME used["detach"] = 0,
             \/ exec[w].pc \in Undecided
             \/ exec[w].attempt = event[e].attempts,
             NEW v \in Worker \ {w}, exec[v].pc \in Undecided
      PROVE  exec[v].ev # e
  <2>1. Holds(v)
    BY <1>5 DEF Alone
  <2>2. exec[v].ev = e => exec[v].attempt = event[e].attempts
    BY <2>1 DEF Holds, Owns
  <2>3. exec[w].attempt = event[e].attempts
    BY <1>1, <1>5 DEF Alone, Holds, Owns
  <2> QED
    BY <1>1, <1>2, <2>1, <2>2, <2>3 DEF AttemptsFence, Holds, Owns
<1>6. ASSUME \A v \in Worker \ {w} :
               used["detach"] = 0 /\ exec[v].pc \in Undecided
                 => /\ event'[exec[v].ev] = event[exec[v].ev]
                    /\ job'[exec[v].ev] = job[exec[v].ev],
             exec'[w].pc \in Undecided =>
               /\ exec[w].pc \in Undecided
               /\ exec'[w].ev = exec[w].ev
               /\ exec'[w].attempt = exec[w].attempt
               /\ exec'[w].task = exec[w].task
               /\ UNCHANGED <<event, job>>
      PROVE  Alone'
  <2> SUFFICES ASSUME used["detach"] = 0, NEW v \in Worker,
                      exec'[v].pc \in Undecided
               PROVE  Holds(v)'
    BY <1>4 DEF Alone
  <2>1. CASE v = w
    BY <1>6, <2>1, HolderStays DEF Alone, Undecided, Holding
  <2>2. CASE v # w
    BY <1>3, <1>6, <2>2, HolderStays DEF Alone, Undecided, Holding
  <2> QED
    BY <2>1, <2>2
<1>7. ASSUME \/ exec[w].pc \in Undecided
             \/ exec[w].attempt = event[e].attempts,
             NEW verdict \in Verdict, Conclude(e, verdict),
             exec'[w].pc \notin Undecided
      PROVE  Alone'
  <2>1. \A f \in Event \ {e} : event'[f] = event[f] /\ job'[f] = job[f]
    BY <1>2, <1>7, ConcludeDecides
  <2>2. \A v \in Worker : exec[v].pc \in Undecided => exec[v].ev \in Event
    BY DEF TypeInv, WorkerOK, Undecided, Holding
  <2> QED
    BY <1>5, <1>6, <1>7, <2>1, <2>2
<1>8. ASSUME NEW ok, Return(w, ok)
      PROVE  exec'[w].pc \notin Undecided
  BY <1>8 DEF TypeInv, TypeOK, Return, Idle, Undecided, Holding
<1>9. CASE GateDeny(w)
  <2>1. exec[w].pc \in Undecided
    BY <1>9 DEF GateDeny, Undecided, Holding
  <2>2. CASE UNCHANGED <<event, job>>
    BY <1>6, <1>8, <1>9, <2>2 DEF GateDeny
  <2> QED
    BY <1>1, <1>7, <1>8, <1>9, <2>1, <2>2 DEF GateDeny, Verdict
<1>10. CASE AcceptResult(w)
  <2>1. exec[w].pc \in Undecided
    BY <1>10 DEF AcceptResult, Undecided, Holding
  <2>2. exec'[w].pc \notin Undecided
    BY <1>10 DEF AcceptResult, Goto, TypeInv, TypeOK, Execution, Undecided
  <2> QED
    BY <1>1, <1>7, <1>10, <2>1, <2>2 DEF AcceptResult
<1>11. CASE RecordFailure(w)
  BY <1>1, <1>7, <1>8, <1>11 DEF RecordFailure, Verdict
<1>12. CASE Explain(w) \/ RefuseFailure(w)
  BY <1>6, <1>8, <1>12 DEF Explain, RefuseFailure
<1>13. ASSUME NEW label, Goto(w, label), exec[w].pc \in Undecided,
              UNCHANGED <<event, job>>
       PROVE  Alone'
  <2>1. /\ exec'[w].ev = exec[w].ev /\ exec'[w].attempt = exec[w].attempt
        /\ exec'[w].task = exec[w].task
    BY <1>13 DEF TypeInv, TypeOK, Execution, Goto
  <2> QED
    BY <1>6, <1>13, <2>1
<1>14. ASSUME NEW code, NEW retryable, Failing(w, code, retryable),
              UNCHANGED <<event, job>>
       PROVE  Alone'
  <2>1. exec'[w].pc = "failing"
    BY <1>14 DEF TypeInv, TypeOK, Execution, Failing
  <2> QED
    BY <1>6, <1>14, <2>1 DEF Undecided
<1>15. CASE CheckNewerLast(w)
  <2>1. CASE exec' = [exec EXCEPT ![w].pc = "analyzing",
                                  ![w].startedAt = event[e].attempts]
    <3>1. /\ exec'[w].ev = exec[w].ev /\ exec'[w].attempt = exec[w].attempt
          /\ exec'[w].task = exec[w].task
      BY <2>1 DEF TypeInv, TypeOK, Execution
    <3>2. exec[w].pc \in Undecided /\ UNCHANGED <<event, job>>
      BY <1>15 DEF CheckNewerLast, Undecided, Holding
    <3> QED
      BY <1>6, <3>1, <3>2
  <2> QED
    BY <1>1, <1>14, <1>15, <2>1 DEF CheckNewerLast
<1>16. CASE \/ CheckNewerFirst(w) \/ FetchSnapshot(w) \/ GateApprove(w)
            \/ Analyze(w) \/ RejectResult(w)
  BY <1>13, <1>14, <1>16
  DEF CheckNewerFirst, FetchSnapshot, GateApprove, Analyze, RejectResult,
      Undecided, Holding
<1> QED
  BY <1>9, <1>10, <1>11, <1>12, <1>15, <1>16 DEF WorkerStep

\* An execution that dies or fails on the store takes no one else with it.
LEMMA FaultAlone ==
  ASSUME TypeInv, Alone, NEW w \in Worker, Crash(w) \/ StoreError(w)
  PROVE  Alone'
<1>1. UNCHANGED <<event, job>> /\ \A v \in Worker \ {w} : exec'[v] = exec[v]
  BY DEF TypeInv, TypeOK, Crash, StoreError, Return, Failing
<1>2. exec'[w].pc \in {"idle", "failing"}
  <2>1. CASE exec' = [exec EXCEPT ![w] = Idle]
    BY <2>1 DEF TypeInv, TypeOK, Idle
  <2>2. CASE Failing(w, "OTHER", TRUE)
    BY <2>2 DEF TypeInv, TypeOK, Execution, Failing
  <2> QED
    BY <2>1, <2>2 DEF Crash, StoreError, Return
<1>3. used'["detach"] = used["detach"]
  BY DEF TypeInv, TypeOK, Crash, StoreError, Spend, Fault
<1>4. ASSUME NEW v \in Worker \ {w}, exec[v].pc \in Undecided, Holds(v)
      PROVE  Holds(v)'
  BY <1>1, <1>4, HolderStays DEF Holds, Owns
<1> QED
  BY <1>1, <1>2, <1>3, <1>4 DEF Alone, Undecided, Holding

LEMMA StepAlone ==
  TypeInv /\ Lockstep /\ AttemptsFence /\ Alone /\ [Next]_vars => Alone'
<1> SUFFICES ASSUME TypeInv, Lockstep, AttemptsFence, Alone, [Next]_vars
             PROVE  Alone'
  OBVIOUS
<1>1. CASE UNCHANGED <<event, job, exec>> /\ used'["detach"] = used["detach"]
  BY <1>1 DEF Alone, Holds, Owns, Running
<1>2. ASSUME NEW f \in Fault \ {"detach"}, Spend(f)
      PROVE  used'["detach"] = used["detach"]
  BY <1>2 DEF TypeInv, TypeOK, Spend, Fault
<1>3. ASSUME NEW e \in Event,
             \/ Register(e) \/ RegisterDuplicate(e) \/ LoseEnqueue(e)
             \/ RetryFailed(e) \/ RequestReanalysis(e) \/ LeaseExpires(e)
             \/ \E t \in Task : Enqueue(e, t)
      PROVE  Alone'
  BY <1>1, <1>2, <1>3, IntakeAlone DEF LoseEnqueue, Enqueue, Fault
<1>4. ASSUME NEW w \in Worker, DispatchDeadline(w)
      PROVE  Alone'
  <2>1. used'["detach"] # 0
    BY <1>4 DEF TypeInv, TypeOK, DispatchDeadline, Spend, Fault
  <2> QED
    BY <2>1 DEF Alone
<1>5. ASSUME NEW w \in Worker,
             WorkerStep(w) \/ DispatchDeadline(w) \/ Crash(w) \/ StoreError(w)
      PROVE  Alone'
  BY <1>4, <1>5, WorkerStepAlone, FaultAlone
<1>6. ASSUME NEW w \in Worker, NEW t \in Task, Deliver(w, t)
      PROVE  Alone'
  BY <1>1, <1>6, ClaimAlone DEF Deliver, DeliverDuplicate
<1>7. CASE UntrackArtifact \/ \E t \in Task : DeliverError(t)
  BY <1>1, <1>2, <1>7 DEF UntrackArtifact, DeliverError, Fault
<1>8. CASE UNCHANGED vars
  BY <1>1, <1>8 DEF vars
<1> QED
  BY <1>3, <1>5, <1>6, <1>7, <1>8 DEF Next

LEMMA AloneInvariant == Spec => []Alone
<1>1. Init => Alone
  BY DEF Init, Alone, Idle, Undecided, Holding
<1> QED
  BY <1>1, InvTypeInv, LockstepCorrect, FenceCorrect, StepAlone, PTL DEF Spec

\* As long as no dispatch outlives its deadline, two executions of one
\* change are never both between claim and verdict, however many workers
\* and tasks there are.
THEOREM OneAnalysisCorrect == Spec => []OneAnalysisAtATime
BY AloneInvariant, InvTypeInv, FenceCorrect, AloneIsOne, PTL

\* Under the same condition the result an acceptance takes is the one of the
\* attempt that is under way, although _validate_result compares only when
\* analyzers were started.
THEOREM VerdictBelongsToAttemptCorrect == Spec => VerdictBelongsToAttempt
<1>1. ASSUME Alone, NEW w \in Worker, used["detach"] = 0, AcceptResult(w)
      PROVE  exec[w].attempt = event[exec[w].ev].attempts
  <2>1. exec[w].pc \in Undecided
    BY <1>1 DEF AcceptResult, Undecided, Holding
  <2> QED
    BY <1>1, <2>1 DEF Alone, Holds, Owns
<1>2. Alone => [\A w \in Worker :
                  used["detach"] = 0 /\ AcceptResult(w)
                    => exec[w].attempt = event[exec[w].ev].attempts]_vars
  BY <1>1
<1> QED
  BY <1>2, AloneInvariant, PTL DEF VerdictBelongsToAttempt
=============================================================================
