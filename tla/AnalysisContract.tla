-------------------------- MODULE AnalysisContract --------------------------
(***************************************************************************)
(* What the product promises about the analysis of a change, without       *)
(* queue, workers, leases or documents: a change waits, is attempted under *)
(* a fresh attempt number, and the attempt ends decided or failed.  Only a *)
(* running attempt ends, a decided change runs again only after it was put *)
(* back, and the attempt number of a change only grows.                    *)
(***************************************************************************)
EXTENDS Naturals

CONSTANTS
  Event,    \* changes
  Deletes   \* the changes that need no analysis

VARIABLES
  phase,    \* where each change stands
  attempts  \* attempts made at each change

vars == <<phase, attempts>>

TypeOK ==
  /\ phase \in [Event -> {"unknown", "waiting", "running", "decided", "failed"}]
  /\ attempts \in [Event -> Nat]

Init ==
  /\ phase = [e \in Event |-> "unknown"]
  /\ attempts = [e \in Event |-> 0]

Move(e, from, to) ==
  /\ phase[e] \in from
  /\ phase' = [phase EXCEPT ![e] = to]

Record(e) ==
  /\ Move(e, {"unknown"}, IF e \in Deletes THEN "decided" ELSE "waiting")
  /\ UNCHANGED attempts

\* A first, a retried or a taken-over attempt.
Attempt(e) ==
  /\ Move(e, {"waiting", "failed", "running"}, "running")
  /\ attempts' = [attempts EXCEPT ![e] = @ + 1]

Decide(e) == Move(e, {"running"}, "decided") /\ UNCHANGED attempts

Fail(e) == Move(e, {"running"}, "failed") /\ UNCHANGED attempts

\* A person, the daily revalidation or a repeated delivery asks again.
PutBack(e) ==
  /\ e \notin Deletes
  /\ Move(e, {"decided", "failed", "running"}, "waiting")
  /\ UNCHANGED attempts

Next ==
  \E e \in Event : Record(e) \/ Attempt(e) \/ Decide(e) \/ Fail(e) \/ PutBack(e)

Spec == Init /\ [][Next]_vars
=============================================================================
