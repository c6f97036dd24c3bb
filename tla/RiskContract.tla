---------------------------- MODULE RiskContract ----------------------------
(***************************************************************************)
(* What the ledger promises about each risk, without revisions, documents, *)
(* analyses or mounts: a risk is open, closed or out of care; only people  *)
(* judge, and only what is in care; a judgement survives being closed and  *)
(* found again; what goes out of care leaves its judgement behind, and     *)
(* comes back open, with that judgement or with none.                      *)
(***************************************************************************)
CONSTANTS
  Key,        \* risks
  Judgement,  \* what a person may say of one
  Unjudged    \* nobody has said anything

VARIABLES
  standing,   \* where each risk stands
  judgement,  \* what is said of it now
  left        \* what was said of it when it went out of care

vars == <<standing, judgement, left>>

Init ==
  /\ standing = [k \in Key |-> "unknown"]
  /\ judgement = [k \in Key |-> Unjudged]
  /\ left = [k \in Key |-> Unjudged]

Moves(k, from, to) == standing[k] = from /\ standing'[k] = to

Same(k) ==
  /\ standing'[k] = standing[k]
  /\ judgement'[k] = judgement[k]
  /\ left'[k] = left[k]

Appear(k) ==
  /\ Moves(k, "unknown", "open")
  /\ judgement'[k] = Unjudged /\ left'[k] = left[k]

Clear(k) ==
  /\ Moves(k, "open", "closed")
  /\ judgement'[k] = judgement[k] /\ left'[k] = left[k]

FoundAgain(k) ==
  /\ Moves(k, "closed", "open")
  /\ judgement'[k] = judgement[k] /\ left'[k] = left[k]

Judge(k) ==
  /\ standing[k] \in {"open", "closed"} /\ standing'[k] = standing[k]
  /\ judgement'[k] \in Judgement \cup {Unjudged} /\ left'[k] = left[k]

LoseCare(k) ==
  /\ standing[k] \in {"open", "closed"} /\ standing'[k] = "suspended"
  /\ judgement'[k] = Unjudged /\ left'[k] = judgement[k]

ResumeCare(k) ==
  /\ Moves(k, "suspended", "open")
  /\ judgement'[k] \in {Unjudged, left[k]} /\ left'[k] = left[k]

Step(k) ==
  \/ Same(k) \/ Appear(k) \/ Clear(k) \/ FoundAgain(k) \/ Judge(k)
  \/ LoseCare(k) \/ ResumeCare(k)

\* One unit of work may move every risk of the artifact, each on its own.
Next == \A k \in Key : Step(k)

Spec == Init /\ [][Next]_vars
=============================================================================
