---------------------------- MODULE SourceIntake ----------------------------
(***************************************************************************)
(* register_source_change as the connectors see it: a SourceChange is      *)
(* taken, taken again as a repetition, or refused with an exception.       *)
(*                                                                         *)
(* A ledger is what the canonical store knows of one mount: the changes on *)
(* record, by fingerprint, and the artifact behind each source name.  An   *)
(* artifact has one name at a time and a name one artifact (the unique key *)
(* "source-identity"), so an artifact is known by its name.  What becomes  *)
(* of a registered change is AnalysisExecution's matter.                   *)
(***************************************************************************)
EXTENDS Naturals, FiniteSets

Kind == {"CREATE", "UPDATE", "DELETE", "MOVE"}
Availability == {"NONE", "AVAILABLE", "DELETED"}

\* A SourceChange: previous is the name a MOVE comes from, delivery the
\* provider's id of the message.
Change(fingerprint, kind, name, previous, delivery) ==
  [fingerprint |-> fingerprint, kind |-> kind, name |-> name,
   previous |-> previous, delivery |-> delivery]

\* The numbers of a finite set in increasing order: what a connector hands
\* over of a page or of a push, oldest first.
Ascending(S) ==
  CHOOSE s \in [1..Cardinality(S) -> S] :
    \A i, j \in DOMAIN s : i < j => s[i] < s[j]

EmptyLedger(names) ==
  [changes |-> {}, artifact |-> [n \in names |-> "NONE"]]

OnRecord(ledger, fingerprint) ==
  \E c \in ledger.changes : c.fingerprint = fingerprint

\* A fingerprint seen before must come with the change it came with; where
\* the artifact was moved from is not compared.
Clashes(ledger, change) ==
  \E c \in ledger.changes :
    /\ c.fingerprint = change.fingerprint
    /\ [c EXCEPT !.previous = change.previous] # change

\* A rename needs the artifact it renames, and a name no artifact ever had.
CannotMove(ledger, change) ==
  /\ change.kind = "MOVE"
  /\ \/ ledger.artifact[change.previous] = "NONE"
     \/ change.name # change.previous /\ ledger.artifact[change.name] # "NONE"

\* The mount's own state is asked for a new change only.
Refused(ledger, change, processable) ==
  \/ Clashes(ledger, change)
  \/ /\ ~ OnRecord(ledger, change.fingerprint)
     /\ ~ processable \/ CannotMove(ledger, change)

ArtifactsAfter(ledger, change) ==
  LET here == IF change.kind = "DELETE" THEN "DELETED" ELSE "AVAILABLE"
  IN  [n \in DOMAIN ledger.artifact |->
         CASE n = change.name -> here
           [] change.kind = "MOVE" /\ n = change.previous /\ n # change.name -> "NONE"
           [] OTHER -> ledger.artifact[n]]

\* The ledger after a change that is not refused.
Registered(ledger, change) ==
  IF OnRecord(ledger, change.fingerprint) THEN ledger
  ELSE [changes |-> ledger.changes \cup {change},
        artifact |-> ArtifactsAfter(ledger, change)]
=============================================================================
