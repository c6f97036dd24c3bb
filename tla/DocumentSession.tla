--------------------------- MODULE DocumentSession ---------------------------
(***************************************************************************)
(* Units of work over Firestore: a session reads one document or one query *)
(* at a time, shows its caller its own writes, and sends everything it     *)
(* read and wrote to one transaction at the end, which compares what was   *)
(* read BY VALUE with what is there and then writes.                       *)
(*                                                                         *)
(* The callers are any units of work: any operations, on any documents, in *)
(* any order.  A session that ended makes way for a new one in its slot.   *)
(* An operation that raises (a document that should exist and does not, or *)
(* the reverse) has read the document, which is what Get does.             *)
(***************************************************************************)
EXTENDS Naturals

CONSTANTS
  Key,      \* documents of a collection
  Data,     \* contents of a document
  Filter,   \* queries: the contents they match
  Session,  \* sessions open at the same time
  Absent,   \* no document
  Unread,   \* the session has not looked
  MaxOps    \* bound on the operations of each session

Content == Data \cup {Absent}
Store == [Key -> Content]

ASSUME FilterAssumption == Filter \subseteq SUBSET Data
ASSUME AbsentAssumption == Absent \notin Data
ASSUME UnreadAssumption == Unread \notin Content \cup Store
ASSUME MaxOpsAssumption == MaxOps \in [Session -> Nat]

VARIABLES
  store,        \* the collection in Firestore
  reads,        \* _original_reads
  answers,      \* _query_expectations
  overlay,      \* _overlay: what the session shows of each document
  writes,       \* _writes; the content written is the overlay's
  ops,          \* operations of the session so far
  undisturbed,  \* no other session changed the store since the first of them
  serial        \* the stores on which these operations, run alone, would have
                \* given the same results, and what they would have made of them

vars == <<store, reads, answers, overlay, writes, ops, undisturbed, serial>>

TypeOK ==
  /\ store \in Store
  /\ reads \in [Session -> [Key -> Content \cup {Unread}]]
  /\ answers \in [Session -> [Filter -> Store \cup {Unread}]]
  /\ overlay \in [Session -> [Key -> Content \cup {Unread}]]
  /\ writes \in [Session -> [Key -> {"none", "create", "set", "delete"}]]
  /\ ops \in [Session -> Nat]
  /\ undisturbed \in [Session -> BOOLEAN]

Untouched == [S \in Store |-> S]

Init ==
  /\ store = [k \in Key |-> Absent]
  /\ reads = [s \in Session |-> [k \in Key |-> Unread]]
  /\ answers = [s \in Session |-> [f \in Filter |-> Unread]]
  /\ overlay = [s \in Session |-> [k \in Key |-> Unread]]
  /\ writes = [s \in Session |-> [k \in Key |-> "none"]]
  /\ ops = [s \in Session |-> 0]
  /\ undisturbed = [s \in Session |-> TRUE]
  /\ serial = [s \in Session |-> Untouched]

\* The documents of a store that match.
Matching(S, f) == [k \in Key |-> IF S[k] \in f THEN S[k] ELSE Absent]

-----------------------------------------------------------------------------
(* Operations of a session.                                                *)

\* What the session shows of a document: its overlay, or else the store.
Shown(s, k) == IF overlay[s][k] = Unread THEN store[k] ELSE overlay[s][k]

\* Every operation on a document begins with get.
LookUp(s, k) ==
  /\ ops[s] < MaxOps[s]
  /\ ops' = [ops EXCEPT ![s] = @ + 1]
  /\ reads' = [reads EXCEPT ![s][k] = IF @ = Unread THEN store[k] ELSE @]
  /\ UNCHANGED <<store, answers, undisturbed>>

\* Run alone, the operation sees this of the document and leaves that.
RunsAlike(s, k, seen, left) ==
  serial' = [serial EXCEPT ![s] =
               [S \in {T \in DOMAIN @ : @[T][k] = seen} |->
                  [@[S] EXCEPT ![k] = left]]]

Get(s, k) ==
  /\ LookUp(s, k)
  /\ overlay' = [overlay EXCEPT ![s][k] = Shown(s, k)]
  /\ RunsAlike(s, k, Shown(s, k), Shown(s, k))
  /\ UNCHANGED writes

\* Mutant: a document deleted in this session is created like any other.
CreationPlain(w) == "create"

\* A document deleted before in this session is still there for the store.
CreationOf(w) == IF w = "delete" THEN "set" ELSE "create"

Create(s, k, d) ==
  /\ LookUp(s, k)
  /\ Shown(s, k) = Absent
  /\ overlay' = [overlay EXCEPT ![s][k] = d]
  /\ writes' = [writes EXCEPT ![s][k] = CreationOf(@)]
  /\ RunsAlike(s, k, Absent, d)

\* Mutant: replacing has a name of its own.
ReplacementNamed(w) == IF w = "create" THEN "create" ELSE "replace"

ReplacementOf(w) == IF w = "create" THEN "create" ELSE "set"

Set(s, k, d) ==
  /\ LookUp(s, k)
  /\ Shown(s, k) # Absent
  /\ overlay' = [overlay EXCEPT ![s][k] = d]
  /\ writes' = [writes EXCEPT ![s][k] = ReplacementOf(@)]
  /\ RunsAlike(s, k, Shown(s, k), d)

DeletionOf(w) == IF w = "create" THEN "none" ELSE "delete"

Delete(s, k) ==
  /\ LookUp(s, k)
  /\ Shown(s, k) # Absent
  /\ overlay' = [overlay EXCEPT ![s][k] = Absent]
  /\ writes' = [writes EXCEPT ![s][k] = DeletionOf(@)]
  /\ RunsAlike(s, k, Shown(s, k), Absent)

\* A query is sent once; its documents count as read unless they were before.
\* What the caller gets is that answer under the overlay.
Query(s, f) ==
  LET first == answers[s][f] = Unread
      answer == IF first THEN Matching(store, f) ELSE answers[s][f]
      Fill(old) == [k \in Key |-> IF first /\ old[k] = Unread /\ store[k] \in f
                                  THEN store[k] ELSE old[k]]
      shown == [k \in Key |-> IF overlay'[s][k] = Unread THEN answer[k]
                              ELSE overlay'[s][k]]
  IN
  /\ ops[s] < MaxOps[s]
  /\ ops' = [ops EXCEPT ![s] = @ + 1]
  /\ answers' = [answers EXCEPT ![s][f] = answer]
  /\ reads' = [reads EXCEPT ![s] = Fill(@)]
  /\ overlay' = [overlay EXCEPT ![s] = Fill(@)]
  /\ serial' = [serial EXCEPT ![s] =
                  [S \in {T \in DOMAIN @ : Matching(@[T], f) = Matching(shown, f)}
                     |-> @[S]]]
  /\ UNCHANGED <<store, writes, undisturbed>>

-----------------------------------------------------------------------------
(* The end of a session.                                                   *)

\* The next session of the slot has seen nothing; the others are disturbed
\* if the store changed under them.
End(s) ==
  /\ reads' = [reads EXCEPT ![s] = [k \in Key |-> Unread]]
  /\ answers' = [answers EXCEPT ![s] = [f \in Filter |-> Unread]]
  /\ overlay' = [overlay EXCEPT ![s] = [k \in Key |-> Unread]]
  /\ writes' = [writes EXCEPT ![s] = [k \in Key |-> "none"]]
  /\ ops' = [ops EXCEPT ![s] = 0]
  /\ undisturbed' = [t \in Session |-> \/ t = s \/ ops[t] = 0
                                       \/ undisturbed[t] /\ store' = store]
  /\ serial' = [serial EXCEPT ![s] = Untouched]

\* Mutant: only documents are compared, not the answers of queries.
ExpectationsOfDocuments(s, S) ==
  \A k \in Key : reads[s][k] \in {Unread, S[k]}

\* Everything the session read is what a store holds.
ExpectationsHold(s, S) ==
  /\ \A k \in Key : reads[s][k] \in {Unread, S[k]}
  /\ \A f \in Filter : answers[s][f] \in {Unread, Matching(S, f)}

\* Firestore refuses to create a document that is there.
CreationsFit(s) ==
  \A k \in Key : writes[s][k] = "create" => store[k] = Absent

Commit(s) ==
  /\ ops[s] > 0
  /\ ExpectationsHold(s, store) /\ CreationsFit(s)
  /\ store' = [k \in Key |-> IF writes[s][k] = "none" THEN store[k]
                             ELSE overlay[s][k]]
  /\ End(s)

\* ConcurrencyConflictError or UniqueConstraintViolation; nothing is written.
Refuse(s) ==
  /\ ~(ExpectationsHold(s, store) /\ CreationsFit(s))
  /\ store' = store
  /\ End(s)

Rollback(s) ==
  /\ ops[s] > 0
  /\ store' = store
  /\ End(s)

-----------------------------------------------------------------------------
Next ==
  \E s \in Session :
    \/ \E k \in Key : \/ Get(s, k) \/ Delete(s, k)
                      \/ \E d \in Data : Create(s, k, d) \/ Set(s, k, d)
    \/ \E f \in Filter : Query(s, f)
    \/ Commit(s) \/ Refuse(s) \/ Rollback(s)

Spec == Init /\ [][Next]_vars

-----------------------------------------------------------------------------
(* Properties.                                                             *)

\* Committed units of work are serializable: what a session was shown, one
\* document and one query at a time while others committed, is what it would
\* have been shown alone on the store it commits to, and it leaves what it
\* would have left there.
Serializable ==
  [][\A s \in Session :
       Commit(s) => store \in DOMAIN serial[s] /\ store' = serial[s][store]]_vars

\* A session is refused only if another one changed the store since it began:
\* what it did itself, in any order, is never a conflict.
RefusedOnlyIfDisturbed ==
  [][\A s \in Session : Refuse(s) => ~undisturbed[s]]_vars
=============================================================================
