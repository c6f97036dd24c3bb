------------------------- MODULE SourceFeeds_proofs -------------------------
(***************************************************************************)
(* Proofs about the sources that must catch up: a local folder and a mounted *)
(* Drive folder, for any number of files, contents, pages, jobs and faults. *)
(***************************************************************************)
EXTENDS SourceFeeds, GitHubFeed_proofs

-----------------------------------------------------------------------------
(* The desktop: the watcher, its queue and the ledger.                     *)

Pending == {Nothing} \cup [kind : {"CREATE", "UPDATE", "DELETE"}, after : SUBSET Held]
QueueEvent ==
  {e \in [kind : Kind, path : DeskPath, content : Content \cup {Absent},
          previous : DeskPath] : e.kind = "MOVE" => e.previous # e.path}

\* The shapes of the watcher's state, and of what it owes the server.
DeskTyped ==
  /\ folder \in [DeskPath -> Content \cup {Absent}]
  /\ cache \in [DeskPath -> Content \cup {Absent}]
  /\ debounce \in [DeskPath -> Pending]
  /\ held \subseteq Held
  /\ heldBy \in [Content -> SUBSET Held]
  /\ queue \in Seq(QueueEvent) /\ Len(queue) <= QueueCapacity
  /\ LedgerOf(deskLedger, DeskPath)
  /\ open \in BOOLEAN

\* A content finds held DELETEs of that content only.
FoundIsHeld == \A c \in Content : heldBy[c] \subseteq {t \in held : t.content = c}

\* Nothing waits while the application is closed.
ClosedIsEmpty ==
  ~ open => held = {} /\ queue = <<>> /\ \A p \in DeskPath : debounce[p] = Nothing

\* The entry that waits for a path says whether the file is there.
EntryAgrees ==
  \A p \in DeskPath :
    debounce[p] # Nothing => (debounce[p].kind = "DELETE" <=> folder[p] = Absent)

\* A held DELETE is of a file that is gone, or of one whose entry waits for
\* the DELETE to be released first.
HeldIsGone ==
  \A t \in held :
    folder[t.path] # Absent => debounce[t.path] # Nothing
                               /\ t \in debounce[t.path].after

DeskBase == DeskTyped /\ FoundIsHeld /\ ClosedIsEmpty /\ EntryAgrees /\ HeldIsGone

\* What an event of the queue does to the name p: it brings the file there,
\* or takes it away.
Brings(e, p) == e.path = p /\ e.kind # "DELETE"
Takes(e, p) == \/ e.path = p /\ e.kind = "DELETE"
               \/ e.previous = p /\ e.kind = "MOVE"

\* With the queue q reported, the name p that is present now will be there ...
EndsPresent(q, present, p) ==
  \/ present /\ \A i \in DOMAIN q : ~ Takes(q[i], p)
  \/ \E i \in DOMAIN q : /\ Brings(q[i], p)
                         /\ \A k \in DOMAIN q : k > i => ~ Takes(q[k], p)

Present(p) == deskLedger.artifact[p] = "AVAILABLE"

\* ... as every file of the folder will that no entry waits for ...
FilesArrive ==
  \A p \in DeskPath :
    open /\ debounce[p] = Nothing /\ folder[p] # Absent
      => EndsPresent(queue, Present(p), p)

\* ... and a file that is gone, with no entry waiting for it, is to be taken
\* away or is not there.
GoneLeave ==
  \A p \in DeskPath :
    debounce[p] = Nothing /\ folder[p] = Absent
      => \/ \E t \in held : t.path = p
         \/ \E i \in DOMAIN queue : Takes(queue[i], p)
         \/ ~ Present(p)

DeskInv == DeskBase /\ (~ gap /\ ~ returned => FilesArrive /\ GoneLeave)

\* An event at the end of the queue.
LEMMA AppendedPresent ==
  ASSUME NEW q \in Seq(QueueEvent), NEW e \in QueueEvent, NEW p, NEW present
  PROVE  /\ Brings(e, p) => EndsPresent(Append(q, e), present, p)
         /\ EndsPresent(q, present, p) /\ ~ Takes(e, p)
              => EndsPresent(Append(q, e), present, p)
         /\ (\E i \in DOMAIN q : Takes(q[i], p)) \/ Takes(e, p)
              => \E i \in DOMAIN Append(q, e) : Takes(Append(q, e)[i], p)
<1> DEFINE r == Append(q, e)
           n == Len(q)
<1>1. /\ n \in Nat /\ DOMAIN q = 1..n /\ DOMAIN r = 1..(n + 1)
      /\ \A i \in 1..n : r[i] = q[i]
      /\ r[n + 1] = e
  BY AppendFacts
<1> HIDE DEF r, n
<1>2. Brings(e, p) => EndsPresent(r, present, p)
  BY <1>1 DEF EndsPresent
<1>3. ASSUME EndsPresent(q, present, p), ~ Takes(e, p)
      PROVE  EndsPresent(r, present, p)
  <2>1. CASE present /\ \A i \in DOMAIN q : ~ Takes(q[i], p)
    BY <1>1, <1>3, <2>1 DEF EndsPresent
  <2>2. CASE \E i \in DOMAIN q : /\ Brings(q[i], p)
                                 /\ \A k \in DOMAIN q : k > i => ~ Takes(q[k], p)
    BY <1>1, <1>3, <2>2 DEF EndsPresent
  <2> QED
    BY <1>3, <2>1, <2>2 DEF EndsPresent
<1>4. (\E i \in DOMAIN q : Takes(q[i], p)) \/ Takes(e, p)
         => \E i \in DOMAIN r : Takes(r[i], p)
  BY <1>1
<1> QED
  BY <1>2, <1>3, <1>4 DEF r

\* The event at the head of the queue has been reported, or passed over: the
\* name p is present afterwards if the event brings it, and stays as it was if
\* the event does not concern it.
LEMMA ShiftedPresent ==
  ASSUME NEW q \in Seq(QueueEvent), q # <<>>, NEW p, NEW present, NEW after,
         Brings(Head(q), p) => after,
         ~ Brings(Head(q), p) /\ ~ Takes(Head(q), p) /\ present => after
  PROVE  /\ EndsPresent(q, present, p) => EndsPresent(Tail(q), after, p)
         /\ EndsPresent(q, present, p) => EndsPresent(q, after, p)
         /\ (\E i \in DOMAIN q : Takes(q[i], p))
              => Takes(Head(q), p) \/ \E i \in DOMAIN Tail(q) : Takes(Tail(q)[i], p)
<1> DEFINE r == Tail(q)
           n == Len(q)
<1>1. /\ n \in Nat \ {0} /\ DOMAIN q = 1..n /\ DOMAIN r = 1..(n - 1)
      /\ \A i \in 1..(n - 1) : r[i] = q[i + 1]
      /\ Head(q) = q[1]
  BY TailFacts
<1> HIDE DEF r, n
<1>2. ASSUME present, \A i \in DOMAIN q : ~ Takes(q[i], p)
      PROVE  EndsPresent(r, after, p) /\ EndsPresent(q, after, p)
  <2>1. after
    BY <1>1, <1>2
  <2> QED
    BY <1>1, <1>2, <2>1 DEF EndsPresent
<1>3. ASSUME NEW i \in DOMAIN q, Brings(q[i], p),
             \A k \in DOMAIN q : k > i => ~ Takes(q[k], p)
      PROVE  EndsPresent(r, after, p) /\ EndsPresent(q, after, p)
  <2>1. CASE i = 1
    BY <1>1, <1>3, <2>1 DEF EndsPresent
  <2>2. CASE i # 1
    <3>1. i - 1 \in 1..(n - 1) /\ r[i - 1] = q[i]
      BY <1>1, <2>2
    <3>2. \A k \in 1..(n - 1) : k > i - 1 => ~ Takes(r[k], p)
      BY <1>1, <1>3
    <3> QED
      BY <1>1, <1>3, <3>1, <3>2 DEF EndsPresent
  <2> QED
    BY <2>1, <2>2
<1>4. ASSUME NEW i \in DOMAIN q, Takes(q[i], p)
      PROVE  Takes(Head(q), p) \/ \E k \in DOMAIN r : Takes(r[k], p)
  <2>1. CASE i = 1
    BY <1>1, <1>4, <2>1
  <2>2. CASE i # 1
    <3>1. i - 1 \in 1..(n - 1) /\ r[i - 1] = q[i]
      BY <1>1, <2>2
    <3> QED
      BY <1>1, <1>4, <3>1
  <2> QED
    BY <2>1, <2>2
<1>5. EndsPresent(q, present, p) => EndsPresent(r, after, p) /\ EndsPresent(q, after, p)
  BY <1>2, <1>3 DEF EndsPresent
<1> QED
  BY <1>4, <1>5 DEF r

\* What taking in an event does to the name p.
LEMMA TakenIn ==
  ASSUME NEW ledger, LedgerOf(ledger, DeskPath), NEW e \in QueueEvent,
         NEW p \in DeskPath
  PROVE  /\ Brings(e, p) => ArtifactsAfter(ledger, Received(e))[p] = "AVAILABLE"
         /\ Takes(e, p) => ArtifactsAfter(ledger, Received(e))[p] # "AVAILABLE"
         /\ ~ Brings(e, p) /\ ~ Takes(e, p)
              => ArtifactsAfter(ledger, Received(e))[p] = ledger.artifact[p]
<1> DEFINE change == Received(e)
<1>1. /\ change.name = e.path /\ change.kind = e.kind /\ change.previous = e.previous
      /\ e.kind = "MOVE" => e.previous # e.path
  BY DEF Received, Change, QueueEvent
<1> HIDE DEF change
<1>2. /\ p = change.name =>
           ArtifactsAfter(ledger, change)[p] =
             IF change.kind = "DELETE" THEN "DELETED" ELSE "AVAILABLE"
      /\ p # change.name /\ change.kind = "MOVE" /\ p = change.previous =>
           ArtifactsAfter(ledger, change)[p] = "NONE"
      /\ p # change.name /\ ~(change.kind = "MOVE" /\ p = change.previous) =>
           ArtifactsAfter(ledger, change)[p] = ledger.artifact[p]
  BY ArtifactsAfterFacts
<1>3. Brings(e, p) => ArtifactsAfter(ledger, change)[p] = "AVAILABLE"
  BY <1>1, <1>2 DEF Brings
<1>4. Takes(e, p) => ArtifactsAfter(ledger, change)[p] # "AVAILABLE"
  BY <1>1, <1>2 DEF Takes
<1>5. ~ Brings(e, p) /\ ~ Takes(e, p)
        => ArtifactsAfter(ledger, change)[p] = ledger.artifact[p]
  BY <1>1, <1>2 DEF Brings, Takes
<1> QED
  BY <1>3, <1>4, <1>5 DEF change

\* A scheduled entry is an entry.
LEMMA EntryIsNotNothing ==
  ASSUME NEW kind \in {"CREATE", "UPDATE", "DELETE"}, NEW after \in SUBSET Held
  PROVE  /\ [kind |-> kind, after |-> after] \in Pending
         /\ [kind |-> kind, after |-> after] # Nothing
         /\ [kind |-> kind, after |-> after].kind = kind
         /\ [kind |-> kind, after |-> after].after = after
  BY DEF Pending, Nothing

\* The folder changes, and each changed path gets the entry that says so.
LEMMA DeskEdit ==
  ASSUME DeskInv, NEW files \in [DeskPath -> Content \cup {Absent}], NEW entries,
         DOMAIN entries \subseteq DeskPath,
         \A p \in DOMAIN entries : /\ entries[p] \in {"CREATE", "UPDATE", "DELETE"}
                                   /\ entries[p] = "DELETE" <=> files[p] = Absent,
         \A p \in DeskPath \ DOMAIN entries : files[p] = folder[p],
         Edit(files, entries)
  PROVE  DeskInv'
<1>1. /\ folder' = files
      /\ debounce' = IF open THEN Scheduled(entries) ELSE debounce
      /\ gap' = (gap \/ ~ open)
      /\ UNCHANGED <<open, cache, held, heldBy, queue, deskLedger, returned>>
  BY DEF Edit
<1>2. CASE ~ open
  <2>1. /\ held' = {} /\ gap' /\ debounce' = debounce
        /\ \A p \in DeskPath : debounce[p] = Nothing
    BY <1>1, <1>2 DEF DeskInv, DeskBase, ClosedIsEmpty
  <2>2. DeskTyped' /\ FoundIsHeld' /\ ClosedIsEmpty'
    BY <1>1, <2>1 DEF DeskInv, DeskBase, DeskTyped, FoundIsHeld, ClosedIsEmpty
  <2>3. EntryAgrees' /\ HeldIsGone'
    BY <2>1 DEF EntryAgrees, HeldIsGone
  <2> QED
    BY <2>1, <2>2, <2>3 DEF DeskInv, DeskBase
<1>3. CASE open
  <2>1. ASSUME NEW p \in DeskPath
        PROVE  /\ p \in DOMAIN entries =>
                    debounce'[p] = [kind |-> entries[p], after |-> held]
               /\ p \notin DOMAIN entries =>
                    debounce'[p] = debounce[p] /\ folder'[p] = folder[p]
               /\ p \in DOMAIN entries =>
                    debounce'[p] # Nothing /\ debounce'[p] \in Pending
                    /\ debounce'[p].kind = entries[p] /\ debounce'[p].after = held
    <3>1. held \in SUBSET Held
      BY DEF DeskInv, DeskBase, DeskTyped
    <3> QED
      BY <1>1, <1>3, <3>1, EntryIsNotNothing DEF Scheduled
  <2>2. DeskTyped'
    <3>1. debounce' \in [DeskPath -> Pending]
      BY <1>1, <1>3, <2>1 DEF Scheduled, DeskInv, DeskBase, DeskTyped
    <3> QED
      BY <1>1, <3>1 DEF DeskInv, DeskBase, DeskTyped
  <2>3. FoundIsHeld' /\ ClosedIsEmpty'
    BY <1>1, <1>3 DEF DeskInv, DeskBase, FoundIsHeld, ClosedIsEmpty
  <2>4. EntryAgrees'
    <3> SUFFICES ASSUME NEW p \in DeskPath, debounce'[p] # Nothing
                 PROVE  debounce'[p].kind = "DELETE" <=> folder'[p] = Absent
      BY DEF EntryAgrees
    <3>1. CASE p \in DOMAIN entries
      BY <1>1, <2>1, <3>1
    <3>2. CASE p \notin DOMAIN entries
      BY <2>1, <3>2 DEF DeskInv, DeskBase, EntryAgrees
    <3> QED
      BY <3>1, <3>2
  <2>5. HeldIsGone'
    <3> SUFFICES ASSUME NEW t \in held, folder'[t.path] # Absent
                 PROVE  debounce'[t.path] # Nothing /\ t \in debounce'[t.path].after
      BY <1>1 DEF HeldIsGone
    <3>0. t.path \in DeskPath
      BY DEF DeskInv, DeskBase, DeskTyped, Held
    <3>1. CASE t.path \in DOMAIN entries
      BY <2>1, <3>0, <3>1
    <3>2. CASE t.path \notin DOMAIN entries
      BY <2>1, <3>0, <3>2 DEF DeskInv, DeskBase, HeldIsGone
    <3> QED
      BY <3>1, <3>2
  <2>6. ~ gap' /\ ~ returned' => FilesArrive' /\ GoneLeave'
    <3> SUFFICES ASSUME ~ gap, ~ returned PROVE FilesArrive' /\ GoneLeave'
      BY <1>1
    <3>1. FilesArrive /\ GoneLeave
      BY DEF DeskInv
    <3>2. \A p \in DeskPath : debounce'[p] = Nothing => p \notin DOMAIN entries
      BY <2>1
    <3>3. FilesArrive'
      BY <1>1, <2>1, <3>1, <3>2 DEF FilesArrive, Present
    <3>4. GoneLeave'
      BY <1>1, <2>1, <3>1, <3>2 DEF GoneLeave, Present
    <3> QED
      BY <3>3, <3>4
  <2> QED
    BY <2>2, <2>3, <2>4, <2>5, <2>6 DEF DeskInv, DeskBase
<1> QED
  BY <1>2, <1>3

LEMMA DeskEdits ==
  ASSUME DeskInv, NEW p \in DeskPath
  PROVE  /\ \A c \in Content : Write(p, c) => DeskInv'
         /\ Unlink(p) => DeskInv'
         /\ \A q \in DeskPath : Rename(p, q) => DeskInv'
<1>0. folder \in [DeskPath -> Content \cup {Absent}] /\ Absent \notin Content
  BY ContentAssumption DEF DeskInv, DeskBase, DeskTyped
<1>1. ASSUME NEW c \in Content, Write(p, c) PROVE DeskInv'
  <2> DEFINE files == [folder EXCEPT ![p] = c]
             entries == [q \in {p} |-> IF folder[p] = Absent THEN "CREATE" ELSE "UPDATE"]
  <2>1. /\ files \in [DeskPath -> Content \cup {Absent}]
        /\ DOMAIN entries \subseteq DeskPath
        /\ \A q \in DOMAIN entries : /\ entries[q] \in {"CREATE", "UPDATE", "DELETE"}
                                     /\ entries[q] = "DELETE" <=> files[q] = Absent
        /\ \A q \in DeskPath \ DOMAIN entries : files[q] = folder[q]
    BY <1>0
  <2>2. Edit(files, entries)
    BY <1>1 DEF Write
  <2> HIDE DEF files, entries
  <2> QED
    BY <2>1, <2>2, DeskEdit
<1>2. ASSUME Unlink(p) PROVE DeskInv'
  <2> DEFINE files == [folder EXCEPT ![p] = Absent]
             entries == [q \in {p} |-> "DELETE"]
  <2>1. /\ files \in [DeskPath -> Content \cup {Absent}]
        /\ DOMAIN entries \subseteq DeskPath
        /\ \A q \in DOMAIN entries : /\ entries[q] \in {"CREATE", "UPDATE", "DELETE"}
                                     /\ entries[q] = "DELETE" <=> files[q] = Absent
        /\ \A q \in DeskPath \ DOMAIN entries : files[q] = folder[q]
    BY <1>0
  <2>2. Edit(files, entries)
    BY <1>2 DEF Unlink
  <2> HIDE DEF files, entries
  <2> QED
    BY <2>1, <2>2, DeskEdit
<1>3. ASSUME NEW q \in DeskPath, Rename(p, q) PROVE DeskInv'
  <2> DEFINE files == [folder EXCEPT ![p] = Absent, ![q] = folder[p]]
             entries == [r \in {p, q} |-> IF r = p THEN "DELETE" ELSE "CREATE"]
  <2>0. folder[p] # Absent /\ folder[q] = Absent /\ p # q
    BY <1>3 DEF Rename
  <2>1. /\ files \in [DeskPath -> Content \cup {Absent}]
        /\ DOMAIN entries \subseteq DeskPath
        /\ \A r \in DOMAIN entries : /\ entries[r] \in {"CREATE", "UPDATE", "DELETE"}
                                     /\ entries[r] = "DELETE" <=> files[r] = Absent
        /\ \A r \in DeskPath \ DOMAIN entries : files[r] = folder[r]
    BY <1>0, <2>0
  <2>2. Edit(files, entries)
    BY <1>3 DEF Rename
  <2> HIDE DEF files, entries
  <2> QED
    BY <2>1, <2>2, DeskEdit
<1> QED
  BY <1>1, <1>2, <1>3

\* The application is opened.
LEMMA DeskOpen ==
  ASSUME DeskInv, Open
  PROVE  DeskInv'
<1> DEFINE there == {q \in DeskPath : folder[q] # Absent}
<1>1. /\ ~ open /\ open' = TRUE
      /\ debounce' = Scheduled([p \in there |-> "CREATE"])
      /\ UNCHANGED <<folder, cache, held, heldBy, queue, deskLedger, gap, returned>>
  BY DEF Open
<1>2. held = {} /\ queue = <<>> /\ \A p \in DeskPath : debounce[p] = Nothing
  BY <1>1 DEF DeskInv, DeskBase, ClosedIsEmpty
<1>3. ASSUME NEW p \in DeskPath
      PROVE  IF folder[p] # Absent
             THEN /\ debounce'[p] \in Pending /\ debounce'[p] # Nothing
                  /\ debounce'[p].kind = "CREATE"
             ELSE debounce'[p] = Nothing
  <2>1. debounce'[p] = IF p \in there THEN [kind |-> "CREATE", after |-> {}] ELSE Nothing
    BY <1>1, <1>2 DEF Scheduled
  <2> QED
    BY <2>1, EntryIsNotNothing
<1>4. DeskTyped'
  <2>1. debounce' \in [DeskPath -> Pending]
    BY <1>1, <1>3 DEF Scheduled, Pending
  <2> QED
    BY <1>1, <2>1 DEF DeskInv, DeskBase, DeskTyped
<1>5. FoundIsHeld' /\ ClosedIsEmpty' /\ HeldIsGone'
  BY <1>1, <1>2 DEF DeskInv, DeskBase, FoundIsHeld, ClosedIsEmpty, HeldIsGone
<1>6. EntryAgrees'
  BY <1>1, <1>3 DEF EntryAgrees
<1>7. FilesArrive'
  BY <1>1, <1>3 DEF FilesArrive
<1>8. ~ gap' /\ ~ returned' => GoneLeave'
  BY <1>1, <1>2 DEF DeskInv, GoneLeave, Present
<1> QED
  BY <1>4, <1>5, <1>6, <1>7, <1>8 DEF DeskInv, DeskBase

\* The application ends.
LEMMA DeskQuit ==
  ASSUME DeskInv, Quit
  PROVE  DeskInv'
<1>1. /\ gap' = (gap \/ held # {} \/ queue # <<>>
                     \/ \E p \in DeskPath : debounce[p] # Nothing)
      /\ open' = FALSE
      /\ debounce' = [p \in DeskPath |-> Nothing]
      /\ cache' = [p \in DeskPath |-> Absent]
      /\ held' = {} /\ heldBy' = [c \in Content |-> {}]
      /\ queue' = <<>>
      /\ UNCHANGED <<folder, deskLedger, returned>>
  BY DEF Quit
<1>2. DeskTyped'
  <2>1. debounce' \in [DeskPath -> Pending]
    BY <1>1 DEF Pending
  <2>2. heldBy' \in [Content -> SUBSET Held] /\ held' \subseteq Held
    BY <1>1
  <2>3. queue' \in Seq(QueueEvent) /\ Len(queue') <= QueueCapacity
    BY <1>1, CapacityAssumption
  <2>4. LedgerOf(deskLedger', DeskPath) /\ folder' \in [DeskPath -> Content \cup {Absent}]
    BY <1>1 DEF DeskInv, DeskBase, DeskTyped
  <2> QED
    BY <1>1, <2>1, <2>2, <2>3, <2>4 DEF DeskTyped
<1>3. FoundIsHeld' /\ ClosedIsEmpty' /\ HeldIsGone' /\ EntryAgrees'
  BY <1>1 DEF FoundIsHeld, ClosedIsEmpty, HeldIsGone, EntryAgrees
<1>4. FilesArrive'
  BY <1>1 DEF FilesArrive
<1>5. ~ gap' /\ ~ returned' => GoneLeave'
  BY <1>1 DEF DeskInv, GoneLeave, Present
<1> QED
  BY <1>2, <1>3, <1>4, <1>5 DEF DeskInv, DeskBase

\* An event joins the queue, or is lost.
LEMMA DeskEnqueue ==
  ASSUME DeskInv, NEW e \in QueueEvent, Enqueue(e)
  PROVE  /\ queue' \in Seq(QueueEvent) /\ Len(queue') <= QueueCapacity
         /\ gap => gap'
         /\ ~ gap' => ~ gap /\ queue' = Append(queue, e)
<1>1. /\ queue \in Seq(QueueEvent) /\ Len(queue) <= QueueCapacity /\ Len(queue) \in Nat
      /\ QueueCapacity \in Nat
  BY CapacityAssumption DEF DeskInv, DeskBase, DeskTyped
<1>2. CASE Len(queue) < QueueCapacity
  <2>1. queue' = Append(queue, e) /\ gap' = gap
    BY <1>2 DEF Enqueue
  <2>2. Append(queue, e) \in Seq(QueueEvent) /\ Len(Append(queue, e)) = Len(queue) + 1
    BY <1>1, AppendFacts
  <2> QED
    BY <1>1, <1>2, <2>1, <2>2
<1>3. CASE ~ (Len(queue) < QueueCapacity)
  BY <1>1, <1>3 DEF Enqueue
<1> QED
  BY <1>2, <1>3

\* A DELETE is held back, or dropped.
LEMMA DeskFlushDelete ==
  ASSUME DeskInv, NEW p \in DeskPath, FlushDelete(p)
  PROVE  DeskInv'
<1>1. /\ debounce[p] # Nothing /\ debounce[p].kind = "DELETE"
      /\ debounce' = [debounce EXCEPT ![p] = Nothing]
      /\ cache' = [cache EXCEPT ![p] = Absent]
      /\ UNCHANGED <<folder, open, queue, deskLedger, returned>>
  BY DEF FlushDelete, Ripe, Taken
<1>2. /\ DeskTyped /\ FoundIsHeld /\ ClosedIsEmpty /\ EntryAgrees /\ HeldIsGone
  BY DEF DeskInv, DeskBase
<1>3. /\ debounce' \in [DeskPath -> Pending] /\ debounce'[p] = Nothing
      /\ \A q \in DeskPath \ {p} : debounce'[q] = debounce[q]
  BY <1>1, <1>2 DEF DeskTyped, Pending
<1>4. open /\ open' /\ folder[p] = Absent /\ folder'[p] = Absent
  BY <1>1, <1>2 DEF ClosedIsEmpty, EntryAgrees
<1>5. ClosedIsEmpty' /\ EntryAgrees'
  BY <1>1, <1>2, <1>3, <1>4 DEF ClosedIsEmpty, EntryAgrees
<1>6. CASE cache[p] = Absent
  <2>1. /\ gap' = (gap \/ deskLedger.artifact[p] = "AVAILABLE")
        /\ UNCHANGED <<held, heldBy>>
    BY <1>6 DEF FlushDelete
  <2>2. DeskTyped' /\ FoundIsHeld'
    BY <1>1, <1>2, <1>3, <2>1 DEF DeskTyped, FoundIsHeld
  <2>3. HeldIsGone'
    <3> SUFFICES ASSUME NEW t \in held, folder[t.path] # Absent
                 PROVE  debounce'[t.path] # Nothing /\ t \in debounce'[t.path].after
      BY <1>1, <2>1 DEF HeldIsGone
    <3>1. t.path \in DeskPath \ {p}
      BY <1>2, <1>4 DEF DeskTyped, Held
    <3> QED
      BY <1>2, <1>3, <3>1 DEF HeldIsGone
  <2>4. ASSUME ~ gap', ~ returned' PROVE FilesArrive' /\ GoneLeave'
    <3>1. FilesArrive /\ GoneLeave /\ ~ Present(p)
      BY <1>1, <2>1, <2>4 DEF DeskInv, Present
    <3>2. FilesArrive'
      BY <1>1, <1>3, <1>4, <3>1 DEF FilesArrive, Present
    <3>3. GoneLeave'
      BY <1>1, <1>3, <2>1, <3>1 DEF GoneLeave, Present
    <3> QED
      BY <3>2, <3>3
  <2> QED
    BY <1>5, <2>2, <2>3, <2>4 DEF DeskInv, DeskBase
<1>7. CASE cache[p] # Absent
  <2> DEFINE timer == [path |-> p, content |-> cache[p]]
  <2>1. /\ held' = held \cup {timer}
        /\ heldBy' = [heldBy EXCEPT ![cache[p]] = {timer}]
        /\ UNCHANGED gap
    BY <1>7 DEF FlushDelete
  <2>2. cache[p] \in Content /\ timer \in Held /\ timer.path = p /\ timer.content = cache[p]
    BY <1>2, <1>7 DEF DeskTyped, Held
  <2> HIDE DEF timer
  <2>3. /\ heldBy' \in [Content -> SUBSET Held] /\ heldBy'[cache[p]] = {timer}
        /\ \A c \in Content \ {cache[p]} : heldBy'[c] = heldBy[c]
    BY <1>2, <2>1, <2>2 DEF DeskTyped
  <2>4. DeskTyped'
    <3>1. cache' \in [DeskPath -> Content \cup {Absent}]
      BY <1>1, <1>2 DEF DeskTyped
    <3> QED
      BY <1>1, <1>2, <1>3, <2>1, <2>2, <2>3, <3>1 DEF DeskTyped
  <2>5. FoundIsHeld'
    <3> SUFFICES ASSUME NEW c \in Content, NEW t \in heldBy'[c]
                 PROVE  t \in held' /\ t.content = c
      BY DEF FoundIsHeld
    <3> QED
      BY <1>2, <2>1, <2>2, <2>3 DEF FoundIsHeld
  <2>6. HeldIsGone'
    <3> SUFFICES ASSUME NEW t \in held', folder[t.path] # Absent
                 PROVE  debounce'[t.path] # Nothing /\ t \in debounce'[t.path].after
      BY <1>1 DEF HeldIsGone
    <3>1. t \in held /\ t.path \in DeskPath \ {p}
      BY <1>2, <1>4, <2>1, <2>2 DEF DeskTyped, Held
    <3> QED
      BY <1>2, <1>3, <3>1 DEF HeldIsGone
  <2>7. ASSUME ~ gap', ~ returned' PROVE FilesArrive' /\ GoneLeave'
    <3>1. FilesArrive /\ GoneLeave
      BY <1>1, <2>1, <2>7 DEF DeskInv
    <3>2. FilesArrive'
      BY <1>1, <1>3, <1>4, <3>1 DEF FilesArrive, Present
    <3>3. GoneLeave'
      <4> SUFFICES ASSUME NEW q \in DeskPath, debounce'[q] = Nothing, folder[q] = Absent
                   PROVE  \/ \E t \in held' : t.path = q
                          \/ \E i \in DOMAIN queue : Takes(queue[i], q)
                          \/ ~ Present(q)
        BY <1>1 DEF GoneLeave, Present
      <4>1. CASE q = p
        BY <2>1, <2>2, <4>1
      <4>2. CASE q # p
        BY <1>3, <2>1, <3>1, <4>2 DEF GoneLeave
      <4> QED
        BY <4>1, <4>2
    <3> QED
      BY <3>2, <3>3
  <2> QED
    BY <1>5, <2>4, <2>5, <2>6, <2>7 DEF DeskInv, DeskBase
<1> QED
  BY <1>6, <1>7

\* No held DELETE is of a path whose entry is ripe and whose file is there.
LEMMA RipeIsFree ==
  ASSUME DeskInv, NEW p \in DeskPath, Ripe(p), debounce[p].kind # "DELETE"
  PROVE  /\ folder[p] \in Content /\ open
         /\ \A t \in held : t.path # p
<1>1. /\ DeskTyped /\ ClosedIsEmpty /\ EntryAgrees /\ HeldIsGone
      /\ debounce[p] # Nothing /\ debounce[p].after \cap held = {}
  BY DEF DeskInv, DeskBase, Ripe
<1>2. folder[p] # Absent
  BY <1>1 DEF EntryAgrees
<1>3. folder[p] \in Content
  BY <1>1, <1>2 DEF DeskTyped
<1>4. open
  BY <1>1 DEF ClosedIsEmpty
<1>5. ASSUME NEW t \in held, t.path = p PROVE FALSE
  BY <1>1, <1>2, <1>5 DEF HeldIsGone
<1> QED
  BY <1>3, <1>4, <1>5

\* The entries of some paths and some held DELETEs become the event e.
Reports(e, entered, gone) ==
  /\ entered \in SUBSET DeskPath /\ gone \in SUBSET held
  /\ UNCHANGED <<folder, open, deskLedger, returned>>
  /\ held' = held \ gone
  /\ \A p \in entered : debounce'[p] = Nothing /\ folder[p] # Absent /\ Brings(e, p)
  /\ \A p \in DeskPath \ entered : debounce'[p] = debounce[p]
  /\ \A t \in gone : Takes(e, t.path)
  /\ \A p \in DeskPath : Takes(e, p) => \E t \in gone : t.path = p

\* What a flush of a file that is there, or the release of a DELETE, does to
\* the paths: e joins the queue, gone leaves the held DELETEs, and no name but
\* that of gone is taken away.
LEMMA DeskQueued ==
  ASSUME DeskInv, ~ gap', ~ returned', NEW e \in QueueEvent, Enqueue(e),
         NEW entered, NEW gone, Reports(e, entered, gone)
  PROVE  FilesArrive' /\ GoneLeave'
<1> USE DEF Reports
<1>1. /\ queue \in Seq(QueueEvent) /\ HeldIsGone
      /\ ~ gap /\ ~ returned /\ queue' = Append(queue, e)
  BY DeskEnqueue DEF DeskInv, DeskBase, DeskTyped
<1>2. FilesArrive /\ GoneLeave
  BY <1>1 DEF DeskInv
<1>3. ASSUME NEW p, NEW present
      PROVE  /\ Brings(e, p) => EndsPresent(queue', present, p)
             /\ EndsPresent(queue, present, p) /\ ~ Takes(e, p)
                  => EndsPresent(queue', present, p)
             /\ (\E i \in DOMAIN queue : Takes(queue[i], p)) \/ Takes(e, p)
                  => \E i \in DOMAIN queue' : Takes(queue'[i], p)
  BY <1>1, AppendedPresent
<1>4. FilesArrive'
  <2> SUFFICES ASSUME NEW p \in DeskPath, open, debounce'[p] = Nothing, folder[p] # Absent
               PROVE  EndsPresent(queue', Present(p), p)
    BY DEF FilesArrive, Present
  <2>1. CASE p \in entered
    BY <1>3, <2>1
  <2>2. CASE p \notin entered
    <3>1. debounce[p] = Nothing
      BY <2>2
    <3>2. ~ Takes(e, p)
      BY <1>1, <3>1 DEF HeldIsGone
    <3>3. EndsPresent(queue, Present(p), p)
      BY <1>2, <3>1 DEF FilesArrive
    <3> QED
      BY <1>3, <3>2, <3>3
  <2> QED
    BY <2>1, <2>2
<1>5. GoneLeave'
  <2> SUFFICES ASSUME NEW p \in DeskPath, debounce'[p] = Nothing, folder[p] = Absent
               PROVE  \/ \E t \in held' : t.path = p
                      \/ \E i \in DOMAIN queue' : Takes(queue'[i], p)
                      \/ ~ Present(p)
    BY DEF GoneLeave, Present
  <2>1. debounce[p] = Nothing
    OBVIOUS
  <2>2. CASE \E t \in held : t.path = p
    <3>1. PICK t \in held : t.path = p
      BY <2>2
    <3> QED
      BY <1>3, <3>1
  <2>3. CASE ~ \E t \in held : t.path = p
    BY <1>2, <1>3, <2>1, <2>3 DEF GoneLeave
  <2> QED
    BY <2>2, <2>3
<1> QED
  BY <1>4, <1>5

\* A DELETE that is held back no more leaves the shapes as they are, and what
\* a content finds.
LEMMA DeskUnheld ==
  ASSUME DeskInv, NEW timer \in held, NEW c \in Content, timer.content = c,
         held' = held \ {timer}, heldBy' = [heldBy EXCEPT ![c] = {}]
  PROVE  /\ heldBy' \in [Content -> SUBSET Held] /\ held' \subseteq Held
         /\ FoundIsHeld'
<1>1. DeskTyped /\ FoundIsHeld
  BY DEF DeskInv, DeskBase
<1>2. /\ heldBy' \in [Content -> SUBSET Held] /\ heldBy'[c] = {}
      /\ \A d \in Content \ {c} : heldBy'[d] = heldBy[d]
  BY <1>1 DEF DeskTyped
<1>3. FoundIsHeld'
  <2> SUFFICES ASSUME NEW d \in Content, NEW t \in heldBy'[d]
               PROVE  t \in held' /\ t.content = d
    BY DEF FoundIsHeld
  <2>1. d # c /\ t \in held /\ t.content = d
    BY <1>1, <1>2 DEF FoundIsHeld
  <2> QED
    BY <2>1
<1> QED
  BY <1>1, <1>2, <1>3 DEF DeskTyped

\* A new file turns out to be one that left another path.
LEMMA DeskFlushMove ==
  ASSUME DeskInv, NEW p \in DeskPath, FlushMove(p)
  PROVE  DeskInv'
<1>1. PICK timer \in Held :
        /\ Ripe(p) /\ debounce[p].kind = "CREATE"
        /\ timer \in heldBy[folder[p]]
        /\ debounce' = [debounce EXCEPT ![p] = Nothing]
        /\ held' = held \ {timer}
        /\ heldBy' = [heldBy EXCEPT ![folder[p]] = {}]
        /\ cache' = [cache EXCEPT ![p] = folder[p]]
        /\ Enqueue(DeskEvent("MOVE", p, folder[p], timer.path))
        /\ UNCHANGED <<folder, open, deskLedger, returned>>
  BY DEF FlushMove, Taken
<1> DEFINE e == DeskEvent("MOVE", p, folder[p], timer.path)
<1>2. DeskTyped /\ FoundIsHeld /\ ClosedIsEmpty /\ EntryAgrees /\ HeldIsGone
  BY DEF DeskInv, DeskBase
<1>3. folder[p] \in Content /\ open /\ \A t \in held : t.path # p
  BY <1>1, RipeIsFree
<1>4. timer \in held /\ timer.content = folder[p] /\ timer.path \in DeskPath \ {p}
  BY <1>1, <1>2, <1>3 DEF FoundIsHeld, Held
<1>5. /\ e \in QueueEvent /\ e.path = p /\ e.kind = "MOVE" /\ e.previous = timer.path
  BY <1>2, <1>3, <1>4 DEF QueueEvent, DeskEvent, Kind, DeskTyped
<1>6. Enqueue(e)
  BY <1>1
<1> HIDE DEF e
<1>7. /\ debounce' \in [DeskPath -> Pending] /\ debounce'[p] = Nothing
      /\ \A q \in DeskPath \ {p} : debounce'[q] = debounce[q]
  BY <1>1, <1>2 DEF DeskTyped, Pending
<1>8. /\ heldBy' \in [Content -> SUBSET Held] /\ held' \subseteq Held /\ FoundIsHeld'
  BY <1>1, <1>3, <1>4, DeskUnheld
<1>9. DeskTyped'
  <2>1. cache' \in [DeskPath -> Content \cup {Absent}]
    BY <1>1, <1>2, <1>3 DEF DeskTyped
  <2>2. queue' \in Seq(QueueEvent) /\ Len(queue') <= QueueCapacity
    BY <1>5, <1>6, DeskEnqueue
  <2> QED
    BY <1>1, <1>2, <1>7, <1>8, <2>1, <2>2 DEF DeskTyped
<1>10. ClosedIsEmpty' /\ EntryAgrees'
  BY <1>1, <1>2, <1>3, <1>7 DEF ClosedIsEmpty, EntryAgrees
<1>11. HeldIsGone'
  <2> SUFFICES ASSUME NEW t \in held', folder[t.path] # Absent
               PROVE  debounce'[t.path] # Nothing /\ t \in debounce'[t.path].after
    BY <1>1 DEF HeldIsGone
  <2>1. t \in held /\ t.path \in DeskPath \ {p}
    BY <1>1, <1>2, <1>3 DEF DeskTyped, Held
  <2> QED
    BY <1>2, <1>7, <2>1 DEF HeldIsGone
<1>12. ASSUME ~ gap', ~ returned' PROVE FilesArrive' /\ GoneLeave'
  <2>1. Brings(e, p) /\ Takes(e, timer.path)
    BY <1>5 DEF Brings, Takes
  <2>2. \A q \in DeskPath : Takes(e, q) => q = timer.path
    BY <1>5 DEF Takes
  <2>3. /\ {p} \in SUBSET DeskPath /\ {timer} \in SUBSET held
        /\ \A q \in {p} : debounce'[q] = Nothing /\ folder[q] # Absent /\ Brings(e, q)
        /\ \A q \in DeskPath \ {p} : debounce'[q] = debounce[q]
        /\ \A t \in {timer} : Takes(e, t.path)
        /\ \A q \in DeskPath : Takes(e, q) => \E t \in {timer} : t.path = q
    BY <1>3, <1>4, <1>7, <2>1, <2>2, ContentAssumption
  <2>4. Reports(e, {p}, {timer})
    BY <1>1, <2>3 DEF Reports
  <2> QED
    BY <1>5, <1>6, <1>12, <2>4, DeskQueued
<1> QED
  BY <1>8, <1>9, <1>10, <1>11, <1>12 DEF DeskInv, DeskBase

\* A new or changed file is reported.
LEMMA DeskFlushChange ==
  ASSUME DeskInv, NEW p \in DeskPath, FlushChange(p)
  PROVE  DeskInv'
<1> DEFINE e == DeskEvent(debounce[p].kind, p, folder[p], p)
<1>1. /\ Ripe(p) /\ debounce[p].kind # "DELETE"
      /\ debounce' = [debounce EXCEPT ![p] = Nothing]
      /\ cache' = [cache EXCEPT ![p] = folder[p]]
      /\ Enqueue(e)
      /\ UNCHANGED <<folder, open, held, heldBy, deskLedger, returned>>
  BY DEF FlushChange, Taken
<1>2. DeskTyped /\ FoundIsHeld /\ ClosedIsEmpty /\ EntryAgrees /\ HeldIsGone
  BY DEF DeskInv, DeskBase
<1>3. folder[p] \in Content /\ open /\ \A t \in held : t.path # p
  BY <1>1, RipeIsFree
<1>4. debounce[p].kind \in {"CREATE", "UPDATE"}
  BY <1>1, <1>2 DEF DeskTyped, Pending, Ripe
<1>5. /\ e \in QueueEvent /\ e.path = p /\ e.kind \in {"CREATE", "UPDATE"}
  BY <1>3, <1>4 DEF QueueEvent, DeskEvent, Kind
<1> HIDE DEF e
<1>7. /\ debounce' \in [DeskPath -> Pending] /\ debounce'[p] = Nothing
      /\ \A q \in DeskPath \ {p} : debounce'[q] = debounce[q]
  BY <1>1, <1>2 DEF DeskTyped, Pending
<1>9. DeskTyped'
  <2>1. cache' \in [DeskPath -> Content \cup {Absent}]
    BY <1>1, <1>2, <1>3 DEF DeskTyped
  <2>2. queue' \in Seq(QueueEvent) /\ Len(queue') <= QueueCapacity
    BY <1>1, <1>5, DeskEnqueue
  <2> QED
    BY <1>1, <1>2, <1>7, <2>1, <2>2 DEF DeskTyped
<1>10. ClosedIsEmpty' /\ EntryAgrees' /\ FoundIsHeld'
  BY <1>1, <1>2, <1>3, <1>7 DEF ClosedIsEmpty, EntryAgrees, FoundIsHeld
<1>11. HeldIsGone'
  <2> SUFFICES ASSUME NEW t \in held, folder[t.path] # Absent
               PROVE  debounce'[t.path] # Nothing /\ t \in debounce'[t.path].after
    BY <1>1 DEF HeldIsGone
  <2>1. t.path \in DeskPath \ {p}
    BY <1>2, <1>3 DEF DeskTyped, Held
  <2> QED
    BY <1>2, <1>7, <2>1 DEF HeldIsGone
<1>12. ASSUME ~ gap', ~ returned' PROVE FilesArrive' /\ GoneLeave'
  <2>1. Brings(e, p) /\ \A q \in DeskPath : ~ Takes(e, q)
    BY <1>5 DEF Brings, Takes
  <2>3. /\ {p} \in SUBSET DeskPath /\ {} \in SUBSET held /\ held' = held \ {}
        /\ \A q \in {p} : debounce'[q] = Nothing /\ folder[q] # Absent /\ Brings(e, q)
        /\ \A q \in DeskPath \ {p} : debounce'[q] = debounce[q]
        /\ \A t \in {} : Takes(e, t.path)
        /\ \A q \in DeskPath : Takes(e, q) => \E t \in {} : t.path = q
    BY <1>1, <1>3, <1>7, <2>1, ContentAssumption
  <2>4. Reports(e, {p}, {})
    BY <1>1, <2>3 DEF Reports
  <2> QED
    BY <1>1, <1>5, <1>12, <2>4, DeskQueued
<1> QED
  BY <1>9, <1>10, <1>11, <1>12 DEF DeskInv, DeskBase

\* A DELETE that was held back is reported.
LEMMA DeskRelease ==
  ASSUME DeskInv, NEW timer \in Held, ReleaseDelete(timer)
  PROVE  DeskInv'
<1> DEFINE e == DeskEvent("DELETE", timer.path, Absent, timer.path)
<1>1. /\ timer \in held
      /\ held' = held \ {timer}
      /\ heldBy' = [heldBy EXCEPT ![timer.content] = {}]
      /\ Enqueue(e)
      /\ UNCHANGED <<folder, open, debounce, cache, deskLedger, returned>>
  BY DEF ReleaseDelete
<1>2. DeskTyped /\ FoundIsHeld /\ ClosedIsEmpty /\ EntryAgrees /\ HeldIsGone
  BY DEF DeskInv, DeskBase
<1>3. open /\ timer.path \in DeskPath /\ timer.content \in Content
  BY <1>1, <1>2 DEF ClosedIsEmpty, Held
<1>5. /\ e \in QueueEvent /\ e.path = timer.path /\ e.kind = "DELETE"
  BY <1>3 DEF QueueEvent, DeskEvent, Kind
<1> HIDE DEF e
<1>8. /\ heldBy' \in [Content -> SUBSET Held] /\ held' \subseteq Held /\ FoundIsHeld'
  BY <1>1, <1>3, DeskUnheld
<1>9. DeskTyped'
  <2>2. queue' \in Seq(QueueEvent) /\ Len(queue') <= QueueCapacity
    BY <1>1, <1>5, DeskEnqueue
  <2> QED
    BY <1>1, <1>2, <1>8, <2>2 DEF DeskTyped
<1>10. ClosedIsEmpty' /\ EntryAgrees' /\ HeldIsGone'
  BY <1>1, <1>2, <1>3 DEF ClosedIsEmpty, EntryAgrees, HeldIsGone
<1>12. ASSUME ~ gap', ~ returned' PROVE FilesArrive' /\ GoneLeave'
  <2>1. \A q \in DeskPath : Takes(e, q) <=> q = timer.path
    BY <1>5 DEF Takes
  <2>3. /\ {} \in SUBSET DeskPath /\ {timer} \in SUBSET held
        /\ \A q \in {} : debounce'[q] = Nothing /\ folder[q] # Absent /\ Brings(e, q)
        /\ \A q \in DeskPath \ {} : debounce'[q] = debounce[q]
        /\ \A t \in {timer} : Takes(e, t.path)
        /\ \A q \in DeskPath : Takes(e, q) => \E t \in {timer} : t.path = q
    BY <1>1, <1>3, <2>1
  <2>4. Reports(e, {}, {timer})
    BY <1>1, <2>3 DEF Reports
  <2> QED
    BY <1>1, <1>5, <1>12, <2>4, DeskQueued
<1> QED
  BY <1>8, <1>9, <1>10, <1>12 DEF DeskInv, DeskBase

\* An event whose file is gone leaves the queue unreported.
LEMMA DeskSkip ==
  ASSUME DeskInv, Skip
  PROVE  DeskInv'
<1> DEFINE e == Head(queue)
<1>1. /\ queue # <<>> /\ e.kind # "DELETE" /\ folder[e.path] = Absent
      /\ queue' = Tail(queue)
      /\ gap' = (gap \/ e.kind = "MOVE")
      /\ UNCHANGED <<folder, open, debounce, cache, held, heldBy, deskLedger, returned>>
  BY DEF Skip, Unreadable
<1>2. DeskTyped /\ FoundIsHeld /\ ClosedIsEmpty /\ EntryAgrees /\ HeldIsGone
  BY DEF DeskInv, DeskBase
<1>3. /\ queue \in Seq(QueueEvent) /\ Tail(queue) \in Seq(QueueEvent)
      /\ Len(Tail(queue)) <= QueueCapacity
  <2>1. /\ queue \in Seq(QueueEvent) /\ Len(queue) <= QueueCapacity
    BY <1>2 DEF DeskTyped
  <2>2. /\ Tail(queue) \in Seq(QueueEvent) /\ Len(queue) \in Nat \ {0}
        /\ Len(Tail(queue)) = Len(queue) - 1
    BY <1>1, <2>1, TailFacts
  <2> QED
    BY <2>1, <2>2, CapacityAssumption
<1>4. DeskBase'
  <2>1. DeskTyped'
    BY <1>1, <1>2, <1>3 DEF DeskTyped
  <2>2. open
    BY <1>1, <1>2 DEF ClosedIsEmpty
  <2> QED
    BY <1>1, <1>2, <2>1, <2>2
    DEF DeskBase, FoundIsHeld, ClosedIsEmpty, EntryAgrees, HeldIsGone
<1>5. ASSUME ~ gap', ~ returned' PROVE FilesArrive' /\ GoneLeave'
  <2>1. ~ gap /\ ~ returned /\ e.kind # "MOVE" /\ FilesArrive /\ GoneLeave
    BY <1>1, <1>5 DEF DeskInv
  <2>2. \A p : ~ Takes(e, p)
    BY <1>1, <2>1 DEF Takes
  <2>3. FilesArrive'
    <3> SUFFICES ASSUME NEW p \in DeskPath, open, debounce[p] = Nothing, folder[p] # Absent
                 PROVE  EndsPresent(Tail(queue), Present(p), p)
      BY <1>1 DEF FilesArrive, Present
    <3>1. EndsPresent(queue, Present(p), p)
      BY <2>1 DEF FilesArrive
    <3>2. ~ Brings(e, p)
      BY <1>1 DEF Brings
    <3> QED
      BY <1>1, <1>3, <3>1, <3>2, ShiftedPresent
  <2>4. GoneLeave'
    <3> SUFFICES ASSUME NEW p \in DeskPath, debounce[p] = Nothing, folder[p] = Absent
                 PROVE  \/ \E t \in held : t.path = p
                        \/ \E i \in DOMAIN Tail(queue) : Takes(Tail(queue)[i], p)
                        \/ ~ Present(p)
      BY <1>1 DEF GoneLeave, Present
    <3>1. (\E i \in DOMAIN queue : Takes(queue[i], p))
            => \E i \in DOMAIN Tail(queue) : Takes(Tail(queue)[i], p)
      BY <1>1, <1>3, <2>2, ShiftedPresent
    <3> QED
      BY <2>1, <3>1 DEF GoneLeave
  <2> QED
    BY <2>3, <2>4
<1> QED
  BY <1>4, <1>5 DEF DeskInv

\* The server takes the event at the head of the queue; it may be reported
\* again if the answer is lost.
LEMMA DeskReport ==
  ASSUME DeskInv, NEW answered \in BOOLEAN, Report(answered)
  PROVE  DeskInv'
<1> DEFINE e == Head(queue)
           after == ArtifactsAfter(deskLedger, Received(e))
<1>1. /\ queue # <<>> /\ ~ (e.kind # "DELETE" /\ folder[e.path] = Absent)
      /\ deskLedger' = Registered(deskLedger, Received(e))
      /\ returned' = (returned \/ /\ OnRecord(deskLedger, Received(e).fingerprint)
                                  /\ after # deskLedger.artifact)
      /\ queue' = IF answered THEN Tail(queue) ELSE queue
      /\ UNCHANGED <<folder, open, debounce, cache, held, heldBy, gap>>
  BY DEF Report, Unreadable
<1>2. DeskTyped /\ FoundIsHeld /\ ClosedIsEmpty /\ EntryAgrees /\ HeldIsGone
  BY DEF DeskInv, DeskBase
<1>3. /\ queue \in Seq(QueueEvent) /\ e \in QueueEvent
      /\ queue' \in Seq(QueueEvent) /\ Len(queue') <= QueueCapacity
  <2>1. /\ queue \in Seq(QueueEvent) /\ Len(queue) <= QueueCapacity
    BY <1>2 DEF DeskTyped
  <2>2. /\ Tail(queue) \in Seq(QueueEvent) /\ Len(queue) \in Nat \ {0}
        /\ Len(Tail(queue)) = Len(queue) - 1 /\ e \in QueueEvent
    BY <1>1, <2>1, TailFacts
  <2> HIDE DEF e
  <2> QED
    BY <1>1, <2>1, <2>2, CapacityAssumption
<1>4. LedgerOf(deskLedger, DeskPath) /\ LedgerOf(deskLedger', DeskPath)
  <2>1. LedgerOf(deskLedger, DeskPath)
    BY <1>2 DEF DeskTyped
  <2> HIDE DEF e
  <2> QED
    BY <1>1, <2>1, RegisteredTyped
<1> HIDE DEF e, after
<1>5. DeskBase'
  <2>1. DeskTyped'
    BY <1>1, <1>2, <1>3, <1>4 DEF DeskTyped
  <2>2. open
    BY <1>1, <1>2 DEF ClosedIsEmpty
  <2> QED
    BY <1>1, <1>2, <2>1, <2>2
    DEF DeskBase, FoundIsHeld, ClosedIsEmpty, EntryAgrees, HeldIsGone
<1>6. ASSUME ~ gap', ~ returned' PROVE FilesArrive' /\ GoneLeave'
  <2>1. ~ gap /\ ~ returned /\ FilesArrive /\ GoneLeave
    BY <1>1, <1>6 DEF DeskInv
  <2>2. deskLedger'.artifact = after
    BY <1>1, <1>6 DEF Registered, after
  <2>3. ASSUME NEW p \in DeskPath
        PROVE  /\ Brings(e, p) => Present(p)'
               /\ Takes(e, p) => ~ Present(p)'
               /\ ~ Brings(e, p) /\ ~ Takes(e, p) => (Present(p)' <=> Present(p))
    BY <1>3, <1>4, <2>2, TakenIn DEF Present, after
  <2>4. ASSUME NEW p \in DeskPath
        PROVE  /\ EndsPresent(queue, Present(p), p) => EndsPresent(queue', Present(p)', p)
               /\ (\E i \in DOMAIN queue : Takes(queue[i], p))
                    => Takes(e, p) \/ \E i \in DOMAIN queue' : Takes(queue'[i], p)
    <3>1. /\ EndsPresent(queue, Present(p), p) => EndsPresent(Tail(queue), Present(p)', p)
          /\ EndsPresent(queue, Present(p), p) => EndsPresent(queue, Present(p)', p)
          /\ (\E i \in DOMAIN queue : Takes(queue[i], p))
               => Takes(e, p) \/ \E i \in DOMAIN Tail(queue) : Takes(Tail(queue)[i], p)
      BY <1>1, <1>3, <2>3, ShiftedPresent DEF e
    <3> QED
      BY <1>1, <3>1
  <2>5. FilesArrive'
    <3> SUFFICES ASSUME NEW p \in DeskPath, open, debounce[p] = Nothing, folder[p] # Absent
                 PROVE  EndsPresent(queue', Present(p)', p)
      BY <1>1 DEF FilesArrive
    <3> QED
      BY <2>1, <2>4 DEF FilesArrive
  <2>6. GoneLeave'
    <3> SUFFICES ASSUME NEW p \in DeskPath, debounce[p] = Nothing, folder[p] = Absent,
                        ~ (\E t \in held : t.path = p),
                        ~ (\E i \in DOMAIN queue' : Takes(queue'[i], p))
                 PROVE  ~ Present(p)'
      BY <1>1 DEF GoneLeave
    <3>1. ~ Brings(e, p)
      BY <1>1 DEF Brings
    <3>2. CASE \E i \in DOMAIN queue : Takes(queue[i], p)
      BY <2>3, <2>4, <3>2
    <3>3. CASE ~ \E i \in DOMAIN queue : Takes(queue[i], p)
      BY <2>1, <2>3, <3>1, <3>3 DEF GoneLeave
    <3> QED
      BY <3>2, <3>3
  <2> QED
    BY <2>5, <2>6
<1> QED
  BY <1>5, <1>6 DEF DeskInv

LEMMA DeskInitially ==
  DeskInit => DeskInv
<1> SUFFICES ASSUME DeskInit PROVE DeskInv
  OBVIOUS
<1>1. DeskTyped
  <2>1. folder \in [DeskPath -> Content \cup {Absent}]
        /\ cache \in [DeskPath -> Content \cup {Absent}]
        /\ debounce \in [DeskPath -> Pending] /\ open \in BOOLEAN
        /\ held \subseteq Held /\ heldBy \in [Content -> SUBSET Held]
    BY DEF DeskInit, Pending
  <2>2. LedgerOf(deskLedger, DeskPath)
    BY EmptyLedgerTyped DEF DeskInit
  <2>3. queue \in Seq(QueueEvent) /\ Len(queue) <= QueueCapacity
    BY CapacityAssumption DEF DeskInit
  <2> QED
    BY <2>1, <2>2, <2>3 DEF DeskTyped
<1>2. FoundIsHeld /\ ClosedIsEmpty /\ EntryAgrees /\ HeldIsGone /\ FilesArrive
  BY DEF DeskInit, FoundIsHeld, ClosedIsEmpty, EntryAgrees, HeldIsGone, FilesArrive
<1>3. GoneLeave
  BY DEF DeskInit, GoneLeave, Present, EmptyLedger
<1> QED
  BY <1>1, <1>2, <1>3 DEF DeskInv, DeskBase

LEMMA DeskPreserved ==
  DeskInv /\ [DeskStep]_deskVars => DeskInv'
<1> SUFFICES ASSUME DeskInv, [DeskStep]_deskVars PROVE DeskInv'
  OBVIOUS
<1>1. ASSUME NEW p \in DeskPath, NEW c \in Content, Write(p, c) PROVE DeskInv'
  BY <1>1, DeskEdits
<1>2. ASSUME NEW p \in DeskPath, NEW q \in DeskPath, Rename(p, q) PROVE DeskInv'
  BY <1>2, DeskEdits
<1>3. ASSUME NEW p \in DeskPath, Unlink(p) PROVE DeskInv'
  BY <1>3, DeskEdits
<1>4. ASSUME NEW p \in DeskPath, Flush(p) PROVE DeskInv'
  BY <1>4, DeskFlushDelete, DeskFlushMove, DeskFlushChange DEF Flush
<1>5. CASE Open
  BY <1>5, DeskOpen
<1>6. CASE Quit
  BY <1>6, DeskQuit
<1>7. CASE Skip
  BY <1>7, DeskSkip
<1>8. ASSUME NEW timer \in Held, ReleaseDelete(timer) PROVE DeskInv'
  BY <1>8, DeskRelease
<1>9. ASSUME NEW answered \in BOOLEAN, Report(answered) PROVE DeskInv'
  BY <1>9, DeskReport
<1>10. CASE UNCHANGED deskVars
  BY <1>10 DEF deskVars, DeskInv, DeskBase, DeskTyped, FoundIsHeld, ClosedIsEmpty,
               EntryAgrees, HeldIsGone, FilesArrive, GoneLeave, Present, Takes,
               EndsPresent, Brings
<1> QED
  BY <1>1, <1>2, <1>3, <1>4, <1>5, <1>6, <1>7, <1>8, <1>9, <1>10 DEF DeskStep

LEMMA DeskInvariant ==
  DeskSpec => []DeskInv
  BY DeskInitially, DeskPreserved, PTL DEF DeskSpec

\* The watcher's entries, timers and queue keep their shapes, and a content
\* finds no DELETE whose timer is gone.
THEOREM DeskTypeCorrect ==
  DeskSpec => []DeskTypeOK
<1>1. DeskInv => DeskTypeOK
  <2> SUFFICES ASSUME DeskInv PROVE DeskTypeOK
    OBVIOUS
  <2>1. DeskTyped /\ FoundIsHeld
    BY DEF DeskInv, DeskBase
  <2>2. heldBy \in [Content -> SUBSET held]
    BY <2>1 DEF DeskTyped, FoundIsHeld
  <2>3. ASSUME NEW p \in DeskPath
        PROVE  debounce[p].kind \in Kind \cup {"none"} /\ debounce[p].after \subseteq Held
    BY <2>1 DEF DeskTyped, Pending, Nothing, Kind
  <2> QED
    BY <2>1, <2>2, <2>3 DEF DeskTypeOK, DeskTyped, LedgerOf
<1> QED
  BY <1>1, DeskInvariant, PTL

\* Whatever is renamed, held back, reported twice or skipped: once nothing
\* waits, and nothing was lost or passed over, the ledger has the files of the
\* folder and no others.
THEOREM FolderMirroredCorrect ==
  DeskSpec => []FolderIsMirrored
<1>1. DeskInv => FolderIsMirrored
  <2> SUFFICES ASSUME DeskInv, AtRest, ~ gap, ~ returned, NEW p \in DeskPath
               PROVE  (folder[p] # Absent) <=> Present(p)
    BY DEF FolderIsMirrored, Mirrored, Present
  <2>1. FilesArrive /\ GoneLeave
    BY DEF DeskInv
  <2>2. open /\ held = {} /\ queue = <<>> /\ debounce[p] = Nothing /\ DOMAIN queue = {}
    BY DEF AtRest
  <2>3. ASSUME folder[p] # Absent PROVE Present(p)
    BY <2>1, <2>2, <2>3 DEF FilesArrive, EndsPresent
  <2>4. ASSUME folder[p] = Absent PROVE ~ Present(p)
    BY <2>1, <2>2, <2>4 DEF GoneLeave
  <2> QED
    BY <2>3, <2>4
<1> QED
  BY <1>1, DeskInvariant, PTL

-----------------------------------------------------------------------------
(* Drive: the feed, the cursor and the jobs that move it.                   *)

DriveChange ==
  [fingerprint : File \X Nat, kind : Kind, name : File, previous : File,
   delivery : {"none"}]
DriveItem == [change : DriveChange, entries : SUBSET Nat]
JobRecord ==
  [pc : JobPc, token : Nat, more : BOOLEAN, copy : Runtime, renewed : BOOLEAN,
   batch : Seq(DriveItem)]

\* The shapes of the provider, of the record and of the intake.
DriveTyped ==
  /\ drive = [where |-> drive.where, version |-> drive.version, feed |-> drive.feed]
  /\ drive.where \in [File -> Place] /\ drive.version \in [File -> Nat]
  /\ drive.feed \in Seq(Entry)
  /\ runtime \in Runtime
  /\ channels = [opened |-> channels.opened, due |-> channels.due]
  /\ channels.opened \in Nat /\ channels.due \subseteq 1..channels.opened
  /\ intake = [ledger |-> intake.ledger, processable |-> intake.processable]
  /\ LedgerOf(intake.ledger, File)
  /\ job \in [Job -> JobRecord]
  /\ scanned \in BOOLEAN

\* What a job that is at here has in hand of a feed of len entries, and the
\* position it will have moved the cursor to.
HandOf(here, len) ==
  (UNION {here.batch[n].entries : n \in DOMAIN here.batch}) \cup
  (IF here.pc = "list" \/ here.more THEN here.token .. len ELSE {})
PositionOf(here) ==
  IF here.pc = "save" THEN here.copy.cursor
  ELSE IF here.pc = "list" \/ here.more THEN here.token ELSE Unset

\* What the job j may be at, with a feed of len entries and so many channels
\* opened: a batch waits from the reading of a page to its last change only,
\* only a round reads on, and what is to be saved has a cursor.
JobFits(j, here, len, opened) ==
  /\ here \in JobRecord
  /\ here.copy.channel <= opened
  /\ here.pc \in {"idle", "ensure", "scan", "renew"} => here.batch = <<>> /\ ~ here.more
  /\ here.pc = "list" => here.batch = <<>>
  /\ here.pc = "persist" => here.batch # <<>>
  /\ here.pc = "save" => ~ here.more /\ here.copy.cursor \in 1..(len + 1)
  /\ here.pc = "save" /\ (j \notin Rounds \/ here.renewed) => here.batch = <<>>
  /\ here.pc = "list" \/ here.more => j \in Rounds /\ here.token \in 1..(len + 1)
  /\ \A n \in DOMAIN here.batch : here.batch[n].entries \subseteq 1..len

JobsFit ==
  \A j \in Job : JobFits(j, job[j], Len(drive.feed), channels.opened)

\* The cursor and the channel on record are of this feed, and nothing is
\* accounted for that the feed has not.
RecordFits ==
  /\ runtime.cursor <= Len(drive.feed) + 1 /\ runtime.channel <= channels.opened
  /\ settled \subseteq 1..Len(drive.feed) /\ lost \subseteq 1..Len(drive.feed)

\* The folder is listed only once there is a cursor, and then there always is.
ListedHasCursor ==
  job["mounting"].pc = "scan" \/ scanned => runtime.cursor >= 1

Accounted(i) ==
  \/ i \in settled \cup lost
  \/ \E k \in Job : i \in HandOf(job[k], Len(drive.feed))

\* Of a listed folder each entry that the cursor has passed, or that a job is
\* on its way to move it past, is accounted for.
PassedIsAccounted ==
  scanned =>
    \A i \in 1..Len(drive.feed) :
      i < runtime.cursor \/ (\E k \in Job : i < PositionOf(job[k])) => Accounted(i)

DriveInv == DriveTyped /\ JobsFit /\ RecordFits /\ ListedHasCursor /\ PassedIsAccounted

LEMMA FeedLength ==
  ASSUME DriveInv
  PROVE  /\ drive.feed \in Seq(Entry) /\ Len(drive.feed) \in Nat
         /\ DOMAIN drive.feed = 1..Len(drive.feed) /\ channels.opened \in Nat
  BY DEF DriveInv, DriveTyped

LEMMA JobTyped ==
  ASSUME DriveInv, NEW j \in Job
  PROVE  /\ job[j] \in JobRecord /\ JobFits(j, job[j], Len(drive.feed), channels.opened)
         /\ InHand(j) = HandOf(job[j], Len(drive.feed)) /\ Position(j) = PositionOf(job[j])
  BY DEF DriveInv, DriveTyped, JobsFit, InHand, HandOf, Position, PositionOf

\* A job that has nothing in hand.
LEMMA BareHanded ==
  ASSUME NEW next \in JobRecord, next.pc \in {"idle", "ensure", "scan", "renew"},
         next.batch = <<>>, next.more = FALSE, next.copy.channel = 0,
         NEW j \in Job, NEW len \in Nat, NEW opened \in Nat
  PROVE  /\ JobFits(j, next, len, opened)
         /\ HandOf(next, len) = {} /\ PositionOf(next) = 0
<1>1. DOMAIN next.batch = {}
  OBVIOUS
<1>2. JobFits(j, next, len, opened)
  BY <1>1 DEF JobFits
<1>3. HandOf(next, len) = {} /\ PositionOf(next) = 0
  BY <1>1 DEF HandOf, PositionOf, Unset
<1> QED
  BY <1>2, <1>3

LEMMA IdleJob ==
  /\ Idle \in JobRecord /\ Idle.pc = "idle" /\ Idle.batch = <<>> /\ Idle.more = FALSE
  /\ Idle.copy.channel = 0
<1>1. <<>> \in Seq(DriveItem)
  OBVIOUS
<1>2. [cursor |-> Unset, channel |-> Unset] \in Runtime
  BY DEF Unset, Runtime
<1> QED
  BY <1>1, <1>2 DEF Idle, JobRecord, JobPc, Unset

LEMMA IdleHanded ==
  ASSUME NEW j \in Job, NEW len \in Nat, NEW opened \in Nat
  PROVE  /\ JobFits(j, Idle, len, opened)
         /\ HandOf(Idle, len) = {} /\ PositionOf(Idle) = 0
  BY IdleJob, BareHanded

LEMMA EmptyHanded ==
  ASSUME NEW pc \in {"ensure", "scan", "renew"}, NEW j \in Job,
         NEW len \in Nat, NEW opened \in Nat
  PROVE  LET next == [Idle EXCEPT !.pc = pc]
         IN  /\ JobFits(j, next, len, opened) /\ next.pc = pc
             /\ HandOf(next, len) = {} /\ PositionOf(next) = 0
<1> DEFINE next == [Idle EXCEPT !.pc = pc]
<1>1. /\ next \in JobRecord /\ next.pc = pc /\ next.batch = <<>> /\ next.more = FALSE
      /\ next.copy.channel = 0
  BY IdleJob DEF JobRecord, JobPc
<1> HIDE DEF next
<1>2. /\ JobFits(j, next, len, opened)
      /\ HandOf(next, len) = {} /\ PositionOf(next) = 0
  BY <1>1, BareHanded
<1> QED
  BY <1>1, <1>2 DEF next

\* What a job has in hand is of the feed, and so is where it is to move the
\* cursor to; with a longer feed it still is.
LEMMA HandInFeed ==
  ASSUME NEW j \in Job, NEW here, NEW len \in Nat, NEW opened \in Nat,
         JobFits(j, here, len, opened)
  PROVE  /\ HandOf(here, len) \subseteq 1..len
         /\ PositionOf(here) \in Nat /\ PositionOf(here) <= len + 1
<1>1. /\ here.pc = "save" => here.copy.cursor \in 1..(len + 1)
      /\ here.pc = "list" \/ here.more => here.token \in 1..(len + 1)
      /\ \A n \in DOMAIN here.batch : here.batch[n].entries \subseteq 1..len
  BY DEF JobFits
<1>2. PositionOf(here) \in Nat /\ PositionOf(here) <= len + 1
  <2>1. CASE here.pc = "save"
    BY <1>1, <2>1 DEF PositionOf
  <2>2. CASE here.pc # "save" /\ (here.pc = "list" \/ here.more)
    BY <1>1, <2>2 DEF PositionOf
  <2>3. CASE ~ (here.pc = "save" \/ here.pc = "list" \/ here.more)
    BY <2>3 DEF PositionOf, Unset
  <2> QED
    BY <2>1, <2>2, <2>3
<1>3. (IF here.pc = "list" \/ here.more THEN here.token .. len ELSE {}) \subseteq 1..len
  BY <1>1
<1>4. UNION {here.batch[n].entries : n \in DOMAIN here.batch} \subseteq 1..len
  BY <1>1
<1>5. HandOf(here, len) \subseteq 1..len
  <2> DEFINE batch == UNION {here.batch[n].entries : n \in DOMAIN here.batch}
             pages == IF here.pc = "list" \/ here.more THEN here.token .. len ELSE {}
  <2>1. HandOf(here, len) = batch \cup pages
    BY DEF HandOf
  <2>2. batch \subseteq 1..len /\ pages \subseteq 1..len
    BY <1>3, <1>4
  <2> HIDE DEF batch, pages
  <2> QED
    BY <2>1, <2>2
<1> QED
  BY <1>2, <1>5

LEMMA JobGrows ==
  ASSUME NEW j \in Job, NEW here, NEW len \in Nat, NEW longer \in Nat, len <= longer,
         NEW opened \in Nat, NEW more \in Nat, opened <= more,
         JobFits(j, here, len, opened)
  PROVE  /\ JobFits(j, here, longer, more)
         /\ HandOf(here, len) \subseteq HandOf(here, longer)
<1>1. here \in JobRecord /\ here.copy.channel \in Nat /\ here.copy.cursor \in Nat
      /\ here.token \in Nat
  BY DEF JobFits, JobRecord, Runtime
<1>2. 1..len \subseteq 1..longer /\ 1..(len + 1) \subseteq 1..(longer + 1)
  OBVIOUS
<1>3. here.copy.channel <= more
  BY <1>1 DEF JobFits
<1>4. JobFits(j, here, longer, more)
  BY <1>1, <1>2, <1>3 DEF JobFits
<1>5. here.token .. len \subseteq here.token .. longer
  BY <1>1
<1> QED
  BY <1>4, <1>5 DEF HandOf

\* Where a job goes once its batch is dealt with it has in hand what it had.
LEMMA OnwardFacts ==
  ASSUME NEW j \in Job, NEW here \in JobRecord, NEW len \in Nat, NEW opened \in Nat,
         here.pc = "persist", here.copy.channel <= opened,
         here.more => j \in Rounds /\ here.token \in 1..(len + 1),
         \A n \in DOMAIN here.batch : here.batch[n].entries \subseteq 1..len
  PROVE  /\ JobFits(j, Onward(j, here), len, opened)
         /\ HandOf(Onward(j, here), len) = HandOf(here, len)
         /\ PositionOf(Onward(j, here)) = PositionOf(here)
         /\ Onward(j, here).pc # "scan"
<1>1. CASE here.batch # <<>>
  <2>1. Onward(j, here) = here
    BY <1>1 DEF Onward
  <2> QED
    BY <1>1, <2>1 DEF JobFits
<1>2. CASE here.batch = <<>> /\ ~ here.more
  <2>1. HandOf(here, len) = {} /\ PositionOf(here) = 0
    <3>1. DOMAIN here.batch = {}
      BY <1>2
    <3> QED
      BY <1>2, <3>1 DEF HandOf, PositionOf, Unset
  <2>2. CASE j = "mounting"
    <3>1. Onward(j, here) = [Idle EXCEPT !.pc = "renew"]
      BY <1>2, <2>2 DEF Onward
    <3> QED
      BY <2>1, <3>1, EmptyHanded
  <2>3. CASE j # "mounting"
    <3>1. Onward(j, here) = Idle
      BY <1>2, <2>3 DEF Onward
    <3> QED
      BY <2>1, <3>1, IdleHanded, IdleJob
  <2> QED
    BY <2>2, <2>3
<1>3. CASE here.batch = <<>> /\ here.more
  <2> DEFINE next == [here EXCEPT !.pc = "list"]
  <2>1. Onward(j, here) = next
    BY <1>3 DEF Onward, Rounds
  <2>2. /\ next \in JobRecord /\ next.pc = "list" /\ next.batch = <<>> /\ next.more
        /\ next.token = here.token /\ next.copy = here.copy
    BY <1>3 DEF JobRecord, JobPc
  <2> HIDE DEF next
  <2>3. JobFits(j, next, len, opened)
    BY <1>3, <2>2 DEF JobFits
  <2>4. HandOf(next, len) = HandOf(here, len) /\ PositionOf(next) = PositionOf(here)
    BY <1>3, <2>2 DEF HandOf, PositionOf
  <2> QED
    BY <2>1, <2>2, <2>3, <2>4
<1> QED
  BY <1>1, <1>2, <1>3

\* One job moves: everything but what is accounted for.
LEMMA DriveJobShapes ==
  ASSUME DriveInv, NEW j \in Job, NEW next,
         job' = [job EXCEPT ![j] = next], UNCHANGED drive,
         channels' = [opened |-> channels'.opened, due |-> channels'.due],
         channels'.opened \in Nat, channels.opened <= channels'.opened,
         channels'.due \subseteq 1..channels'.opened,
         JobFits(j, next, Len(drive.feed), channels'.opened),
         runtime' \in Runtime, runtime'.cursor <= Len(drive.feed) + 1,
         runtime'.channel <= channels'.opened,
         intake' = [ledger |-> intake'.ledger, processable |-> intake'.processable],
         LedgerOf(intake'.ledger, File),
         settled' \subseteq 1..Len(drive.feed), lost' \subseteq 1..Len(drive.feed),
         scanned' \in BOOLEAN,
         next.pc = "scan" \/ (scanned' /\ ~ scanned) \/ runtime.cursor >= 1
           => runtime'.cursor >= 1
  PROVE  DriveTyped' /\ JobsFit' /\ RecordFits' /\ ListedHasCursor'
<1>1. DriveTyped /\ JobsFit /\ RecordFits /\ ListedHasCursor
  BY DEF DriveInv
<1>2. Len(drive.feed) \in Nat /\ channels.opened \in Nat
  BY FeedLength
<1>3. next \in JobRecord
  BY DEF JobFits
<1>4. /\ job' \in [Job -> JobRecord] /\ job'[j] = next
      /\ \A k \in Job \ {j} : job'[k] = job[k]
  BY <1>1, <1>3 DEF DriveTyped
<1>5. DriveTyped'
  BY <1>1, <1>4 DEF DriveTyped
<1>6. JobsFit'
  <2> SUFFICES ASSUME NEW k \in Job
               PROVE  JobFits(k, job'[k], Len(drive.feed), channels'.opened)
    BY DEF JobsFit
  <2>1. CASE k = j
    BY <1>4, <2>1
  <2>2. CASE k # j
    <3>1. JobFits(k, job[k], Len(drive.feed), channels.opened)
      BY <1>1 DEF JobsFit
    <3>2. JobFits(k, job[k], Len(drive.feed), channels'.opened)
      <4> DEFINE len == Len(drive.feed)
                 opened == channels.opened
                 more == channels'.opened
      <4>1. len \in Nat /\ opened \in Nat /\ more \in Nat /\ opened <= more /\ len <= len
        BY <1>2
      <4>2. JobFits(k, job[k], len, opened)
        BY <3>1
      <4> HIDE DEF len, opened, more
      <4>3. JobFits(k, job[k], len, more)
        BY <4>1, <4>2, JobGrows
      <4> QED
        BY <4>3 DEF len, more
    <3> QED
      BY <1>4, <2>2, <3>2
  <2> QED
    BY <2>1, <2>2
<1>7. RecordFits'
  BY DEF RecordFits
<1>8. ListedHasCursor'
  <2> SUFFICES ASSUME job'["mounting"].pc = "scan" \/ scanned'
               PROVE  runtime'.cursor >= 1
    BY DEF ListedHasCursor
  <2>1. CASE next.pc = "scan" \/ (scanned' /\ ~ scanned)
    BY <2>1
  <2>2. CASE ~ (next.pc = "scan" \/ (scanned' /\ ~ scanned))
    <3>1. "mounting" \in Job
      BY DEF Job
    <3>2. job["mounting"].pc = "scan" \/ scanned
      BY <1>1, <1>4, <2>2, <3>1 DEF DriveTyped
    <3> QED
      BY <1>1, <3>2 DEF ListedHasCursor
  <2> QED
    BY <2>1, <2>2
<1> QED
  BY <1>5, <1>6, <1>7, <1>8

\* One job moves: what was accounted for stays so, in its hands or settled or
\* lost, unless nobody has passed it; and the job or the cursor passes only
\* what was passed before or is accounted for.
LEMMA DriveJobAccounts ==
  ASSUME DriveInv, NEW j \in Job, NEW next,
         job' = [job EXCEPT ![j] = next], UNCHANGED drive, scanned' = scanned,
         settled \subseteq settled', lost \subseteq lost',
         \A i \in 1..Len(drive.feed) :
           /\ i \in HandOf(job[j], Len(drive.feed))
           /\ \/ i < runtime'.cursor \/ i < PositionOf(next)
              \/ \E k \in Job \ {j} : i < PositionOf(job[k])
           => i \in settled' \cup lost' \cup HandOf(next, Len(drive.feed)),
         scanned => \A i \in 1..Len(drive.feed) :
           i < runtime'.cursor \/ i < PositionOf(next)
           => \/ i < runtime.cursor \/ i < PositionOf(job[j])
              \/ i \in settled' \cup lost' \cup HandOf(next, Len(drive.feed))
  PROVE  PassedIsAccounted'
<1> SUFFICES ASSUME scanned, NEW i \in 1..Len(drive.feed),
                    i < runtime'.cursor \/ (\E k \in Job : i < PositionOf(job'[k])),
                    i \notin settled' \cup lost' \cup HandOf(next, Len(drive.feed))
             PROVE  \E k \in Job : i \in HandOf(job'[k], Len(drive.feed))
  <2>1. job' = [job EXCEPT ![j] = next] /\ job \in [Job -> JobRecord]
    BY DEF DriveInv, DriveTyped
  <2>2. job'[j] = next
    BY <2>1
  <2> QED
    BY <2>2 DEF PassedIsAccounted, Accounted
<1>1. /\ job'[j] = next
      /\ \A k \in Job \ {j} : job'[k] = job[k]
  BY DEF DriveInv, DriveTyped
<1>2. \/ i < runtime'.cursor \/ i < PositionOf(next)
      \/ \E k \in Job \ {j} : i < PositionOf(job[k])
  BY <1>1
<1>3. i < runtime.cursor \/ \E k \in Job : i < PositionOf(job[k])
  BY <1>2
<1>4. Accounted(i)
  BY <1>3 DEF DriveInv, PassedIsAccounted
<1>5. PICK k \in Job : i \in HandOf(job[k], Len(drive.feed))
  BY <1>4 DEF Accounted
<1>6. k # j
  BY <1>2, <1>5
<1> QED
  BY <1>1, <1>5, <1>6

LEMMA DriveShapes ==
  ASSUME DriveInv
  PROVE  /\ DriveTyped /\ RecordFits /\ ListedHasCursor
         /\ job \in [Job -> JobRecord]
         /\ runtime \in Runtime /\ runtime.cursor \in Nat /\ runtime.channel \in Nat
         /\ channels = [opened |-> channels.opened, due |-> channels.due]
         /\ channels.opened \in Nat /\ channels.due \subseteq 1..channels.opened
         /\ intake = [ledger |-> intake.ledger, processable |-> intake.processable]
         /\ LedgerOf(intake.ledger, File) /\ scanned \in BOOLEAN
         /\ runtime.cursor <= Len(drive.feed) + 1 /\ runtime.channel <= channels.opened
         /\ settled \subseteq 1..Len(drive.feed) /\ lost \subseteq 1..Len(drive.feed)
  BY DEF DriveInv, DriveTyped, RecordFits, Runtime

\* A job between its reading and its saving steps has nothing in hand.
LEMMA NothingInHand ==
  ASSUME NEW j \in Job, NEW here, NEW len \in Nat, NEW opened \in Nat,
         JobFits(j, here, len, opened), here.pc \in {"idle", "ensure", "scan", "renew"}
  PROVE  HandOf(here, len) = {} /\ PositionOf(here) = 0
<1>1. DOMAIN here.batch = {} /\ ~ here.more
  BY DEF JobFits
<1> QED
  BY <1>1 DEF HandOf, PositionOf, Unset

\* The feed grows.
LEMMA DriveGrows ==
  ASSUME DriveInv, NEW e \in Entry, NEW where \in [File -> Place],
         NEW version \in [File -> Nat],
         drive' = [where |-> where, version |-> version, feed |-> Append(drive.feed, e)],
         UNCHANGED <<runtime, channels, intake, job, settled, lost, scanned>>
  PROVE  DriveInv'
<1> DEFINE len == Len(drive.feed)
           longer == Len(drive'.feed)
           opened == channels.opened
<1>1. /\ drive.feed \in Seq(Entry) /\ len \in Nat /\ opened \in Nat
  BY FeedLength
<1>2. drive'.feed \in Seq(Entry) /\ longer = len + 1
  BY <1>1, AppendFacts
<1>3. DriveTyped'
  BY <1>2, DriveShapes DEF DriveTyped
<1>4. len <= longer /\ longer \in Nat /\ opened <= opened
  BY <1>1, <1>2
<1>5. ASSUME NEW k \in Job
      PROVE  /\ JobFits(k, job[k], longer, opened)
             /\ HandOf(job[k], len) \subseteq HandOf(job[k], longer)
             /\ PositionOf(job[k]) \in Nat /\ PositionOf(job[k]) <= len + 1
  <2>1. JobFits(k, job[k], len, opened)
    BY JobTyped
  <2> HIDE DEF len, longer, opened
  <2> QED
    BY <1>1, <1>4, <2>1, JobGrows, HandInFeed
<1>6. JobsFit'
  BY <1>5 DEF JobsFit
<1>7. RecordFits' /\ ListedHasCursor'
  <2>1. 1..len \subseteq 1..longer
    BY <1>1, <1>2
  <2> QED
    BY <1>1, <1>2, <2>1, DriveShapes DEF RecordFits, ListedHasCursor
<1>8. PassedIsAccounted'
  <2> SUFFICES ASSUME scanned, NEW i \in 1..longer,
                      i < runtime.cursor \/ (\E k \in Job : i < PositionOf(job[k]))
               PROVE  \/ i \in settled \cup lost
                      \/ \E k \in Job : i \in HandOf(job[k], longer)
    BY DEF PassedIsAccounted, Accounted
  <2>1. i \in 1..len
    <3>1. CASE i < runtime.cursor
      BY <1>1, <1>2, <3>1, DriveShapes
    <3>2. ASSUME NEW k \in Job, i < PositionOf(job[k]) PROVE i \in 1..len
      <4>1. PositionOf(job[k]) \in Nat /\ PositionOf(job[k]) <= len + 1
        BY <1>5
      <4> HIDE DEF len, longer
      <4> QED
        BY <1>1, <1>2, <3>2, <4>1
    <3> QED
      BY <3>1, <3>2
  <2>2. Accounted(i)
    BY <2>1 DEF DriveInv, PassedIsAccounted
  <2> QED
    BY <1>5, <2>2 DEF Accounted
<1> QED
  BY <1>3, <1>6, <1>7, <1>8 DEF DriveInv

LEMMA DriveProvider ==
  ASSUME DriveInv, NEW f \in File
  PROVE  /\ Withdraw(f) => DriveInv'
         /\ \A place \in Place : Touch(f, place) => DriveInv'
<1>1. drive.where \in [File -> Place] /\ drive.version \in [File -> Nat]
      /\ drive = [where |-> drive.where, version |-> drive.version, feed |-> drive.feed]
  BY DEF DriveInv, DriveTyped
<1>2. ASSUME Withdraw(f) PROVE DriveInv'
  <2> DEFINE where == [drive.where EXCEPT ![f] = "gone"]
             e == [file |-> f, version |-> 0]
  <2>1. /\ drive' = [drive EXCEPT !.where[f] = "gone", !.feed = Append(drive.feed, e)]
        /\ UNCHANGED <<runtime, channels, intake, job, settled, lost, scanned>>
    BY <1>2 DEF Withdraw, Publish
  <2>2. e \in Entry /\ where \in [File -> Place]
    BY <1>1 DEF Entry, Place
  <2>3. drive' = [where |-> where, version |-> drive.version, feed |-> Append(drive.feed, e)]
    BY <1>1, <2>1
  <2> HIDE DEF where, e
  <2> QED
    BY <1>1, <2>1, <2>2, <2>3, DriveGrows
<1>3. ASSUME NEW place \in Place, Touch(f, place) PROVE DriveInv'
  <2> DEFINE where == [drive.where EXCEPT ![f] = place]
  <2>1. PICK v \in {drive.version[f] + 1} \cup {drive.version[f]} :
          drive' = [where |-> where,
                    version |-> [drive.version EXCEPT ![f] = v],
                    feed |-> Append(drive.feed, [file |-> f, version |-> v])]
    BY <1>3 DEF Touch, Publish
  <2> DEFINE version == [drive.version EXCEPT ![f] = v]
             e == [file |-> f, version |-> v]
  <2>2. UNCHANGED <<runtime, channels, intake, job, settled, lost, scanned>>
    BY <1>3 DEF Touch
  <2>3. e \in Entry /\ where \in [File -> Place] /\ version \in [File -> Nat]
    BY <1>1 DEF Entry
  <2>4. drive' = [where |-> where, version |-> version, feed |-> Append(drive.feed, e)]
    BY <2>1
  <2> HIDE DEF where, version, e
  <2> QED
    BY <2>2, <2>3, <2>4, DriveGrows
<1> QED
  BY <1>2, <1>3

\* Neither the feed, the cursor nor the jobs move.
LEMMA DriveQuiet ==
  ASSUME DriveInv, UNCHANGED <<drive, runtime, job, settled, lost, scanned>>,
         channels' = [opened |-> channels.opened, due |-> channels'.due],
         channels'.due \subseteq 1..channels.opened,
         intake' = [ledger |-> intake.ledger, processable |-> intake'.processable]
  PROVE  DriveInv'
<1>1. channels'.opened = channels.opened /\ intake'.ledger = intake.ledger
  OBVIOUS
<1>2. DriveTyped'
  BY <1>1 DEF DriveInv, DriveTyped
<1>3. JobsFit' /\ RecordFits' /\ ListedHasCursor' /\ PassedIsAccounted'
  BY <1>1 DEF DriveInv, JobsFit, RecordFits, ListedHasCursor, PassedIsAccounted, Accounted
<1> QED
  BY <1>2, <1>3 DEF DriveInv

LEMMA DriveStutter ==
  ASSUME DriveInv, UNCHANGED driveVars
  PROVE  DriveInv'
  BY DriveShapes, DriveQuiet DEF driveVars

LEMMA DriveCircumstances ==
  ASSUME DriveInv
  PROVE  (FallDue => DriveInv') /\ (RecordHealth => DriveInv')
<1>1. ASSUME FallDue PROVE DriveInv'
  <2>1. /\ channels' = [channels EXCEPT !.due = @ \cup {runtime.channel}]
        /\ runtime.channel # Unset
        /\ UNCHANGED <<drive, runtime, intake, job, settled, lost, scanned>>
    BY <1>1 DEF FallDue
  <2>2. /\ channels' = [opened |-> channels.opened, due |-> channels.due \cup {runtime.channel}]
        /\ runtime.channel \in 1..channels.opened
    <3>1. channels = [opened |-> channels.opened, due |-> channels.due]
      BY DriveShapes
    <3>2. /\ runtime.channel \in Nat /\ runtime.channel # 0
          /\ channels.opened \in Nat /\ runtime.channel <= channels.opened
      BY <2>1, DriveShapes DEF Unset
    <3>3. runtime.channel \in 1..channels.opened
      BY <3>2
    <3> QED
      BY <2>1, <3>1, <3>3
  <2>3. channels'.due \subseteq 1..channels.opened
    BY <2>2, DriveShapes
  <2> QED
    BY <2>1, <2>2, <2>3, DriveShapes, DriveQuiet
<1>2. ASSUME RecordHealth PROVE DriveInv'
  <2>1. /\ intake' = [intake EXCEPT !.processable = ~ @]
        /\ UNCHANGED <<drive, runtime, channels, job, settled, lost, scanned>>
    BY <1>2 DEF RecordHealth
  <2>2. intake' = [ledger |-> intake.ledger, processable |-> intake'.processable]
    BY <2>1, DriveShapes
  <2> QED
    BY <2>1, <2>2, DriveShapes, DriveQuiet
<1> QED
  BY <1>1, <1>2

\* A job with nothing in hand starts, or turns to its next call: it passes
\* nothing the cursor has not passed.
JobTurns(j, next) ==
  /\ job[j].pc \in {"idle", "ensure", "scan", "renew"}
  /\ job' = [job EXCEPT ![j] = next]
  /\ UNCHANGED <<drive, runtime, intake, settled, lost, scanned>>
  /\ channels' = [opened |-> channels'.opened, due |-> channels'.due]
  /\ channels'.opened \in Nat /\ channels.opened <= channels'.opened
  /\ channels'.due \subseteq 1..channels'.opened
  /\ JobFits(j, next, Len(drive.feed), channels'.opened)
  /\ next.pc = "scan" => runtime.cursor >= 1
  /\ scanned => PositionOf(next) <= runtime.cursor

LEMMA DriveJobTurns ==
  ASSUME DriveInv, NEW j \in Job, NEW next, JobTurns(j, next)
  PROVE  DriveInv'
<1> USE DEF JobTurns
<1>1. HandOf(job[j], Len(drive.feed)) = {}
  BY JobTyped, FeedLength, NothingInHand
<1>2. runtime.channel <= channels'.opened
  BY DriveShapes
<1>3. DriveTyped' /\ JobsFit' /\ RecordFits' /\ ListedHasCursor'
  BY <1>2, DriveShapes, DriveJobShapes
<1>4. PositionOf(next) \in Nat
  <2> DEFINE len == Len(drive.feed)
             opened == channels'.opened
  <2>1. JobFits(j, next, len, opened) /\ len \in Nat /\ opened \in Nat
    BY FeedLength
  <2> HIDE DEF len, opened
  <2> QED
    BY <2>1, HandInFeed
<1>5. \A i \in 1..Len(drive.feed) :
        scanned /\ i < PositionOf(next) => i < runtime.cursor
  BY <1>4, DriveShapes, FeedLength
<1>6. PassedIsAccounted'
  BY <1>1, <1>5, DriveJobAccounts
<1> QED
  BY <1>3, <1>6 DEF DriveInv

\* A job dies, or is refused: what it drops for good is lost.
LEMMA DriveJobEnds ==
  ASSUME DriveInv, NEW j \in Job,
         job' = [job EXCEPT ![j] = Idle], lost' = lost \cup Dropped(j),
         UNCHANGED <<drive, runtime, channels, intake, settled, scanned>>
  PROVE  DriveInv'
<1> DEFINE len == Len(drive.feed)
<1>1. /\ len \in Nat /\ channels.opened \in Nat
      /\ JobFits(j, job[j], len, channels.opened)
      /\ InHand(j) = HandOf(job[j], len)
  BY FeedLength, JobTyped
<1>2. HandOf(job[j], len) \subseteq 1..len
  BY <1>1, HandInFeed
<1>3. /\ JobFits(j, Idle, len, channels.opened) /\ PositionOf(Idle) = 0 /\ Idle.pc # "scan"
  BY <1>1, IdleHanded, IdleJob
<1>4. lost' \subseteq 1..len
  BY <1>1, <1>2, DriveShapes DEF Dropped
<1>5. DriveTyped' /\ JobsFit' /\ RecordFits' /\ ListedHasCursor'
  <2>1. /\ channels' = [opened |-> channels'.opened, due |-> channels'.due]
        /\ channels'.opened \in Nat /\ channels.opened <= channels'.opened
        /\ channels'.due \subseteq 1..channels'.opened
        /\ JobFits(j, Idle, len, channels'.opened)
    BY <1>1, <1>3, DriveShapes
  <2>2. /\ runtime' \in Runtime /\ runtime'.cursor <= len + 1
        /\ runtime'.channel <= channels'.opened
        /\ intake' = [ledger |-> intake'.ledger, processable |-> intake'.processable]
        /\ LedgerOf(intake'.ledger, File)
        /\ settled' \subseteq 1..len /\ scanned' \in BOOLEAN
        /\ ~ (scanned' /\ ~ scanned) /\ runtime'.cursor = runtime.cursor
    BY DriveShapes
  <2> QED
    BY <1>1, <1>3, <1>4, <2>1, <2>2, DriveJobShapes
<1>6. ASSUME NEW i \in 1..len, i \in HandOf(job[j], len),
             \/ i < runtime.cursor \/ i < PositionOf(Idle)
             \/ \E k \in Job \ {j} : i < PositionOf(job[k])
      PROVE  i \in lost'
  <2>1. i < runtime.cursor \/ \E k \in Job \ {j} : i < Position(k)
    BY <1>3, <1>6, JobTyped
  <2> QED
    BY <1>1, <1>6, <2>1 DEF Dropped, PassedBesides
<1>7. \A i \in 1..len : ~ (i < PositionOf(Idle))
  BY <1>3
<1>8. PassedIsAccounted'
  BY <1>6, <1>7, DriveJobAccounts
<1> QED
  BY <1>5, <1>8 DEF DriveInv

LEMMA DriveDie ==
  ASSUME DriveInv, NEW j \in Job, Die(j)
  PROVE  DriveInv'
  BY DriveJobEnds DEF Die

\* A job starts.
LEMMA DriveBegin ==
  ASSUME DriveInv
  PROVE  (Attach => DriveInv') /\ (BeginRenewal => DriveInv')
<1>1. ASSUME NEW j \in Job, NEW pc \in {"ensure", "renew"}, MayStart(j), Goto(j, pc),
             UNCHANGED <<drive, runtime, channels, intake, settled, lost, scanned>>
      PROVE  DriveInv'
  <2> DEFINE next == [Idle EXCEPT !.pc = pc]
  <2>1. job' = [job EXCEPT ![j] = next] /\ job[j].pc = "idle"
    BY <1>1 DEF Goto, MayStart
  <2>2. /\ JobFits(j, next, Len(drive.feed), channels.opened) /\ next.pc = pc
        /\ PositionOf(next) = 0
    BY FeedLength, EmptyHanded
  <2> HIDE DEF next
  <2>3. JobTurns(j, next)
    BY <1>1, <2>1, <2>2, DriveShapes DEF JobTurns
  <2> QED
    BY <2>3, DriveJobTurns
<1>2. "mounting" \in Job /\ "renewal" \in Job
  BY DEF Job
<1> QED
  BY <1>1, <1>2 DEF Attach, BeginRenewal

\* A round starts from the cursor on record, or from the end of the feed.
LEMMA DriveBeginRound ==
  ASSUME DriveInv, NEW j \in Rounds, BeginRound(j)
  PROVE  DriveInv'
<1> DEFINE token == IF runtime.cursor = Unset THEN StartToken ELSE runtime.cursor
           next == [job[j] EXCEPT !.pc = "list", !.token = token]
<1>1. /\ job[j].pc = "idle"
      /\ job' = [job EXCEPT ![j].pc = "list", ![j].token = token]
      /\ UNCHANGED <<drive, runtime, channels, intake, settled, lost, scanned>>
  BY DEF BeginRound, MayStart
<1>2. j \in Job
  BY DEF Job
<1>3. /\ job[j] \in JobRecord /\ JobFits(j, job[j], Len(drive.feed), channels.opened)
      /\ Len(drive.feed) \in Nat
  BY <1>2, JobTyped, FeedLength
<1>4. /\ token \in Nat /\ token \in 1..(Len(drive.feed) + 1)
      /\ scanned => token = runtime.cursor
  <2>1. scanned => runtime.cursor >= 1
    BY DriveShapes DEF ListedHasCursor
  <2> QED
    BY <1>3, <2>1, DriveShapes DEF StartToken, Unset
<1> HIDE DEF token
<1>5. job' = [job EXCEPT ![j] = next]
  BY <1>1, <1>2, <1>3
<1>6. /\ next \in JobRecord /\ next.pc = "list" /\ next.token = token
      /\ next.more = job[j].more /\ next.batch = job[j].batch /\ next.copy = job[j].copy
  BY <1>3, <1>4 DEF JobRecord, JobPc
<1> HIDE DEF next
<1>7. /\ JobFits(j, next, Len(drive.feed), channels.opened) /\ PositionOf(next) = token
  BY <1>1, <1>3, <1>4, <1>6 DEF JobFits, PositionOf
<1>8. JobTurns(j, next)
  <2>1. scanned => PositionOf(next) <= runtime.cursor
    BY <1>4, <1>7
  <2>2. next.pc # "scan"
    BY <1>6
  <2>3. /\ channels' = [opened |-> channels'.opened, due |-> channels'.due]
        /\ channels'.opened \in Nat /\ channels.opened <= channels'.opened
        /\ channels'.due \subseteq 1..channels'.opened
        /\ JobFits(j, next, Len(drive.feed), channels'.opened)
    BY <1>1, <1>7, DriveShapes
  <2> QED
    BY <1>1, <1>5, <2>1, <2>2, <2>3 DEF JobTurns
<1> QED
  BY <1>2, <1>8, DriveJobTurns

\* The cursor is kept before the folder is listed.
LEMMA DriveEnsureCursor ==
  ASSUME DriveInv, EnsureCursor
  PROVE  DriveInv'
<1> DEFINE j == "mounting"
           len == Len(drive.feed)
           copy == [runtime EXCEPT !.cursor = StartToken]
           fresh == [job[j] EXCEPT !.pc = "save", !.copy = copy]
           bare == [Idle EXCEPT !.pc = "scan"]
<1>1. /\ job[j].pc = "ensure" /\ j \in Job
      /\ UNCHANGED <<drive, runtime, channels, intake, settled, lost, scanned>>
  BY DEF EnsureCursor, Job
<1>2. /\ job[j] \in JobRecord /\ JobFits(j, job[j], len, channels.opened)
      /\ len \in Nat
  BY <1>1, JobTyped, FeedLength
<1>3. /\ channels' = [opened |-> channels'.opened, due |-> channels'.due]
      /\ channels'.opened \in Nat /\ channels.opened <= channels'.opened
      /\ channels'.due \subseteq 1..channels'.opened
      /\ channels'.opened = channels.opened
  BY <1>1, DriveShapes
<1>4. CASE runtime.cursor # Unset
  <2>1. job' = [job EXCEPT ![j] = bare]
    BY <1>4 DEF EnsureCursor, Goto
  <2>2. JobFits(j, bare, len, channels.opened) /\ bare.pc = "scan" /\ PositionOf(bare) = 0
    BY <1>1, <1>2, <1>3, EmptyHanded
  <2>3. runtime.cursor >= 1
    BY <1>4, DriveShapes DEF Unset
  <2> HIDE DEF bare
  <2>4. JobFits(j, bare, len, channels'.opened) /\ PositionOf(bare) <= runtime.cursor
    BY <1>3, <2>2, <2>3, DriveShapes
  <2>5. JobTurns(j, bare)
    BY <1>1, <1>3, <2>1, <2>3, <2>4 DEF JobTurns
  <2> QED
    BY <1>1, <2>5, DriveJobTurns
<1>5. CASE runtime.cursor = Unset
  <2>1. job' = [job EXCEPT ![j].pc = "save", ![j].copy = copy]
    BY <1>5 DEF EnsureCursor
  <2>2. job' = [job EXCEPT ![j] = fresh]
    BY <1>1, <1>2, <2>1
  <2>3. copy \in Runtime /\ copy.cursor = len + 1 /\ copy.channel = runtime.channel
    BY <1>2, DriveShapes DEF Runtime, StartToken
  <2> HIDE DEF copy
  <2>4. /\ fresh \in JobRecord /\ fresh.pc = "save" /\ fresh.copy = copy
        /\ fresh.batch = <<>> /\ fresh.more = FALSE
    BY <1>1, <1>2, <2>3 DEF JobRecord, JobPc, JobFits
  <2> HIDE DEF fresh
  <2>5. JobFits(j, fresh, len, channels.opened)
    <3>1. copy.cursor \in 1..(len + 1) /\ copy.channel <= channels.opened
      BY <1>2, <2>3, DriveShapes
    <3>2. DOMAIN fresh.batch = {}
      BY <2>4
    <3> QED
      BY <2>4, <3>1, <3>2 DEF JobFits
  <2>6. ~ scanned
    BY <1>5, DriveShapes DEF Unset, ListedHasCursor
  <2>7. JobFits(j, fresh, len, channels'.opened)
    BY <1>3, <2>5
  <2>8. JobTurns(j, fresh)
    BY <1>1, <1>3, <2>2, <2>4, <2>6, <2>7 DEF JobTurns
  <2> QED
    BY <1>1, <2>8, DriveJobTurns
<1> QED
  BY <1>4, <1>5

\* A channel is renewed, or need not be.
LEMMA DriveRenew ==
  ASSUME DriveInv, NEW j \in Job, Renew(j)
  PROVE  DriveInv'
<1> DEFINE len == Len(drive.feed)
           cursor == IF runtime.cursor = Unset THEN StartToken ELSE runtime.cursor
           copy == [cursor |-> cursor, channel |-> channels.opened + 1]
           next == [Idle EXCEPT !.pc = "save", !.renewed = TRUE, !.copy = copy]
<1>1. /\ job[j].pc = "renew"
      /\ UNCHANGED <<drive, runtime, intake, settled, lost, scanned>>
      /\ \/ job' = [job EXCEPT ![j] = Idle] /\ UNCHANGED channels
         \/ /\ channels' = [channels EXCEPT !.opened = @ + 1]
            /\ job' = [job EXCEPT ![j] = next]
  BY DEF Renew
<1>2. len \in Nat /\ channels.opened \in Nat
  BY FeedLength
<1>3. CASE job' = [job EXCEPT ![j] = Idle] /\ UNCHANGED channels
  <2>1. /\ channels' = [opened |-> channels'.opened, due |-> channels'.due]
        /\ channels'.opened \in Nat /\ channels.opened <= channels'.opened
        /\ channels'.due \subseteq 1..channels'.opened
    BY <1>3, DriveShapes
  <2>2. JobFits(j, Idle, len, channels'.opened) /\ PositionOf(Idle) <= runtime.cursor
        /\ Idle.pc # "scan"
    BY <1>2, <2>1, DriveShapes, IdleHanded, IdleJob
  <2>3. JobTurns(j, Idle)
    BY <1>1, <1>3, <2>1, <2>2 DEF JobTurns
  <2> QED
    BY <2>3, DriveJobTurns
<1>4. ASSUME channels' = [channels EXCEPT !.opened = @ + 1],
             job' = [job EXCEPT ![j] = next]
      PROVE  DriveInv'
  <2>1. /\ channels' = [opened |-> channels'.opened, due |-> channels'.due]
        /\ channels'.opened = channels.opened + 1 /\ channels'.due = channels.due
    BY <1>4, DriveShapes
  <2>2. /\ channels'.opened \in Nat /\ channels.opened <= channels'.opened
        /\ channels'.due \subseteq 1..channels'.opened
    <3>1. 1..channels.opened \subseteq 1..channels'.opened
      BY <1>2, <2>1
    <3> QED
      BY <1>2, <2>1, <3>1, DriveShapes
  <2>3. /\ cursor \in Nat /\ cursor \in 1..(len + 1)
        /\ scanned => cursor = runtime.cursor
    BY <1>2, DriveShapes DEF StartToken, Unset, ListedHasCursor
  <2> HIDE DEF cursor
  <2>4. copy \in Runtime /\ copy.cursor = cursor /\ copy.channel = channels'.opened
    BY <1>2, <2>1, <2>3 DEF Runtime
  <2> HIDE DEF copy
  <2>5. /\ next \in JobRecord /\ next.pc = "save" /\ next.copy = copy
        /\ next.batch = <<>> /\ next.more = FALSE
    BY <2>4, IdleJob DEF JobRecord, JobPc
  <2> HIDE DEF next
  <2>6. JobFits(j, next, len, channels'.opened)
    <3>1. DOMAIN next.batch = {} /\ next.copy.channel <= channels'.opened
      BY <2>2, <2>4, <2>5
    <3> QED
      BY <2>3, <2>4, <2>5, <3>1 DEF JobFits
  <2>7. scanned => PositionOf(next) <= runtime.cursor
    BY <2>3, <2>4, <2>5, DriveShapes DEF PositionOf
  <2>8. next.pc # "scan"
    BY <2>5
  <2>9. JobTurns(j, next)
    BY <1>1, <1>4, <2>1, <2>2, <2>6, <2>7, <2>8 DEF JobTurns
  <2> QED
    BY <2>9, DriveJobTurns
<1> QED
  BY <1>1, <1>3, <1>4

\* What a job saves is where it was to move the cursor to; what it has in hand
\* it keeps.
LEMMA DriveSave ==
  ASSUME DriveInv, NEW j \in Job, SaveRuntime(j)
  PROVE  DriveInv'
<1> DEFINE len == Len(drive.feed)
           opened == channels.opened
           saved == [job[j] EXCEPT !.copy = Idle.copy, !.pc = "persist"]
           bare == [Idle EXCEPT !.pc = "scan"]
           next == IF j = "renewal" \/ saved.renewed THEN Idle
                   ELSE IF j = "mounting" THEN bare
                   ELSE Onward(j, saved)
<1>1. /\ job[j].pc = "save" /\ runtime' = job[j].copy
      /\ job' = [job EXCEPT ![j] = next]
      /\ UNCHANGED <<drive, channels, intake, settled, lost, scanned>>
  BY DEF SaveRuntime
<1>2. /\ job[j] \in JobRecord /\ JobFits(j, job[j], len, opened)
      /\ len \in Nat /\ opened \in Nat
  BY JobTyped, FeedLength
<1>3. /\ ~ job[j].more /\ job[j].copy.cursor \in 1..(len + 1)
      /\ job[j].copy.channel <= opened /\ job[j].copy \in Runtime
      /\ j \notin Rounds \/ job[j].renewed => job[j].batch = <<>>
      /\ \A n \in DOMAIN job[j].batch : job[j].batch[n].entries \subseteq 1..len
  BY <1>1, <1>2 DEF JobFits, JobRecord
<1>4. PositionOf(job[j]) = runtime'.cursor
  BY <1>1 DEF PositionOf
<1>5. /\ saved \in JobRecord /\ saved.pc = "persist" /\ saved.more = FALSE
      /\ saved.batch = job[j].batch /\ saved.renewed = job[j].renewed
      /\ saved.copy.channel = 0
  <2>1. Idle.copy \in Runtime /\ Idle.copy.channel = 0
    BY IdleJob DEF JobRecord
  <2> QED
    BY <1>2, <1>3, <2>1 DEF JobRecord, JobPc
<1> HIDE DEF saved
<1>6. /\ JobFits(j, next, len, opened)
      /\ HandOf(next, len) = HandOf(job[j], len) /\ PositionOf(next) = 0
  <2>1. CASE j = "renewal" \/ saved.renewed \/ j = "mounting"
    <3>1. job[j].batch = <<>>
      BY <1>3, <1>5, <2>1 DEF Rounds
    <3>2. DOMAIN job[j].batch = {}
      BY <3>1
    <3>3. HandOf(job[j], len) = {}
      BY <1>1, <1>3, <3>2 DEF HandOf
    <3>4. next = Idle \/ next = bare
      BY <2>1
    <3>5. JobFits(j, Idle, len, opened) /\ HandOf(Idle, len) = {} /\ PositionOf(Idle) = 0
      BY <1>2, IdleHanded
    <3>6. JobFits(j, bare, len, opened) /\ HandOf(bare, len) = {} /\ PositionOf(bare) = 0
      BY <1>2, EmptyHanded
    <3> HIDE DEF next, bare
    <3> QED
      BY <3>3, <3>4, <3>5, <3>6
  <2>2. CASE ~ (j = "renewal" \/ saved.renewed \/ j = "mounting")
    <3>1. next = Onward(j, saved)
      BY <2>2
    <3>2. /\ JobFits(j, Onward(j, saved), len, opened)
          /\ HandOf(Onward(j, saved), len) = HandOf(saved, len)
          /\ PositionOf(Onward(j, saved)) = PositionOf(saved)
      <4> HIDE DEF len, opened
      <4>1. saved.copy.channel <= opened
        BY <1>2, <1>5
      <4>2. \A n \in DOMAIN saved.batch : saved.batch[n].entries \subseteq 1..len
        BY <1>3, <1>5
      <4> QED
        BY <1>2, <1>5, <4>1, <4>2, OnwardFacts
    <3>3. HandOf(saved, len) = HandOf(job[j], len)
      BY <1>1, <1>3, <1>5 DEF HandOf
    <3>4. PositionOf(saved) = 0
      BY <1>5 DEF PositionOf, Unset
    <3> HIDE DEF next
    <3> QED
      BY <3>1, <3>2, <3>3, <3>4
  <2> QED
    BY <2>1, <2>2
<1> HIDE DEF next
<1>7. DriveTyped' /\ JobsFit' /\ RecordFits' /\ ListedHasCursor'
  <2>1. /\ channels' = [opened |-> channels'.opened, due |-> channels'.due]
        /\ channels'.opened \in Nat /\ channels.opened <= channels'.opened
        /\ channels'.due \subseteq 1..channels'.opened
        /\ JobFits(j, next, len, channels'.opened)
    BY <1>1, <1>2, <1>6, DriveShapes
  <2>2. /\ runtime' \in Runtime /\ runtime'.cursor <= len + 1 /\ runtime'.cursor >= 1
        /\ runtime'.channel <= channels'.opened
    BY <1>1, <1>2, <1>3
  <2>3. /\ intake' = [ledger |-> intake'.ledger, processable |-> intake'.processable]
        /\ LedgerOf(intake'.ledger, File)
        /\ settled' \subseteq 1..len /\ lost' \subseteq 1..len /\ scanned' \in BOOLEAN
    BY <1>1, DriveShapes
  <2> QED
    BY <1>1, <2>1, <2>2, <2>3, DriveJobShapes
<1>8. \A i \in 1..len : ~ (i < PositionOf(next))
  BY <1>6
<1>9. PassedIsAccounted'
  BY <1>1, <1>4, <1>6, <1>8, DriveJobAccounts
<1> QED
  BY <1>7, <1>9 DEF DriveInv

\* A change is registered, or refused: its entries leave the hand of the job
\* for the settled or for the lost.
LEMMA DrivePersist ==
  ASSUME DriveInv, NEW j \in Job, Persist(j)
  PROVE  DriveInv'
<1> DEFINE len == Len(drive.feed)
           opened == channels.opened
           item == Head(job[j].batch)
           here == [job[j] EXCEPT !.batch = Tail(job[j].batch)]
           next == Onward(j, here)
<1>1. /\ job[j].pc = "persist"
      /\ UNCHANGED <<drive, runtime, channels, scanned>>
      /\ \/ /\ lost' = lost \cup Dropped(j) /\ job' = [job EXCEPT ![j] = Idle]
            /\ UNCHANGED <<intake, settled>>
         \/ /\ intake' = [intake EXCEPT !.ledger = Registered(@, item.change)]
            /\ settled' = settled \cup item.entries
            /\ job' = [job EXCEPT ![j] = Onward(j, [@ EXCEPT !.batch = Tail(job[j].batch)])]
            /\ UNCHANGED lost
  BY DEF Persist
<1>2. /\ job[j] \in JobRecord /\ JobFits(j, job[j], len, opened)
      /\ len \in Nat /\ opened \in Nat
  BY JobTyped, FeedLength
<1>3. CASE /\ lost' = lost \cup Dropped(j) /\ job' = [job EXCEPT ![j] = Idle]
           /\ UNCHANGED <<intake, settled>>
  BY <1>1, <1>3, DriveJobEnds
<1>4. ASSUME intake' = [intake EXCEPT !.ledger = Registered(@, item.change)],
             settled' = settled \cup item.entries,
             job' = [job EXCEPT ![j] = Onward(j, [@ EXCEPT !.batch = Tail(job[j].batch)])],
             UNCHANGED lost
      PROVE  DriveInv'
  <2> DEFINE batch == job[j].batch
  <2>1. job' = [job EXCEPT ![j] = next]
    BY <1>4
  <2>2. /\ batch \in Seq(DriveItem) /\ batch # <<>>
        /\ \A n \in DOMAIN batch : batch[n].entries \subseteq 1..len
    BY <1>1, <1>2 DEF JobFits, JobRecord
  <2>3. /\ Tail(batch) \in Seq(DriveItem) /\ Len(batch) \in Nat \ {0}
        /\ DOMAIN batch = 1..Len(batch) /\ DOMAIN Tail(batch) = 1..(Len(batch) - 1)
        /\ \A n \in 1..(Len(batch) - 1) : Tail(batch)[n] = batch[n + 1]
        /\ item = batch[1]
    BY <2>2, TailFacts
  <2>4. /\ here \in JobRecord /\ here.pc = "persist" /\ here.batch = Tail(batch)
        /\ here.more = job[j].more /\ here.token = job[j].token
        /\ here.copy = job[j].copy
    BY <1>1, <1>2, <2>3 DEF JobRecord
  <2> HIDE DEF here
  <2>5. item.entries \subseteq 1..len
    BY <2>2, <2>3
  <2>6. \A n \in DOMAIN here.batch : here.batch[n].entries \subseteq 1..len
    <3>1. \A n \in 1..(Len(batch) - 1) : n + 1 \in 1..Len(batch)
      BY <2>3
    <3> QED
      BY <2>2, <2>3, <2>4, <3>1
  <2>7. HandOf(job[j], len) \subseteq item.entries \cup HandOf(here, len)
    <3>1. ASSUME NEW n \in 1..Len(batch)
          PROVE  n = 1 \/ (n - 1 \in 1..(Len(batch) - 1) /\ Tail(batch)[n - 1] = batch[n])
      BY <2>3
    <3>2. ASSUME NEW n \in DOMAIN batch, NEW i \in batch[n].entries
          PROVE  i \in item.entries \cup HandOf(here, len)
      <4>1. CASE n = 1
        BY <2>3, <3>2, <4>1
      <4>2. CASE n # 1
        <5>1. n - 1 \in DOMAIN here.batch /\ here.batch[n - 1] = batch[n]
          BY <2>3, <2>4, <3>1, <4>2
        <5> HIDE DEF batch, len
        <5>2. i \in here.batch[n - 1].entries
          BY <3>2, <5>1
        <5> QED
          BY <5>1, <5>2 DEF HandOf
      <4> QED
        BY <4>1, <4>2
    <3>3. ASSUME NEW i \in IF job[j].pc = "list" \/ job[j].more
                           THEN job[j].token .. len ELSE {}
          PROVE  i \in HandOf(here, len)
      BY <1>1, <2>4, <3>3 DEF HandOf
    <3> QED
      BY <3>2, <3>3 DEF HandOf
  <2>8. PositionOf(here) = PositionOf(job[j])
    BY <1>1, <2>4 DEF PositionOf
  <2>9. /\ JobFits(j, next, len, opened)
        /\ HandOf(next, len) = HandOf(here, len)
        /\ PositionOf(next) = PositionOf(here)
        /\ next.pc # "scan"
    <3>1. here.copy.channel <= opened
      BY <1>2, <2>4 DEF JobFits
    <3>2. here.more => j \in Rounds /\ here.token \in 1..(len + 1)
      BY <1>2, <2>4 DEF JobFits
    <3> HIDE DEF len, opened
    <3> QED
      BY <1>2, <2>4, <2>6, <3>1, <3>2, OnwardFacts
  <2> HIDE DEF next
  <2>10. DriveTyped' /\ JobsFit' /\ RecordFits' /\ ListedHasCursor'
    <3>1. /\ channels' = [opened |-> channels'.opened, due |-> channels'.due]
          /\ channels'.opened \in Nat /\ channels.opened <= channels'.opened
          /\ channels'.due \subseteq 1..channels'.opened
          /\ JobFits(j, next, len, channels'.opened)
      BY <1>1, <1>2, <2>9, DriveShapes
    <3>2. /\ runtime' \in Runtime /\ runtime'.cursor <= len + 1
          /\ runtime'.channel <= channels'.opened /\ runtime'.cursor = runtime.cursor
      BY <1>1, DriveShapes
    <3>3. /\ intake' = [ledger |-> intake'.ledger, processable |-> intake'.processable]
          /\ LedgerOf(intake'.ledger, File)
      <4>1. intake'.ledger = Registered(intake.ledger, item.change)
        BY <1>4, DriveShapes
      <4>2. intake' = [ledger |-> intake'.ledger, processable |-> intake'.processable]
        BY <1>4, DriveShapes
      <4> QED
        BY <4>1, <4>2, DriveShapes, RegisteredTyped
    <3>4. settled' \subseteq 1..len /\ lost' \subseteq 1..len /\ scanned' \in BOOLEAN
          /\ ~ (scanned' /\ ~ scanned)
      BY <1>1, <1>4, <2>5, DriveShapes
    <3> QED
      BY <1>1, <2>1, <2>9, <3>1, <3>2, <3>3, <3>4, DriveJobShapes
  <2>11. /\ HandOf(job[j], len) \subseteq settled' \cup HandOf(next, len)
         /\ settled \subseteq settled' /\ lost' = lost
         /\ runtime' = runtime /\ PositionOf(next) = PositionOf(job[j])
    BY <1>1, <1>4, <2>7, <2>8, <2>9
  <2> HIDE DEF item, batch
  <2>12. PassedIsAccounted'
    BY <1>1, <2>1, <2>11, DriveJobAccounts
  <2> QED
    BY <2>10, <2>12 DEF DriveInv
<1> QED
  BY <1>1, <1>3, <1>4

\* A page is read: each entry of it is none of the folder's, missed, or in a
\* change of the batch.
LEMMA DriveList ==
  ASSUME DriveInv, NEW j \in Job, List(j)
  PROVE  DriveInv'
<1> DEFINE len == Len(drive.feed)
           opened == channels.opened
           first == job[j].token
           last == IF first + PageSize - 1 < len THEN first + PageSize - 1 ELSE len
           more == last < len
           ours == {i \in first..last : \/ Removed(drive.feed[i])
                                        \/ drive.where[drive.feed[i].file] = "inside"}
<1>1. PICK unread \in SUBSET File :
        LET unseen == {i \in ours : /\ ~ Removed(drive.feed[i])
                                    /\ drive.feed[i].file \in unread}
            taken == Ascending(ours \ unseen)
            here == [Idle EXCEPT !.batch = [n \in DOMAIN taken |-> Reported(taken[n])],
                                 !.more = more, !.token = last + 1, !.pc = "persist"]
        IN  /\ job[j].pc = "list"
            /\ job' = [job EXCEPT ![j] =
                 IF more THEN Onward(j, here)
                 ELSE [here EXCEPT !.pc = "save",
                                   !.copy = [runtime EXCEPT !.cursor = last + 1]]]
            /\ settled' = settled \cup ((first..last) \ ours)
            /\ lost' = lost \cup unseen
            /\ UNCHANGED <<drive, runtime, channels, intake, scanned>>
  BY DEF List
<1> DEFINE unseen == {i \in ours : /\ ~ Removed(drive.feed[i])
                                   /\ drive.feed[i].file \in unread}
           kept == ours \ unseen
           taken == Ascending(kept)
           batch == [n \in DOMAIN taken |-> Reported(taken[n])]
           here == [Idle EXCEPT !.batch = batch,
                                !.more = more, !.token = last + 1, !.pc = "persist"]
           copy == [runtime EXCEPT !.cursor = last + 1]
           saved == [here EXCEPT !.pc = "save", !.copy = copy]
           next == IF more THEN Onward(j, here) ELSE saved
<1>2. /\ job[j].pc = "list"
      /\ job' = [job EXCEPT ![j] = next]
      /\ settled' = settled \cup ((first..last) \ ours)
      /\ lost' = lost \cup unseen
      /\ UNCHANGED <<drive, runtime, channels, intake, scanned>>
  BY <1>1
<1>3. /\ job[j] \in JobRecord /\ JobFits(j, job[j], len, opened)
      /\ len \in Nat /\ opened \in Nat
  BY JobTyped, FeedLength
<1>4. j \in Rounds /\ first \in Nat /\ first \in 1..(len + 1) /\ job[j].batch = <<>>
  BY <1>2, <1>3 DEF JobFits, JobRecord
<1>5. /\ last \in Nat /\ first - 1 <= last /\ last <= len
      /\ ~ more => last = len
  <2> HIDE DEF len, first
  <2> QED
    BY <1>3, <1>4, PageAssumption
<1>6. ours \subseteq first..last /\ unseen \subseteq ours
  OBVIOUS
<1>7. HandOf(job[j], len) = first..len /\ PositionOf(job[j]) = first
  <2>1. DOMAIN job[j].batch = {}
    BY <1>4
  <2> QED
    BY <1>2, <2>1 DEF HandOf, PositionOf
<1>8. first..last \subseteq 1..len /\ first..last \subseteq Nat
  <2> HIDE DEF len, first, last
  <2> QED
    BY <1>3, <1>4, <1>5
<1>9. kept \in SUBSET Nat /\ IsFiniteSet(kept) /\ kept \subseteq 1..len
  <2>1. IsFiniteSet(first..last)
    <3>1. first \in Int /\ last \in Int
      BY <1>4, <1>5
    <3> HIDE DEF first, last
    <3> QED
      BY <3>1, FS_Interval
  <2>2. kept \subseteq first..last
    BY <1>6
  <2> HIDE DEF kept, first, last, len
  <2> QED
    BY <1>8, <2>1, <2>2, FS_Subset
<1> HIDE DEF kept
<1>10. /\ taken \in Seq(kept) /\ DOMAIN taken = 1..Cardinality(kept)
       /\ Cardinality(kept) \in Nat
       /\ \A i \in kept : \E n \in DOMAIN taken : taken[n] = i
  BY <1>9, AscendingFacts
<1>11. ASSUME NEW i \in kept
       PROVE  Reported(i) \in DriveItem /\ Reported(i).entries = {i}
  <2>1. drive.feed[i] \in Entry /\ i \in Nat
    BY <1>9, FeedLength
  <2>2. /\ drive.feed[i].file \in File /\ drive.feed[i].version \in Nat
    BY <2>1 DEF Entry
  <2>3. <<drive.feed[i].file, drive.feed[i].version>> \in File \X Nat
    BY <2>2
  <2> QED
    BY <2>1, <2>2, <2>3 DEF Reported, Item, Change, Fingerprint, DriveItem, DriveChange, Kind
<1>12. /\ batch \in Seq(DriveItem) /\ DOMAIN batch = DOMAIN taken
       /\ \A n \in DOMAIN batch : batch[n].entries = {taken[n]} /\ taken[n] \in kept
  <2>1. \A n \in 1..Cardinality(kept) : taken[n] \in kept
    BY <1>10
  <2> HIDE DEF taken
  <2>2. batch \in [1..Cardinality(kept) -> DriveItem]
    BY <1>10, <1>11, <2>1
  <2>3. batch \in Seq(DriveItem)
    BY <1>10, <2>2
  <2> QED
    BY <1>10, <1>11, <2>1, <2>3
<1> HIDE DEF taken, batch
<1>13. /\ here \in JobRecord /\ here.pc = "persist" /\ here.batch = batch
       /\ here.more = more /\ here.token = last + 1 /\ here.renewed = FALSE
       /\ here.copy.channel = 0
  <2>1. Idle \in JobRecord /\ Idle.renewed = FALSE /\ Idle.copy.channel = 0
    BY IdleJob DEF Idle
  <2>2. more \in BOOLEAN /\ last + 1 \in Nat
    BY <1>5
  <2> HIDE DEF last, len, more
  <2> QED
    BY <1>12, <2>1, <2>2 DEF JobRecord, JobPc
<1>14. copy \in Runtime /\ copy.cursor = last + 1 /\ copy.channel = runtime.channel
  <2> HIDE DEF last
  <2> QED
    BY <1>5, DriveShapes DEF Runtime
<1> HIDE DEF here, copy
<1>15. \A n \in DOMAIN here.batch : here.batch[n].entries \subseteq 1..len
  <2> HIDE DEF len
  <2>1. \A n \in DOMAIN batch : batch[n].entries \subseteq 1..len
    BY <1>9, <1>12
  <2> QED
    BY <1>13, <2>1
<1>16. /\ JobFits(j, next, len, opened)
       /\ HandOf(next, len) = HandOf(here, len)
       /\ PositionOf(next) = last + 1
       /\ next.pc # "scan"
  <2>1. CASE more
    <3>1. next = Onward(j, here)
      BY <2>1
    <3>2. here.more /\ here.token \in 1..(len + 1) /\ here.copy.channel <= opened
      <4>1. here.more /\ here.token = last + 1
        BY <1>13, <2>1
      <4>2. last + 1 \in 1..(len + 1)
        <5>1. last < len
          BY <2>1
        <5> HIDE DEF last, len
        <5> QED
          BY <1>3, <1>5, <5>1
      <4>3. here.copy.channel <= opened
        BY <1>3, <1>13
      <4> HIDE DEF last, len, opened
      <4> QED
        BY <4>1, <4>2, <4>3
    <3>3. PositionOf(here) = last + 1
      BY <1>13, <3>2 DEF PositionOf
    <3> HIDE DEF next, len, opened, last
    <3> QED
      BY <1>3, <1>4, <1>13, <1>15, <3>1, <3>2, <3>3, OnwardFacts
  <2>2. CASE ~ more
    <3>1. next = saved
      BY <2>2
    <3>2. /\ saved \in JobRecord /\ saved.pc = "save" /\ saved.copy = copy
          /\ saved.batch = batch /\ saved.more = FALSE /\ saved.renewed = FALSE
      BY <1>13, <1>14, <2>2 DEF JobRecord, JobPc
    <3>3. copy.cursor \in 1..(len + 1) /\ copy.channel <= opened
      <4> HIDE DEF last
      <4> QED
        BY <1>3, <1>5, <1>14, DriveShapes
    <3> HIDE DEF saved
    <3>4. JobFits(j, saved, len, opened)
      BY <1>4, <1>13, <1>15, <3>2, <3>3 DEF JobFits
    <3>5. HandOf(saved, len) = HandOf(here, len)
      BY <1>13, <2>2, <3>2 DEF HandOf
    <3>6. PositionOf(saved) = last + 1
      BY <1>14, <3>2 DEF PositionOf
    <3> HIDE DEF next
    <3> QED
      BY <3>1, <3>2, <3>4, <3>5, <3>6
  <2> QED
    BY <2>1, <2>2
<1> HIDE DEF next
<1>17. ASSUME NEW i \in first..len
       PROVE  i \in settled' \cup lost' \cup HandOf(here, len)
  <2> HIDE DEF first, len
  <2>1. i \in Nat /\ (i \in first..last \/ i \in (last + 1)..len)
    <3> HIDE DEF last
    <3> QED
      BY <1>3, <1>4, <1>5
  <2>2. ASSUME i \in kept PROVE i \in HandOf(here, len)
    <3>1. PICK n \in DOMAIN batch : i \in batch[n].entries
      BY <1>10, <1>12, <2>2
    <3> QED
      BY <1>13, <3>1 DEF HandOf
  <2>3. ASSUME i \in (last + 1)..len PROVE i \in HandOf(here, len)
    <3>1. more
      <4> HIDE DEF last
      <4> QED
        BY <1>3, <1>5, <2>3
    <3> QED
      BY <1>13, <2>3, <3>1 DEF HandOf
  <2>4. ASSUME i \in first..last, i \notin kept PROVE i \in settled' \cup lost'
    <3>1. i \in ours => i \in unseen
      BY <2>4 DEF kept
    <3> HIDE DEF ours, unseen, last
    <3> QED
      BY <1>2, <2>4, <3>1
  <2> QED
    BY <2>1, <2>2, <2>3, <2>4
<1>18. DriveTyped' /\ JobsFit' /\ RecordFits' /\ ListedHasCursor'
  <2>1. /\ channels' = [opened |-> channels'.opened, due |-> channels'.due]
        /\ channels'.opened \in Nat /\ channels.opened <= channels'.opened
        /\ channels'.due \subseteq 1..channels'.opened
        /\ JobFits(j, next, len, channels'.opened)
    BY <1>2, <1>3, <1>16, DriveShapes
  <2>2. /\ runtime' \in Runtime /\ runtime'.cursor <= len + 1
        /\ runtime'.channel <= channels'.opened /\ runtime'.cursor = runtime.cursor
    BY <1>2, DriveShapes
  <2>3. /\ intake' = [ledger |-> intake'.ledger, processable |-> intake'.processable]
        /\ LedgerOf(intake'.ledger, File)
    BY <1>2, DriveShapes
  <2>4. settled' \subseteq 1..len /\ lost' \subseteq 1..len /\ scanned' \in BOOLEAN
        /\ ~ (scanned' /\ ~ scanned)
    <3> HIDE DEF first, last, ours, unseen, len
    <3> QED
      BY <1>2, <1>6, <1>8, DriveShapes DEF len
  <2> QED
    BY <1>2, <1>16, <2>1, <2>2, <2>3, <2>4, DriveJobShapes
<1>19. ASSUME NEW i \in 1..len, i < PositionOf(next), ~ (i < PositionOf(job[j]))
       PROVE  i \in settled' \cup lost' \cup HandOf(next, len)
  <2>1. i \in first..len
    <3> HIDE DEF first, last, len
    <3> QED
      BY <1>3, <1>4, <1>7, <1>19
  <2> HIDE DEF first, last, len, ours, unseen
  <2> QED
    BY <1>16, <1>17, <2>1
<1>20. PassedIsAccounted'
  <2>1. \A i \in HandOf(job[j], len) : i \in settled' \cup lost' \cup HandOf(next, len)
    BY <1>7, <1>16, <1>17
  <2>2. settled \subseteq settled' /\ lost \subseteq lost' /\ runtime' = runtime
        /\ scanned' = scanned
    BY <1>2
  <2> HIDE DEF first, last, ours, unseen
  <2> QED
    BY <1>2, <1>19, <2>1, <2>2, DriveJobAccounts
<1> QED
  BY <1>18, <1>20 DEF DriveInv

\* The folder is listed: each entry of the feed is about a file of the batch,
\* or about one that is none of the folder's.
LEMMA DriveScan ==
  ASSUME DriveInv, Scan
  PROVE  DriveInv'
<1> DEFINE j == "mounting"
           len == Len(drive.feed)
           opened == channels.opened
           inside == {f \in File : drive.where[f] = "inside"}
           about(f) == {i \in DOMAIN drive.feed : drive.feed[i].file = f}
           item == [f \in inside |-> Item(Creation(f), about(f))]
           items == {Item(Creation(f), about(f)) : f \in inside}
           batch == SetToSeq(items)
           here == [Idle EXCEPT !.pc = "persist", !.batch = batch]
           next == Onward(j, here)
<1>1. /\ job[j].pc = "scan" /\ j \in Job
      /\ job' = [job EXCEPT ![j] = next]
      /\ settled' = settled \cup UNION {about(f) : f \in File \ inside}
      /\ scanned' = TRUE
      /\ UNCHANGED <<drive, runtime, channels, intake, lost>>
  BY DEF Scan, Job
<1>2. /\ len \in Nat /\ opened \in Nat /\ DOMAIN drive.feed = 1..len
      /\ \A i \in 1..len : drive.feed[i].file \in File
  <2>1. drive.feed \in Seq(Entry) /\ len \in Nat /\ DOMAIN drive.feed = 1..len
    BY FeedLength
  <2>2. \A i \in 1..len : drive.feed[i] \in Entry
    BY <2>1
  <2>3. \A e \in Entry : e.file \in File
    BY DEF Entry
  <2>4. opened \in Nat
    BY FeedLength
  <2> HIDE DEF len, opened
  <2> QED
    BY <2>1, <2>2, <2>3, <2>4
<1>3. IsFiniteSet(items)
  <2>1. IsFiniteSet(inside)
    BY FileAssumption, FS_Subset
  <2>2. items = {item[f] : f \in inside} /\ DOMAIN item = inside
    OBVIOUS
  <2> HIDE DEF items, item, inside
  <2> QED
    BY <2>1, <2>2, FiniteRange
<1>4. items \subseteq DriveItem
  <2> SUFFICES ASSUME NEW f \in inside
               PROVE  Item(Creation(f), about(f)) \in DriveItem
    OBVIOUS
  <2>1. f \in File /\ drive.version[f] \in Nat
    BY DriveShapes DEF DriveTyped
  <2>2. <<f, drive.version[f]>> \in File \X Nat
    BY <2>1
  <2>3. about(f) \in SUBSET Nat
    BY <1>2
  <2> HIDE DEF about
  <2> QED
    BY <2>1, <2>2, <2>3 DEF Creation, Item, Change, Fingerprint, DriveItem, DriveChange, Kind
<1>5. \A x \in items : x.entries \subseteq 1..len
  BY <1>2 DEF Item
<1>6. ASSUME NEW i \in 1..len, drive.feed[i].file \in inside
      PROVE  \E x \in items : i \in x.entries
  <2>1. Item(Creation(drive.feed[i].file), about(drive.feed[i].file)) \in items
    BY <1>6
  <2>2. i \in about(drive.feed[i].file)
    BY <1>2
  <2> QED
    BY <2>1, <2>2 DEF Item
<1> HIDE DEF items
<1>7. /\ batch \in Seq(items)
      /\ \A x \in items : \E n \in DOMAIN batch : batch[n] = x
      /\ DOMAIN batch = 1..Cardinality(items)
  BY <1>3, SetToSeqFacts
<1>8. batch \in Seq(DriveItem)
  BY <1>4, <1>7
<1>9. \A n \in DOMAIN batch : batch[n].entries \subseteq 1..len
  <2> HIDE DEF len, batch
  <2>1. \A n \in DOMAIN batch : batch[n] \in items
    <3>1. batch \in Seq(items)
      BY <1>7
    <3> QED
      BY <3>1
  <2> QED
    BY <1>5, <2>1
<1> HIDE DEF batch
<1>10. /\ here \in JobRecord /\ here.pc = "persist" /\ here.batch = batch
       /\ here.more = FALSE /\ here.copy.channel = 0
  BY <1>8, IdleJob DEF JobRecord, JobPc
<1> HIDE DEF here
<1>11. /\ JobFits(j, next, len, opened)
       /\ HandOf(next, len) = HandOf(here, len)
       /\ PositionOf(next) = PositionOf(here)
       /\ next.pc # "scan"
  <2>1. here.copy.channel <= opened
    BY <1>2, <1>10
  <2>2. here.more => j \in Rounds /\ here.token \in 1..(len + 1)
    BY <1>10
  <2>3. \A n \in DOMAIN here.batch : here.batch[n].entries \subseteq 1..len
    BY <1>9, <1>10
  <2> HIDE DEF next, len, opened, j
  <2> QED
    BY <1>1, <1>2, <1>10, <2>1, <2>2, <2>3, OnwardFacts DEF next
<1> HIDE DEF next
<1>12. ASSUME NEW i \in 1..len
       PROVE  i \in settled' \/ i \in HandOf(next, len)
  <2>1. CASE drive.feed[i].file \in inside
    <3>1. PICK x \in items : i \in x.entries
      BY <1>6, <2>1
    <3>2. PICK n \in DOMAIN batch : batch[n] = x
      BY <1>7
    <3>3. i \in HandOf(here, len)
      BY <1>10, <3>1, <3>2 DEF HandOf
    <3> QED
      BY <1>11, <3>3
  <2>2. CASE drive.feed[i].file \notin inside
    <3>1. drive.feed[i].file \in File \ inside /\ i \in about(drive.feed[i].file)
      BY <1>2, <2>2
    <3> HIDE DEF inside, about
    <3> QED
      BY <1>1, <3>1
  <2> QED
    BY <2>1, <2>2
<1>13. runtime.cursor >= 1
  BY <1>1, DriveShapes DEF ListedHasCursor
<1>14. DriveTyped' /\ JobsFit' /\ RecordFits' /\ ListedHasCursor'
  <2>1. /\ channels' = [opened |-> channels'.opened, due |-> channels'.due]
        /\ channels'.opened \in Nat /\ channels.opened <= channels'.opened
        /\ channels'.due \subseteq 1..channels'.opened
        /\ JobFits(j, next, len, channels'.opened)
    BY <1>1, <1>2, <1>11, DriveShapes
  <2>2. /\ runtime' \in Runtime /\ runtime'.cursor <= len + 1
        /\ runtime'.channel <= channels'.opened /\ runtime'.cursor >= 1
    BY <1>1, <1>13, DriveShapes
  <2>3. /\ intake' = [ledger |-> intake'.ledger, processable |-> intake'.processable]
        /\ LedgerOf(intake'.ledger, File)
    BY <1>1, DriveShapes
  <2>4. settled' \subseteq 1..len /\ lost' \subseteq 1..len /\ scanned' \in BOOLEAN
    <3>1. \A f \in File : about(f) \subseteq 1..len
      BY <1>2
    <3>2. settled \subseteq 1..len /\ lost \subseteq 1..len
      BY DriveShapes
    <3> HIDE DEF about, inside, len
    <3> QED
      BY <1>1, <3>1, <3>2
  <2> QED
    BY <1>1, <2>1, <2>2, <2>3, <2>4, DriveJobShapes
<1>15. PassedIsAccounted'
  <2>1. job'[j] = next
    BY <1>1, DriveShapes
  <2>2. \A i \in 1..len : i \in settled' \/ \E k \in Job : i \in HandOf(job'[k], len)
    BY <1>1, <1>12, <2>1
  <2> HIDE DEF j
  <2> QED
    BY <1>1, <2>2 DEF PassedIsAccounted, Accounted
<1> QED
  BY <1>14, <1>15 DEF DriveInv

\* The round of another workspace moves the cursor to the end: what nobody has
\* in hand is lost to this one.
LEMMA DriveNeighbour ==
  ASSUME DriveInv, ReadForNeighbour
  PROVE  DriveInv'
<1> DEFINE len == Len(drive.feed)
           passed == runtime.cursor .. len
<1>1. /\ runtime.cursor # Unset
      /\ runtime' = [runtime EXCEPT !.cursor = StartToken]
      /\ lost' = lost \cup (passed \ (settled \cup UNION {InHand(k) : k \in Job}))
      /\ UNCHANGED <<drive, channels, intake, job, settled, scanned>>
  BY DEF ReadForNeighbour
<1>2. len \in Nat /\ runtime.cursor \in Nat /\ runtime.cursor >= 1
  BY <1>1, FeedLength, DriveShapes DEF Unset
<1>3. runtime' \in Runtime /\ runtime'.cursor = len + 1 /\ runtime'.channel = runtime.channel
  BY <1>1, <1>2, DriveShapes DEF Runtime, StartToken
<1>4. passed \subseteq 1..len
  BY <1>2
<1>5. DriveTyped'
  BY <1>1, <1>3, DriveShapes DEF DriveTyped
<1>6. JobsFit'
  BY <1>1 DEF DriveInv, JobsFit
<1>7. RecordFits' /\ ListedHasCursor'
  <2>1. lost' \subseteq 1..len
    BY <1>1, <1>4, DriveShapes
  <2> QED
    BY <1>1, <1>2, <1>3, <2>1, DriveShapes DEF RecordFits, ListedHasCursor
<1>8. PassedIsAccounted'
  <2> SUFFICES ASSUME scanned, NEW i \in 1..len
               PROVE  \/ i \in settled \cup lost'
                      \/ \E k \in Job : i \in HandOf(job[k], len)
    BY <1>1 DEF PassedIsAccounted, Accounted
  <2>1. CASE i < runtime.cursor
    <3>1. Accounted(i)
      BY <2>1 DEF DriveInv, PassedIsAccounted
    <3> QED
      BY <1>1, <3>1 DEF Accounted
  <2>2. CASE ~ (i < runtime.cursor)
    <3>1. i \in passed
      BY <1>2, <2>2
    <3>2. \A k \in Job : InHand(k) = HandOf(job[k], len)
      BY JobTyped
    <3> HIDE DEF passed, len
    <3> QED
      BY <1>1, <3>1, <3>2
  <2> QED
    BY <2>1, <2>2
<1> QED
  BY <1>5, <1>6, <1>7, <1>8 DEF DriveInv

LEMMA DriveInitially ==
  DriveInit => DriveInv
<1> SUFFICES ASSUME DriveInit PROVE DriveInv
  OBVIOUS
<1>1. PICK place \in [File -> Place] :
        drive = [where |-> place, version |-> [f \in File |-> 1],
                 feed |-> SetToSeq({[file |-> f, version |-> 1] :
                                      f \in {g \in File : place[g] # "gone"}})]
  BY DEF DriveInit
<1> DEFINE known == {g \in File : place[g] # "gone"}
           entry == [f \in known |-> [file |-> f, version |-> 1]]
           entries == {[file |-> f, version |-> 1] : f \in known}
<1>2. drive = [where |-> place, version |-> [f \in File |-> 1], feed |-> SetToSeq(entries)]
  BY <1>1
<1>3. IsFiniteSet(entries)
  <2>1. IsFiniteSet(known)
    BY FileAssumption, FS_Subset
  <2>2. entries = {entry[f] : f \in known} /\ DOMAIN entry = known
    OBVIOUS
  <2> HIDE DEF entries, entry, known
  <2> QED
    BY <2>1, <2>2, FiniteRange
<1>4. entries \subseteq Entry
  BY DEF Entry
<1> HIDE DEF entries
<1>5. drive.feed \in Seq(Entry)
  <2>1. SetToSeq(entries) \in Seq(entries)
    BY <1>3, SetToSeqFacts
  <2> QED
    BY <1>2, <1>4, <2>1
<1>6. /\ drive = [where |-> drive.where, version |-> drive.version, feed |-> drive.feed]
      /\ drive.where \in [File -> Place] /\ drive.version \in [File -> Nat]
  BY <1>2
<1>7. /\ runtime = [cursor |-> Unset, channel |-> Unset]
      /\ channels = [opened |-> 0, due |-> {}]
      /\ intake = [ledger |-> EmptyLedger(File), processable |-> TRUE]
      /\ job = [k \in Job |-> Idle]
      /\ settled = {} /\ lost = {} /\ scanned = FALSE
  BY DEF DriveInit
<1>8. DriveTyped
  <2>1. runtime \in Runtime
    BY <1>7 DEF Runtime, Unset
  <2>2. job \in [Job -> JobRecord]
    BY <1>7, IdleJob
  <2>3. LedgerOf(intake.ledger, File)
    BY <1>7, EmptyLedgerTyped
  <2> QED
    BY <1>5, <1>6, <1>7, <2>1, <2>2, <2>3 DEF DriveTyped
<1>9. Len(drive.feed) \in Nat
  BY <1>5
<1>10. JobsFit
  BY <1>7, <1>9, IdleHanded DEF JobsFit
<1>11. RecordFits
  BY <1>7, <1>9 DEF RecordFits, Unset
<1>12. ListedHasCursor
  <2>1. job["mounting"].pc = "idle"
    BY <1>7, IdleJob DEF Job
  <2> QED
    BY <1>7, <2>1 DEF ListedHasCursor
<1>13. PassedIsAccounted
  BY <1>7 DEF PassedIsAccounted
<1> QED
  BY <1>8, <1>10, <1>11, <1>12, <1>13 DEF DriveInv

LEMMA DrivePreserved ==
  DriveInv /\ [DriveStep]_driveVars => DriveInv'
<1> SUFFICES ASSUME DriveInv, [DriveStep]_driveVars PROVE DriveInv'
  OBVIOUS
<1>1. ASSUME NEW f \in File, Withdraw(f) \/ \E place \in Place : Touch(f, place)
      PROVE  DriveInv'
  BY <1>1, DriveProvider
<1>2. CASE FallDue \/ RecordHealth
  BY <1>2, DriveCircumstances
<1>3. CASE Attach \/ BeginRenewal
  BY <1>3, DriveBegin
<1>4. CASE ReadForNeighbour
  BY <1>4, DriveNeighbour
<1>5. ASSUME NEW j \in Rounds, BeginRound(j) PROVE DriveInv'
  BY <1>5, DriveBeginRound
<1>6. ASSUME NEW j \in Job, JobStep(j) PROVE DriveInv'
  BY <1>6, DriveList, DriveSave, DrivePersist, DriveRenew, DriveEnsureCursor, DriveScan
     DEF JobStep
<1>7. ASSUME NEW j \in Job, Die(j) PROVE DriveInv'
  BY <1>7, DriveDie
<1>8. CASE UNCHANGED driveVars
  BY <1>8, DriveStutter
<1> QED
  BY <1>1, <1>2, <1>3, <1>4, <1>5, <1>6, <1>7, <1>8 DEF DriveStep

LEMMA DriveInvariant ==
  DriveSpec => []DriveInv
  BY DriveInitially, DrivePreserved, PTL DEF DriveSpec

\* The feed, the record, the ledger and the jobs keep their shapes; nothing is
\* settled or lost that the feed has not.
THEOREM DriveTypeCorrect ==
  DriveSpec => []DriveTypeOK
<1>1. DriveInv => DriveTypeOK
  <2> SUFFICES ASSUME DriveInv PROVE DriveTypeOK
    OBVIOUS
  <2>1. DriveTyped /\ RecordFits /\ DOMAIN drive.feed = 1..Len(drive.feed)
    BY FeedLength DEF DriveInv
  <2>2. \A j \in Job : job[j].pc \in JobPc /\ job[j].copy \in Runtime
    BY <2>1 DEF DriveTyped, JobRecord
  <2> QED
    BY <2>1, <2>2 DEF DriveTypeOK, DriveTyped, RecordFits, LedgerOf
<1> QED
  BY <1>1, DriveInvariant, PTL

\* The cursor of a listed folder passes an entry of the feed only with somebody
\* to answer for it: with any number of files, pages, jobs, channels, faults
\* and rounds of other workspaces.
THEOREM NothingSkippedCorrect ==
  DriveSpec => []NothingSkipped
<1>1. DriveInv => NothingSkipped
  <2> SUFFICES ASSUME DriveInv, scanned, NEW i \in 1..(runtime.cursor - 1)
               PROVE  i \in settled \cup lost \cup UNION {InHand(j) : j \in Job}
    BY DEF NothingSkipped
  <2>1. i \in 1..Len(drive.feed) /\ i < runtime.cursor
    BY FeedLength, DriveShapes
  <2>2. Accounted(i)
    BY <2>1 DEF DriveInv, PassedIsAccounted
  <2>3. \A j \in Job : InHand(j) = HandOf(job[j], Len(drive.feed))
    BY JobTyped
  <2> QED
    BY <2>2, <2>3 DEF Accounted
<1> QED
  BY <1>1, DriveInvariant, PTL

-----------------------------------------------------------------------------
(* The two sources in one specification.                                   *)

\* A behaviour of the two is one of each: of the source chosen at the start,
\* and of the other at rest.
LEMMA FeedsParts ==
  Spec => DriveSpec /\ DeskSpec
<1>1. Init => DriveInit /\ DeskInit
  BY DEF Init
<1>2. [Next]_feedVars => [DriveStep]_driveVars /\ [DeskStep]_deskVars
  BY DEF Next, OnDrive, OnDesktop, feedVars
<1> QED
  BY <1>1, <1>2, PTL DEF Spec, DriveSpec, DeskSpec

\* The one that moves and the one at rest keep their types, whichever is
\* chosen at the start.
THEOREM FeedsTypeCorrect ==
  Spec => []FeedsTypeOK
BY FeedsParts, DriveTypeCorrect, DeskTypeCorrect, PTL DEF FeedsTypeOK
=============================================================================
