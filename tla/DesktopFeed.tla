---------------------------- MODULE DesktopFeed ----------------------------
(***************************************************************************)
(* One local folder: the watcher of the desktop application, its queue of  *)
(* events, and the ledger they are reported to.                            *)
(*                                                                         *)
(* The watcher waits 3 s after the last raw event of a path (debounce) and *)
(* holds a DELETE back another 2 s for a CREATE of the same content to make *)
(* it a MOVE.  The times are abstracted to what their order decides: an    *)
(* entry made while a DELETE is held back is flushed after that DELETE.    *)
(* The queue reports one event at a time and tries its head again for ever. *)
(***************************************************************************)
EXTENDS SourceIntake, Sequences, FiniteSets

CONSTANTS
  DeskPath,       \* watched paths of the folder
  Content,        \* contents of a file, told apart by their hashes
  QueueCapacity,  \* maximumPending
  MaxEdits,       \* bound: changes of the folder
  MaxQuits,       \* bound: times the application is closed
  MaxUnanswered   \* bound: answers of the server that are lost

ASSUME CapacityAssumption == QueueCapacity \in Nat \ {0}
ASSUME DesktopBounds == MaxEdits \in Nat /\ MaxQuits \in Nat /\ MaxUnanswered \in Nat

VARIABLES
  folder,      \* the content of each path, or Absent
  open,        \* the application runs
  debounce,    \* pending: the path's entry, and the held DELETEs older than it
  cache,       \* contentHashCache
  held,        \* timers of the DELETEs held back
  heldBy,      \* pendingDeletes: which of them a content finds
  queue,       \* pending of RetryingDesktopEventQueue
  deskLedger,  \* the canonical ledger of the mount
  deskUsed,    \* how often each bounded thing happened
  gap,         \* something was lost: no room, or the application was closed
  returned     \* a change came back under a fingerprint on record and was passed over

deskVars == <<folder, open, debounce, cache, held, heldBy, queue, deskLedger,
              deskUsed, gap, returned>>

Absent == "absent"
ASSUME ContentAssumption == Absent \notin Content
Nothing == [kind |-> "none", after |-> {}]
Held == [path : DeskPath, content : Content]
DeskEvent(kind, path, content, previous) ==
  [kind |-> kind, path |-> path, content |-> content, previous |-> previous]

DeskInit ==
  /\ \E files \in [DeskPath -> Content \cup {Absent}] : folder = files
  /\ open = FALSE
  /\ debounce = [p \in DeskPath |-> Nothing]
  /\ cache = [p \in DeskPath |-> Absent]
  /\ held = {}
  /\ heldBy = [c \in Content |-> {}]
  /\ queue = <<>>
  /\ deskLedger = EmptyLedger(DeskPath)
  /\ deskUsed = [edits |-> 0, quits |-> 0, unanswered |-> 0]
  /\ gap = FALSE
  /\ returned = FALSE
-----------------------------------------------------------------------------
(* The folder, and the raw events of the watcher.                          *)

\* schedule: the latest raw event of a path replaces the one waiting.
Scheduled(entries) ==
  [p \in DeskPath |-> IF p \in DOMAIN entries
                      THEN [kind |-> entries[p], after |-> held]
                      ELSE debounce[p]]

Edit(files, entries) ==
  /\ deskUsed.edits < MaxEdits
  /\ deskUsed' = [deskUsed EXCEPT !.edits = @ + 1]
  /\ folder' = files
  /\ debounce' = IF open THEN Scheduled(entries) ELSE debounce
  /\ gap' = (gap \/ ~ open)
  /\ UNCHANGED <<open, cache, held, heldBy, queue, deskLedger, returned>>

Write(p, c) ==
  /\ folder[p] # c
  /\ Edit([folder EXCEPT ![p] = c],
          [q \in {p} |-> IF folder[p] = Absent THEN "CREATE" ELSE "UPDATE"])
Unlink(p) ==
  /\ folder[p] # Absent
  /\ Edit([folder EXCEPT ![p] = Absent], [q \in {p} |-> "DELETE"])
Rename(p, q) ==
  /\ folder[p] # Absent /\ folder[q] = Absent
  /\ Edit([folder EXCEPT ![p] = Absent, ![q] = folder[p]],
          [r \in {p, q} |-> IF r = p THEN "DELETE" ELSE "CREATE"])

\* startWatchingMount: every file there is is an "add", every time.
Open ==
  /\ ~ open
  /\ open' = TRUE
  /\ debounce' = Scheduled([p \in {q \in DeskPath : folder[q] # Absent} |-> "CREATE"])
  /\ UNCHANGED <<folder, cache, held, heldBy, queue, deskLedger, deskUsed, gap, returned>>

\* The application ends: what waits, what is held back and the queue are gone.
Quit ==
  /\ open /\ deskUsed.quits < MaxQuits
  /\ deskUsed' = [deskUsed EXCEPT !.quits = @ + 1]
  /\ gap' = (gap \/ held # {} \/ queue # <<>>
                 \/ \E p \in DeskPath : debounce[p] # Nothing)
  /\ open' = FALSE
  /\ debounce' = [p \in DeskPath |-> Nothing]
  /\ cache' = [p \in DeskPath |-> Absent]
  /\ held' = {} /\ heldBy' = [c \in Content |-> {}]
  /\ queue' = <<>>
  /\ UNCHANGED <<folder, deskLedger, returned>>
-----------------------------------------------------------------------------
(* The watcher's timers.                                                   *)

\* enqueue: a full queue throws, and the event is lost.
Enqueue(event) ==
  IF Len(queue) < QueueCapacity
  THEN queue' = Append(queue, event) /\ UNCHANGED gap
  ELSE gap' = TRUE /\ UNCHANGED queue

\* Mutant: a DELETE is held back for longer than the debounce.
RipeEarly(p) == debounce[p] # Nothing
Ripe(p) == debounce[p] # Nothing /\ debounce[p].after \cap held = {}
Taken(p) == debounce' = [debounce EXCEPT ![p] = Nothing]

\* flush of a DELETE: held back, or dropped if this watcher never reported the
\* path, which the server may have from an earlier one.
FlushDelete(p) ==
  /\ Ripe(p) /\ debounce[p].kind = "DELETE"
  /\ Taken(p)
  /\ cache' = [cache EXCEPT ![p] = Absent]
  /\ IF cache[p] = Absent
     THEN /\ gap' = (gap \/ deskLedger.artifact[p] = "AVAILABLE")
          /\ UNCHANGED <<held, heldBy>>
     ELSE LET timer == [path |-> p, content |-> cache[p]]
          IN  /\ held' = held \cup {timer}
              /\ heldBy' = [heldBy EXCEPT ![cache[p]] = {timer}]
              /\ UNCHANGED gap
  /\ UNCHANGED <<folder, open, queue, deskLedger, deskUsed, returned>>

\* flush of a CREATE whose content a held DELETE has: a MOVE.
FlushMove(p) ==
  \E timer \in Held :
    /\ Ripe(p) /\ debounce[p].kind = "CREATE"
    /\ timer \in heldBy[folder[p]]
    /\ Taken(p)
    /\ held' = held \ {timer}
    /\ heldBy' = [heldBy EXCEPT ![folder[p]] = {}]
    /\ cache' = [cache EXCEPT ![p] = folder[p]]
    /\ Enqueue(DeskEvent("MOVE", p, folder[p], timer.path))
    /\ UNCHANGED <<folder, open, deskLedger, deskUsed, returned>>

\* flush of any other CREATE, or of an UPDATE.
FlushChange(p) ==
  /\ Ripe(p) /\ debounce[p].kind # "DELETE"
  /\ debounce[p].kind = "CREATE" => heldBy[folder[p]] = {}
  /\ Taken(p)
  /\ cache' = [cache EXCEPT ![p] = folder[p]]
  /\ Enqueue(DeskEvent(debounce[p].kind, p, folder[p], p))
  /\ UNCHANGED <<folder, open, held, heldBy, deskLedger, deskUsed, returned>>

\* The window of a held DELETE closes; it takes down whatever its content
\* finds by now.
ReleaseDelete(timer) ==
  /\ timer \in held
  /\ held' = held \ {timer}
  /\ heldBy' = [heldBy EXCEPT ![timer.content] = {}]
  /\ Enqueue(DeskEvent("DELETE", timer.path, Absent, timer.path))
  /\ UNCHANGED <<folder, open, debounce, cache, deskLedger, deskUsed, returned>>
-----------------------------------------------------------------------------
(* The queue and the server.                                               *)

\* handle_desktop_event: the fingerprint is path and content; a DELETE has none.
Received(event) ==
  Change(<<event.path, event.content>>, event.kind, event.path, event.previous, "none")

\* A file that is gone when its turn comes is not reported, nor, if it was
\* moved, that it left its old place.
Unreadable(event) == event.kind # "DELETE" /\ folder[event.path] = Absent
HeadRefused ==
  /\ queue # <<>>
  /\ ~ Unreadable(Head(queue))
  /\ Refused(deskLedger, Received(Head(queue)), TRUE)

\* Mutant: a file that cannot be read is tried again like a refused one.
SkipNever ==
  /\ queue # <<>> /\ Unreadable(Head(queue))
  /\ UNCHANGED deskVars
Skip ==
  /\ queue # <<>> /\ Unreadable(Head(queue))
  /\ queue' = Tail(queue)
  /\ gap' = (gap \/ Head(queue).kind = "MOVE")
  /\ UNCHANGED <<folder, open, debounce, cache, held, heldBy, deskLedger, deskUsed,
                 returned>>

\* The server takes the event; a refusal or an outage leaves all as it is.
Report(answered) ==
  LET change == Received(Head(queue)) IN
  /\ queue # <<>> /\ ~ Unreadable(Head(queue)) /\ ~ HeadRefused
  /\ deskLedger' = Registered(deskLedger, change)
  /\ returned' = (returned \/ /\ OnRecord(deskLedger, change.fingerprint)
                              /\ ArtifactsAfter(deskLedger, change) # deskLedger.artifact)
  /\ IF answered
     THEN queue' = Tail(queue) /\ UNCHANGED deskUsed
     ELSE /\ deskUsed.unanswered < MaxUnanswered
          /\ deskUsed' = [deskUsed EXCEPT !.unanswered = @ + 1]
          /\ UNCHANGED queue
  /\ UNCHANGED <<folder, open, debounce, cache, held, heldBy, gap>>

Flush(p) == FlushDelete(p) \/ FlushMove(p) \/ FlushChange(p)
DeskStep ==
  \/ \E p \in DeskPath : \/ \E c \in Content : Write(p, c)
                         \/ \E q \in DeskPath : Rename(p, q)
                         \/ Unlink(p) \/ Flush(p)
  \/ Open \/ Quit \/ Skip
  \/ \E timer \in Held : ReleaseDelete(timer)
  \/ \E answered \in BOOLEAN : Report(answered)

DeskSpec == DeskInit /\ [][DeskStep]_deskVars
DeskFairSpec ==
  /\ DeskSpec
  /\ WF_deskVars(Open)
  /\ \A p \in DeskPath : WF_deskVars(Flush(p))
  /\ \A timer \in Held : WF_deskVars(ReleaseDelete(timer))
  /\ WF_deskVars(Skip \/ Report(TRUE))
-----------------------------------------------------------------------------
DeskTypeOK ==
  /\ folder \in [DeskPath -> Content \cup {Absent}]
  /\ cache \in [DeskPath -> Content \cup {Absent}]
  /\ \A p \in DeskPath : /\ debounce[p].kind \in Kind \cup {"none"}
                         /\ debounce[p].after \subseteq Held
  /\ held \subseteq Held
  /\ heldBy \in [Content -> SUBSET held]
  /\ Len(queue) <= QueueCapacity
  /\ deskLedger.artifact \in [DeskPath -> Availability]

AtRest ==
  /\ open /\ held = {} /\ queue = <<>>
  /\ \A p \in DeskPath : debounce[p] = Nothing
Mirrored ==
  \A p \in DeskPath :
    (folder[p] # Absent) <=> (deskLedger.artifact[p] = "AVAILABLE")

\* Once all is reported and nothing was lost or passed over, the ledger has
\* the files of the folder and no others, whatever the renames, the timers
\* and the order of the events.
FolderIsMirrored == AtRest /\ ~ gap /\ ~ returned => Mirrored

\* The queue does not stand still unless the server refuses its head, and so
\* the folder ends up mirrored unless something was lost or passed over.
FolderSettles == <>[]((AtRest /\ Mirrored) \/ gap \/ returned \/ HeadRefused)

\* "The server filters repetitions by fingerprint: the same content converges
\* to the same change" (startWatchingMount).
ReportsConverge ==
  queue # <<>> => ~ Clashes(deskLedger, Received(Head(queue)))
=============================================================================
