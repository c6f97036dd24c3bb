----------------------------- MODULE DriveFeed -----------------------------
(***************************************************************************)
(* One mounted Google Drive folder: the change feed of the service         *)
(* account, the cursor kept in DriveRuntime, and the jobs that read the    *)
(* one and move the other without a lock: the request that mounts the      *)
(* folder and scans it, the webhook, the reconciliation every 15 minutes   *)
(* and the renewal of the channel every 6 hours.                           *)
(*                                                                         *)
(* A job is an async function: between two awaits the others run.  Its     *)
(* steps are the calls it makes, DriveRuntime is loaded and saved whole.   *)
(***************************************************************************)
EXTENDS SourceIntake, Sequences, SequencesExt, FiniteSets

CONSTANTS
  File,        \* Drive file ids
  PageSize,    \* changes on a page of the feed
  MaxFeed,     \* bound: entries of the feed
  MaxAttach,   \* bound: times the folder is mounted
  MaxChannel,  \* bound: channels opened
  MaxJobs,     \* bound: jobs under way at once
  MaxFaults    \* bound: jobs that die, look-ups that fail, outages, channels that
               \* run out, rounds of another workspace, together

ASSUME FileAssumption == IsFiniteSet(File)
ASSUME PageAssumption == PageSize \in Nat \ {0}
ASSUME DriveBounds == /\ MaxFeed \in Nat /\ MaxAttach \in Nat /\ MaxChannel \in Nat
                      /\ MaxJobs \in Nat
                      /\ MaxFaults \in Nat

Rounds == {"webhook", "schedule"}
Job == Rounds \cup {"mounting", "renewal"}
Unset == 0

VARIABLES
  drive,    \* the provider: where a file is, its version, the feed
  runtime,  \* DriveRuntime: change_cursor and watch channel
  channels, \* channels opened so far, and those about to expire
  intake,   \* the canonical ledger of the mount, and whether it takes changes
  job,      \* the jobs under way
  feedUsed, \* how often each bounded thing happened
  settled,  \* feed entries registered, covered by the scan or passed over
  lost,     \* feed entries a job dropped
  scanned,  \* the folder has been listed
  clashed   \* a change was refused for a fingerprint it shares

driveVars == <<drive, runtime, channels, intake, job, feedUsed, settled, lost,
               scanned, clashed>>

Place == {"inside", "elsewhere", "gone"}
Entry == [file : File, version : Nat]  \* version 0: removed
Removed(entry) == entry.version = 0
Runtime == [cursor : Nat, channel : Nat]

Idle == [pc |-> "idle", token |-> Unset, more |-> FALSE,
         copy |-> [cursor |-> Unset, channel |-> Unset], renewed |-> FALSE,
         batch |-> <<>>]
JobPc == {"idle", "ensure", "scan", "list", "save", "persist", "renew"}

\* An item of a batch: the change, and the feed entries it stands for.
Item(change, entries) == [change |-> change, entries |-> entries]
DriveInit ==
  /\ \E place \in [File -> Place] :
       drive = [where |-> place, version |-> [f \in File |-> 1],
                feed |-> SetToSeq({[file |-> f, version |-> 1] :
                                     f \in {g \in File : place[g] # "gone"}})]
  /\ runtime = [cursor |-> Unset, channel |-> Unset]
  /\ channels = [opened |-> 0, due |-> {}]
  /\ intake = [ledger |-> EmptyLedger(File), processable |-> TRUE]
  /\ job = [j \in Job |-> Idle]
  /\ feedUsed = [attach |-> 0, fault |-> 0]
  /\ settled = {}
  /\ lost = {}
  /\ scanned = FALSE
  /\ clashed = FALSE
-----------------------------------------------------------------------------
(* The provider.                                                           *)

Publish(f, version) == Append(drive.feed, [file |-> f, version |-> version])

\* The account has seen the file before.
SeenBefore(f) == \E i \in DOMAIN drive.feed : drive.feed[i].file = f

\* Someone edits a file, or moves or copies it to another folder; one that the
\* account had lost sight of may come back as it was.
Touch(f, place) ==
  /\ Len(drive.feed) < MaxFeed
  /\ place \in Place \ {"gone"}
  /\ \E v \in {drive.version[f] + 1} \cup
              (IF drive.where[f] = "gone" /\ SeenBefore(f)
               THEN {drive.version[f]} ELSE {}) :
       drive' = [where |-> [drive.where EXCEPT ![f] = place],
                 version |-> [drive.version EXCEPT ![f] = v],
                 feed |-> Publish(f, v)]
  /\ UNCHANGED <<runtime, channels, intake, job, feedUsed, settled, lost, scanned, clashed>>

\* The service account loses sight of a file: deleted, or shared no longer.
Withdraw(f) ==
  /\ Len(drive.feed) < MaxFeed
  /\ drive.where[f] # "gone"
  /\ drive' = [drive EXCEPT !.where[f] = "gone", !.feed = Publish(f, 0)]
  /\ UNCHANGED <<runtime, channels, intake, job, feedUsed, settled, lost, scanned, clashed>>

StartToken == Len(drive.feed) + 1

\* A channel comes within a day of its end.
FallDue ==
  /\ runtime.channel # Unset /\ runtime.channel \notin channels.due
  /\ feedUsed.fault < MaxFaults
  /\ channels' = [channels EXCEPT !.due = @ \cup {runtime.channel}]
  /\ feedUsed' = [feedUsed EXCEPT !.fault = @ + 1]
  /\ UNCHANGED <<drive, runtime, intake, job, settled, lost, scanned, clashed>>
-----------------------------------------------------------------------------
(* The jobs.                                                               *)

Goto(j, pc) == job' = [job EXCEPT ![j] = [Idle EXCEPT !.pc = pc]]

MayStart(j) ==
  /\ job[j].pc = "idle"
  /\ Cardinality({k \in Job : job[k].pc # "idle"}) < MaxJobs

\* Mutant: the pages after the first are left to the next round.
OnwardOnePage(j, here) ==
  IF here.batch # <<>> THEN here
  ELSE IF j = "mounting" THEN [Idle EXCEPT !.pc = "renew"]
  ELSE Idle

\* Where a job goes once its batch is registered: the next page, the channel,
\* or the end.
Onward(j, here) ==
  IF here.batch # <<>> THEN here
  ELSE IF j = "mounting" THEN [Idle EXCEPT !.pc = "renew"]
  ELSE IF here.more THEN [here EXCEPT !.pc = "list"]
  ELSE Idle

\* mount_shared_folder, from the moment the tracking scope is saved.
Attach ==
  /\ MayStart("mounting")
  /\ feedUsed.attach < MaxAttach
  /\ feedUsed' = [feedUsed EXCEPT !.attach = @ + 1]
  /\ Goto("mounting", "ensure")
  /\ UNCHANGED <<drive, runtime, channels, intake, settled, lost, scanned, clashed>>

\* Mutant: a new record is saved instead of a copy of the one on record.
EnsureCursorFresh ==
  /\ job["mounting"].pc = "ensure"
  /\ IF runtime.cursor # Unset
     THEN Goto("mounting", "scan")
     ELSE job' = [job EXCEPT !["mounting"].pc = "save",
                             !["mounting"].copy = [cursor |-> StartToken]]
  /\ UNCHANGED <<drive, runtime, channels, intake, feedUsed, settled, lost, scanned, clashed>>

\* _ensure_change_cursor: the position of the feed before the listing.
EnsureCursor ==
  /\ job["mounting"].pc = "ensure"
  /\ IF runtime.cursor # Unset
     THEN Goto("mounting", "scan")
     ELSE job' = [job EXCEPT !["mounting"].pc = "save",
                             !["mounting"].copy = [runtime EXCEPT !.cursor = StartToken]]
  /\ UNCHANGED <<drive, runtime, channels, intake, feedUsed, settled, lost, scanned, clashed>>

Fingerprint(f, version) == <<f, version>>
Creation(f) ==
  Change(Fingerprint(f, drive.version[f]), "CREATE", f, f, "none")

\* initial_changes: everything under the folder now, as CREATE.
Scan ==
  LET inside == {f \in File : drive.where[f] = "inside"}
      about(f) == {i \in DOMAIN drive.feed : drive.feed[i].file = f}
  IN  /\ job["mounting"].pc = "scan"
      /\ job' = [job EXCEPT !["mounting"] =
           Onward("mounting", [Idle EXCEPT !.pc = "persist",
             !.batch = SetToSeq({Item(Creation(f), about(f)) : f \in inside})])]
      /\ settled' = settled \cup UNION {about(f) : f \in File \ inside}
      /\ scanned' = TRUE
      /\ UNCHANGED <<drive, runtime, channels, intake, feedUsed, lost, clashed>>

\* A notification or the clock starts reconcile; it reads the stored cursor.
BeginRound(j) ==
  /\ MayStart(j)
  /\ IF j = "webhook" THEN runtime.channel # Unset ELSE feedUsed.attach > 0
  /\ job' = [job EXCEPT ![j].pc = "list",
                        ![j].token = IF runtime.cursor = Unset THEN StartToken
                                     ELSE runtime.cursor]
  /\ UNCHANGED <<drive, runtime, channels, intake, feedUsed, settled, lost, scanned, clashed>>

Reported(i) ==
  LET entry == drive.feed[i]
  IN  Item(Change(Fingerprint(entry.file, entry.version),
                  IF Removed(entry) THEN "DELETE" ELSE "UPDATE",
                  entry.file, entry.file, "none"), {i})

\* One page of reconcile.  A removed file is reported whatever folder it was
\* in; of the others those whose parents lead to the folder now.  A look-up
\* that fails counts as "not ours".  After the last page the new start token
\* is kept, before the changes of the page reach the caller.
List(j) ==
  \E unread \in SUBSET File :
    LET first == job[j].token
        last == IF first + PageSize - 1 < Len(drive.feed)
                THEN first + PageSize - 1 ELSE Len(drive.feed)
        more == last < Len(drive.feed)
        ours == {i \in first..last : \/ Removed(drive.feed[i])
                                     \/ drive.where[drive.feed[i].file] = "inside"}
        missed == {i \in ours : ~ Removed(drive.feed[i]) /\ drive.feed[i].file \in unread}
        taken == Ascending(ours \ missed)
        here == [Idle EXCEPT !.batch = [n \in DOMAIN taken |-> Reported(taken[n])],
                             !.more = more, !.token = last + 1, !.pc = "persist"]
    IN  /\ job[j].pc = "list"
        /\ unread = {drive.feed[i].file : i \in missed}
        /\ unread = {} \/ feedUsed.fault < MaxFaults
        /\ job' = [job EXCEPT ![j] =
             IF more THEN Onward(j, here)
             ELSE [here EXCEPT !.pc = "save", !.copy = [runtime EXCEPT !.cursor = last + 1]]]
        /\ settled' = settled \cup ((first..last) \ ours)
        /\ lost' = lost \cup missed
        /\ feedUsed' = [feedUsed EXCEPT !.fault =
                          IF unread = {} THEN @ ELSE @ + 1]
        /\ UNCHANGED <<drive, runtime, channels, intake, scanned, clashed>>

\* RuntimeStore.save writes the whole record.
SaveRuntime(j) ==
  LET saved == [job[j] EXCEPT !.copy = Idle.copy, !.pc = "persist"]
  IN  /\ job[j].pc = "save"
      /\ runtime' = job[j].copy
      /\ job' = [job EXCEPT ![j] =
           IF j = "renewal" \/ saved.renewed THEN Idle
           ELSE IF j = "mounting" THEN [Idle EXCEPT !.pc = "scan"]
           ELSE Onward(j, saved)]
      /\ UNCHANGED <<drive, channels, intake, feedUsed, settled, lost, scanned, clashed>>

\* What a job has yet to hand over: its batch, and the pages it has yet to
\* read of the feed as it saw it.
InHand(j) ==
  (UNION {job[j].batch[n].entries : n \in DOMAIN job[j].batch}) \cup
  (IF job[j].pc = "list" \/ job[j].more THEN job[j].token .. Len(drive.feed) ELSE {})

\* The cursor a job is to save, or will have read up to before it does.
Position(j) ==
  IF job[j].pc = "save" THEN job[j].copy.cursor
  ELSE IF job[j].pc = "list" \/ job[j].more THEN job[j].token ELSE Unset

\* Nobody but j is sure to read the entry again: the cursor has passed it, or
\* a job is on its way to set the cursor past it.
PassedBesides(i, j) ==
  i < runtime.cursor \/ \E k \in Job \ {j} : i < Position(k)

\* What the death of a job leaves undone for good: the scan is not repeated,
\* and while there is no cursor only this job knew of its entries.
Dropped(j) ==
  {i \in InHand(j) : j = "mounting" \/ runtime.cursor = Unset \/ PassedBesides(i, j)}

\* sink.persist of the next change; an exception ends the job.
Persist(j) ==
  LET item == Head(job[j].batch) IN
  /\ job[j].pc = "persist"
  /\ IF Refused(intake.ledger, item.change, intake.processable)
     THEN /\ lost' = lost \cup Dropped(j)
          /\ job' = [job EXCEPT ![j] = Idle]
          /\ UNCHANGED <<intake, settled>>
     ELSE /\ intake' = [intake EXCEPT !.ledger = Registered(@, item.change)]
          /\ settled' = settled \cup item.entries
          /\ job' = [job EXCEPT ![j] = Onward(j, [@ EXCEPT !.batch = Tail(job[j].batch)])]
          /\ UNCHANGED lost
  /\ clashed' = (clashed \/ Clashes(intake.ledger, item.change))
  /\ UNCHANGED <<drive, runtime, channels, feedUsed, scanned>>

BeginRenewal ==
  /\ MayStart("renewal") /\ feedUsed.attach > 0
  /\ Goto("renewal", "renew")
  /\ UNCHANGED <<drive, runtime, channels, intake, feedUsed, settled, lost, scanned, clashed>>

\* Mutant: a new channel starts at the feed's present end.
RenewFromNow(j) ==
  /\ job[j].pc = "renew"
  /\ IF \/ runtime.channel # Unset /\ runtime.channel \notin channels.due
        \/ channels.opened = MaxChannel
     THEN job' = [job EXCEPT ![j] = Idle] /\ UNCHANGED channels
     ELSE /\ channels' = [channels EXCEPT !.opened = @ + 1]
          /\ job' = [job EXCEPT ![j] =
               [Idle EXCEPT !.pc = "save", !.renewed = TRUE,
                  !.copy = [cursor |-> StartToken, channel |-> channels.opened + 1]]]
  /\ UNCHANGED <<drive, runtime, intake, feedUsed, settled, lost, scanned, clashed>>

\* renew_watch: a channel that is absent or about to expire is replaced, and
\* the record it found is written back with it.
Renew(j) ==
  /\ job[j].pc = "renew"
  /\ IF \/ runtime.channel # Unset /\ runtime.channel \notin channels.due
        \/ channels.opened = MaxChannel  \* Google refuses: tolerated
     THEN job' = [job EXCEPT ![j] = Idle] /\ UNCHANGED channels
     ELSE /\ channels' = [channels EXCEPT !.opened = @ + 1]
          /\ job' = [job EXCEPT ![j] =
               [Idle EXCEPT !.pc = "save", !.renewed = TRUE,
                  !.copy = [cursor |-> IF runtime.cursor = Unset THEN StartToken
                                       ELSE runtime.cursor,
                            channel |-> channels.opened + 1]]]
  /\ UNCHANGED <<drive, runtime, intake, feedUsed, settled, lost, scanned, clashed>>

\* The instance stops, or a call of the job raises.
Die(j) ==
  /\ job[j].pc # "idle"
  /\ feedUsed.fault < MaxFaults
  /\ feedUsed' = [feedUsed EXCEPT !.fault = @ + 1]
  /\ lost' = lost \cup Dropped(j)
  /\ job' = [job EXCEPT ![j] = Idle]
  /\ UNCHANGED <<drive, runtime, channels, intake, settled, scanned, clashed>>

\* Another workspace of the same person follows the folder.  The connection
\* is named by the folder alone, so its rounds read and move this cursor,
\* and register what they read with its own mount.
ReadForNeighbour ==
  LET passed == runtime.cursor .. Len(drive.feed)
  IN  /\ feedUsed.fault < MaxFaults
      /\ runtime.cursor # Unset /\ passed # {}
      /\ runtime' = [runtime EXCEPT !.cursor = StartToken]
      /\ lost' = lost \cup (passed \ (settled \cup UNION {InHand(j) : j \in Job}))
      /\ feedUsed' = [feedUsed EXCEPT !.fault = @ + 1]
      /\ UNCHANGED <<drive, channels, intake, job, settled, scanned, clashed>>

\* refresh_source_health finds the source offline, or well again.
RecordHealth ==
  /\ feedUsed.attach > 0
  /\ \/ intake.processable /\ feedUsed.fault < MaxFaults
     \/ ~ intake.processable
  /\ intake' = [intake EXCEPT !.processable = ~ @]
  /\ feedUsed' = [feedUsed EXCEPT !.fault =
                    IF intake.processable THEN @ + 1 ELSE @]
  /\ UNCHANGED <<drive, runtime, channels, job, settled, lost, scanned, clashed>>

JobStep(j) ==
  \/ List(j) \/ SaveRuntime(j) \/ Persist(j) \/ Renew(j)
  \/ j = "mounting" /\ (EnsureCursor \/ Scan)

DriveStep ==
  \/ \E f \in File : Withdraw(f) \/ \E place \in Place : Touch(f, place)
  \/ FallDue \/ Attach \/ BeginRenewal \/ RecordHealth
  \/ ReadForNeighbour
  \/ \E j \in Rounds : BeginRound(j)
  \/ \E j \in Job : JobStep(j) \/ Die(j)

DriveSpec == DriveInit /\ [][DriveStep]_driveVars
DriveFairSpec ==
  /\ DriveSpec
  /\ SF_driveVars(BeginRound("schedule"))
  /\ WF_driveVars(RecordHealth /\ ~ intake.processable)
  /\ \A j \in Job : WF_driveVars(JobStep(j))
-----------------------------------------------------------------------------
DriveTypeOK ==
  /\ drive.where \in [File -> Place] /\ drive.version \in [File -> Nat]
  /\ drive.feed \in Seq(Entry)
  /\ runtime \in Runtime
  /\ channels.opened \in Nat /\ channels.due \subseteq 1..channels.opened
  /\ intake.ledger.artifact \in [File -> Availability]
  /\ \A j \in Job : job[j].pc \in JobPc /\ job[j].copy \in Runtime
  /\ settled \subseteq DOMAIN drive.feed /\ lost \subseteq DOMAIN drive.feed

\* The cursor passes an entry of the feed only with somebody to answer for
\* it: it is registered, covered by the scan or none of the folder's, or a
\* job has it in hand, or a job that died or was refused dropped it, or the
\* round of another workspace took it.
NothingSkipped ==
  scanned => \A i \in 1..(runtime.cursor - 1) :
    i \in settled \cup lost \cup UNION {InHand(j) : j \in Job}

AllSettled == \A i \in DOMAIN drive.feed : i \in settled

\* Once the folder is listed, the rounds of the schedule bring every change of
\* the feed to the ledger or find it none of the folder's, unless some were
\* lost or a fingerprint clashed.
FeedSettled == scanned ~> (lost # {} \/ clashed \/ AllSettled)
=============================================================================
