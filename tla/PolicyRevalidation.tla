------------------------- MODULE PolicyRevalidation -------------------------
(***************************************************************************)
(* The settings of a workspace that decide about its dependency files: the *)
(* ignore rules the security gate applies and the license profile the      *)
(* analyzer reads, each in its own moment of a run.  Saving the profile    *)
(* asks for the files to be analyzed again, saving the rules does not; the *)
(* daily revalidation asks again, and is refused where a run is under way. *)
(*                                                                         *)
(* The files are those of ONE mount among the first the schedule reaches.  *)
(* A change stands for its event and job, which AnalysisExecution has with *)
(* attempts and late executions; here a run ends before its lease does.    *)
(***************************************************************************)
EXTENDS Naturals, Sequences, SequencesExt, FiniteSets

CONSTANTS
  DependencyFile, \* dependency files, in the order of their documents
  RequestLimit,   \* revalidate_mount_licenses: limit
  MaxSaves,       \* bound: settings saved
  MaxRevisions,   \* bound: changes of the files
  MaxUpsets       \* bound: runs and sweeps that die, runs that fail, enqueues lost

ASSUME DependencyFileAssumption == DependencyFile \subseteq Nat /\ IsFiniteSet(DependencyFile)
ASSUME RevalidationBounds == /\ RequestLimit \in Nat /\ MaxSaves \in Nat
                             /\ MaxRevisions \in Nat /\ MaxUpsets \in Nat

Daily == 0
Sweep == Daily .. MaxSaves    \* the schedule's, and one of each saved profile

VARIABLES
  settings,    \* RiskWorkspace: license_profile and global_ignore_text
  newest,      \* the newest change of each file: its rank (0: none yet), the
               \* status of its event, whether a lease protects its run
  queued,      \* files with a task for it
  run,         \* its execution and the profile it has read
  standing,    \* what the ledger holds of the file: the last verdict, or
               \* that the rules leave it out
  sweep,       \* the revalidations under way: what they have still to ask
               \* for and how many files they asked for
  policyUsed   \* how often each bounded thing happened

policyVars == <<settings, newest, queued, run, standing, sweep, policyUsed>>

NoRun == [at |-> "none", profile |-> 0]
NoSweep == [at |-> "idle", todo |-> <<>>, requested |-> 0]

PolicyInit ==
  /\ settings = [profile |-> 1, ignored |-> {}]
  /\ newest = [f \in DependencyFile |-> [rank |-> 0, status |-> "NONE", lease |-> "none"]]
  /\ queued = {}
  /\ run = [f \in DependencyFile |-> NoRun]
  /\ standing = [f \in DependencyFile |-> [leftOut |-> FALSE, profile |-> 0]]
  /\ sweep = [s \in Sweep |-> NoSweep]
  /\ policyUsed = [saves |-> 0, changes |-> 0, upsets |-> 0]

Upset ==
  /\ policyUsed.upsets < MaxUpsets
  /\ policyUsed' = [policyUsed EXCEPT !.upsets = @ + 1]

Becomes(f, status, lease) ==
  newest' = [newest EXCEPT ![f].status = status, ![f].lease = lease]

-----------------------------------------------------------------------------
(* People.                                                                 *)

\* update_license_profile: the profile is saved and the same request goes on
\* to ask for the files of the mount.
SaveProfile ==
  LET n == policyUsed.saves + 1 IN
  /\ n <= MaxSaves
  /\ settings' = [settings EXCEPT !.profile = n + 1]
  /\ sweep' = [sweep EXCEPT ![n] = [NoSweep EXCEPT !.at = "list"]]
  /\ policyUsed' = [policyUsed EXCEPT !.saves = n]
  /\ UNCHANGED <<newest, queued, run, standing>>

\* update_ignore_policy, by somebody who names the version the workspace has.
SaveRules(files) ==
  /\ policyUsed.saves < MaxSaves /\ files # settings.ignored
  /\ settings' = [settings EXCEPT !.ignored = files]
  /\ policyUsed' = [policyUsed EXCEPT !.saves = @ + 1]
  /\ UNCHANGED <<newest, queued, run, standing, sweep>>

\* A new revision is registered and queued.  A run of the older change gives
\* up to it or is refused as superseded.
ChangeFile(f) ==
  /\ policyUsed.changes < MaxRevisions
  /\ policyUsed' = [policyUsed EXCEPT !.changes = @ + 1]
  /\ newest' = [newest EXCEPT ![f] = [rank |-> @.rank + 1, status |-> "PENDING",
                                      lease |-> "none"]]
  /\ queued' = queued \cup {f}
  /\ run' = [run EXCEPT ![f] = NoRun]
  /\ UNCHANGED <<settings, standing, sweep>>

-----------------------------------------------------------------------------
(* Revalidation.                                                           *)

\* license-revalidation, once a day and always from the beginning.
BeginDaily ==
  /\ sweep[Daily].at = "idle"
  /\ sweep' = [sweep EXCEPT ![Daily] = [NoSweep EXCEPT !.at = "list"]]
  /\ UNCHANGED <<settings, newest, queued, run, standing, policyUsed>>

\* One unit of work reads the files and the newest change of each.
ListFiles(s) ==
  LET known == SetToSortSeq({f \in DependencyFile : newest[f].status # "NONE"}, <)
  IN  /\ sweep[s].at = "list"
      /\ sweep' = [sweep EXCEPT ![s] =
           [at |-> "request", requested |-> 0,
            todo |-> [i \in DOMAIN known |-> <<known[i], newest[known[i]].rank>>]]]
      /\ UNCHANGED <<settings, newest, queued, run, standing, policyUsed>>

\* What the next request of sweep s asks for: a file and the rank of the
\* change that was its newest when the files were listed.
Next1(s) == Head(sweep[s].todo)
Skip1(s) == sweep' = [sweep EXCEPT ![s].todo = Tail(@)]

\* Mutant: a run whose worker died counts as under way for ever.
InFlightForEver(f) == newest[f].status \in {"PENDING", "PROCESSING"}

\* reanalyze_change_event refuses.
InFlight(f) ==
  \/ newest[f].status = "PENDING"
  \/ newest[f].status = "PROCESSING" /\ newest[f].lease = "live"

\* request_reanalysis of the next file, to its commit.  A request for a change
\* that is no longer the newest moves nothing that counts.
RequestFile(s) ==
  LET f == Next1(s)[1] IN
  /\ sweep[s].at = "request" /\ sweep[s].todo # <<>>
  /\ sweep[s].requested < RequestLimit
  /\ \/ /\ Next1(s)[2] # newest[f].rank
        /\ Skip1(s)
        /\ UNCHANGED newest
     \/ /\ Next1(s)[2] = newest[f].rank /\ InFlight(f)
        /\ Skip1(s)
        /\ UNCHANGED newest
     \/ /\ Next1(s)[2] = newest[f].rank /\ ~ InFlight(f)
        /\ Becomes(f, "PENDING", "none")
        /\ sweep' = [sweep EXCEPT ![s].at = "enqueue"]
  /\ UNCHANGED <<settings, queued, run, standing, policyUsed>>

EnqueueFile(s) ==
  /\ sweep[s].at = "enqueue"
  /\ queued' = queued \cup {Next1(s)[1]}
  /\ sweep' = [sweep EXCEPT ![s] = [at |-> "request", todo |-> Tail(@.todo),
                                    requested |-> @.requested + 1]]
  /\ UNCHANGED <<settings, newest, run, standing, policyUsed>>

\* The queue does not answer: taken for a refusal.
LoseFile(s) ==
  /\ sweep[s].at = "enqueue"
  /\ Upset
  /\ sweep' = [sweep EXCEPT ![s].at = "request", ![s].todo = Tail(@)]
  /\ UNCHANGED <<settings, newest, queued, run, standing>>

\* Nothing is left, or nothing within the limit; or the process dies.
EndSweep(s) ==
  /\ sweep[s].at = "request"
  /\ sweep[s].todo = <<>> \/ sweep[s].requested = RequestLimit
  /\ sweep' = [sweep EXCEPT ![s] = NoSweep]
  /\ UNCHANGED <<settings, newest, queued, run, standing, policyUsed>>

DieSweeping(s) ==
  /\ sweep[s].at # "idle"
  /\ Upset
  /\ sweep' = [sweep EXCEPT ![s] = NoSweep]
  /\ UNCHANGED <<settings, newest, queued, run, standing>>

-----------------------------------------------------------------------------
(* A run.                                                                  *)

\* The task is dispatched: a claim or a takeover; or there is nothing to do
\* and it is consumed.
DeliverFile(f) ==
  /\ f \in queued /\ run[f].at = "none"
  /\ IF newest[f].status = "DONE" \/ (newest[f].status = "PROCESSING" /\ InFlight(f))
     THEN queued' = queued \ {f} /\ UNCHANGED <<newest, run>>
     ELSE /\ Becomes(f, "PROCESSING", "live")
          /\ run' = [run EXCEPT ![f].at = "claimed"]
          /\ UNCHANGED queued
  /\ UNCHANGED <<settings, standing, sweep, policyUsed>>

\* The end of a run: its verdict stands and its task is answered.
Stands(f, verdict) ==
  /\ standing' = [standing EXCEPT ![f] = verdict]
  /\ Becomes(f, "DONE", "none")
  /\ run' = [run EXCEPT ![f] = NoRun]
  /\ queued' = queued \ {f}
  /\ UNCHANGED <<settings, sweep, policyUsed>>

\* The gate reads the rules in its own unit of work.
GateLeavesOut(f) ==
  /\ run[f].at = "claimed" /\ f \in settings.ignored
  /\ Stands(f, [leftOut |-> TRUE, profile |-> 0])

GateApproves(f) ==
  /\ run[f].at = "claimed" /\ f \notin settings.ignored
  /\ run' = [run EXCEPT ![f].at = "approved"]
  /\ UNCHANGED <<settings, newest, queued, standing, sweep, policyUsed>>

\* _resolve_workspace_policy, when the analyzer starts.
ReadProfile(f) ==
  /\ run[f].at = "approved"
  /\ run' = [run EXCEPT ![f] = [at |-> "judging", profile |-> settings.profile]]
  /\ UNCHANGED <<settings, newest, queued, standing, sweep, policyUsed>>

AcceptVerdict(f) ==
  /\ run[f].at = "judging"
  /\ Stands(f, [leftOut |-> FALSE, profile |-> run[f].profile])

\* The run fails (500, and the queue tries again or has tried enough) ...
FailRun(f) ==
  /\ run[f].at # "none"
  /\ Upset
  /\ Becomes(f, "FAILED", "none")
  /\ run' = [run EXCEPT ![f] = NoRun]
  /\ queued' \in {queued, queued \ {f}}
  /\ UNCHANGED <<settings, standing, sweep>>

\* ... or its worker dies, and its lease ends 300 s later.
CrashRun(f) ==
  /\ run[f].at # "none"
  /\ Upset
  /\ run' = [run EXCEPT ![f] = NoRun]
  /\ UNCHANGED <<settings, newest, queued, standing, sweep>>

LeaseEnds(f) ==
  /\ newest[f].status = "PROCESSING" /\ newest[f].lease = "live" /\ run[f].at = "none"
  /\ Becomes(f, "PROCESSING", "expired")
  /\ UNCHANGED <<settings, queued, run, standing, sweep, policyUsed>>

-----------------------------------------------------------------------------
SweepStep(s) == ListFiles(s) \/ RequestFile(s) \/ EnqueueFile(s) \/ EndSweep(s)
RunStep(f) ==
  \/ DeliverFile(f) \/ GateLeavesOut(f) \/ GateApproves(f) \/ ReadProfile(f)
  \/ AcceptVerdict(f) \/ LeaseEnds(f)

PolicyStep ==
  \/ SaveProfile \/ BeginDaily
  \/ \E files \in SUBSET DependencyFile : SaveRules(files)
  \/ \E f \in DependencyFile : ChangeFile(f) \/ RunStep(f) \/ FailRun(f) \/ CrashRun(f)
  \/ \E s \in Sweep : SweepStep(s) \/ LoseFile(s) \/ DieSweeping(s)

PolicySpec == PolicyInit /\ [][PolicyStep]_policyVars
PolicyFairSpec ==
  /\ PolicySpec
  /\ WF_policyVars(BeginDaily)
  /\ \A s \in Sweep : WF_policyVars(SweepStep(s))
  /\ \A f \in DependencyFile : WF_policyVars(RunStep(f))
-----------------------------------------------------------------------------
\* The settings as they are now decide what stands of the file.
Agrees(f) ==
  IF f \in settings.ignored THEN standing[f].leftOut
  ELSE standing[f] = [leftOut |-> FALSE, profile |-> settings.profile]

\* A change waits for a task that was lost with its enqueue; the revalidation
\* is refused because the change is PENDING.
Stranded(f) ==
  /\ newest[f].status = "PENDING" /\ f \notin queued
  /\ \A s \in Sweep : sweep[s].at = "enqueue" => Next1(s)[1] # f

\* revalidate_mount_licenses always begins with the same files.
WithinReach(f) == Cardinality({g \in DependencyFile : g < f}) < RequestLimit

\* Whatever is saved while runs, requests and the schedule meet, die or are
\* refused, each file within the limit is in the end judged by the settings
\* the workspace has ("the schedule does it again", update_license_profile),
\* unless its task was lost.
SettingsTakeEffect ==
  \A f \in DependencyFile :
    <>[](newest[f].rank > 0 /\ WithinReach(f) => Agrees(f) \/ Stranded(f))
=============================================================================
