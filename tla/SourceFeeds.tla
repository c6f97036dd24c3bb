---------------------------- MODULE SourceFeeds ----------------------------
(***************************************************************************)
(* The sources that must catch up: a mounted Drive folder and a folder of  *)
(* the desktop.  They share nothing but the intake, so a behaviour is one  *)
(* of a single source: the one chosen at the start, while the other rests  *)
(* in an initial state.                                                    *)
(***************************************************************************)
EXTENDS DriveFeed, DesktopFeed

CONSTANT Source  \* the sources to choose from

VARIABLE source
feedVars == <<source, driveVars, deskVars>>

DriveRests == \A f \in File : drive.where[f] = "gone"
DeskRests == \A p \in DeskPath : folder[p] = Absent

Init ==
  /\ source \in Source
  /\ DriveInit /\ (source # "drive" => DriveRests)
  /\ DeskInit /\ (source # "desktop" => DeskRests)

OnDrive(A) == source = "drive" /\ A /\ UNCHANGED <<source, deskVars>>
OnDesktop(A) == source = "desktop" /\ A /\ UNCHANGED <<source, driveVars>>

Next == OnDrive(DriveStep) \/ OnDesktop(DeskStep)
Spec == Init /\ [][Next]_feedVars

\* The fairness of DriveFairSpec and of DeskFairSpec.
FairSpec ==
  /\ Spec
  /\ SF_feedVars(OnDrive(BeginRound("schedule")))
  /\ WF_feedVars(OnDrive(RecordHealth /\ ~ intake.processable))
  /\ \A j \in Job : WF_feedVars(OnDrive(JobStep(j)))
  /\ WF_feedVars(OnDesktop(Open))
  /\ \A p \in DeskPath : WF_feedVars(OnDesktop(Flush(p)))
  /\ \A timer \in Held : WF_feedVars(OnDesktop(ReleaseDelete(timer)))
  /\ WF_feedVars(OnDesktop(Skip \/ Report(TRUE)))

\* FeedSettled and FolderSettles, where the source is the one they speak of.
DriveSettles == source = "drive" => FeedSettled
DesktopSettles == source = "desktop" => FolderSettles

\* Type correctness of the two.
FeedsTypeOK == DriveTypeOK /\ DeskTypeOK
=============================================================================
