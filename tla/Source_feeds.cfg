CONSTANTS
  f1 = f1
  File = {f1}
  PageSize = 1
  MaxFeed = 2
  MaxAttach = 1
  MaxChannel = 1
  MaxJobs = 2
  MaxFaults = 1
  a = a
  b = b
  c1 = c1
  c2 = c2
  Source = {"drive", "desktop"}
  DeskPath = {a, b}
  Content = {c1, c2}
  QueueCapacity = 2
  MaxEdits = 2
  MaxQuits = 1
  MaxUnanswered = 1
SPECIFICATION FairSpec
CHECK_DEADLOCK FALSE
INVARIANTS
  FeedsTypeOK
  NothingSkipped
  FolderIsMirrored
PROPERTIES
  DriveSettles
  DesktopSettles
