CONSTANTS
  Event = {1}
  Deletes = {}
  w1 = w1
  w2 = w2
  t1 = t1
  t2 = t2
  Worker = {w1, w2}
  Task = {t1, t2}
  NoEvent = 0
  NoTask = NoTask
  MaxTries = 2
  Limit <- MCLimitCalm
  Question = {"attempts", "settings"}
  DependencyFile = {1, 2}
  RequestLimit = 1
  MaxSaves = 1
  MaxRevisions = 2
  MaxUpsets = 1
SPECIFICATION SettlingFairSpec
CHECK_DEADLOCK FALSE
PROPERTIES
  EventuallySettled
  SettingsSettle
