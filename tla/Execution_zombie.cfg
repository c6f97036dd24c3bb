CONSTANTS
  Event = {1}
  Deletes = {}
  w1 = w1
  w2 = w2
  t1 = t1
  t2 = t2
  Worker = {w1, w2}
  Task = {t1, t2}
  NoEvent = 0
  NoTask = NoTask
  MaxTries = 3
  Limit <- MCLimitCrash
SPECIFICATION FairSpec
CHECK_DEADLOCK FALSE
PROPERTIES
  ProcessingEnds
