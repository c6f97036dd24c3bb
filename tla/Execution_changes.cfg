CONSTANTS
  Event = {1, 2, 3}
  Deletes = {2}
  w1 = w1
  w2 = w2
  t1 = t1
  t2 = t2
  Worker = {w1, w2}
  Task = {t1, t2}
  NoEvent = 0
  NoTask = NoTask
  MaxTries = 2
  Limit <- MCLimitChanges
SPECIFICATION Spec
SYMMETRY Interchangeable
CHECK_DEADLOCK FALSE
INVARIANTS
  SupersededMeansNewer
PROPERTIES
  NoVerdictAfterLaterRevision
