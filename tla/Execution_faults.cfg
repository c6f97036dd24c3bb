CONSTANTS
  Event = {1}
  Deletes = {}
  w1 = w1
  w2 = w2
  t1 = t1
  t2 = t2
  Worker = {w1, w2}
  Task = {t1, t2}
  NoEvent = 0
  NoTask = NoTask
  MaxTries = 2
  Limit <- MCLimitFaults
SPECIFICATION Spec
SYMMETRY Interchangeable
CHECK_DEADLOCK FALSE
INVARIANTS
  TypeOK
  Lockstep
  AttemptsFence
  PendingIsQueued
  ProcessingIsOwned
  OneAnalysisAtATime
PROPERTIES
  VerdictBelongsToAttempt
  ImplementsContract
