CONSTANTS
  k1 = k1
  v1 = v1
  v2 = v2
  Key = {k1}
  Change = {1, 2, 4}
  Deletes = {2}
  Revision = {"r1", "r2"}
  RevisionOf <- MCRevisionOf
  NoRevision = NoRevision
  Reviewer = {}
  NoKey = NoKey
  Limit <- MCLimitTracking
SPECIFICATION Spec
CHECK_DEADLOCK FALSE
INVARIANTS
  ActiveIsWatched
