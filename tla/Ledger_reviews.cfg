CONSTANTS
  k1 = k1
  v1 = v1
  v2 = v2
  Key = {k1}
  Change = {1, 2, 3, 4}
  Deletes = {2}
  Revision = {"r1", "r2"}
  RevisionOf <- MCRevisionOf
  NoRevision = NoRevision
  Reviewer = {v1, v2}
  NoKey = NoKey
  Limit <- MCLimitReviews
SPECIFICATION Spec
CHECK_DEADLOCK FALSE
SYMMETRY Reviewers
INVARIANTS
  TypeOK
  ExcludedIsClosed
  ValidViewIsCurrent
PROPERTIES
  JudgementIsKept
  OldJudgementStaysBehind
  ClosedByCompleteAnalysis
  ImplementsContract
