\* GetFullDiff(&changes, 1) as CustomConflictResolutionGetDiffMultiPart calls it.
CONSTANTS
  v1 = v1
  v2 = v2
  NONE = NONE
  Keys <- MCKeys
  Vals <- MCVals
  Bases <- MCBases
  MaxPage = 2
  MinQueries = 1
SPECIFICATION Spec
CHECK_DEADLOCK FALSE
INVARIANTS
  CommentMinQueriesArePartial
