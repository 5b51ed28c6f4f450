CONSTANTS
  v1 = v1
  v2 = v2
  NONE = NONE
  Keys <- MCKeys
  Vals <- MCVals
  Bases <- MCBases
  MaxPage = 2
  MinQueries = 1
SPECIFICATION Spec
\* The loop ends in "ok" or "failed" and then stops.
CHECK_DEADLOCK FALSE
INVARIANTS
  FailsOnlyOnError
PROPERTIES
  ImplementsDiffSpec
  Terminates
