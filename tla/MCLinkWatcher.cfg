CONSTANTS
  a = a
  b = b
  t1 = t1
  t2 = t2
  NONE = NONE
  LinkKeys <- MCKeys
  Topics <- MCTopics
  MaxNotify = 4
SPECIFICATION Spec
SYMMETRY MCSymmetry
\* The watched link may stop changing: an idle watcher is not an error.
CHECK_DEADLOCK FALSE
INVARIANTS
  EntitiesMatchLink
