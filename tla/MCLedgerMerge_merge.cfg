\* Merging of forked heads: default LAST_ONE_WINS, then a factory that
\* answers AUTOMATIC_WITH_FALLBACK; three local commits on two keys.
CONSTANTS
  Conn = {c1, c2}
  k1 = k1
  k2 = k2
  Keys = {k1, k2}
  Vals = {v1, v2}
  NONE = NONE
  MaxLocalCommits = 3
  MaxFactories = 1
  MaxResolverErrors = 0
  Waiters = {}
  FactoryPolicies = {"AUTOMATIC_WITH_FALLBACK"}
  UseDummy = {FALSE}
SYMMETRY KeySymmetry
SPECIFICATION FairSpec
CHECK_DEADLOCK FALSE
INVARIANTS
  TypeOK
PROPERTIES
  AllOnMergedHead
