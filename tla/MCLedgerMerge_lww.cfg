\* The statement SpecLastOneWinsRightWins of spec.md against the behaviour the tests expect.
CONSTANTS
  Conn = {c1, c2}
  k1 = k1
  k2 = k2
  Keys = {k1, k2}
  Vals = {v1, v2}
  NONE = NONE
  MaxLocalCommits = 2
  MaxFactories = 0
  MaxResolverErrors = 0
  Waiters = {}
  FactoryPolicies = {"LAST_ONE_WINS"}
  UseDummy = {FALSE}
SPECIFICATION Spec
CHECK_DEADLOCK FALSE
PROPERTIES
  SpecLastOneWinsRightWins
