\* Replacing the conflict resolver factory and losing the resolver while a
\* resolution session is open, a first factory handing out dummy resolvers;
\* and convergence under a resolver that answers.
CONSTANTS
  Conn = {c1, c2}
  k1 = k1
  k2 = k2
  Keys = {k1, k2}
  Vals = {v1}
  NONE = NONE
  MaxLocalCommits = 2
  MaxFactories = 2
  MaxResolverErrors = 1
  Waiters = {c1}
  FactoryPolicies = {"CUSTOM", "LAST_ONE_WINS"}
  UseDummy = {FALSE, TRUE}

SPECIFICATION FairSpec
CHECK_DEADLOCK FALSE
INVARIANTS
  SessionOnCurrentResolver
PROPERTIES
  
  Convergence
