CONSTANTS
  UserIds <- MCUserIds
  AppIds <- MCAppIds
  MaxCalls = 3
  HashBits = 16
SPECIFICATION Spec
\* The client stops calling after MaxCalls: the factory then idles.
CHECK_DEADLOCK FALSE
INVARIANTS
  OneManagerPerIdentity
PROPERTIES
  ImplementsLedgerFactorySpec
