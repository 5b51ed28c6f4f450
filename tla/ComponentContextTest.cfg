\* Both tests, the timeout, and both outcomes of the receiver callback.
CONSTANTS
  ReceiverOutcomes = {"completes", "lost", "crash"}
SPECIFICATION Spec
CHECK_DEADLOCK FALSE
INVARIANTS
  TypeOK
  DoneAtMostOnce
  DoneOnlyWhenAllTestsDone
PROPERTIES
  AlwaysTerminates
