CONSTANTS
  StoryIdSettings = {"", "story1"}
  RootLinkSettings = {"", "link"}
  StoryStates = {"RUNNING", "STOPPED", "DONE"}
  MaxStateChanges = 3
SPECIFICATION Spec
\* After Logout the user runner tears the shell down: the shell stops.
CHECK_DEADLOCK FALSE
INVARIANTS
  TypeOK
  StartsOnce
  LogoutAtMostOnce
PROPERTIES
  StartsAndLogsOut
  ImplementsShellSpec
