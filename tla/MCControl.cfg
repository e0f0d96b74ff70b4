\* Every command, operation, timer and failure.
CONSTANTS
  StartupDelay = 2
  QuietWindow = 1
  ProgressWindow = 2
  Backoffs = {2}
  Operations <- AllOperations
  MaxCalls = 5
SPECIFICATION FairSpec
INVARIANTS
  TypeOK
  NoLostTimer
  RunningIsCurrent
  ManualIsDue
  OvertakenIsStopped
PROPERTIES
  RequestsServed
\* The window may make no further call and nothing be pending.
CHECK_DEADLOCK FALSE
