SPECIFICATION Spec
CONSTANTS
  Requests    <- AllOfThem
  Hooks       <- EveryHook
  StopOnEntry = TRUE
  Launch      = FALSE
  ScriptEnds  = FALSE
  MaxTasks    = 2
INVARIANTS
  TypeOK
  MutexOwned
  VMQuiescent
  NoLostWakeup
  StoppedClientTold
  NoCrash
PROPERTIES
  LeavesReleased
  KeepsContract
