SPECIFICATION Spec
CONSTANTS
  Requests    <- AssignAnytime
  Hooks       <- NoHooks
  StopOnEntry = TRUE
  Launch      = FALSE
  ScriptEnds  = FALSE
  MaxTasks    = 1
CHECK_DEADLOCK FALSE
INVARIANTS
  ExecuteOnlyInBreak
