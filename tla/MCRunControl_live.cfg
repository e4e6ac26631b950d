SPECIFICATION FairSpec
CONSTANTS
  Requests    <- Harmless
  Hooks       <- NoHooks
  StopOnEntry = TRUE
  Launch      = TRUE
  ScriptEnds  = TRUE
  MaxTasks    = 2
INVARIANTS
  ExecuteOnlyInBreak
PROPERTIES
  HandlersReturn
  EntryReleased
  PauseHonoured
  FulfilsContract
