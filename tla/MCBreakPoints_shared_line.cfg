SPECIFICATION Spec
CONSTANTS
  Paths       <- TwoPaths
  VMs         <- TwoVMs
  Lines       <- ThreeLines
  Copies      <- Commented
  Lists       <- GapLists
  EntryScript = "main"
  StopOnEntry = TRUE
  MaxTasks    = 2
INVARIANTS
  EveryMark
