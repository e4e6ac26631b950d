SPECIFICATION FairSpec
CONSTANTS
  Paths       <- TwoPaths
  VMs         <- TwoVMs
  Lines       <- TwoLines
  Copies      <- Edited
  Lists       <- TwoLists
  EntryScript = "main"
  StopOnEntry = TRUE
  MaxTasks    = 2
INVARIANTS
  TypeOK
  NoStrayMark
  PlainMarked
  LastListWins
PROPERTIES
  ConditionRespected
  TakesEffect
