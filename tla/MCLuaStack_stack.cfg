SPECIFICATION Spec
CONSTANTS
  Registers = 4
  Upvalues = 2
  LocalName   <- FrameLocals
  UpvalueName <- FrameUpvalues
  Names       <- FrameNames
  Values      <- FrameValues
  Other = Other
  None  = None
  MaxResults = 2
  MaxTop = 10
INVARIANTS
  TypeOK
  Restored
  SeesProgram
