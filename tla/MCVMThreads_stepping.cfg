SPECIFICATION Spec
CONSTANTS
  Threads  = {t1, t2, t3}
  Lines    = {1, 2}
  MaxDepth = 2
SYMMETRY AddressSymmetry
INVARIANTS
  TypeOK
  NothingDangles
  ResumersWait
  ParentsFollowed
  TraceComplete
PROPERTIES
  StepOverStays
  StepOverInFrame
  StepOutOnLeaving
