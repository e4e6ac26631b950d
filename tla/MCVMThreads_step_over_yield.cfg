SPECIFICATION Spec
CONSTANTS
  Threads  = {t1, t2}
  Lines    = {1, 2}
  MaxDepth = 2
SYMMETRY AddressSymmetry
PROPERTIES
  StepOverPassesYields
