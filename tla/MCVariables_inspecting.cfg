SPECIFICATION Spec
CONSTANTS
  Threads   = {"t1", "t2"}
  Scalars   = {}
  Tables    = {A, B}
  Iterated  = {B}
  Stops     <- CoroutineStops
  Mutable   = {"upvalue", "field"}
  MaxFrames = 2
INVARIANTS
  TypeOK
  ScopesOfFrames
  ReferencesResolve
  CacheFresh
  RegistryWhole
