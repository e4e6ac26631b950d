SPECIFICATION Spec
CONSTANTS
  Threads   = {"t1", "t2"}
  Scalars   = {nil}
  Tables    = {A}
  Iterated  = {A}
  Stops     <- CoroutineStops
  Mutable   = {"upvalue", "field"}
  MaxFrames = 2
INVARIANTS
  EvaluatedWhereShown
