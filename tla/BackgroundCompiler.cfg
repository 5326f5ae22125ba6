SPECIFICATION Spec
CONSTANTS
  Mutators = {t1, t2, t3}
  Functions = {f, g}
  TaskIds = {k1, k2, k3}
  MaxNesting = 2
  Closer = Closer
  None = None
CHECK_DEADLOCK FALSE
INVARIANTS
  OneTaskServes
  DisabledIsQuiet
PROPERTIES
  StopAndServe
