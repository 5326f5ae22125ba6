SPECIFICATION Spec
CONSTANTS
  Mutators = {t1, t2}
  Markers = {k1, k2}
  LargePages = 1
  RegularPages = 1
  MaxOps = 4
  Sweeper = Sweeper
  Shutdown = Shutdown
  None = None
CHECK_DEADLOCK FALSE
INVARIANTS
  CollectorIsAlone
  ScavengeIsQuiet
  RestIsSwept
  ReloadIsUnmarked
PROPERTIES
  OperationsEnd
  MarkingIsFinalized
