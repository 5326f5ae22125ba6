SPECIFICATION Spec
CONSTANTS
  Attached = {t1, t2, t3}
  Detached = {u}
  MaxDepth = 3
  MaxOps = 6
  None = None
CHECK_DEADLOCK FALSE
INVARIANTS
  HoldersMatch
  SleepersMustWait
  OwnerWaitsForDetached
PROPERTIES
  RequestsReturn
