SPECIFICATION Spec
CONSTANTS
  main = main
  h1 = h1
  h2 = h2
  Threads = {main, h1, h2}
  Main = main
  Initial = {main}
  Objects <- MCObjects
  Roots = {"a"}
  Points <- MCPoints
  WeakProps <- MCWeakProps
  Key <- MCKey
  Value <- MCValue
  Gray <- MCGray
  Pending <- MCPending
  Deferred = {"d"}
  Instructions = {"i"}
CHECK_DEADLOCK FALSE
INVARIANTS
  MarkingIsComplete
  MarkersInStep
PROPERTIES
  MarkingEnds
