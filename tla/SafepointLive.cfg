SPECIFICATION FairSpec
CONSTANTS
  m1 = m1
  h1 = h1
  Threads = {m1, h1}
  Mutators = {m1}
  Bypass = {}
  OpLevels = {0, 1, 2}
  MaxNesting = 2
  Scoped = {m1, h1}
  Nobody = Nobody
PROPERTIES
  OperationStarts
  ReloadStarts
