SPECIFICATION Spec
CONSTANTS
  m1 = m1
  m2 = m2
  h1 = h1
  b1 = b1
  Threads = {m1, m2, h1, b1}
  Mutators = {m1, m2}
  Bypass = {b1}
  OpLevels = {0, 1, 2}
  MaxNesting = 2
  Scoped = {m1, m2}
  Nobody = Nobody
SYMMETRY Symmetry
INVARIANTS
  LevelsAreKept
  StoppedWorld
  WakeupsAreKept
  ReloadNotForgotten
