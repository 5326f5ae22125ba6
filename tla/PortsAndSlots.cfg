SPECIFICATION MCSpec
CONSTANTS
  Isolates = {i1, i2, i3, i4}
  MaxActive = 2
  None = None
  Handlers <- MCHandlers
  Draws <- MCDraws
  InitialCapacity = 8
INVARIANTS
  SlotsAreCounted
  NoSlotForgotten
  LookupIsExact
  ProbesEnd
PROPERTIES
  NestedOwnerComesBack
