SPECIFICATION Spec
CONSTANTS
  Isolates = {i1, i2, i3}
  MaxActive = 2
  None = None
PROPERTY OwnerComesBack
