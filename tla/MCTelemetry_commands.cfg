SPECIFICATION Spec
CONSTANTS
  Cli = {c1, c2}
  File = {1, 2, 3, 4, 5}
  NoFile = 0
  MaxBytes = 3
  MaxFiles = 3
  LineSizes = {1, 3}
  ScanLimit = 2
  TailN = 3
  MaxEvents = 6
SYMMETRY Symmetry
CHECK_DEADLOCK FALSE
INVARIANT TypeOK
INVARIANT LogHasNoGap
INVARIANT TailIsNewest
INVARIANT SizeBounded
INVARIANT RotatedAreFull
