SPECIFICATION Spec
CONSTANTS
  Cli = {c1, c2}
  MaxVersion = 4
  Absent = Absent
  Broken = Broken
  Serial = TRUE
  Failures = TRUE
SYMMETRY Symmetry
INVARIANT ResultIsFresh
