SPECIFICATION Spec
CONSTANTS
  a = a
  b = b
  Ctx = {a, b}
  Cli = {c1, c2}
  Pid = {p1, p2, p3}
  Hash <- DistinctHash
  RangeStart = 16443
  RangeSize = 2
  NoPid = NoPid
  NoCtx = NoCtx
  VerifyAPI = TRUE
  PgrepMayMiss = FALSE
  PidReuse = FALSE
  Interrupts = FALSE
  Serial = TRUE
SYMMETRY Symmetry
INVARIANT TypeOK
INVARIANT NoOrphan
PROPERTY KillLeavesNoTunnel
PROPERTY KillAllLeavesNone
PROPERTY KeepsService
