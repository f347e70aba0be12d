SPECIFICATION Spec
CONSTANTS
  a = a
  b = b
  Ctx = {a, b}
  Cli = {c1, c2}
  Pid = {p1, p2}
  Hash <- CollidingHash
  RangeStart = 16443
  RangeSize = 2
  NoPid = NoPid
  NoCtx = NoCtx
  VerifyAPI = FALSE
  PgrepMayMiss = TRUE
  PidReuse = FALSE
  Interrupts = TRUE
  Serial = FALSE
SYMMETRY CollidingSymmetry
INVARIANT PidFileNamesOwnTunnel
PROPERTY SignalsOnlyOwnTunnels
INVARIANT OneListenerPerPort
