SPECIFICATION FairSpec
CONSTANTS
  a = a
  b = b
  Ctx = {a}
  Cli = {c1, c2}
  Pid = {p1}
  Hash <- OneHash
  RangeStart = 16443
  RangeSize = 2
  NoPid = NoPid
  NoCtx = NoCtx
  VerifyAPI = TRUE
  PgrepMayMiss = TRUE
  PidReuse = TRUE
  Interrupts = TRUE
  Serial = FALSE
PROPERTY EveryCommandEnds
