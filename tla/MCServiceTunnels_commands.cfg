SPECIFICATION Spec
CONSTANTS
  a = a
  b = b
  Ctx = {a, b}
  Pid = {p1, p2, p3}
  NoPid = NoPid
  Hash <- MCHash
  RangeStart <- MCRangeStart
  RangeSize <- MCRangeSize
  Offers <- MCOffers
  OffersChange = TRUE
SYMMETRY Symmetry
VIEW View
INVARIANT TypeOK
INVARIANT ServiceTunnelIsFound
PROPERTY KillAllTakesServices
PROPERTY ReportedPortIsOwn
