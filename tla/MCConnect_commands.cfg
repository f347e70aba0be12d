CONSTANTS
  f1 = f1
  f2 = f2
  f3 = f3
  Fqdn = {f1, f2, f3}
  ClientOf <- MCClientOf
  ContextOf <- SharedContexts
  Queries <- MCQueries
  NoContext = nocontext
SPECIFICATION Spec
INVARIANT TypeOK
INVARIANT ConnectsToReadyPeers
INVARIANT ConnectsToUniqueContext
INVARIANT AllHostsReportsEach
