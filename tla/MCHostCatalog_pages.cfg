SPECIFICATION FairSpec
CONSTANTS
  a = a
  b = b
  c = c
  odd = odd
  NoClient = 9
  NoCursor = NoCursor
  Peer <- MCPeer
  Client <- MCClient
  Alias <- MCAlias
  clientOf <- MCClientOf
  aliasOf <- MCAliasOf
  HostFilter = {a, b, c}
  Query <- MCQuery
  Limits = {0, 1, 2}
  MaxChanges = 3
INVARIANT TypeOK
INVARIANT NoneSkipped
INVARIANT ShownOnce
PROPERTY PagingEnds
