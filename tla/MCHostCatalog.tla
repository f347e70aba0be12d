---------------------------- MODULE MCHostCatalog ----------------------------
EXTENDS HostCatalog, TLC

CONSTANTS a, b, c, odd

(* Peers 1 and 4 are h.acme.x and h.acme.y; the FQDN of 6 has one label,  *)
(* and the filter keeps 7 out.                                             *)
MCPeer     == 1..7
MCClient   == 1..2
MCAlias    == {a, b, c, odd}
MCClientOf == <<1, 1, 1, 1, 2, NoClient, 2>>
MCAliasOf  == <<a, b, c, a, a, a, odd>>

OfClient(k) == [client |-> k, names |-> Alias, addrs |-> Peer, hasId |-> FALSE]
MCQuery == {OfClient(1), [OfClient(1) EXCEPT !.names = {b, c}]}
=============================================================================
