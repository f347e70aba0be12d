------------------------------- MODULE MCConnect -------------------------------
(* Connect for TLC: two hosts of one client and a third of another, which  *)
(* has the context of the first.                                           *)
EXTENDS Connect, TLC

CONSTANTS f1, f2, f3

MCClientOf     == f1 :> "acme" @@ f2 :> "acme" @@ f3 :> "acme-us"
SharedContexts == f1 :> "acme-us-1" @@ f2 :> "acme-us-2" @@ f3 :> "acme-us-1"
MCQueries      == {{f1}, {f1, f2}, {f1, f2, f3}}
=============================================================================
