----------------------------- MODULE HostCatalog -----------------------------
(***************************************************************************)
(* `k3ctx hosts CLIENT` and `k3ctx clients` show one page of a list that   *)
(* is taken anew from NetBird by every invocation; what links two pages is *)
(* a name, which the user copies from one command to the next. A browse is *)
(* such a series of commands, during which peers come and go.              *)
(*                                                                         *)
(* A list is the set of the numbers of its rows: peers are numbered in the *)
(* order in which NetBird lists them, clients in that of sort.Strings.     *)
(***************************************************************************)
EXTENDS Naturals, FiniteSets

CONSTANTS
  Peer,       \* the peers there may be, positive numbers
  Client,     \* the client names there may be, positive numbers
  Alias,      \* host aliases, the first labels of the FQDNs
  NoClient,   \* the client of a peer whose FQDN has a single label
  clientOf,   \* clientOf[p]: the second label of the FQDN of p
  aliasOf,    \* aliasOf[p]: the first one
  HostFilter, \* the aliases that netbird_host_filter lets through
  Query,      \* the queries of `hosts` (see Matches)
  Limits,     \* the values of --limit; 0 stands for those <= 0 and for --all
  NoCursor,   \* no --cursor, or none printed
  MaxChanges  \* bound on the changes of the peers

ASSUME CatalogAssumption ==
  /\ Peer \subseteq Nat \ {0} /\ IsFiniteSet(Peer)
  /\ Client \subseteq Nat \ {0} /\ IsFiniteSet(Client)
  /\ clientOf \in [Peer -> Client \cup {NoClient}] /\ NoClient \notin Client
  /\ aliasOf \in [Peer -> Alias]
  /\ Limits \subseteq Nat /\ MaxChanges \in Nat
  /\ NoCursor \notin (Client \X Alias) \cup Client

VARIABLES
  listed,   \* the peers NetBird lists
  changes,  \* how often they have changed
  kind,     \* what the user browses: "hosts" or "clients"
  query,    \* the query of `hosts`, the same for every page
  phase,    \* "idle", "browsing" while there are more rows, or "done"
  cursor,   \* the cursor the last page gave
  shown,    \* the rows shown on the pages of the browse
  always,   \* the rows that were in the list for each of these pages
  again,    \* a page has shown a row that an earlier one had shown
  moved     \* the peers have changed since the first page

browse == <<kind, query, phase, cursor, shown, always, again>>
vars   == <<listed, changes, browse, moved>>

-----------------------------------------------------------------------------
(* What a command lists.                                                   *)

(* Mutant: an FQDN without a client is not skipped.                        *)
CatalogUnchecked == {p \in listed : aliasOf[p] \in HostFilter}

Catalog == {p \in listed : clientOf[p] # NoClient /\ aliasOf[p] \in HostFilter}

(* A name filter is the set of aliases that contain it, an address the     *)
(* peers that have it. The records of the catalog carry no systemframe_id, *)
(* and a record without one matches no --id.                               *)
Matches(p, q) ==
  /\ clientOf[p] = q.client
  /\ aliasOf[p] \in q.names
  /\ p \in q.addrs
  /\ ~q.hasId

Rows(k, q) == IF k = "hosts" THEN {p \in Catalog : Matches(p, q)}
                             ELSE {clientOf[p] : p \in Catalog}

(* The cursor after a host is its context name, after a client its name.   *)
ContextName(p) == <<clientOf[p], aliasOf[p]>>
Name(k, r) == IF k = "hosts" THEN ContextName(r) ELSE r

(* A set with the least, or the greatest, number of S.                     *)
FirstOf(S) == {r \in S : \A o \in S : r <= o}
LastOf(S)  == {r \in S : \A o \in S : o <= r}

(* Mutant: the loop that looks for the cursor has no break.                *)
StartsAfterLast(k, rows, cur) ==
  LET hits == {r \in rows : Name(k, r) = cur}
  IN  IF hits = {} THEN {0} ELSE LastOf(hits)

(* Mutant: the cursor is not handed on.                                    *)
StartsAnew(k, rows, cur) == {0}

(* Mutant: start = i, without the + 1.                                     *)
RestFrom(rows, start) == {r \in rows : r >= start}

(* The page begins after the first row of the cursor's name, and at the    *)
(* beginning when there is none.                                           *)
Starts(k, rows, cur) ==
  LET hits == {r \in rows : Name(k, r) = cur}
  IN  IF hits = {} THEN {0} ELSE FirstOf(hits)

Rest(rows, start) == {r \in rows : r > start}

Page(rest, limit) ==
  IF limit = 0 THEN rest
  ELSE {r \in rest : Cardinality({o \in rest : o <= r}) <= limit}

-----------------------------------------------------------------------------
(* One invocation of `hosts` or `clients`. The user goes on with the       *)
(* cursor as long as one is printed.                                       *)
ShowPage(k, q, cur, limit, seen, held) ==
  LET rows == Rows(k, q)
  IN  \E start \in Starts(k, rows, cur) :
        LET rest == Rest(rows, start)
            page == Page(rest, limit)
        IN  /\ kind' = k /\ query' = q
            /\ shown' = seen \cup page
            /\ always' = held \cap rows
            /\ again' = (cur # NoCursor /\ (again \/ page \cap seen # {}))
            /\ \/ /\ page = rest
                  /\ phase' = "done" /\ cursor' = NoCursor
               \/ /\ page # rest
                  /\ phase' = "browsing"
                  /\ \E last \in LastOf(page) : cursor' = Name(k, last)
            /\ UNCHANGED <<listed, changes>>

Hosts(q, limit) ==
  /\ phase # "browsing"
  /\ ShowPage("hosts", q, NoCursor, limit, {}, Peer)
  /\ moved' = FALSE

Clients(q, limit) ==
  /\ phase # "browsing"
  /\ ShowPage("clients", q, NoCursor, limit, {}, Client)
  /\ moved' = FALSE

NextPage(limit) ==
  /\ phase = "browsing"
  /\ ShowPage(kind, query, cursor, limit, shown, always)
  /\ UNCHANGED moved

(* NetBird: a peer appears in the list or goes from it.                    *)
PeersChange(p) ==
  /\ changes < MaxChanges
  /\ listed' = IF p \in listed THEN listed \ {p} ELSE listed \cup {p}
  /\ changes' = changes + 1
  /\ moved' = TRUE
  /\ UNCHANGED browse

Init ==
  /\ listed \in SUBSET Peer /\ changes = 0
  /\ kind = "hosts" /\ query \in Query
  /\ phase = "idle" /\ cursor = NoCursor
  /\ shown = {} /\ always = {} /\ again = FALSE /\ moved = FALSE

Continue == \E limit \in Limits : NextPage(limit)
Next ==
  \/ \E q \in Query, limit \in Limits : Hosts(q, limit)
  \/ \E limit \in Limits : Clients(query, limit)
  \/ Continue
  \/ \E p \in Peer : PeersChange(p)

Spec     == Init /\ [][Next]_vars
FairSpec == Spec /\ WF_vars(Continue)

-----------------------------------------------------------------------------
RowSpace(k) == IF k = "hosts" THEN Peer ELSE Client

TypeOK ==
  /\ listed \subseteq Peer /\ changes \in 0..MaxChanges
  /\ kind \in {"hosts", "clients"} /\ query \in Query
  /\ phase \in {"idle", "browsing", "done"}
  /\ shown \subseteq RowSpace(kind) /\ always \subseteq RowSpace(kind)
  /\ again \in BOOLEAN /\ moved \in BOOLEAN
  /\ IF phase = "browsing" THEN \E r \in shown : cursor = Name(kind, r)
                           ELSE cursor = NoCursor

(* A row of the list of every page of a browse is on one of the pages,     *)
(* whatever peers come and go in between: a cursor whose host is gone      *)
(* makes the next page begin again, not end. The exception is a row up to   *)
(* the second of two hosts with one context name of which the first is     *)
(* gone, for which the cursor stood (SearchHostRecords, BuildClientPage).  *)
Overtaken(r, k, held) ==
  \E p, q \in RowSpace(k) : /\ p < r /\ r <= q
                            /\ Name(k, p) = Name(k, q)
                            /\ p \notin held

NoneSkipped ==
  phase = "done" => \A r \in always : r \in shown \/ Overtaken(r, kind, always)

(* While no peer comes or goes, no page repeats a row of an earlier one,   *)
(* unless two hosts of the list have one context name (h.acme.x and        *)
(* h.acme.y): with NoneSkipped, the pages are then the list, each row once.*)
Namesakes == \E p, q \in Rows(kind, query) : p # q /\ Name(kind, p) = Name(kind, q)
ShownOnce == ~moved /\ ~Namesakes => ~again

(* A user who goes on comes to the last page, once the peers are at rest   *)
(* and no two hosts of the list have one context name: with namesakes on   *)
(* two pages every cursor leads back to the first of them.                 *)
PagingEnds == (phase = "browsing") ~> (phase # "browsing" \/ Namesakes)

=============================================================================
