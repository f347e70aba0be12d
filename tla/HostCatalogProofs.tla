-------------------------- MODULE HostCatalogProofs --------------------------
(***************************************************************************)
(* The pages of a browse, for every list of peers and every limit.         *)
(***************************************************************************)
EXTENDS HostCatalog, FiniteSetTheorems, TLAPS

(* The last row shown carries the name in the cursor, and up to it no row  *)
(* has been skipped.                                                       *)
NoneSkippedTo(m, k, cur, seen, held) ==
  /\ Name(k, m) = cur
  /\ \A r \in held : r <= m => r \in seen \/ Overtaken(r, k, held)

CursorInv ==
  phase = "browsing" =>
    \E m \in RowSpace(kind) : NoneSkippedTo(m, kind, cursor, shown, always)

(* With the peers at rest the pages shown are the list up to the cursor.   *)
ShownTo(m, k, q, cur, seen) ==
  /\ Name(k, m) = cur
  /\ seen = {r \in Rows(k, q) : r <= m}

NoTwins(k, q) == \A p, o \in Rows(k, q) : Name(k, p) = Name(k, o) => p = o

RestInv ==
  ~moved /\ NoTwins(kind, query) =>
    /\ ~again
    /\ phase = "browsing" =>
         \E m \in Rows(kind, query) : ShownTo(m, kind, query, cursor, shown)

BrowseIInv == TypeOK /\ CursorInv /\ NoneSkipped /\ RestInv

-----------------------------------------------------------------------------
(* The rows of a list are positive numbers, finitely many, and have names. *)
LEMMA RowsTyped ==
  ASSUME listed \subseteq Peer, NEW k \in {"hosts", "clients"}, NEW q
  PROVE  /\ Rows(k, q) \subseteq RowSpace(k)
         /\ RowSpace(k) \subseteq Nat \ {0}
         /\ IsFiniteSet(Rows(k, q))
         /\ \A r \in Rows(k, q) : Name(k, r) # NoCursor
PROOF
<1>1. Rows(k, q) \subseteq RowSpace(k) /\ RowSpace(k) \subseteq Nat \ {0}
  BY CatalogAssumption DEF Rows, RowSpace, Catalog
<1>2. IsFiniteSet(Rows(k, q))
  BY CatalogAssumption, <1>1, FS_Subset DEF RowSpace
<1>3. ASSUME NEW r \in Rows(k, q) PROVE Name(k, r) # NoCursor
  <2>1. CASE k = "hosts"
    <3>1. r \in Peer /\ clientOf[r] \in Client /\ aliasOf[r] \in Alias
      BY CatalogAssumption, <2>1, <1>3 DEF Rows, Catalog
    <3>2. ContextName(r) \in Client \X Alias
      BY <3>1 DEF ContextName
    <3> QED BY CatalogAssumption, <2>1, <3>2 DEF Name
  <2>2. CASE k = "clients"
    BY CatalogAssumption, <1>1, <1>3, <2>2 DEF Name, RowSpace
  <2> QED BY <2>1, <2>2
<1> QED BY <1>1, <1>2, <1>3

(* A page is the beginning of what it is taken from.                       *)
LEMMA PageBegins ==
  ASSUME NEW rest \in SUBSET Nat, IsFiniteSet(rest), NEW limit \in Nat
  PROVE  /\ Page(rest, limit) \subseteq rest
         /\ \A r \in Page(rest, limit), o \in rest : o <= r => o \in Page(rest, limit)
PROOF
<1>1. Page(rest, limit) \subseteq rest
  BY DEF Page
<1>2. ASSUME NEW r \in Page(rest, limit), NEW o \in rest, o <= r, limit # 0
      PROVE  o \in Page(rest, limit)
  <2> DEFINE upTo(x) == {y \in rest : y <= x}
  <2>1. upTo(o) \subseteq upTo(r)
    <3>1. r \in Nat /\ o \in Nat /\ \A y \in rest : y \in Nat
      BY <1>1
    <3>2. \A y \in rest : y <= o => y <= r
      BY <1>2, <3>1
    <3> QED BY <3>2
  <2>2. IsFiniteSet(upTo(r)) /\ IsFiniteSet(upTo(o))
    BY FS_Subset
  <2>3. Cardinality(upTo(o)) <= Cardinality(upTo(r))
    BY <2>1, <2>2, FS_Subset
  <2>4. Cardinality(upTo(r)) <= limit
    BY <1>2 DEF Page
  <2>5. Cardinality(upTo(o)) \in Nat /\ Cardinality(upTo(r)) \in Nat
    BY <2>2, FS_CardinalityType
  <2>6. Cardinality(upTo(o)) <= limit
    BY <2>3, <2>4, <2>5
  <2> QED BY <1>2, <2>6 DEF Page
<1> QED BY <1>1, <1>2 DEF Page

(* Where a page begins: at the beginning of the list, or after the first   *)
(* row of the cursor's name.                                               *)
LEMMA StartsTyped ==
  ASSUME NEW k, NEW rows, NEW cur, NEW start \in Starts(k, rows, cur)
  PROVE  \/ start = 0 /\ \A r \in rows : Name(k, r) # cur
         \/ /\ start \in rows /\ Name(k, start) = cur
            /\ \A r \in rows : Name(k, r) = cur => start <= r
PROOF BY DEF Starts, FirstOf

-----------------------------------------------------------------------------
(* One page: what it skips, given what the pages before it have skipped.   *)
LEMMA PageSkipsNone ==
  ASSUME listed \subseteq Peer,
         NEW k \in {"hosts", "clients"}, NEW q, NEW cur, NEW limit \in Limits,
         NEW seen, NEW held, ShowPage(k, q, cur, limit, seen, held),
         cur # NoCursor =>
           \E m \in RowSpace(k) : NoneSkippedTo(m, k, cur, seen, held)
  PROVE  CursorInv' /\ NoneSkipped'
PROOF
<1> DEFINE rows == Rows(k, q)
<1>1. PICK start \in Starts(k, rows, cur) :
        LET rest == Rest(rows, start)
            page == Page(rest, limit)
        IN  /\ kind' = k /\ query' = q
            /\ shown' = seen \cup page
            /\ always' = held \cap rows
            /\ \/ page = rest /\ phase' = "done"
               \/ /\ phase' = "browsing"
                  /\ \E last \in LastOf(page) : cursor' = Name(k, last)
  BY DEF ShowPage
<1> DEFINE rest == Rest(rows, start)
           page == Page(rest, limit)
<1>2. /\ rows \subseteq RowSpace(k) /\ RowSpace(k) \subseteq Nat \ {0}
      /\ IsFiniteSet(rows) /\ \A r \in rows : Name(k, r) # NoCursor
  BY RowsTyped
<1>3. rest \in SUBSET Nat /\ IsFiniteSet(rest) /\ limit \in Nat
  BY CatalogAssumption, <1>2, FS_Subset DEF Rest
<1>4. page \subseteq rest /\ \A r \in page, o \in rest : o <= r => o \in page
  BY <1>3, PageBegins
<1> HIDE DEF rows, page
<1>5. ASSUME NEW r \in held \cap rows, r <= start
      PROVE  r \in seen \/ Overtaken(r, k, held \cap rows)
  <2>1. /\ start \in rows /\ Name(k, start) = cur
        /\ \A o \in rows : Name(k, o) = cur => start <= o
    BY <1>1, <1>2, <1>5, StartsTyped
  <2>2. PICK m \in RowSpace(k) : NoneSkippedTo(m, k, cur, seen, held)
    BY <1>2, <2>1
  <2>3. CASE r <= m
    <3>1. r \in seen \/ Overtaken(r, k, held)
      BY <2>2, <2>3, <1>5 DEF NoneSkippedTo
    <3> QED BY <3>1 DEF Overtaken
  <2>4. CASE m < r
    <3>1. m \notin rows
      BY <1>2, <1>5, <2>1, <2>2, <2>4 DEF NoneSkippedTo
    <3>2. Name(k, m) = Name(k, start) /\ start \in RowSpace(k)
      BY <1>2, <2>1, <2>2 DEF NoneSkippedTo
    <3> QED BY <1>5, <2>4, <3>1, <3>2 DEF Overtaken
  <2> QED BY <1>2, <2>3, <2>4
<1>6. ASSUME NEW r \in held \cap rows, r > start
      PROVE  r \in rest
  BY <1>6 DEF Rest
<1>7. start \in Nat
  BY <1>2, StartsTyped
<1>8. CASE page = rest /\ phase' = "done"
  <2>1. always' = held \cap rows /\ shown' = seen \cup rest
    BY <1>1, <1>8 DEF rows, page
  <2>2. \A r \in held \cap rows : r <= start \/ r > start
    BY <1>2, <1>7
  <2>3. \A r \in always' : r \in shown' \/ Overtaken(r, k, always')
    BY <1>5, <1>6, <2>1, <2>2
  <2> QED BY <1>1, <1>8, <2>3 DEF CursorInv, NoneSkipped, Overtaken, Name, RowSpace, ContextName
<1>9. CASE phase' = "browsing" /\ \E last \in LastOf(page) : cursor' = Name(k, last)
  <2>1. PICK last \in LastOf(page) : cursor' = Name(k, last)
    BY <1>9
  <2>2. last \in page /\ last \in RowSpace(k)
    BY <1>2, <1>4, <2>1 DEF LastOf, Rest
  <2>3. ASSUME NEW r \in always', r <= last
        PROVE  r \in shown' \/ Overtaken(r, k, always')
    <3>1. r \in held \cap rows /\ always' = held \cap rows /\ shown' = seen \cup page
      BY <1>1, <2>3 DEF rows, page
    <3>2. CASE r <= start
      BY <1>5, <3>1, <3>2
    <3>3. CASE r > start
      BY <1>4, <1>6, <2>2, <2>3, <3>1, <3>3
    <3> QED BY <1>2, <1>7, <3>1, <3>2, <3>3
  <2>4. NoneSkippedTo(last, k, cursor', shown', always')
    BY <2>1, <2>3 DEF NoneSkippedTo
  <2>5. \E m \in RowSpace(k) : NoneSkippedTo(m, k, cursor', shown', always')
    BY <2>2, <2>4
  <2> QED BY <1>1, <1>9, <2>5 DEF CursorInv, NoneSkipped, NoneSkippedTo, Overtaken, Name, RowSpace, ContextName
<1> QED BY <1>1, <1>8, <1>9 DEF rows, page

(* One page with the peers at rest: it begins where the pages shown end.   *)
LEMMA PageGoesOn ==
  ASSUME listed \subseteq Peer,
         NEW k \in {"hosts", "clients"}, NEW q, NEW cur, NEW limit \in Limits,
         NEW seen, NEW held, ShowPage(k, q, cur, limit, seen, held),
         NoTwins(k, q),
         cur = NoCursor => seen = {},
         cur # NoCursor => ~again /\ \E m \in Rows(k, q) : ShownTo(m, k, q, cur, seen)
  PROVE  /\ ~again'
         /\ phase' = "browsing" =>
              \E m \in Rows(k, q) : ShownTo(m, k, q, cursor', shown')
PROOF
<1> DEFINE rows == Rows(k, q)
<1>1. PICK start \in Starts(k, rows, cur) :
        LET rest == Rest(rows, start)
            page == Page(rest, limit)
        IN  /\ shown' = seen \cup page
            /\ again' = (cur # NoCursor /\ (again \/ page \cap seen # {}))
            /\ \/ phase' = "done"
               \/ \E last \in LastOf(page) : cursor' = Name(k, last)
  BY DEF ShowPage
<1> DEFINE rest == Rest(rows, start)
           page == Page(rest, limit)
<1>2. /\ rows \subseteq Nat \ {0}
      /\ IsFiniteSet(rows) /\ \A r \in rows : Name(k, r) # NoCursor
  BY RowsTyped
<1>3. rest \in SUBSET Nat /\ IsFiniteSet(rest) /\ limit \in Nat
  BY CatalogAssumption, <1>2, FS_Subset DEF Rest
<1>4. page \subseteq rest /\ \A r \in page, o \in rest : o <= r => o \in page
  BY <1>3, PageBegins
<1> HIDE DEF rows, page
<1>5. seen = {r \in rows : r <= start} /\ start \in Nat
  <2>1. CASE cur = NoCursor
    <3>1. \A r \in rows : Name(k, r) # cur
      BY <1>2, <2>1
    <3>2. start = 0
      BY <1>1, <3>1, StartsTyped
    <3>3. seen = {} /\ \A r \in rows : ~(r <= start)
      BY <1>2, <2>1, <3>2
    <3> QED BY <3>2, <3>3
  <2>2. CASE cur # NoCursor
    <3>1. PICK m \in rows : ShownTo(m, k, q, cur, seen)
      BY <2>2 DEF rows
    <3>2. start \in rows /\ Name(k, start) = Name(k, m)
      BY <1>1, <3>1, StartsTyped DEF ShownTo
    <3>3. start = m
      BY <3>1, <3>2 DEF NoTwins, rows
    <3> QED BY <1>2, <3>1, <3>3 DEF ShownTo, rows
  <2> QED BY <2>1, <2>2
<1>6. \A r \in rest : r \in rows /\ r > start
  BY DEF Rest
<1>7. page \cap seen = {}
  <2>1. \A r \in rows : ~(r > start /\ r <= start)
    BY <1>2, <1>5
  <2> QED BY <1>4, <1>5, <1>6, <2>1
<1>8. again' = (cur # NoCursor /\ (again \/ page \cap seen # {}))
  BY <1>1 DEF rows, page
<1>9. ~again'
  BY <1>7, <1>8
<1>10. ASSUME phase' = "browsing"
       PROVE  \E m \in rows : ShownTo(m, k, q, cursor', shown')
  <2>1. PICK last \in LastOf(page) : cursor' = Name(k, last)
    BY <1>1, <1>10 DEF rows, page
  <2>2. last \in page /\ last \in rows /\ last > start /\ \A r \in page : r <= last
    BY <1>4, <1>6, <2>1 DEF LastOf
  <2>3. ASSUME NEW r \in rows
        PROVE  r \in seen \cup page <=> r <= last
    <3>1. r \in Nat /\ last \in Nat
      BY <1>2, <2>2
    <3>2. CASE r <= start
      BY <1>5, <2>2, <3>1, <3>2
    <3>3. CASE r > start
      <4>1. r \in rest
        BY <3>3 DEF Rest
      <4>2. r \in page <=> r <= last
        BY <1>4, <2>2, <4>1
      <4>3. r \notin seen
        BY <1>5, <3>1, <3>3
      <4> QED BY <4>2, <4>3
    <3> QED BY <1>5, <3>1, <3>2, <3>3
  <2>4. shown' = {r \in rows : r <= last}
    <3>1. shown' = seen \cup page
      BY <1>1 DEF rows, page
    <3>2. seen \cup page \subseteq rows
      BY <1>4, <1>5, <1>6
    <3> QED BY <2>3, <3>1, <3>2
  <2> QED BY <2>1, <2>2, <2>4 DEF ShownTo, rows
<1> QED BY <1>9, <1>10 DEF rows

(* One page keeps the types.                                               *)
LEMMA PageTyped ==
  ASSUME TypeOK,
         NEW k \in {"hosts", "clients"}, NEW q \in Query, NEW cur, NEW limit \in Limits,
         NEW seen \in SUBSET RowSpace(k), NEW held \in SUBSET RowSpace(k),
         ShowPage(k, q, cur, limit, seen, held), moved' \in BOOLEAN
  PROVE  TypeOK'
PROOF
<1> DEFINE rows == Rows(k, q)
<1>1. PICK start \in Starts(k, rows, cur) :
        LET rest == Rest(rows, start)
            page == Page(rest, limit)
        IN  /\ kind' = k /\ query' = q
            /\ shown' = seen \cup page
            /\ always' = held \cap rows
            /\ again' = (cur # NoCursor /\ (again \/ page \cap seen # {}))
            /\ \/ /\ phase' = "done" /\ cursor' = NoCursor
               \/ /\ phase' = "browsing"
                  /\ \E last \in LastOf(page) : cursor' = Name(k, last)
            /\ UNCHANGED <<listed, changes>>
  BY DEF ShowPage
<1> DEFINE page == Page(Rest(rows, start), limit)
<1>2. page \subseteq RowSpace(k)
  <2>1. rows \subseteq RowSpace(k)
    BY RowsTyped DEF TypeOK
  <2> QED BY <2>1 DEF Page, Rest
<1>3. listed' \subseteq Peer /\ changes' \in 0..MaxChanges
  BY <1>1 DEF TypeOK
<1>4. kind' = k /\ query' \in Query /\ phase' \in {"idle", "browsing", "done"}
  BY <1>1
<1>5. shown' \subseteq RowSpace(k) /\ always' \subseteq RowSpace(k)
  BY <1>1, <1>2
<1>6. again' \in BOOLEAN
  BY <1>1
<1>7. IF phase' = "browsing" THEN \E r \in shown' : cursor' = Name(k, r)
                             ELSE cursor' = NoCursor
  BY <1>1 DEF LastOf
<1> QED
  BY <1>3, <1>4, <1>5, <1>6, <1>7 DEF TypeOK, RowSpace, Name, ContextName

-----------------------------------------------------------------------------
(* Whatever a step of Next is, it shows a page or changes the peers.       *)
LEMMA BrowseInit == ASSUME Init PROVE BrowseIInv
PROOF
<1>1. TypeOK
  <2>1. changes \in 0..MaxChanges
    BY CatalogAssumption DEF Init
  <2> QED BY <2>1 DEF Init, TypeOK, RowSpace
<1>2. CursorInv /\ NoneSkipped /\ RestInv
  BY DEF Init, CursorInv, NoneSkipped, RestInv
<1> QED BY <1>1, <1>2 DEF BrowseIInv

LEMMA BrowseStep ==
  ASSUME BrowseIInv, [Next]_vars
  PROVE  BrowseIInv'
PROOF
<1> USE DEF BrowseIInv
<1>1. listed \subseteq Peer /\ kind \in {"hosts", "clients"} /\ query \in Query
  BY DEF TypeOK
<1>2. ASSUME NEW k \in {"hosts", "clients"}, NEW q \in Query, NEW limit \in Limits,
             ShowPage(k, q, NoCursor, limit, {}, RowSpace(k)), moved' = FALSE
      PROVE  BrowseIInv'
  <2>1. TypeOK'
    BY <1>2, PageTyped
  <2>2. CursorInv' /\ NoneSkipped'
    BY <1>1, <1>2, PageSkipsNone
  <2>3. kind' = k /\ query' = q /\ listed' = listed
    BY <1>2 DEF ShowPage
  <2>4. NoTwins(k, q) =>
          ~again' /\ (phase' = "browsing" =>
            \E m \in Rows(k, q) : ShownTo(m, k, q, cursor', shown'))
    BY <1>1, <1>2, PageGoesOn
  <2>5. RestInv'
    BY <2>3, <2>4 DEF RestInv, NoTwins, ShownTo, Rows, Catalog, Name, ContextName
  <2> QED BY <2>1, <2>2, <2>5
<1>3. ASSUME NEW q \in Query, NEW limit \in Limits, Hosts(q, limit)
      PROVE  BrowseIInv'
  BY <1>2, <1>3 DEF Hosts, RowSpace
<1>4. ASSUME NEW limit \in Limits, Clients(query, limit)
      PROVE  BrowseIInv'
  BY <1>1, <1>2, <1>4 DEF Clients, RowSpace
<1>5. ASSUME NEW limit \in Limits, NextPage(limit)
      PROVE  BrowseIInv'
  <2>1. /\ phase = "browsing" /\ moved' = moved
        /\ ShowPage(kind, query, cursor, limit, shown, always)
    BY <1>5 DEF NextPage
  <2>2. TypeOK'
    <3>1. shown \subseteq RowSpace(kind) /\ always \subseteq RowSpace(kind) /\ moved' \in BOOLEAN
      BY <2>1 DEF TypeOK
    <3> QED BY <1>1, <2>1, <3>1, PageTyped
  <2>3. CursorInv' /\ NoneSkipped'
    BY <1>1, <2>1, PageSkipsNone DEF CursorInv
  <2>4. kind' = kind /\ query' = query /\ listed' = listed
    BY <2>1 DEF ShowPage
  <2>5. ASSUME ~moved, NoTwins(kind, query)
        PROVE  ~again' /\ (phase' = "browsing" =>
                 \E m \in Rows(kind, query) : ShownTo(m, kind, query, cursor', shown'))
    <3>1. ~again /\ \E m \in Rows(kind, query) : ShownTo(m, kind, query, cursor, shown)
      BY <2>1, <2>5 DEF RestInv
    <3>2. cursor # NoCursor
      BY <1>1, <3>1, RowsTyped DEF ShownTo
    <3> QED BY <1>1, <2>1, <2>5, <3>1, <3>2, PageGoesOn
  <2>6. RestInv'
    BY <2>1, <2>4, <2>5 DEF RestInv, NoTwins, ShownTo, Rows, Catalog, Name, ContextName
  <2> QED BY <2>2, <2>3, <2>6
<1>6. ASSUME NEW p \in Peer, PeersChange(p)
      PROVE  BrowseIInv'
  <2>1. UNCHANGED browse /\ moved' = TRUE
    BY <1>6 DEF PeersChange
  <2>2. listed' \subseteq Peer /\ changes' \in 0..MaxChanges
    <3>1. listed' \subseteq Peer
      BY <1>1, <1>6 DEF PeersChange
    <3>2. changes' \in 0..MaxChanges
      BY CatalogAssumption, <1>6 DEF PeersChange, TypeOK
    <3> QED BY <3>1, <3>2
  <2>3. TypeOK'
    BY <2>1, <2>2 DEF TypeOK, browse, RowSpace, Name, ContextName
  <2>4. CursorInv' /\ NoneSkipped' /\ RestInv'
    BY <2>1 DEF CursorInv, NoneSkipped, RestInv, NoneSkippedTo, Overtaken, browse,
                RowSpace, Name, ContextName
  <2> QED BY <2>3, <2>4
<1>7. CASE UNCHANGED vars
  <2>1. TypeOK'
    BY <1>7 DEF vars, browse, TypeOK, RowSpace, Name, ContextName
  <2>2. CursorInv' /\ NoneSkipped'
    BY <1>7 DEF vars, browse, CursorInv, NoneSkipped, NoneSkippedTo, Overtaken,
                RowSpace, Name, ContextName
  <2>3. RestInv'
    BY <1>7 DEF vars, browse, RestInv, ShownTo, NoTwins, Rows, Catalog, Matches,
                Name, ContextName
  <2> QED BY <2>1, <2>2, <2>3
<1> QED BY <1>3, <1>4, <1>5, <1>6, <1>7 DEF Next, Continue

LEMMA BrowseInv == Spec => []BrowseIInv
PROOF
<1>1. Init => BrowseIInv
  BY BrowseInit
<1>2. BrowseIInv /\ [Next]_vars => BrowseIInv'
  BY BrowseStep
<1> QED BY <1>1, <1>2, PTL DEF Spec

(* The variables keep their types, and a cursor is the name of a row shown. *)
THEOREM CatalogTyped == Spec => []TypeOK
PROOF
<1>1. BrowseIInv => TypeOK
  BY DEF BrowseIInv
<1> QED BY <1>1, BrowseInv, PTL

(* Whatever peers come and go, for any lists, limits and filters, a browse *)
(* that has come to its end has shown each row that was there throughout,  *)
(* but for those a gone namesake was in front of.                          *)
THEOREM NoRowIsSkipped == Spec => []NoneSkipped
PROOF
<1>1. BrowseIInv => NoneSkipped
  BY DEF BrowseIInv
<1> QED BY <1>1, BrowseInv, PTL

(* With the peers at rest and no two hosts of one name no page repeats a   *)
(* row.                                                                    *)
THEOREM RowsAreShownOnce == Spec => []ShownOnce
PROOF
<1>1. BrowseIInv => ShownOnce
  BY DEF BrowseIInv, RestInv, ShownOnce, Namesakes, NoTwins
<1> QED BY <1>1, BrowseInv, PTL
=============================================================================
