------------------------ MODULE Applications_proofs -------------------------
(***************************************************************************)
(* Proofs about the composition of the application modules: whichever of   *)
(* them moves, what Store_proofs and Desktop_proofs show of it alone holds *)
(* of the composition: each invariant that its run checks, the types of    *)
(* all modules among them, and that the store forgets nothing.             *)
(* The results of a search do not depend on the order in which its sources *)
(* answer, whatever the sources are and whatever they answer.              *)
(***************************************************************************)
EXTENDS MCApplications, Store_proofs, Desktop_proofs
-----------------------------------------------------------------------------
(* Publishing and Discovery *)

\* The module that has the focus keeps its inductive invariant.
FocusInv ==
    /\ focus = "publishing" => PublishingInv
    /\ focus = "discovery" => DiscoveryInv

LEMMA InitFocus == Init => FocusInv
  BY PublishingInit_Inv, DiscoveryInit_Inv DEF Init, FocusInv, PublishingInit, DiscoveryInit

LEMMA NextFocus == FocusInv /\ [Next]_vars => FocusInv'
<1> SUFFICES ASSUME FocusInv, [Next]_vars PROVE FocusInv'
  OBVIOUS
<1>1. focus' = focus
  BY DEF Next, vars
<1>2. CASE focus = "publishing"
  <2>1. [PublishingNext]_publishingVars
    BY <1>2 DEF Next, vars, publishingVars
  <2> QED
    BY <1>1, <1>2, <2>1, PublishingNext_Inv DEF FocusInv
<1>3. CASE focus = "discovery"
  <2>1. [DiscoveryNext]_discoveryVars
    BY <1>3 DEF Next, vars, discoveryVars
  <2> QED
    BY <1>1, <1>3, <2>1, DiscoveryNext_Inv DEF FocusInv
<1> QED
  BY <1>1, <1>2, <1>3 DEF FocusInv

LEMMA FocusInvHolds == Spec => []FocusInv
  BY InitFocus, NextFocus, PTL DEF Spec

\* In the composition too, every record is put under the name of its publisher
\* (publish_catalog_tags, create_release), and every claim that sync_followed caches was
\* published by its issuer, though homeservers serve claims in the name of others.
THEOREM RecordsAlwaysUnderTheirAuthority == Spec => []RecordsKeepTheirAuthority
<1>1. FocusInv => RecordsKeepTheirAuthority
  BY DEF FocusInv, RecordsKeepTheirAuthority, PublishingInv
<1> QED
  BY <1>1, FocusInvHolds, PTL

\* In the composition too, a publisher that discovery follows is indexed completely.
THEOREM RefreshesAlwaysIndex == Spec => []RefreshesIndex
<1>1. FocusInv => RefreshesIndex
  BY DEF FocusInv, RefreshesIndex, DiscoveryInv
<1> QED
  BY <1>1, FocusInvHolds, PTL
-----------------------------------------------------------------------------
(* What the store never forgets *)

\* A store that build 1 has just created is as one that has been opened.
LEMMA FreshStoreInv == FreshStore => StoreInv
<1> SUFFICES ASSUME FreshStore PROVE StoreInv
  OBVIOUS
<1> DEFINE n == Len(Presets[1])
           r(i) == Row(i, Presets[1][i], "rss", i = 1, TRUE, FALSE)
<1>1. n \in Nat /\ lastId = n /\ sources = {r(i) : i \in 1..n}
  BY PresetsAssumption DEF FreshStore
<1>2. \A i \in 1..n : r(i).id = i /\ r(i).endpoint = Presets[1][i] /\ IsRow(r(i))
  BY DEF Row, IsRow
<1>3. \A i, j \in 1..n : Presets[1][i] = Presets[1][j] => i = j
  BY PresetsAssumption
<1> HIDE DEF n, r
<1>4. RowsInv
  <2>1. version = 5
    BY DEF FreshStore, CurrentVersion
  <2>2. \A s \in sources : IsRow(s) /\ s.id \in Nat /\ s.id <= lastId
    BY <1>1, <1>2
  <2>3. \A s, t \in sources : s.id = t.id \/ s.endpoint = t.endpoint => s = t
    BY <1>1, <1>2, <1>3
  <2> QED
    BY <2>1, <2>2, <2>3 DEF RowsInv
<1>5. ShapeInv
  BY <1>1 DEF FreshStore, ShapeInv, CurrentVersion
<1>6. StoreIntact
  BY DEF FreshStore, StoreIntact, OpensComplete, CursorsOfFollowed
<1> QED
  BY <1>4, <1>5, <1>6 DEF StoreInv

\* The commands of the catalogues change the store by its own operations.
LEMMA CatalogUsesStore ==
  ASSUME StoreInv, CatalogNext
  PROVE  StoreInv' /\ [ForgetsNothing]_storeVars
<1>1. \/ \E e \in Endpoint : \E kind, key : AddSource(e, kind, key)
      \/ \E id : SetSourceEnabled(id, FALSE) \/ RemoveSource(id)
      \/ UNCHANGED storeVars
  <2>1. PICK c \in Callers :
           \/ \E e \in Endpoint : AddCatalog(c, e, "torznab", TRUE) \/ AddCatalog(c, e, "rss", FALSE)
           \/ AddReadBack(c) \/ InsertKey(c) \/ RemoveKey(c) \/ Delete(c)
           \/ \E id \in 1..lastId : SetKey(c, id) \/ RemoveCatalog(c, id) \/ Enable(c, id, FALSE)
           \/ SearchSources(c) \/ SearchKeys(c)
           \/ \E s \in caller[c].todo : FetchOk(c, s) \/ FetchError(c, s)
           \/ Respond(c) \/ Display(c)
    BY DEF CatalogNext
  <2>2. ASSUME NEW e \in Endpoint, AddCatalog(c, e, "torznab", TRUE) \/ AddCatalog(c, e, "rss", FALSE)
        PROVE  \E kind, key : AddSource(e, kind, key)
    BY <2>2, Zenon DEF AddCatalog
  <2>3. ASSUME NEW id, Enable(c, id, FALSE) PROVE SetSourceEnabled(id, FALSE)
    BY <2>3, Zenon DEF Enable
  <2>4. ASSUME Delete(c) PROVE RemoveSource(caller[c].id) \/ UNCHANGED storeVars
    BY <2>4, Zenon DEF Delete
  <2>5. ASSUME \/ AddReadBack(c) \/ InsertKey(c) \/ RemoveKey(c)
               \/ \E id : SetKey(c, id) \/ RemoveCatalog(c, id)
               \/ SearchSources(c) \/ SearchKeys(c)
               \/ \E s : FetchOk(c, s) \/ FetchError(c, s)
               \/ Respond(c) \/ Display(c)
        PROVE  UNCHANGED storeVars
    BY <2>5, Zenon DEF AddReadBack, InsertKey, RemoveKey, SetKey, RemoveCatalog, SearchSources,
                       SearchKeys, FetchOk, FetchError, Respond, Display
  <2> QED
    BY <2>1, <2>2, <2>3, <2>4, <2>5, Zenon
<1>2. CASE UNCHANGED storeVars
  BY <1>2, StoreStep
<1> QED
  BY <1>1, <1>2, SourceStep, SourcesForgetNothing

\* So do the refreshes: they cache one release, or follow one publisher.
LEMMA DiscoveryUsesStore ==
  ASSUME StoreInv, DiscoveryInv, DiscoveryNext
  PROVE  StoreInv' /\ [ForgetsNothing]_storeVars
<1>1. ASSUME NEW t \in Refreshes, RefreshCache(t) PROVE StoreInv' /\ ForgetsNothing
  <2>1. /\ UNCHANGED <<opening, followed, cursors, sources, lastId, sequences, artifacts>>
        /\ \A s \in releases : \E r \in releases' : r.publisher = s.publisher /\ r.id = s.id
    BY <1>1 DEF RefreshCache, Cached
  <2>2. StoreInv'
    BY <2>1, RowsOfOthers DEF StoreInv, ShapeInv
  <2>3. ForgetsNothing
    BY <2>1, SameSourcesKept, KeepsSequences DEF ForgetsNothing, StoreInv, ShapeInv, opening
  <2> QED
    BY <2>2, <2>3
<1>2. ASSUME NEW t \in Refreshes, RefreshFollow(t) PROVE StoreInv' /\ ForgetsNothing
  <2>1. UNCHANGED <<opening, cursors, releases, artifacts, sequences, sources, lastId>>
    BY <1>2 DEF RefreshFollow
  <2>2. refresh[t].publisher \in Publisher
    BY <1>2 DEF DiscoveryInv, RefreshInv, RefreshFollow, RefreshAt
  <2>3. followed' \in Seq(Publisher) /\ ToSet(followed) \subseteq ToSet(followed')
    BY <1>2, <2>2, FollowKeeps DEF StoreInv, ShapeInv, RefreshFollow
  <2>4. StoreInv'
    BY <2>1, <2>3 DEF opening, StoreInv, ShapeInv, StoreIntact, OpensComplete, CursorsOfFollowed,
                      RowsInv, HasEndpoint
  <2>5. ForgetsNothing
    BY <2>1, SameSourcesKept, KeepsSequences DEF ForgetsNothing, StoreInv, ShapeInv, opening
  <2> QED
    BY <2>4, <2>5
<1>3. CASE UNCHANGED storeVars
  BY <1>3, StoreStep
<1> QED
  BY <1>1, <1>2, <1>3 DEF DiscoveryNext, Put, RefreshList, RefreshGet, RefreshFails, RefreshRefuses,
                          StartPaging, NextPage

\* The store of whichever module has the focus, publishing's apart.
SteadyInv == focus # "publishing" => StoreInv

LEMMA InitSteady == Init => SteadyInv
  BY InitStore, FreshStoreInv DEF Init, SteadyInv

LEMMA NextSteady ==
  ASSUME FocusInv, SteadyInv, [Next]_vars
  PROVE  /\ SteadyInv'
         /\ [focus # "publishing" => ForgetsNothing]_storeVars
<1>1. focus' = focus
  BY DEF Next, vars
<1> SUFFICES ASSUME focus # "publishing" PROVE StoreInv' /\ [ForgetsNothing]_storeVars
  BY <1>1 DEF SteadyInv
<1>2. StoreInv
  BY DEF SteadyInv
<1>3. CASE UNCHANGED storeVars
  BY <1>2, <1>3, StoreStep
<1>4. CASE StoreNext
  BY <1>2, <1>4, StoreStep, StepForgetsNothing
<1>5. CASE focus = "catalog" /\ CatalogNext
  BY <1>2, <1>5, CatalogUsesStore
<1>6. CASE focus = "discovery" /\ DiscoveryNext
  BY <1>2, <1>6, DiscoveryUsesStore DEF FocusInv
<1> QED
  BY <1>3, <1>4, <1>5, <1>6 DEF Next, vars

\* In the composition too: catalogue commands, refreshes, migrations, crashes and
\* restarts with newer builds take nothing back that the store has recorded.
THEOREM NothingIsEverForgotten == Spec => StoreForgetsNothing
<1>1. FocusInv /\ SteadyInv /\ [Next]_vars => SteadyInv'
  BY NextSteady
<1>2. FocusInv /\ SteadyInv /\ [Next]_vars => [focus # "publishing" => ForgetsNothing]_storeVars
  BY NextSteady
<1> QED
  BY <1>1, <1>2, InitSteady, FocusInvHolds, PTL DEF Spec, StoreForgetsNothing
-----------------------------------------------------------------------------
(* What a search shows *)

\* How many are before it, in an order of K: each element has a rank of its own, and no
\* rank is left out.
Rank(R, K, i) == Cardinality({j \in K : <<j, i>> \in R})

LEMMA EachHasItsRank ==
    ASSUME NEW K, IsFiniteSet(K), NEW R, StrictOrder(R, K)
    PROVE  /\ Cardinality(K) \in Nat
           /\ \A i \in K : Rank(R, K, i) \in 0..(Cardinality(K) - 1)
           /\ \A i, j \in K : Rank(R, K, i) = Rank(R, K, j) => i = j
           /\ \A n \in 0..(Cardinality(K) - 1) : \E i \in K : Rank(R, K, i) = n
<1>. DEFINE Lower(i) == {j \in K : <<j, i>> \in R}
            N == Cardinality(K)
            f == [i \in K |-> Rank(R, K, i)]
<1>1. N \in Nat
  BY FS_CardinalityType
<1>2. ASSUME NEW i \in K
      PROVE  IsFiniteSet(Lower(i)) /\ Rank(R, K, i) \in Nat /\ Rank(R, K, i) \in 0..(N - 1)
  <2>1. Lower(i) \in SUBSET K /\ i \in K /\ i \notin Lower(i)
    BY DEF StrictOrder
  <2>2. IsFiniteSet(Lower(i)) /\ Cardinality(Lower(i)) <= N /\ Cardinality(Lower(i)) # N
    BY <2>1, FS_Subset
  <2>3. Cardinality(Lower(i)) \in Nat
    BY <2>2, FS_CardinalityType
  <2>. HIDE DEF N
  <2>. QED  BY <1>1, <2>2, <2>3 DEF Rank
<1>3. ASSUME NEW i \in K, NEW j \in K, <<i, j>> \in R
      PROVE  Rank(R, K, i) < Rank(R, K, j)
  <2>1. Lower(i) \in SUBSET Lower(j) /\ i \in Lower(j) /\ i \notin Lower(i)
    BY <1>3 DEF StrictOrder
  <2>2. Cardinality(Lower(i)) <= Cardinality(Lower(j)) /\ Cardinality(Lower(i)) # Cardinality(Lower(j))
    BY <1>2, <2>1, FS_Subset
  <2>3. Cardinality(Lower(i)) \in Nat /\ Cardinality(Lower(j)) \in Nat
    BY <1>2, FS_CardinalityType
  <2>. QED  BY <2>2, <2>3 DEF Rank
<1>4. ASSUME NEW i \in K, NEW j \in K, Rank(R, K, i) = Rank(R, K, j) PROVE i = j
  <2>1. i = j \/ <<i, j>> \in R \/ <<j, i>> \in R
    BY DEF StrictOrder
  <2>2. Rank(R, K, i) \in Nat /\ Rank(R, K, j) \in Nat
    BY <1>2
  <2>. QED  BY <1>3, <1>4, <2>1, <2>2
<1>5. f \in [K -> 0..(N - 1)] /\ \A i, j \in K : f[i] = f[j] => i = j
  BY <1>2, <1>4
<1>6. f \in Injection(K, 0..(N - 1))
  BY <1>5, Zenon DEF Injection, IsInjective
<1>7. IsFiniteSet(0..(N - 1)) /\ Cardinality(0..(N - 1)) = N
  <2>. HIDE DEF N
  <2>1. N - 1 \in Int /\ 0 \in Int
    BY <1>1
  <2>2. IsFiniteSet(0..(N - 1)) /\ Cardinality(0..(N - 1)) = IF 0 > N - 1 THEN 0 ELSE (N - 1) - 0 + 1
    BY ONLY <2>1, FS_Interval
  <2>. QED  BY <1>1, <2>2
<1>8. f \in Surjection(K, 0..(N - 1))
  BY <1>6, <1>7, FS_Injection
<1>9. \A n \in 0..(N - 1) : \E i \in K : f[i] = n
  BY <1>8, Zenon DEF Surjection
<1>. QED  BY <1>1, <1>2, <1>4, <1>9

\* What a source answers is a sequence of items.
FeedItemOf == [title : Nat, hash : Nat, matches : BOOLEAN]
Item == [source : Nat, title : Nat, hash : Nat]

LEMMA TakeTyped ==
    ASSUME NEW S, NEW items \in Seq(S), NEW n \in Nat
    PROVE  Take(items, n) \in Seq(S)
  BY DEF Take

LEMMA InOrderTyped ==
    ASSUME NEW S, NEW items \in Seq(S), NEW kept \in SUBSET DOMAIN items
    PROVE  Arranged(items, kept, <) \in Seq(S)
<1>. DEFINE rank(i) == Cardinality({j \in kept : j < i})
            at(k) == CHOOSE i \in kept : rank(i) = k - 1
            N == Cardinality(kept)
<1>1. IsFiniteSet(kept) /\ kept \subseteq Nat
  <2>1. Len(items) \in Nat /\ DOMAIN items = 1..Len(items)
    OBVIOUS
  <2>2. IsFiniteSet(1..Len(items))
    BY <2>1, FS_Interval
  <2>. QED  BY <2>1, <2>2, FS_Subset
<1>2. StrictOrder(NumberOrder, kept)
  BY <1>1, NumbersAreOrdered DEF StrictOrder
<1>3. \A i \in kept : Rank(NumberOrder, kept, i) = rank(i)
  <2>1. \A i, j \in Nat : <<j, i>> \in NumberOrder <=> j < i
    BY DEF NumberOrder
  <2>2. ASSUME NEW i \in kept PROVE {j \in kept : <<j, i>> \in NumberOrder} = {j \in kept : j < i}
    BY <1>1, <2>1
  <2>. QED  BY <2>2 DEF Rank
<1>4. N \in Nat /\ \A n \in 0..(N - 1) : \E i \in kept : rank(i) = n
  BY <1>1, <1>2, <1>3, EachHasItsRank
<1>. HIDE DEF rank, N
<1>5. \A k \in 1..N : at(k) \in kept
  <2>1. ASSUME NEW k \in 1..N PROVE at(k) \in kept
    <3>1. k - 1 \in 0..(N - 1)
      BY <1>4
    <3>. QED  BY <1>4, <3>1
  <2>. QED  BY <2>1
<1>6. Arranged(items, kept, <) = [k \in 1..N |-> items[at(k)]]
  BY DEF Arranged, N, rank
<1>. HIDE DEF at
<1>. DEFINE value(k) == items[at(k)]
<1>7. \A k \in 1..N : value(k) \in S
  BY <1>5
<1>8. Arranged(items, kept, <) = [k \in 1..N |-> value(k)]
  BY <1>6
<1>. HIDE DEF value
<1>9. [k \in 1..N |-> value(k)] \in [1..N -> S]
  BY <1>7, Zenon
<1>10. [1..N -> S] \subseteq Seq(S)
  BY <1>4, SeqDef, Zenon
<1>. QED  BY <1>8, <1>9, <1>10, Zenon

LEMMA ItemsTyped ==
    ASSUME NEW s, s.id \in Nat, s.endpoint \in Endpoint
    PROVE  Items(s) \in Seq(Item) /\ \A i \in 1..Len(Items(s)) : Items(s)[i].source = s.id
<1>. DEFINE feed == Feed[s.endpoint]
            first == Take(feed, MaxResults)
            kept == {i \in DOMAIN first : first[i].matches}
            answer == Answer(s)
            item(i) == [source |-> s.id, title |-> answer[i].title, hash |-> answer[i].hash]
<1>1. feed \in Seq(FeedItemOf)
  BY FeedAssumption DEF FeedItemOf
<1>. HIDE DEF feed
<1>2. first \in Seq(FeedItemOf)
  BY <1>1, TakeTyped, LimitAssumption
<1>. HIDE DEF first
<1>3. Filtered(first) \in Seq(FeedItemOf)
  BY <1>2, InOrderTyped DEF Filtered
<1>4. answer \in Seq(FeedItemOf)
  BY <1>1, <1>3, TakeTyped, LimitAssumption DEF Answer, feed, first
<1>. HIDE DEF answer
<1>5. Items(s) = [i \in 1..Len(answer) |-> item(i)]
  BY DEF Items, answer
<1>6. \A i \in 1..Len(answer) : item(i) \in Item /\ item(i).source = s.id
  <2>1. \A i \in 1..Len(answer) : answer[i] \in FeedItemOf
    BY <1>4
  <2>2. ASSUME NEW a \in FeedItemOf
        PROVE  [source |-> s.id, title |-> a.title, hash |-> a.hash] \in Item
    BY DEF Item, FeedItemOf
  <2>. QED  BY <2>1, <2>2
<1>7. Len(answer) \in Nat
  BY <1>4
<1>. HIDE DEF item
<1>. QED  BY <1>5, <1>6, <1>7

\* The places of what the sources of D answer, and the order in which a search shows them.
Proper(D) == \A s, t \in D : /\ s.id \in Nat /\ s.endpoint \in Endpoint
                             /\ s.id = t.id => s = t
Places(D) == {p \in D \X Nat : p[2] \in 1..Len(Items(p[1]))}
ItemAt(p) == Items(p[1])[p[2]]
PlaceBefore(p, q) ==
    \/ p[1].id < q[1].id
    \/ /\ p[1].id = q[1].id
       /\ \/ ItemAt(p).title < ItemAt(q).title
          \/ ItemAt(p).title = ItemAt(q).title /\ p[2] < q[2]
PlaceOrder(D) == {u \in Places(D) \X Places(D) : PlaceBefore(u[1], u[2])}
InPlaceOrder(D) ==
    [k \in 1..Cardinality(Places(D)) |->
       ItemAt(CHOOSE p \in Places(D) : Rank(PlaceOrder(D), Places(D), p) = k - 1)]

\* X has the answers of the sources of D, each in its own order, in any order of sources.
Blocks(X, D) ==
    /\ X \in Seq(Item)
    /\ \E at \in Bijection(1..Len(X), Places(D)) :
          /\ \A i \in 1..Len(X) : X[i] = ItemAt(at[i])
          /\ \A i, j \in 1..Len(X) : at[i][1] = at[j][1] /\ i < j => at[i][2] < at[j][2]

LEMMA PlacesTyped ==
    ASSUME NEW D, Proper(D), NEW p \in Places(D)
    PROVE  /\ p[1] \in D /\ p[1].id \in Nat /\ p[2] \in Nat /\ p = <<p[1], p[2]>>
           /\ ItemAt(p) \in Item /\ ItemAt(p).source = p[1].id
<1>1. p[1] \in D /\ p[2] \in Nat /\ p = <<p[1], p[2]>> /\ p[2] \in 1..Len(Items(p[1]))
  BY DEF Places
<1>2. p[1].id \in Nat /\ p[1].endpoint \in Endpoint
  BY <1>1 DEF Proper
<1>3. /\ Items(p[1]) \in Seq(Item)
      /\ \A i \in 1..Len(Items(p[1])) : Items(p[1])[i].source = p[1].id
  BY <1>2, ItemsTyped, Zenon
<1>. QED  BY <1>1, <1>2, <1>3 DEF ItemAt

LEMMA PlacesAreOrdered ==
    ASSUME NEW D, Proper(D)
    PROVE  StrictOrder(PlaceOrder(D), Places(D))
<1>1. ASSUME NEW p \in Places(D), NEW q \in Places(D)
      PROVE  <<p, q>> \in PlaceOrder(D) <=> PlaceBefore(p, q)
  BY DEF PlaceOrder
<1>2. ASSUME NEW p \in Places(D)
      PROVE  p[1].id \in Nat /\ ItemAt(p).title \in Nat /\ p[2] \in Nat
  <2>1. ItemAt(p) \in Item
    BY PlacesTyped
  <2>. QED  BY <2>1, PlacesTyped DEF Item
<1>3. ASSUME NEW p \in Places(D), NEW q \in Places(D), NEW r \in Places(D)
      PROVE  /\ ~PlaceBefore(p, p)
             /\ PlaceBefore(p, q) /\ PlaceBefore(q, r) => PlaceBefore(p, r)
             /\ \/ PlaceBefore(p, q) \/ PlaceBefore(q, p)
                \/ p[1].id = q[1].id /\ p[2] = q[2]
  BY <1>2 DEF PlaceBefore
<1>4. ASSUME NEW p \in Places(D), NEW q \in Places(D), p[1].id = q[1].id, p[2] = q[2]
      PROVE  p = q
  <2>1. p[1] = q[1]
    BY <1>4, PlacesTyped DEF Proper
  <2>. QED  BY <1>4, <2>1, PlacesTyped
<1>. QED  BY <1>1, <1>3, <1>4, Zenon DEF StrictOrder

\* What a search shows first and last depends on who answered, and not on the order.
LEMMA SortedBlocks ==
    ASSUME NEW D, Proper(D), NEW X, Blocks(X, D)
    PROVE  SortBySource(X) = InPlaceOrder(D)
<1>. DEFINE N == Len(X)
            P == Places(D)
            prank(p) == Rank(PlaceOrder(D), P, p)
            rank(i) == Cardinality({j \in DOMAIN X : SourceBefore(X, j, i)})
<1>1. PICK at \in Bijection(1..N, P) :
          /\ \A i \in 1..N : X[i] = ItemAt(at[i])
          /\ \A i, j \in 1..N : at[i][1] = at[j][1] /\ i < j => at[i][2] < at[j][2]
  BY DEF Blocks
<1>2. N \in Nat /\ DOMAIN X = 1..N /\ X \in Seq(Item)
  BY DEF Blocks
<1>. HIDE DEF N, P
<1>3. /\ at \in [1..N -> P] /\ \A i, j \in 1..N : at[i] = at[j] => i = j
      /\ \A p \in P : \E i \in 1..N : at[i] = p
  BY <1>1, Zenon DEF Bijection, Injection, Surjection, IsInjective
<1>4. IsFiniteSet(1..N) /\ Cardinality(1..N) = N /\ IsFiniteSet(P) /\ Cardinality(P) = N
  <2>1. IsFiniteSet(1..N) /\ Cardinality(1..N) = N
    BY <1>2, FS_Interval
  <2>2. ExistsBijection(1..N, P)
    BY <1>1 DEF ExistsBijection
  <2>. QED  BY <2>1, <2>2, FS_Bijection
<1>5. ASSUME NEW i \in 1..N, NEW j \in 1..N
      PROVE  SourceBefore(X, i, j) <=> <<at[i], at[j]>> \in PlaceOrder(D)
  <2>1. at[i] \in Places(D) /\ at[j] \in Places(D)
    BY <1>3 DEF P
  <2>2. X[i] = ItemAt(at[i]) /\ X[j] = ItemAt(at[j])
    BY <1>1
  <2>3. X[i].source = at[i][1].id /\ X[j].source = at[j][1].id
    BY <2>1, <2>2, PlacesTyped
  <2>4. at[i][1].id = at[j][1].id => at[i][1] = at[j][1]
    BY <2>1, PlacesTyped DEF Proper
  <2>5. at[i][1] = at[j][1] => (i < j <=> at[i][2] < at[j][2])
    <3>1. at[i][2] \in Nat /\ at[j][2] \in Nat
      BY <2>1, PlacesTyped
    <3>2. i < j \/ j < i \/ i = j
      BY <1>2
    <3>3. \A m, n \in 1..N : at[m][1] = at[n][1] /\ m < n => at[m][2] < at[n][2]
      BY <1>1
    <3>. QED  BY <3>1, <3>2, <3>3
  <2>6. <<at[i], at[j]>> \in PlaceOrder(D) <=> PlaceBefore(at[i], at[j])
    BY <2>1 DEF PlaceOrder
  <2>. QED  BY <2>2, <2>3, <2>4, <2>5, <2>6 DEF SourceBefore, TitleBefore, PlaceBefore
<1>6. ASSUME NEW i \in 1..N PROVE rank(i) = prank(at[i])
  <2>. DEFINE A == {j \in 1..N : SourceBefore(X, j, i)}
              B == {q \in P : <<q, at[i]>> \in PlaceOrder(D)}
              g == [j \in A |-> at[j]]
  <2>1. \A j \in 1..N : j \in A <=> at[j] \in B
    BY <1>3, <1>5
  <2>2. A \in SUBSET (1..N) /\ B \in SUBSET P
    OBVIOUS
  <2>. HIDE DEF A, B
  <2>3. g \in [A -> B] /\ \A j, k \in A : g[j] = g[k] => j = k
    BY <1>3, <2>1, <2>2
  <2>4. \A q \in B : \E j \in A : g[j] = q
    BY <1>3, <2>1, <2>2
  <2>5. g \in Bijection(A, B)
    BY <2>3, <2>4, Zenon DEF Bijection, Injection, Surjection, IsInjective
  <2>6. IsFiniteSet(A)
    BY <1>4, <2>2, FS_Subset
  <2>7. ExistsBijection(A, B)
    BY <2>5 DEF ExistsBijection
  <2>8. Cardinality(A) = Cardinality(B)
    BY <2>6, <2>7, FS_Bijection
  <2>. QED  BY <1>2, <2>8 DEF A, B, Rank
<1>7. /\ \A n \in 0..(N - 1) : \E p \in P : prank(p) = n
      /\ \A p, q \in P : prank(p) = prank(q) => p = q
  BY <1>4, PlacesAreOrdered, EachHasItsRank DEF P
<1>. HIDE DEF rank, prank
<1>8. ASSUME NEW k \in 1..N
      PROVE  X[CHOOSE i \in 1..N : rank(i) = k - 1] = ItemAt(CHOOSE p \in P : prank(p) = k - 1)
  <2>1. k - 1 \in 0..(N - 1)
    BY <1>2
  <2>. DEFINE n == k - 1
              i == CHOOSE i \in 1..N : rank(i) = n
              p == CHOOSE p \in P : prank(p) = n
  <2>2. p \in P /\ prank(p) = n
    BY <1>7, <2>1
  <2>3. \E j \in 1..N : rank(j) = n
    BY <1>3, <1>6, <2>2
  <2>4. i \in 1..N /\ rank(i) = n
    BY <2>3
  <2>. HIDE DEF n, i, p
  <2>5. at[i] = p
    BY <1>3, <1>6, <1>7, <2>2, <2>4
  <2>6. X[i] = ItemAt(p)
    BY <1>1, <2>4, <2>5
  <2>. QED  BY <2>6 DEF i, p, n
<1>9. SortBySource(X) = [k \in 1..N |-> X[CHOOSE i \in 1..N : rank(i) = k - 1]]
  BY <1>2, <1>4 DEF SortBySource, Arranged, rank
<1>10. InPlaceOrder(D) = [k \in 1..N |-> ItemAt(CHOOSE p \in P : prank(p) = k - 1)]
  BY <1>4 DEF InPlaceOrder, P, prank
<1>. QED  BY <1>8, <1>9, <1>10

LEMMA NoBlock == Blocks(<<>>, {})
<1>1. Places({}) = {}
  BY DEF Places
<1>2. <<>> \in Bijection(1..0, {})
  <2>1. 1..0 = {}
    OBVIOUS
  <2>2. <<>> \in [{} -> {}]
    OBVIOUS
  <2>. QED  BY <2>1, <2>2 DEF Bijection, Injection, Surjection, IsInjective
<1>. QED  BY <1>1, <1>2 DEF Blocks

LEMMA OneMoreBlock ==
    ASSUME NEW D, NEW X, Blocks(X, D), NEW s, s \notin D, Proper(D \cup {s})
    PROVE  Blocks(X \o Items(s), D \cup {s})
<1>. DEFINE N == Len(X)
            L == Items(s)
            M == Len(L)
            P == Places(D)
            Q == Places(D \cup {s})
            Y == X \o L
<1>1. PICK at \in Bijection(1..N, P) :
          /\ \A i \in 1..N : X[i] = ItemAt(at[i])
          /\ \A i, j \in 1..N : at[i][1] = at[j][1] /\ i < j => at[i][2] < at[j][2]
  BY DEF Blocks
<1>2. X \in Seq(Item) /\ N \in Nat
  BY DEF Blocks
<1>3. L \in Seq(Item) /\ M \in Nat
  <2>1. s.id \in Nat /\ s.endpoint \in Endpoint
    BY DEF Proper
  <2>2. L \in Seq(Item)
    BY <2>1, ItemsTyped
  <2>. HIDE DEF L
  <2>. QED  BY <2>2
<1>4. \A k : ItemAt(<<s, k>>) = L[k]
  BY DEF ItemAt
<1>5. Q = P \cup {<<s, k>> : k \in 1..M}
  <2>. HIDE DEF L
  <2>1. \A p : p \in Q <=> p \in P \/ (p \in {s} \X Nat /\ p[2] \in 1..M)
    BY DEF Places, M, L
  <2>2. \A p : p \in {s} \X Nat /\ p[2] \in 1..M <=> \E k \in 1..M : p = <<s, k>>
    BY <1>3
  <2>. HIDE DEF P, Q, M
  <2>. QED  BY <2>1, <2>2
<1>6. \A p \in P : p[1] # s
  BY DEF Places
<1>7. /\ at \in [1..N -> P] /\ \A i, j \in 1..N : at[i] = at[j] => i = j
      /\ \A p \in P : \E i \in 1..N : at[i] = p
  BY <1>1, Zenon DEF Bijection, Injection, Surjection, IsInjective
<1>. HIDE DEF N, L, M, P, Q
<1>8. /\ Y \in Seq(Item) /\ Len(Y) = N + M
      /\ \A i \in 1..N : Y[i] = X[i]
      /\ \A i \in (N + 1)..(N + M) : Y[i] = L[i - N]
  BY <1>2, <1>3 DEF N, M
<1>. HIDE DEF Y
<1>. DEFINE to(i) == IF i <= N THEN at[i] ELSE <<s, i - N>>
            on == [i \in 1..(N + M) |-> to(i)]
<1>9. \A i \in 1..N : to(i) = at[i] /\ to(i) \in P /\ to(i)[1] # s
  BY <1>2, <1>6, <1>7
<1>10. \A i \in (N + 1)..(N + M) : /\ to(i) = <<s, i - N>> /\ i - N \in 1..M
                                   /\ to(i)[1] = s /\ to(i)[2] = i - N
  BY <1>2, <1>3
<1>11. \A i \in 1..(N + M) : i \in 1..N \/ i \in (N + 1)..(N + M)
  BY <1>2, <1>3
<1>. HIDE DEF to
<1>12. \A i \in 1..(N + M) : to(i) \in Q
  BY <1>5, <1>9, <1>10, <1>11
<1>13. \A i, j \in 1..(N + M) : to(i) = to(j) => i = j
  BY <1>2, <1>3, <1>7, <1>9, <1>10, <1>11
<1>14. \A p \in Q : \E i \in 1..(N + M) : to(i) = p
  <2>1. ASSUME NEW p \in P PROVE \E i \in 1..(N + M) : to(i) = p
    BY <1>2, <1>3, <1>7, <1>9
  <2>2. ASSUME NEW k \in 1..M PROVE \E i \in 1..(N + M) : to(i) = <<s, k>>
    <3>1. k + N \in (N + 1)..(N + M) /\ k + N \in 1..(N + M) /\ (k + N) - N = k
      BY <1>2, <1>3
    <3>. QED  BY <1>10, <3>1
  <2>. QED  BY <1>5, <2>1, <2>2
<1>15. on \in Bijection(1..(N + M), Q)
  BY <1>12, <1>13, <1>14, Zenon DEF Bijection, Injection, Surjection, IsInjective
<1>16. \A i \in 1..(N + M) : Y[i] = ItemAt(on[i])
  BY <1>1, <1>4, <1>8, <1>9, <1>10, <1>11
<1>17. \A i, j \in 1..(N + M) : on[i][1] = on[j][1] /\ i < j => on[i][2] < on[j][2]
  BY <1>1, <1>2, <1>3, <1>9, <1>10, <1>11
<1>. HIDE DEF on
<1>. QED  BY <1>8, <1>15, <1>16, <1>17 DEF Blocks, Q, Y, L

LEMMA AnyOrder ==
    ASSUME NEW D, Proper(D), NEW n \in Nat, NEW order \in Bijection(1..n, D)
    PROVE  Blocks(FlattenSeq([i \in DOMAIN order |-> Items(order[i])]), D)
<1>. DEFINE B == [i \in 1..n |-> Items(order[i])]
            Replying(m) == {order[j] : j \in 1..m}
<1>1. /\ order \in [1..n -> D] /\ \A i, j \in 1..n : order[i] = order[j] => i = j
      /\ \A s \in D : \E i \in 1..n : order[i] = s
  BY Zenon DEF Bijection, Injection, Surjection, IsInjective
<1>2. \A i \in 1..n : Items(order[i]) \in Seq(Item)
  BY <1>1, ItemsTyped DEF Proper
<1>3. Replying(n) = D /\ [i \in DOMAIN order |-> Items(order[i])] = B
  BY <1>1
<1>4. \A m \in 0..n : Proper(Replying(m))
  <2>1. \A m \in 0..n : Replying(m) \subseteq D
    BY <1>1
  <2>. QED  BY <2>1 DEF Proper
<1>5. B \in Seq(Seq(Item)) /\ Len(B) = n
  <2>. DEFINE Listings == Seq(Item)
  <2>1. B \in [1..n -> Listings]
    BY <1>2, Zenon
  <2>. HIDE DEF Listings
  <2>2. [1..n -> Listings] \subseteq Seq(Listings)
    BY SeqDef, Zenon
  <2>3. Len(B) = n
    OBVIOUS
  <2>. QED  BY <2>1, <2>2, <2>3, Zenon DEF Listings
<1>6. \A i \in 1..n : B[i] = Items(order[i])
  OBVIOUS
<1>. HIDE DEF B
<1>7. ASSUME NEW m \in 0..(n - 1), NEW X, Blocks(X, Replying(m))
      PROVE  m + 1 \in 1..n /\ Blocks(X \o B[m + 1], Replying(m + 1))
  <2>. DEFINE s == order[m + 1]
  <2>1. m + 1 \in 1..n /\ m + 1 \in 0..n
    OBVIOUS
  <2>2. Replying(m + 1) = Replying(m) \cup {s} /\ s \notin Replying(m)
    <3>1. 1..(m + 1) = (1..m) \cup {m + 1} /\ m + 1 \notin 1..m /\ 1..m \subseteq 1..n
      OBVIOUS
    <3>. QED  BY <1>1, <2>1, <3>1
  <2>3. Proper(Replying(m) \cup {s})
    BY <1>4, <2>1, <2>2
  <2>4. B[m + 1] = Items(s)
    BY <1>6, <2>1
  <2>. HIDE DEF s, Replying
  <2>5. Blocks(X \o Items(s), Replying(m) \cup {s})
    BY <1>7, <2>2, <2>3, OneMoreBlock, Zenon
  <2>. QED  BY <2>1, <2>2, <2>4, <2>5, Zenon
<1>8. Blocks(<<>>, Replying(0))
  <2>1. Replying(0) = {}
    OBVIOUS
  <2>. QED  BY <2>1, NoBlock
<1>. HIDE DEF Replying
<1>9. CASE n = 0
  <2>1. B = <<>>
    BY <1>5, <1>9, EmptySeq
  <2>2. FlattenSeq(<<>>) = <<>>
    BY DEF FlattenSeq
  <2>. QED  BY <1>3, <1>8, <1>9, <2>1, <2>2
<1>10. CASE n # 0
  <2>1. Flattens(B, Item)
    BY <1>5, <1>10, Flattening, Zenon
  <2>2. PICK f \in [1..n -> Seq(Item)] :
           f[1] = B[1] /\ (\A i \in 2..n : f[i] = f[i - 1] \o B[i]) /\ FlattenSeq(B) = f[n]
    BY <1>5, <2>1, Zenon DEF Flattens
  <2>. DEFINE T == {m \in Nat : m \in 1..n => Blocks(f[m], Replying(m))}
  <2>3. 0 \in T
    OBVIOUS
  <2>4. ASSUME NEW m \in Nat, m \in T PROVE m + 1 \in T
    <3>0. m + 1 \in Nat
      OBVIOUS
    <3>. SUFFICES ASSUME m + 1 \in 1..n PROVE Blocks(f[m + 1], Replying(m + 1))
      BY <3>0, Zenon
    <3>1. m \in 0..(n - 1)
      OBVIOUS
    <3>2. CASE m = 0
      <4>1. Blocks(<<>> \o B[1], Replying(1))
        <5>1. 0 \in 0..(n - 1) /\ 0 + 1 = 1
          BY <3>1, <3>2
        <5>2. Blocks(<<>> \o B[0 + 1], Replying(0 + 1))
          BY <1>7, <1>8, <5>1, Zenon
        <5>. QED  BY <5>1, <5>2
      <4>2. <<>> \o B[1] = B[1]
        <5>1. 1 \in 1..n
          BY <1>10
        <5>2. B[1] \in Seq(Item)
          BY <1>2, <1>6, <5>1
        <5>. QED  BY ONLY <5>2, ConcatEmptySeq
      <4>. QED  BY <2>2, <3>2, <4>1, <4>2
    <3>3. CASE m # 0
      <4>1. m \in 1..n /\ m + 1 \in 2..n /\ (m + 1) - 1 = m
        BY <3>1, <3>3
      <4>2. Blocks(f[m], Replying(m))
        BY <2>4, <4>1, Zenon
      <4>3. f[m + 1] = f[m] \o B[m + 1]
        <5>1. f[m + 1] = f[(m + 1) - 1] \o B[m + 1]
          BY <2>2, <4>1, Zenon
        <5>. QED  BY <4>1, <5>1
      <4>. QED  BY <1>7, <3>1, <4>2, <4>3
    <3>. QED  BY <3>2, <3>3
  <2>. HIDE DEF T
  <2>5. n \in T
    BY <2>3, <2>4, EveryNumber
  <2>6. Blocks(f[n], Replying(n))
    BY <1>10, <2>5 DEF T
  <2>. QED  BY <1>3, <2>2, <2>6
<1>. QED  BY <1>9, <1>10
-----------------------------------------------------------------------------
(* Its steps *)

\* The rows are those of an endpoint. What a search has found so far is the answers of
\* the sources that are neither in flight nor failed; a source that failed has answered.
Replied(r) == {s \in r.asked : s.id \notin r.failed}
CallInv(r) ==
    /\ \A s, t \in r.asked : s.endpoint \in Endpoint /\ (s.id = t.id => s = t)
    /\ r.pc = "keys" => r.todo = r.asked /\ r.found = <<>> /\ r.failed = {}
    /\ r.pc = "fetch" => /\ r.failed \subseteq {s.id : s \in r.asked \ r.todo}
                         /\ Blocks(r.found, Replied(r) \ r.todo)
    /\ r.pc = "found" => r.found = Take(FirstOfHash(InPlaceOrder(Replied(r))), SearchLimit)
SearchInv ==
    /\ \A s \in sources : s.endpoint \in Endpoint
    /\ \A c \in Callers : CallInv(caller[c])

LEMMA AskedAreProper ==
    ASSUME CatalogInv, SearchInv, NEW c \in Callers, NEW D \in SUBSET caller[c].asked
    PROVE  Proper(D) /\ IsFiniteSet(D)
<1>. DEFINE id == [s \in D |-> s.id]
<1>1. ASSUME NEW s \in caller[c].asked PROVE s.id \in 1..lastId
  <2>1. Paired(s.id, s.endpoint)
    BY DEF Paired
  <2>. QED  BY <2>1 DEF CatalogInv, PairsInv
<1>2. lastId \in Nat
  BY DEF CatalogInv, CallersInv
<1>3. \A s, t \in D : s.endpoint \in Endpoint /\ (s.id = t.id => s = t)
  BY DEF SearchInv, CallInv
<1>4. Proper(D)
  BY <1>1, <1>2, <1>3 DEF Proper
<1>5. id \in Injection(D, 1..lastId)
  <2>1. id \in [D -> 1..lastId] /\ \A s, t \in D : id[s] = id[t] => s = t
    BY <1>1, <1>3
  <2>. QED  BY <2>1, Zenon DEF Injection, IsInjective
<1>6. IsFiniteSet(1..lastId)
  BY <1>2, FS_Interval
<1>. QED  BY <1>4, <1>5, <1>6, FS_Injection

LEMMA CallStep ==
    ASSUME CatalogInv, SearchInv, NEW c \in Callers, NEW new, CallInv(new),
           caller' = [caller EXCEPT ![c] = new], \A s \in sources' : s.endpoint \in Endpoint
    PROVE  SearchInv'
<1>1. DOMAIN caller = Callers
  BY DEF CatalogInv, CallersInv
<1>2. caller'[c] = new /\ \A d \in Callers \ {c} : caller'[d] = caller[d]
  BY <1>1
<1>. QED  BY <1>2 DEF SearchInv

LEMMA NoSearch ==
    ASSUME NEW r, r.asked = {}, r.pc \notin {"keys", "fetch", "found"}
    PROVE  CallInv(r)
  BY DEF CallInv

LEMMA InitSearch == CatalogInit => SearchInv
<1>. SUFFICES ASSUME CatalogInit PROVE SearchInv
  OBVIOUS
<1>1. \A c \in Callers : caller[c] = Idle
  BY DEF CatalogInit, NoCommands
<1>2. CallInv(Idle)
  BY IdleIsCall, NoSearch
<1>3. ASSUME NEW i \in 1..Len(Presets[1])
      PROVE  Row(i, Presets[1][i], "rss", i = 1, TRUE, FALSE).endpoint \in Endpoint
  <2>1. 1 \in 1..Len(Presets) /\ Presets[1] \in Seq(Endpoint)
    BY PresetsAssumption
  <2>2. Presets[1][i] \in Endpoint
    BY <2>1
  <2>. QED  BY <2>2 DEF Row
<1>4. \A s \in sources : s.endpoint \in Endpoint
  BY <1>3 DEF CatalogInit, FreshStore
<1>. QED  BY <1>1, <1>2, <1>4 DEF SearchInv

\* The sources keep their endpoints, and a command that is no search asks none.
LEMMA CommandsDoNotSearch ==
    ASSUME CatalogInv, SearchInv, NEW c \in Callers,
           \/ \E e \in Endpoint : AddCatalog(c, e, "torznab", TRUE) \/ AddCatalog(c, e, "rss", FALSE)
           \/ AddReadBack(c) \/ InsertKey(c) \/ RemoveKey(c) \/ Delete(c)
           \/ \E id : SetKey(c, id) \/ RemoveCatalog(c, id)
           \/ Display(c)
    PROVE  SearchInv'
<1>1. IsCall(caller[c])
  BY DEF CatalogInv, CallersInv
<1>2. CallInv(Idle)
  BY IdleIsCall, NoSearch
<1>3. ASSUME NEW e \in Endpoint, NEW kind, NEW hasKey, AddCatalog(c, e, kind, hasKey) PROVE SearchInv'
  <2>. DEFINE new == [Idle EXCEPT !.pc = "added", !.id = NewId, !.key = IF hasKey THEN e ELSE None]
  <2>1. new.asked = {} /\ new.pc = "added"
    BY DEF Idle
  <2>2. caller' = [caller EXCEPT ![c] = new]
    BY <1>3 DEF AddCatalog
  <2>3. \A s \in sources' : s.endpoint \in Endpoint
    <3>1. sources' = sources \cup {Row(NewId, e, kind, TRUE, FALSE, hasKey)}
      BY <1>3 DEF AddCatalog, AddSource
    <3>2. Row(NewId, e, kind, TRUE, FALSE, hasKey).endpoint = e
      BY DEF Row
    <3>. QED  BY <3>1, <3>2 DEF SearchInv
  <2>. HIDE DEF new
  <2>. QED  BY <2>1, <2>2, <2>3, NoSearch, CallStep
<1>4. ASSUME NEW id, SetKey(c, id) \/ RemoveCatalog(c, id) PROVE SearchInv'
  <2>1. PICK new : /\ caller' = [caller EXCEPT ![c] = new]
                   /\ new.asked = {} /\ new.pc \in {"insert", "delete"}
    <3>. DEFINE set == [Idle EXCEPT !.pc = "insert", !.id = id, !.key = Source(id).endpoint]
                remove == [Idle EXCEPT !.pc = "delete", !.id = id]
    <3>1. \/ caller' = [caller EXCEPT ![c] = set]
          \/ caller' = [caller EXCEPT ![c] = remove]
      BY <1>4 DEF SetKey, RemoveCatalog
    <3>2. set.asked = {} /\ set.pc = "insert" /\ remove.asked = {} /\ remove.pc = "delete"
      BY DEF Idle
    <3>. HIDE DEF set, remove
    <3>. QED  BY <3>1, <3>2
  <2>2. \A s \in sources' : s.endpoint \in Endpoint
    BY <1>4 DEF SetKey, RemoveCatalog, storeVars, SearchInv
  <2>. QED  BY <2>1, <2>2, NoSearch, CallStep
<1>5. ASSUME NEW pc \in {"insert", "removed"}, caller[c].pc \in {"added", "delete"}, Goes(c, pc)
      PROVE  \E new : caller' = [caller EXCEPT ![c] = new] /\ CallInv(new)
  <2>. DEFINE new == [caller[c] EXCEPT !.pc = pc]
  <2>1. new.asked = caller[c].asked /\ new.pc = pc
    BY <1>1 DEF IsCall
  <2>2. caller' = [caller EXCEPT ![c] = new]
    BY <1>5 DEF Goes
  <2>. HIDE DEF new
  <2>3. CallInv(new)
    BY <2>1 DEF SearchInv, CallInv
  <2>. QED  BY <2>2, <2>3
<1>6. CASE InsertKey(c) \/ RemoveKey(c) \/ Display(c)
  BY <1>2, <1>6, CallStep DEF InsertKey, RemoveKey, Display, Returns, storeVars, SearchInv
<1>7. CASE AddReadBack(c)
  <2>1. UNCHANGED sources /\ caller[c].pc = "added" /\ (Goes(c, "insert") \/ Returns(c))
    BY <1>7 DEF AddReadBack, storeVars, Calls
  <2>. QED  BY <1>2, <1>5, <2>1, CallStep DEF Returns, SearchInv
<1>8. CASE Delete(c)
  <2>1. sources' \subseteq sources /\ caller[c].pc = "delete" /\ (Goes(c, "removed") \/ Returns(c))
    BY <1>8 DEF Delete, RemoveSource, storeVars, Calls
  <2>. QED  BY <1>2, <1>5, <2>1, CallStep DEF Returns, SearchInv
<1>. QED  BY <1>3, <1>4, <1>6, <1>7, <1>8

LEMMA EnableDoesNotSearch ==
    ASSUME CatalogInv, SearchInv, NEW c, NEW id, Enable(c, id, FALSE)
    PROVE  SearchInv'
<1>1. caller' = caller /\ sources' = {IF s.id = id THEN [s EXCEPT !.enabled = FALSE] ELSE s : s \in sources}
  BY DEF Enable, SetSourceEnabled
<1>2. \A s \in sources : IsRow(s) /\ s.endpoint \in Endpoint
  BY DEF CatalogInv, CallersInv, SearchInv
<1>3. \A s \in sources' : s.endpoint \in Endpoint
  <2>1. ASSUME NEW s \in sources PROVE [s EXCEPT !.enabled = FALSE].endpoint = s.endpoint
    BY <1>2, SwitchKeepsFields
  <2>. QED  BY <1>1, <1>2, <2>1
<1>. QED  BY <1>1, <1>3 DEF SearchInv

LEMMA StartsSearch ==
    ASSUME StoreInv, CatalogInv, SearchInv, NEW c \in Callers, SearchSources(c) \/ SearchKeys(c)
    PROVE  SearchInv'
<1>1. \A s \in sources' : s.endpoint \in Endpoint
  BY DEF SearchSources, SearchKeys, storeVars, SearchInv
<1>2. CASE SearchSources(c)
  <2>. DEFINE on == {s \in sources : s.enabled}
              new == [Idle EXCEPT !.pc = "keys", !.todo = on, !.asked = on]
  <2>1. caller' = [caller EXCEPT ![c] = new]
    BY <1>2 DEF SearchSources
  <2>2. \A s, t \in on : s.endpoint \in Endpoint /\ (s.id = t.id => s = t)
    BY DEF StoreInv, RowsInv, SearchInv
  <2>. HIDE DEF on
  <2>3. new.pc = "keys" /\ new.asked = on /\ new.todo = on /\ new.found = <<>> /\ new.failed = {}
    BY DEF Idle
  <2>. HIDE DEF new
  <2>4. CallInv(new)
    BY <2>2, <2>3 DEF CallInv
  <2>. QED  BY <1>1, <2>1, <2>4, CallStep
<1>3. CASE SearchKeys(c)
  <2>. DEFINE new == [caller[c] EXCEPT !.pc = "fetch", !.keys = keys]
  <2>1. caller' = [caller EXCEPT ![c] = new] /\ caller[c].pc = "keys"
    BY <1>3 DEF SearchKeys, Calls
  <2>2. IsCall(caller[c]) /\ CallInv(caller[c])
    BY DEF CatalogInv, CallersInv, SearchInv
  <2>3. /\ new.pc = "fetch" /\ new.asked = caller[c].asked /\ new.todo = caller[c].todo
        /\ new.found = caller[c].found /\ new.failed = caller[c].failed
    BY <2>2 DEF IsCall
  <2>. HIDE DEF new
  <2>4. new.todo = new.asked /\ new.found = <<>> /\ new.failed = {}
    BY <2>1, <2>2, <2>3 DEF CallInv
  <2>5. Replied(new) \ new.todo = {}
    BY <2>4 DEF Replied
  <2>6. CallInv(new)
    BY <2>2, <2>3, <2>4, <2>5, NoBlock DEF CallInv
  <2>. QED  BY <1>1, <2>1, <2>6, CallStep
<1>. QED  BY <1>2, <1>3

\* A source answers or fails: its answer joins the others as a block, or it leaves the
\* sources whose answers count; none of the others can have its ID.
LEMMA Fetches ==
    ASSUME CatalogInv, SearchInv, NEW c \in Callers, NEW s \in caller[c].todo,
           FetchOk(c, s) \/ FetchError(c, s)
    PROVE  SearchInv'
<1>. DEFINE r == caller[c]
            todo == r.todo \ {s}
            failed == r.failed \cup {s.id}
            found == r.found \o Items(s)
            sent == r.sent \cup ({s.endpoint} \X KeysFor(c, s))
            done == Replied(r) \ r.todo
<1>0. /\ \A t \in sources' : t.endpoint \in Endpoint
      /\ r.pc = "fetch"
  BY DEF FetchOk, FetchError, storeVars, SearchInv, Calls
<1>1. IsCall(r) /\ CallInv(r) /\ r.todo \subseteq r.asked
  BY DEF CatalogInv, CallersInv, SearchInv
<1>2. /\ \A t, u \in r.asked : t.endpoint \in Endpoint /\ (t.id = u.id => t = u)
      /\ r.failed \subseteq {t.id : t \in r.asked \ r.todo}
      /\ Blocks(r.found, done)
  BY <1>0, <1>1 DEF CallInv
<1>3. s.id \notin r.failed /\ s \in r.asked
  BY <1>1, <1>2
<1>4. CASE FetchOk(c, s)
  <2>. DEFINE new == [r EXCEPT !.todo = todo, !.found = found, !.sent = sent]
  <2>1. caller' = [caller EXCEPT ![c] = new]
    BY <1>4, Zenon DEF FetchOk
  <2>. HIDE DEF todo, found, sent
  <2>2. /\ new.pc = "fetch" /\ new.asked = r.asked /\ new.todo = todo
        /\ new.found = found /\ new.failed = r.failed
    BY <1>0, <1>1 DEF IsCall
  <2>. HIDE DEF new
  <2>3. Replied(new) = Replied(r)
    BY <2>2 DEF Replied
  <2>4. Replied(r) \ todo = done \cup {s} /\ s \notin done
    BY <1>3 DEF Replied, todo
  <2>5. Proper(done \cup {s})
    <3>1. done \cup {s} \in SUBSET r.asked
      BY <1>3 DEF Replied
    <3>. QED  BY <3>1, AskedAreProper
  <2>. HIDE DEF done
  <2>6. Blocks(found, Replied(r) \ todo)
    <3>1. Blocks(r.found \o Items(s), done \cup {s})
      BY <1>2, <2>4, <2>5, OneMoreBlock, Zenon
    <3>. QED  BY <2>4, <3>1, Zenon DEF found
  <2>7. r.failed \subseteq {t.id : t \in r.asked \ todo}
    BY <1>2 DEF todo
  <2>. HIDE DEF r
  <2>8. CallInv(new)
    BY <1>2, <2>2, <2>3, <2>6, <2>7 DEF CallInv
  <2>. QED  BY <1>0, <2>1, <2>8, CallStep
<1>5. CASE FetchError(c, s)
  <2>. DEFINE new == [r EXCEPT !.todo = todo, !.failed = failed]
  <2>1. caller' = [caller EXCEPT ![c] = new]
    BY <1>5, Zenon DEF FetchError
  <2>. HIDE DEF todo, failed
  <2>2. /\ new.pc = "fetch" /\ new.asked = r.asked /\ new.todo = todo
        /\ new.found = r.found /\ new.failed = failed
    BY <1>0, <1>1 DEF IsCall
  <2>. HIDE DEF new
  <2>3. Replied(new) \ todo = done
    BY <1>1, <1>2, <1>3, <2>2 DEF Replied, todo, failed
  <2>. HIDE DEF done
  <2>4. failed \subseteq {t.id : t \in r.asked \ todo}
    BY <1>2, <1>3 DEF todo, failed
  <2>. HIDE DEF r
  <2>5. CallInv(new)
    BY <1>2, <2>2, <2>3, <2>4 DEF CallInv
  <2>. QED  BY <1>0, <2>1, <2>5, CallStep
<1>. QED  BY <1>4, <1>5

LEMMA Responds ==
    ASSUME CatalogInv, SearchInv, NEW c \in Callers, Respond(c)
    PROVE  SearchInv'
<1>. DEFINE r == caller[c]
            found == Merged(r.found)
            new == [r EXCEPT !.pc = "found", !.found = found]
<1>1. /\ \A t \in sources' : t.endpoint \in Endpoint
      /\ r.pc = "fetch" /\ r.todo = {}
  BY DEF Respond, storeVars, SearchInv, Calls
<1>2. IsCall(r) /\ CallInv(r)
  BY DEF CatalogInv, CallersInv, SearchInv
<1>3. caller' = [caller EXCEPT ![c] = new]
  BY Zenon DEF Respond
<1>. HIDE DEF found
<1>4. new.pc = "found" /\ new.asked = r.asked /\ new.found = found /\ new.failed = r.failed
  BY <1>2 DEF IsCall
<1>. HIDE DEF new
<1>5. Replied(r) \ r.todo = Replied(r)
  BY <1>1
<1>6. Blocks(r.found, Replied(r))
  BY <1>1, <1>2, <1>5 DEF CallInv
<1>7. Proper(Replied(r))
  <2>1. Replied(r) \in SUBSET r.asked
    BY DEF Replied
  <2>. QED  BY <2>1, AskedAreProper
<1>8. SortBySource(r.found) = InPlaceOrder(Replied(r))
  BY <1>6, <1>7, SortedBlocks
<1>9. Replied(new) = Replied(r)
  BY <1>4 DEF Replied
<1>10. CallInv(new)
  <2>1. new.found = Take(FirstOfHash(InPlaceOrder(Replied(new))), SearchLimit)
    BY <1>4, <1>8, <1>9, Zenon DEF found, Merged
  <2>2. \A s, t \in new.asked : s.endpoint \in Endpoint /\ (s.id = t.id => s = t)
    BY <1>2, <1>4 DEF CallInv
  <2>. QED  BY <1>4, <2>1, <2>2 DEF CallInv
<1>. QED  BY <1>1, <1>3, <1>10, CallStep

LEMMA SearchInvStep ==
    ASSUME StoreInv, CatalogInv, SearchInv, CatalogNext
    PROVE  SearchInv'
  BY CommandsDoNotSearch, EnableDoesNotSearch, StartsSearch, Fetches, Responds, Zenon DEF CatalogNext

LEMMA SearchedIsOrderIndependent == CatalogInv /\ SearchInv => OrderIndependent
<1>. SUFFICES ASSUME CatalogInv, SearchInv, NEW c \in Callers, Calls(c, "found"),
                     NEW order \in Bijection(1..Cardinality(Answered(c)), Answered(c))
              PROVE  caller[c].found = Merged(FlattenSeq([i \in DOMAIN order |-> Items(order[i])]))
  BY DEF OrderIndependent
<1>. DEFINE D == Answered(c)
            X == FlattenSeq([i \in DOMAIN order |-> Items(order[i])])
<1>1. D = Replied(caller[c]) /\ D \in SUBSET caller[c].asked
  BY DEF Answered, Replied
<1>2. Proper(D) /\ IsFiniteSet(D)
  BY <1>1, AskedAreProper
<1>3. Cardinality(D) \in Nat
  BY <1>2, FS_CardinalityType
<1>4. Blocks(X, D)
  BY <1>2, <1>3, AnyOrder
<1>5. SortBySource(X) = InPlaceOrder(D)
  BY <1>2, <1>4, SortedBlocks
<1>6. caller[c].found = Take(FirstOfHash(InPlaceOrder(D)), SearchLimit)
  BY <1>1 DEF SearchInv, CallInv, Calls
<1>. QED  BY <1>5, <1>6, Zenon DEF Merged

\* The catalogues, while they have the focus; else no command is in progress.
CommandsInv ==
    IF focus = "catalog"
      THEN StoreInv /\ CatalogInv /\ SearchInv
      ELSE \A c \in Callers : Calls(c, "idle")

LEMMA InitCommands == Init => CommandsInv
<1>. SUFFICES ASSUME Init PROVE CommandsInv
  OBVIOUS
<1>1. CASE focus = "catalog"
  <2>1. FreshStore /\ CatalogInit
    BY <1>1, Zenon DEF Init, CatalogInit
  <2>2. StoreInv /\ CatalogInv /\ SearchInv
    <3>1. StoreInv
      BY <2>1, FreshStoreInv
    <3>2. CatalogInv
      BY <2>1, InitCatalog
    <3>3. SearchInv
      BY <2>1, InitSearch
    <3>. QED  BY <3>1, <3>2, <3>3
  <2>. QED  BY <1>1, <2>2 DEF CommandsInv
<1>2. CASE focus # "catalog"
  BY <1>2 DEF Init, CommandsInv, NoCommands, Calls, Idle
<1>. QED  BY <1>1, <1>2

LEMMA NextCommands == CommandsInv /\ [Next]_vars => CommandsInv'
<1>. SUFFICES ASSUME CommandsInv, [Next]_vars PROVE CommandsInv'
  OBVIOUS
<1>1. focus' = focus
  BY DEF Next, vars
<1>2. CASE focus = "catalog" /\ CatalogNext
  BY <1>1, <1>2, CatalogUsesStore, CatalogStep, SearchInvStep DEF CommandsInv
<1>3. CASE focus = "catalog" /\ UNCHANGED <<storeVars, commandVars>>
  <2>1. StoreInv'
    BY <1>3, StoreStep DEF CommandsInv
  <2>2. CatalogInv'
    BY <1>3, CatalogStep DEF CommandsInv, catalogVars
  <2>3. SearchInv'
    BY <1>3 DEF CommandsInv, SearchInv, storeVars, commandVars
  <2>. QED  BY <1>1, <1>3, <2>1, <2>2, <2>3 DEF CommandsInv
<1>4. CASE focus # "catalog" /\ UNCHANGED caller
  BY <1>1, <1>4 DEF CommandsInv, Calls
<1>. QED  BY <1>2, <1>3, <1>4 DEF Next, vars, commandVars

\* Whatever feeds answer, whichever sources fail and in whatever order the requests of a
\* search complete, what it shows is the same (search_external_catalogs sorts by source
\* before it removes duplicates).
THEOREM ResultsNeverDependOnOrder == Spec => []OrderIndependent
<1>1. CommandsInv => OrderIndependent
  BY SearchedIsOrderIndependent DEF CommandsInv, OrderIndependent, Calls
<1>. QED  BY <1>1, InitCommands, NextCommands, PTL DEF Spec
-----------------------------------------------------------------------------
(* The other invariants *)

\* Sign-in, the records and the torrents share no state with the other modules.
LEMMA StepsApart ==
    [Next]_vars => /\ [AuthNext]_authVars
                   /\ [RecordsNext]_recordVars
                   /\ [TransferNext]_transferVars
  BY DEF Next, vars

ApartInv ==
    /\ AuthInv
    /\ SentInv /\ RecordsTypeOK
    /\ TransferInv /\ AdmittedInv /\ TransferTypeOK

LEMMA InitApart == Init => ApartInv
<1>. SUFFICES ASSUME Init PROVE ApartInv
  OBVIOUS
<1>1. AuthInv
  BY AuthInit_Inv DEF Init
<1>2. SentInv /\ RecordsTypeOK
  <2>1. CASE focus = "records"
    <3>1. RecordsInit
      BY <2>1 DEF Init
    <3>. QED  BY <3>1, SentInvInit, RecordsTypesInit
  <2>2. CASE focus # "records"
    <3>1. draft.schema = "import" /\ record = Nothing /\ wire = Nothing /\ accepted = Nothing
      BY <2>2 DEF Init
    <3>. QED  BY <3>1, Schemas DEF SentInv, ImportsArePublic, RecordsTypeOK
  <2>. QED  BY <2>1, <2>2
<1>3. TransferInv /\ AdmittedInv /\ TransferTypeOK
  BY TransferInit_Inv, TransferInit_Admitted, TransferInit_Types DEF Init
<1>. QED  BY <1>1, <1>2, <1>3 DEF ApartInv

LEMMA ApartInvHolds == Spec => []ApartInv
<1>1. ApartInv /\ [Next]_vars => ApartInv'
  <2>. SUFFICES ASSUME ApartInv, [Next]_vars PROVE ApartInv'
    OBVIOUS
  <2>1. AuthInv'
    BY StepsApart, AuthNext_Inv DEF ApartInv
  <2>2. SentInv' /\ RecordsTypeOK'
    BY StepsApart, SentInvStep, RecordsTypesStep DEF ApartInv
  <2>3. TransferInv' /\ AdmittedInv' /\ TransferTypeOK'
    BY StepsApart, TransferNext_Inv, TransferNext_Admitted, TransferNext_Types DEF ApartInv, TransferInv
  <2>. QED  BY <2>1, <2>2, <2>3 DEF ApartInv
<1>. QED  BY <1>1, InitApart, PTL DEF Spec

\* In the composition too, no authorization that was started before a sign-out brings
\* a session back after it (sign_out takes the pending flow and bumps the generation).
THEOREM SignOutIsAlwaysFinal == Spec => []SignedOutStaysOut
<1>1. ApartInv => SignedOutStaysOut
  BY DEF ApartInv, AuthInv
<1>. QED  BY <1>1, ApartInvHolds, PTL

\* In the composition too, what a reader accepts under an ID is what the ID was derived
\* of, and no public import is of a private torrent.
THEOREM AcceptedIsAlwaysGenuine == Spec => []AcceptedIsGenuine
<1>1. ApartInv => AcceptedIsGenuine
  BY GenuineWhenSent DEF ApartInv
<1>. QED  BY <1>1, ApartInvHolds, PTL

\* In the composition too, files of a managed torrent are apart, a torrent is managed once
\* and the gateway answers with the bytes that a Range header asks for.
THEOREM TransfersAreAlwaysSound == Spec => []TransfersAreSound
<1>1. ApartInv => TransfersAreSound
  BY FilesAreApart DEF ApartInv, TransferInv, TransfersAreSound
<1>. QED  BY <1>1, ApartInvHolds, PTL

\* Publishing changes the cached records only: what the schema, the cursors and the sources
\* depend on is that of the store it began with.
LEMMA PublishingKeepsSchema ==
    ASSUME PublishingNext
    PROVE  UNCHANGED <<opening, followed, cursors, sources, lastId>>
<1>. USE DEF storeVars, rows
<1>1. ASSUME NEW t \in Tasks,
             \/ \E kind, tags : Begin(t, kind, tags)
             \/ \E following : SyncFollowed(t, following)
             \/ TakePublishLock(t) \/ CurrentSession(t) \/ ListClaims(t) \/ SyncNext(t)
             \/ NumberClaims(t) \/ PutClaim(t) \/ Seed(t) \/ PutRelease(t) \/ Fail(t)
      PROVE  UNCHANGED storeVars
  BY <1>1, Zenon DEF Begin, SyncFollowed, TakePublishLock, CurrentSession, ListClaims, SyncNext,
                     NumberClaims, PutClaim, Seed, PutRelease, Fail
<1>2. ASSUME NEW t \in Tasks,
             \/ SyncReleases(t) \/ FetchClaim(t) \/ CacheClaim(t) \/ StoreRelease(t)
      PROVE  UNCHANGED <<opening, followed, cursors, sources, lastId>>
  <2>1. \/ \E R : CacheReleases(R)
        \/ \E C : CacheClaims(C)
        \/ UNCHANGED storeVars
    <3>1. ASSUME FetchClaim(t) PROVE (\E C : CacheClaims(C)) \/ UNCHANGED storeVars
      BY <3>1, Zenon DEF FetchClaim
    <3>2. ASSUME SyncReleases(t) PROVE \E R : CacheReleases(R)
      BY <3>2, Zenon DEF SyncReleases
    <3>. QED  BY <1>2, <3>1, <3>2, Zenon DEF CacheClaim, StoreRelease
  <2>. QED  BY <2>1 DEF CacheReleases, CacheClaims
<1>3. ASSUME NEW p, SessionChanges(p) PROVE UNCHANGED storeVars
  BY <1>3 DEF SessionChanges
<1>4. ASSUME NEW storeLost, Restart(storeLost)
      PROVE  UNCHANGED <<opening, followed, cursors, sources, lastId>>
  BY <1>4 DEF Restart
<1>. QED  BY <1>1, <1>2, <1>3, <1>4 DEF PublishingNext

\* The store is intact under every module.
IntactInv == focus = "publishing" => StoreIntact

LEMMA NextIntact == IntactInv /\ [Next]_vars => IntactInv'
<1>. SUFFICES ASSUME IntactInv, [Next]_vars, focus = "publishing" PROVE StoreIntact'
  BY DEF Next, vars, IntactInv
<1>1. UNCHANGED <<opening, followed, cursors, sources, lastId>>
  BY PublishingKeepsSchema DEF Next, vars, storeVars, rows
<1>. QED
  BY <1>1 DEF IntactInv, opening, StoreIntact, OpensComplete, CursorsOfFollowed, HasEndpoint

\* In the composition too, whichever module moves and whatever it caches, a store that is
\* open has the schema of its version, and its cursors belong to followed publishers.
THEOREM StoreAlwaysIntact == Spec => []StoreIntact
<1>1. Init => IntactInv
  BY FreshStoreInv DEF Init, IntactInv, StoreInv
<1>2. FocusInv /\ SteadyInv /\ [Next]_vars => SteadyInv'
  BY NextSteady
<1>3. SteadyInv /\ IntactInv => StoreIntact
  BY DEF SteadyInv, IntactInv, StoreInv
<1>. QED  BY <1>1, <1>2, <1>3, NextIntact, InitSteady, FocusInvHolds, PTL DEF Spec

\* Keys, revisions and pages: the module in focus keeps its inductive invariant, the
\* others what they begin with.
LEMMA IdleSendsNothing == (\A c \in Callers : caller[c] = Idle) => KeysStayWithTheirSource
  BY DEF Idle, KeysStayWithTheirSource

IdleInv ==
    /\ focus # "catalog" => keys = {} /\ \A c \in Callers : caller[c] = Idle
    /\ focus # "publishing" => \A p \in Publisher : hostedClaims[p] = {}
    /\ IF focus = "discovery" THEN PagingInv ELSE reader = NoReader

LEMMA InitIdle == Init => IdleInv
<1>. SUFFICES ASSUME Init PROVE IdleInv
  OBVIOUS
<1>1. /\ keys = {} /\ \A c \in Callers : caller[c] = Idle
      /\ \A p \in Publisher : hostedClaims[p] = {}
      /\ reader = NoReader
  BY DEF Init, NoCommands, NoTasks, NoRequests
<1>2. focus = "discovery" => PagingInv
  BY DiscoveryInit_Paging DEF Init, DiscoveryInit
<1>. QED  BY <1>1, <1>2 DEF IdleInv

LEMMA NextIdle == FocusInv /\ IdleInv /\ [Next]_vars => IdleInv'
<1>. SUFFICES ASSUME FocusInv, IdleInv, [Next]_vars PROVE IdleInv'
  OBVIOUS
<1>1. focus' = focus
  BY DEF Next, vars
<1>2. focus # "catalog" => UNCHANGED commandVars
  BY DEF Next, vars
<1>3. focus # "publishing" => UNCHANGED taskVars
  BY DEF Next, vars
<1>4. focus # "discovery" => UNCHANGED requestVars
  BY DEF Next, vars
<1>5. focus = "discovery" => PagingInv'
  <2>1. focus = "discovery" => [DiscoveryNext]_discoveryVars
    BY DEF Next, vars, discoveryVars
  <2>. QED  BY <2>1, DiscoveryNext_Paging DEF FocusInv, IdleInv
<1>. QED
  BY <1>1, <1>2, <1>3, <1>4, <1>5 DEF IdleInv, commandVars, taskVars, homeservers, requestVars

LEMMA IdleInvHolds == Spec => []IdleInv
  BY InitIdle, NextIdle, FocusInvHolds, PTL DEF Spec

\* In the composition too, an API key is only ever sent to the endpoint it was saved for.
THEOREM KeysNeverStrayAnywhere == Spec => []KeysStayWithTheirSource
<1>1. CommandsInv /\ IdleInv => KeysStayWithTheirSource
  BY IdleSendsNothing DEF CommandsInv, IdleInv, CatalogInv
<1>. QED  BY <1>1, InitCommands, NextCommands, IdleInvHolds, PTL DEF Spec

\* In the composition too, no two tag claims of an issuer have one revision, as long as
\* one listing holds all of them.
THEOREM RevisionsAlwaysUnique == Spec => []RevisionsUnique
<1>1. FocusInv /\ IdleInv => RevisionsUnique
  BY DEF FocusInv, IdleInv, PublishingInv, RevisionsUnique
<1>. QED  BY <1>1, FocusInvHolds, IdleInvHolds, PTL

\* In the composition too, a client that has paged to the end has received every release
\* that matched throughout.
THEOREM PagesAlwaysComplete == Spec => []PagingSkipsNothing
<1>1. IdleInv => PagingSkipsNothing
  BY DEF IdleInv, PagingInv, PagingSkipsNothing, NoReader
<1>. QED  BY <1>1, IdleInvHolds, PTL
-----------------------------------------------------------------------------
(* Types *)

\* The types of the modules that work on the store, which TypeOK puts together: that of
\* the table for all of them but publishing, whose releases are others than Release.
TypesInv ==
    /\ focus # "publishing" => StoreTypeOK
    /\ focus = "catalog" => CallTypes
    /\ PublishingTypesInv
    /\ ServiceTypes /\ \A p \in Publisher : hosted[p] \subseteq Release

LEMMA InitTypes == Init => TypesInv
<1>. SUFFICES ASSUME Init PROVE TypesInv
  OBVIOUS
<1>1. StoreTypeOK
  BY StoreInitTypes, FreshStoreTypes DEF Init
<1>2. focus = "catalog" => CallTypes
  BY InitCallTypes DEF Init, CatalogInit
<1>3. PublishingTypesInv /\ ServiceTypes
  BY InitPublishingTypes, InitServiceTypes DEF Init
<1>4. \A p \in Publisher : hosted[p] \subseteq Release
  BY DEF Init, NoRequests
<1>. QED  BY <1>1, <1>2, <1>3, <1>4 DEF TypesInv

LEMMA StoreTypesNext ==
    ASSUME FocusInv, CommandsInv, IdleInv, TypesInv, [Next]_vars, focus # "publishing"
    PROVE  StoreTypeOK'
<1>1. StoreTypeOK
  BY DEF TypesInv
<1>2. CASE UNCHANGED storeVars
  BY <1>1, <1>2, StoreTypesKept
<1>3. CASE StoreNext
  BY <1>1, <1>3, StoreTypes
<1>4. CASE focus = "catalog" /\ CatalogNext
  BY <1>1, <1>4, CatalogTypes DEF CommandsInv, TypesInv
<1>5. CASE focus = "discovery" /\ DiscoveryNext
  BY <1>1, <1>5, DiscoveryStoreTypes DEF FocusInv, IdleInv
<1>. QED  BY <1>2, <1>3, <1>4, <1>5 DEF Next, vars

LEMMA NextTypes == FocusInv /\ CommandsInv /\ IdleInv /\ TypesInv /\ [Next]_vars => TypesInv'
<1>. SUFFICES ASSUME FocusInv, CommandsInv, IdleInv, TypesInv, [Next]_vars PROVE TypesInv'
  OBVIOUS
<1>1. focus' = focus
  BY DEF Next, vars
<1>2. focus # "publishing" => StoreTypeOK'
  BY StoreTypesNext
<1>3. focus = "catalog" => CallTypes'
  <2>. SUFFICES ASSUME focus = "catalog" PROVE CallTypes'
    OBVIOUS
  <2>1. CASE CatalogNext
    BY <2>1, CatalogTypes DEF CommandsInv, TypesInv
  <2>2. CASE UNCHANGED commandVars
    BY <2>2 DEF commandVars, CallTypes, TypesInv
  <2>. QED  BY <2>1, <2>2 DEF Next, vars
<1>4. PublishingTypesInv'
  <2>1. CASE focus = "publishing"
    <3>1. [PublishingNext]_publishingVars
      BY <2>1 DEF Next, vars, publishingVars
    <3>. QED  BY <2>1, <3>1, PublishingTypes DEF FocusInv, TypesInv
  <2>2. CASE focus # "publishing"
    <3>1. UNCHANGED taskVars
      BY <2>2 DEF Next, vars
    <3>. QED
      BY <3>1 DEF TypesInv, taskVars, homeservers, PublishingTypesInv, PublishingTypeOK
  <2>. QED  BY <2>1, <2>2
<1>5. ServiceTypes' /\ \A p \in Publisher : hosted'[p] \subseteq Release
  <2>1. CASE focus = "discovery"
    <3>1. [DiscoveryNext]_discoveryVars
      BY <2>1 DEF Next, vars, discoveryVars
    <3>2. PagingInv' /\ ServiceTypes'
      BY <2>1, <3>1, DiscoveryNext_Paging, DiscoveryTypes DEF FocusInv, IdleInv, TypesInv
    <3>. QED  BY <3>2 DEF PagingInv
  <2>2. CASE focus # "discovery"
    <3>1. UNCHANGED requestVars
      BY <2>2 DEF Next, vars
    <3>. QED  BY <3>1 DEF TypesInv, requestVars, ServiceTypes
  <2>. QED  BY <2>1, <2>2
<1>. QED  BY <1>1, <1>2, <1>3, <1>4, <1>5 DEF TypesInv

\* Whichever module moves, all of them keep their types: rows and settings as they are
\* stored, keys and commands of sources, revisions within u64, offsets within MAX_OFFSET.
THEOREM TypesAlwaysHold == Spec => []TypeOK
<1>1. CommandsInv /\ IdleInv /\ TypesInv => CatalogTypeOK
  <2>. SUFFICES ASSUME CommandsInv, IdleInv, TypesInv PROVE CatalogTypeOK
    OBVIOUS
  <2>1. CASE focus = "catalog"
    BY <2>1, CallTypesSuffice DEF CommandsInv, TypesInv
  <2>2. CASE focus # "catalog"
    BY <2>2 DEF IdleInv, Idle, CatalogTypeOK
  <2>. QED  BY <2>1, <2>2
<1>2. TypesInv => /\ PublishingTypeOK /\ DiscoveryTypeOK
                  /\ focus # "publishing" => StoreTypeOK
  BY DEF TypesInv, PublishingTypesInv, ServiceTypes, DiscoveryTypeOK
<1>3. ApartInv => AuthTypeOK /\ RecordsTypeOK /\ TransferTypeOK
  BY DEF ApartInv, AuthInv
<1>4. ApartInv /\ CommandsInv /\ IdleInv /\ TypesInv => TypeOK
  BY <1>1, <1>2, <1>3 DEF TypeOK
<1>. QED
  BY <1>4, ApartInvHolds, FocusInvHolds, InitCommands, NextCommands, IdleInvHolds, InitTypes, NextTypes, PTL
  DEF Spec

=============================================================================
