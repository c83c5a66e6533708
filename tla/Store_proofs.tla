---------------------------- MODULE Store_proofs ----------------------------
(***************************************************************************)
(* Proofs about SwarmStore and the modules that use the store:             *)
(* CatalogSearch, Publishing and Discovery; for any publishers, releases,  *)
(* artifacts and endpoints, any presets and builds, and any number of      *)
(* operations, commands and requests. Their types come last: what they     *)
(* need of the invariants is proved before.                                *)
(***************************************************************************)
EXTENDS CatalogSearch, Publishing, Discovery, FiniteSetTheorems, TLAPS

(* SwarmStore *)

\* The types the proofs need; a file of a newer program has version 6.
ShapeInv ==
    /\ version \in 0..(CurrentVersion + 1)
    /\ filling \in Nat /\ lastId \in Nat
    /\ followed \in Seq(Publisher)
    /\ sequences \in [Publisher -> Nat]

\* A row of catalog_sources has its columns.
IsRow(s) == s = Row(s.id, s.endpoint, s.kind, s.enabled, s.builtIn, s.requiresKey)

\* catalog_sources: the IDs are those AUTOINCREMENT has given out, an ID or an
\* endpoint has one row, and before version 3 there is no row.
RowsInv ==
    /\ \A s \in sources : IsRow(s) /\ s.id \in Nat /\ s.id <= lastId
    /\ \A s, t \in sources : s.id = t.id \/ s.endpoint = t.endpoint => s = t
    /\ version < 3 => sources = {} /\ lastId = 0

\* The inductive invariant. The last part of RowsInv is what lets the third migration
\* insert its preset with the ID 1.
StoreInv == ShapeInv /\ StoreIntact /\ RowsInv

-----------------------------------------------------------------------------
(* Lemmas about the operators *)

LEMMA RowFields ==
  ASSUME NEW id, NEW e, NEW kind, NEW enabled, NEW builtIn, NEW requiresKey
  PROVE  LET r == Row(id, e, kind, enabled, builtIn, requiresKey)
         IN r.id = id /\ r.endpoint = e /\ r.builtIn = builtIn /\ IsRow(r)
  BY DEF Row, IsRow

LEMMA SwitchKeepsFields ==
  ASSUME NEW s, IsRow(s), NEW enabled
  PROVE  LET r == [s EXCEPT !.enabled = enabled]
         IN r.id = s.id /\ r.endpoint = s.endpoint /\ r.builtIn = s.builtIn /\ IsRow(r)
  BY DEF Row, IsRow

\* The schema of the next version has the tables its migration creates besides.
LEMMA SchemaGrows ==
  ASSUME NEW v \in Nat
  PROVE  Schema(v + 1) = Schema(v) \cup Created[v + 1]
<1>1. 1..(v + 1) = (1..v) \cup {v + 1}
  OBVIOUS
<1> QED
  BY <1>1 DEF Schema

LEMMA SchemaOfNothing == Schema(0) = {}
<1>1. 1..0 = {}
  OBVIOUS
<1> QED
  BY <1>1 DEF Schema

LEMMA FollowKeeps ==
  ASSUME NEW S, NEW list \in Seq(S), NEW p \in S
  PROVE  /\ Append(list, p) \in Seq(S)
         /\ ToSet(list) \subseteq ToSet(Append(list, p))
  BY DEF ToSet

LEMMA ConcatAt ==
  ASSUME NEW S, NEW a \in Seq(S), NEW b \in Seq(S), NEW k \in 1..Len(b)
  PROVE  Len(a) + k \in DOMAIN (a \o b) /\ (a \o b)[Len(a) + k] = b[k]
  OBVIOUS

\* Removing p's row leaves every other element of the list in it.
LEMMA WithoutKeeps ==
  ASSUME NEW S, NEW list \in Seq(S), NEW p
  PROVE  /\ Without(list, p) \in Seq(S)
         /\ ToSet(list) \ {p} \subseteq ToSet(Without(list, p))
<1>1. CASE p \notin ToSet(list)
  BY <1>1 DEF Without
<1>2. CASE p \in ToSet(list)
  <2> DEFINE i == CHOOSE i \in DOMAIN list : list[i] = p
             front == SubSeq(list, 1, i - 1)
             back == SubSeq(list, i + 1, Len(list))
  <2>1. i \in 1..Len(list) /\ list[i] = p
    BY <1>2 DEF ToSet
  <2>2. Without(list, p) = front \o back
    BY <1>2 DEF Without, RemoveAt
  <2> HIDE DEF i
  <2>3. /\ front \in Seq(S) /\ Len(front) = i - 1
        /\ \A k \in 1..(i - 1) : front[k] = list[k]
    BY <2>1
  <2>4. /\ back \in Seq(S) /\ Len(back) = Len(list) - i
        /\ \A k \in 1..(Len(list) - i) : back[k] = list[k + i]
    BY <2>1
  <2> HIDE DEF front, back
  <2>5. ASSUME NEW k \in 1..Len(list), list[k] # p
        PROVE  list[k] \in ToSet(front \o back)
    <3>1. CASE k < i
      <4>1. k \in DOMAIN (front \o back) /\ (front \o back)[k] = list[k]
        BY <2>1, <2>3, <2>4, <3>1
      <4> QED
        BY <4>1 DEF ToSet
    <3>2. CASE k > i
      <4>1. k - i \in 1..Len(back) /\ back[k - i] = list[k]
        BY <2>1, <2>4, <3>2
      <4>2. /\ Len(front) + (k - i) \in DOMAIN (front \o back)
            /\ (front \o back)[Len(front) + (k - i)] = list[k]
        <5>1. \A j \in 1..Len(back) : /\ Len(front) + j \in DOMAIN (front \o back)
                                      /\ (front \o back)[Len(front) + j] = back[j]
          <6>1. front \in Seq(S) /\ back \in Seq(S)
            BY <2>3, <2>4
          <6> QED
            BY <6>1, ConcatAt
        <5> QED
          BY <4>1, <5>1
      <4> QED
        BY <4>2 DEF ToSet
    <3>3. k < i \/ k > i
      <4>1. k # i
        BY <2>1, <2>5
      <4> QED
        BY <2>1, <4>1
    <3> QED
      BY <3>1, <3>2, <3>3
  <2>6. front \o back \in Seq(S)
    BY <2>3, <2>4
  <2>7. ASSUME NEW y \in ToSet(list) \ {p} PROVE y \in ToSet(front \o back)
    BY <2>5, <2>7 DEF ToSet
  <2> QED
    BY <2>2, <2>6, <2>7
<1> QED
  BY <1>1, <1>2
-----------------------------------------------------------------------------
(* The parts of the invariant, group of steps by group of steps *)

\* An operation that leaves the tables the invariant is about alone.
LEMMA RowsOfOthers ==
  ASSUME StoreInv, UNCHANGED <<opening, followed, cursors, sources, lastId>>,
         sequences' \in [Publisher -> Nat]
  PROVE  StoreInv'
  BY DEF StoreInv, ShapeInv, StoreIntact, OpensComplete, CursorsOfFollowed, RowsInv, opening,
         HasEndpoint

LEMMA InitStore == StoreInit => StoreInv
<1> SUFFICES ASSUME StoreInit PROVE StoreInv
  OBVIOUS
<1>1. ShapeInv /\ RowsInv /\ CursorsOfFollowed
  BY DEF StoreInit, ShapeInv, RowsInv, CursorsOfFollowed, CurrentVersion
<1>2. OpensComplete
  BY SchemaOfNothing DEF StoreInit, OpensComplete, CurrentVersion
<1> QED
  BY <1>1, <1>2 DEF StoreInv, StoreIntact

-----------------------------------------------------------------------------
(* Store::open: a step either takes the schema one version further or leaves the   *)
(* tables as they are.                                                             *)

\* A row with an endpoint of its own and the next ID.
LEMMA InsertStep ==
  ASSUME RowsInv, lastId \in Nat, version \in Nat, version >= 3, UNCHANGED version,
         NEW r, IsRow(r), r.id = lastId + 1, ~HasEndpoint(r.endpoint),
         sources' = sources \cup {r},
         lastId' = lastId + 1
  PROVE  RowsInv'
<1>1. \A s \in sources : s.id # r.id /\ s.endpoint # r.endpoint
  BY DEF RowsInv, HasEndpoint
<1>2. \A s \in sources' : IsRow(s) /\ s.id \in Nat /\ s.id <= lastId'
  BY DEF RowsInv
<1>3. \A s, t \in sources' : s.id = t.id \/ s.endpoint = t.endpoint => s = t
  BY <1>1 DEF RowsInv
<1>4. ~(version' < 3)
  OBVIOUS
<1> QED
  BY <1>2, <1>3, <1>4 DEF RowsInv

LEMMA MigrateStep == StoreInv /\ Migrate => StoreInv'
<1> SUFFICES ASSUME StoreInv, Migrate PROVE StoreInv'
  OBVIOUS
<1>1. version \in 0..4 /\ version' = version + 1 /\ process' = "migrating"
  BY DEF StoreInv, ShapeInv, Migrate, CurrentVersion
<1>2. tables' = Schema(version')
  <2>1. tables = Schema(version)
    BY <1>1 DEF StoreInv, StoreIntact, OpensComplete, CurrentVersion
  <2> QED
    BY <1>1, <2>1, SchemaGrows DEF Migrate
<1>3. OpensComplete'
  BY <1>1, <1>2 DEF OpensComplete
<1>4. CursorsOfFollowed'
  BY DEF StoreInv, StoreIntact, CursorsOfFollowed, Migrate, rows
<1>5. RowsInv'
  <2>1. CASE version' = 3
    <3> DEFINE r == Row(1, Presets[1][1], "rss", TRUE, TRUE, FALSE)
    <3>1. r.id = 1 /\ IsRow(r)
      BY DEF Row, IsRow
    <3>2. sources' = {r} /\ lastId' = 1
      BY <2>1 DEF Migrate
    <3> HIDE DEF r
    <3> QED
      BY <2>1, <3>1, <3>2 DEF RowsInv
  <2>2. CASE version' # 3
    BY <1>1, <2>2 DEF StoreInv, RowsInv, Migrate
  <2> QED
    BY <2>1, <2>2
<1>6. lastId' \in Nat
  <2>1. CASE version' = 3
    <3>1. lastId' = 1
      BY <2>1 DEF Migrate
    <3> QED
      BY <3>1
  <2>2. CASE version' # 3
    BY <2>2 DEF StoreInv, ShapeInv, Migrate
  <2> QED
    BY <2>1, <2>2
<1>7. ShapeInv'
  BY <1>1, <1>6 DEF StoreInv, ShapeInv, Migrate, rows, CurrentVersion
<1> QED
  BY <1>3, <1>4, <1>5, <1>7 DEF StoreInv, StoreIntact

LEMMA InsertPresetStep == StoreInv /\ InsertPreset => StoreInv'
<1> SUFFICES ASSUME StoreInv, InsertPreset PROVE StoreInv'
  OBVIOUS
<1> DEFINE e == Presets[build][filling]
<1>1. /\ process = "presets" /\ version = 5
      /\ filling \in Nat /\ filling' = filling + 1 /\ lastId \in Nat
      /\ UNCHANGED <<process, build, version, tables, rows>>
  BY DEF StoreInv, ShapeInv, StoreIntact, OpensComplete, CurrentVersion, InsertPreset
<1>2. /\ RowsInv' /\ lastId' \in Nat
      /\ \E s \in sources' : s.endpoint = e
      /\ sources \subseteq sources'
  <2>1. CASE HasEndpoint(e)
    <3>1. UNCHANGED <<sources, lastId>>
      BY <2>1 DEF InsertPreset
    <3> QED
      BY <1>1, <2>1, <3>1 DEF StoreInv, RowsInv, HasEndpoint
  <2>2. CASE ~HasEndpoint(e)
    <3> DEFINE r == Row(lastId + 1, e, "rss", filling = 1, TRUE, FALSE)
    <3>1. sources' = sources \cup {r} /\ lastId' = lastId + 1
      BY <2>2 DEF InsertPreset
    <3>2. IsRow(r) /\ r.id = lastId + 1 /\ r.endpoint = e
      BY DEF Row, IsRow
    <3> HIDE DEF r, e
    <3>3. RowsInv'
      BY <1>1, <2>2, <3>1, <3>2, InsertStep DEF StoreInv
    <3> QED
      BY <1>1, <3>1, <3>2, <3>3
  <2> QED
    BY <2>1, <2>2
<1>3. ASSUME NEW i \in 1..(filling' - 1)
      PROVE  \E s \in sources' : s.endpoint = Presets[build][i]
  <2>1. CASE i = filling
    BY <1>2, <2>1
  <2>2. CASE i # filling
    <3>1. i \in 1..(filling - 1)
      BY <1>1, <2>2
    <3>2. \E s \in sources : s.endpoint = Presets[build][i]
      BY <1>1, <3>1 DEF StoreInv, StoreIntact, OpensComplete, HasEndpoint
    <3> QED
      BY <1>2, <3>2
  <2> QED
    BY <2>1, <2>2
<1>4. OpensComplete'
  <2>1. version' <= CurrentVersion => tables' = Schema(version')
    BY <1>1 DEF StoreInv, StoreIntact, OpensComplete
  <2> QED
    BY <1>1, <1>3, <2>1 DEF OpensComplete, HasEndpoint, CurrentVersion
<1>5. CursorsOfFollowed' /\ ShapeInv'
  BY <1>1, <1>2 DEF StoreInv, StoreIntact, CursorsOfFollowed, ShapeInv, rows
<1> QED
  BY <1>2, <1>4, <1>5 DEF StoreInv, StoreIntact

LEMMA OpeningStep ==
  ASSUME StoreInv,
         \/ \E b \in 1..Len(Presets) : Open(b)
         \/ Migrate \/ Migrated \/ InsertPreset \/ Opened \/ Exit
  PROVE  StoreInv'
<1>1. ASSUME NEW b \in 1..Len(Presets), Open(b) PROVE StoreInv'
  BY <1>1 DEF Open, rows, StoreInv, ShapeInv, StoreIntact, OpensComplete, CursorsOfFollowed, RowsInv
<1>2. CASE Migrated
  BY <1>2 DEF Migrated, rows, StoreInv, ShapeInv, StoreIntact, OpensComplete, CursorsOfFollowed, RowsInv
<1>3. CASE Opened
  BY <1>3 DEF Opened, rows, StoreInv, ShapeInv, StoreIntact, OpensComplete, CursorsOfFollowed, RowsInv
<1>4. CASE Exit
  BY <1>4 DEF Exit, rows, StoreInv, ShapeInv, StoreIntact, OpensComplete, CursorsOfFollowed, RowsInv
<1> QED
  BY <1>1, <1>2, <1>3, <1>4, MigrateStep, InsertPresetStep
-----------------------------------------------------------------------------
(* Operations *)

LEMMA FollowStep ==
  ASSUME StoreInv, NEW p \in Publisher, Follow(p)
  PROVE  StoreInv'
<1>1. followed' \in Seq(Publisher) /\ ToSet(followed) \subseteq ToSet(followed')
  BY FollowKeeps DEF StoreInv, ShapeInv, Follow
<1> QED
  BY <1>1 DEF Follow, Begun, opening, StoreInv, ShapeInv, StoreIntact, OpensComplete,
              CursorsOfFollowed, RowsInv, HasEndpoint

\* The transaction takes the cursors of p with it, and no other publisher's row.
LEMMA UnfollowStep ==
  ASSUME StoreInv, NEW p \in Publisher, Unfollow(p)
  PROVE  StoreInv'
<1>1. followed' \in Seq(Publisher) /\ ToSet(followed) \ {p} \subseteq ToSet(followed')
  BY WithoutKeeps DEF StoreInv, ShapeInv, Unfollow
<1>2. CursorsOfFollowed'
  BY <1>1 DEF StoreInv, StoreIntact, CursorsOfFollowed, Unfollow
<1> QED
  BY <1>1, <1>2 DEF Unfollow, Begun, opening, StoreInv, ShapeInv, StoreIntact, OpensComplete,
                    RowsInv, HasEndpoint

LEMMA SetCursorStep ==
  ASSUME StoreInv, NEW p \in Publisher, NEW c, SetCursor(p, c)
  PROVE  StoreInv'
<1>1. CursorsOfFollowed'
  BY DEF StoreInv, StoreIntact, CursorsOfFollowed, SetCursor, MayHaveCursor
<1> QED
  BY <1>1 DEF SetCursor, Begun, opening, StoreInv, ShapeInv, StoreIntact, OpensComplete,
              RowsInv, HasEndpoint

LEMMA SourceStep ==
  ASSUME StoreInv,
         \/ \E e \in Endpoint : \E kind, key : AddSource(e, kind, key)
         \/ \E id : SetSourceEnabled(id, FALSE) \/ RemoveSource(id)
  PROVE  StoreInv'
<1> SUFFICES RowsInv' /\ lastId' \in Nat
  BY DEF AddSource, SetSourceEnabled, RemoveSource, Begun, opening, rows, StoreInv, ShapeInv,
         StoreIntact, OpensComplete, CursorsOfFollowed, HasEndpoint
<1>1. process = "open" /\ version = 5 /\ version' = version /\ lastId \in Nat
  BY DEF StoreInv, ShapeInv, StoreIntact, OpensComplete, CurrentVersion, AddSource,
         SetSourceEnabled, RemoveSource, Begun, opening
<1>2. ASSUME NEW e \in Endpoint, NEW kind, NEW key, AddSource(e, kind, key) PROVE RowsInv' /\ lastId' \in Nat
  <2> DEFINE r == Row(lastId + 1, e, kind, TRUE, FALSE, key)
  <2>1. sources' = sources \cup {r} /\ lastId' = lastId + 1 /\ ~HasEndpoint(e)
    BY <1>2 DEF AddSource, NewId, MayAdd
  <2>2. IsRow(r) /\ r.id = lastId + 1 /\ r.endpoint = e
    BY DEF Row, IsRow
  <2> HIDE DEF r
  <2> QED
    BY <1>1, <2>1, <2>2, InsertStep DEF StoreInv
<1>3. ASSUME NEW id, SetSourceEnabled(id, FALSE)
      PROVE  RowsInv' /\ lastId' \in Nat
  <2> DEFINE off(s) == IF s.id = id THEN [s EXCEPT !.enabled = FALSE] ELSE s
  <2>1. sources' = {off(s) : s \in sources} /\ lastId' = lastId
    BY <1>3 DEF SetSourceEnabled
  <2>2. ASSUME NEW s \in sources
        PROVE  off(s).id = s.id /\ off(s).endpoint = s.endpoint /\ IsRow(off(s))
    BY SwitchKeepsFields DEF StoreInv, RowsInv
  <2> HIDE DEF off
  <2> QED
    BY <1>1, <2>1, <2>2 DEF StoreInv, RowsInv
<1>4. ASSUME NEW id, RemoveSource(id) PROVE RowsInv' /\ lastId' \in Nat
  BY <1>1, <1>4 DEF RemoveSource, StoreInv, RowsInv
<1> QED
  BY <1>2, <1>3, <1>4

LEMMA StoreStep == StoreInv /\ [StoreNext]_storeVars => StoreInv'
<1> SUFFICES ASSUME StoreInv, [StoreNext]_storeVars PROVE StoreInv'
  OBVIOUS
<1>1. ASSUME NEW p \in Publisher, NEW n \in 1..MaxSequence, RecordSequence(p, n) PROVE StoreInv'
  <2>1. sequences' \in [Publisher -> Nat]
    BY <1>1 DEF RecordSequence, StoreInv, ShapeInv
  <2> QED
    BY <1>1, <2>1, RowsOfOthers DEF RecordSequence, Begun
<1>2. ASSUME \/ \E p \in Publisher : Subscribe(p) \/ Unsubscribe(p)
             \/ \E r \in Release : CacheRelease(r)
             \/ \E a \in Artifact : CacheArtifact(a)
             \/ \E s \in Submitted : SetSettings(s)
      PROVE  StoreInv'
  <2>1. UNCHANGED <<opening, followed, cursors, sequences, sources, lastId>>
    BY <1>2 DEF Subscribe, Unsubscribe, CacheRelease, CacheArtifact, SetSettings, Begun
  <2> QED
    BY <2>1, RowsOfOthers DEF StoreInv, ShapeInv
<1>3. CASE UNCHANGED storeVars
  BY <1>3, RowsOfOthers DEF storeVars, rows, StoreInv, ShapeInv
<1> QED
  BY <1>1, <1>2, <1>3, OpeningStep, FollowStep, UnfollowStep, SetCursorStep, SourceStep
  DEF StoreNext

LEMMA StoreInvHolds == StoreSpec => []StoreInv
  BY InitStore, StoreStep, PTL DEF StoreSpec

\* Whatever the order of migrations, crashes, restarts with newer builds and
\* operations, the tables are those of the version (so that no start fails on a CREATE
\* TABLE), a store that opens is complete, and cursors belong to followed publishers.
THEOREM StoreStaysIntact == StoreSpec => []StoreIntact
<1>1. StoreInv => StoreIntact
  BY DEF StoreInv
<1> QED
  BY <1>1, StoreInvHolds, PTL
-----------------------------------------------------------------------------
(* What the store never forgets *)

\* A source as ForgetsNothing looks at it.
LEMMA SameSourcesKept ==
  ASSUME UNCHANGED <<sources, lastId>>
  PROVE  /\ \A s \in sources :
               \/ \E x \in sources' : x.id = s.id /\ x.endpoint = s.endpoint /\ x.builtIn = s.builtIn
               \/ ~s.builtIn /\ ~HasEndpoint(s.endpoint)'
         /\ \A x \in sources' : x.id > lastId \/ \E s \in sources : s.id = x.id
  OBVIOUS

LEMMA KeepsSequences ==
  ASSUME StoreInv
  PROVE  \A p \in Publisher : sequences[p] >= sequences[p]
  BY DEF StoreInv, ShapeInv

\* A step that adds a row with the next ID, if it changes the sources at all.
LEMMA InsertKeeps ==
  ASSUME lastId \in Nat, NEW r, r.id = lastId + 1, sources' = sources \cup {r}
  PROVE  /\ \A s \in sources :
               \/ \E x \in sources' : x.id = s.id /\ x.endpoint = s.endpoint /\ x.builtIn = s.builtIn
               \/ ~s.builtIn /\ ~HasEndpoint(s.endpoint)'
         /\ \A x \in sources' : x.id > lastId \/ \E s \in sources : s.id = x.id
  OBVIOUS

LEMMA OpeningForgetsNothing ==
  ASSUME StoreInv,
         \/ \E b \in 1..Len(Presets) : Open(b)
         \/ Migrate \/ Migrated \/ InsertPreset \/ Opened \/ Exit
  PROVE  ForgetsNothing
<1>1. /\ version' >= version /\ releases' = releases /\ artifacts' = artifacts
      /\ sequences' = sequences
  <2>1. version \in Nat
    BY DEF StoreInv, ShapeInv
  <2>2. UNCHANGED rows
    BY DEF Open, Migrate, Migrated, InsertPreset, Opened, Exit
  <2>3. version' = version \/ version' = version + 1
    BY DEF Open, Migrate, Migrated, InsertPreset, Opened, Exit
  <2> QED
    BY <2>1, <2>2, <2>3 DEF rows
<1>2. CASE UNCHANGED <<sources, lastId>>
  BY <1>1, <1>2, SameSourcesKept, KeepsSequences DEF ForgetsNothing
<1>3. CASE Migrate /\ ~UNCHANGED <<sources, lastId>>
  <2> DEFINE r == Row(1, Presets[1][1], "rss", TRUE, TRUE, FALSE)
  <2>1. version' = 3 /\ version < 3 /\ sources' = {r}
    <3>1. version' = 3
      BY <1>3 DEF Migrate
    <3>2. sources' = {r} /\ version' = version + 1
      BY <1>3, <3>1 DEF Migrate
    <3> QED
      BY <3>1, <3>2 DEF StoreInv, ShapeInv
  <2>2. sources = {} /\ lastId = 0
    BY <2>1 DEF StoreInv, RowsInv
  <2>3. r.id = 1
    BY DEF Row
  <2> HIDE DEF r
  <2> QED
    BY <1>1, <2>1, <2>2, <2>3, KeepsSequences DEF ForgetsNothing
<1>4. CASE InsertPreset /\ ~UNCHANGED <<sources, lastId>>
  <2> DEFINE r == Row(lastId + 1, Presets[build][filling], "rss", filling = 1, TRUE, FALSE)
  <2>1. sources' = sources \cup {r} /\ lastId \in Nat
    BY <1>4 DEF InsertPreset, StoreInv, ShapeInv
  <2>2. r.id = lastId + 1
    BY DEF Row
  <2> HIDE DEF r
  <2> QED
    BY <1>1, <2>1, <2>2, InsertKeeps, KeepsSequences DEF ForgetsNothing
<1> QED
  BY <1>2, <1>3, <1>4 DEF Open, Migrated, Opened, Exit

LEMMA SourcesForgetNothing ==
  ASSUME StoreInv,
         \/ \E e \in Endpoint : \E kind, key : AddSource(e, kind, key)
         \/ \E id : SetSourceEnabled(id, FALSE) \/ RemoveSource(id)
  PROVE  ForgetsNothing
<1>1. /\ version' >= version /\ releases' = releases /\ artifacts' = artifacts
      /\ sequences' = sequences /\ lastId \in Nat
  <2>1. version \in Nat /\ lastId \in Nat
    BY DEF StoreInv, ShapeInv
  <2>2. UNCHANGED <<version, releases, artifacts, sequences>>
    BY DEF AddSource, SetSourceEnabled, RemoveSource, Begun, opening, rows
  <2> QED
    BY <2>1, <2>2
<1>2. ASSUME NEW e \in Endpoint, NEW kind, NEW key, AddSource(e, kind, key) PROVE ForgetsNothing
  <2> DEFINE r == Row(lastId + 1, e, kind, TRUE, FALSE, key)
  <2>1. sources' = sources \cup {r}
    BY <1>2 DEF AddSource, NewId
  <2>2. r.id = lastId + 1
    BY DEF Row
  <2> HIDE DEF r
  <2> QED
    BY <1>1, <2>1, <2>2, InsertKeeps, KeepsSequences DEF ForgetsNothing
<1>3. ASSUME NEW id, SetSourceEnabled(id, FALSE) PROVE ForgetsNothing
  <2> DEFINE off(s) == IF s.id = id THEN [s EXCEPT !.enabled = FALSE] ELSE s
  <2>1. sources' = {off(s) : s \in sources}
    BY <1>3 DEF SetSourceEnabled
  <2>2. \A s \in sources :
           off(s).id = s.id /\ off(s).endpoint = s.endpoint /\ off(s).builtIn = s.builtIn
    BY SwitchKeepsFields DEF StoreInv, RowsInv
  <2> HIDE DEF off
  <2>3. \A s \in sources : off(s) \in sources'
    BY <2>1
  <2>4. \A x \in sources' : \E s \in sources : s.id = x.id
    BY <2>1, <2>2
  <2> QED
    BY <1>1, <2>2, <2>3, <2>4, KeepsSequences DEF ForgetsNothing
\* The row that goes is the user's own, and no other row has its endpoint.
<1>4. ASSUME NEW id, RemoveSource(id) PROVE ForgetsNothing
  <2>1. sources' = {s \in sources : s.id # id}
    BY <1>4 DEF RemoveSource
  <2>2. ASSUME NEW s \in sources, s.id = id PROVE ~s.builtIn /\ ~HasEndpoint(s.endpoint)'
    <3>1. ~s.builtIn
      BY <1>4, <2>2 DEF RemoveSource, StoreInv, RowsInv
    <3>2. \A x \in sources' : x.endpoint # s.endpoint
      BY <2>1, <2>2 DEF StoreInv, RowsInv
    <3> QED
      BY <3>1, <3>2 DEF HasEndpoint
  <2> QED
    BY <1>1, <2>1, <2>2, KeepsSequences DEF ForgetsNothing
<1> QED
  BY <1>2, <1>3, <1>4

LEMMA CacheForgetsNothing ==
  ASSUME StoreInv, NEW r \in Release, CacheRelease(r)
  PROVE  ForgetsNothing
<1>1. \A s \in releases : \E x \in releases' : x.publisher = s.publisher /\ x.id = s.id
  BY DEF CacheRelease, Cached
<1>2. UNCHANGED <<version, artifacts, sequences, sources, lastId>>
  BY DEF CacheRelease, Begun, opening
<1> QED
  BY <1>1, <1>2, SameSourcesKept, KeepsSequences DEF ForgetsNothing, StoreInv, ShapeInv

LEMMA SequenceForgetsNothing ==
  ASSUME StoreInv, NEW p \in Publisher, NEW n \in 1..MaxSequence, RecordSequence(p, n)
  PROVE  ForgetsNothing
<1>1. \A q \in Publisher : sequences'[q] >= sequences[q]
  BY DEF RecordSequence, StoreInv, ShapeInv
<1>2. UNCHANGED <<version, releases, artifacts, sources, lastId>>
  BY DEF RecordSequence, Begun, opening
<1> QED
  BY <1>1, <1>2, SameSourcesKept DEF ForgetsNothing, StoreInv, ShapeInv

LEMMA StepForgetsNothing == StoreInv /\ [StoreNext]_storeVars => [ForgetsNothing]_storeVars
<1> SUFFICES ASSUME StoreInv, StoreNext PROVE ForgetsNothing
  OBVIOUS
<1>1. ASSUME \/ \E p \in Publisher : \/ Follow(p) \/ Unfollow(p) \/ SetCursor(p, ops)
                                      \/ Subscribe(p) \/ Unsubscribe(p)
             \/ \E a \in Artifact : CacheArtifact(a)
             \/ \E s \in Submitted : SetSettings(s)
      PROVE  ForgetsNothing
  <2>1. /\ UNCHANGED <<version, releases, sequences, sources, lastId>>
        /\ artifacts \subseteq artifacts'
    BY <1>1 DEF Follow, Unfollow, SetCursor, Subscribe, Unsubscribe, CacheArtifact, WithArtifact,
                SetSettings, Begun, opening
  <2> QED
    BY <2>1, SameSourcesKept, KeepsSequences DEF ForgetsNothing, StoreInv, ShapeInv
<1> QED
  BY <1>1, OpeningForgetsNothing, SourcesForgetNothing, CacheForgetsNothing,
     SequenceForgetsNothing DEF StoreNext

\* No operation, migration, crash or restart with a newer build takes back what the
\* store has recorded: releases, artifacts, authority sequences, its version, a source
\* that its user has not removed; and catalog_sources never reuses an ID.
THEOREM StoreForgetsNothingEver == StoreSpec => NothingIsForgotten
<1>1. StoreInv /\ [StoreNext]_storeVars => [ForgetsNothing]_storeVars
  BY StepForgetsNothing
<1> QED
  BY <1>1, StoreInvHolds, PTL DEF StoreSpec, NothingIsForgotten
-----------------------------------------------------------------------------
(* CatalogSearch *)

\* Some part of the state pairs source ID i with endpoint e: a row, a stored key, or
\* what a command in progress has read or is about to insert.
Paired(i, e) ==
    \/ \E s \in sources : s.id = i /\ s.endpoint = e
    \/ \E k \in keys : k.id = i /\ k.key = e
    \/ \E c \in Callers :
          \/ \E s \in caller[c].asked : s.id = i /\ s.endpoint = e
          \/ \E k \in caller[c].keys : k.id = i /\ k.key = e
          \/ /\ caller[c].pc = "insert" \/ (caller[c].pc = "added" /\ caller[c].key # None)
             /\ caller[c].id = i /\ caller[c].key = e

\* An ID is paired with one endpoint, ever: those beyond lastId with none.
PairsInv ==
    \A i, e : Paired(i, e) => /\ i \in 1..lastId
                              /\ \A f : Paired(i, f) => f = e

IsCall(r) ==
    DOMAIN r = {"pc", "id", "key", "todo", "keys", "asked", "found", "failed", "sent"}
CallersInv ==
    /\ DOMAIN caller = Callers
    /\ \A c \in Callers : IsCall(caller[c]) /\ caller[c].todo \subseteq caller[c].asked
    /\ lastId \in Nat /\ \A s \in sources : IsRow(s)

\* The inductive invariant. What was sent depends on rows and keys that were read at
\* different times and may both be gone: hence one statement about all of them.
CatalogInv == CallersInv /\ PairsInv /\ KeysStayWithTheirSource
-----------------------------------------------------------------------------
LEMMA PairsKept ==
  ASSUME PairsInv, lastId' = lastId, \A i, e : Paired(i, e)' => Paired(i, e)
  PROVE  PairsInv'
  BY DEF PairsInv

LEMMA PairsAdded ==
  ASSUME PairsInv, lastId \in Nat, lastId' = lastId + 1, NEW d,
         \A i, e : Paired(i, e)' => Paired(i, e) \/ (i = lastId + 1 /\ e = d)
  PROVE  PairsInv'
<1>1. ASSUME NEW i, NEW e, Paired(i, e)'
      PROVE  i \in 1..lastId' /\ \A f : Paired(i, f)' => f = e
  <2>1. CASE i = lastId + 1
    BY <1>1, <2>1 DEF PairsInv
  <2>2. CASE i # lastId + 1
    BY <1>1, <2>2 DEF PairsInv
  <2> QED
    BY <2>1, <2>2
<1> QED
  BY <1>1 DEF PairsInv

LEMMA IdleIsCall ==
  /\ IsCall(Idle) /\ Idle.pc = "idle" /\ Idle.id = 0 /\ Idle.key = None
  /\ Idle.todo = {} /\ Idle.keys = {} /\ Idle.asked = {} /\ Idle.sent = {}
  BY DEF Idle, IsCall

LEMMA InitCatalog == CatalogInit => CatalogInv
<1> SUFFICES ASSUME CatalogInit PROVE CatalogInv
  OBVIOUS
<1> DEFINE r(i) == Row(i, Presets[1][i], "rss", i = 1, TRUE, FALSE)
           n == Len(Presets[1])
<1>1. \A i : r(i).id = i /\ r(i).endpoint = Presets[1][i] /\ IsRow(r(i))
  BY DEF Row, IsRow
<1>2. sources = {r(i) : i \in 1..n} /\ lastId = n /\ keys = {}
  BY DEF CatalogInit, FreshStore, NoCommands
<1>3. caller = [c \in Callers |-> Idle]
  BY DEF CatalogInit, NoCommands
<1>4. n \in Nat
  <2>1. 1 \in 1..Len(Presets) /\ Presets[1] \in Seq(Endpoint)
    BY PresetsAssumption
  <2> QED
    BY <2>1
<1> HIDE DEF r, n
<1>5. CallersInv /\ KeysStayWithTheirSource
  BY <1>1, <1>2, <1>3, <1>4, IdleIsCall DEF CallersInv, KeysStayWithTheirSource
<1>6. ASSUME NEW i, NEW e, Paired(i, e) PROVE i \in 1..n /\ e = Presets[1][i]
  BY <1>1, <1>2, <1>3, <1>6, IdleIsCall DEF Paired
<1>7. PairsInv
  BY <1>2, <1>6 DEF PairsInv
<1> QED
  BY <1>5, <1>7 DEF CatalogInv
-----------------------------------------------------------------------------
(* Steps that change the sources or the keys *)

LEMMA AddCatalogStep ==
  ASSUME CatalogInv, NEW c \in Callers, NEW e \in Endpoint, NEW kind, NEW hasKey \in BOOLEAN,
         AddCatalog(c, e, kind, hasKey)
  PROVE  CatalogInv'
<1> DEFINE r == Row(lastId + 1, e, kind, TRUE, FALSE, hasKey)
           key == IF hasKey THEN e ELSE None
           new == [Idle EXCEPT !.pc = "added", !.id = lastId + 1, !.key = key]
<1>1. r.id = lastId + 1 /\ r.endpoint = e /\ IsRow(r)
  BY DEF Row, IsRow
<1>2. /\ sources' = sources \cup {r} /\ lastId' = lastId + 1 /\ keys' = keys
      /\ caller' = [caller EXCEPT ![c] = new]
  BY DEF AddCatalog, AddSource, NewId
<1>3. key = e \/ key = None
  OBVIOUS
<1> HIDE DEF key
<1>4. /\ IsCall(new) /\ new.pc = "added" /\ new.id = lastId + 1 /\ new.key = key
      /\ new.todo = {} /\ new.keys = {} /\ new.asked = {} /\ new.sent = {}
  BY DEF Idle, IsCall
<1> HIDE DEF r, new
<1>5. DOMAIN caller = Callers /\ lastId \in Nat
  BY DEF CatalogInv, CallersInv
<1>6. caller'[c] = new /\ \A d \in Callers \ {c} : caller'[d] = caller[d]
  BY <1>2, <1>5
<1>7. CallersInv' /\ KeysStayWithTheirSource'
  BY <1>1, <1>2, <1>4, <1>5, <1>6 DEF CatalogInv, CallersInv, KeysStayWithTheirSource
<1>8. ASSUME NEW i, NEW f, Paired(i, f)' PROVE Paired(i, f) \/ (i = lastId + 1 /\ f = e)
  BY <1>1, <1>2, <1>3, <1>4, <1>6, <1>8 DEF Paired
<1>9. PairsInv'
  BY <1>2, <1>5, <1>8, PairsAdded DEF CatalogInv
<1> QED
  BY <1>7, <1>9 DEF CatalogInv

\* Every other step changes one command and gives the sources and keys no new pair.
LEMMA CommandStep ==
  ASSUME CatalogInv, NEW c \in Callers, NEW new, IsCall(new), new.todo \subseteq new.asked,
         \A r \in new.sent : r[1] = r[2],
         new.asked \subseteq caller[c].asked \cup sources,
         new.keys \subseteq caller[c].keys \cup keys,
         new.pc = "insert" \/ (new.pc = "added" /\ new.key # None) => Paired(new.id, new.key),
         DOMAIN caller' = Callers, caller'[c] = new,
         \A d \in Callers \ {c} : caller'[d] = caller[d],
         lastId' = lastId,
         \A s \in sources' : IsRow(s) /\ Paired(s.id, s.endpoint),
         \A k \in keys' : Paired(k.id, k.key)
  PROVE  CatalogInv'
<1>1. CallersInv' /\ KeysStayWithTheirSource'
  BY DEF CatalogInv, CallersInv, KeysStayWithTheirSource
<1>2. ASSUME NEW i, NEW e, Paired(i, e)' PROVE Paired(i, e)
  <2>1. CASE \E s \in sources' : s.id = i /\ s.endpoint = e
    BY <2>1
  <2>2. CASE \E k \in keys' : k.id = i /\ k.key = e
    BY <2>2
  <2>3. CASE \/ \E s \in new.asked : s.id = i /\ s.endpoint = e
             \/ \E k \in new.keys : k.id = i /\ k.key = e
    BY <2>3 DEF Paired
  <2>4. CASE /\ new.pc = "insert" \/ (new.pc = "added" /\ new.key # None)
             /\ new.id = i /\ new.key = e
    BY <2>4
  <2> HIDE DEF Paired
  <2>5. CASE \E d \in Callers \ {c} :
               \/ \E s \in caller[d].asked : s.id = i /\ s.endpoint = e
               \/ \E k \in caller[d].keys : k.id = i /\ k.key = e
               \/ /\ caller[d].pc = "insert" \/ (caller[d].pc = "added" /\ caller[d].key # None)
                  /\ caller[d].id = i /\ caller[d].key = e
    BY <2>5 DEF Paired
  <2> QED
    BY <1>2, <2>1, <2>2, <2>3, <2>4, <2>5 DEF Paired
<1>3. PairsInv'
  BY <1>2, PairsKept DEF CatalogInv
<1> QED
  BY <1>1, <1>3 DEF CatalogInv

\* A command that leaves the sources and the keys alone.
LEMMA QuietStep ==
  ASSUME CatalogInv, NEW c \in Callers, NEW new, IsCall(new), new.todo \subseteq new.asked,
         \A r \in new.sent : r[1] = r[2],
         new.asked \subseteq caller[c].asked \cup sources,
         new.keys \subseteq caller[c].keys \cup keys,
         new.pc = "insert" \/ (new.pc = "added" /\ new.key # None) => Paired(new.id, new.key),
         caller' = [caller EXCEPT ![c] = new], UNCHANGED <<sources, lastId, keys>>
  PROVE  CatalogInv'
<1>1. DOMAIN caller = Callers
  BY DEF CatalogInv, CallersInv
<1>2. /\ DOMAIN caller' = Callers /\ caller'[c] = new
      /\ \A d \in Callers \ {c} : caller'[d] = caller[d]
  BY <1>1
<1>3. /\ \A s \in sources' : IsRow(s) /\ Paired(s.id, s.endpoint)
      /\ \A k \in keys' : Paired(k.id, k.key)
  BY DEF CatalogInv, CallersInv, Paired
<1> QED
  BY <1>2, <1>3, CommandStep

\* A return leaves nothing of the command.
LEMMA ReturnStep ==
  ASSUME CatalogInv, NEW c \in Callers, Returns(c), lastId' = lastId,
         \A s \in sources' : IsRow(s) /\ Paired(s.id, s.endpoint),
         \A k \in keys' : Paired(k.id, k.key)
  PROVE  CatalogInv'
<1>1. DOMAIN caller = Callers
  BY DEF CatalogInv, CallersInv
<1>2. /\ DOMAIN caller' = Callers /\ caller'[c] = Idle
      /\ \A d \in Callers \ {c} : caller'[d] = caller[d]
  BY <1>1 DEF Returns
<1> QED
  BY <1>2, IdleIsCall, CommandStep

LEMMA InsertKeyStep ==
  ASSUME CatalogInv, NEW c \in Callers, InsertKey(c) \/ RemoveKey(c)
  PROVE  CatalogInv'
<1>1. \A s \in sources' : IsRow(s) /\ Paired(s.id, s.endpoint)
  BY DEF InsertKey, RemoveKey, storeVars, CatalogInv, CallersInv, Paired
<1>2. \A k \in keys' : Paired(k.id, k.key)
  <2>1. CASE InsertKey(c)
    <3> DEFINE k == [id |-> caller[c].id, key |-> caller[c].key]
    <3>1. Paired(k.id, k.key)
      BY <2>1 DEF InsertKey, Calls, Paired
    <3>2. keys' \subseteq keys \cup {k}
      BY <2>1 DEF InsertKey, WithKey
    <3>3. \A j \in keys : Paired(j.id, j.key)
      BY DEF Paired
    <3> HIDE DEF k
    <3> QED
      BY <3>1, <3>2, <3>3
  <2>2. CASE RemoveKey(c)
    BY <2>2 DEF RemoveKey, Paired
  <2> QED
    BY <2>1, <2>2
<1>3. Returns(c) /\ lastId' = lastId
  BY DEF InsertKey, RemoveKey, storeVars
<1> QED
  BY <1>1, <1>2, <1>3, ReturnStep

LEMMA GoesIsCall ==
  ASSUME NEW r, IsCall(r), NEW pc
  PROVE  LET new == [r EXCEPT !.pc = pc]
         IN /\ IsCall(new) /\ new.pc = pc /\ new.id = r.id /\ new.key = r.key
            /\ new.todo = r.todo /\ new.keys = r.keys /\ new.asked = r.asked /\ new.sent = r.sent
  BY DEF IsCall

LEMMA DeleteStep ==
  ASSUME CatalogInv, NEW c \in Callers, Delete(c)
  PROVE  CatalogInv'
<1>1. /\ \A s \in sources' : IsRow(s) /\ Paired(s.id, s.endpoint)
      /\ \A k \in keys' : Paired(k.id, k.key)
      /\ lastId' = lastId
  BY DEF Delete, RemoveSource, storeVars, CatalogInv, CallersInv, Paired
<1>2. CASE Returns(c)
  BY <1>1, <1>2, ReturnStep
<1>3. CASE Goes(c, "removed")
  <2> DEFINE new == [caller[c] EXCEPT !.pc = "removed"]
  <2>1. /\ DOMAIN caller = Callers /\ IsCall(caller[c]) /\ caller[c].todo \subseteq caller[c].asked
        /\ \A r \in caller[c].sent : r[1] = r[2]
    BY DEF CatalogInv, CallersInv, KeysStayWithTheirSource
  <2>2. /\ IsCall(new) /\ new.pc = "removed" /\ new.todo = caller[c].todo
        /\ new.keys = caller[c].keys /\ new.asked = caller[c].asked /\ new.sent = caller[c].sent
    BY <2>1, GoesIsCall
  <2>3. /\ DOMAIN caller' = Callers /\ caller'[c] = new
        /\ \A d \in Callers \ {c} : caller'[d] = caller[d]
    BY <1>3, <2>1 DEF Goes
  <2> HIDE DEF new
  <2> QED
    BY <1>1, <2>1, <2>2, <2>3, CommandStep
<1> QED
  BY <1>2, <1>3 DEF Delete

LEMMA EnableStep ==
  ASSUME CatalogInv, NEW c \in Callers, NEW id, NEW enabled, Enable(c, id, enabled)
  PROVE  CatalogInv'
<1> DEFINE off(s) == IF s.id = id THEN [s EXCEPT !.enabled = enabled] ELSE s
<1>1. sources' = {off(s) : s \in sources} /\ UNCHANGED <<keys, caller, lastId>>
  BY DEF Enable, SetSourceEnabled
<1>2. \A s \in sources : off(s).id = s.id /\ off(s).endpoint = s.endpoint /\ IsRow(off(s))
  BY SwitchKeepsFields DEF CatalogInv, CallersInv
<1> HIDE DEF off
<1>3. /\ \A s \in sources' : IsRow(s) /\ Paired(s.id, s.endpoint)
      /\ \A k \in keys' : Paired(k.id, k.key)
  BY <1>1, <1>2 DEF Paired
<1>4. /\ DOMAIN caller = Callers /\ IsCall(caller[c]) /\ caller[c].todo \subseteq caller[c].asked
      /\ \A r \in caller[c].sent : r[1] = r[2]
  BY DEF CatalogInv, CallersInv, KeysStayWithTheirSource
<1>5. caller[c].pc = "insert" \/ (caller[c].pc = "added" /\ caller[c].key # None)
        => Paired(caller[c].id, caller[c].key)
  BY DEF Paired
<1> QED
  BY <1>1, <1>3, <1>4, <1>5, CommandStep
-----------------------------------------------------------------------------
(* Steps that read, and the requests of a search *)

LEMMA ReadBackStep ==
  ASSUME CatalogInv, NEW c \in Callers, AddReadBack(c)
  PROVE  CatalogInv'
<1>1. UNCHANGED <<sources, lastId, keys>> /\ caller[c].pc = "added"
  BY DEF AddReadBack, storeVars, Calls
<1>2. CASE Returns(c)
  BY <1>1, <1>2, ReturnStep DEF CatalogInv, CallersInv, Paired
<1>3. CASE caller[c].key # None /\ Goes(c, "insert")
  <2> DEFINE new == [caller[c] EXCEPT !.pc = "insert"]
  <2>1. /\ IsCall(caller[c]) /\ caller[c].todo \subseteq caller[c].asked
        /\ \A r \in caller[c].sent : r[1] = r[2]
    BY DEF CatalogInv, CallersInv, KeysStayWithTheirSource
  <2>2. /\ IsCall(new) /\ new.id = caller[c].id /\ new.key = caller[c].key
        /\ new.todo = caller[c].todo /\ new.keys = caller[c].keys
        /\ new.asked = caller[c].asked /\ new.sent = caller[c].sent
    BY <2>1, GoesIsCall
  <2>3. Paired(caller[c].id, caller[c].key)
    BY <1>1, <1>3 DEF Paired
  <2>4. caller' = [caller EXCEPT ![c] = new]
    BY <1>3 DEF Goes
  <2> HIDE DEF new
  <2> QED
    BY <1>1, <2>1, <2>2, <2>3, <2>4, QuietStep
<1> QED
  BY <1>2, <1>3 DEF AddReadBack

\* set_external_catalog_api_key and the first step of a removal: the row they look at
\* pairs the ID they keep.
LEMMA LookUpStep ==
  ASSUME CatalogInv, NEW c \in Callers, NEW id, SetKey(c, id) \/ RemoveCatalog(c, id)
  PROVE  CatalogInv'
<1>1. CASE SetKey(c, id)
  <2> DEFINE e == Source(id).endpoint
             new == [Idle EXCEPT !.pc = "insert", !.id = id, !.key = e]
  <2>1. Source(id) \in sources /\ Source(id).id = id
    BY <1>1 DEF SetKey, Exists, Source
  <2>2. Paired(id, e)
    BY <2>1 DEF Paired
  <2>3. caller' = [caller EXCEPT ![c] = new] /\ UNCHANGED <<sources, lastId, keys>>
    BY <1>1 DEF SetKey, storeVars
  <2> HIDE DEF e
  <2>4. /\ IsCall(new) /\ new.id = id /\ new.key = e
        /\ new.todo = {} /\ new.keys = {} /\ new.asked = {} /\ new.sent = {}
    BY DEF Idle, IsCall
  <2> HIDE DEF new
  <2> QED
    BY <2>2, <2>3, <2>4, QuietStep
<1>2. CASE RemoveCatalog(c, id)
  <2> DEFINE new == [Idle EXCEPT !.pc = "delete", !.id = id]
  <2>1. caller' = [caller EXCEPT ![c] = new] /\ UNCHANGED <<sources, lastId, keys>>
    BY <1>2 DEF RemoveCatalog, storeVars
  <2>2. /\ IsCall(new) /\ new.pc = "delete"
        /\ new.todo = {} /\ new.keys = {} /\ new.asked = {} /\ new.sent = {}
    BY DEF Idle, IsCall
  <2> HIDE DEF new
  <2> QED
    BY <2>1, <2>2, QuietStep
<1> QED
  BY <1>1, <1>2

LEMMA SearchStep ==
  ASSUME CatalogInv, NEW c \in Callers,
         SearchSources(c) \/ SearchKeys(c) \/ Respond(c) \/ Display(c)
  PROVE  CatalogInv'
<1>1. UNCHANGED <<sources, lastId, keys>>
  BY DEF SearchSources, SearchKeys, Respond, Display, storeVars
<1>2. /\ IsCall(caller[c]) /\ caller[c].todo \subseteq caller[c].asked
      /\ \A r \in caller[c].sent : r[1] = r[2]
  BY DEF CatalogInv, CallersInv, KeysStayWithTheirSource
<1>3. CASE SearchSources(c)
  <2> DEFINE on == {s \in sources : s.enabled}
             new == [Idle EXCEPT !.pc = "keys", !.todo = on, !.asked = on]
  <2>1. caller' = [caller EXCEPT ![c] = new] /\ on \subseteq sources
    BY <1>3 DEF SearchSources
  <2> HIDE DEF on
  <2>2. /\ IsCall(new) /\ new.pc = "keys"
        /\ new.todo = on /\ new.keys = {} /\ new.asked = on /\ new.sent = {}
    BY DEF Idle, IsCall
  <2> HIDE DEF new
  <2> QED
    BY <1>1, <2>1, <2>2, QuietStep
<1>4. CASE SearchKeys(c)
  <2> DEFINE new == [caller[c] EXCEPT !.pc = "fetch", !.keys = keys]
  <2>1. caller' = [caller EXCEPT ![c] = new]
    BY <1>4 DEF SearchKeys
  <2>2. /\ IsCall(new) /\ new.pc = "fetch" /\ new.todo = caller[c].todo
        /\ new.keys = keys /\ new.asked = caller[c].asked /\ new.sent = caller[c].sent
    BY <1>2 DEF IsCall
  <2> HIDE DEF new
  <2> QED
    BY <1>1, <1>2, <2>1, <2>2, QuietStep
<1>5. CASE Respond(c)
  <2> DEFINE found == Merged(caller[c].found)
             new == [caller[c] EXCEPT !.pc = "found", !.found = found]
  <2>1. caller' = [caller EXCEPT ![c] = new]
    BY <1>5, Zenon DEF Respond
  <2> HIDE DEF found
  <2>2. /\ IsCall(new) /\ new.pc = "found" /\ new.todo = caller[c].todo
        /\ new.keys = caller[c].keys /\ new.asked = caller[c].asked /\ new.sent = caller[c].sent
    BY <1>2 DEF IsCall
  <2> HIDE DEF new
  <2> QED
    BY <1>1, <1>2, <2>1, <2>2, QuietStep
<1>6. CASE Display(c)
  BY <1>1, <1>6, ReturnStep DEF Display, CatalogInv, CallersInv, Paired
<1> QED
  BY <1>3, <1>4, <1>5, <1>6

\* The step that matters: the key was stored under the ID of the source that was read,
\* and an ID has one endpoint.
LEMMA FetchOkStep ==
  ASSUME CatalogInv, NEW c \in Callers, NEW s \in caller[c].todo, FetchOk(c, s)
  PROVE  CatalogInv'
<1> DEFINE todo == caller[c].todo \ {s}
           found == caller[c].found \o Items(s)
           sent == caller[c].sent \cup ({s.endpoint} \X KeysFor(c, s))
           new == [caller[c] EXCEPT !.todo = todo, !.found = found, !.sent = sent]
<1>1. /\ IsCall(caller[c]) /\ caller[c].todo \subseteq caller[c].asked
      /\ \A r \in caller[c].sent : r[1] = r[2]
  BY DEF CatalogInv, CallersInv, KeysStayWithTheirSource
<1>2. \A key \in KeysFor(c, s) : key = s.endpoint
  <2>1. Paired(s.id, s.endpoint)
    BY <1>1 DEF Paired
  <2>2. \A key \in KeysFor(c, s) : Paired(s.id, key)
    BY DEF KeysFor, Paired
  <2> QED
    BY <2>1, <2>2 DEF CatalogInv, PairsInv
<1>3. \A r \in sent : r[1] = r[2]
  BY <1>1, <1>2
<1>4. /\ caller' = [caller EXCEPT ![c] = new]
      /\ UNCHANGED <<sources, lastId, keys>>
  <2>1. caller' = [caller EXCEPT ![c] = new]
    BY Zenon DEF FetchOk
  <2> QED
    BY <2>1 DEF FetchOk, storeVars
<1>5. todo \subseteq caller[c].asked
  BY <1>1
<1> HIDE DEF todo, found, sent
<1>6. /\ IsCall(new) /\ new.pc = caller[c].pc /\ new.todo = todo
      /\ new.keys = caller[c].keys /\ new.asked = caller[c].asked /\ new.sent = sent
  BY <1>1 DEF IsCall
<1>7. caller[c].pc = "fetch"
  BY DEF FetchOk, Calls
<1> HIDE DEF new
<1> QED
  BY <1>3, <1>4, <1>5, <1>6, <1>7, QuietStep

LEMMA FetchErrorStep ==
  ASSUME CatalogInv, NEW c \in Callers, NEW s \in caller[c].todo, FetchError(c, s)
  PROVE  CatalogInv'
<1> DEFINE todo == caller[c].todo \ {s}
           failed == caller[c].failed \cup {s.id}
           new == [caller[c] EXCEPT !.todo = todo, !.failed = failed]
<1>1. /\ IsCall(caller[c]) /\ todo \subseteq caller[c].asked
      /\ \A r \in caller[c].sent : r[1] = r[2]
  BY DEF CatalogInv, CallersInv, KeysStayWithTheirSource
<1>2. /\ caller' = [caller EXCEPT ![c] = new]
      /\ UNCHANGED <<sources, lastId, keys>>
  <2>1. caller' = [caller EXCEPT ![c] = new]
    BY Zenon DEF FetchError
  <2> QED
    BY <2>1 DEF FetchError, storeVars
<1> HIDE DEF todo, failed
<1>3. /\ IsCall(new) /\ new.pc = caller[c].pc /\ new.todo = todo
      /\ new.keys = caller[c].keys /\ new.asked = caller[c].asked /\ new.sent = caller[c].sent
  BY <1>1 DEF IsCall
<1>4. caller[c].pc = "fetch"
  BY DEF FetchError, Calls
<1> HIDE DEF new
<1> QED
  BY <1>1, <1>2, <1>3, <1>4, QuietStep

LEMMA CatalogStep == CatalogInv /\ [CatalogNext]_catalogVars => CatalogInv'
<1> SUFFICES ASSUME CatalogInv, [CatalogNext]_catalogVars PROVE CatalogInv'
  OBVIOUS
<1>1. CASE UNCHANGED catalogVars
  <2>1. UNCHANGED <<sources, lastId, keys, caller>>
    BY <1>1 DEF catalogVars, storeVars, commandVars
  <2> QED
    BY <2>1 DEF CatalogInv, CallersInv, PairsInv, Paired, KeysStayWithTheirSource
<1> QED
  BY <1>1, AddCatalogStep, InsertKeyStep, DeleteStep, EnableStep, ReadBackStep, LookUpStep,
     SearchStep, FetchOkStep, FetchErrorStep DEF CatalogNext

LEMMA CatalogInvHolds == CatalogSpec => []CatalogInv
  BY InitCatalog, CatalogStep, PTL DEF CatalogSpec

\* However searches interleave with adding, removing and re-keying sources, a request
\* never carries the API key of another endpoint.
THEOREM KeysNeverStray == CatalogSpec => []KeysStayWithTheirSource
<1>1. CatalogInv => KeysStayWithTheirSource
  BY DEF CatalogInv
<1> QED
  BY <1>1, CatalogInvHolds, PTL
-----------------------------------------------------------------------------
(* Publishing *)

\* The ID of a claim covers every field of it.
IsClaim(c) ==
    /\ c.issuer \in Publisher /\ c.revision \in Nat
    /\ \E tag, at : c = TagClaim(c.issuer, tag, at, c.revision)

\* What is on the homeservers, and cached, are records of publishers.
RecordsInv ==
    /\ DOMAIN hostedClaims = Publisher /\ DOMAIN hostedReleases = Publisher
    /\ signedIn \in Publisher \cup {None} /\ commands \in Nat
    /\ \A p \in Publisher : IsFiniteSet(hostedClaims[p]) /\ \A c \in hostedClaims[p] : IsClaim(c)
    /\ \A a \in artifacts : IsClaim(a)
    /\ \A r \in releases : r.publisher \in Publisher

\* One listing holds the claims of p.
Small(p) == Cardinality(hostedClaims[p]) <= ListLimit

\* A command works for one publisher, and a publication of tags holds the lock.
CommandInv(t) ==
    /\ DOMAIN task[t] = {"pc", "kind", "issuer", "at", "tags", "todo", "claims", "rest"}
    /\ task[t].pc \notin {"idle", "lock", "session"} => task[t].issuer \in Publisher
    /\ task[t].kind = "tags" => /\ task[t].tags \in Requests
                                /\ task[t].pc = "lock" \/ publishLock = t
    /\ task[t].kind = "sync" => task[t].rest \subseteq Publisher
    /\ task[t].pc = "lock" => task[t].kind = "tags"

\* While it synchronises, what it has not cached yet is still to be read, or a claim of
\* somebody else is, which will end the command.
ReadInv(t) ==
    task[t].pc = "fetch" =>
        /\ \A c \in task[t].todo : OfIssuer(t, c) => c \in hostedClaims[task[t].issuer]
        /\ task[t].kind = "tags" /\ Small(task[t].issuer) =>
              \/ hostedClaims[task[t].issuer] \subseteq artifacts \cup task[t].todo
              \/ \E c \in task[t].todo : ~OfIssuer(t, c)

\* While it writes, the revisions still to be written are after all that are there.
WriteInv(t) ==
    task[t].pc \in {"put", "cache"} =>
        /\ task[t].kind = "tags"
        /\ \A c \in task[t].claims : IsClaim(c) /\ c.issuer = task[t].issuer
        /\ \A c, d \in task[t].claims : c.revision = d.revision => c = d
        /\ task[t].pc = "cache" => NextClaim(t) \subseteq hostedClaims[task[t].issuer]
        /\ Small(task[t].issuer) =>
              \A c \in hostedClaims[task[t].issuer], d \in task[t].claims :
                 c.revision < d.revision \/ c = d
TaskInv(t) == CommandInv(t) /\ ReadInv(t) /\ WriteInv(t)

\* The inductive invariant. Uniqueness alone is not inductive: what makes a revision
\* new is that the command that writes it has read all there are since it took the lock.
PublishingInv ==
    /\ RecordsInv /\ RecordsUnderTheirAuthority /\ RevisionsUnique
    /\ DOMAIN task = Tasks /\ \A t \in Tasks : TaskInv(t)

LEMMA ClaimFields ==
    ASSUME NEW p \in Publisher, NEW tag, NEW at, NEW r \in Nat
    PROVE  LET c == TagClaim(p, tag, at, r)
           IN IsClaim(c) /\ c.issuer = p /\ c.revision = r /\ c.table = "tag_claims"
  BY DEF TagClaim, IsClaim

LEMMA ClaimIdentity ==
    ASSUME NEW c, NEW d, IsClaim(c), IsClaim(d), c.id = d.id
    PROVE  c = d /\ c.table = "tag_claims"
  BY DEF TagClaim, IsClaim

\* cache_tag_claim adds the claim.
LEMMA ClaimIsCached ==
    ASSUME NEW known, \A a \in known : IsClaim(a), NEW c, IsClaim(c)
    PROVE  WithArtifact(known, c) = known \cup {c}
<1>1. \A x \in known : <<x.table, x.id>> = <<c.table, c.id>> => x = c
  BY ClaimIdentity
<1>. QED  BY <1>1 DEF WithArtifact

\* The places of the tags of a request are distinct, and count from 1.
LEMMA PlacesAreDistinct ==
    ASSUME NEW tags \in SUBSET Nat, IsFiniteSet(tags)
    PROVE  /\ \A s \in tags : Place(s, tags) \in Nat \ {0}
           /\ \A s, u \in tags : Place(s, tags) = Place(u, tags) => s = u
<1>. DEFINE Upto(s) == {other \in tags : other <= s}
<1>1. \A s \in tags : IsFiniteSet(Upto(s)) /\ s \in Upto(s)
  BY FS_Subset
<1>2. \A s \in tags : Place(s, tags) \in Nat \ {0}
  BY <1>1, FS_CardinalityType, FS_EmptySet DEF Place
<1>3. ASSUME NEW s \in tags, NEW u \in tags, s < u
      PROVE  Place(s, tags) < Place(u, tags)
  <2>1. Upto(s) \subseteq Upto(u) /\ Upto(s) # Upto(u)
    <3>1. \A other \in tags : other \in Nat
      OBVIOUS
    <3>2. u \in Upto(u) /\ u \notin Upto(s)
      BY <1>3, <3>1
    <3>3. \A other \in tags : other <= s => other <= u
      BY <1>3, <3>1
    <3>. QED  BY <3>2, <3>3
  <2>2. IsFiniteSet(Upto(u)) /\ IsFiniteSet(Upto(s))
    BY <1>1
  <2>3. Cardinality(Upto(s)) <= Cardinality(Upto(u)) /\ Cardinality(Upto(s)) # Cardinality(Upto(u))
    BY <2>1, <2>2, FS_Subset
  <2>4. Cardinality(Upto(s)) \in Nat /\ Cardinality(Upto(u)) \in Nat
    BY <2>2, FS_CardinalityType
  <2>. QED  BY <2>3, <2>4 DEF Place
<1>4. \A s, u \in tags : s < u \/ u < s \/ s = u
  OBVIOUS
<1>. QED  BY <1>2, <1>3, <1>4

\* What the command of t does leaves the other commands as they are: only the one that
\* holds the lock writes claims.
LEMMA OthersKeep ==
    ASSUME PublishingInv, NEW t,
           DOMAIN task' = Tasks, \A u \in Tasks \ {t} : task'[u] = task[u],
           artifacts \subseteq artifacts',
           \A p \in Publisher : hostedReleases[p] \subseteq hostedReleases'[p],
           UNCHANGED hostedClaims \/ (publishLock = t
                /\ \A p \in Publisher : hostedClaims[p] \subseteq hostedClaims'[p]),
           UNCHANGED publishLock \/ publishLock = None \/ publishLock = t
    PROVE  \A u \in Tasks \ {t} : TaskInv(u)'
<1>. SUFFICES ASSUME NEW u \in Tasks, u # t PROVE TaskInv(u)'
  OBVIOUS
<1>1. TaskInv(u) /\ task'[u] = task[u]
  BY DEF PublishingInv
<1>2. CommandInv(u)'
  BY <1>1, NoneIsNoTask DEF TaskInv, CommandInv
<1>3. ReadInv(u)'
  BY <1>1 DEF TaskInv, CommandInv, ReadInv, Small, OfIssuer
<1>4. WriteInv(u)'
  BY <1>1 DEF TaskInv, CommandInv, WriteInv, Small, NextClaim
<1>. QED  BY <1>2, <1>3, <1>4 DEF TaskInv

\* Most steps change neither the homeservers nor what is cached: the command's own
\* state is all there is to check.
LEMMA LocalStep ==
    ASSUME PublishingInv, NEW t \in Tasks,
           UNCHANGED <<artifacts, releases, homeservers, commands, signedIn>>,
           DOMAIN task' = Tasks, \A u \in Tasks \ {t} : task'[u] = task[u],
           UNCHANGED publishLock \/ publishLock = None \/ publishLock = t,
           TaskInv(t)'
    PROVE  PublishingInv'
<1>1. \A u \in Tasks \ {t} : TaskInv(u)'
  BY OthersKeep DEF homeservers
<1>2. \A u \in Tasks : TaskInv(u)'
  BY <1>1
<1>. QED
  BY <1>2 DEF PublishingInv, homeservers, RecordsInv, RecordsUnderTheirAuthority, RevisionsUnique

\* A command that has ended has nothing to check.
LEMMA EndedTask ==
    ASSUME PublishingInv, NEW t \in Tasks, Ends(t)
    PROVE  /\ TaskInv(t)'
           /\ DOMAIN task' = Tasks /\ \A u \in Tasks \ {t} : task'[u] = task[u]
           /\ UNCHANGED publishLock \/ publishLock = t
  BY DEF Ends, NoTask, PublishingInv, TaskInv, CommandInv, ReadInv, WriteInv

LEMMA EndStep ==
    ASSUME PublishingInv, NEW t \in Tasks, Ends(t),
           UNCHANGED <<artifacts, releases, homeservers, commands, signedIn>>
    PROVE  PublishingInv'
  BY EndedTask, LocalStep

LEMMA BeginStep ==
    ASSUME PublishingInv, NEW t \in Tasks,
           \/ \E tags \in Requests : Begin(t, "tags", tags)
           \/ Begin(t, "release", {})
    PROVE  PublishingInv'
<1>. PICK kind, tags : /\ Begin(t, kind, tags)
                       /\ kind \in {"tags", "release"} /\ (kind = "tags" => tags \in Requests)
  OBVIOUS
<1>1. /\ DOMAIN task' = Tasks /\ \A u \in Tasks \ {t} : task'[u] = task[u]
      /\ UNCHANGED <<artifacts, releases, homeservers, publishLock, signedIn>>
      /\ commands' = commands + 1
  BY DEF Begin, storeVars, rows, PublishingInv
<1>2. TaskInv(t)'
  <2>1. /\ DOMAIN task'[t] = {"pc", "kind", "issuer", "at", "tags", "todo", "claims", "rest"}
        /\ task'[t].kind = kind /\ task'[t].tags = tags
        /\ task'[t].pc = IF kind = "tags" THEN "lock" ELSE "session"
    BY DEF Begin, NoTask, PublishingInv
  <2>2. kind = "tags" \/ kind = "release"
    OBVIOUS
  <2>. QED  BY <2>1, <2>2 DEF TaskInv, CommandInv, ReadInv, WriteInv
<1>3. \A u \in Tasks \ {t} : TaskInv(u)'
  BY <1>1, OthersKeep DEF homeservers
<1>4. \A u \in Tasks : TaskInv(u)'
  BY <1>2, <1>3
<1>. QED
  BY <1>1, <1>4 DEF PublishingInv, homeservers, RecordsInv, RecordsUnderTheirAuthority, RevisionsUnique

LEMMA SessionStep ==
    ASSUME PublishingInv, NEW t \in Tasks, TakePublishLock(t) \/ CurrentSession(t)
    PROVE  PublishingInv'
<1>1. CASE TakePublishLock(t)
  BY <1>1, LocalStep DEF TakePublishLock, At, Steps, storeVars, rows, PublishingInv, TaskInv, CommandInv,
     ReadInv, WriteInv
<1>2. CASE CurrentSession(t) /\ signedIn = None
  BY <1>2, EndStep DEF CurrentSession, storeVars, rows
<1>3. CASE CurrentSession(t) /\ signedIn # None
  <2>1. signedIn \in Publisher
    BY <1>3 DEF PublishingInv, RecordsInv
  <2>2. TaskInv(t)'
    BY <1>3, <2>1 DEF CurrentSession, At, PublishingInv, TaskInv, CommandInv, ReadInv, WriteInv
  <2>. QED  BY <1>3, <2>2, LocalStep DEF CurrentSession, storeVars, rows, PublishingInv
<1>. QED  BY <1>1, <1>2, <1>3

LEMMA SyncFollowedStep ==
    ASSUME PublishingInv, NEW t \in Tasks, NEW following \in SUBSET Publisher,
           SyncFollowed(t, following)
    PROVE  PublishingInv'
<1>. DEFINE all == following \cup ({signedIn} \ {None})
<1>1. all \subseteq Publisher /\ First(all) \in all
  BY DEF SyncFollowed, First, PublishingInv, RecordsInv
<1>2. TaskInv(t)'
  BY <1>1 DEF SyncFollowed, NoTask, PublishingInv, TaskInv, CommandInv, ReadInv, WriteInv
<1>. QED  BY <1>2, LocalStep DEF SyncFollowed, storeVars, rows, PublishingInv

LEMMA SyncNextStep ==
    ASSUME PublishingInv, NEW t \in Tasks, SyncNext(t)
    PROVE  PublishingInv'
<1>1. CASE task[t].rest = {}
  BY <1>1, EndStep DEF SyncNext, storeVars, rows
<1>2. CASE task[t].rest # {}
  <2>1. First(task[t].rest) \in task[t].rest /\ task[t].rest \subseteq Publisher
    BY <1>2 DEF First, SyncNext, PublishingInv, TaskInv, CommandInv
  <2>2. TaskInv(t)'
    BY <1>2, <2>1 DEF SyncNext, At, PublishingInv, TaskInv, CommandInv, ReadInv, WriteInv
  <2>. QED  BY <1>2, <2>2, LocalStep DEF SyncNext, storeVars, rows, PublishingInv
<1>. QED  BY <1>1, <1>2

\* What a homeserver may serve besides the claims of its user names somebody else.
LEMMA ForeignIssuer ==
    ASSUME NEW p \in Publisher
    PROVE  /\ IsFiniteSet(ForeignClaims(p))
           /\ \A c \in ForeignClaims(p) : c.issuer # p
<1>. DEFINE others == Strangers \ {p}
            claimOf == [q \in others |-> TagClaim(q, 0, 0, 1)]
<1>1. IsFiniteSet(others)
  BY StrangersAssumption, FS_Difference
<1>2. claimOf \in Surjection(others, ForeignClaims(p))
  BY DEF Surjection, ForeignClaims
<1>3. \A c \in ForeignClaims(p) : c.issuer # p
  BY DEF ForeignClaims, TagClaim
<1>. QED  BY <1>1, <1>2, <1>3, FS_Surjection

\* A listing that holds all claims names all of them.
LEMMA ListStep ==
    ASSUME PublishingInv, NEW t \in Tasks, ListClaims(t)
    PROVE  PublishingInv'
<1>. DEFINE p == task[t].issuer
            own == hostedClaims[p]
            count(served) == IF Cardinality(served) < ListLimit THEN Cardinality(served) ELSE ListLimit
<1>1. PICK foreign \in SUBSET ForeignClaims(p) : \E listed \in kSubset(count(own \cup foreign), own \cup foreign) :
        task' = [task EXCEPT ![t].pc = "fetch", ![t].todo = listed]
  BY DEF ListClaims
<1>. DEFINE served == own \cup foreign
<1>2. PICK listed \in kSubset(count(served), served) :
        task' = [task EXCEPT ![t].pc = "fetch", ![t].todo = listed]
  BY <1>1
<1>3. /\ p \in Publisher /\ IsFiniteSet(own) /\ IsFiniteSet(served)
      /\ \A c \in foreign : c.issuer # p
  <2>1. p \in Publisher /\ IsFiniteSet(own)
    BY DEF ListClaims, At, PublishingInv, RecordsInv, TaskInv, CommandInv
  <2>2. IsFiniteSet(foreign) /\ \A c \in foreign : c.issuer # p
    BY <2>1, ForeignIssuer, FS_Subset
  <2>. QED  BY <2>1, <2>2, FS_Union
<1>4. /\ Cardinality(own) \in Nat /\ Cardinality(served) \in Nat
      /\ Cardinality(own) <= Cardinality(served)
  BY <1>3, FS_CardinalityType, FS_Subset
<1>5. listed \subseteq served /\ Cardinality(listed) = count(served)
  BY DEF kSubset
<1>6. ASSUME Small(p), \A c \in listed : c.issuer = p
      PROVE  listed = own
  <2>1. listed \subseteq own
    BY <1>3, <1>5, <1>6
  <2>2. Cardinality(own) <= count(served)
    BY <1>4, <1>6, ListLimitAssumption DEF Small
  <2>3. Cardinality(listed) = count(served)
    BY <1>5
  <2>4. IsFiniteSet(listed) /\ Cardinality(listed) \in Nat /\ Cardinality(listed) <= Cardinality(own)
    BY <1>3, <2>1, FS_Subset, FS_CardinalityType
  <2>. HIDE DEF count, served, own
  <2>5. Cardinality(listed) = Cardinality(own)
    BY <1>4, <2>2, <2>3, <2>4
  <2>. QED  BY <1>3, <2>1, <2>5, FS_Subset
<1>7. TaskInv(t)'
  <2>1. /\ UNCHANGED <<artifacts, homeservers, publishLock>>
        /\ task[t].pc = "list" /\ CommandInv(t)
    BY DEF ListClaims, At, storeVars, rows, PublishingInv, TaskInv
  <2>. HIDE DEF count
  <2>2. /\ DOMAIN task'[t] = DOMAIN task[t]
        /\ task'[t].pc = "fetch" /\ task'[t].todo = listed
        /\ task'[t].issuer = p /\ task'[t].kind = task[t].kind
        /\ task'[t].tags = task[t].tags /\ task'[t].rest = task[t].rest
    BY <1>2, <2>1 DEF PublishingInv, CommandInv
  <2>3. CommandInv(t)' /\ WriteInv(t)'
    BY <2>1, <2>2 DEF CommandInv, WriteInv
  <2>4. ReadInv(t)'
    BY <1>3, <1>5, <1>6, <2>1, <2>2 DEF ReadInv, OfIssuer, homeservers, Small
  <2>. QED  BY <2>3, <2>4 DEF TaskInv
<1>. QED  BY <1>2, <1>7, LocalStep DEF ListClaims, storeVars, rows, PublishingInv

\* The claims that are cached come from their issuer's homeserver; releases may name anyone.
LEMMA CacheStep ==
    ASSUME PublishingInv, NEW t \in Tasks,
           UNCHANGED <<homeservers, commands, signedIn>>,
           artifacts \subseteq artifacts',
           \A a \in artifacts' \ artifacts : \E p \in Publisher : a \in hostedClaims[p],
           \A r \in releases' \ releases : r.publisher \in Publisher,
           DOMAIN task' = Tasks, \A u \in Tasks \ {t} : task'[u] = task[u],
           UNCHANGED publishLock \/ publishLock = t,
           TaskInv(t)'
    PROVE  PublishingInv'
<1>1. \A u \in Tasks : TaskInv(u)'
  BY OthersKeep DEF homeservers
<1>2. \A a \in artifacts' : IsClaim(a) /\ a \in hostedClaims[a.issuer]
  BY DEF PublishingInv, RecordsInv, RecordsUnderTheirAuthority
<1>3. \A r \in releases' : r.publisher \in Publisher
  BY DEF PublishingInv, RecordsInv
<1>. QED
  BY <1>1, <1>2, <1>3
  DEF PublishingInv, homeservers, RecordsInv, RecordsUnderTheirAuthority, RevisionsUnique

LEMMA SyncReleasesStep ==
    ASSUME PublishingInv, NEW t \in Tasks, SyncReleases(t)
    PROVE  PublishingInv'
<1>1. PICK foreign \in SUBSET ForeignReleases(task[t].issuer) :
        \E R \in SUBSET (hostedReleases[task[t].issuer] \cup foreign) :
           /\ CacheReleases(R)
           /\ \/ Steps(t, "list") /\ UNCHANGED publishLock
              \/ Ends(t)
  BY DEF SyncReleases
<1>0. PICK R \in SUBSET (hostedReleases[task[t].issuer] \cup foreign) :
        /\ CacheReleases(R)
        /\ \/ Steps(t, "list") /\ UNCHANGED publishLock
           \/ Ends(t)
  BY <1>1
<1>2. task[t].issuer \in Publisher /\ task[t].pc = "releases"
  BY DEF SyncReleases, At, PublishingInv, TaskInv, CommandInv
<1>3. UNCHANGED <<artifacts, homeservers, commands, signedIn>> /\ releases' \ releases \subseteq R
  BY <1>0 DEF CacheReleases, SyncReleases
<1>6. \A r \in R : r.publisher \in Publisher
  <2>1. \A r \in hostedReleases[task[t].issuer] : r.publisher \in Publisher
    BY <1>2 DEF PublishingInv, RecordsInv, RecordsUnderTheirAuthority
  <2>2. \A r \in ForeignReleases(task[t].issuer) : r.publisher \in Publisher
    BY StrangersAssumption DEF ForeignReleases, ReleaseRecord
  <2>. QED  BY <2>1, <2>2
<1>4. CASE Steps(t, "list") /\ UNCHANGED publishLock
  <2>1. TaskInv(t)'
    BY <1>2, <1>3, <1>4 DEF Steps, homeservers, PublishingInv, TaskInv, CommandInv, ReadInv, WriteInv
  <2>. QED  BY <1>3, <1>4, <1>6, <2>1, CacheStep DEF Steps, PublishingInv
<1>5. CASE Ends(t)
  BY <1>3, <1>5, <1>6, EndedTask, CacheStep
<1>. QED  BY <1>0, <1>4, <1>5

LEMMA FetchStep ==
    ASSUME PublishingInv, NEW t \in Tasks, FetchClaim(t)
    PROVE  PublishingInv'
<1>1. CASE Ends(t) /\ UNCHANGED storeVars
  BY <1>1, EndStep DEF FetchClaim, storeVars, rows
<1>2. ASSUME NEW c \in task[t].todo, OfIssuer(t, c), CacheClaims(c), UNCHANGED publishLock,
             task' = [task EXCEPT ![t].todo = @ \ {c}]
      PROVE  PublishingInv'
  <2>1. /\ task[t].pc = "fetch" /\ task[t].issuer \in Publisher
        /\ c \in hostedClaims[task[t].issuer] /\ IsClaim(c)
    BY <1>2 DEF FetchClaim, At, PublishingInv, RecordsInv, TaskInv, CommandInv, ReadInv
  <2>2. artifacts' = artifacts \cup {c}
    BY <1>2, <2>1, ClaimIsCached DEF CacheClaims, PublishingInv, RecordsInv
  <2>3. UNCHANGED <<releases, homeservers, commands, signedIn, publishLock>>
    BY <1>2 DEF FetchClaim, CacheClaims
  <2>4. /\ DOMAIN task' = Tasks /\ \A u \in Tasks \ {t} : task'[u] = task[u]
        /\ task'[t] = [task[t] EXCEPT !.todo = @ \ {c}]
    BY <1>2 DEF PublishingInv
  <2>5. CommandInv(t)' /\ WriteInv(t)'
    BY <2>1, <2>3, <2>4 DEF PublishingInv, TaskInv, CommandInv, WriteInv
  <2>6. ReadInv(t)'
    BY <1>2, <2>1, <2>2, <2>3, <2>4
    DEF homeservers, Small, OfIssuer, PublishingInv, TaskInv, CommandInv, ReadInv
  <2>. QED  BY <2>1, <2>2, <2>3, <2>4, <2>5, <2>6, CacheStep DEF TaskInv
<1>. QED  BY <1>1, <1>2 DEF FetchClaim

\* The claims that are made have revisions of their own, after all that are there.
LEMMA NumberStep ==
    ASSUME PublishingInv, NEW t \in Tasks, NumberClaims(t)
    PROVE  PublishingInv'
<1>. DEFINE p == task[t].issuer
            tags == task[t].tags
            claim(highest, tag) == TagClaim(p, tag, task[t].at, highest + Place(tag, tags))
<1>0. UNCHANGED <<artifacts, releases, homeservers, commands, signedIn>>
  BY DEF NumberClaims, storeVars, rows
<1>1. PICK highest \in 0..MaxRevision :
        /\ Highest(p, highest)
        /\ \/ task' = [task EXCEPT ![t].pc = "put", ![t].claims = {claim(highest, tag) : tag \in tags}]
              /\ UNCHANGED publishLock
           \/ Ends(t)
  BY DEF NumberClaims
<1>2. CASE Ends(t)
  BY <1>0, <1>2, EndStep
<1>3. CASE /\ task' = [task EXCEPT ![t].pc = "put", ![t].claims = {claim(highest, tag) : tag \in tags}]
           /\ UNCHANGED publishLock
  <2>1. /\ task[t].pc = "fetch" /\ task[t].kind = "tags" /\ task[t].todo = {}
        /\ p \in Publisher /\ tags \in Requests
    BY DEF NumberClaims, At, PublishingInv, TaskInv, CommandInv
  <2>2. /\ \A s \in tags : Place(s, tags) \in Nat \ {0}
        /\ \A s, u \in tags : Place(s, tags) = Place(u, tags) => s = u
    BY <2>1, RequestsAssumption, PlacesAreDistinct
  <2>3. highest \in Nat
    BY MaxRevisionAssumption
  <2>4. \A tag \in tags : /\ IsClaim(claim(highest, tag)) /\ claim(highest, tag).issuer = p
                          /\ claim(highest, tag).revision = highest + Place(tag, tags)
    BY <2>1, <2>2, <2>3, ClaimFields
  <2>5. Small(p) => \A c \in hostedClaims[p] : c.revision \in Nat /\ c.revision <= highest
    <3>. SUFFICES ASSUME Small(p), NEW c \in hostedClaims[p]
                  PROVE  c.revision \in Nat /\ c.revision <= highest
      OBVIOUS
    <3>1. c \in artifacts
      BY <2>1 DEF PublishingInv, TaskInv, ReadInv
    <3>2. IsClaim(c) /\ c.issuer = p
      BY <2>1 DEF PublishingInv, RecordsInv, RecordsUnderTheirAuthority
    <3>3. c \in ClaimsOf(p)
      BY <3>1, <3>2, ClaimIdentity DEF ClaimsOf
    <3>. QED  BY <1>1, <3>2, <3>3 DEF Highest, IsClaim
  <2>6. WriteInv(t)'
    <3>. HIDE DEF claim
    <3>1. /\ task'[t].pc = "put" /\ task'[t].kind = "tags" /\ task'[t].issuer = p
          /\ task'[t].claims = {claim(highest, tag) : tag \in tags}
      BY <1>3, <2>1 DEF PublishingInv, TaskInv, CommandInv
    <3>2. \A c, d \in task'[t].claims : c.revision = d.revision => c = d
      BY <2>2, <2>3, <2>4, <3>1
    <3>3. Small(p) => \A c \in hostedClaims[p], d \in task'[t].claims : c.revision < d.revision
      BY <2>2, <2>3, <2>4, <2>5, <3>1
    <3>4. \A c \in task'[t].claims : IsClaim(c) /\ c.issuer = p
      BY <2>4, <3>1
    <3>. QED  BY <1>0, <3>1, <3>2, <3>3, <3>4 DEF WriteInv, homeservers, Small
  <2>7. CommandInv(t)' /\ ReadInv(t)'
    BY <1>3, <2>1 DEF PublishingInv, TaskInv, CommandInv, ReadInv
  <2>. QED  BY <1>0, <1>3, <2>6, <2>7, LocalStep DEF PublishingInv, TaskInv
<1>. QED  BY <1>1, <1>2, <1>3

\* The claim that is written has a revision no other claim of its issuer has.
LEMMA PutStep ==
    ASSUME PublishingInv, NEW t \in Tasks, PutClaim(t)
    PROVE  PublishingInv'
<1>. DEFINE p == task[t].issuer
<1>1. PICK e \in NextClaim(t) : hostedClaims' = [hostedClaims EXCEPT ![p] = @ \cup {e}]
  BY DEF PutClaim, Authority
<1>2. /\ UNCHANGED <<artifacts, releases, hostedReleases, commands, signedIn>>
      /\ task[t].pc = "put" /\ task[t].kind = "tags" /\ p \in Publisher
      /\ publishLock = t
  BY DEF PutClaim, At, storeVars, rows, PublishingInv, TaskInv, CommandInv, WriteInv
<1>3. /\ e \in task[t].claims /\ IsClaim(e) /\ e.issuer = p
      /\ \A d \in task[t].claims : IsClaim(d) /\ (d = e \/ e.revision < d.revision)
  BY <1>2 DEF NextClaim, PublishingInv, TaskInv, WriteInv, IsClaim
<1>4. /\ DOMAIN hostedClaims' = Publisher
      /\ hostedClaims'[p] = hostedClaims[p] \cup {e}
      /\ \A q \in Publisher \ {p} : hostedClaims'[q] = hostedClaims[q]
  BY <1>1, <1>2 DEF PublishingInv, RecordsInv
<1>5. Cardinality(hostedClaims'[p]) <= ListLimit => Small(p) /\ \A c \in hostedClaims[p], d \in task[t].claims : c.revision < d.revision \/ c = d
  <2>1. IsFiniteSet(hostedClaims[p])
    BY <1>2 DEF PublishingInv, RecordsInv
  <2>2. IsFiniteSet(hostedClaims[p] \cup {e})
    BY <2>1, FS_AddElement
  <2>3. /\ Cardinality(hostedClaims[p]) <= Cardinality(hostedClaims[p] \cup {e})
        /\ Cardinality(hostedClaims[p]) \in Nat /\ Cardinality(hostedClaims[p] \cup {e}) \in Nat
    BY <2>1, <2>2, FS_Subset, FS_CardinalityType
  <2>4. Cardinality(hostedClaims'[p]) <= ListLimit => Cardinality(hostedClaims[p]) <= ListLimit
    BY <1>4, <2>3, ListLimitAssumption
  <2>5. ASSUME Cardinality(hostedClaims'[p]) <= ListLimit
        PROVE  Small(p) /\ \A c \in hostedClaims[p], d \in task[t].claims : c.revision < d.revision \/ c = d
    BY <1>2, <2>4, <2>5 DEF Small, PublishingInv, TaskInv, WriteInv
  <2>. QED  BY <2>5
<1>6. RevisionsUnique'
  <2>. SUFFICES ASSUME NEW q \in Publisher, Cardinality(hostedClaims'[q]) <= ListLimit,
                       NEW c \in hostedClaims'[q], NEW d \in hostedClaims'[q], c.revision = d.revision
                PROVE  c = d
    BY DEF RevisionsUnique
  <2>1. CASE q # p
    BY <1>4, <2>1 DEF PublishingInv, RevisionsUnique
  <2>2. CASE q = p
    <3>1. Small(p) /\ \A x \in hostedClaims[p] : x.revision < e.revision \/ x = e
      BY <1>3, <1>5, <2>2
    <3>2. \A x \in hostedClaims[p] : x.revision \in Nat
      BY <1>2 DEF PublishingInv, RecordsInv, IsClaim
    <3>3. e.revision \in Nat
      BY <1>3 DEF IsClaim
    <3>. QED  BY <1>2, <1>4, <2>2, <3>1, <3>2, <3>3 DEF PublishingInv, RevisionsUnique, Small
  <2>. QED  BY <2>1, <2>2
<1>7. RecordsInv' /\ RecordsUnderTheirAuthority'
  <2>1. \A q \in Publisher : IsFiniteSet(hostedClaims'[q])
    <3>1. \A q \in Publisher : IsFiniteSet(hostedClaims[q])
      BY DEF PublishingInv, RecordsInv
    <3>2. IsFiniteSet(hostedClaims[p] \cup {e})
      BY <1>2, <3>1, FS_AddElement
    <3> QED
      BY <1>4, <3>1, <3>2
  <2>2. \A q \in Publisher : \A c \in hostedClaims'[q] : IsClaim(c) /\ c.issuer = q
    BY <1>2, <1>3, <1>4 DEF PublishingInv, RecordsInv, RecordsUnderTheirAuthority
  <2>3. \A a \in artifacts : a \in hostedClaims'[a.issuer]
    BY <1>2, <1>4 DEF PublishingInv, RecordsInv, RecordsUnderTheirAuthority, IsClaim
  <2>. QED  BY <1>2, <1>4, <2>1, <2>2, <2>3 DEF PublishingInv, RecordsInv, RecordsUnderTheirAuthority
<1>8. DOMAIN task' = Tasks /\ (\A u \in Tasks \ {t} : task'[u] = task[u]) /\ TaskInv(t)'
  <2>1. CASE Steps(t, "cache") /\ UNCHANGED publishLock
    <3>1. /\ DOMAIN task' = Tasks /\ \A u \in Tasks \ {t} : task'[u] = task[u]
          /\ task'[t].pc = "cache" /\ task'[t].kind = "tags" /\ task'[t].issuer = p
          /\ task'[t].claims = task[t].claims
      BY <1>2, <2>1 DEF Steps, PublishingInv, TaskInv, CommandInv
    <3>2. CommandInv(t)' /\ ReadInv(t)'
      BY <1>2, <2>1 DEF Steps, PublishingInv, TaskInv, CommandInv, ReadInv
    <3>3. NextClaim(t)' \subseteq {e}
      BY <1>3, <3>1 DEF NextClaim, IsClaim
    <3>4. Cardinality(hostedClaims'[p]) <= ListLimit =>
             \A c \in hostedClaims'[p], d \in task[t].claims : c.revision < d.revision \/ c = d
      BY <1>3, <1>4, <1>5 DEF Small
    <3>5. \A c, d \in task[t].claims : c.revision = d.revision => c = d
      BY <1>2 DEF PublishingInv, TaskInv, WriteInv
    <3>6. \A c \in task[t].claims : IsClaim(c) /\ c.issuer = p
      BY <1>2 DEF PublishingInv, TaskInv, WriteInv
    <3>7. WriteInv(t)'
      BY <1>4, <3>1, <3>3, <3>4, <3>5, <3>6 DEF WriteInv, Small
    <3>. QED  BY <3>1, <3>2, <3>7 DEF TaskInv
  <2>2. CASE Ends(t)
    BY <2>2, EndedTask
  <2>. QED  BY <2>1, <2>2 DEF PutClaim
<1>9. UNCHANGED publishLock \/ publishLock = t
  BY <1>2
<1>10. \A u \in Tasks \ {t} : TaskInv(u)'
  BY <1>2, <1>4, <1>8, OthersKeep
<1>. QED  BY <1>6, <1>7, <1>8, <1>10 DEF PublishingInv

\* cache_tag_claim stores the claim that was written.
LEMMA CacheClaimStep ==
    ASSUME PublishingInv, NEW t \in Tasks, CacheClaim(t)
    PROVE  PublishingInv'
<1>. DEFINE p == task[t].issuer
<1>1. PICK e \in NextClaim(t) :
        /\ CacheClaims(e)
        /\ \/ Ends(t)
           \/ task' = [task EXCEPT ![t].pc = "put", ![t].claims = @ \ {e}] /\ UNCHANGED publishLock
  BY DEF CacheClaim
<1>2. /\ task[t].pc = "cache" /\ task[t].kind = "tags" /\ p \in Publisher
      /\ e \in task[t].claims /\ IsClaim(e) /\ e \in hostedClaims[p]
  BY DEF CacheClaim, At, NextClaim, PublishingInv, TaskInv, CommandInv, WriteInv
<1>3. artifacts' = artifacts \cup {e}
  BY <1>1, <1>2, ClaimIsCached DEF CacheClaims, PublishingInv, RecordsInv
<1>4. UNCHANGED <<releases, homeservers, commands, signedIn>>
  BY <1>1 DEF CacheClaim, CacheClaims
<1>5. CASE Ends(t)
  BY <1>2, <1>3, <1>4, <1>5, EndedTask, CacheStep
<1>6. CASE task' = [task EXCEPT ![t].pc = "put", ![t].claims = @ \ {e}] /\ UNCHANGED publishLock
  <2>1. /\ task'[t].pc = "put" /\ task'[t].kind = "tags" /\ task'[t].issuer = p
        /\ task'[t].claims = task[t].claims \ {e}
    BY <1>2, <1>6 DEF PublishingInv, TaskInv, CommandInv
  <2>2. WriteInv(t)'
    BY <1>2, <1>4, <2>1 DEF homeservers, Small, PublishingInv, TaskInv, WriteInv
  <2>3. CommandInv(t)' /\ ReadInv(t)'
    BY <1>2, <1>6 DEF PublishingInv, TaskInv, CommandInv, ReadInv
  <2>. QED  BY <1>2, <1>3, <1>4, <1>6, <2>2, <2>3, CacheStep DEF PublishingInv, TaskInv
<1>. QED  BY <1>1, <1>5, <1>6

\* A release is written, then cached, under the publisher the command began with.
LEMMA ReleaseStep ==
    ASSUME PublishingInv, NEW t \in Tasks, Seed(t) \/ PutRelease(t) \/ StoreRelease(t)
    PROVE  PublishingInv'
<1>. DEFINE p == task[t].issuer
            r == ReleaseRecord(p, task[t].at)
<1>0. p \in Publisher /\ r.publisher = p
  BY DEF Seed, PutRelease, StoreRelease, At, ReleaseRecord, PublishingInv, TaskInv, CommandInv
<1>1. CASE Seed(t)
  <2>1. TaskInv(t)'
    BY <1>1 DEF Seed, At, Steps, PublishingInv, TaskInv, CommandInv, ReadInv, WriteInv
  <2>. QED  BY <1>1, <2>1, LocalStep DEF Seed, Steps, storeVars, rows, PublishingInv
<1>2. CASE PutRelease(t)
  <2>1. /\ hostedReleases' = [hostedReleases EXCEPT ![p] = @ \cup {r}]
        /\ UNCHANGED <<artifacts, releases, hostedClaims, commands, signedIn>>
        /\ task[t].pc = "put_release"
    BY <1>2 DEF PutRelease, At, Authority, storeVars, rows
  <2>2. /\ DOMAIN hostedReleases' = Publisher
        /\ hostedReleases'[p] = hostedReleases[p] \cup {r}
        /\ \A q \in Publisher \ {p} : hostedReleases'[q] = hostedReleases[q]
    BY <1>0, <2>1 DEF PublishingInv, RecordsInv
  <2>3. /\ DOMAIN task' = Tasks /\ \A u \in Tasks \ {t} : task'[u] = task[u]
        /\ TaskInv(t)'
        /\ UNCHANGED publishLock \/ publishLock = t
    <3>1. CASE Steps(t, "cache_release") /\ UNCHANGED publishLock
      BY <1>0, <2>1, <2>2, <3>1 DEF Steps, PublishingInv, TaskInv, CommandInv, ReadInv, WriteInv
    <3>2. CASE Ends(t)
      BY <3>2, EndedTask
    <3>. QED  BY <1>2, <3>1, <3>2 DEF PutRelease
  <2>4. \A q \in Publisher : hostedReleases[q] \subseteq hostedReleases'[q]
    BY <2>2
  <2>5. \A u \in Tasks : TaskInv(u)'
    BY <2>1, <2>3, <2>4, OthersKeep
  <2>6. RecordsUnderTheirAuthority'
    BY <1>0, <2>1, <2>2 DEF PublishingInv, RecordsInv, RecordsUnderTheirAuthority
  <2>. QED  BY <2>1, <2>2, <2>3, <2>5, <2>6 DEF PublishingInv, RecordsInv, RevisionsUnique
<1>3. CASE StoreRelease(t)
  <2>1. CacheReleases({r}) /\ Ends(t)
    BY <1>3 DEF StoreRelease
  <2>2. UNCHANGED <<artifacts, homeservers, commands, signedIn>> /\ releases' \ releases \subseteq {r}
    BY <1>3, <2>1 DEF StoreRelease, CacheReleases
  <2>. QED  BY <1>0, <2>1, <2>2, EndedTask, CacheStep
<1>. QED  BY <1>1, <1>2, <1>3

\* A crash ends every command; a store that is lost is empty.
LEMMA RestartStep ==
    ASSUME PublishingInv, NEW storeLost \in BOOLEAN, Restart(storeLost)
    PROVE  PublishingInv'
<1>1. /\ task' = [t \in Tasks |-> NoTask]
      /\ artifacts' \subseteq artifacts /\ releases' \subseteq releases
      /\ UNCHANGED <<homeservers, commands>> /\ signedIn' = None
  BY DEF Restart, storeVars, rows
<1>2. \A t \in Tasks : TaskInv(t)'
  BY <1>1 DEF NoTask, TaskInv, CommandInv, ReadInv, WriteInv
<1>. QED
  BY <1>1, <1>2 DEF PublishingInv, homeservers, RecordsInv, RecordsUnderTheirAuthority, RevisionsUnique

LEMMA PublishingNext_Inv == PublishingInv /\ [PublishingNext]_publishingVars => PublishingInv'
<1>. SUFFICES ASSUME PublishingInv, [PublishingNext]_publishingVars
              PROVE  PublishingInv'
  OBVIOUS
<1>1. ASSUME UNCHANGED <<artifacts, releases, homeservers, commands, task, publishLock>>,
             signedIn' \in Publisher \cup {None}
      PROVE  PublishingInv'
  BY <1>1 DEF PublishingInv, homeservers, RecordsInv, RecordsUnderTheirAuthority, RevisionsUnique,
     TaskInv, CommandInv, ReadInv, WriteInv, NextClaim, Small, OfIssuer
<1>2. CASE UNCHANGED publishingVars
  BY <1>1, <1>2 DEF publishingVars, storeVars, rows, taskVars, homeservers, PublishingInv, RecordsInv
<1>3. ASSUME NEW p \in Publisher \cup {None}, SessionChanges(p)
      PROVE  PublishingInv'
  BY <1>1, <1>3 DEF SessionChanges, storeVars, rows, homeservers
<1>4. ASSUME NEW t \in Tasks, Fail(t)
      PROVE  PublishingInv'
  BY <1>4, EndStep DEF Fail, storeVars, rows
<1>. QED
  BY <1>2, <1>3, <1>4, BeginStep, SessionStep, SyncFollowedStep, SyncReleasesStep, ListStep, FetchStep,
     SyncNextStep, NumberStep, PutStep, CacheClaimStep, ReleaseStep, RestartStep DEF PublishingNext

LEMMA PublishingInit_Inv == PublishingInit => PublishingInv
<1>. SUFFICES ASSUME PublishingInit PROVE PublishingInv
  OBVIOUS
<1>1. \A t \in Tasks : TaskInv(t)
  BY DEF PublishingInit, NoTasks, NoTask, TaskInv, CommandInv, ReadInv, WriteInv
<1>2. IsFiniteSet({})
  BY FS_EmptySet
<1>. QED
  BY <1>1, <1>2 DEF PublishingInit, FreshStore, NoTasks, PublishingInv, RecordsInv,
     RecordsUnderTheirAuthority, RevisionsUnique

\* No two tag claims of an issuer have one revision, for any number of commands that
\* overlap, fail half-way, crash or lose their store, as long as one listing holds the
\* claims: the lock and the synchronisation before the numbering see to it.
THEOREM RevisionsStayUnique == PublishingSpec => []RevisionsUnique
<1>1. PublishingInv => RevisionsUnique
  BY DEF PublishingInv
<1>. QED  BY PublishingInit_Inv, PublishingNext_Inv, <1>1, PTL DEF PublishingSpec

\* Whoever signs in meanwhile, every record is written under the publisher it names; and
\* whatever claims homeservers serve, one that is cached was published by its issuer.
\* (Of releases this is not so: CachedReleasesWerePublished.)
THEOREM RecordsStayUnderTheirAuthority == PublishingSpec => []RecordsUnderTheirAuthority
<1>1. PublishingInv => RecordsUnderTheirAuthority
  BY DEF PublishingInv
<1>. QED  BY PublishingInit_Inv, PublishingNext_Inv, <1>1, PTL DEF PublishingSpec
-----------------------------------------------------------------------------
(* Discovery *)

\* What the service and its publishers hold. The IDs of a homeserver only grow.
Hosted(p, id) == \E x \in hosted[p] : x.id = id
TablesInv ==
    /\ DOMAIN hosted = Publisher /\ DOMAIN indexed = Publisher
    /\ followed \in Seq(Publisher)
    /\ \A r \in releases : r.publisher \in Publisher

\* Where a refresh stands: what its listing named is still to be read, is being checked,
\* or is cached; and it only reads what the homeserver has.
RefreshInv ==
    /\ DOMAIN refresh = Refreshes
    /\ \A t \in Refreshes :
          /\ DOMAIN refresh[t] = {"pc", "publisher", "todo", "listed", "got"}
          /\ refresh[t].pc \in {"get", "check"} =>
                /\ refresh[t].publisher \in Publisher
                /\ \A id \in refresh[t].listed :
                      \/ id \in refresh[t].todo
                      \/ <<refresh[t].publisher, id>> \in Keys(releases)
                      \/ refresh[t].pc = "check" /\ refresh[t].got.id = id
          /\ refresh[t].pc = "check" => Hosted(refresh[t].publisher, refresh[t].got.id)

\* The inductive invariant. What was indexed stays cached, followed or not.
IndexedInv == \A p \in Publisher : \A id \in indexed[p] : <<p, id>> \in Keys(releases)
DiscoveryInv == TablesInv /\ RefreshInv /\ IndexedInv /\ FollowedIsIndexed

LEMMA HostedStays ==
    ASSUME DiscoveryInv, NEW p \in Publisher, NEW r \in Release, Put(p, r)
    PROVE  \A q \in Publisher : \A id : Hosted(q, id) => Hosted(q, id)'
<1>1. hosted' = [hosted EXCEPT ![p] = {x \in @ : x.id # r.id} \cup {r}]
  BY DEF Put
<1>. SUFFICES ASSUME NEW q \in Publisher, NEW id, NEW x \in hosted[q], x.id = id
              PROVE  \E y \in hosted'[q] : y.id = id
  BY DEF Hosted
<1>2. CASE q = p /\ r.id = id
  BY <1>1, <1>2 DEF DiscoveryInv, TablesInv
<1>3. CASE ~(q = p /\ r.id = id)
  BY <1>1, <1>3 DEF DiscoveryInv, TablesInv
<1>. QED  BY <1>2, <1>3

LEMMA KeysStay ==
    ASSUME NEW R, NEW r
    PROVE  Keys(Cached(R, r)) = Keys(R) \cup {Key(r)}
  BY DEF Keys, Key, Cached

\* A record that is cached is the one its homeserver had under the name of the refresh.
LEMMA RefreshCache_Inv ==
    ASSUME DiscoveryInv, NEW t \in Refreshes, RefreshCache(t)
    PROVE  DiscoveryInv'
<1>. DEFINE r == refresh[t].got
<1>1. /\ refresh[t].pc = "check" /\ r.publisher = refresh[t].publisher /\ r.publisher \in Publisher
      /\ Hosted(r.publisher, r.id)
      /\ releases' = Cached(releases, r)
      /\ refresh' = [refresh EXCEPT ![t].pc = "get", ![t].got = None]
      /\ UNCHANGED <<followed, hosted, indexed>>
  BY DEF RefreshCache, RefreshAt, DiscoveryInv, RefreshInv
<1>2. Keys(releases') = Keys(releases) \cup {<<refresh[t].publisher, r.id>>}
  BY <1>1, KeysStay DEF Key
<1>3. \A x \in releases' : x \in releases \/ x = r
  BY <1>1 DEF Cached
<1>4. TablesInv'
  BY <1>1, <1>3 DEF DiscoveryInv, TablesInv
<1>5. FollowedIsIndexed'
  <2>1. \A x \in releases' : x.id \in {y.id : y \in hosted[x.publisher]}
    BY <1>1, <1>3 DEF DiscoveryInv, FollowedIsIndexed, Hosted
  <2>. QED  BY <1>1, <1>2, <2>1 DEF DiscoveryInv, FollowedIsIndexed
<1>7. IndexedInv'
  BY <1>1, <1>2 DEF DiscoveryInv, IndexedInv
<1>6. RefreshInv'
  <2>1. DOMAIN refresh' = Refreshes
    BY <1>1 DEF DiscoveryInv, RefreshInv
  <2>. SUFFICES ASSUME NEW u \in Refreshes
                PROVE  /\ DOMAIN refresh'[u] = {"pc", "publisher", "todo", "listed", "got"}
                       /\ refresh'[u].pc \in {"get", "check"} =>
                             /\ refresh'[u].publisher \in Publisher
                             /\ \A id \in refresh'[u].listed :
                                   \/ id \in refresh'[u].todo
                                   \/ <<refresh'[u].publisher, id>> \in Keys(releases')
                                   \/ refresh'[u].pc = "check" /\ refresh'[u].got.id = id
                       /\ refresh'[u].pc = "check" => Hosted(refresh[u].publisher, refresh[u].got.id)'
    BY <2>1 DEF RefreshInv, Keys, Key
  <2>2. CASE u = t
    BY <1>1, <1>2, <2>2 DEF DiscoveryInv, RefreshInv
  <2>3. CASE u # t
    <3>1. refresh'[u] = refresh[u]
      BY <1>1, <2>3 DEF DiscoveryInv, RefreshInv
    <3>. QED  BY <1>1, <1>2, <3>1 DEF DiscoveryInv, RefreshInv, Hosted
  <2>. QED  BY <2>2, <2>3
<1>. QED  BY <1>4, <1>5, <1>6, <1>7 DEF DiscoveryInv

\* The refresh follows its publisher when nothing is left to read.
LEMMA RefreshFollow_Inv ==
    ASSUME DiscoveryInv, NEW t \in Refreshes, RefreshFollow(t)
    PROVE  DiscoveryInv'
<1>. DEFINE p == refresh[t].publisher
<1>1. /\ refresh[t].pc = "get" /\ refresh[t].todo = {} /\ p \in Publisher
      /\ followed' = IF p \in ToSet(followed) THEN followed ELSE Append(followed, p)
      /\ indexed' = [indexed EXCEPT ![p] = @ \cup refresh[t].listed]
      /\ refresh' = [refresh EXCEPT ![t] = NoRefresh]
      /\ UNCHANGED <<releases, hosted>>
  BY DEF RefreshFollow, RefreshAt, Answers, DiscoveryInv, RefreshInv
<1>2. \A id \in refresh[t].listed : <<p, id>> \in Keys(releases)
  BY <1>1 DEF DiscoveryInv, RefreshInv
<1>3. followed' \in Seq(Publisher) /\ ToSet(followed') \subseteq ToSet(followed) \cup {p}
  BY <1>1 DEF DiscoveryInv, TablesInv, ToSet
<1>4. TablesInv'
  BY <1>1, <1>3 DEF DiscoveryInv, TablesInv
<1>5. RefreshInv'
  BY <1>1 DEF DiscoveryInv, RefreshInv, NoRefresh, Hosted, Keys, Key
<1>6. IndexedInv'
  <2>. SUFFICES ASSUME NEW q \in Publisher, NEW id \in indexed'[q]
                PROVE  <<q, id>> \in Keys(releases)
    BY <1>1 DEF IndexedInv, Keys, Key
  <2>1. CASE q = p
    BY <1>1, <1>2, <2>1 DEF DiscoveryInv, TablesInv, IndexedInv
  <2>2. CASE q # p
    BY <1>1, <2>2 DEF DiscoveryInv, IndexedInv
  <2>. QED  BY <2>1, <2>2
<1>7. FollowedIsIndexed'
  <2>1. ToSet(followed') \subseteq Publisher
    BY <1>3 DEF ToSet
  <2>. QED  BY <1>1, <1>6, <2>1 DEF DiscoveryInv, FollowedIsIndexed, IndexedInv
<1>. QED  BY <1>4, <1>5, <1>6, <1>7 DEF DiscoveryInv

\* The other steps of a refresh leave the store and the homeservers alone.
LEMMA RefreshRead_Inv ==
    ASSUME DiscoveryInv, NEW t \in Refreshes,
           \/ \E p \in Publisher : RefreshList(t, p)
           \/ RefreshGet(t) \/ RefreshFails(t) \/ RefreshRefuses(t)
    PROVE  DiscoveryInv'
<1>0. ASSUME UNCHANGED <<followed, releases, hosted, indexed>>, RefreshInv'
      PROVE  DiscoveryInv'
  BY <1>0 DEF DiscoveryInv, TablesInv, IndexedInv, FollowedIsIndexed, Keys, Key
<1>1. ASSUME NEW p \in Publisher, RefreshList(t, p)
      PROVE  DiscoveryInv'
  BY <1>0, <1>1 DEF RefreshList, storeVars, rows, DiscoveryInv, RefreshInv, Hosted, Keys, Key
<1>2. CASE RefreshGet(t)
  <2>1. PICK r \in hosted[refresh[t].publisher] :
          refresh' = [refresh EXCEPT ![t].pc = "check", ![t].got = r, ![t].todo = @ \ {r.id}]
    BY <1>2 DEF RefreshGet
  <2>2. refresh[t].pc = "get" /\ UNCHANGED <<followed, releases, hosted, indexed>>
    BY <1>2 DEF RefreshGet, RefreshAt, storeVars, rows
  <2>3. RefreshInv'
    <3>1. DOMAIN refresh' = Refreshes /\ \A u \in Refreshes \ {t} : refresh'[u] = refresh[u]
      BY <2>1 DEF DiscoveryInv, RefreshInv
    <3>2. /\ DOMAIN refresh'[t] = {"pc", "publisher", "todo", "listed", "got"}
          /\ refresh'[t].pc = "check" /\ refresh'[t].got = r
          /\ refresh'[t].todo = refresh[t].todo \ {r.id}
          /\ refresh'[t].publisher = refresh[t].publisher
          /\ refresh'[t].listed = refresh[t].listed
      BY <2>1 DEF DiscoveryInv, RefreshInv
    <3>. QED  BY <2>2, <3>1, <3>2 DEF DiscoveryInv, RefreshInv, Hosted, Keys, Key
  <2>. QED  BY <1>0, <2>2, <2>3
<1>3. CASE RefreshFails(t) \/ RefreshRefuses(t)
  BY <1>0, <1>3 DEF RefreshFails, RefreshRefuses, Answers, NoRefresh, storeVars, rows,
     DiscoveryInv, RefreshInv, Hosted, Keys, Key
<1>. QED  BY <1>1, <1>2, <1>3

LEMMA Put_Inv ==
    ASSUME DiscoveryInv, NEW p \in Publisher, NEW r \in Release, Put(p, r)
    PROVE  DiscoveryInv'
<1>1. /\ DOMAIN hosted' = Publisher
      /\ UNCHANGED <<followed, releases, indexed, refresh>>
  BY DEF Put, storeVars, rows, DiscoveryInv, TablesInv
<1>2. TablesInv' /\ IndexedInv'
  BY <1>1 DEF DiscoveryInv, TablesInv, IndexedInv, Keys, Key
<1>3. RefreshInv'
  BY <1>1, HostedStays DEF DiscoveryInv, RefreshInv, Keys, Key
<1>4. FollowedIsIndexed'
  <2>1. \A x \in releases : Hosted(x.publisher, x.id)'
    <3>1. \A x \in releases : x.publisher \in Publisher /\ Hosted(x.publisher, x.id)
      BY DEF DiscoveryInv, TablesInv, FollowedIsIndexed, Hosted
    <3>. QED  BY <3>1, HostedStays
  <2>. QED  BY <1>1, <2>1 DEF DiscoveryInv, FollowedIsIndexed, Hosted, Keys, Key
<1>. QED  BY <1>2, <1>3, <1>4 DEF DiscoveryInv

LEMMA DiscoveryInit_Inv == DiscoveryInit => DiscoveryInv
  BY DEF DiscoveryInit, FreshStore, NoRequests, NoRefresh, DiscoveryInv, TablesInv, RefreshInv,
     IndexedInv, FollowedIsIndexed, ToSet

LEMMA DiscoveryNext_Inv == DiscoveryInv /\ [DiscoveryNext]_discoveryVars => DiscoveryInv'
<1>. SUFFICES ASSUME DiscoveryInv, [DiscoveryNext]_discoveryVars
              PROVE  DiscoveryInv'
  OBVIOUS
<1>1. ASSUME UNCHANGED <<followed, releases, hosted, indexed, refresh>>
      PROVE  DiscoveryInv'
  BY <1>1 DEF DiscoveryInv, TablesInv, RefreshInv, IndexedInv, FollowedIsIndexed, Hosted, Keys, Key
<1>2. CASE UNCHANGED discoveryVars
  BY <1>1, <1>2 DEF discoveryVars, storeVars, rows, requestVars
<1>3. CASE StartPaging \/ NextPage
  BY <1>1, <1>3 DEF StartPaging, NextPage, storeVars, rows
<1>. QED  BY <1>2, <1>3, Put_Inv, RefreshRead_Inv, RefreshCache_Inv, RefreshFollow_Inv DEF DiscoveryNext

\* However refreshes of one publisher overlap, fail or meet records of others, one that
\* is followed has all that a refresh listed in the cache, and nothing is cached under a
\* name whose homeserver did not have it.
THEOREM FollowedStaysIndexed == DiscoverySpec => []FollowedIsIndexed
<1>1. DiscoveryInv => FollowedIsIndexed
  BY DEF DiscoveryInv
<1>. QED  BY <1>1, DiscoveryInit_Inv, DiscoveryNext_Inv, PTL DEF DiscoverySpec
-----------------------------------------------------------------------------
(* Paging *)

\* A finite set of records that no two versions of one record are in: what the service
\* orders by time, publisher and ID.
Ordered(R) ==
    /\ R \subseteq Release /\ IsFiniteSet(R)
    /\ \A r, s \in R : Key(r) = Key(s) => r = s

\* The order is strict and total, and does not look at the body.
LEMMA NewerIsStrict ==
    ASSUME NEW r \in Release, NEW s \in Release, NEW u \in Release
    PROVE  /\ Newer(r, s) /\ Newer(s, u) => Newer(r, u)
           /\ ~Newer(r, r)
           /\ Key(r) # Key(s) => Newer(r, s) \/ Newer(s, r)
           /\ Key(r) = Key(s) => (Newer(u, r) <=> Newer(u, s)) /\ (Newer(r, u) <=> Newer(s, u))
<1>1. r.at \in Nat /\ s.at \in Nat /\ u.at \in Nat /\ r.rank \in Nat /\ s.rank \in Nat /\ u.rank \in Nat
  BY ReleaseAssumption
<1>2. Key(r) = Key(s) <=> r.at = s.at /\ r.rank = s.rank
  BY ReleaseAssumption DEF Key
<1>. QED  BY <1>1, <1>2 DEF Newer

\* A record has a position of its own, after those of the newer ones.
LEMMA Positions ==
    ASSUME NEW R, Ordered(R), NEW r \in R, NEW s \in R
    PROVE  /\ Position(R, r) \in Nat
           /\ Newer(s, r) => Position(R, s) < Position(R, r)
           /\ Position(R, r) = Position(R, s) => r = s
<1>. DEFINE Before(u) == {v \in R : Newer(v, u)}
<1>1. ASSUME NEW u \in R PROVE IsFiniteSet(Before(u)) /\ Position(R, u) \in Nat
  <2>1. Before(u) \in SUBSET R
    OBVIOUS
  <2>2. IsFiniteSet(Before(u))
    BY <2>1, FS_Subset DEF Ordered
  <2>. QED  BY <2>2, FS_CardinalityType DEF Position
<1>2. ASSUME NEW u \in R, NEW v \in R, Newer(v, u) PROVE Position(R, v) < Position(R, u)
  <2>1. Before(v) \in SUBSET Before(u) /\ v \in Before(u) /\ v \notin Before(v)
    BY <1>2, NewerIsStrict DEF Ordered
  <2>2. Cardinality(Before(v)) <= Cardinality(Before(u)) /\ Cardinality(Before(v)) # Cardinality(Before(u))
    BY <1>1, <2>1, FS_Subset
  <2>3. Cardinality(Before(v)) \in Nat /\ Cardinality(Before(u)) \in Nat
    BY <1>1 DEF Position
  <2>. QED  BY <2>2, <2>3 DEF Position
<1>3. ASSUME Position(R, r) = Position(R, s) PROVE r = s
  <2>1. Newer(r, s) => Position(R, r) < Position(R, s)
    BY <1>2
  <2>2. Newer(s, r) => Position(R, s) < Position(R, r)
    BY <1>2
  <2>3. Position(R, r) \in Nat
    BY <1>1
  <2>4. ~Newer(r, s) /\ ~Newer(s, r)
    BY <1>3, <2>1, <2>2, <2>3
  <2>. QED  BY <2>4, NewerIsStrict DEF Ordered
<1>. QED  BY <1>1, <1>2, <1>3

\* At most as many records as there are positions.
LEMMA FewWithin ==
    ASSUME NEW R, Ordered(R), NEW S \in SUBSET R, NEW a \in Nat, NEW n \in Nat,
           \A r \in S : Position(R, r) \in a..(a + n - 1)
    PROVE  Cardinality(S) \in Nat /\ Cardinality(S) <= n
<1>. DEFINE f == [r \in S |-> Position(R, r)]
<1>1. f \in [S -> a..(a + n - 1)] /\ \A r, s \in S : f[r] = f[s] => r = s
  BY Positions
<1>2. f \in Injection(S, a..(a + n - 1))
  BY <1>1, Zenon DEF Injection, IsInjective
<1>3. IsFiniteSet(a..(a + n - 1)) /\ Cardinality(a..(a + n - 1)) = n
  <2>1. a + n - 1 \in Int
    OBVIOUS
  <2>. QED  BY <2>1, FS_Interval
<1>4. Cardinality(S) <= n
  BY <1>2, <1>3, FS_Injection
<1>5. IsFiniteSet(S)
  BY FS_Subset DEF Ordered
<1>. QED  BY <1>4, <1>5, FS_CardinalityType

\* No position is left out below one that is taken.
LEMMA NoGap ==
    ASSUME NEW R, Ordered(R), NEW k \in Nat, NEW r \in R, Position(R, r) >= k
    PROVE  \E s \in R : Position(R, s) = k
<1>. DEFINE Before == {u \in R : Newer(u, r)}
            n == Position(R, r)
            f == [u \in Before |-> Position(R, u)]
<1>1. n \in Nat /\ Cardinality(Before) = n
  BY Positions DEF Position
<1>2. \A u \in Before : Position(R, u) \in Nat /\ Position(R, u) < n
  BY Positions
<1>3. f \in [Before -> 0..(n - 1)] /\ \A u, v \in Before : f[u] = f[v] => u = v
  BY <1>1, <1>2, Positions
<1>4. f \in Injection(Before, 0..(n - 1))
  BY <1>3, Zenon DEF Injection, IsInjective
<1>5. IsFiniteSet(0..(n - 1)) /\ Cardinality(0..(n - 1)) = n
  <2>1. n - 1 \in Int /\ 0 \in Int
    BY <1>1
  <2>2. IsFiniteSet(0..(n - 1)) /\ Cardinality(0..(n - 1)) = IF 0 > n - 1 THEN 0 ELSE (n - 1) - 0 + 1
    BY ONLY <2>1, FS_Interval
  <2>. QED  BY <1>1, <2>2
<1>6. f \in Surjection(Before, 0..(n - 1))
  BY <1>1, <1>4, <1>5, FS_Injection
<1>7. k < n => \E u \in Before : f[u] = k
  <2>1. \A i \in 0..(n - 1) : \E u \in Before : f[u] = i
    BY <1>6, Zenon DEF Surjection
  <2>. HIDE DEF n, Before, f
  <2>. QED  BY <1>1, <2>1
<1>. QED  BY <1>1, <1>7

LEMMA FoundIsOrdered ==
    ASSUME NEW R, Ordered(R)
    PROVE  /\ Found(R) \subseteq R /\ Ordered(Found(R))
           /\ \A r \in Found(R) : Position(Found(R), r) \in Nat /\ Position(Found(R), r) < MaxOffset
<1>1. Found(R) \in SUBSET R
  BY DEF Found, Newest
<1>2. Ordered(Found(R))
  BY <1>1, FS_Subset DEF Ordered
<1>3. ASSUME NEW r \in Found(R)
      PROVE  Position(Found(R), r) \in Nat /\ Position(Found(R), r) < MaxOffset
  <2>. DEFINE A == {s \in Found(R) : Newer(s, r)}
              B == {s \in R : Newer(s, r)}
  <2>1. r \in R /\ Cardinality(B) < MaxOffset
    BY DEF Found, Newest, Position
  <2>2. A \in SUBSET B /\ B \in SUBSET R
    BY <1>1
  <2>3. IsFiniteSet(B)
    BY <2>2, FS_Subset DEF Ordered
  <2>4. Cardinality(A) <= Cardinality(B)
    BY <2>2, <2>3, FS_Subset
  <2>5. Cardinality(B) \in Nat
    BY <2>1, Positions DEF Position
  <2>6. Position(Found(R), r) \in Nat
    BY <1>2, Positions
  <2>. QED  BY <2>1, <2>4, <2>5, <2>6, LimitsAssumption DEF Position
<1>. QED  BY <1>1, <1>2, <1>3

LEMMA CachedIsOrdered ==
    ASSUME NEW R, Ordered(R), NEW g \in Release
    PROVE  Ordered(Cached(R, g))
<1>1. {x \in R : Key(x) # Key(g)} \in SUBSET R
  OBVIOUS
<1>2. IsFiniteSet({x \in R : Key(x) # Key(g)} \cup {g})
  BY <1>1, FS_Subset, FS_AddElement DEF Ordered
<1>3. Cached(R, g) = {x \in R : Key(x) # Key(g)} \cup {g}
  BY DEF Cached, Key
<1>. QED  BY <1>2, <1>3 DEF Ordered

\* A record that is cached moves the others towards later positions only, as long as no
\* record stops matching: what was ahead of one still is, in its new version.
LEMMA NothingMovesUp ==
    ASSUME NEW R, Ordered(R), NEW g \in Release,
           NEW r \in Found(R), NEW q \in Found(Cached(R, g)), Key(q) = Key(r),
           \A a \in R, b \in Cached(R, g) : Key(a) = Key(b) /\ a.body \in Matching => b.body \in Matching
    PROVE  Position(Found(R), r) <= Position(Found(Cached(R, g)), q)
<1>. DEFINE C == Cached(R, g)
            A == {s \in Found(R) : Newer(s, r)}
            B == {s \in Found(C) : Newer(s, q)}
<1>0. Ordered(C) /\ Ordered(Found(R)) /\ Ordered(Found(C)) /\ Found(R) \subseteq R /\ Found(C) \subseteq C
  BY CachedIsOrdered, FoundIsOrdered
<1>1. ASSUME NEW s \in A, NEW c \in C, Key(c) = Key(s) PROVE c \in B
  <2>1. s \in R /\ s \in Release /\ c \in Release /\ r \in Release /\ q \in Release /\ q \in C /\ Newer(s, r)
    BY <1>0 DEF Ordered
  <2>2. c.body \in Matching
    BY <1>1, <2>1 DEF Found
  <2>3. Newer(c, q)
    BY <1>1, <2>1, NewerIsStrict
  <2>4. Position(C, c) < Position(C, q) /\ Position(C, c) \in Nat /\ Position(C, q) \in Nat
    BY <1>0, <2>1, <2>3, Positions
  <2>5. Position(C, q) < MaxOffset
    BY DEF Found, Newest
  <2>. QED  BY <2>2, <2>3, <2>4, <2>5, LimitsAssumption DEF Found, Newest
<1>2. IsFiniteSet(A) /\ IsFiniteSet(B) /\ Cardinality(A) \in Nat /\ Cardinality(B) \in Nat
  <2>1. A \in SUBSET Found(R) /\ B \in SUBSET Found(C)
    OBVIOUS
  <2>2. IsFiniteSet(A) /\ IsFiniteSet(B)
    BY <1>0, <2>1, FS_Subset DEF Ordered
  <2>. QED  BY <2>2, FS_CardinalityType
<1>3. Cardinality(A) <= Cardinality(B)
  <2>1. CASE \E s \in A : Key(s) = Key(g)
    <3>1. PICK s \in A : Key(s) = Key(g)
      BY <2>1
    <3>2. g \in C
      BY DEF Cached
    <3>3. \A u \in A \ {s} : Key(u) # Key(s) /\ u \in C
      BY <1>0, <3>1 DEF Ordered, Cached, Key
    <3>4. (A \ {s}) \cup {g} \in SUBSET B
      BY <1>1, <3>1, <3>2, <3>3
    <3>5. g \notin A \ {s}
      BY <3>1, <3>3
    <3>6. IsFiniteSet(A \ {s}) /\ Cardinality(A \ {s}) = Cardinality(A) - 1
      BY <1>2, <3>1, FS_RemoveElement
    <3>7. Cardinality((A \ {s}) \cup {g}) = Cardinality(A \ {s}) + 1
      BY <3>5, <3>6, FS_AddElement
    <3>8. Cardinality((A \ {s}) \cup {g}) <= Cardinality(B)
      BY <1>2, <3>4, FS_Subset
    <3>. QED  BY <1>2, <3>6, <3>7, <3>8
  <2>2. CASE \A s \in A : Key(s) # Key(g)
    <3>1. A \in SUBSET B
      BY <1>0, <1>1, <2>2 DEF Cached, Key
    <3>. QED  BY <1>2, <3>1, FS_Subset
  <2>. QED  BY <2>1, <2>2
<1>. QED  BY <1>3 DEF Position

\* The inductive invariant. As long as no record has stopped matching, what has matched
\* throughout was received or is at the client's offset or beyond: the page that the
\* client gets next begins there.
Ahead ==
    \A k \in reader.stays :
        \/ k \in reader.seen
        \/ \E r \in Found(releases) : Key(r) = k /\ Position(Found(releases), r) >= reader.offset
PagingInv ==
    /\ Ordered(releases)
    /\ \A p \in Publisher : hosted[p] \subseteq Release
    /\ \A t \in Refreshes : refresh[t].pc = "check" => refresh[t].got \in Release
    /\ DOMAIN reader = {"pc", "offset", "seen", "stays", "edited"} /\ reader.offset \in Nat
    /\ reader.pc = "paging" /\ ~reader.edited => Ahead
    /\ PagingSkipsNothing

LEMMA RefreshCache_Paging ==
    ASSUME DiscoveryInv, PagingInv, NEW t \in Refreshes, RefreshCache(t)
    PROVE  PagingInv'
<1>. DEFINE g == refresh[t].got
<1>1. /\ g \in Release /\ releases' = Cached(releases, g) /\ UNCHANGED hosted
      /\ refresh' = [refresh EXCEPT ![t].pc = "get", ![t].got = None]
  BY DEF RefreshCache, RefreshAt, PagingInv
<1>2. Ordered(releases')
  BY <1>1, CachedIsOrdered DEF PagingInv
<1>3. \A u \in Refreshes : refresh'[u].pc = "check" => refresh'[u].got \in Release
  <2>1. refresh'[t].pc = "get" /\ \A u \in Refreshes \ {t} : refresh'[u] = refresh[u]
    BY <1>1 DEF DiscoveryInv, RefreshInv
  <2>. QED  BY <2>1 DEF PagingInv
<1>4. CASE reader.pc # "paging"
  <2>1. reader' = reader
    BY <1>4 DEF RefreshCache
  <2>. QED  BY <1>1, <1>2, <1>3, <1>4, <2>1 DEF PagingInv, PagingSkipsNothing, Ordered
<1>5. CASE reader.pc = "paging"
  <2>0. reader' = Observed(releases')
    BY <1>5 DEF RefreshCache
  <2>1. /\ DOMAIN reader' = {"pc", "offset", "seen", "stays", "edited"}
        /\ reader'.pc = "paging" /\ reader'.offset = reader.offset /\ reader'.seen = reader.seen
        /\ reader'.stays = reader.stays \cap Keys(Found(releases'))
        /\ reader'.edited = (reader.edited \/ \E r \in releases, x \in releases' :
              Key(r) = Key(x) /\ r.body \in Matching /\ x.body \notin Matching)
    BY <1>5, <2>0, Zenon DEF Observed, PagingInv
  <2>2. ASSUME ~reader'.edited PROVE Ahead'
    <3>1. /\ ~reader.edited
          /\ \A a \in releases, b \in releases' :
                Key(a) = Key(b) /\ a.body \in Matching => b.body \in Matching
      BY <2>1, <2>2, Zenon
    <3>2. Ahead
      BY <1>5, <3>1 DEF PagingInv
    <3>. SUFFICES ASSUME NEW k \in reader'.stays, k \notin reader'.seen
                  PROVE  \E q \in Found(releases') :
                            Key(q) = k /\ Position(Found(releases'), q) >= reader'.offset
      BY DEF Ahead, Key, Found, Position, Newer
    <3>3. k \in reader.stays /\ k \notin reader.seen /\ k \in Keys(Found(releases'))
      BY <2>1
    <3>4. PICK r \in Found(releases) : Key(r) = k /\ Position(Found(releases), r) >= reader.offset
      BY <3>2, <3>3 DEF Ahead
    <3>5. PICK q \in Found(releases') : Key(q) = k
      BY <3>3 DEF Keys
    <3>6. Position(Found(releases), r) <= Position(Found(releases'), q)
      BY <1>1, <3>1, <3>4, <3>5, NothingMovesUp DEF PagingInv
    <3>7. Position(Found(releases), r) \in Nat /\ Position(Found(releases'), q) \in Nat
      BY <1>2, FoundIsOrdered DEF PagingInv
    <3>. QED  BY <2>1, <3>4, <3>5, <3>6, <3>7 DEF PagingInv
  <2>. QED  BY <1>1, <1>2, <1>3, <2>1, <2>2 DEF PagingInv, PagingSkipsNothing, Ordered
<1>. QED  BY <1>4, <1>5

\* A page is what is at the offset and the next positions; past the last record it is empty.
LEMMA PageIsNext ==
    ASSUME PagingInv
    PROVE  LET page == Page(reader.offset)
               found == Found(releases)
           IN  /\ Cardinality(page) \in Nat
               /\ \A r \in found : Position(found, r) >= reader.offset =>
                     \/ r \in page
                     \/ page # {} /\ Position(found, r) >= reader.offset + Cardinality(page)
<1>. DEFINE page == Page(reader.offset)
            found == Found(releases)
            from == IF reader.offset < MaxOffset THEN reader.offset ELSE MaxOffset
            limit == IF Asked < 1 THEN 1 ELSE IF Asked > MaxPage THEN MaxPage ELSE Asked
<1>1. page = {r \in found : Position(found, r) \in from..(from + limit - 1)}
  BY Zenon DEF Page, Cut
<1>2. Ordered(found) /\ \A r \in found : Position(found, r) \in Nat /\ Position(found, r) < MaxOffset
  BY FoundIsOrdered DEF PagingInv
<1>3. from \in Nat /\ limit \in Nat /\ limit >= 1 /\ reader.offset \in Nat
  BY LimitsAssumption DEF PagingInv
<1>. HIDE DEF page, found, limit
<1>4. Cardinality(page) \in Nat /\ Cardinality(page) <= limit
  <2>1. page \in SUBSET found
    BY <1>1
  <2>. QED  BY <1>1, <1>2, <1>3, <2>1, FewWithin
<1>5. ASSUME NEW r \in found, Position(found, r) >= reader.offset, r \notin page
      PROVE  page # {} /\ Position(found, r) >= reader.offset + Cardinality(page)
  <2>1. from = reader.offset
    BY <1>2, <1>3, <1>5, LimitsAssumption
  <2>2. Position(found, r) >= from + limit
    BY <1>1, <1>2, <1>3, <1>5, <2>1
  <2>3. PICK s \in found : Position(found, s) = from
    BY <1>2, <1>3, <1>5, <2>1, NoGap
  <2>4. s \in page
    BY <1>1, <1>3, <2>3
  <2>. QED  BY <1>2, <1>3, <1>4, <2>1, <2>2, <2>4
<1>. QED  BY <1>4, <1>5 DEF page, found

LEMMA NextPage_Paging ==
    ASSUME PagingInv, NextPage
    PROVE  PagingInv'
<1>. DEFINE page == Page(reader.offset)
            found == Found(releases)
            n == Cardinality(page)
            end == page = {} \/ reader.offset + n >= Cardinality(found)
<1>0. UNCHANGED <<releases, hosted, refresh>> /\ reader.pc = "paging"
  BY DEF NextPage, storeVars, rows
<1>1. /\ DOMAIN reader' = {"pc", "offset", "seen", "stays", "edited"}
      /\ reader'.pc = (IF end THEN "done" ELSE "paging")
      /\ reader'.offset = reader.offset + n
      /\ reader'.seen = reader.seen \cup Keys(page)
      /\ reader'.stays = reader.stays /\ reader'.edited = reader.edited
  BY <1>0, Zenon DEF NextPage, PagingInv
<1>2. /\ n \in Nat
      /\ \A r \in found : Position(found, r) >= reader.offset =>
            r \in page \/ (page # {} /\ Position(found, r) >= reader.offset + n)
  BY PageIsNext
<1>3. ASSUME ~reader.edited PROVE Ahead' /\ (end => reader'.stays \subseteq reader'.seen)
  <2>1. ASSUME NEW k \in reader.stays, k \notin reader'.seen
        PROVE  /\ ~end
               /\ \E r \in found : Key(r) = k /\ Position(found, r) >= reader.offset + n
    <3>1. PICK r \in found : Key(r) = k /\ Position(found, r) >= reader.offset
      BY <1>0, <1>1, <1>3, <2>1 DEF PagingInv, Ahead
    <3>2. r \notin page
      BY <1>1, <2>1, <3>1 DEF Keys
    <3>3. page # {} /\ Position(found, r) >= reader.offset + n
      BY <1>2, <3>1, <3>2
    <3>4. Position(found, r) < Cardinality(found) /\ Position(found, r) \in Nat /\ Cardinality(found) \in Nat
      <4>1. Ordered(found) /\ r \in Release /\ Position(found, r) \in Nat
        BY FoundIsOrdered, Positions DEF PagingInv, Ordered
      <4>2. {s \in found : Newer(s, r)} \in SUBSET found /\ r \notin {s \in found : Newer(s, r)}
        BY <4>1, NewerIsStrict
      <4>3. Position(found, r) <= Cardinality(found) /\ Position(found, r) # Cardinality(found)
        BY <4>1, <4>2, FS_Subset DEF Ordered, Position
      <4>4. Cardinality(found) \in Nat
        BY <4>1, FS_CardinalityType DEF Ordered
      <4>. QED  BY <4>1, <4>3, <4>4
    <3>5. reader.offset \in Nat
      BY DEF PagingInv
    <3>6. ~(reader.offset + n >= Cardinality(found))
      <4>. HIDE DEF page, found, n
      <4>. QED  BY <1>2, <3>3, <3>4, <3>5
    <3>. QED  BY <3>1, <3>3, <3>6
  <2>2. Found(releases)' = found /\ \A r : Position(found, r)' = Position(found, r)
    BY <1>0 DEF Found, Newest, Position, Newer
  <2>3. Ahead'
    <3>. HIDE DEF page, found, n, end
    <3>. QED  BY <1>0, <1>1, <2>1, <2>2 DEF Ahead, found, Key
  <2>4. end => reader'.stays \subseteq reader'.seen
    <3>. HIDE DEF page, found, n, end
    <3>. QED  BY <1>1, <2>1
  <2>. QED  BY <2>3, <2>4
<1>. QED  BY <1>0, <1>1, <1>2, <1>3 DEF PagingInv, PagingSkipsNothing, Ordered

LEMMA DiscoveryInit_Paging == DiscoveryInit => PagingInv
<1>. SUFFICES ASSUME DiscoveryInit PROVE PagingInv
  OBVIOUS
<1>1. releases = {} /\ Ordered(releases)
  BY FS_EmptySet DEF DiscoveryInit, FreshStore, Ordered
<1>. QED  BY <1>1 DEF DiscoveryInit, NoRequests, NoRefresh, NoReader, PagingInv, PagingSkipsNothing

LEMMA SameAhead ==
    ASSUME UNCHANGED <<releases, reader>>, Ahead
    PROVE  Ahead'
<1>1. Found(releases)' = Found(releases)
  BY DEF Found, Newest, Position, Newer
<1>. QED  BY <1>1 DEF Ahead, Position, Newer, Key

\* The steps that leave the cache and the client alone.
LEMMA Request_Paging ==
    ASSUME DiscoveryInv, PagingInv,
           \/ \E p \in Publisher, r \in Release : Put(p, r)
           \/ \E t \in Refreshes :
                 \/ \E p \in Publisher : RefreshList(t, p)
                 \/ RefreshGet(t) \/ RefreshFails(t) \/ RefreshRefuses(t) \/ RefreshFollow(t)
    PROVE  PagingInv'
<1>1. ASSUME UNCHANGED <<releases, reader>>,
             \A p \in Publisher : hosted'[p] \subseteq Release,
             \A t \in Refreshes : refresh'[t].pc = "check" => refresh'[t].got \in Release
      PROVE  PagingInv'
  <2>1. Ahead => Ahead'
    BY <1>1, SameAhead
  <2>. QED  BY <1>1, <2>1 DEF PagingInv, PagingSkipsNothing, Ordered, Key
<1>2. ASSUME NEW p \in Publisher, NEW r \in Release, Put(p, r)
      PROVE  PagingInv'
  <2>1. hosted' = [hosted EXCEPT ![p] = {x \in @ : x.id # r.id} \cup {r}]
        /\ UNCHANGED <<releases, reader, refresh>>
    BY <1>2 DEF Put, storeVars, rows
  <2>2. \A q \in Publisher : hosted'[q] \subseteq Release
    BY <2>1 DEF DiscoveryInv, TablesInv, PagingInv
  <2>. QED  BY <1>1, <2>1, <2>2 DEF PagingInv
<1>3. ASSUME NEW t \in Refreshes,
             \/ \E p \in Publisher : RefreshList(t, p)
             \/ RefreshGet(t) \/ RefreshFails(t) \/ RefreshRefuses(t) \/ RefreshFollow(t)
      PROVE  PagingInv'
  <2>1. UNCHANGED <<releases, reader, hosted>>
    BY <1>3 DEF RefreshList, RefreshGet, RefreshFails, RefreshRefuses, RefreshFollow, storeVars, rows
  <2>2. /\ \A u \in Refreshes \ {t} : refresh'[u] = refresh[u]
        /\ refresh'[t].pc = "check" => refresh'[t].got \in Release
    <3>1. CASE RefreshGet(t)
      <4>1. PICK r \in hosted[refresh[t].publisher] :
              refresh' = [refresh EXCEPT ![t].pc = "check", ![t].got = r, ![t].todo = @ \ {r.id}]
        BY <3>1 DEF RefreshGet
      <4>2. r \in Release
        BY <3>1 DEF RefreshGet, RefreshAt, DiscoveryInv, RefreshInv, PagingInv
      <4>. QED  BY <4>1, <4>2 DEF DiscoveryInv, RefreshInv
    <3>2. CASE ~RefreshGet(t)
      BY <1>3, <3>2 DEF RefreshList, RefreshFails, RefreshRefuses, RefreshFollow, Answers,
         NoRefresh, DiscoveryInv, RefreshInv
    <3>. QED  BY <3>1, <3>2
  <2>. QED  BY <1>1, <2>1, <2>2 DEF PagingInv
<1>. QED  BY <1>2, <1>3

LEMMA DiscoveryNext_Paging ==
    DiscoveryInv /\ PagingInv /\ [DiscoveryNext]_discoveryVars => PagingInv'
<1>. SUFFICES ASSUME DiscoveryInv, PagingInv, [DiscoveryNext]_discoveryVars
              PROVE  PagingInv'
  OBVIOUS
<1>1. CASE UNCHANGED discoveryVars
  <2>1. UNCHANGED <<releases, reader, hosted, refresh>>
    BY <1>1 DEF discoveryVars, storeVars, rows, requestVars
  <2>2. Ahead => Ahead'
    BY <2>1, SameAhead
  <2>. QED  BY <2>1, <2>2 DEF PagingInv, PagingSkipsNothing, Ordered, Key
<1>2. CASE StartPaging
  <2>1. UNCHANGED <<releases, hosted, refresh>> /\ Ordered(releases)
    BY <1>2 DEF StartPaging, storeVars, rows, PagingInv
  <2>2. /\ DOMAIN reader' = {"pc", "offset", "seen", "stays", "edited"}
        /\ reader'.pc = "paging" /\ reader'.offset = 0 /\ reader'.stays = Keys(Found(releases))
    BY <1>2 DEF StartPaging, NoReader
  <2>3. Ahead'
    <3>1. \A r \in Found(releases) : Position(Found(releases), r) >= 0
      BY <2>1, FoundIsOrdered
    <3>. QED  BY <2>1, <2>2, <3>1 DEF Ahead, Keys, Found, Newest, Position, Newer, Key
  <2>. QED  BY <2>1, <2>2, <2>3 DEF PagingInv, PagingSkipsNothing, Ordered
<1>. QED  BY <1>1, <1>2, NextPage_Paging, Request_Paging, RefreshCache_Paging DEF DiscoveryNext

\* However refreshes go on between the pages, a client that has paged to the end, at any
\* limit it asked for, has received every record that matched throughout (offset and
\* limit of torznab_search_response), unless one stopped matching meanwhile.
THEOREM PagesAreComplete == DiscoverySpec => []PagingSkipsNothing
<1>1. PagingInv => PagingSkipsNothing
  BY DEF PagingInv
<1>. QED
  BY <1>1, DiscoveryInit_Inv, DiscoveryNext_Inv, DiscoveryInit_Paging, DiscoveryNext_Paging, PTL
  DEF DiscoverySpec
-----------------------------------------------------------------------------
(* Types of the store *)

LEMMA RowTyped ==
  ASSUME NEW id \in Nat, NEW e \in Endpoint, NEW kind \in {"rss", "torznab"},
         NEW enabled \in BOOLEAN, NEW builtIn \in BOOLEAN, NEW requiresKey \in BOOLEAN
  PROVE  Row(id, e, kind, enabled, builtIn, requiresKey) \in CatalogSource
  BY DEF Row, CatalogSource

LEMMA PresetsTyped ==
  /\ 1 \in 1..Len(Presets) /\ Presets[1][1] \in Endpoint
  /\ \A b \in 1..Len(Presets) : Presets[b] \in Seq(Endpoint)
<1>1. \A b \in 1..Len(Presets) : Presets[b] \in Seq(Endpoint)
  BY PresetsAssumption
<1>2. 1 \in 1..Len(Presets)
  BY PresetsAssumption
<1>3. Presets[1] \in Seq(Endpoint) /\ Presets[1] # <<>>
  BY <1>1, <1>2, FirstPresetAssumption
<1> QED
  BY <1>1, <1>2, <1>3

LEMMA SettingsTyped ==
  ASSUME NEW s \in Submitted, ValidSettings(Normalized(s))
  PROVE  Normalized(s) \in ClientSettings
<1>1. /\ s \in [dir : {None, "blank", "path"}, network : BOOLEAN,
                limit : {None} \cup Nat, port : {None} \cup 0..MaxPort]
  BY SubmittedAssumption
<1> DEFINE n == Normalized(s)
<1>2. n \in [dir : {None, "blank", "path"}, network : BOOLEAN,
             limit : {None} \cup Nat, port : {None} \cup 0..MaxPort]
  BY <1>1 DEF Normalized
<1>3. s.limit \in {None} \cup Nat /\ n.limit = IF s.limit = 0 THEN None ELSE s.limit
  BY <1>1 DEF Normalized
<1>4. n.port # 0 /\ n.dir # "blank" /\ (n.limit # None => n.limit <= MaxLimit)
  BY DEF ValidSettings
<1> HIDE DEF n
<1>5. n.dir \in {None, "path"}
  BY <1>2, <1>4
<1>6. n.limit \in {None} \cup 1..MaxLimit
  BY <1>4, <1>3, MaxLimitAssumption, NoneAssumption
<1>7. n.port \in {None} \cup 1..MaxPort
  BY <1>2, <1>4, MaxPortAssumption, NoneAssumption
<1>8. n \in ClientSettings
  BY <1>2, <1>5, <1>6, <1>7 DEF ClientSettings
<1> QED
  BY <1>8 DEF n

LEMMA FreshStoreTypes == FreshStore => StoreTypeOK
<1> SUFFICES ASSUME FreshStore PROVE StoreTypeOK
  OBVIOUS
<1>1. Presets[1] \in Seq(Endpoint) /\ Len(Presets[1]) \in Nat
  BY PresetsTyped
<1>2. sources \subseteq CatalogSource
  <2>1. ASSUME NEW i \in 1..Len(Presets[1]) PROVE Row(i, Presets[1][i], "rss", i = 1, TRUE, FALSE) \in CatalogSource
    <3>1. i \in Nat /\ Presets[1][i] \in Endpoint
      BY <1>1
    <3>2. (i = 1) \in BOOLEAN
      BY Zenon
    <3> QED
      BY <3>1, <3>2, RowTyped, Zenon
  <2> QED
    BY <2>1 DEF FreshStore
<1>3. settings \in ClientSettings
  BY DEF FreshStore, DefaultSettings, ClientSettings
<1>4. sequences \in [Publisher -> 0..MaxSequence]
  BY MaxSequenceAssumption DEF FreshStore
<1>5. /\ process = "open" /\ build \in 1..Len(Presets) /\ filling \in Nat \ {0}
      /\ version \in 0..(CurrentVersion + 1) /\ ops \in 0..MaxOps /\ lastId \in Nat
  BY <1>1, PresetsTyped, MaxOpsAssumption DEF FreshStore, CurrentVersion
<1>6. /\ tables = Schema(CurrentVersion) /\ followed = <<>> /\ cursors = {} /\ releases = {}
      /\ artifacts = {} /\ subscriptions = <<>>
  BY DEF FreshStore
<1> QED
  BY <1>2, <1>3, <1>4, <1>5, <1>6 DEF StoreTypeOK

LEMMA StoreInitTypes == StoreInit => StoreTypeOK
<1> SUFFICES ASSUME StoreInit PROVE StoreTypeOK
  OBVIOUS
<1>1. settings \in ClientSettings
  BY DEF StoreInit, DefaultSettings, ClientSettings
<1>2. sequences \in [Publisher -> 0..MaxSequence]
  BY MaxSequenceAssumption DEF StoreInit
<1> QED
  BY <1>1, <1>2, PresetsTyped, MaxOpsAssumption DEF StoreInit, StoreTypeOK, CurrentVersion

LEMMA OpeningTypes ==
  ASSUME StoreTypeOK,
         \/ \E b \in 1..Len(Presets) : Open(b)
         \/ Migrate \/ Migrated \/ InsertPreset \/ Opened \/ Exit
  PROVE  StoreTypeOK'
<1>1. ASSUME NEW b \in 1..Len(Presets), Open(b) PROVE StoreTypeOK'
  BY <1>1 DEF Open, rows, StoreTypeOK
<1>2. CASE Migrated \/ Opened \/ Exit
  BY <1>2 DEF Migrated, Opened, Exit, rows, StoreTypeOK
<1>3. CASE Migrate
  <2>1. version \in 0..4 /\ version' = version + 1
    BY <1>3 DEF Migrate, StoreTypeOK, CurrentVersion
  <2>2. Created[version + 1] \subseteq Schema(CurrentVersion)
    BY <2>1 DEF Schema, CurrentVersion
  <2>3. tables' \subseteq Schema(CurrentVersion)
    BY <1>3, <2>2 DEF Migrate, StoreTypeOK
  <2>4. sources' \subseteq CatalogSource /\ lastId' \in Nat
    <3>1. Row(1, Presets[1][1], "rss", TRUE, TRUE, FALSE) \in CatalogSource
      <4>1. 1 \in Nat
        OBVIOUS
      <4> QED
        BY <4>1, PresetsTyped, RowTyped, Zenon
    <3>2. {Row(1, Presets[1][1], "rss", TRUE, TRUE, FALSE)} \subseteq CatalogSource
      BY <3>1
    <3> HIDE DEF Migrate
    <3>3. \/ sources' = {Row(1, Presets[1][1], "rss", TRUE, TRUE, FALSE)} /\ lastId' = 1
          \/ UNCHANGED <<sources, lastId>>
      BY <1>3 DEF Migrate
    <3>4. sources \subseteq CatalogSource /\ lastId \in Nat
      BY DEF StoreTypeOK
    <3>5. 1 \in Nat
      OBVIOUS
    <3> QED
      BY <3>2, <3>3, <3>4, <3>5, Zenon
  <2> QED
    BY <1>3, <2>1, <2>3, <2>4 DEF Migrate, rows, StoreTypeOK, CurrentVersion
<1>4. CASE InsertPreset
  <2> DEFINE e == Presets[build][filling]
  <2>1. /\ build \in 1..Len(Presets) /\ filling \in Nat \ {0} /\ filling <= Len(Presets[build])
        /\ filling' = filling + 1 /\ lastId \in Nat
    BY <1>4 DEF InsertPreset, StoreTypeOK
  <2>2. CASE HasEndpoint(e)
    BY <1>4, <2>1, <2>2 DEF InsertPreset, rows, StoreTypeOK
  <2>3. CASE ~HasEndpoint(e)
    <3>1. e \in Endpoint
      BY <2>1, <2>3, PresetsTyped
    <3>2. Row(lastId + 1, e, "rss", filling = 1, TRUE, FALSE) \in CatalogSource
      <4>1. lastId + 1 \in Nat
        BY <2>1
      <4>2. (filling = 1) \in BOOLEAN
        BY Zenon
      <4> QED
        BY <3>1, <4>1, <4>2, RowTyped, Zenon
    <3>3. sources' \subseteq CatalogSource /\ lastId' \in Nat
      <4>1. /\ sources' = sources \cup {Row(lastId + 1, e, "rss", filling = 1, TRUE, FALSE)}
            /\ lastId' = lastId + 1
        BY <1>4, <2>3, Zenon DEF InsertPreset
      <4>2. sources \subseteq CatalogSource /\ lastId + 1 \in Nat
        BY <2>1 DEF StoreTypeOK
      <4> QED
        BY <3>2, <4>1, <4>2, Zenon
    <3> QED
      BY <1>4, <2>1, <3>3 DEF InsertPreset, rows, StoreTypeOK
  <2> QED
    BY <2>2, <2>3
<1> QED
  BY <1>1, <1>2, <1>3, <1>4

\* The operations on one table each: the others keep their types.
LEMMA TableTypes ==
  ASSUME StoreTypeOK, opening' = opening, ops' \in 0..MaxOps,
         followed' \in Seq(Publisher), cursors' \subseteq Publisher \X Nat,
         releases' \subseteq Release, artifacts' \subseteq Artifact,
         sequences' \in [Publisher -> 0..MaxSequence], subscriptions' \in Seq(Publisher),
         sources' \subseteq CatalogSource, lastId' \in Nat, settings' \in ClientSettings
  PROVE  StoreTypeOK'
  BY DEF StoreTypeOK, opening

LEMMA TablesTyped ==
  ASSUME StoreTypeOK
  PROVE  /\ followed \in Seq(Publisher) /\ cursors \subseteq Publisher \X Nat
         /\ releases \subseteq Release /\ artifacts \subseteq Artifact
         /\ sequences \in [Publisher -> 0..MaxSequence] /\ subscriptions \in Seq(Publisher)
         /\ sources \subseteq CatalogSource /\ lastId \in Nat /\ settings \in ClientSettings
         /\ ops \in 0..MaxOps
  BY DEF StoreTypeOK

LEMMA BegunTypes ==
  ASSUME StoreTypeOK, Begun
  PROVE  opening' = opening /\ ops' \in 0..MaxOps /\ ops \in Nat
  BY MaxOpsAssumption DEF Begun, StoreTypeOK

LEMMA PublisherTableTypes ==
  ASSUME StoreTypeOK, NEW p \in Publisher,
         \/ Follow(p) \/ Unfollow(p) \/ SetCursor(p, ops) \/ Subscribe(p) \/ Unsubscribe(p)
         \/ \E n \in 1..MaxSequence : RecordSequence(p, n)
  PROVE  StoreTypeOK'
<1>1. opening' = opening /\ ops' \in 0..MaxOps /\ ops \in Nat
  BY BegunTypes DEF Follow, Unfollow, SetCursor, Subscribe, Unsubscribe, RecordSequence
<1>2. CASE Follow(p)
  <2>1. followed' \in Seq(Publisher)
    BY <1>2, TablesTyped, FollowKeeps DEF Follow
  <2> QED
    BY <1>1, <1>2, <2>1, TablesTyped, TableTypes DEF Follow
<1>3. CASE Unfollow(p)
  <2>1. followed' \in Seq(Publisher)
    BY <1>3, TablesTyped, WithoutKeeps DEF Unfollow
  <2>2. cursors' \subseteq Publisher \X Nat
    BY <1>3, TablesTyped, Zenon DEF Unfollow
  <2> QED
    BY <1>1, <1>3, <2>1, <2>2, TablesTyped, TableTypes DEF Unfollow
<1>4. CASE SetCursor(p, ops)
  <2>1. cursors' \subseteq Publisher \X Nat
    BY <1>1, <1>4, TablesTyped DEF SetCursor
  <2> QED
    BY <1>1, <1>4, <2>1, TablesTyped, TableTypes DEF SetCursor
<1>5. CASE Subscribe(p)
  <2>1. subscriptions' \in Seq(Publisher)
    BY <1>5, TablesTyped, FollowKeeps DEF Subscribe
  <2> QED
    BY <1>1, <1>5, <2>1, TablesTyped, TableTypes DEF Subscribe
<1>6. CASE Unsubscribe(p)
  <2>1. subscriptions' \in Seq(Publisher)
    BY <1>6, TablesTyped, WithoutKeeps DEF Unsubscribe
  <2> QED
    BY <1>1, <1>6, <2>1, TablesTyped, TableTypes DEF Unsubscribe
<1>7. ASSUME NEW n \in 1..MaxSequence, RecordSequence(p, n) PROVE StoreTypeOK'
  <2>1. sequences' \in [Publisher -> 0..MaxSequence]
    BY <1>7, TablesTyped, MaxSequenceAssumption DEF RecordSequence
  <2> QED
    BY <1>1, <1>7, <2>1, TablesTyped, TableTypes DEF RecordSequence
<1> QED
  BY <1>2, <1>3, <1>4, <1>5, <1>6, <1>7

LEMMA CacheTypes ==
  ASSUME StoreTypeOK,
         \/ \E r \in Release : CacheRelease(r)
         \/ \E a \in Artifact : CacheArtifact(a)
         \/ \E s \in Submitted : SetSettings(s)
  PROVE  StoreTypeOK'
<1>1. opening' = opening /\ ops' \in 0..MaxOps
  BY BegunTypes DEF CacheRelease, CacheArtifact, SetSettings
<1>2. ASSUME NEW r \in Release, CacheRelease(r) PROVE StoreTypeOK'
  <2>1. releases' \subseteq Release
    BY <1>2, TablesTyped DEF CacheRelease, Cached
  <2> QED
    BY <1>1, <1>2, <2>1, TablesTyped, TableTypes DEF CacheRelease
<1>3. ASSUME NEW a \in Artifact, CacheArtifact(a) PROVE StoreTypeOK'
  <2>1. artifacts' \subseteq Artifact
    BY <1>3, TablesTyped DEF CacheArtifact, WithArtifact
  <2> QED
    BY <1>1, <1>3, <2>1, TablesTyped, TableTypes DEF CacheArtifact
<1>4. ASSUME NEW s \in Submitted, SetSettings(s) PROVE StoreTypeOK'
  <2>1. settings' \in ClientSettings
    BY <1>4, SettingsTyped DEF SetSettings
  <2> QED
    BY <1>1, <1>4, <2>1, TablesTyped, TableTypes DEF SetSettings
<1> QED
  BY <1>2, <1>3, <1>4

LEMMA SwitchTyped ==
  ASSUME NEW s \in CatalogSource, NEW enabled \in BOOLEAN
  PROVE  [s EXCEPT !.enabled = enabled] \in CatalogSource
  BY DEF CatalogSource

LEMMA SourceTypes ==
  ASSUME StoreTypeOK,
         \/ \E e \in Endpoint : \E kind \in {"rss", "torznab"}, key \in BOOLEAN : AddSource(e, kind, key)
         \/ \E id : SetSourceEnabled(id, FALSE) \/ RemoveSource(id)
  PROVE  StoreTypeOK'
<1>1. opening' = opening /\ ops' \in 0..MaxOps /\ UNCHANGED rows
  BY BegunTypes DEF AddSource, SetSourceEnabled, RemoveSource
<1> SUFFICES sources' \subseteq CatalogSource /\ lastId' \in Nat
  BY <1>1, TablesTyped, TableTypes DEF rows
<1>2. ASSUME NEW e \in Endpoint, NEW kind \in {"rss", "torznab"}, NEW key \in BOOLEAN, AddSource(e, kind, key)
      PROVE  sources' \subseteq CatalogSource /\ lastId' \in Nat
  <2>1. lastId + 1 \in Nat
    BY TablesTyped
  <2>2. TRUE \in BOOLEAN /\ FALSE \in BOOLEAN
    OBVIOUS
  <2>3. Row(lastId + 1, e, kind, TRUE, FALSE, key) \in CatalogSource
    BY <2>1, <2>2, RowTyped, Zenon
  <2>4. sources' = sources \cup {Row(lastId + 1, e, kind, TRUE, FALSE, key)} /\ lastId' = lastId + 1
    BY <1>2, Zenon DEF AddSource, NewId
  <2>5. sources \subseteq CatalogSource
    BY TablesTyped
  <2> QED
    BY <2>1, <2>3, <2>4, <2>5, Zenon
<1>3. ASSUME NEW id, SetSourceEnabled(id, FALSE)
      PROVE  sources' \subseteq CatalogSource /\ lastId' \in Nat
  <2>1. \A s \in sources : [s EXCEPT !.enabled = FALSE] \in CatalogSource
    BY TablesTyped, SwitchTyped
  <2>2. sources' = {IF s.id = id THEN [s EXCEPT !.enabled = FALSE] ELSE s : s \in sources}
    BY <1>3, Zenon DEF SetSourceEnabled
  <2>3. sources \subseteq CatalogSource
    BY TablesTyped
  <2>4. sources' \subseteq CatalogSource
    BY <2>1, <2>2, <2>3, Zenon
  <2> QED
    BY <1>3, <2>4, TablesTyped DEF SetSourceEnabled
<1>4. ASSUME NEW id, RemoveSource(id) PROVE sources' \subseteq CatalogSource /\ lastId' \in Nat
  <2>1. sources' \subseteq sources /\ lastId' = lastId
    BY <1>4, Zenon DEF RemoveSource
  <2> QED
    BY <2>1, TablesTyped
<1> QED
  BY <1>2, <1>3, <1>4

LEMMA StoreTypesKept == StoreTypeOK /\ UNCHANGED storeVars => StoreTypeOK'
  BY DEF StoreTypeOK, storeVars, opening, rows

LEMMA StoreTypes == StoreTypeOK /\ [StoreNext]_storeVars => StoreTypeOK'
<1> SUFFICES ASSUME StoreTypeOK, StoreNext PROVE StoreTypeOK'
  BY StoreTypesKept
<1>1. ASSUME NEW e \in Endpoint, AddSource(e, "rss", FALSE) PROVE StoreTypeOK'
  BY <1>1, SourceTypes
<1>2. ASSUME NEW id, SetSourceEnabled(id, FALSE) \/ RemoveSource(id) PROVE StoreTypeOK'
  BY <1>2, SourceTypes
<1> QED
  BY <1>1, <1>2, OpeningTypes, PublisherTableTypes, CacheTypes, Zenon DEF StoreNext

\* Every table of the store keeps its columns, whatever is migrated, inserted or removed,
\* and the settings that are stored are those that validate accepts.
THEOREM StoreTypeCorrect == StoreSpec => []StoreTypeOK
  BY StoreInitTypes, StoreTypes, PTL DEF StoreSpec
-----------------------------------------------------------------------------
(* Types of CatalogSearch *)

\* What a command holds: rows of the table and keys, each the endpoint it belongs to.
HoldsKey(r) == r.pc = "insert" \/ (r.pc = "added" /\ r.key # None)
CallTyped(r) ==
    /\ r.pc \in {"idle", "added", "insert", "delete", "removed", "keys", "fetch", "found"}
    /\ r.asked \subseteq CatalogSource
    /\ r.sent \subseteq Endpoint \X Endpoint
    /\ \A k \in r.keys : k.key \in Endpoint
    /\ HoldsKey(r) => r.key \in Endpoint
CallTypes == (\A k \in keys : k.key \in Endpoint) /\ (\A c \in Callers : CallTyped(caller[c]))

\* That the IDs of the keys have been given out is what PairsInv says.
LEMMA CallTypesSuffice == CatalogInv /\ CallTypes => CatalogTypeOK
<1> SUFFICES ASSUME CatalogInv, CallTypes PROVE CatalogTypeOK
  OBVIOUS
<1>1. ASSUME NEW k \in keys PROVE k.id \in 1..lastId
  <2>1. Paired(k.id, k.key)
    BY DEF Paired
  <2> QED
    BY <2>1 DEF CatalogInv, PairsInv
<1> QED
  BY <1>1 DEF CatalogInv, CallersInv, CallTypes, CallTyped, CatalogTypeOK

LEMMA CallTypesStep ==
  ASSUME CatalogInv, CallTypes, NEW c \in Callers, NEW new, CallTyped(new),
         caller' = [caller EXCEPT ![c] = new], \A k \in keys' : k.key \in Endpoint
  PROVE  CallTypes'
<1>1. DOMAIN caller = Callers
  BY DEF CatalogInv, CallersInv
<1>2. caller'[c] = new /\ \A d \in Callers \ {c} : caller'[d] = caller[d]
  BY <1>1
<1> QED
  BY <1>2 DEF CallTypes

\* A command that holds no key and has asked nothing.
LEMMA EarlyTyped ==
  ASSUME NEW r, r.pc \in {"idle", "delete"}, r.asked = {}, r.sent = {}, r.keys = {}
  PROVE  CallTyped(r)
  BY DEF CallTyped, HoldsKey

LEMMA InitCallTypes == CatalogInit => CallTypes
<1> SUFFICES ASSUME CatalogInit PROVE CallTypes
  OBVIOUS
<1>1. keys = {} /\ \A c \in Callers : caller[c] = Idle
  BY DEF CatalogInit, NoCommands
<1>2. CallTyped(Idle)
  BY IdleIsCall, EarlyTyped
<1> QED
  BY <1>1, <1>2 DEF CallTypes

LEMMA GoesTyped ==
  ASSUME CatalogInv, CallTypes, NEW c \in Callers, NEW pc \in {"insert", "removed"}, Goes(c, pc),
         pc = "insert" => caller[c].pc = "added" /\ caller[c].key # None, UNCHANGED keys
  PROVE  CallTypes'
<1> DEFINE new == [caller[c] EXCEPT !.pc = pc]
<1>1. caller' = [caller EXCEPT ![c] = new] /\ IsCall(caller[c]) /\ CallTyped(caller[c])
  BY DEF Goes, CatalogInv, CallersInv, CallTypes
<1>2. /\ new.pc = pc /\ new.asked = caller[c].asked /\ new.sent = caller[c].sent
      /\ new.keys = caller[c].keys /\ new.key = caller[c].key
  BY <1>1, GoesIsCall
<1> HIDE DEF new
<1>3. CallTyped(new)
  BY <1>1, <1>2 DEF CallTyped, HoldsKey
<1> QED
  BY <1>1, <1>3, CallTypesStep DEF CallTypes

LEMMA KeyCommandTypes ==
  ASSUME StoreTypeOK, CatalogInv, CallTypes, NEW c \in Callers,
         \/ \E e \in Endpoint : AddCatalog(c, e, "torznab", TRUE) \/ AddCatalog(c, e, "rss", FALSE)
         \/ \E id : SetKey(c, id) \/ RemoveCatalog(c, id)
  PROVE  CallTypes'
<1>1. UNCHANGED keys
  BY DEF AddCatalog, SetKey, RemoveCatalog
<1>2. ASSUME NEW e \in Endpoint, NEW kind, NEW hasKey \in BOOLEAN, AddCatalog(c, e, kind, hasKey)
      PROVE  CallTypes'
  <2> DEFINE key == IF hasKey THEN e ELSE None
             new == [Idle EXCEPT !.pc = "added", !.id = NewId, !.key = key]
  <2>1. caller' = [caller EXCEPT ![c] = new]
    BY <1>2 DEF AddCatalog
  <2>2. key \in Endpoint \cup {None}
    OBVIOUS
  <2> HIDE DEF key
  <2>3. new.pc = "added" /\ new.key = key /\ new.asked = {} /\ new.sent = {} /\ new.keys = {}
    BY DEF Idle
  <2> HIDE DEF new
  <2>4. CallTyped(new)
    BY <2>2, <2>3 DEF CallTyped, HoldsKey
  <2> QED
    BY <1>1, <2>1, <2>4, CallTypesStep DEF CallTypes
<1>3. ASSUME NEW id, SetKey(c, id) PROVE CallTypes'
  <2> DEFINE e == Source(id).endpoint
             new == [Idle EXCEPT !.pc = "insert", !.id = id, !.key = e]
  <2>1. Source(id) \in sources
    BY <1>3 DEF SetKey, Exists, Source
  <2>2. e \in Endpoint
    BY <2>1, TablesTyped DEF CatalogSource
  <2>3. caller' = [caller EXCEPT ![c] = new]
    BY <1>3 DEF SetKey
  <2> HIDE DEF e
  <2>4. new.pc = "insert" /\ new.key = e /\ new.asked = {} /\ new.sent = {} /\ new.keys = {}
    BY DEF Idle
  <2> HIDE DEF new
  <2>5. CallTyped(new)
    BY <2>2, <2>4 DEF CallTyped, HoldsKey
  <2> QED
    BY <1>1, <2>3, <2>5, CallTypesStep DEF CallTypes
<1>4. ASSUME NEW id, RemoveCatalog(c, id) PROVE CallTypes'
  <2> DEFINE new == [Idle EXCEPT !.pc = "delete", !.id = id]
  <2>1. caller' = [caller EXCEPT ![c] = new]
    BY <1>4 DEF RemoveCatalog
  <2>2. new.pc = "delete" /\ new.asked = {} /\ new.sent = {} /\ new.keys = {}
    BY DEF Idle
  <2> HIDE DEF new
  <2> QED
    BY <1>1, <2>1, <2>2, EarlyTyped, CallTypesStep DEF CallTypes
<1> QED
  BY <1>2, <1>3, <1>4

LEMMA ReturnTypes ==
  ASSUME CatalogInv, CallTypes, NEW c \in Callers,
         AddReadBack(c) \/ InsertKey(c) \/ RemoveKey(c) \/ Delete(c) \/ Display(c)
  PROVE  CallTypes'
<1>1. CallTyped(Idle)
  BY IdleIsCall, EarlyTyped
<1>2. \A k \in keys' : k.key \in Endpoint
  <2>1. CASE InsertKey(c)
    <3>1. keys' \subseteq keys \cup {[id |-> caller[c].id, key |-> caller[c].key]}
      BY <2>1 DEF InsertKey, WithKey
    <3>2. caller[c].key \in Endpoint
      BY <2>1 DEF InsertKey, Calls, CallTypes, CallTyped, HoldsKey
    <3> QED
      BY <3>1, <3>2 DEF CallTypes
  <2>2. CASE keys' \subseteq keys
    BY <2>2 DEF CallTypes
  <2> QED
    BY <2>1, <2>2 DEF AddReadBack, RemoveKey, Delete, Display
<1>3. CASE Returns(c)
  BY <1>1, <1>2, <1>3, CallTypesStep DEF Returns
<1>4. CASE AddReadBack(c) /\ Goes(c, "insert") /\ ~Returns(c)
  BY <1>4, GoesTyped DEF AddReadBack, Calls
<1>5. CASE Delete(c) /\ Goes(c, "removed")
  BY <1>5, GoesTyped DEF Delete
<1> QED
  BY <1>3, <1>4, <1>5 DEF AddReadBack, InsertKey, RemoveKey, Delete, Display

LEMMA SearchTypes ==
  ASSUME StoreTypeOK, CatalogInv, CallTypes, NEW c \in Callers,
         SearchSources(c) \/ SearchKeys(c) \/ Respond(c)
  PROVE  CallTypes'
<1>1. IsCall(caller[c]) /\ CallTyped(caller[c]) /\ UNCHANGED keys
  BY DEF CatalogInv, CallersInv, CallTypes, SearchSources, SearchKeys, Respond
<1>2. CASE SearchSources(c)
  <2> DEFINE on == {s \in sources : s.enabled}
             new == [Idle EXCEPT !.pc = "keys", !.todo = on, !.asked = on]
  <2>1. caller' = [caller EXCEPT ![c] = new]
    BY <1>2 DEF SearchSources
  <2>2. on \subseteq CatalogSource
    BY TablesTyped
  <2> HIDE DEF on
  <2>3. new.pc = "keys" /\ new.asked = on /\ new.sent = {} /\ new.keys = {}
    BY DEF Idle
  <2> HIDE DEF new
  <2>4. CallTyped(new)
    BY <2>2, <2>3 DEF CallTyped, HoldsKey
  <2> QED
    BY <1>1, <2>1, <2>4, CallTypesStep DEF CallTypes
<1>3. CASE SearchKeys(c)
  <2> DEFINE new == [caller[c] EXCEPT !.pc = "fetch", !.keys = keys]
  <2>1. caller' = [caller EXCEPT ![c] = new]
    BY <1>3 DEF SearchKeys
  <2>2. new.pc = "fetch" /\ new.asked = caller[c].asked /\ new.sent = caller[c].sent /\ new.keys = keys
    BY <1>1 DEF IsCall
  <2> HIDE DEF new
  <2>3. CallTyped(new)
    BY <1>1, <2>2 DEF CallTypes, CallTyped, HoldsKey
  <2> QED
    BY <1>1, <2>1, <2>3, CallTypesStep DEF CallTypes
<1>4. CASE Respond(c)
  <2> DEFINE found == Merged(caller[c].found)
             new == [caller[c] EXCEPT !.pc = "found", !.found = found]
  <2>1. caller' = [caller EXCEPT ![c] = new]
    BY <1>4, Zenon DEF Respond
  <2> HIDE DEF found
  <2>2. /\ new.pc = "found" /\ new.asked = caller[c].asked /\ new.sent = caller[c].sent
        /\ new.keys = caller[c].keys
    BY <1>1 DEF IsCall
  <2> HIDE DEF new
  <2>3. CallTyped(new)
    BY <1>1, <2>2 DEF CallTyped, HoldsKey
  <2> QED
    BY <1>1, <2>1, <2>3, CallTypesStep DEF CallTypes
<1> QED
  BY <1>2, <1>3, <1>4

LEMMA FetchTypes ==
  ASSUME CatalogInv, CallTypes, NEW c \in Callers, NEW s \in caller[c].todo,
         FetchOk(c, s) \/ FetchError(c, s)
  PROVE  CallTypes'
<1> DEFINE todo == caller[c].todo \ {s}
           found == caller[c].found \o Items(s)
           failed == caller[c].failed \cup {s.id}
           sent == caller[c].sent \cup ({s.endpoint} \X KeysFor(c, s))
<1>1. /\ IsCall(caller[c]) /\ CallTyped(caller[c]) /\ UNCHANGED keys /\ caller[c].pc = "fetch"
      /\ caller[c].todo \subseteq caller[c].asked
  BY DEF CatalogInv, CallersInv, CallTypes, FetchOk, FetchError, Calls
<1>2. sent \subseteq Endpoint \X Endpoint
  <2>1. s.endpoint \in Endpoint
    BY <1>1 DEF CallTyped, CatalogSource
  <2>2. KeysFor(c, s) \subseteq Endpoint
    BY <1>1 DEF CallTyped, KeysFor
  <2>3. caller[c].sent \subseteq Endpoint \X Endpoint
    BY <1>1 DEF CallTyped
  <2> QED
    BY <2>1, <2>2, <2>3
<1>3. CASE FetchOk(c, s)
  <2> DEFINE new == [caller[c] EXCEPT !.todo = todo, !.found = found, !.sent = sent]
  <2>1. caller' = [caller EXCEPT ![c] = new]
    BY <1>3, Zenon DEF FetchOk
  <2> HIDE DEF todo, found, sent
  <2>2. /\ new.pc = "fetch" /\ new.asked = caller[c].asked /\ new.sent = sent
        /\ new.keys = caller[c].keys
    BY <1>1 DEF IsCall
  <2> HIDE DEF new
  <2>3. CallTyped(new)
    BY <1>1, <1>2, <2>2 DEF CallTyped, HoldsKey
  <2> QED
    BY <1>1, <2>1, <2>3, CallTypesStep DEF CallTypes
<1>4. CASE FetchError(c, s)
  <2> DEFINE new == [caller[c] EXCEPT !.todo = todo, !.failed = failed]
  <2>1. caller' = [caller EXCEPT ![c] = new]
    BY <1>4, Zenon DEF FetchError
  <2> HIDE DEF todo, failed
  <2>2. /\ new.pc = "fetch" /\ new.asked = caller[c].asked /\ new.sent = caller[c].sent
        /\ new.keys = caller[c].keys
    BY <1>1 DEF IsCall
  <2> HIDE DEF new
  <2>3. CallTyped(new)
    BY <1>1, <2>2 DEF CallTyped, HoldsKey
  <2> QED
    BY <1>1, <2>1, <2>3, CallTypesStep DEF CallTypes
<1> QED
  BY <1>3, <1>4

LEMMA CatalogTypes ==
  ASSUME StoreTypeOK, CatalogInv, CallTypes, CatalogNext
  PROVE  StoreTypeOK' /\ CallTypes'
<1>1. ASSUME NEW c \in Callers, NEW id, Enable(c, id, FALSE) PROVE StoreTypeOK' /\ CallTypes'
  BY <1>1, SourceTypes DEF Enable, CallTypes
<1>2. ASSUME NEW c \in Callers, NEW e \in Endpoint,
             AddCatalog(c, e, "torznab", TRUE) \/ AddCatalog(c, e, "rss", FALSE)
      PROVE  StoreTypeOK'
  <2>1. \/ AddSource(e, "torznab", TRUE)
        \/ AddSource(e, "rss", FALSE)
    BY <1>2, Zenon DEF AddCatalog
  <2>2. "torznab" \in {"rss", "torznab"} /\ "rss" \in {"rss", "torznab"} /\ TRUE \in BOOLEAN /\ FALSE \in BOOLEAN
    OBVIOUS
  <2> QED
    BY <2>1, <2>2, SourceTypes, Zenon
<1>3. ASSUME NEW c \in Callers, Delete(c) PROVE StoreTypeOK'
  BY <1>3, SourceTypes, StoreTypesKept, Zenon DEF Delete
<1>4. ASSUME NEW c \in Callers,
             \/ AddReadBack(c) \/ InsertKey(c) \/ RemoveKey(c)
             \/ \E id : SetKey(c, id) \/ RemoveCatalog(c, id)
             \/ SearchSources(c) \/ SearchKeys(c)
             \/ \E s : FetchOk(c, s) \/ FetchError(c, s)
             \/ Respond(c) \/ Display(c)
      PROVE  StoreTypeOK'
  <2>1. UNCHANGED storeVars
    BY <1>4, Zenon DEF AddReadBack, InsertKey, RemoveKey, SetKey, RemoveCatalog, SearchSources,
                       SearchKeys, FetchOk, FetchError, Respond, Display
  <2> QED
    BY <2>1, StoreTypesKept
<1> QED
  BY <1>1, <1>2, <1>3, <1>4, KeyCommandTypes, ReturnTypes, SearchTypes, FetchTypes, Zenon DEF CatalogNext

LEMMA CatalogTypesHold == CatalogSpec => [](StoreTypeOK /\ CallTypes)
<1>1. CatalogInit => StoreTypeOK /\ CallTypes
  BY FreshStoreTypes, InitCallTypes DEF CatalogInit
<1>2. CatalogInv /\ StoreTypeOK /\ CallTypes /\ [CatalogNext]_catalogVars => (StoreTypeOK /\ CallTypes)'
  <2> SUFFICES ASSUME CatalogInv, StoreTypeOK, CallTypes, UNCHANGED catalogVars
               PROVE  StoreTypeOK' /\ CallTypes'
    BY CatalogTypes
  <2> QED
    BY StoreTypesKept DEF catalogVars, commandVars, CallTypes
<1> QED
  BY <1>1, <1>2, CatalogInvHolds, PTL DEF CatalogSpec

\* Commands work on rows of the table and on keys by the IDs of sources, given out or
\* gone, and send keys of endpoints to endpoints only.
THEOREM CatalogTypeCorrect == CatalogSpec => []CatalogTypeOK
  BY CatalogTypesHold, CatalogInvHolds, CallTypesSuffice, PTL
-----------------------------------------------------------------------------
(* Types of Publishing *)

\* The revisions that are to be written are u64 as well: checked_add sees to it.
RevisionsTyped(C) == \A c \in C : c.revision \in 1..MaxRevision
PublishingTypesInv == PublishingTypeOK /\ \A t \in Tasks : RevisionsTyped(task[t].claims)

LEMMA InitPublishingTypes == NoTasks => PublishingTypesInv
  BY MaxCommandsAssumption DEF NoTasks, NoTask, PublishingTypesInv, PublishingTypeOK, RevisionsTyped

\* What a step of the command of t has to show.
LEMMA TaskTypes ==
  ASSUME PublishingTypesInv, NEW t \in Tasks,
         DOMAIN task' = Tasks, \A u \in Tasks \ {t} : task'[u] = task[u],
         task'[t].kind \in {"none", "tags", "release", "sync"}, RevisionsTyped(task'[t].claims),
         publishLock' \in {publishLock, t, None}, signedIn' = signedIn,
         \A p \in Publisher : RevisionsTyped(hostedClaims'[p]), commands' \in 0..MaxCommands
  PROVE  PublishingTypesInv'
  BY DEF PublishingTypesInv, PublishingTypeOK, RevisionsTyped

LEMMA EndTypes ==
  ASSUME PublishingTypesInv, NEW t \in Tasks, Ends(t), signedIn' = signedIn,
         \A p \in Publisher : RevisionsTyped(hostedClaims'[p]), UNCHANGED commands
  PROVE  PublishingTypesInv'
<1>1. DOMAIN task = Tasks /\ commands \in 0..MaxCommands
  BY DEF PublishingTypesInv, PublishingTypeOK
<1>2. task' = [task EXCEPT ![t] = NoTask] /\ publishLock' \in {publishLock, None}
  BY DEF Ends
<1>3. NoTask.kind = "none" /\ NoTask.claims = {}
  BY DEF NoTask
<1>4. task'[t] = NoTask /\ DOMAIN task' = Tasks /\ \A u \in Tasks \ {t} : task'[u] = task[u]
  BY <1>1, <1>2
<1>5. RevisionsTyped({})
  BY DEF RevisionsTyped
<1> QED
  BY <1>1, <1>2, <1>3, <1>4, <1>5, TaskTypes

LEMMA HostedTyped == PublishingTypesInv => \A p \in Publisher : RevisionsTyped(hostedClaims[p])
  BY DEF PublishingTypesInv, PublishingTypeOK, RevisionsTyped

\* A step that leaves the command's kind, and keeps its claims or drops some of them.
LEMMA GoOnTypes ==
  ASSUME PublishingInv, PublishingTypesInv, NEW t \in Tasks,
         DOMAIN task' = Tasks, \A u \in Tasks \ {t} : task'[u] = task[u],
         task'[t].kind \in {task[t].kind, "tags", "release", "sync"},
         task'[t].claims \subseteq task[t].claims,
         publishLock' \in {publishLock, t, None}, signedIn' = signedIn,
         \A p \in Publisher : RevisionsTyped(hostedClaims'[p]), UNCHANGED commands
  PROVE  PublishingTypesInv'
<1>1. task'[t].kind \in {"none", "tags", "release", "sync"} /\ RevisionsTyped(task'[t].claims)
  BY DEF PublishingTypesInv, PublishingTypeOK, RevisionsTyped
<1>2. commands \in 0..MaxCommands
  BY DEF PublishingTypesInv, PublishingTypeOK
<1> QED
  BY <1>1, <1>2, TaskTypes

LEMMA PlacesAreFew ==
  ASSUME NEW tags \in SUBSET Nat, IsFiniteSet(tags), NEW tag \in tags
  PROVE  /\ Place(tag, tags) \in 1..Cardinality(tags)
         /\ Cardinality(tags) \in Nat
<1> DEFINE upto == {other \in tags : other <= tag}
<1>1. Cardinality(upto) <= Cardinality(tags) /\ Cardinality(tags) \in Nat
  BY FS_Subset, FS_CardinalityType
<1>2. Place(tag, tags) \in Nat \ {0}
  BY PlacesAreDistinct
<1> QED
  BY <1>1, <1>2 DEF Place

LEMMA NumberTypes ==
  ASSUME PublishingInv, PublishingTypesInv, NEW t \in Tasks, NumberClaims(t)
  PROVE  PublishingTypesInv'
<1> DEFINE p == task[t].issuer
           tags == task[t].tags
           claim(highest, tag) == TagClaim(p, tag, task[t].at, highest + Place(tag, tags))
<1>1. UNCHANGED <<hostedClaims, commands, signedIn>>
  BY DEF NumberClaims, homeservers
<1>2. PICK highest \in 0..MaxRevision :
        \/ /\ HasRevisions(highest, Cardinality(tags))
           /\ task' = [task EXCEPT ![t].pc = "put", ![t].claims = {claim(highest, tag) : tag \in tags}]
           /\ UNCHANGED publishLock
        \/ Ends(t)
  BY DEF NumberClaims
<1>3. CASE Ends(t)
  BY <1>1, <1>3, EndTypes, HostedTyped
<1>4. CASE /\ HasRevisions(highest, Cardinality(tags))
           /\ task' = [task EXCEPT ![t].pc = "put", ![t].claims = {claim(highest, tag) : tag \in tags}]
           /\ UNCHANGED publishLock
  <2>1. /\ DOMAIN task = Tasks /\ task[t].kind = "tags" /\ tags \in Requests
        /\ DOMAIN task[t] = {"pc", "kind", "issuer", "at", "tags", "todo", "claims", "rest"}
    BY DEF NumberClaims, PublishingInv, TaskInv, CommandInv
  <2>2. ASSUME NEW tag \in tags PROVE claim(highest, tag).revision \in 1..MaxRevision
    <3>1. Place(tag, tags) \in 1..Cardinality(tags) /\ Cardinality(tags) \in Nat
      BY <2>1, RequestsAssumption, PlacesAreFew
    <3>2. highest + Place(tag, tags) \in 1..MaxRevision
      BY <1>4, <3>1, MaxRevisionAssumption DEF HasRevisions
    <3> QED
      BY <3>2 DEF TagClaim
  <2> HIDE DEF claim
  <2>3. /\ DOMAIN task' = Tasks /\ \A u \in Tasks \ {t} : task'[u] = task[u]
        /\ task'[t].kind = "tags" /\ task'[t].claims = {claim(highest, tag) : tag \in tags}
    BY <1>4, <2>1
  <2>4. RevisionsTyped(task'[t].claims)
    BY <2>2, <2>3 DEF RevisionsTyped
  <2>5. commands \in 0..MaxCommands
    BY DEF PublishingTypesInv, PublishingTypeOK
  <2> QED
    BY <1>1, <1>4, <2>3, <2>4, <2>5, HostedTyped, TaskTypes
<1> QED
  BY <1>2, <1>3, <1>4

LEMMA PutTypes ==
  ASSUME PublishingInv, PublishingTypesInv, NEW t \in Tasks, PutClaim(t)
  PROVE  PublishingTypesInv'
<1>1. PICK c \in NextClaim(t) : hostedClaims' = [hostedClaims EXCEPT ![Authority(t)] = @ \cup {c}]
  BY DEF PutClaim
<1>2. c \in task[t].claims /\ DOMAIN hostedClaims = Publisher /\ DOMAIN task = Tasks
      /\ DOMAIN task[t] = {"pc", "kind", "issuer", "at", "tags", "todo", "claims", "rest"}
  BY DEF NextClaim, PublishingInv, RecordsInv, TaskInv, CommandInv
<1>3. \A p \in Publisher : RevisionsTyped(hostedClaims'[p])
  BY <1>1, <1>2 DEF PublishingTypesInv, PublishingTypeOK, RevisionsTyped
<1>4. UNCHANGED <<commands, signedIn>>
  BY DEF PutClaim
<1>5. CASE Ends(t)
  BY <1>3, <1>4, <1>5, EndTypes
<1>6. CASE Steps(t, "cache") /\ UNCHANGED publishLock
  BY <1>2, <1>3, <1>4, <1>6, GoOnTypes DEF Steps
<1> QED
  BY <1>5, <1>6 DEF PutClaim

LEMMA BeginTypes ==
  ASSUME PublishingInv, PublishingTypesInv, NEW t \in Tasks,
         \/ \E tags : Begin(t, "tags", tags)
         \/ Begin(t, "release", {})
         \/ \E following : SyncFollowed(t, following)
  PROVE  PublishingTypesInv'
<1>1. DOMAIN task = Tasks /\ commands \in 0..MaxCommands
  BY DEF PublishingTypesInv, PublishingTypeOK
<1>2. ASSUME NEW kind \in {"tags", "release"}, NEW tags, Begin(t, kind, tags) PROVE PublishingTypesInv'
  <2> DEFINE new == [NoTask EXCEPT !.pc = IF kind = "tags" THEN "lock" ELSE "session",
                                   !.kind = kind, !.at = commands', !.tags = tags]
  <2>1. /\ task' = [task EXCEPT ![t] = new]
        /\ UNCHANGED <<publishLock, signedIn, hostedClaims>>
    BY <1>2 DEF Begin, homeservers
  <2>2. commands' \in 0..MaxCommands
    <3>1. commands < MaxCommands /\ commands' = commands + 1
      BY <1>2, Zenon DEF Begin
    <3> QED
      BY <1>1, <3>1, MaxCommandsAssumption
  <2>3. new.kind = kind /\ new.claims = {}
    BY DEF NoTask
  <2> HIDE DEF new
  <2>4. task'[t] = new /\ DOMAIN task' = Tasks /\ \A u \in Tasks \ {t} : task'[u] = task[u]
    BY <1>1, <2>1
  <2> QED
    BY <2>1, <2>2, <2>3, <2>4, HostedTyped, TaskTypes DEF RevisionsTyped
<1>3. ASSUME NEW following, SyncFollowed(t, following) PROVE PublishingTypesInv'
  <2>1. PICK all :
           /\ task' = [task EXCEPT ![t] = [NoTask EXCEPT !.pc = "releases", !.kind = "sync",
                           !.issuer = First(all), !.rest = all \ {First(all)}]]
    BY <1>3, Zenon DEF SyncFollowed
  <2> DEFINE new == [NoTask EXCEPT !.pc = "releases", !.kind = "sync",
                           !.issuer = First(all), !.rest = all \ {First(all)}]
  <2>2. new.kind = "sync" /\ new.claims = {}
    BY DEF NoTask
  <2>3. task' = [task EXCEPT ![t] = new]
    BY <2>1
  <2> HIDE DEF new
  <2>4. task'[t] = new /\ DOMAIN task' = Tasks /\ \A u \in Tasks \ {t} : task'[u] = task[u]
    BY <1>1, <2>3
  <2>5. UNCHANGED <<publishLock, signedIn, hostedClaims, commands>>
    BY <1>3 DEF SyncFollowed, homeservers
  <2> QED
    BY <1>1, <2>2, <2>4, <2>5, HostedTyped, TaskTypes DEF RevisionsTyped
<1> QED
  BY <1>2, <1>3

LEMMA CommandTypes ==
  ASSUME PublishingInv, PublishingTypesInv, NEW t \in Tasks,
         \/ TakePublishLock(t) \/ CurrentSession(t) \/ SyncReleases(t) \/ ListClaims(t)
         \/ FetchClaim(t) \/ SyncNext(t) \/ CacheClaim(t) \/ Seed(t) \/ PutRelease(t)
         \/ StoreRelease(t) \/ Fail(t)
  PROVE  PublishingTypesInv'
<1>1. /\ DOMAIN task = Tasks
      /\ DOMAIN task[t] = {"pc", "kind", "issuer", "at", "tags", "todo", "claims", "rest"}
  BY DEF PublishingInv, TaskInv, CommandInv
<1>2. UNCHANGED <<hostedClaims, commands, signedIn>>
  BY DEF TakePublishLock, CurrentSession, SyncReleases, ListClaims, FetchClaim, SyncNext, CacheClaim,
         Seed, PutRelease, StoreRelease, Fail, homeservers
<1>3. CASE Ends(t)
  BY <1>2, <1>3, EndTypes, HostedTyped
<1>4. CASE /\ DOMAIN task' = Tasks /\ \A u \in Tasks \ {t} : task'[u] = task[u]
           /\ task'[t].kind = task[t].kind /\ task'[t].claims \subseteq task[t].claims
           /\ publishLock' \in {publishLock, t}
  BY <1>2, <1>4, GoOnTypes, HostedTyped
<1>5. ASSUME NEW pc, Steps(t, pc) PROVE /\ DOMAIN task' = Tasks /\ \A u \in Tasks \ {t} : task'[u] = task[u]
                                        /\ task'[t].kind = task[t].kind /\ task'[t].claims = task[t].claims
  BY <1>1, <1>5 DEF Steps
<1>6. CASE TakePublishLock(t) \/ Seed(t)
  BY <1>4, <1>5, <1>6 DEF TakePublishLock, Seed
<1>7. CASE CurrentSession(t)
  BY <1>1, <1>3, <1>4, <1>7 DEF CurrentSession
<1>8. CASE SyncReleases(t) \/ PutRelease(t)
  BY <1>3, <1>4, <1>5, <1>8, Zenon DEF SyncReleases, PutRelease
<1>9. CASE ListClaims(t)
  <2>1. PICK listed : task' = [task EXCEPT ![t].pc = "fetch", ![t].todo = listed]
    BY <1>9 DEF ListClaims
  <2> QED
    BY <1>1, <1>4, <1>9, <2>1 DEF ListClaims
<1>10. CASE FetchClaim(t)
  <2>1. ASSUME NEW c, UNCHANGED publishLock, task' = [task EXCEPT ![t].todo = @ \ {c}]
        PROVE  PublishingTypesInv'
    BY <1>1, <1>4, <2>1
  <2> QED
    BY <1>3, <1>10, <2>1, Zenon DEF FetchClaim
<1>11. CASE SyncNext(t)
  <2>1. CASE ~Ends(t)
    <3>1. PICK p : task' = [task EXCEPT ![t].pc = "releases", ![t].issuer = p, ![t].rest = @ \ {p}]
      BY <1>11, <2>1, Zenon DEF SyncNext
    <3>2. UNCHANGED publishLock
      BY <1>11, <2>1, Zenon DEF SyncNext
    <3> QED
      BY <1>1, <1>4, <3>1, <3>2
  <2> QED
    BY <1>3, <2>1
<1>12. CASE CacheClaim(t)
  <2>1. CASE ~Ends(t)
    <3>1. PICK c : task' = [task EXCEPT ![t].pc = "put", ![t].claims = @ \ {c}] /\ UNCHANGED publishLock
      BY <1>12, <2>1, Zenon DEF CacheClaim
    <3> QED
      BY <1>1, <1>4, <3>1
  <2> QED
    BY <1>3, <2>1
<1>13. CASE StoreRelease(t) \/ Fail(t)
  BY <1>3, <1>13, Zenon DEF StoreRelease, Fail
<1> QED
  BY <1>6, <1>7, <1>8, <1>9, <1>10, <1>11, <1>12, <1>13

LEMMA PublishingTypes ==
  PublishingInv /\ PublishingTypesInv /\ [PublishingNext]_publishingVars => PublishingTypesInv'
<1> SUFFICES ASSUME PublishingInv, PublishingTypesInv, [PublishingNext]_publishingVars
             PROVE  PublishingTypesInv'
  OBVIOUS
<1>1. CASE UNCHANGED publishingVars
  BY <1>1 DEF publishingVars, taskVars, homeservers, PublishingTypesInv, PublishingTypeOK
<1>2. ASSUME NEW p \in Publisher \cup {None}, SessionChanges(p) PROVE PublishingTypesInv'
  BY <1>2 DEF SessionChanges, homeservers, PublishingTypesInv, PublishingTypeOK
<1>3. ASSUME NEW storeLost \in BOOLEAN, Restart(storeLost) PROVE PublishingTypesInv'
  <2>1. /\ task' = [t \in Tasks |-> NoTask] /\ publishLock' = None /\ signedIn' = None
        /\ UNCHANGED <<hostedClaims, commands>>
    BY <1>3 DEF Restart, homeservers
  <2>2. NoTask.kind = "none" /\ NoTask.claims = {}
    BY DEF NoTask
  <2> QED
    BY <2>1, <2>2 DEF PublishingTypesInv, PublishingTypeOK, RevisionsTyped
<1> QED
  BY <1>1, <1>2, <1>3, BeginTypes, CommandTypes, NumberTypes, PutTypes, Zenon DEF PublishingNext

\* Every revision that is published fits a u64, from 1, whatever the highest known one is.
THEOREM PublishingTypeCorrect == PublishingSpec => []PublishingTypeOK
<1>1. PublishingInit => PublishingInv /\ PublishingTypesInv
  BY PublishingInit_Inv, InitPublishingTypes DEF PublishingInit
<1>2. PublishingTypesInv => PublishingTypeOK
  BY DEF PublishingTypesInv
<1> QED
  BY <1>1, <1>2, PublishingNext_Inv, PublishingTypes, PTL DEF PublishingSpec
-----------------------------------------------------------------------------
(* Types of Discovery *)

\* A client that goes on by what it received never asks beyond the largest offset: a page
\* ends with the last record it may get.
LEMMA PageWithinOffset ==
  ASSUME PagingInv, reader.offset <= MaxOffset
  PROVE  reader.offset + Cardinality(Page(reader.offset)) \in 0..MaxOffset
<1> DEFINE page == Page(reader.offset)
           found == Found(releases)
           from == IF reader.offset < MaxOffset THEN reader.offset ELSE MaxOffset
           limit == IF Asked < 1 THEN 1 ELSE IF Asked > MaxPage THEN MaxPage ELSE Asked
<1>1. reader.offset \in Nat /\ MaxOffset \in Nat /\ from = reader.offset /\ limit \in Nat
  BY LimitsAssumption DEF PagingInv
<1>2. page = {r \in found : Position(found, r) \in from..(from + limit - 1)}
  BY Zenon DEF Page, Cut
<1>3. Ordered(found) /\ \A r \in found : Position(found, r) \in Nat /\ Position(found, r) < MaxOffset
  BY FoundIsOrdered DEF PagingInv
<1> HIDE DEF page, found, from, limit
<1>4. page \in SUBSET found
  BY <1>2
<1>5. \A r \in page : Position(found, r) \in from..(from + (MaxOffset - from) - 1)
  BY <1>1, <1>2, <1>3
<1>6. MaxOffset - from \in Nat /\ from \in Nat
  BY <1>1
<1>7. Cardinality(page) \in Nat /\ Cardinality(page) <= MaxOffset - from
  BY <1>3, <1>4, <1>5, <1>6, FewWithin
<1> QED
  BY <1>1, <1>7 DEF page

ServiceTypes ==
    /\ puts \in 0..MaxPuts
    /\ \A t \in Refreshes : refresh[t].pc \in {"idle", "get", "check"}
    /\ reader.pc \in {"idle", "paging", "done"} /\ reader.offset \in 0..MaxOffset

LEMMA InitServiceTypes == NoRequests => ServiceTypes
  BY MaxPutsAssumption, LimitsAssumption DEF NoRequests, NoRefresh, NoReader, ServiceTypes

LEMMA ServiceTypesSuffice == PagingInv /\ ServiceTypes => DiscoveryTypeOK
  BY DEF PagingInv, ServiceTypes, DiscoveryTypeOK

LEMMA RefreshTypes ==
  ASSUME DiscoveryInv, PagingInv, ServiceTypes, NEW t \in Refreshes,
         \/ \E p : RefreshList(t, p)
         \/ RefreshGet(t) \/ RefreshFails(t) \/ RefreshCache(t) \/ RefreshRefuses(t)
         \/ RefreshFollow(t)
  PROVE  ServiceTypes'
<1>1. DOMAIN refresh = Refreshes /\ DOMAIN refresh[t] = {"pc", "publisher", "todo", "listed", "got"}
  BY DEF DiscoveryInv, RefreshInv
<1>2. \A u \in Refreshes : refresh'[u].pc \in {"idle", "get", "check"}
  <2>1. ASSUME NEW new, refresh' = [refresh EXCEPT ![t] = new], new.pc \in {"idle", "get", "check"}
        PROVE  \A u \in Refreshes : refresh'[u].pc \in {"idle", "get", "check"}
    BY <1>1, <2>1 DEF ServiceTypes
  <2>2. CASE \E p : RefreshList(t, p)
    <3>1. PICK p, listed : refresh' = [refresh EXCEPT ![t] =
             [pc |-> "get", publisher |-> p, todo |-> listed, listed |-> listed, got |-> None]]
      BY <2>2 DEF RefreshList
    <3> QED
      BY <2>1, <3>1
  <2>3. CASE RefreshGet(t)
    <3>1. PICK r : refresh' = [refresh EXCEPT ![t].pc = "check", ![t].got = r, ![t].todo = @ \ {r.id}]
      BY <2>3, Zenon DEF RefreshGet
    <3> QED
      BY <1>1, <3>1 DEF ServiceTypes
  <2>4. CASE RefreshCache(t)
    BY <1>1, <2>4 DEF RefreshCache, ServiceTypes
  <2>5. CASE Answers(t)
    BY <2>1, <2>5 DEF Answers, NoRefresh
  <2> QED
    BY <2>2, <2>3, <2>4, <2>5 DEF RefreshFails, RefreshRefuses, RefreshFollow
<1>3. UNCHANGED puts
  BY DEF RefreshList, RefreshGet, RefreshFails, RefreshCache, RefreshRefuses, RefreshFollow
<1>4. reader'.pc = reader.pc /\ reader'.offset = reader.offset
  <2>1. CASE reader' = reader
    BY <2>1
  <2>2. CASE reader' = Observed(releases')
    BY <2>2 DEF Observed, PagingInv
  <2> QED
    BY <2>1, <2>2 DEF RefreshList, RefreshGet, RefreshFails, RefreshCache, RefreshRefuses, RefreshFollow
<1> QED
  BY <1>2, <1>3, <1>4 DEF ServiceTypes

LEMMA ReaderTypes ==
  ASSUME PagingInv, ServiceTypes, StartPaging \/ NextPage
  PROVE  ServiceTypes'
<1>1. UNCHANGED <<puts, refresh>>
  BY DEF StartPaging, NextPage
<1>2. CASE StartPaging
  <2>1. reader'.pc = "paging" /\ reader'.offset = 0
    BY <1>2 DEF StartPaging, NoReader
  <2> QED
    BY <1>1, <2>1, LimitsAssumption DEF ServiceTypes
<1>3. CASE NextPage
  <2> DEFINE offset == reader.offset + Cardinality(Page(reader.offset))
  <2>1. offset \in 0..MaxOffset
    BY PageWithinOffset DEF ServiceTypes
  <2>2. DOMAIN reader = {"pc", "offset", "seen", "stays", "edited"} /\ reader.pc = "paging"
    BY <1>3 DEF PagingInv, NextPage
  <2>3. reader'.offset = offset /\ reader'.pc \in {"paging", "done"}
    <3>1. PICK pc \in {"paging", "done"} : \E seen :
             reader' = [reader EXCEPT !.offset = offset, !.seen = seen, !.pc = pc]
      BY <1>3, <2>2 DEF NextPage
    <3> HIDE DEF offset
    <3> QED
      BY <2>2, <3>1
  <2> QED
    BY <1>1, <2>1, <2>3 DEF ServiceTypes
<1> QED
  BY <1>2, <1>3

LEMMA DiscoveryTypes ==
  DiscoveryInv /\ PagingInv /\ ServiceTypes /\ [DiscoveryNext]_discoveryVars => ServiceTypes'
<1> SUFFICES ASSUME DiscoveryInv, PagingInv, ServiceTypes, [DiscoveryNext]_discoveryVars
             PROVE  ServiceTypes'
  OBVIOUS
<1>1. CASE UNCHANGED discoveryVars
  BY <1>1 DEF discoveryVars, requestVars, ServiceTypes
<1>2. ASSUME NEW p, NEW r, Put(p, r) PROVE ServiceTypes'
  <2>1. puts < MaxPuts /\ puts' = puts + 1 /\ UNCHANGED <<refresh, reader>>
    BY <1>2, Zenon DEF Put
  <2> QED
    BY <2>1, MaxPutsAssumption DEF ServiceTypes
<1> QED
  BY <1>1, <1>2, RefreshTypes, ReaderTypes, Zenon DEF DiscoveryNext

\* The store of the service: a refresh caches a release, or follows a publisher.
LEMMA DiscoveryStoreTypes ==
  ASSUME StoreTypeOK, DiscoveryInv, PagingInv, DiscoveryNext
  PROVE  StoreTypeOK'
<1>1. ASSUME NEW t \in Refreshes, RefreshCache(t) PROVE StoreTypeOK'
  <2>1. /\ opening' = opening
        /\ UNCHANGED <<followed, cursors, artifacts, sequences, subscriptions, settings, sources, lastId, ops>>
        /\ releases' = Cached(releases, refresh[t].got) /\ refresh[t].pc = "check"
    BY <1>1 DEF RefreshCache, RefreshAt
  <2>2. releases' \subseteq Release
    BY <2>1, TablesTyped DEF PagingInv, Cached
  <2> QED
    BY <2>1, <2>2, TablesTyped, TableTypes
<1>2. ASSUME NEW t \in Refreshes, RefreshFollow(t) PROVE StoreTypeOK'
  <2>1. /\ opening' = opening
        /\ UNCHANGED <<cursors, releases, artifacts, sequences, subscriptions, settings, sources, lastId, ops>>
    BY <1>2 DEF RefreshFollow
  <2>2. refresh[t].publisher \in Publisher
    BY <1>2 DEF DiscoveryInv, RefreshInv, RefreshFollow, RefreshAt
  <2>3. followed' \in Seq(Publisher)
    BY <1>2, <2>2, TablesTyped, FollowKeeps DEF RefreshFollow
  <2> QED
    BY <2>1, <2>3, TablesTyped, TableTypes
<1>3. CASE UNCHANGED storeVars
  BY <1>3, StoreTypesKept
<1> QED
  BY <1>1, <1>2, <1>3 DEF DiscoveryNext, Put, RefreshList, RefreshGet, RefreshFails, RefreshRefuses,
                          StartPaging, NextPage

\* A client never asks beyond MAX_OFFSET, though it goes on by what it received, and what
\* is hosted are records.
THEOREM DiscoveryTypeCorrect == DiscoverySpec => []DiscoveryTypeOK
<1>1. DiscoveryInit => DiscoveryInv /\ PagingInv /\ ServiceTypes
  BY DiscoveryInit_Inv, DiscoveryInit_Paging, InitServiceTypes DEF DiscoveryInit
<1> QED
  BY <1>1, DiscoveryNext_Inv, DiscoveryNext_Paging, DiscoveryTypes, ServiceTypesSuffice, PTL DEF DiscoverySpec
=============================================================================
