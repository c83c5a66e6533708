----------------------------- MODULE SwarmStore -----------------------------
(***************************************************************************)
(* The SQLite store of crates/swarm-store: opening and migrating the       *)
(* database file, and the operations on its tables. Desktop, discovery and *)
(* seeder each open a file of their own.                                   *)
(*                                                                         *)
(* One connection behind a mutex: an operation is one statement or one     *)
(* transaction, hence one step. Opening is several transactions, and the   *)
(* process may die between any two steps; the file survives. A later start *)
(* may be that of a newer build, which ships more presets.                 *)
(***************************************************************************)
EXTENDS Integers, FiniteSets, Sequences, SequencesExt

CONSTANTS
    Publisher,    \* publisher identities
    Release,      \* validated releases: [publisher, id, at, body]
    Artifact,     \* validated catalogue artifacts: [table, id, issuer, revision]
    MaxSequence,  \* largest authority sequence
    Endpoint,     \* catalogue endpoints
    Presets,      \* Presets[b]: the endpoints built into build b, in order
    MaxSources,   \* MAX_SOURCES
    MaxLimit,     \* MAX_LIMIT_KBPS
    MaxPort,      \* the largest port number
    None,         \* an absent option
    Submitted,    \* the client settings that are submitted
    MaxOps        \* bound of the model: operations on the open store

ASSUME PresetsAssumption ==
    /\ Presets \in Seq(Seq(Endpoint)) \ {<<>>}
    /\ \A b \in DOMAIN Presets : \A i, j \in DOMAIN Presets[b] : Presets[b][i] = Presets[b][j] => i = j
\* migrate_v3 inserts the first preset.
ASSUME FirstPresetAssumption == Presets[1] # <<>>
ASSUME MaxSequenceAssumption == MaxSequence \in Nat
ASSUME MaxSourcesAssumption == MaxSources \in Nat
ASSUME MaxLimitAssumption == MaxLimit \in Nat
ASSUME MaxOpsAssumption == MaxOps \in Nat
ASSUME MaxPortAssumption == MaxPort \in Nat
ASSUME NoneAssumption == None \notin Int
ASSUME SubmittedAssumption ==
    Submitted \subseteq [dir : {None, "blank", "path"}, network : BOOLEAN,
                         limit : {None} \cup Nat, port : {None} \cup 0..MaxPort]

VARIABLES
    process,       \* where opening the store is: down, migrating, presets, open
    build,         \* the build that last opened the file
    filling,       \* presets: the next one to insert
    version,       \* PRAGMA user_version
    tables,        \* tables that exist
    followed,      \* followed_publishers, in follow order
    cursors,       \* event_cursors, as <<publisher, cursor>>
    releases,      \* release_cache
    artifacts,     \* tag_claims, collections, tombstones, moderation_decisions, blocklists
    sequences,     \* authority_sequences: 0 for no row
    subscriptions, \* blocklist_subscriptions, in order
    sources,       \* catalog_sources
    lastId,        \* sqlite_sequence of catalog_sources (AUTOINCREMENT)
    settings,      \* client_settings, the row with id 1
    ops            \* operations so far

opening == <<process, build, filling, version, tables>>
rows == <<followed, cursors, releases, artifacts, sequences, subscriptions, settings>>
storeVars == <<opening, rows, sources, lastId, ops>>

CurrentVersion == 5
\* The tables each migration creates; v5 only marks the version.
Created == << {"followed_publishers", "release_cache", "event_cursors"},
              {"tag_claims", "collections", "tombstones", "moderation_decisions",
               "blocklists", "authority_sequences", "blocklist_subscriptions"},
              {"catalog_sources"}, {"client_settings"}, {} >>
Schema(v) == UNION {Created[i] : i \in 1..v}

CatalogSource == [id : Nat, endpoint : Endpoint, kind : {"rss", "torznab"},
                  enabled : BOOLEAN, builtIn : BOOLEAN, requiresKey : BOOLEAN]
Row(id, e, kind, enabled, builtIn, requiresKey) ==
    [id |-> id, endpoint |-> e, kind |-> kind, enabled |-> enabled,
     builtIn |-> builtIn, requiresKey |-> requiresKey]
ClientSettings == [dir : {None, "path"}, network : BOOLEAN,
                   limit : {None} \cup 1..MaxLimit, port : {None} \cup 1..MaxPort]
DefaultSettings == [dir |-> None, network |-> TRUE, limit |-> None, port |-> None]

StoreTypeOK ==
    /\ process \in {"down", "migrating", "presets", "open"}
    /\ build \in 1..Len(Presets) /\ filling \in Nat \ {0}
    /\ version \in 0..(CurrentVersion + 1) /\ tables \subseteq Schema(CurrentVersion)
    /\ followed \in Seq(Publisher) /\ cursors \subseteq Publisher \X Nat
    /\ releases \subseteq Release /\ artifacts \subseteq Artifact
    /\ sequences \in [Publisher -> 0..MaxSequence]
    /\ subscriptions \in Seq(Publisher)
    /\ sources \subseteq CatalogSource /\ lastId \in Nat
    /\ settings \in ClientSettings /\ ops \in 0..MaxOps

\* A new file, or one that a newer program has migrated further.
StoreInit ==
    /\ process = "down" /\ build = 1 /\ filling = 1 /\ ops = 0
    /\ version \in {0, CurrentVersion + 1}
    /\ tables = IF version = 0 THEN {} ELSE Schema(CurrentVersion)
    /\ followed = <<>> /\ cursors = {} /\ releases = {} /\ artifacts = {}
    /\ sequences = [p \in Publisher |-> 0]
    /\ subscriptions = <<>> /\ sources = {} /\ lastId = 0
    /\ settings = DefaultSettings

\* A store that build 1 has just created and opened.
FreshStore ==
    /\ process = "open" /\ build = 1 /\ filling = 1 + Len(Presets[1]) /\ ops = 0
    /\ version = CurrentVersion /\ tables = Schema(CurrentVersion)
    /\ followed = <<>> /\ cursors = {} /\ releases = {} /\ artifacts = {}
    /\ sequences = [p \in Publisher |-> 0]
    /\ subscriptions = <<>>
    /\ sources = {Row(i, Presets[1][i], "rss", i = 1, TRUE, FALSE) : i \in 1..Len(Presets[1])}
    /\ lastId = Len(Presets[1])
    /\ settings = DefaultSettings
-----------------------------------------------------------------------------
(* Store::open *)

\* from_connection and the version check of migrate.
Open(b) ==
    /\ process = "down" /\ b >= build
    /\ version <= CurrentVersion
    /\ process' = "migrating" /\ build' = b
    /\ UNCHANGED <<filling, version, tables, rows, sources, lastId, ops>>

HasEndpoint(e) == \E s \in sources : s.endpoint = e

\* migrate_v1 to migrate_v5, one transaction each: the tables (v3 with its first
\* preset, v4 with the default settings) and the version. CREATE TABLE fails when
\* the table exists. Defect: the version is set by a statement of its own.
MigrateUnversioned ==
    /\ process = "migrating" /\ version < CurrentVersion
    /\ \/ /\ Created[version + 1] \cap tables = {}
          /\ tables' = tables \cup Created[version + 1] /\ UNCHANGED version
       \/ /\ Created[version + 1] \subseteq tables
          /\ version' = version + 1 /\ UNCHANGED tables
    /\ UNCHANGED <<process, build, filling, rows, sources, lastId, ops>>
Migrate ==
    /\ process = "migrating" /\ version < CurrentVersion
    /\ Created[version + 1] \cap tables = {}
    /\ tables' = tables \cup Created[version + 1]
    /\ version' = version + 1
    /\ IF version' = 3
         THEN /\ sources' = {Row(1, Presets[1][1], "rss", TRUE, TRUE, FALSE)}
              /\ lastId' = 1
         ELSE UNCHANGED <<sources, lastId>>
    /\ UNCHANGED <<process, build, filling, rows, ops>>

Migrated ==
    /\ process = "migrating" /\ version = CurrentVersion
    /\ process' = "presets" /\ filling' = 1
    /\ UNCHANGED <<build, version, tables, rows, sources, lastId, ops>>

\* ensure_built_in_rss_presets: one INSERT ... WHERE NOT EXISTS per preset. Defect:
\* INSERT OR REPLACE, which takes the row of a user who added the feed first.
ReplacePreset ==
    LET e == Presets[build][filling] IN
    /\ process = "presets" /\ filling <= Len(Presets[build])
    /\ sources' = {s \in sources : s.endpoint # e}
                    \cup {Row(lastId + 1, e, "rss", filling = 1, TRUE, FALSE)}
    /\ lastId' = lastId + 1
    /\ filling' = filling + 1
    /\ UNCHANGED <<process, build, version, tables, rows, ops>>
InsertPreset ==
    LET e == Presets[build][filling] IN
    /\ process = "presets" /\ filling <= Len(Presets[build])
    /\ IF HasEndpoint(e)
         THEN UNCHANGED <<sources, lastId>>
         ELSE /\ sources' = sources \cup {Row(lastId + 1, e, "rss", filling = 1, TRUE, FALSE)}
              /\ lastId' = lastId + 1
    /\ filling' = filling + 1
    /\ UNCHANGED <<process, build, version, tables, rows, ops>>

Opened ==
    /\ process = "presets" /\ filling > Len(Presets[build])
    /\ process' = "open"
    /\ UNCHANGED <<build, filling, version, tables, rows, sources, lastId, ops>>

\* The process ends, in any state.
Exit ==
    /\ process # "down"
    /\ process' = "down"
    /\ UNCHANGED <<build, filling, version, tables, rows, sources, lastId, ops>>
-----------------------------------------------------------------------------
(* Operations *)

Begun == process = "open" /\ ops < MaxOps /\ ops' = ops + 1 /\ UNCHANGED opening

Follow(p) ==
    /\ Begun
    /\ followed' = IF p \in ToSet(followed) THEN followed ELSE Append(followed, p)
    /\ UNCHANGED <<cursors, releases, artifacts, sequences, subscriptions, settings, sources, lastId>>

\* DELETE by primary key.
Without(list, p) ==
    IF p \in ToSet(list) THEN RemoveAt(list, CHOOSE i \in DOMAIN list : list[i] = p) ELSE list

\* One transaction; the cached releases stay.
Unfollow(p) ==
    /\ Begun
    /\ followed' = Without(followed, p)
    /\ cursors' = {c \in cursors : c[1] # p}
    /\ UNCHANGED <<releases, artifacts, sequences, subscriptions, settings, sources, lastId>>

\* set_cursor: the foreign key refuses a publisher who is not followed (foreign_keys
\* is switched on for the connection before anything else). Defect: it is not.
MayHaveAnyCursor(p) == TRUE
MayHaveCursor(p) == p \in ToSet(followed)
SetCursor(p, c) ==
    /\ Begun
    /\ MayHaveCursor(p)
    /\ cursors' = {d \in cursors : d[1] # p} \cup {<<p, c>>}
    /\ UNCHANGED <<followed, releases, artifacts, sequences, subscriptions, settings, sources, lastId>>

\* cache_release: insert or replace by publisher and release ID.
Cached(cache, r) == {x \in cache : <<x.publisher, x.id>> # <<r.publisher, r.id>>} \cup {r}
CacheRelease(r) ==
    /\ Begun
    /\ releases' = Cached(releases, r)
    /\ UNCHANGED <<followed, cursors, artifacts, sequences, subscriptions, settings, sources, lastId>>

\* cache_tag_claim, cache_collection, cache_tombstone, cache_moderation_decision and
\* cache_blocklist: an ID that is there stays as it is.
WithArtifact(known, a) ==
    IF \E x \in known : <<x.table, x.id>> = <<a.table, a.id>> THEN known ELSE known \cup {a}
CacheArtifact(a) ==
    /\ Begun
    /\ artifacts' = WithArtifact(artifacts, a)
    /\ UNCHANGED <<followed, cursors, releases, sequences, subscriptions, settings, sources, lastId>>

\* record_authority_sequence: only if it advances the stored one.
RecordSequence(p, n) ==
    /\ Begun
    /\ n > 0
    /\ sequences' = IF n > sequences[p] THEN [sequences EXCEPT ![p] = n] ELSE sequences
    /\ UNCHANGED <<followed, cursors, releases, artifacts, subscriptions, settings, sources, lastId>>

Subscribe(p) ==
    /\ Begun
    /\ subscriptions' = IF p \in ToSet(subscriptions) THEN subscriptions ELSE Append(subscriptions, p)
    /\ UNCHANGED <<followed, cursors, releases, artifacts, sequences, settings, sources, lastId>>
Unsubscribe(p) ==
    /\ Begun
    /\ subscriptions' = Without(subscriptions, p)
    /\ UNCHANGED <<followed, cursors, releases, artifacts, sequences, settings, sources, lastId>>

\* ClientSettings::normalized and validate. Defect: no upper limit.
Normalized(s) == [s EXCEPT !.dir = IF s.dir = "blank" THEN None ELSE s.dir,
                           !.limit = IF s.limit = 0 THEN None ELSE s.limit]
PositiveSettings(s) == s.port # 0 /\ s.dir # "blank"
ValidSettings(s) == s.port # 0 /\ s.dir # "blank" /\ (s.limit # None => s.limit <= MaxLimit)
SetSettings(s) ==
    /\ Begun
    /\ ValidSettings(Normalized(s))
    /\ settings' = Normalized(s)
    /\ UNCHANGED <<followed, cursors, releases, artifacts, sequences, subscriptions, sources, lastId>>

\* add_catalog_source, its transaction: the limit, and one row per endpoint.
\* AUTOINCREMENT never gives out an ID again; a plain rowid (the defect) is one more
\* than the largest in the table.
MayAdd(e) == Cardinality(sources) < MaxSources /\ ~HasEndpoint(e)
PlainRowId == IF sources = {} THEN 1 ELSE 1 + CHOOSE i \in 1..lastId :
                  /\ \E s \in sources : s.id = i
                  /\ \A s \in sources : s.id <= i
NewId == lastId + 1
AddSource(e, kind, requiresKey) ==
    /\ Begun
    /\ MayAdd(e)
    /\ sources' = sources \cup {Row(NewId, e, kind, TRUE, FALSE, requiresKey)}
    /\ lastId' = NewId
    /\ UNCHANGED rows

SetSourceEnabled(id, enabled) ==
    /\ Begun
    /\ sources' = {IF s.id = id THEN [s EXCEPT !.enabled = enabled] ELSE s : s \in sources}
    /\ UNCHANGED <<rows, lastId>>

\* remove_catalog_source: a built-in is refused.
RemoveSource(id) ==
    /\ Begun
    /\ \E s \in sources : s.id = id /\ ~s.builtIn
    /\ sources' = {s \in sources : s.id # id}
    /\ UNCHANGED <<rows, lastId>>

StoreNext ==
    \/ \E b \in 1..Len(Presets) : Open(b)
    \/ Migrate \/ Migrated \/ InsertPreset \/ Opened \/ Exit
    \/ \E p \in Publisher :
          \/ Follow(p) \/ Unfollow(p) \/ SetCursor(p, ops)
          \/ \E n \in 1..MaxSequence : RecordSequence(p, n)
          \/ Subscribe(p) \/ Unsubscribe(p)
    \/ \E r \in Release : CacheRelease(r)
    \/ \E a \in Artifact : CacheArtifact(a)
    \/ \E s \in Submitted : SetSettings(s)
    \/ \E e \in Endpoint : AddSource(e, "rss", FALSE)
    \/ \E id \in 1..lastId : SetSourceEnabled(id, FALSE) \/ RemoveSource(id)

StoreSpec == StoreInit /\ [][StoreNext]_storeVars
-----------------------------------------------------------------------------
(* Reads *)

\* followed_publishers, releases_for and all_releases: validated again on the way
\* out; newest first, ties by publisher and release ID.
ReleasesFor(p) == {r \in releases : r.publisher = p}
Newer(r, s) == r.at > s.at \/ (r.at = s.at /\ r.rank < s.rank)
Position(R, r) == Cardinality({s \in R : Newer(s, r)})
Newest(R, limit) == {r \in R : Position(R, r) < limit}
ClaimsOf(issuer) == {a \in artifacts : a.table = "tag_claims" /\ a.issuer = issuer}
-----------------------------------------------------------------------------
(* Properties *)

\* A process may die anywhere in migrate: the tables that exist are those of the
\* version, so that no CREATE TABLE of a later start fails; a store that opens has
\* every table, and has met or inserted every preset of its build.
OpensComplete ==
    /\ version <= CurrentVersion => tables = Schema(version)
    /\ process \in {"presets", "open"} => version = CurrentVersion
    /\ process = "presets" => \A i \in 1..(filling - 1) : HasEndpoint(Presets[build][i])

\* event_cursors holds cursors of followed publishers only, whatever the order of
\* set_cursor, unfollow and restarts (the foreign key).
CursorsOfFollowed == \A c \in cursors : c[1] \in ToSet(followed)
StoreIntact == OpensComplete /\ CursorsOfFollowed

\* No step, restart or upgrade forgets: cached releases and artifacts stay, sequences
\* and the version do not go back, a source goes only when it is the user's own and
\* is removed as such (never replaced by a preset), and no ID is given out twice.
ForgetsNothing ==
    /\ version' >= version
    /\ \A r \in releases : \E x \in releases' : x.publisher = r.publisher /\ x.id = r.id
    /\ artifacts \subseteq artifacts'
    /\ \A p \in Publisher : sequences'[p] >= sequences[p]
    /\ \A s \in sources :
          \/ \E x \in sources' : x.id = s.id /\ x.endpoint = s.endpoint /\ x.builtIn = s.builtIn
          \/ ~s.builtIn /\ ~HasEndpoint(s.endpoint)'
    /\ \A x \in sources' : x.id > lastId \/ \E s \in sources : s.id = x.id
NothingIsForgotten == [][ForgetsNothing]_storeVars
=============================================================================
