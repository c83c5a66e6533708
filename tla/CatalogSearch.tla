--------------------------- MODULE CatalogSearch ---------------------------
(***************************************************************************)
(* External catalogues of the desktop application: the commands that add   *)
(* and remove sources, set their API keys and search them                  *)
(* (apps/desktop/src-tauri), over the source table of SwarmStore. Keys are *)
(* kept in memory only, by source ID, under a lock of their own, so every  *)
(* command works on the two in separate steps, and commands interleave.    *)
(***************************************************************************)
EXTENDS SwarmStore

CONSTANTS
    Callers,       \* commands that may be in progress together
    Feed,          \* Feed[e]: what endpoint e answers, items [title, hash, matches]
    SearchLimit,   \* limit of a search
    MaxResults     \* catalog_client::MAX_RESULTS

ASSUME FeedAssumption ==
    Feed \in [Endpoint -> Seq([title : Nat, hash : Nat, matches : BOOLEAN])]
ASSUME LimitAssumption == SearchLimit \in Nat /\ MaxResults \in Nat

VARIABLES
    keys,     \* catalog_api_keys, as [id, key]; a key is the endpoint it belongs to
    caller    \* the command each caller is in; sent: <<endpoint, key>> of its requests

commandVars == <<keys, caller>>
catalogVars == <<storeVars, commandVars>>

Idle == [pc |-> "idle", id |-> 0, key |-> None, todo |-> {}, keys |-> {}, asked |-> {},
         found |-> <<>>, failed |-> {}, sent |-> {}]

CatalogTypeOK ==
    /\ \A k \in keys : k.id \in 1..lastId /\ k.key \in Endpoint
    /\ \A c \in Callers : /\ caller[c].pc \in {"idle", "added", "insert", "delete", "removed",
                                               "keys", "fetch", "found"}
                          /\ caller[c].todo \subseteq caller[c].asked
                          /\ caller[c].asked \subseteq CatalogSource
                          /\ caller[c].sent \subseteq Endpoint \X Endpoint

NoCommands ==
    /\ keys = {}
    /\ caller = [c \in Callers |-> Idle]
CatalogInit == FreshStore /\ NoCommands

Calls(c, pc) == caller[c].pc = pc
Goes(c, pc) == caller' = [caller EXCEPT ![c].pc = pc]
Returns(c) == caller' = [caller EXCEPT ![c] = Idle]
Source(id) == CHOOSE s \in sources : s.id = id
Exists(id) == \E s \in sources : s.id = id
WithKey(id, key) == {k \in keys : k.id # id} \cup {[id |-> id, key |-> key]}
-----------------------------------------------------------------------------
\* add_external_catalog_source (add_rss_feed without a key): the transaction of
\* add_catalog_source. A key makes the source require one; RSS takes none.
AddCatalog(c, e, kind, hasKey) ==
    /\ Calls(c, "idle")
    /\ ~(kind = "rss" /\ hasKey)
    /\ AddSource(e, kind, hasKey)
    /\ caller' = [caller EXCEPT ![c] =
                    [Idle EXCEPT !.pc = "added", !.id = NewId, !.key = IF hasKey THEN e ELSE None]]
    /\ UNCHANGED keys

\* It reads the row back, which fails if the row was removed meanwhile.
AddReadBack(c) ==
    /\ Calls(c, "added")
    /\ IF Exists(caller[c].id) /\ caller[c].key # None THEN Goes(c, "insert") ELSE Returns(c)
    /\ UNCHANGED <<storeVars, keys>>

\* set_external_catalog_api_key: the source is looked up first,
SetKey(c, id) ==
    /\ Calls(c, "idle")
    /\ Exists(id) /\ Source(id).kind = "torznab"
    /\ caller' = [caller EXCEPT ![c] =
                    [Idle EXCEPT !.pc = "insert", !.id = id, !.key = Source(id).endpoint]]
    /\ UNCHANGED <<storeVars, keys>>

\* and the key goes into (or, when it is blank, out of) the map.
InsertKey(c) ==
    /\ Calls(c, "insert")
    /\ keys' = WithKey(caller[c].id, caller[c].key)
    /\ Returns(c)
    /\ UNCHANGED storeVars
RemoveKey(c) ==
    /\ Calls(c, "insert") \/ Calls(c, "removed")
    /\ keys' = {k \in keys : k.id # caller[c].id}
    /\ Returns(c)
    /\ UNCHANGED storeVars

\* remove_external_catalog_source: built_in is read, then the row deleted under a
\* second acquisition of the connection, then the key removed.
RemoveCatalog(c, id) ==
    /\ Calls(c, "idle")
    /\ Exists(id) /\ ~Source(id).builtIn
    /\ caller' = [caller EXCEPT ![c] = [Idle EXCEPT !.pc = "delete", !.id = id]]
    /\ UNCHANGED <<storeVars, keys>>
Delete(c) ==
    /\ Calls(c, "delete")
    /\ IF Exists(caller[c].id)
         THEN RemoveSource(caller[c].id) /\ Goes(c, "removed")
         ELSE Returns(c) /\ UNCHANGED storeVars
    /\ UNCHANGED keys

\* set_external_catalog_source_enabled.
Enable(c, id, enabled) ==
    /\ Calls(c, "idle")
    /\ SetSourceEnabled(id, enabled)
    /\ UNCHANGED <<keys, caller>>
-----------------------------------------------------------------------------
(* search_external_catalogs *)

SearchSources(c) ==
    /\ Calls(c, "idle")
    /\ LET enabled == {s \in sources : s.enabled} IN
       caller' = [caller EXCEPT ![c] = [Idle EXCEPT !.pc = "keys", !.todo = enabled, !.asked = enabled]]
    /\ UNCHANGED <<storeVars, keys>>

SearchKeys(c) ==
    /\ Calls(c, "keys")
    /\ caller' = [caller EXCEPT ![c] = [@ EXCEPT !.pc = "fetch", !.keys = keys]]
    /\ UNCHANGED <<storeVars, keys>>

\* Some of the items, in an order of their positions: the k-th is the one that k - 1 are
\* before.
Arranged(items, kept, Precedes(_, _)) ==
    [k \in 1..Cardinality(kept) |->
       items[CHOOSE i \in kept : Cardinality({j \in kept : Precedes(j, i)}) = k - 1]]

KeysFor(c, s) == {k.key : k \in {k \in caller[c].keys : k.id = s.id}}
Take(items, n) == SubSeq(items, 1, IF Len(items) < n THEN Len(items) ELSE n)

\* fetch_external_catalog: an RSS feed is filtered here, and then cut to the limit; a
\* Torznab source is asked for the limit.
Filtered(items) == Arranged(items, {i \in DOMAIN items : items[i].matches}, <)
Answer(s) ==
    Take(IF s.kind = "rss" THEN Filtered(Take(Feed[s.endpoint], MaxResults)) ELSE Feed[s.endpoint],
         SearchLimit)
Items(s) == [i \in 1..Len(Answer(s)) |->
               [source |-> s.id, title |-> Answer(s)[i].title, hash |-> Answer(s)[i].hash]]

\* Requests are in flight together (buffer_unordered): they complete in any order.
FetchOk(c, s) ==
    /\ Calls(c, "fetch") /\ s \in caller[c].todo
    /\ s.requiresKey => KeysFor(c, s) # {}
    /\ caller' = [caller EXCEPT ![c] =
                    [caller[c] EXCEPT !.todo = @ \ {s}, !.found = @ \o Items(s),
                                      !.sent = @ \cup ({s.endpoint} \X KeysFor(c, s))]]
    /\ UNCHANGED <<storeVars, keys>>
FetchError(c, s) ==
    /\ Calls(c, "fetch") /\ s \in caller[c].todo
    /\ caller' = [caller EXCEPT ![c] =
                    [caller[c] EXCEPT !.todo = @ \ {s}, !.failed = @ \cup {s.id}]]
    /\ UNCHANGED <<storeVars, keys>>

\* sort_by is stable: items that compare equal keep their order. Defect: the sort is
\* by title alone.
TitleBefore(items, i, j) == \/ items[i].title < items[j].title
                            \/ items[i].title = items[j].title /\ i < j
SourceBefore(items, i, j) ==
    \/ items[i].source < items[j].source
    \/ items[i].source = items[j].source /\ TitleBefore(items, i, j)
SortByTitle(items) == Arranged(items, DOMAIN items, LAMBDA i, j : TitleBefore(items, i, j))
SortBySource(items) == Arranged(items, DOMAIN items, LAMBDA i, j : SourceBefore(items, i, j))

\* One item per info hash (or magnet), the first; cut to the limit.
FirstOfHash(items) ==
    Arranged(items, {i \in DOMAIN items : \A j \in 1..(i - 1) : items[j].hash # items[i].hash}, <)
Merged(items) == Take(FirstOfHash(SortBySource(items)), SearchLimit)

Respond(c) ==
    /\ Calls(c, "fetch") /\ caller[c].todo = {}
    /\ caller' = [caller EXCEPT ![c] = [caller[c] EXCEPT !.pc = "found", !.found = Merged(@)]]
    /\ UNCHANGED <<storeVars, keys>>
Display(c) ==
    /\ Calls(c, "found")
    /\ Returns(c)
    /\ UNCHANGED <<storeVars, keys>>

CatalogNext ==
    \E c \in Callers :
       \/ \E e \in Endpoint : AddCatalog(c, e, "torznab", TRUE) \/ AddCatalog(c, e, "rss", FALSE)
       \/ AddReadBack(c) \/ InsertKey(c) \/ RemoveKey(c) \/ Delete(c)
       \/ \E id \in 1..lastId : SetKey(c, id) \/ RemoveCatalog(c, id) \/ Enable(c, id, FALSE)
       \/ SearchSources(c) \/ SearchKeys(c)
       \/ \E s \in caller[c].todo : FetchOk(c, s) \/ FetchError(c, s)
       \/ Respond(c) \/ Display(c)

CatalogSpec == CatalogInit /\ [][CatalogNext]_catalogVars
-----------------------------------------------------------------------------
(* Properties *)

\* An API key is only ever sent to the endpoint it was entered for. A key may outlive
\* its source (a command that looked the source up inserts it late), and a search
\* pairs sources and keys read at different times: what saves it is that SQLite
\* gives no source the ID of an earlier one.
KeysStayWithTheirSource == \A c \in Callers : \A r \in caller[c].sent : r[1] = r[2]

\* The results of a search do not depend on the order in which the sources answer:
\* they are those of what was sent, had the sources that answered done so in any other.
Answered(c) == {s \in caller[c].asked : s.id \notin caller[c].failed}
OrderIndependent ==
    \A c \in Callers : Calls(c, "found") =>
       \A order \in Bijection(1..Cardinality(Answered(c)), Answered(c)) :
          caller[c].found = Merged(FlattenSeq([i \in DOMAIN order |-> Items(order[i])]))
=============================================================================
