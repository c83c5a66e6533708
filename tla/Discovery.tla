----------------------------- MODULE Discovery -----------------------------
(***************************************************************************)
(* The discovery service (services/discovery): a cache of release records  *)
(* (SwarmStore), refreshed per publisher on request, and searched by       *)
(* clients that page through the results with Torznab's offset and limit.  *)
(* Requests are served concurrently; a refresh is one request for the      *)
(* listing and one per record, while publishers put new records and        *)
(* replace old ones. A record's path on the homeserver is its ID.          *)
(***************************************************************************)
EXTENDS SwarmStore

CONSTANTS
    Refreshes,  \* refresh requests that may be in progress together
    Listing,    \* entries of a listing: 1000
    Asked,      \* the limit the paging client asks for
    MaxPage,    \* MAX_RESULTS
    MaxOffset,  \* MAX_OFFSET
    Matching,   \* bodies the client's query and tag match
    MaxPuts     \* bound of the model: records put on homeservers

ASSUME LimitsAssumption == Listing \in Nat /\ Asked \in Nat /\ MaxPage \in Nat \ {0} /\ MaxOffset \in Nat
ASSUME MaxPutsAssumption == MaxPuts \in Nat
\* An ID covers the time (ReleaseId::derive); rank is the order of publisher and ID.
ASSUME ReleaseAssumption ==
    \A r, s \in Release :
        /\ r.at \in Nat /\ r.rank \in Nat
        /\ <<r.publisher, r.id>> = <<s.publisher, s.id>> <=> r.at = s.at /\ r.rank = s.rank

VARIABLES
    hosted,     \* release records on the homeserver of each publisher
    puts,       \* records put so far
    refresh,    \* the refresh requests
    indexed,    \* history: IDs that the completed refreshes of each publisher listed
    reader      \* the paging client

requestVars == <<hosted, puts, refresh, indexed, reader>>
discoveryVars == <<storeVars, requestVars>>

NoRefresh == [pc |-> "idle", publisher |-> None, todo |-> {}, listed |-> {}, got |-> None]
NoReader == [pc |-> "idle", offset |-> 0, seen |-> {}, stays |-> {}, edited |-> FALSE]
Key(r) == <<r.publisher, r.id>>
Keys(R) == {Key(r) : r \in R}

DiscoveryTypeOK ==
    /\ \A p \in Publisher : hosted[p] \subseteq Release
    /\ puts \in 0..MaxPuts
    /\ \A t \in Refreshes : refresh[t].pc \in {"idle", "get", "check"}
    /\ reader.pc \in {"idle", "paging", "done"} /\ reader.offset \in 0..MaxOffset

NoRequests ==
    /\ hosted = [p \in Publisher |-> {}] /\ puts = 0
    /\ refresh = [t \in Refreshes |-> NoRefresh]
    /\ indexed = [p \in Publisher |-> {}]
    /\ reader = NoReader
DiscoveryInit == FreshStore /\ NoRequests

\* A publisher puts a record: a new one, another body for an old one, or one that
\* names somebody else.
Put(p, r) ==
    /\ r \notin hosted[p]
    /\ puts < MaxPuts /\ puts' = puts + 1
    /\ hosted' = [hosted EXCEPT ![p] = {x \in @ : x.id # r.id} \cup {r}]
    /\ UNCHANGED <<storeVars, refresh, indexed, reader>>
-----------------------------------------------------------------------------
(* refresh_publisher *)

RefreshAt(t, pc) == refresh[t].pc = pc
Answers(t) == refresh' = [refresh EXCEPT ![t] = NoRefresh]

RefreshList(t, p) ==
    /\ RefreshAt(t, "idle")
    /\ LET ids == {r.id : r \in hosted[p]}
           listed == {i \in ids : Cardinality({j \in ids : j <= i}) <= Listing}
       IN refresh' = [refresh EXCEPT ![t] =
             [pc |-> "get", publisher |-> p, todo |-> listed, listed |-> listed, got |-> None]]
    /\ UNCHANGED <<storeVars, hosted, puts, indexed, reader>>

RefreshGet(t) ==
    /\ RefreshAt(t, "get")
    /\ \E r \in hosted[refresh[t].publisher] :
          /\ r.id \in refresh[t].todo /\ \A i \in refresh[t].todo : r.id <= i
          /\ refresh' = [refresh EXCEPT ![t].pc = "check", ![t].got = r, ![t].todo = @ \ {r.id}]
    /\ UNCHANGED <<storeVars, hosted, puts, indexed, reader>>

\* A request fails; what was cached stays.
RefreshFails(t) ==
    /\ RefreshAt(t, "get") /\ refresh[t].todo # {}
    /\ Answers(t)
    /\ UNCHANGED <<storeVars, hosted, puts, indexed, reader>>

\* What the client pages through: all_releases(MAX_OFFSET), filtered.
Found(cache) == {r \in Newest(cache, MaxOffset) : r.body \in Matching}
Observed(cache) ==
    [reader EXCEPT
        !.stays = @ \cap Keys(Found(cache)),
        !.edited = @ \/ \E r \in releases, x \in cache :
            Key(r) = Key(x) /\ r.body \in Matching /\ x.body \notin Matching]

\* A record of another publisher ends the refresh; the others are cached one by one.
RefreshCache(t) ==
    LET r == refresh[t].got IN
    /\ RefreshAt(t, "check")
    /\ r.publisher = refresh[t].publisher
    /\ releases' = Cached(releases, r)
    /\ refresh' = [refresh EXCEPT ![t].pc = "get", ![t].got = None]
    /\ reader' = IF reader.pc = "paging" THEN Observed(releases') ELSE reader
    /\ UNCHANGED <<opening, followed, cursors, artifacts, sequences, subscriptions, settings,
                   sources, lastId, ops, hosted, puts, indexed>>
RefreshRefuses(t) ==
    /\ RefreshAt(t, "check")
    /\ refresh[t].got.publisher # refresh[t].publisher
    /\ Answers(t)
    /\ UNCHANGED <<storeVars, hosted, puts, indexed, reader>>

\* follow, at the very end. Defect: as soon as a record is missing from the list.
FollowEarly(t) ==
    /\ RefreshAt(t, "get")
    /\ LET p == refresh[t].publisher IN
       /\ followed' = IF p \in ToSet(followed) THEN followed ELSE Append(followed, p)
       /\ indexed' = [indexed EXCEPT ![p] = @ \cup refresh[t].listed]
    /\ Answers(t)
    /\ UNCHANGED <<opening, cursors, releases, artifacts, sequences, subscriptions, settings,
                   sources, lastId, ops, hosted, puts, reader>>
RefreshFollow(t) ==
    /\ RefreshAt(t, "get") /\ refresh[t].todo = {}
    /\ LET p == refresh[t].publisher IN
       /\ followed' = IF p \in ToSet(followed) THEN followed ELSE Append(followed, p)
       /\ indexed' = [indexed EXCEPT ![p] = @ \cup refresh[t].listed]
    /\ Answers(t)
    /\ UNCHANGED <<opening, cursors, releases, artifacts, sequences, subscriptions, settings,
                   sources, lastId, ops, hosted, puts, reader>>
-----------------------------------------------------------------------------
(* torznab_search_response; /v1/search and the RSS feeds are first pages *)

StartPaging ==
    /\ reader.pc = "idle"
    /\ reader' = [NoReader EXCEPT !.pc = "paging", !.stays = Keys(Found(releases))]
    /\ UNCHANGED <<storeVars, hosted, puts, refresh, indexed>>

\* The limit is clamped to 1..MAX_RESULTS and the offset to MAX_OFFSET. Defect: the
\* page is cut first and then filtered.
Cut(found, offset) ==
    LET from == IF offset < MaxOffset THEN offset ELSE MaxOffset
        limit == IF Asked < 1 THEN 1 ELSE IF Asked > MaxPage THEN MaxPage ELSE Asked
    IN {r \in found : Position(found, r) \in from..(from + limit - 1)}
PageThenFilter(offset) == {r \in Cut(Newest(releases, MaxOffset), offset) : r.body \in Matching}
Page(offset) == Cut(Found(releases), offset)

\* The client goes on by what it received, until it has reached the total.
NextPage ==
    LET page == Page(reader.offset)
        offset == reader.offset + Cardinality(page)
    IN
    /\ reader.pc = "paging"
    /\ reader' = [reader EXCEPT !.offset = offset, !.seen = @ \cup Keys(page),
                      !.pc = IF page = {} \/ offset >= Cardinality(Found(releases)) THEN "done" ELSE @]
    /\ UNCHANGED <<storeVars, hosted, puts, refresh, indexed>>

DiscoveryNext ==
    \/ \E p \in Publisher, r \in Release : Put(p, r)
    \/ \E t \in Refreshes :
          \/ \E p \in Publisher : RefreshList(t, p)
          \/ RefreshGet(t) \/ RefreshFails(t) \/ RefreshCache(t) \/ RefreshRefuses(t)
          \/ RefreshFollow(t)
    \/ StartPaging \/ NextPage

DiscoverySpec == DiscoveryInit /\ [][DiscoveryNext]_discoveryVars
-----------------------------------------------------------------------------
(* Properties *)

\* A publisher is followed only once everything a listing of theirs named is cached
\* under their name, and nothing is cached under a name whose homeserver never had
\* it, although refreshes overlap, fail half-way and meet foreign records.
FollowedIsIndexed ==
    /\ \A p \in ToSet(followed) : \A id \in indexed[p] : <<p, id>> \in Keys(releases)
    /\ \A r \in releases : r.id \in {x.id : x \in hosted[r.publisher]}

\* A client that pages to the end has received every release that matched throughout,
\* though refreshes go on: new records only move others towards later pages (an
\* edited record that no longer matches moves them the other way).
PagingSkipsNothing ==
    reader.pc = "done" /\ ~reader.edited => reader.stays \subseteq reader.seen
=============================================================================
