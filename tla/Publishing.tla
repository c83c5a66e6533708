----------------------------- MODULE Publishing -----------------------------
(***************************************************************************)
(* Publishing and synchronising records in the desktop application: the    *)
(* commands publish_catalog_tags, create_release and sync_followed of one  *)
(* installation (apps/desktop/src-tauri), over its store (SwarmStore) and  *)
(* the users' homeservers (pubky-adapter).                                 *)
(*                                                                         *)
(* Commands interleave at every await; the user signs in and out meanwhile *)
(* (DesktopAuth); every request may fail, a write also after it took       *)
(* effect; the process may die, and the store may be lost with the device. *)
(* A write that was reported as failed does not take effect later.         *)
(*                                                                         *)
(* Homeservers are not trusted: the one of a publisher may serve, besides  *)
(* what was put there, records that name somebody else. Records carry no   *)
(* signature: one that a homeserver makes up in the name of its own user,  *)
(* or keeps back, is beyond any check and not modelled.                    *)
(***************************************************************************)
EXTENDS SwarmStore

CONSTANTS
    Tasks,        \* commands that may be in progress together
    Requests,     \* the sets of tags that are published; they are numbers, in order
    MaxRevision,  \* u64::MAX
    ListLimit,    \* entries of a listing: 1000
    Strangers,    \* bound of the model: whom records on other homeservers may name
    MaxCommands   \* bound of the model: publishing commands, the last of which ends new synchronisations

ASSUME NoneIsNoTask == None \notin Tasks
ASSUME RequestsAssumption == \A tags \in Requests : tags \subseteq Nat /\ tags # {} /\ IsFiniteSet(tags)
ASSUME MaxRevisionAssumption == MaxRevision \in Nat
ASSUME ListLimitAssumption == ListLimit \in Nat
ASSUME StrangersAssumption == Strangers \subseteq Publisher /\ IsFiniteSet(Strangers)
ASSUME MaxCommandsAssumption == MaxCommands \in Nat

VARIABLES
    task,           \* the commands
    publishLock,    \* tag_publish_lock
    signedIn,       \* the publisher of the session
    hostedClaims,   \* tag claims on the homeserver of each publisher
    hostedReleases, \* release records there
    commands        \* publishing commands so far

homeservers == <<hostedClaims, hostedReleases>>
taskVars == <<task, publishLock, signedIn, homeservers, commands>>
publishingVars == <<storeVars, taskVars>>

NoTask == [pc |-> "idle", kind |-> "none", issuer |-> None, at |-> 0, tags |-> {},
           todo |-> {}, claims |-> {}, rest |-> {}]

\* TagClaimV1::new: the ID covers every field.
TagClaim(p, tag, at, revision) ==
    [table |-> "tag_claims", id |-> <<p, tag, at, revision>>, issuer |-> p, revision |-> revision]
\* ReleaseV1::new. The torrent differs from command to command.
ReleaseRecord(p, at) == [publisher |-> p, id |-> <<p, at>>, at |-> at, rank |-> at, body |-> None]

\* Records that the homeserver of p serves though they name another publisher, who never
\* published them (commands are numbered from 1).
ForeignClaims(p) == {TagClaim(q, 0, 0, 1) : q \in Strangers \ {p}}
ForeignReleases(p) == {ReleaseRecord(q, 0) : q \in Strangers \ {p}}

PublishingTypeOK ==
    /\ DOMAIN task = Tasks
    /\ \A t \in Tasks : task[t].kind \in {"none", "tags", "release", "sync"}
    /\ publishLock \in Tasks \cup {None} /\ signedIn \in Publisher \cup {None}
    /\ \A p \in Publisher : \A c \in hostedClaims[p] : c.revision \in 1..MaxRevision
    /\ commands \in 0..MaxCommands

NoTasks ==
    /\ task = [t \in Tasks |-> NoTask]
    /\ publishLock = None /\ signedIn = None /\ commands = 0
    /\ hostedClaims = [p \in Publisher |-> {}]
    /\ hostedReleases = [p \in Publisher |-> {}]
PublishingInit == FreshStore /\ NoTasks

At(t, pc) == task[t].pc = pc
Steps(t, pc) == task' = [task EXCEPT ![t].pc = pc]
\* A command returns: its result or its error.
Ends(t) ==
    /\ task' = [task EXCEPT ![t] = NoTask]
    /\ publishLock' = IF publishLock = t THEN None ELSE publishLock
-----------------------------------------------------------------------------
(* The beginning of a command *)

Begin(t, kind, tags) ==
    /\ At(t, "idle") /\ commands < MaxCommands
    /\ commands' = commands + 1
    /\ task' = [task EXCEPT ![t] =
                  [NoTask EXCEPT !.pc = IF kind = "tags" THEN "lock" ELSE "session",
                                 !.kind = kind, !.at = commands', !.tags = tags]]
    /\ UNCHANGED <<storeVars, publishLock, signedIn, homeservers>>

\* Only publish_catalog_tags takes the lock. Defect: it does not.
NoPublishLock(t) ==
    /\ At(t, "lock")
    /\ Steps(t, "session")
    /\ UNCHANGED <<storeVars, publishLock, signedIn, homeservers, commands>>
TakePublishLock(t) ==
    /\ At(t, "lock") /\ publishLock = None
    /\ publishLock' = t
    /\ Steps(t, "session")
    /\ UNCHANGED <<storeVars, signedIn, homeservers, commands>>

\* current_session: the command works for this user until it ends, whoever signs in.
CurrentSession(t) ==
    /\ At(t, "session")
    /\ IF signedIn = None
         THEN Ends(t)
         ELSE /\ task' = [task EXCEPT ![t].issuer = signedIn,
                                      ![t].pc = IF task[t].kind = "tags" THEN "list" ELSE "seed"]
              /\ UNCHANGED publishLock
    /\ UNCHANGED <<storeVars, signedIn, homeservers, commands>>

First(S) == CHOOSE p \in S : TRUE
\* sync_followed: the followed publishers (follow and unfollow are SwarmStore's; here
\* anyone may be), and oneself.
SyncFollowed(t, following) ==
    /\ At(t, "idle") /\ commands < MaxCommands
    /\ LET all == following \cup ({signedIn} \ {None}) IN
       /\ all # {}
       /\ task' = [task EXCEPT ![t] = [NoTask EXCEPT !.pc = "releases", !.kind = "sync",
                           !.issuer = First(all), !.rest = all \ {First(all)}]]
    /\ UNCHANGED <<storeVars, publishLock, signedIn, homeservers, commands>>
-----------------------------------------------------------------------------
(* sync_publisher_releases and synchronize_tag_claims *)

CacheReleases(R) ==
    /\ releases' = {x \in releases : \A r \in R : <<x.publisher, x.id>> # <<r.publisher, r.id>>} \cup R
    /\ UNCHANGED <<opening, followed, cursors, artifacts, sequences, subscriptions, settings,
                   sources, lastId, ops>>
CacheClaims(C) ==
    /\ artifacts' = WithArtifact(artifacts, C)
    /\ UNCHANGED <<opening, followed, cursors, releases, sequences, subscriptions, settings,
                   sources, lastId, ops>>

\* Records are cached one by one as they are read, whoever they name; a listing that
\* fails is passed over.
SyncReleases(t) ==
    /\ At(t, "releases")
    /\ \E foreign \in SUBSET ForeignReleases(task[t].issuer) :
       LET served == hostedReleases[task[t].issuer] \cup foreign
       IN \E R \in SUBSET served :
             /\ CacheReleases(R)
             /\ \/ R \in {{}, served} /\ Steps(t, "list") /\ UNCHANGED publishLock
                \/ R # served /\ Ends(t)
    /\ UNCHANGED <<signedIn, homeservers, commands>>

\* Of more claims than a listing holds, the first ones in the order of their IDs.
ListClaims(t) ==
    /\ At(t, "list")
    /\ \E foreign \in SUBSET ForeignClaims(task[t].issuer) :
       LET served == hostedClaims[task[t].issuer] \cup foreign
           n == IF Cardinality(served) < ListLimit THEN Cardinality(served) ELSE ListLimit
       IN \E listed \in kSubset(n, served) :
             task' = [task EXCEPT ![t].pc = "fetch", ![t].todo = listed]
    /\ UNCHANGED <<storeVars, publishLock, signedIn, homeservers, commands>>

\* A claim of somebody else ends the synchronisation. Defect: whoever it names, it is cached.
AnyIssuer(t, c) == TRUE
OfIssuer(t, c) == c.issuer = task[t].issuer

FetchClaim(t) ==
    /\ At(t, "fetch")
    /\ \E c \in task[t].todo :
          IF OfIssuer(t, c)
            THEN /\ CacheClaims(c)
                 /\ task' = [task EXCEPT ![t].todo = @ \ {c}]
                 /\ UNCHANGED publishLock
            ELSE Ends(t) /\ UNCHANGED storeVars
    /\ UNCHANGED <<signedIn, homeservers, commands>>

SyncNext(t) ==
    /\ At(t, "fetch") /\ task[t].todo = {} /\ task[t].kind = "sync"
    /\ IF task[t].rest = {}
         THEN Ends(t)
         ELSE /\ LET p == First(task[t].rest) IN
                 task' = [task EXCEPT ![t].pc = "releases", ![t].issuer = p, ![t].rest = @ \ {p}]
              /\ UNCHANGED publishLock
    /\ UNCHANGED <<storeVars, signedIn, homeservers, commands>>
-----------------------------------------------------------------------------
(* publish_catalog_tags *)

\* highest_tag_claim_revision: 0 if no claim is known.
Highest(p, revision) ==
    /\ revision \in {0} \cup {a.revision : a \in ClaimsOf(p)}
    /\ \A a \in ClaimsOf(p) : a.revision <= revision
\* The place of a tag in the request.
Place(tag, tags) == Cardinality({other \in tags : other <= tag})

\* One claim per tag, with consecutive revisions after the highest known one, unless
\* checked_add says there are none left. Defect: the sum is not checked.
AlwaysHasRevisions(highest, n) == TRUE
HasRevisions(highest, n) == highest + n <= MaxRevision
NumberClaims(t) ==
    /\ At(t, "fetch") /\ task[t].todo = {} /\ task[t].kind = "tags"
    /\ LET tags == task[t].tags
           p == task[t].issuer
       IN \E highest \in 0..MaxRevision :
            /\ Highest(p, highest)
            /\ IF HasRevisions(highest, Cardinality(tags))
                 THEN /\ task' = [task EXCEPT ![t].pc = "put",
                            ![t].claims = {TagClaim(p, tag, task[t].at, highest + Place(tag, tags)) : tag \in tags}]
                      /\ UNCHANGED publishLock
                 ELSE Ends(t)
    /\ UNCHANGED <<storeVars, signedIn, homeservers, commands>>

\* The claim that is written next, in the order of the tags.
NextClaim(t) == {c \in task[t].claims : \A d \in task[t].claims : c.revision <= d.revision}

\* put_json, with the session of the beginning. Defect: with the current one.
AuthorityNow(t) == IF signedIn = None THEN task[t].issuer ELSE signedIn
Authority(t) == task[t].issuer

PutClaim(t) ==
    /\ At(t, "put")
    /\ \E c \in NextClaim(t) :
          hostedClaims' = [hostedClaims EXCEPT ![Authority(t)] = @ \cup {c}]
    /\ \/ Steps(t, "cache") /\ UNCHANGED publishLock
       \/ Ends(t)              \* the answer is lost
    /\ UNCHANGED <<storeVars, signedIn, hostedReleases, commands>>

\* cache_tag_claim; then the next one.
CacheClaim(t) ==
    /\ At(t, "cache")
    /\ \E c \in NextClaim(t) :
          /\ CacheClaims(c)
          /\ IF task[t].claims = {c}
               THEN Ends(t)
               ELSE /\ task' = [task EXCEPT ![t].pc = "put", ![t].claims = @ \ {c}]
                    /\ UNCHANGED publishLock
    /\ UNCHANGED <<signedIn, homeservers, commands>>
-----------------------------------------------------------------------------
(* create_release *)

\* create_torrent, add_metainfo, wait_until_completed and announce: minutes.
Seed(t) ==
    /\ At(t, "seed")
    /\ Steps(t, "put_release")
    /\ UNCHANGED <<storeVars, publishLock, signedIn, homeservers, commands>>

PutRelease(t) ==
    /\ At(t, "put_release")
    /\ hostedReleases' = [hostedReleases EXCEPT
           ![Authority(t)] = @ \cup {ReleaseRecord(task[t].issuer, task[t].at)}]
    /\ \/ Steps(t, "cache_release") /\ UNCHANGED publishLock
       \/ Ends(t)              \* the answer is lost
    /\ UNCHANGED <<storeVars, signedIn, hostedClaims, commands>>

StoreRelease(t) ==
    /\ At(t, "cache_release")
    /\ CacheReleases({ReleaseRecord(task[t].issuer, task[t].at)})
    /\ Ends(t)
    /\ UNCHANGED <<signedIn, homeservers, commands>>
-----------------------------------------------------------------------------
(* Failures and the user *)

\* A request, or a step of the torrent engine, fails: the command returns the error.
Fail(t) ==
    /\ task[t].pc \in {"list", "fetch", "put", "seed", "put_release"}
    /\ At(t, "fetch") => task[t].todo # {}
    /\ Ends(t)
    /\ UNCHANGED <<storeVars, signedIn, homeservers, commands>>

SessionChanges(p) ==
    /\ signedIn # p
    /\ signedIn' = p
    /\ UNCHANGED <<storeVars, task, publishLock, homeservers, commands>>

\* The process ends; the session is not saved. A new installation has an empty store.
Restart(storeLost) ==
    /\ task' = [t \in Tasks |-> NoTask]
    /\ publishLock' = None /\ signedIn' = None
    /\ IF storeLost
         THEN /\ artifacts' = {} /\ releases' = {}
              /\ UNCHANGED <<opening, followed, cursors, sequences, subscriptions, settings, sources, lastId, ops>>
         ELSE UNCHANGED storeVars
    /\ UNCHANGED <<homeservers, commands>>

PublishingNext ==
    \/ \E t \in Tasks :
          \/ \E tags \in Requests : Begin(t, "tags", tags)
          \/ Begin(t, "release", {})
          \/ \E following \in SUBSET Publisher : SyncFollowed(t, following)
          \/ TakePublishLock(t) \/ CurrentSession(t)
          \/ SyncReleases(t) \/ ListClaims(t) \/ FetchClaim(t) \/ SyncNext(t)
          \/ NumberClaims(t) \/ PutClaim(t) \/ CacheClaim(t)
          \/ Seed(t) \/ PutRelease(t) \/ StoreRelease(t) \/ Fail(t)
    \/ \E p \in Publisher \cup {None} : SessionChanges(p)
    \/ \E storeLost \in BOOLEAN : Restart(storeLost)

PublishingSpec == PublishingInit /\ [][PublishingNext]_publishingVars
-----------------------------------------------------------------------------
(* Properties *)

\* No two claims of an issuer have one revision, so that the latest is known,
\* whatever commands overlap, writes fail, processes die or stores are lost: as long
\* as one listing holds all of them.
RevisionsUnique ==
    \A p \in Publisher : Cardinality(hostedClaims[p]) <= ListLimit =>
       \A c, d \in hostedClaims[p] : c.revision = d.revision => c = d

\* A record is only ever written to the homeserver of the publisher it names, though
\* others sign in while the command runs: a claim elsewhere would make every later
\* synchronisation of that publisher fail. And a claim is only ever cached if the publisher
\* it names has published it, though homeservers serve claims in the name of others.
RecordsUnderTheirAuthority ==
    /\ \A p \in Publisher : /\ \A c \in hostedClaims[p] : c.issuer = p
                            /\ \A r \in hostedReleases[p] : r.publisher = p
    /\ \A a \in artifacts : a \in hostedClaims[a.issuer]

\* The same of releases (docs/SECURITY.md: clients verify the publisher). The code does
\* not compare the publisher of a release with the one it synchronises: it is violated.
CachedReleasesWerePublished == \A r \in releases : r \in hostedReleases[r.publisher]
=============================================================================
