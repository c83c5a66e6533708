# A TLA+ model of pubky-swarm

pubky-swarm publishes datasets under a Pubky identity and distributes them over
Homeservers and BitTorrent. This directory models two parts of it. The first
decides *which* dataset state is authoritative and who may replace it: the
publisher, reader and watcher contracts of `crates/dataset-core`, their three
transports, the signed heads of `crates/swarm-head`, and the seeder service that
keeps both heads and snapshots alive. The second is what the applications are
made of: signing in, the SQLite store, external catalogues, publication and
synchronisation of records, the discovery service, the record formats, and
torrents from import to streaming; with the C++ facade over libtorrent. TLC
checks the models on small instances, and TLAPS proves every safety property the
passing runs state for every instance, the two refinements included. One of the
refinements and one action property are proved from hypotheses that the theorems
name.

## The system

| Component | State it keeps | Operations | Interacts with |
|---|---|---|---|
| `dataset-core` contracts | - | publish (compare-and-swap on the manifest digest), head, get, list, wait_for_change | implemented by the three transports |
| `dataset-core` MemoryDataset | committed head and snapshot under a mutex, a watch channel | the same | tasks sharing cloned handles |
| `dataset-homeserver` | remote: objects, manifests, one head file; local: a mutex per publisher | the same, each a sequence of HTTP requests | homeserver through `pubky-adapter` |
| `swarm-head` | none; the DHT holds signed items | resolve, publish_next, reannounce | Mainline DHT |
| `dataset-torrent` publisher | last published digest and sequence, snapshots on disk | publish, with_current | `swarm-head`, `torrent-engine`, `mainline-discovery` |
| `dataset-torrent` reader | the loaded snapshot | load, get, list, pin_current | the same |
| `torrent-engine` | librqbit session: managed torrents and their file selection | add_magnet, add_metainfo, update_only_files, wait_until_completed | peers |
| seeder service | SQLite table of highest sequences, engine persistence | one cycle per interval over its publishers | `swarm-head`, `dataset-torrent`, `swarm-store` |
| `swarm-store` | SQLite: follows, cursors, releases, tag claims and other artifacts, sequences, catalogue sources, settings | upserts, reads, opening with migrations and presets | desktop, discovery, seeder: each opens a file of its own |
| desktop backend | sign-in flow, session, API keys, pending magnet; settings and caches in its store | Tauri commands | homeservers, catalogues, `torrent-engine`, `swarm-store` |
| desktop interface | authorization on display, signed in or not, busy | a polling interval, handlers | the backend's commands |
| `libtorrent-engine` | C++ session, torrent records, resume requests, alert backlog | FFI calls, alert pump | libtorrent |
| discovery service | the store as a cache | refresh, search with paging | homeservers |
| `stream-gateway` | the answer being read | range requests over loopback HTTP | `torrent-engine` |
| `swarm-protocol` | none | records: constructors, canonical bytes, IDs, validation; rules of imports | everything that reads or writes records |
| `catalog-client`, `qbittorrent-connector`, `benchmark` | none | parsing, HTTP clients, measuring | - |

What is hard in it:

* *Concurrency*: publish calls of several tasks (a mutex in the memory dataset
  and in each homeserver or torrent publisher), notification after unlock,
  publishers in several processes that share nothing but the remote state.
* *Failure*: a publication is many requests, any of which can fail before or
  after it took effect; processes crash between two of them.
* *An unreliable authority*: DHT lookups reach some nodes, puts are stored by
  some nodes, nodes forget. Compare-and-swap exists per node only.
* *Ordering and staleness*: heads are read, acted upon later, and read again.
* *Limits*: sequences and revisions that may not wrap, a disk budget, bounded
  backlogs, listings and pages.
* *Commands that interleave*: Tauri runs commands as tasks of one runtime. Each
  takes a lock per field or a row per statement, and awaits between them, so
  sign-out meets polls, a removal meets a search, two publications meet.
* *Encodings*: IDs are hashes of concatenated fields, and paths are checked by
  sorting and comparing neighbours; both are right only if the encoding can be
  split in one way and the order puts collisions side by side.

What makes each component correct: one successful publication per sequence,
each based on the one before; a head never names a state that is not completely
stored; a reader that follows any head finds everything it names; notifications
are never invented and the last one is not missed; the seeder never revives an
old head, never reports an incomplete pin, and keeps current heads and snapshots
alive. Of the applications: nobody is signed in again by what was begun before
they signed out; a key only goes where it belongs; revisions are unique; nothing
recorded is forgotten; what is accepted under an ID is what the ID was made for;
no two files of a torrent are written to one place; the bytes sent are those
asked for. `PROJECT.json` lists the hazards line by line with the properties that
cover them.

## Modules

| Module | Models | State and actions |
|---|---|---|
| `DatasetAuthority` | the `DatasetPublisher` contract | `head`, `log`; one action `Commit` |
| `MemoryDataset` | `dataset-core` lib.rs 551-745 | `state` is the mutex content, `channel` the watch channel. A publish call is `Stage` (validation, no lock), `CommitSection` (the critical section), `Notify` (send_replace after the unlock). A watcher is the loop borrow_and_update / changed / resolve again |
| `HomeserverDataset` | `dataset-homeserver` | one action per request of `publish`, `get` and the watcher's poll; `PutFails` and `Return` branches for lost answers, `Crash`; a head write whose sender gave up or died may be `Abandoned` on its way, and `LateHead` is its arrival, at any time later |
| `MainlineDht` | the DHT as `swarm-head` uses it (external) | a slot is a function from nodes to items; `MostRecent` over the nodes that answer, `Accepts` is a node's decision on a put |
| `TorrentPublisher` | `TorrentDatasetPublisher::publish` and `HeadClient::publish_next` | `Resolve` (first lookup and the state/network match), `Stage`, `Confirm` (second lookup), `SendPut` (a request to each node), `Arrive` (a node decides, in any order, after the call too, or never), `PutOk` once some node has stored the item or `Fail` at any time, `Save` and `Restart` (with_current) |
| `Seeder` | `seed_cycle`, `TorrentDatasetReader::load` and `pin_current`, `TorrentEngine::add_magnet` | `cycle` is the program counter and locals of the cycle; `highest` the SQLite table; `managed`/`want`/`have` the engine's torrents, their selection and data; `loaded` the reader's cache, lost in a crash; the disk in use is the set of units on it |
| `LibtorrentFacade` | `libtorrent-engine`'s C++ facade, facade.cc | the tables of `SessionHandle::Impl` as sets of records, one action per call, and the oldest request by its rank; libtorrent is a queue of commands, a bounded queue of alerts and the torrents whose removal is not finished |
| `DesktopAuth` | `start_auth`, `poll_auth`, `sign_out` (desktop `lib.rs`) and their callers in `App.tsx` | `flow` and `session` are the two locks' contents, `flowLock` the guard held over `try_poll_once`; `poll` the polls in progress, one action per acquisition (`PollLock`, `PollGrant`, `PollStore`, `PollClear`) and `PollReturn` for what the interface makes of the answer; `command` the one other call; `Approve` is the user's other device |
| `SwarmStore` | `swarm-store` | a variable per table; an operation is one step (one statement or one transaction under the connection's mutex), opening is one step per migration and per preset, `Exit` may come between any two, and a later start may be that of a newer build |
| `CatalogSearch` | external catalogue commands, over `SwarmStore` | `keys` is the map of API keys under its own lock, `caller` the commands in progress; `AddCatalog` .. `Display`, answers of sources in any order (`FetchOk`, `FetchError`). A stable sort is the arrangement that puts each result at its rank (`Arranged`) |
| `Publishing` | `publish_catalog_tags`, `create_release`, `sync_followed`, over `SwarmStore` | `task` the commands, `hostedClaims` and `hostedReleases` the homeservers; one action per request and per cache write; writes that fail after they took effect, crashes, loss of the store, other users signing in meanwhile; homeservers may serve records in the name of others (`ForeignClaims`, `ForeignReleases`) |
| `Discovery` | the discovery service, over `SwarmStore` | `refresh` the requests in progress, `hosted` what publishers serve; `RefreshList`, `RefreshGet`, `RefreshCache` or `RefreshRefuses`, `RefreshFollow`; `reader` is a client that pages; a result's place is the number of results before it (`Position`), and a page is a set of places |
| `CatalogRecords` | `swarm-protocol` | `Layout` lists the fields of each schema; `Canonical` is the encoding, `New` and `Parsed` construction and deserialisation. A draft becomes a record, the record is served as any document of its schema under its ID, and that is accepted or refused; imports are built of observations. `ValueOf` types the fields; what a constructor sorts is the sorted arrangement of what it is given |
| `TorrentTransfers` | desktop torrent commands, `torrent-engine`'s validation and session, `stream-gateway` | `managed` the session's torrents, `transfer` the imports in progress, `response` the gateway's answer, errors included. Paths are compared as `Path::cmp` does, and neighbours are the windows of any sorted arrangement of them |
| `MC*` | instances for TLC | constants and symmetry sets; `MCApplications` puts the seven modules above side by side, and `Focus` says which of them may move |
| `MemoryDataset_proofs`, `HomeserverDataset_proofs`, `TorrentPublisher_proofs`, `Seeder_proofs`, `LibtorrentFacade_proofs` | theorems about the module they are named after | see below |
| `Store_proofs` | theorems about `SwarmStore` and the modules over it: `CatalogSearch`, `Publishing`, `Discovery` | see below |
| `Desktop_proofs` | theorems about `DesktopAuth`, `TorrentTransfers`, `CatalogRecords` | see below |
| `Applications_proofs` | theorems about their composition, `MCApplications` | see below |

`MemoryDataset`, and `TorrentPublisher` with one publisher, are shown to implement
`DatasetAuthority`: the head of the abstract specification is the mutex content or
the publisher's recorded state, and `log` is the history of successful
publications. The others promise less. In `HomeserverDataset` the tasks of one
process follow each other through the mutex, but the head write is unconditional,
and one that its sender gave up on may land after a newer one; two homeserver
processes have no order at all. What holds is that no write of a process loses an
update but to those (`NoOwnUpdateLost`). For torrent publishers that share a key
each DHT node is a register of its own (`HeadsReplacedInTurn`) and nothing more:
compare-and-swap is not global consensus, as `docs/decisions/0002-dataset-head.md`
says, and two publications under one sequence may both succeed.

Definitions introduced by "Defect:" or "the defect" are mutated forms of the
definition that follows them. No specification uses them; each property of a
run is shown to fail when one of them takes the place of the real definition,
which is how we know that the property depends on the code it is about.

Data is abstracted as follows. A manifest digest, info hash, path, publisher or
node is a model value; signatures are assumed to hold, so every item in the DHT
was signed by its publisher; a snapshot is two units of disk, its manifest one
of them. Validation of a publication is a choice between passing and failing.
In `CatalogRecords` and `TorrentTransfers`, where encodings and orders are the
point, strings are short sequences of numbers, and fields of a fixed width are
one number. In `CatalogSearch` a key is the endpoint it was entered for. In
`Publishing` and `Discovery` a record's ID is what its path on the homeserver is
made of.

## Runs

| Run | Instance | Shows |
|---|---|---|
| `memory` | 2 publishing tasks, 1 watcher, 2 digests, 3 sequences | types, refinement, `AcknowledgedOnce`, `HintWasCommitted`, `WatcherSettles` |
| `homeserver` | 2 states sharing a path, 1 late write on its way at a time; either 2 tasks of 1 process, 1 watcher and 3 head writes, or 1 task in each of 2 processes, 1 reader and 2 head writes | `HeadComplete` and `ReadsComplete` need no coordination between processes; `NoOwnUpdateLost` is what the mutex of one is good for; the polling watcher catches up (`WatchersCatchUp`) |
| `torrent_sole` | 1 publisher, 3 forgetful nodes, any partial lookup, put requests in any order, 3 calls | refinement; `SeededBeforePublished` |
| `torrent_race` | 2 publishers from an existing head, 2 forgetful nodes, any partial lookup, put requests in any order, 3 calls, restarts from unsaved state | `HeadsReplacedInTurn` |
| `seeder_safety` | 1 publisher, 2 nodes, 4 publications, 3 faults, disk limit of one and a half snapshots | `PinnedIsComplete`, `ReannouncesNewest`, `OverrunBounded` |
| `seeder_live` | 2 publishers, 2 nodes, 2 publications each, 1 fault; a disk of 7 units for publications of 8 | `PinsCurrentWithoutFaults`, `HeadKeptAliveWithinBudget` |
| `facade` | 1 info hash added twice, 3 resume requests, 1 unrelated alert, a backlog of 2 and a native alert limit of 1 (3 for critical alerts) | `AnswersPairUp`, `PendingAnswersToCome`, `AlertsNameTheirTorrent`, `BacklogIsNewest`, `IdsNeverReused` |
| `applications` | `DesktopAuth`: 2 polls, 2 flows. `SwarmStore`: any version up to one newer than the code's, 2 builds, 3 operations. `CatalogSearch`: 2 commands, 3 endpoints. `Publishing`: 2 tasks, 2 commands, 2 users, one of whom may be named by records on the other's homeserver. `Discovery`: 2 refreshes, 2 puts, pages of 1. `CatalogRecords`: all seven schemas. `TorrentTransfers`: 2 imports, 3 torrents | `SignedOutStaysOut`, `ApprovalSignsIn`; `StoreIntact`, `StoreForgetsNothing`; `KeysStayWithTheirSource`, `OrderIndependent`; `RevisionsUnique`, `RecordsKeepTheirAuthority`; `RefreshesIndex`, `PagingSkipsNothing`; `AcceptedIsGenuine`; `TransfersAreSound` |
| `seeder_rollback`, `seeder_conflict`, `seeder_wedge` | 1 publisher, 1 to 3 faults | three disagreements between documentation and code, below |
| `publishing_releases` | `Publishing` as in `applications` | one more |

*Bounds.* `MaxSequence` is the code's integer maximum made small, so exhaustion
itself is explored. `MaxWrites`, `MaxCalls` and `MaxFaults` only cut histories short;
`MaxLate` limits the late head writes that are on their way together, and one is
what it takes to overwrite a newer head. `focus` of `MCHomeserverDataset` says
which two of its three tasks a behaviour takes, since all three at once, with the
reader and the watcher, are too many states; the theorems cover them. `MaxDisk` of
`seeder_live` is one unit less than all publications take, so that a cycle may
find the budget used up. Two publishers and two publications are what a lost update, a reordered
notification or a clash of sequences takes; a third shows that the model is not
at its limit when it happens. Two nodes are enough for a lookup to miss the
newest item and for two puts to reach the nodes in different orders; the third of
`torrent_sole` lets a failed put, a successful one and an empty node coexist. In `LibtorrentFacade` three requests are what it takes for
one to be answered and not yet polled, one pending and one new; the limits are
small so that evictions and native drops happen, and the second add of the one
info hash meets the first torrent still being removed.

`applications` is seven questions in one run: `focus` names the module that moves
in a behaviour, one of `Focus`. The modules do not interact beyond the store, whose operations
the others take over by EXTENDS, so their product would only multiply states.
Its bounds are two of everything that overlaps, and what it takes for the
interesting case to happen: a second flow to be wronged by the first one's poll;
three store operations for set_cursor, unfollow and follow in any order; a preset
and two sources over three endpoints, so that an endpoint is removed and added
again under a new ID; two publishing commands and two users, so that one is
overtaken by a sign-in; three releases, two puts and pages of one, so that a
refresh moves the boundary of a page; files that are prefixes of each other as
strings but not as paths, and the reverse; ranges up to and beyond the end of
files of zero to two bytes, and headers that ask for several ranges. `Strangers` are the publishers that foreign records may name. `MaxRevision`, `MaxSequence` and `MaxPort` are the
integer maxima of the code made small, `ListLimit`, `Listing`, `MaxPage`,
`MaxOffset` and `MaxResults` its limits. `MaxOps`, `MaxPuts`, `MaxFlows` and
`MaxSources` only cut histories short; so does `MaxCommands`, after which no
synchronisation begins either.

`CHECK_DEADLOCK FALSE` is set where the bounds, or a
watcher parked on a silent channel, bring a run to its end.

*Fairness.* `MemoryDataset`: between commit and send there is no await, so
`Notify` is weakly fair, and so is a watcher task that can run; nobody is obliged
to publish. `HomeserverDataset`: only the poll loop, which has no other exit.
`Seeder`: the cycle (an interval that keeps ticking, every await of which carries
a timeout or is a bounded DHT query) and the download of selected files, which
assumes that a current snapshot has a peer; faults are bounded by a counter and
are never required. Nothing is assumed about publishers. `LibtorrentFacade`
has no fairness and no liveness property: `PendingAnswersToCome` says that a
pending request's answer is on its way, and the rest is up to libtorrent.
`DesktopAuth` (`ApprovalSignsIn`): the interval of `App.tsx` keeps ticking while
a code is displayed and every poll goes on; `PollClear` is strongly fair because
tokio's mutex is FIFO, so that a poll that waits for it gets it although others
come and go; `PollGrant` is, because an error of the relay is transient. Of either
it is assumed only that some poll's turn comes. Nobody is obliged to approve, to
begin or to sign out. The other modules of the applications state no fairness:
their properties are about what commands may do, and each command is bounded by
timeouts of libraries the models do not look into.

*What the facade does not promise.* libtorrent drops alerts nobody pops, even
critical ones at three times its `alert_queue_size` (2,000 unless set, and
facade.cc does not set it). `AnswersPairUp` shows what remains true then: an
answer is never another torrent's and never older than its request. What is lost
is the pairing itself: a later request's answer settles an earlier one, and the
later one stays pending.

## Disagreements found

* `seeder_rollback`: `docs/SECURITY.md` says lower sequences are rejected. The
  seeder rejects them where it reannounces, but `load` resolves the head again
  with no recorded sequence, so it may pin an older snapshot.
* `seeder_conflict`: `docs/SECURITY.md` calls an equal sequence with a different
  manifest a conflict. `HeadClient::resolve` compares sequences only.
* `seeder_wedge`: `docs/DEMO.md` says the service pins current snapshots. One
  timeout while the manifest is fetched, or one restart, leaves the torrent
  managed, and `add_magnet` refuses it from then on. With an `add_magnet` that
  hands back the managed torrent the same property holds on the same instance.
* `publishing_releases`: `docs/SECURITY.md` says that homeservers are untrusted and
  that clients verify the publisher. Synchronisation compares the issuer of a claim,
  but caches a release whatever publisher it names (discovery does compare,
  `RefreshRefuses`).

Three more contradict a document, are contained in the models, and have no run of
their own; the properties named say what is left:

* *A late head write* (`dataset-homeserver` `lib.rs:236`). The `DatasetPublisher`
  contract (`dataset-core` `lib.rs:505-509`) says a mismatch with
  `expected_previous` must be rejected, and `docs/SECURITY.md:30-32` calls
  publication serialized in-process. The mutex is released when `put_json` returns
  an error or the process dies, so a head write that was given up on may land after
  a newer publication of the same process, and takes its place. So may a write of
  another process, which the same sentence of `SECURITY.md` admits. Hence the
  exceptions of `NoOwnUpdateLost`, and no refinement of `DatasetAuthority`.
* *Two heads of one sequence* (`dataset-torrent` `lib.rs:342`). The same contract. A
  torrent publisher compares sequences with the network, and puts of two publishers
  may be stored by different nodes, both of them successful. One of the two then
  goes on from its own head when only the other is left in the DHT. Hence
  `HeadsReplacedInTurn` is about single nodes.
* *A full disk* (`seeder` `main.rs:85-91`). `docs/DEMO.md:102-103` says the service
  refreshes signed items and stops adding data at the disk budget. With the budget
  used up it leaves the loop over its publishers before it resolves and reannounces,
  so their heads are no longer refreshed and may vanish from the DHT. Hence the
  hypothesis of `HeadKeptAliveWithinBudget`.

Disagreements and gaps met while modelling the applications, where no document
claims the opposite. The models contain them, and the properties say what holds
in spite of them:

* *A poll clears a flow that is not its own.* `poll_auth` stores the session,
  drops `auth_flow` and takes it again to empty it (desktop `lib.rs:320`). A
  `start_auth` in between installs a new flow that the poll then removes. Hence
  the last disjunct of `ApprovalSignsIn`.
* *The interface can show "signed out" with a session in place*: an answer of a
  poll that saw no flow may arrive after the one that signed in (`App.tsx:249`).
* *`restartAuth` before the expiry only takes the code off the display*, because
  `beginAuth` still sees the old `authUrl` (`App.tsx:309-332`): `StartOver`.
* *A file that is also a directory can go unnoticed.* `swarm-protocol` compares
  whole paths (`lib.rs:536`, `:907`), and in `a`, `a-b`, `a/c` the colliding ones
  are not neighbours. `CatalogRecords.PathsOk` does the same. `torrent-engine`
  sorts by components, which is why `FilesApart` holds there.
* *`sync_followed` stops at the first publisher whose records fail*, a foreign claim
  included; those after it are not synchronised.
* *Revisions are unique as long as one listing holds all claims* (1,000):
  beyond that the highest known one may not be the highest. Hence the guard of
  `RevisionsUnique`.
* *A magnet for a torrent that is managed by the time it is added is answered with
  that torrent*, and the selection of the caller is ignored (`AddToSession`).
* *A release that is edited so that it no longer matches moves those behind it
  towards earlier pages*, and a client may miss one. Hence `edited` in
  `PagingSkipsNothing`.

## Proofs

The invariants named below are inductive; the property proved is a part of each, or
follows from it.

### The datasets

`MemoryDataset_proofs` (any sets of digests, tasks and watchers, any maximal
sequence) proves type correctness, `AcknowledgedOnce`, `HintWasCommitted` and the
refinement of `DatasetAuthority`. The inductive invariant `IInv` conjoins these
invariants with `NoLostUpdate` and `CallShape`: a commit keeps the log chained
because the head is its last entry, an acknowledged call keeps its place because
the log is numbered by sequence, and a hint is committed because the call about
to send it is acknowledged.

`HomeserverDataset_proofs` (any processes, tasks, readers, digests and objects,
late writes or not) proves type correctness, `HeadComplete` and `ReadsComplete`.
`HeadComplete` alone is not inductive, because any call, or any late write, may
be the next to overwrite the head: `UploadInv` says what each call has uploaded
by the time it is where it is, `LateInv` that a late write names a complete
state, `ReadInv` that a get works on one. What makes them stable is that storage
under digest-addressed paths only grows (`CompleteIsStable`).
`ProcessesKeepTheirOwnUpdates` proves `NoOwnUpdateLost` from `Ordered`: a call under
way holds the mutex of its process, so no other call of the process is, and between
the head it was compared with and the one it is about to overwrite there are only
late writes and those of other processes. Nothing is assumed of processes, of late
writes or of what fails.

`TorrentPublisher_proofs` (any publishers, nodes, reachable and forgetful nodes,
restored state) proves type correctness and `SeededBeforePublished`, whose
strengthening `CallInv` says that a call past staging is about to put something
seeded. `NodesReplaceInTurn` proves `HeadsReplacedInTurn` for any publishers, lookups,
crashes and order of arrival, from the hypothesis that the key exists: a request
carries the sequence that the call looked up as its cas, and signs the next one
(`TurnInv`), so a node takes it only as the successor of what it holds. A first
publication has no cas, and that is what the hypothesis rules out. Nothing relates
the nodes to each other, and no theorem says that they agree.
`SolePublisherIsAuthority` proves the refinement from `SoleOwner`: one publisher,
with a new key, saves its state with each publication. Nothing is asked of the
DHT. Past the reconciliation of its state with what it looked up, a call is based
on the publisher's own last publication (`ReconciledInv`), and a crash restarts
from that one. Hence it acknowledges no sequence twice (`SoleNeverRepeats`), though
nodes forget, requests of failed calls arrive late, and its first publication
carries no cas.

### The seeder

`Seeder_proofs` (any targets, nodes, bounds and faults) proves type correctness,
`PinnedIsComplete`, `ReannouncesNewest` and `OverrunBounded`. `TableInv` types
the tables, `CycleInv` says where a cycle is and that in load it has resolved a
head, and `WaitInv` that `pin_current` waits for the whole snapshot, not for the
manifest that `load` selected. For the disk: besides the snapshot in progress,
each fault left at most two selected units that are not on disk (`LeftInv`),
since a pin that ends well ends with all it selected; so what is selected exceeds
what `measure` saw by no more than that, and by one snapshot once a pin is under
way (`MeasuredInv`), and a pin only begins below the limit. The sums are
cardinalities of sets of units, so that no induction is needed.

### The facade

`LibtorrentFacade_proofs` (any torrents, requests, alerts and limits) proves type
correctness, `AnswersPairUp`, `PendingAnswersToCome`, `AlertsNameTheirTorrent`,
`BacklogIsNewest` and, of every step, `IdsNeverReused`. The facade settles the
oldest pending request of a torrent whatever answer arrives, so that the right
one is settled is a matter of counting: up to any request, no more answers are
outstanding than requests are pending (`Covered`; ranks in the two sets), and
exactly theirs while nothing was lost. libtorrent answers in the order it was
asked (`InOrder`). Hence the answer that arrives is never older than the oldest
pending request. Names need two more parts: the stages of a removal (a command,
a torrent being stopped, an alert) are under way at most once per torrent
(`RemovalsOnce`), so the record that the last stage erases, and that `RecordsInv`
pairs with the ID issued for it, is there until then.

### The applications

`Desktop_proofs`, on `DesktopAuth` (any number of polls and flows): type
correctness and `SignedOutStaysOut`. That alone is not inductive: a poll about to
store its session might hold any flow. `PollInv` says that it holds the mutex and
that its flow is still in place, `SignOutInv` that `sign_out` leaves `auth_flow`
empty between its two locks, and `EndedInv` that no flow it ended is in place.

On `TorrentTransfers` (any metainfo, selections, headers and limits):
`TransfersAreSound`, which consists of three parts. The gateway sends the bytes a
Range header asks for, and refuses headers that are not of one range
(`ResponsesAreExact`, from the lemmas `RangeIsRequested` and `OthersAreRefused` about
`ParseRange`). A torrent is managed once (`TorrentsAreManagedOnce`), on
which that rests: the torrent whose index was checked is the one that is read. No
two files of a managed torrent collide. What is managed was validated
(`AdmittedInv`), and validation compares neighbours of the sorted paths only. That
this is enough is proved of the order: lexicographic order by components is a
strict total order (the proof takes the first index at which two paths differ),
and whatever lies between a path and one it is a prefix of has that prefix as
well, so if any two paths collide, two neighbours do.

On `CatalogRecords` (any strings, subjects, sources, objects): `AcceptedIsGenuine`.
A record accepted under an ID has the bytes the ID was derived of (`SentInv`); so
two records of one schema with the same canonical bytes must agree in every
covered field. Each encoding is separable: of two values with different bytes,
the bytes differ at an index both have, so that neither is a prefix of the other
and the concatenation of fields comes apart at one place only. Lengths in front
of strings and counts in front of lists are what makes it so.

`Store_proofs`, on `SwarmStore` (any publishers, artifacts, endpoints, builds and
their presets): `StoreIntact`, and that no step forgets (`NothingIsForgotten`).
`RowsInv` is the strengthening: IDs are those given out, an ID or an endpoint has
one row, and before version 3 there is none, without which the third migration
could not insert its preset as row 1.

On `CatalogSearch`, `KeysStayWithTheirSource`: an ID is ever paired with one
endpoint (`PairsInv`), in the table, among the keys, and in what any command has
read, because the store gives out no ID twice. On `Publishing`, `RevisionsUnique`:
the command that numbers claims holds the lock, so what it has not cached of its
issuer's claims is still to be read, and the revisions it is about to write are
after all that are there (`PublishingInv`). A listing may also name claims of others;
what is still to be read is of the issuer or will end the command, so that
`RecordsUnderTheirAuthority` comes with it. On `Discovery`, `FollowedIsIndexed`: what a listing named is still to be
read, being checked, or cached (`RefreshInv`); and `PagingSkipsNothing`: what has
matched throughout was received, or is at the client's offset or beyond (`Ahead`
in `PagingInv`). A refresh moves a result towards later places only, because new
releases are inserted before it and none is removed (`edited` aside), and a page
takes a set of places starting at the offset.

The types of these modules rest on their invariants. `StoreTypeOK`: the third
migration finds no row, a preset or a source that is added gets the next ID, and
what `validate` lets pass is within the limits (`StoreTypeCorrect`). The revisions
that a command is about to write are at most `MaxRevision`, since the sum is checked
(`PublishingTypeCorrect`). A page ends with the last record that a client may get, so
that its offset never passes `MAX_OFFSET` (`PageWithinOffset`, `DiscoveryTypeCorrect`).
An ID that is paired with a key was given out (`PairsInv`, `CatalogTypeCorrect`).

`Applications_proofs` is about `MCApplications`: each invariant that its run checks,
and `StoreForgetsNothing`, for the composition, whichever module has the focus. The
modules that share no state with others keep their invariants at any step
(`ApartInv`); of those over the store, the one in focus does (`FocusInv`, `SteadyInv`,
`CommandsInv`, `IdleInv`), and the others stay as they began. `TypeOK`
(`TypesAlwaysHold`) puts the types of all seven together. For `OrderIndependent`, the results found so far are blocks, one per source
that has answered, in any order but each in that of its feed (`CallInv` of
`SearchInv`). The sort by source, and by title within it, is stable, so it yields
one sequence whatever the order of the blocks: source, title and place in the feed
are a strict total order, in which each result has a rank of its own
(`SortedBlocks`). That IDs of sources are distinct is again `PairsInv`.

### Assumptions and limits

The constants are assumed to be what they are in the code, by a named ASSUME in the
module that declares each; the runs evaluate all of them.

* `NoDigest`, `NoTask`, `NoPath`, `NoHash`, `NoPoll` and `None` are not members of
  the sets they complete; maxima and limits are natural numbers, or positive ones.
* Every task has a process and every digest a set of paths; `Order` lists the
  seeder's targets; what a torrent publisher is restored from has a hash if and
  only if it has a sequence; what can be reached or forgets are nodes.
* `Strangers` is a finite set of publishers.
* There is at least one build, and each build's presets are distinct endpoints; the
  first build has a preset, which the third migration inserts; submitted settings have a port of at most `MaxPort`, or none.
* Requests are finite and not empty; feeds are sequences of results; a release's
  publisher and ID determine its time and rank, and the reverse, since the ID is
  derived of it.
* Paths are sequences of components, components of characters; lengths of files and
  the numbers of a Range header are natural numbers; torrent IDs are finitely many,
  as hashes are. Values of a record's fields are of the field's type.

Arguments by induction occur where a set of natural numbers has a least element, or
where a set that contains 0 and each successor is all of them; the rest is counted
with cardinalities.

Every invariant and every action property that a run expects to hold is proved, as
are the two refinements. Hypotheses beyond the assumptions above are those of
`SolePublisherIsAuthority` and `SoleNeverRepeats` (`SoleOwner`) and of
`NodesReplaceInTurn` (a head exists). Only model-checked: the liveness properties (`WatcherSettles`,
`WatchersCatchUp`, `PinsCurrentWithoutFaults`, `HeadKeptAliveWithinBudget`,
`ApprovalSignsIn`), since liveness under fairness is out of the prover's reach. The
four violations are what TLC finds.


## Not modelled

* `qbittorrent-connector` and `benchmark`: no state of their own. The import of a
  completed qBittorrent torrent is `ImportFile`.
* `dataset-core`: `FreshnessTracker`, which nothing calls outside tests, and the
  validation of a snapshot. `dataset-torrent`: `get`, the polling watcher, and
  concurrent calls on one reader, which no program of the repository makes.
* Of the desktop: settings beyond their storage, follows beyond the store's
  operations, previews and the pending magnet, the qBittorrent commands, and
  rendering. A write to a homeserver that was reported as failed does not take
  effect later in `Publishing` (in `HomeserverDataset` it may). A homeserver that
  keeps records of its user back, or makes some up in that user's name: records carry
  no signature, and no check of the program could tell. For revisions beyond one
  listing no property holds (`PROJECT.json`, hazards).
* Of `Seeder`: the requests of one reannouncement, which reach their nodes in one
  step (in `TorrentPublisher` each has its own).
* Of `swarm-protocol`: character classes, length limits and the formats of URIs,
  hashes and keys, which are values that pass or do not; `verify_object`.
* Of `discovery` and `catalog-client`: XML, RSS and Torznab rendering and parsing,
  the base URL, the capabilities document.
* Of `torrent-engine`: progress, rate limits, piece lengths, and the storage below
  librqbit. Of `stream-gateway`: the capability token. A listen port is
  stored and validated (`SwarmStore`); the range of ports made of it is not
  modelled (for 65535 the desktop listens on 65534, `lib.rs:1522`).
* Of `libtorrent-engine`: the calls that change libtorrent's state only (pausing,
  limits, priorities, rechecks, reannouncements), and input limits.
* Signatures and transport encodings, which are assumed to hold, and the vendored
  libtorrent beyond what `LibtorrentFacade` needs of it.

`PROJECT.json` gives the reason for each component.
