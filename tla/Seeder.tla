------------------------------- MODULE Seeder -------------------------------
(***************************************************************************)
(* services/seeder: a process that, once per refresh interval, walks the   *)
(* publishers it is configured with, refreshes each one's signed head in   *)
(* the DHT and pins the snapshot the head names (seed_cycle), through      *)
(* HeadClient (crates/swarm-head), TorrentDatasetReader::pin_current       *)
(* (crates/dataset-torrent) and TorrentEngine::add_magnet                  *)
(* (crates/torrent-engine).                                                *)
(*                                                                         *)
(* The sequence table and the managed torrents survive a restart; the      *)
(* loaded snapshot of each reader does not. Around the process, publishers *)
(* publish, DHT nodes forget, and the torrent engine downloads what is     *)
(* selected whether or not anybody still waits for it. What a run of the   *)
(* model may see go wrong is counted by faults: a request that reaches     *)
(* only some nodes, a failed or timed out operation, a node forgetting an  *)
(* item, a crash.                                                          *)
(***************************************************************************)
EXTENDS MainlineDht, Sequences, FiniteSets, FiniteSetsExt

CONSTANTS
    Targets,    \* the configured publishers
    Order,      \* the order of seed_cycle's loop over them
    MaxDisk,    \* config.max_disk_bytes; a snapshot is 2 units, its manifest 1 of them
    MaxFaults   \* bound of the model: faults of any kind

ASSUME OrderAssumption == Order \in Seq(Targets) /\ {Order[i] : i \in DOMAIN Order} = Targets
ASSUME MaxDiskAssumption == MaxDisk \in Nat
ASSUME MaxFaultsAssumption == MaxFaults \in Nat

VARIABLES
    dht,        \* the slot of each publisher
    published,  \* info hashes each publisher has used
    highest,    \* the authority_sequences table; 0 when there is no row
    accepted,   \* history: the last head seed_cycle accepted
    managed,    \* torrents the engine manages, as <<target, hash>>
    want,       \* how much of each is selected: 0 paused, 1 the manifest, 2 all
    have,       \* how much of each is on disk
    loaded,     \* TorrentDatasetReader.loaded; NoItem for None
    pinned,     \* the head the last successful pin_current returned
    cycle,      \* the progress of seed_cycle
    faults      \* faults so far

vars == <<dht, published, highest, accepted, managed, want, have, loaded, pinned, cycle, faults>>
authority == <<dht, published, highest, accepted>>
engine == <<managed, want, have>>

Torrents == Targets \X Hash
CycleState == [pc   : {"idle", "head", "reannounce", "load", "add", "manifest", "select",
                       "wait", "measure"},
               at   : 1..(Len(Order) + 1),   \* position in the loop
               used : Nat,                   \* directory_size, as last measured
               load : Item]                  \* the head load() resolved

TypeOK ==
    /\ dht \in [Targets -> Slot]
    /\ published \in [Targets -> SUBSET Hash]
    /\ highest \in [Targets -> 0..MaxSequence]
    /\ accepted \in [Targets -> Item]
    /\ managed \subseteq Torrents
    /\ want \in [Torrents -> 0..2]
    /\ have \in [Torrents -> 0..2]
    /\ loaded \in [Targets -> Item]
    /\ pinned \in [Targets -> Item]
    /\ cycle \in CycleState
    /\ faults \in 0..MaxFaults

Idle == [pc |-> "idle", at |-> 1, used |-> 0, load |-> NoItem]

Init ==
    /\ dht = [t \in Targets |-> EmptySlot]
    /\ published = [t \in Targets |-> {}]
    /\ highest = [t \in Targets |-> 0]
    /\ accepted = [t \in Targets |-> NoItem]
    /\ managed = {}
    /\ want = [x \in Torrents |-> 0]
    /\ have = [x \in Torrents |-> 0]
    /\ loaded = [t \in Targets |-> NoItem]
    /\ pinned = [t \in Targets |-> NoItem]
    /\ cycle = Idle
    /\ faults = 0

\* A step that costs k faults.
Costs(k) == faults + k <= MaxFaults /\ faults' = faults + k

\* A request that reaches every node is free.
Reaches(R) == Costs(IF R = Nodes THEN 0 ELSE 1)

\* directory_size: the units of each snapshot that are on disk, its manifest first.
OnDisk == {u \in Torrents \X (1..2) : have[u[1]] >= u[2]}
DiskUse == Cardinality(OnDisk)
-----------------------------------------------------------------------------
(* seed_cycle *)

Target == Order[cycle.at]
AtTarget(pc) == cycle.pc = pc /\ cycle.at <= Len(Order)
\* used >= config.max_disk_bytes; the defect measures but does not stop.
NoDiskLimit == TRUE
BelowDiskLimit == cycle.used < MaxDisk

\* interval.tick() and the measurement at the start of a cycle.
Tick ==
    /\ cycle.pc = "idle"
    /\ cycle' = [Idle EXCEPT !.pc = "head", !.used = DiskUse]
    /\ UNCHANGED <<authority, engine, loaded, pinned, faults>>

\* The loop is over, or the disk limit breaks out of it.
EndCycle ==
    /\ cycle.pc = "head"
    /\ cycle.at > Len(Order) \/ ~BelowDiskLimit
    /\ cycle' = Idle
    /\ UNCHANGED <<authority, engine, loaded, pinned, faults>>

\* head.sequence() < highest_seen; the defect never looks.
AcceptsAnything(t, item) == FALSE
RolledBack(t, item) == item.seq < highest[t]

\* resolve with highest_seen, and record_authority_sequence, which keeps the maximum.
ResolveHead(R) ==
    /\ AtTarget("head") /\ BelowDiskLimit
    /\ \E item \in MostRecent(dht[Target], R) :
          /\ item # NoItem
          /\ ~RolledBack(Target, item)
          /\ highest' = [highest EXCEPT ![Target] = Max({@, item.seq})]
          /\ accepted' = [accepted EXCEPT ![Target] = item]
    /\ cycle' = [cycle EXCEPT !.pc = "reannounce"]
    /\ Reaches(R)
    /\ UNCHANGED <<dht, published, engine, loaded, pinned>>

\* `continue`: no head, a rollback, or (a fault) an error of the store.
NextTarget == cycle' = [cycle EXCEPT !.pc = "head", !.at = @ + 1]

SkipTarget(R) ==
    /\ AtTarget("head") /\ BelowDiskLimit
    /\ \/ /\ \E item \in MostRecent(dht[Target], R) : item = NoItem \/ RolledBack(Target, item)
          /\ Reaches(R)
       \/ Costs(1)
    /\ NextTarget
    /\ UNCHANGED <<authority, engine, loaded, pinned>>

\* Defect: the head is not put back.
ReannounceNothing(R) ==
    /\ cycle.pc = "reannounce"
    /\ cycle' = [cycle EXCEPT !.pc = "load"]
    /\ Reaches(R)
    /\ UNCHANGED <<authority, engine, loaded, pinned>>

\* reannounce(&head), without a cas. A failure is logged and the cycle goes on.
Reannounce(R) ==
    /\ cycle.pc = "reannounce"
    /\ dht' = [dht EXCEPT ![Target] = Put(@, R, accepted[Target], 0)]
    /\ cycle' = [cycle EXCEPT !.pc = "load"]
    /\ Reaches(R)
    /\ UNCHANGED <<published, highest, accepted, engine, loaded, pinned>>
-----------------------------------------------------------------------------
(* TorrentDatasetReader::load and pin_current *)

\* pin_current returns, with or without an error.
PinReturns == cycle' = [cycle EXCEPT !.pc = "measure", !.load = NoItem]

\* directory_size(..).unwrap_or(used): a scan that fails keeps the old measurement.
Measure ==
    /\ cycle.pc = "measure"
    /\ \/ cycle' = [cycle EXCEPT !.pc = "head", !.at = @ + 1, !.used = DiskUse] /\ Costs(0)
       \/ cycle' = [cycle EXCEPT !.pc = "head", !.at = @ + 1] /\ Costs(1)
    /\ UNCHANGED <<authority, engine, loaded, pinned>>

\* The loaded snapshot has the sequence and the info hash of the head; the defect is
\* content with any.
AnyLoaded(item) == loaded[Target] # NoItem
CacheHit(item) == loaded[Target] = item

\* A second lookup, without highest_seen, and the test of the loaded snapshot.
LoadHead(R) ==
    /\ cycle.pc = "load"
    /\ \E item \in MostRecent(dht[Target], R) :
          \/ item = NoItem /\ PinReturns
          \/ item # NoItem /\
             cycle' = IF CacheHit(item)
                      THEN [cycle EXCEPT !.pc = "select", !.load = loaded[Target]]
                      ELSE [cycle EXCEPT !.pc = "add", !.load = item]
    /\ Reaches(R)
    /\ UNCHANGED <<authority, engine, loaded, pinned>>

Loading == <<Target, cycle.load.hash>>

\* wait_for_peers, add_magnet, update_only_files(manifest), resume.
AddMagnet ==
    /\ cycle.pc = "add"
    /\ Loading \notin managed
    /\ managed' = managed \cup {Loading}
    /\ want' = [want EXCEPT ![Loading] = 1]
    /\ cycle' = [cycle EXCEPT !.pc = "manifest"]
    /\ UNCHANGED <<authority, have, loaded, pinned, faults>>

\* add_magnet finds the torrent managed ("list_only magnet resolution left a managed
\* torrent behind") and load returns the error.
AlreadyManaged ==
    /\ cycle.pc = "add"
    /\ Loading \in managed
    /\ PinReturns
    /\ UNCHANGED <<authority, engine, loaded, pinned, faults>>

\* No peers, or add_magnet timed out before or after the session took the torrent.
AddTimesOut ==
    /\ cycle.pc = "add"
    /\ managed' \in {managed, managed \cup {Loading}}
    /\ PinReturns
    /\ Costs(1)
    /\ UNCHANGED <<authority, want, have, loaded, pinned>>

\* wait_until_completed: the selected files are on disk.
SelectionComplete == have[Loading] >= want[Loading]

LoadManifest ==
    /\ cycle.pc = "manifest"
    /\ SelectionComplete
    /\ loaded' = [loaded EXCEPT ![Target] = cycle.load]
    /\ cycle' = [cycle EXCEPT !.pc = "select"]
    /\ UNCHANGED <<authority, engine, pinned, faults>>

\* Defect: only what load selected stays selected.
SelectNothingMore ==
    /\ cycle.pc = "select"
    /\ cycle' = [cycle EXCEPT !.pc = "wait"]
    /\ UNCHANGED <<authority, engine, loaded, pinned, faults>>

\* update_only_files(all), resume.
SelectAll ==
    /\ cycle.pc = "select"
    /\ want' = [want EXCEPT ![Loading] = 2]
    /\ cycle' = [cycle EXCEPT !.pc = "wait"]
    /\ UNCHANGED <<authority, managed, have, loaded, pinned, faults>>

\* wait_until_completed and announce.
Pin ==
    /\ cycle.pc = "wait"
    /\ SelectionComplete
    /\ pinned' = [pinned EXCEPT ![Target] = cycle.load]
    /\ PinReturns
    /\ UNCHANGED <<authority, engine, loaded, faults>>

\* A timeout or an error while waiting for the manifest, selecting, waiting for the
\* rest or announcing. The torrent stays in the session.
PinFails ==
    /\ cycle.pc \in {"manifest", "select", "wait"}
    /\ PinReturns
    /\ Costs(1)
    /\ UNCHANGED <<authority, engine, loaded, pinned>>

SeedCycle ==
    \/ Tick \/ EndCycle
    \/ \E R \in SUBSET Nodes : ResolveHead(R) \/ SkipTarget(R) \/ Reannounce(R) \/ LoadHead(R)
    \/ AddMagnet \/ AlreadyManaged \/ AddTimesOut
    \/ LoadManifest \/ SelectAll \/ Pin \/ PinFails \/ Measure

\* The process dies and is started again.
Crash ==
    /\ cycle.pc # "idle"
    /\ cycle' = Idle
    /\ loaded' = [t \in Targets |-> NoItem]
    /\ Costs(1)
    /\ UNCHANGED <<authority, engine, pinned>>
-----------------------------------------------------------------------------
(* The environment *)

\* The engine fetches the selected files of a torrent, piece by piece.
Download(x) ==
    /\ x \in managed
    /\ have[x] < want[x]
    /\ have' = [have EXCEPT ![x] = @ + 1]
    /\ UNCHANGED <<authority, managed, want, loaded, pinned, cycle, faults>>

\* checked_add(1); the defect is an unchecked one.
AlwaysNext(item) == TRUE
HasNextSequence(item) == item.seq < MaxSequence

\* A publisher publishes: publish_next through the nodes R. A manifest carries its
\* creation time, so every publication has an info hash of its own.
Publish(t, h, R) ==
    /\ h \notin published[t]
    /\ \E item \in MostRecent(dht[t], R) :
          /\ HasNextSequence(item)
          /\ dht' = [dht EXCEPT ![t] = Put(@, R, [seq |-> item.seq + 1, hash |-> h], item.seq)]
    /\ published' = [published EXCEPT ![t] = @ \cup {h}]
    /\ Reaches(R)
    /\ UNCHANGED <<highest, accepted, engine, loaded, pinned, cycle>>

Expire(t, n) ==
    /\ dht[t][n] # NoItem
    /\ dht' = [dht EXCEPT ![t] = [@ EXCEPT ![n] = NoItem]]
    /\ Costs(1)
    /\ UNCHANGED <<published, highest, accepted, engine, loaded, pinned, cycle>>

Next == \/ SeedCycle
        \/ Crash
        \/ \E x \in Torrents : Download(x)
        \/ \E t \in Targets, h \in Hash, R \in SUBSET Nodes : Publish(t, h, R)
        \/ \E t \in Targets, n \in Nodes : Expire(t, n)

Spec == Init /\ [][Next]_vars

\* The interval keeps ticking, no await of the cycle is unbounded, and a snapshot
\* that is being seeded is downloaded in the end.
FairSpec == Spec /\ WF_vars(SeedCycle) /\ \A x \in Torrents : WF_vars(Download(x))
-----------------------------------------------------------------------------
(* Properties *)

\* A head is reported as pinned only when its whole snapshot is on disk, whatever
\* timed out, crashed or was half downloaded before (load selects the manifest only,
\* pin_current must widen the selection also when load was served from its cache).
PinnedIsComplete ==
    \A t \in Targets : pinned[t] # NoItem => have[<<t, pinned[t].hash>>] = 2

\* What the seeder is about to put back into the DHT is the newest head it has ever
\* recorded, also after a restart, over stale lookups and forgetful nodes: a
\* non-authoritative seeder does not revive an old head (resolve with highest_seen).
ReannouncesNewest ==
    cycle.pc = "reannounce" => accepted[Target].seq = highest[Target]

\* The newest item any node holds.
Newest(t) == MostRecent(dht[t], Nodes)

\* docs/DEMO.md: the seeder refreshes signed items, and at the disk budget it stops adding
\* data. Of each publisher, the head the seeder recorded ends up on every node for good.
HeadKeptAlive ==
    \A t \in Targets : <>[](\A n \in Nodes : dht[t][n].seq >= highest[t])

\* So it does while the budget is not used up: one lost item, or one failed step, does
\* not lose the head. With the budget used up no head is resolved or put back any more.
HeadKeptAliveWithinBudget == [](DiskUse < MaxDisk) => HeadKeptAlive

\* The service pins current snapshots: once publishing stops, the newest head of every
\* publisher is the pinned one.
PinsCurrent == \A t \in Targets : <>[](pinned[t] \in Newest(t))

\* So it does as long as nothing times out, fails or crashes and the disk budget is not
\* used up, wherever in a cycle the publications fall and though the head is resolved twice.
PinsCurrentWithoutFaults == [](faults = 0 /\ DiskUse < MaxDisk) => PinsCurrent

\* The disk limit is read before a pin and never during one, and the engine goes on
\* with what a failed pin selected: the limit is overrun by less than the snapshot
\* being pinned and one for each failure, and by no more.
OverrunBounded == DiskUse < MaxDisk + 2 * (1 + faults)

\* docs/SECURITY.md: clients persist the highest accepted authority sequence and lower
\* sequences are rejected. What is pinned is not below what was recorded.
PinnedNotBelowRecorded ==
    [][\A t \in Targets : pinned'[t] # pinned[t] => pinned'[t].seq >= highest[t]]_vars

\* docs/SECURITY.md: an equal sequence with a different manifest is a conflict, so it is
\* not accepted in place of the first.
ConflictRejected ==
    [][\A t \in Targets : accepted'[t].seq = accepted[t].seq => accepted'[t] = accepted[t]]_vars
=============================================================================
