--------------------------- MODULE Seeder_proofs ----------------------------
(***************************************************************************)
(* Proofs about Seeder, for any targets, nodes, info hashes and bounds,    *)
(* and any number of faults.                                               *)
(***************************************************************************)
EXTENDS Seeder, FiniteSetTheorems, TLAPS

\* An item of the DHT of this system: no item, or a signed head with an info hash.
SomeItem == {NoItem} \cup [seq : 1..MaxSequence, hash : Hash]

\* What the tables hold.
TableInv ==
    /\ dht \in [Targets -> [Nodes -> SomeItem]]
    /\ highest \in [Targets -> Nat]
    /\ accepted \in [Targets -> SomeItem]
    /\ loaded \in [Targets -> SomeItem]
    /\ pinned \in [Targets -> SomeItem]
    /\ want \in [Torrents -> 0..2]
    /\ have \in [Torrents -> 0..2]

\* Where a cycle is: past the head of the loop it works on a target, and in load and
\* pin_current from the magnet on, on a head it has resolved.
CycleInv ==
    /\ DOMAIN cycle = {"pc", "at", "used", "load"}
    /\ cycle.at \in 1..(Len(Order) + 1)
    /\ cycle.pc \notin {"idle", "head"} => cycle.at <= Len(Order)
    /\ cycle.load \in SomeItem
    /\ cycle.pc \in {"add", "manifest", "select", "wait"} => cycle.load # NoItem

\* pin_current waits for the whole snapshot.
WaitInv == cycle.pc = "wait" => want[Loading] = 2

\* The inductive invariant.
SeederInv == TableInv /\ CycleInv /\ WaitInv /\ PinnedIsComplete /\ ReannouncesNewest
-----------------------------------------------------------------------------
LEMMA OrderFacts == /\ Len(Order) \in Nat
                    /\ \A i \in 1..Len(Order) : Order[i] \in Targets
  BY OrderAssumption

LEMMA NoItemIsAnItem == NoItem \in SomeItem
  BY DEF SomeItem

LEMMA HeadFields ==
  ASSUME NEW item \in SomeItem
  PROVE  item.seq \in Nat /\ (item # NoItem => item.hash \in Hash)
  BY MaxSequenceAssumption DEF SomeItem, NoItem

LEMMA MaxOfTwo ==
  ASSUME NEW a \in Nat, NEW b \in Nat, a <= b
  PROVE  Max({a, b}) = b
  BY DEF Max

LEMMA MostRecentIsHead ==
  ASSUME NEW slot \in [Nodes -> SomeItem], NEW R \in SUBSET Nodes, NEW item \in MostRecent(slot, R)
  PROVE  item \in SomeItem
  BY NoItemIsAnItem DEF MostRecent

LEMMA PutKeepsHeads ==
  ASSUME NEW slot \in [Nodes -> SomeItem], NEW R, NEW item \in SomeItem, NEW cas
  PROVE  Put(slot, R, item, cas) \in [Nodes -> SomeItem]
  BY DEF Put

\* Where the target and the snapshot in progress are.
LEMMA TargetType ==
  ASSUME SeederInv, cycle.at <= Len(Order)
  PROVE  Target \in Targets
  BY OrderFacts DEF SeederInv, CycleInv, Target

LEMMA LoadingType ==
  ASSUME SeederInv, cycle.pc \in {"add", "manifest", "select", "wait"}
  PROVE  Target \in Targets /\ Loading \in Torrents
  BY TargetType, HeadFields DEF SeederInv, CycleInv, Loading, Torrents

LEMMA IdleFields == /\ DOMAIN Idle = {"pc", "at", "used", "load"} /\ Idle.pc = "idle"
                    /\ Idle.at = 1 /\ Idle.load = NoItem
  BY DEF Idle

LEMMA InitSeeder == Init => SeederInv
<1> SUFFICES ASSUME Init PROVE SeederInv
  OBVIOUS
<1>1. TableInv
  BY NoItemIsAnItem DEF Init, TableInv, EmptySlot
<1>2. CycleInv /\ WaitInv /\ ReannouncesNewest
  BY NoItemIsAnItem, IdleFields, OrderFacts DEF Init, CycleInv, WaitInv, ReannouncesNewest
<1>3. PinnedIsComplete
  BY DEF Init, PinnedIsComplete
<1> QED
  BY <1>1, <1>2, <1>3 DEF SeederInv
-----------------------------------------------------------------------------
(* Steps of a cycle *)

\* A step that moves the cycle on and changes nothing the rest is about.
LEMMA CycleStep ==
  ASSUME SeederInv, CycleInv', UNCHANGED <<dht, highest, accepted, want, have, loaded, pinned>>,
         cycle'.pc \notin {"wait", "reannounce"}
  PROVE  SeederInv'
  BY DEF SeederInv, TableInv, WaitInv, PinnedIsComplete, ReannouncesNewest

LEMMA PinReturnsCycle ==
  ASSUME SeederInv, PinReturns, cycle.at <= Len(Order)
  PROVE  CycleInv' /\ cycle'.pc = "measure"
  BY NoItemIsAnItem DEF SeederInv, CycleInv, PinReturns

LEMMA LoopStep ==
  ASSUME SeederInv,
         Tick \/ EndCycle \/ Measure \/ \E R \in SUBSET Nodes : SkipTarget(R)
  PROVE  SeederInv'
<1>1. UNCHANGED <<dht, highest, accepted, want, have, loaded, pinned>>
  BY DEF Tick, EndCycle, Measure, SkipTarget, authority, engine
<1>2. CASE Tick
  <2>1. DOMAIN cycle' = {"pc", "at", "used", "load"} /\ cycle'.pc = "head" /\ cycle'.at = 1
        /\ cycle'.load = NoItem
    BY <1>2 DEF Tick, Idle
  <2> QED
    BY <1>1, <2>1, NoItemIsAnItem, OrderFacts, CycleStep DEF CycleInv
<1>3. CASE EndCycle
  <2>1. cycle' = Idle
    BY <1>3 DEF EndCycle
  <2>2. CycleInv' /\ cycle'.pc = "idle"
    BY <2>1, IdleFields, NoItemIsAnItem, OrderFacts DEF CycleInv
  <2> QED
    BY <1>1, <2>2, CycleStep
<1>4. CASE Measure
  <2>1. DOMAIN cycle' = {"pc", "at", "used", "load"} /\ cycle'.pc = "head"
        /\ cycle'.at = cycle.at + 1 /\ cycle'.load = cycle.load
    BY <1>4 DEF Measure, SeederInv, CycleInv
  <2>2. cycle.at <= Len(Order)
    BY <1>4 DEF Measure, SeederInv, CycleInv
  <2>3. CycleInv'
    BY <2>1, <2>2, OrderFacts DEF SeederInv, CycleInv
  <2> QED
    BY <1>1, <2>1, <2>3, CycleStep
<1>5. ASSUME NEW R \in SUBSET Nodes, SkipTarget(R) PROVE SeederInv'
  <2>1. DOMAIN cycle' = {"pc", "at", "used", "load"} /\ cycle'.pc = "head"
        /\ cycle'.at = cycle.at + 1 /\ cycle'.load = cycle.load
    BY <1>5 DEF SkipTarget, NextTarget, SeederInv, CycleInv
  <2>2. cycle.at <= Len(Order)
    BY <1>5 DEF SkipTarget, AtTarget
  <2>3. CycleInv'
    BY <2>1, <2>2, OrderFacts DEF SeederInv, CycleInv
  <2> QED
    BY <1>1, <2>1, <2>3, CycleStep
<1> QED
  BY <1>2, <1>3, <1>4, <1>5

\* resolve refuses what is below highest_seen, so the maximum is what it accepts.
LEMMA ResolveStep ==
  ASSUME SeederInv, NEW R \in SUBSET Nodes, ResolveHead(R)
  PROVE  SeederInv'
<1>1. Target \in Targets /\ cycle.at <= Len(Order)
  BY TargetType DEF ResolveHead, AtTarget
<1>2. PICK item \in MostRecent(dht[Target], R) :
         /\ ~RolledBack(Target, item)
         /\ highest' = [highest EXCEPT ![Target] = Max({highest[Target], item.seq})]
         /\ accepted' = [accepted EXCEPT ![Target] = item]
  BY DEF ResolveHead
<1>3. item \in SomeItem /\ item.seq \in Nat /\ highest[Target] \in Nat
  <2>1. dht[Target] \in [Nodes -> SomeItem]
    BY <1>1 DEF SeederInv, TableInv
  <2>2. item \in SomeItem
    BY <2>1, MostRecentIsHead
  <2> QED
    BY <1>1, <2>2, HeadFields DEF SeederInv, TableInv
<1>4. Max({highest[Target], item.seq}) = item.seq
  BY <1>2, <1>3, MaxOfTwo DEF RolledBack
<1>5. /\ DOMAIN cycle' = {"pc", "at", "used", "load"} /\ cycle'.pc = "reannounce"
      /\ cycle'.at = cycle.at /\ cycle'.load = cycle.load /\ Target' = Target
  BY DEF ResolveHead, SeederInv, CycleInv, Target
<1>6. UNCHANGED <<dht, want, have, loaded, pinned>>
  BY DEF ResolveHead, engine
<1>7. highest' \in [Targets -> Nat] /\ accepted' \in [Targets -> SomeItem]
      /\ accepted'[Target].seq = highest'[Target]
  BY <1>1, <1>2, <1>3, <1>4 DEF SeederInv, TableInv
<1>8. TableInv'
  BY <1>6, <1>7 DEF SeederInv, TableInv
<1>9. CycleInv' /\ WaitInv' /\ ReannouncesNewest'
  BY <1>1, <1>5, <1>7 DEF SeederInv, CycleInv, WaitInv, ReannouncesNewest
<1> QED
  BY <1>6, <1>8, <1>9 DEF SeederInv, PinnedIsComplete

LEMMA ReannounceStep ==
  ASSUME SeederInv, NEW R \in SUBSET Nodes, Reannounce(R)
  PROVE  SeederInv'
<1>1. Target \in Targets /\ cycle.at <= Len(Order)
  BY TargetType DEF Reannounce, SeederInv, CycleInv
<1>2. /\ DOMAIN cycle' = {"pc", "at", "used", "load"} /\ cycle'.pc = "load"
      /\ cycle'.at = cycle.at /\ cycle'.load = cycle.load
  BY DEF Reannounce, SeederInv, CycleInv
<1>3. UNCHANGED <<highest, accepted, want, have, loaded, pinned>>
  BY DEF Reannounce, engine
<1>4. dht' \in [Targets -> [Nodes -> SomeItem]]
  <2>1. Put(dht[Target], R, accepted[Target], 0) \in [Nodes -> SomeItem]
    BY <1>1, PutKeepsHeads DEF SeederInv, TableInv
  <2>2. dht' = [dht EXCEPT ![Target] = Put(dht[Target], R, accepted[Target], 0)]
    BY DEF Reannounce
  <2> QED
    BY <1>1, <2>1, <2>2 DEF SeederInv, TableInv
<1>5. TableInv'
  BY <1>3, <1>4 DEF SeederInv, TableInv
<1>6. CycleInv' /\ WaitInv' /\ ReannouncesNewest'
  BY <1>1, <1>2 DEF SeederInv, CycleInv, WaitInv, ReannouncesNewest
<1> QED
  BY <1>3, <1>5, <1>6 DEF SeederInv, PinnedIsComplete
-----------------------------------------------------------------------------
(* Steps of load and pin_current *)

LEMMA LoadHeadStep ==
  ASSUME SeederInv, NEW R \in SUBSET Nodes, LoadHead(R)
  PROVE  SeederInv'
<1>1. Target \in Targets /\ cycle.at <= Len(Order)
  BY TargetType DEF LoadHead, SeederInv, CycleInv
<1>2. PICK item \in MostRecent(dht[Target], R) :
         \/ item = NoItem /\ PinReturns
         \/ item # NoItem /\
            cycle' = IF CacheHit(item)
                     THEN [cycle EXCEPT !.pc = "select", !.load = loaded[Target]]
                     ELSE [cycle EXCEPT !.pc = "add", !.load = item]
  BY DEF LoadHead
<1>3. item \in SomeItem
  BY <1>1, MostRecentIsHead DEF SeederInv, TableInv
<1>4. UNCHANGED <<dht, highest, accepted, want, have, loaded, pinned>>
  BY DEF LoadHead, authority, engine
<1>5. CASE PinReturns
  BY <1>1, <1>4, <1>5, PinReturnsCycle, CycleStep
<1>6. CASE /\ item # NoItem
           /\ cycle' = IF CacheHit(item)
                       THEN [cycle EXCEPT !.pc = "select", !.load = loaded[Target]]
                       ELSE [cycle EXCEPT !.pc = "add", !.load = item]
  <2>1. /\ DOMAIN cycle' = {"pc", "at", "used", "load"} /\ cycle'.pc \in {"select", "add"}
        /\ cycle'.at = cycle.at /\ cycle'.load = item
    BY <1>6 DEF CacheHit, SeederInv, CycleInv
  <2>2. CycleInv'
    BY <1>1, <1>3, <1>6, <2>1 DEF SeederInv, CycleInv
  <2> QED
    BY <1>4, <2>1, <2>2, CycleStep
<1> QED
  BY <1>2, <1>5, <1>6

LEMMA AddStep ==
  ASSUME SeederInv, AddMagnet
  PROVE  SeederInv'
<1>1. Target \in Targets /\ Loading \in Torrents
  BY LoadingType DEF AddMagnet
<1>2. /\ DOMAIN cycle' = {"pc", "at", "used", "load"} /\ cycle'.pc = "manifest"
      /\ cycle'.at = cycle.at /\ cycle'.load = cycle.load
  BY DEF AddMagnet, SeederInv, CycleInv
<1>3. UNCHANGED <<dht, highest, accepted, have, loaded, pinned>>
  BY DEF AddMagnet, authority
<1>4. want' \in [Torrents -> 0..2]
  BY <1>1 DEF AddMagnet, SeederInv, TableInv
<1>5. TableInv'
  BY <1>3, <1>4 DEF SeederInv, TableInv
<1>6. CycleInv' /\ WaitInv' /\ ReannouncesNewest'
  BY <1>2 DEF AddMagnet, SeederInv, CycleInv, WaitInv, ReannouncesNewest
<1> QED
  BY <1>3, <1>5, <1>6 DEF SeederInv, PinnedIsComplete

LEMMA PinEndsStep ==
  ASSUME SeederInv, AlreadyManaged \/ AddTimesOut \/ PinFails
  PROVE  SeederInv'
<1>1. PinReturns /\ cycle.pc \in {"add", "manifest", "select", "wait"}
  BY DEF AlreadyManaged, AddTimesOut, PinFails
<1>2. cycle.at <= Len(Order)
  BY <1>1 DEF SeederInv, CycleInv
<1>3. UNCHANGED <<dht, highest, accepted, want, have, loaded, pinned>>
  BY DEF AlreadyManaged, AddTimesOut, PinFails, authority, engine
<1> QED
  BY <1>1, <1>2, <1>3, PinReturnsCycle, CycleStep

LEMMA LoadManifestStep ==
  ASSUME SeederInv, LoadManifest
  PROVE  SeederInv'
<1>1. Target \in Targets
  BY LoadingType DEF LoadManifest
<1>2. /\ DOMAIN cycle' = {"pc", "at", "used", "load"} /\ cycle'.pc = "select"
      /\ cycle'.at = cycle.at /\ cycle'.load = cycle.load
  BY DEF LoadManifest, SeederInv, CycleInv
<1>3. UNCHANGED <<dht, highest, accepted, want, have, pinned>>
  BY DEF LoadManifest, authority, engine
<1>4. loaded' \in [Targets -> SomeItem]
  BY <1>1 DEF LoadManifest, SeederInv, TableInv, CycleInv
<1>5. TableInv'
  BY <1>3, <1>4 DEF SeederInv, TableInv
<1>6. CycleInv' /\ WaitInv' /\ ReannouncesNewest'
  BY <1>2 DEF LoadManifest, SeederInv, CycleInv, WaitInv, ReannouncesNewest
<1> QED
  BY <1>3, <1>5, <1>6 DEF SeederInv, PinnedIsComplete

\* The selection is widened to the whole snapshot before the wait, also when load was
\* served from its cache.
LEMMA SelectStep ==
  ASSUME SeederInv, SelectAll
  PROVE  SeederInv'
<1>1. Loading \in Torrents
  BY LoadingType DEF SelectAll
<1>2. /\ DOMAIN cycle' = {"pc", "at", "used", "load"} /\ cycle'.pc = "wait"
      /\ cycle'.at = cycle.at /\ cycle'.load = cycle.load
  BY DEF SelectAll, SeederInv, CycleInv
<1>3. UNCHANGED <<dht, highest, accepted, have, loaded, pinned>>
  BY DEF SelectAll, authority
<1>4. want' \in [Torrents -> 0..2] /\ want'[Loading] = 2
  BY <1>1 DEF SelectAll, SeederInv, TableInv
<1>5. Loading' = Loading
  BY <1>2 DEF Loading, Target
<1>6. TableInv'
  BY <1>3, <1>4 DEF SeederInv, TableInv
<1>7. CycleInv' /\ WaitInv' /\ ReannouncesNewest'
  BY <1>2, <1>4, <1>5 DEF SelectAll, SeederInv, CycleInv, WaitInv, ReannouncesNewest
<1> QED
  BY <1>3, <1>6, <1>7 DEF SeederInv, PinnedIsComplete

LEMMA PinStep ==
  ASSUME SeederInv, Pin
  PROVE  SeederInv'
<1>1. Target \in Targets /\ Loading \in Torrents /\ cycle.at <= Len(Order)
  BY LoadingType DEF Pin, SeederInv, CycleInv
<1>2. have[Loading] = 2
  <2>1. want[Loading] = 2 /\ have[Loading] >= want[Loading]
    BY DEF Pin, SelectionComplete, SeederInv, WaitInv
  <2>2. have[Loading] \in 0..2
    BY <1>1 DEF SeederInv, TableInv
  <2> QED
    BY <2>1, <2>2
<1>3. UNCHANGED <<dht, highest, accepted, want, have, loaded>>
  BY DEF Pin, authority, engine
<1>4. pinned' = [pinned EXCEPT ![Target] = cycle.load] /\ pinned' \in [Targets -> SomeItem]
  BY <1>1 DEF Pin, SeederInv, TableInv, CycleInv
<1>5. TableInv'
  BY <1>3, <1>4 DEF SeederInv, TableInv
<1>6. CycleInv' /\ cycle'.pc = "measure"
  BY <1>1, PinReturnsCycle DEF Pin
<1>7. PinnedIsComplete'
  BY <1>1, <1>2, <1>3, <1>4 DEF SeederInv, TableInv, PinnedIsComplete, Loading
<1> QED
  BY <1>5, <1>6, <1>7 DEF SeederInv, WaitInv, ReannouncesNewest
-----------------------------------------------------------------------------
(* The process and the environment *)

LEMMA CrashStep ==
  ASSUME SeederInv, Crash
  PROVE  SeederInv'
<1>1. CycleInv' /\ cycle'.pc = "idle"
  BY IdleFields, NoItemIsAnItem, OrderFacts DEF Crash, CycleInv
<1>2. TableInv'
  BY NoItemIsAnItem DEF Crash, authority, engine, SeederInv, TableInv
<1> QED
  BY <1>1, <1>2 DEF Crash, engine, SeederInv, WaitInv, PinnedIsComplete, ReannouncesNewest

\* What is on disk stays there.
LEMMA DownloadStep ==
  ASSUME SeederInv, NEW x \in Torrents, Download(x)
  PROVE  SeederInv'
<1>1. /\ have' \in [Torrents -> 0..2]
      /\ \A y \in Torrents : have[y] = 2 => have'[y] = 2
  BY DEF Download, SeederInv, TableInv
<1>2. UNCHANGED <<dht, highest, accepted, want, loaded, pinned, cycle>>
  BY DEF Download, authority
<1>3. TableInv'
  BY <1>1, <1>2 DEF SeederInv, TableInv
<1>4. PinnedIsComplete'
  <2>1. ASSUME NEW t \in Targets, pinned[t] # NoItem
        PROVE  have'[<<t, pinned[t].hash>>] = 2
    <3>1. <<t, pinned[t].hash>> \in Torrents
      BY <2>1, HeadFields DEF SeederInv, TableInv, Torrents
    <3> QED
      BY <1>1, <2>1, <3>1 DEF SeederInv, PinnedIsComplete
  <2> QED
    BY <1>2, <2>1 DEF PinnedIsComplete
<1> QED
  BY <1>2, <1>3, <1>4 DEF SeederInv, CycleInv, WaitInv, Loading, Target, ReannouncesNewest

\* Publishers and nodes only change the DHT.
LEMMA NetworkStep ==
  ASSUME SeederInv, dht' \in [Targets -> [Nodes -> SomeItem]],
         UNCHANGED <<highest, accepted, want, have, loaded, pinned, cycle>>
  PROVE  SeederInv'
  BY DEF SeederInv, TableInv, CycleInv, WaitInv, Loading, Target, PinnedIsComplete,
         ReannouncesNewest

LEMMA PublishStep ==
  ASSUME SeederInv, NEW t \in Targets, NEW h \in Hash, NEW R \in SUBSET Nodes, Publish(t, h, R)
  PROVE  SeederInv'
<1>1. PICK item \in MostRecent(dht[t], R) :
         /\ HasNextSequence(item)
         /\ dht' = [dht EXCEPT ![t] = Put(dht[t], R, [seq |-> item.seq + 1, hash |-> h], item.seq)]
  BY DEF Publish
<1>2. dht[t] \in [Nodes -> SomeItem]
  BY DEF SeederInv, TableInv
<1>3. item.seq \in Nat
  BY <1>2, MostRecentIsHead, HeadFields
<1>4. [seq |-> item.seq + 1, hash |-> h] \in SomeItem
  BY <1>1, <1>3, MaxSequenceAssumption DEF HasNextSequence, SomeItem
<1>5. dht' \in [Targets -> [Nodes -> SomeItem]]
  BY <1>1, <1>2, <1>4, PutKeepsHeads DEF SeederInv, TableInv
<1> QED
  BY <1>5, NetworkStep DEF Publish, engine

LEMMA ExpireStep ==
  ASSUME SeederInv, NEW t \in Targets, NEW n \in Nodes, Expire(t, n)
  PROVE  SeederInv'
<1>1. dht' \in [Targets -> [Nodes -> SomeItem]]
  BY NoItemIsAnItem DEF Expire, SeederInv, TableInv
<1> QED
  BY <1>1, NetworkStep DEF Expire, engine

LEMMA SeederStep == SeederInv /\ [Next]_vars => SeederInv'
<1> SUFFICES ASSUME SeederInv, [Next]_vars PROVE SeederInv'
  OBVIOUS
<1>1. CASE UNCHANGED vars
  BY <1>1, NetworkStep DEF vars, SeederInv, TableInv
<1>2. CASE SeedCycle
  BY <1>2, LoopStep, ResolveStep, ReannounceStep, LoadHeadStep, AddStep, PinEndsStep,
     LoadManifestStep, SelectStep, PinStep DEF SeedCycle
<1> QED
  BY <1>1, <1>2, CrashStep, DownloadStep, PublishStep, ExpireStep DEF Next

LEMMA SeederInvHolds == Spec => []SeederInv
  BY InitSeeder, SeederStep, PTL DEF Spec

\* A head is reported as pinned only with its whole snapshot on disk, through any
\* number of timeouts, crashes, cached loads and half downloads (pin_current).
THEOREM PinnedMeansComplete == Spec => []PinnedIsComplete
<1>1. SeederInv => PinnedIsComplete
  BY DEF SeederInv
<1> QED
  BY <1>1, SeederInvHolds, PTL

\* The head the seeder puts back into the DHT is the newest it has ever recorded, over
\* stale lookups, forgetful nodes and restarts (seed_cycle with highest_seen).
THEOREM SeederRevivesNoOldHead == Spec => []ReannouncesNewest
<1>1. SeederInv => ReannouncesNewest
  BY DEF SeederInv
<1> QED
  BY <1>1, SeederInvHolds, PTL
-----------------------------------------------------------------------------
(* The disk limit *)

\* What the engine was told to download, and whether the cycle is busy with a snapshot.
Selected == {u \in Torrents \X (1..2) : want[u[1]] >= u[2]}
Pinning == cycle.pc \in {"manifest", "select", "wait"}
Besides(U) == IF Pinning THEN {u \in U : u[1] # Loading} ELSE U

EngineInv ==
    /\ faults \in Nat /\ cycle.used \in Nat
    /\ managed \subseteq Torrents /\ IsFiniteSet(managed)
    /\ \A x \in Torrents : have[x] <= want[x] /\ (x \notin managed => want[x] = 0)

\* Besides the snapshot in progress, a failure left at most two units selected that are
\* not on disk; so what is selected exceeds what was measured by no more than that, and
\* by one snapshot more until the pin has been measured.
LeftInv == Cardinality(Besides(Selected \ OnDisk)) <= 2 * faults
MeasuredInv ==
    /\ cycle.pc \notin {"idle", "measure"} => Cardinality(Besides(Selected)) <= cycle.used + 2 * faults
    /\ cycle.pc = "measure" => Cardinality(Selected) <= cycle.used + 2 * faults + 2
    /\ cycle.pc \notin {"idle", "head", "measure"} => cycle.used < MaxDisk
SelectedInv == Cardinality(Selected) < MaxDisk + 2 * (1 + faults)
\* What is loaded, or in progress, is a torrent that the engine manages.
ManagedInv ==
    /\ \A t \in Targets : loaded[t] # NoItem => <<t, loaded[t].hash>> \in managed
    /\ Pinning => Loading \in managed

DiskInv == EngineInv /\ LeftInv /\ MeasuredInv /\ SelectedInv

LEMMA UnitsAreTwo == IsFiniteSet(1..2) /\ \A i : i \in 1..2 <=> i = 1 \/ i = 2
<1>1. IsFiniteSet(1..2)
  BY 1 \in Int, 2 \in Int, FS_Interval
<1> QED
  BY <1>1

\* Everything selected is of a managed torrent, of which there are finitely many.
LEMMA SelectedIsFinite ==
  ASSUME EngineInv
  PROVE  IsFiniteSet(Selected)
<1>1. Selected \in SUBSET (managed \X (1..2))
  <2> SUFFICES ASSUME NEW u \in Torrents \X (1..2), want[u[1]] >= u[2]
               PROVE  u \in managed \X (1..2)
    BY DEF Selected
  <2>1. u = <<u[1], u[2]>> /\ u[1] \in Torrents /\ u[2] \in 1..2
    OBVIOUS
  <2>2. u[1] \in managed
    BY <2>1, UnitsAreTwo DEF EngineInv
  <2> QED
    BY <2>1, <2>2
<1>2. IsFiniteSet(managed \X (1..2))
  <2>1. IsFiniteSet(managed)
    BY DEF EngineInv
  <2> QED
    BY <2>1, UnitsAreTwo, FS_Product, Zenon
<1> QED
  BY <1>1, <1>2, FS_Subset

LEMMA SmallerSet ==
  ASSUME NEW T, IsFiniteSet(T), NEW S \in SUBSET T
  PROVE  /\ IsFiniteSet(S) /\ Cardinality(S) \in Nat /\ Cardinality(T) \in Nat
         /\ Cardinality(S) <= Cardinality(T)
  BY FS_Subset, FS_CardinalityType

LEMMA OneMore ==
  ASSUME NEW S, IsFiniteSet(S), NEW x
  PROVE  /\ IsFiniteSet(S \cup {x}) /\ Cardinality(S) \in Nat /\ Cardinality(S \cup {x}) \in Nat
         /\ Cardinality(S \cup {x}) <= Cardinality(S) + 1
  BY FS_AddElement, FS_CardinalityType

\* A snapshot has two units.
LEMMA TwoUnits ==
  ASSUME NEW U \in SUBSET (Torrents \X (1..2)), NEW V, IsFiniteSet(V), NEW x,
         \A u \in U : u[1] # x => u \in V
  PROVE  IsFiniteSet(U) /\ Cardinality(U) <= Cardinality(V) + 2
<1> DEFINE V1 == V \cup {<<x, 1>>}
           V2 == V1 \cup {<<x, 2>>}
<1>1. IsFiniteSet(V1) /\ Cardinality(V1) <= Cardinality(V) + 1 /\ Cardinality(V) \in Nat
      /\ Cardinality(V1) \in Nat
  BY OneMore
<1>2. IsFiniteSet(V2) /\ Cardinality(V2) <= Cardinality(V1) + 1 /\ Cardinality(V2) \in Nat
  <2> HIDE DEF V1
  <2> QED
    BY <1>1, OneMore
<1>3. U \in SUBSET V2
  <2> SUFFICES ASSUME NEW u \in U PROVE u \in V2
    OBVIOUS
  <2>1. u = <<u[1], u[2]>> /\ (u[2] = 1 \/ u[2] = 2)
    BY UnitsAreTwo
  <2> QED
    BY <2>1
<1> HIDE DEF V1, V2
<1>4. IsFiniteSet(U) /\ Cardinality(U) <= Cardinality(V2) /\ Cardinality(U) \in Nat
  BY <1>2, <1>3, SmallerSet
<1> QED
  BY <1>1, <1>2, <1>4

LEMMA BesidesIsLess ==
  ASSUME EngineInv, NEW U \in SUBSET Selected
  PROVE  /\ IsFiniteSet(Besides(U)) /\ Cardinality(Besides(U)) \in Nat
         /\ IsFiniteSet(U) /\ Cardinality(U) \in Nat
         /\ Cardinality(Besides(U)) <= Cardinality(U)
         /\ Cardinality(U) <= Cardinality(Besides(U)) + (IF Pinning THEN 2 ELSE 0)
<1>1. IsFiniteSet(U)
  BY SelectedIsFinite, FS_Subset
<1>2. Besides(U) \in SUBSET U
  BY DEF Besides
<1>3. /\ IsFiniteSet(Besides(U)) /\ Cardinality(Besides(U)) \in Nat /\ Cardinality(U) \in Nat
      /\ Cardinality(Besides(U)) <= Cardinality(U)
  BY <1>1, <1>2, SmallerSet
<1>4. CASE Pinning
  <2>1. U \in SUBSET (Torrents \X (1..2)) /\ \A u \in U : u[1] # Loading => u \in Besides(U)
    BY <1>4 DEF Selected, Besides
  <2>2. Cardinality(U) <= Cardinality(Besides(U)) + 2
    BY <1>3, <2>1, TwoUnits
  <2> QED
    BY <1>1, <1>3, <1>4, <2>2
<1>5. CASE ~Pinning
  BY <1>1, <1>3, <1>5 DEF Besides
<1> QED
  BY <1>4, <1>5

\* What is on disk was selected.
LEMMA OnDiskIsSelected ==
  ASSUME SeederInv, EngineInv
  PROVE  OnDisk \in SUBSET Selected /\ DiskUse \in Nat /\ DiskUse <= Cardinality(Selected)
         /\ Cardinality(Selected) = DiskUse + Cardinality(Selected \ OnDisk)
<1>1. OnDisk \in SUBSET Selected
  <2> SUFFICES ASSUME NEW u \in Torrents \X (1..2), have[u[1]] >= u[2]
               PROVE  want[u[1]] >= u[2]
    BY DEF OnDisk, Selected
  <2>1. u[1] \in Torrents /\ u[2] \in 1..2
    OBVIOUS
  <2> QED
    BY <2>1 DEF EngineInv, SeederInv, TableInv
<1>2. IsFiniteSet(Selected)
  BY SelectedIsFinite
<1>3. DiskUse \in Nat /\ Cardinality(Selected) \in Nat /\ DiskUse <= Cardinality(Selected)
  BY <1>1, <1>2, SmallerSet DEF DiskUse
<1>4. Cardinality(Selected \ OnDisk) = Cardinality(Selected) - Cardinality(Selected \cap OnDisk)
  BY <1>2, FS_Difference
<1>5. Selected \cap OnDisk = OnDisk
  BY <1>1
<1>6. Cardinality(Selected \ OnDisk) = Cardinality(Selected) - DiskUse
  BY <1>4, <1>5 DEF DiskUse
<1> QED
  BY <1>1, <1>3, <1>6

\* The units that a state of DiskInv may have.
LEMMA DiskNumbers ==
  ASSUME SeederInv, DiskInv
  PROVE  /\ DiskUse \in Nat /\ Cardinality(Selected) \in Nat /\ Cardinality(Selected \ OnDisk) \in Nat
         /\ faults \in Nat /\ cycle.used \in Nat
         /\ Cardinality(Selected) = DiskUse + Cardinality(Selected \ OnDisk)
         /\ Cardinality(Selected \ OnDisk) <= 2 * faults + (IF Pinning THEN 2 ELSE 0)
         /\ cycle.pc \notin {"idle", "measure"} =>
               Cardinality(Selected) <= cycle.used + 2 * faults + (IF Pinning THEN 2 ELSE 0)
<1>1. EngineInv
  BY DEF DiskInv
<1>2. /\ DiskUse \in Nat /\ OnDisk \in SUBSET Selected
      /\ Cardinality(Selected) = DiskUse + Cardinality(Selected \ OnDisk)
  BY <1>1, OnDiskIsSelected
<1>3. Selected \in SUBSET Selected /\ (Selected \ OnDisk) \in SUBSET Selected
  OBVIOUS
<1>4. /\ Cardinality(Besides(Selected)) \in Nat /\ Cardinality(Selected) \in Nat
      /\ Cardinality(Selected) <= Cardinality(Besides(Selected)) + (IF Pinning THEN 2 ELSE 0)
  BY <1>1, <1>3, BesidesIsLess
<1>5. /\ Cardinality(Besides(Selected \ OnDisk)) \in Nat /\ Cardinality(Selected \ OnDisk) \in Nat
      /\ Cardinality(Selected \ OnDisk) <= Cardinality(Besides(Selected \ OnDisk)) + (IF Pinning THEN 2 ELSE 0)
  BY <1>1, <1>3, BesidesIsLess
<1>6. faults \in Nat /\ cycle.used \in Nat
  BY <1>1 DEF EngineInv
<1>7. Cardinality(Selected \ OnDisk) <= 2 * faults + (IF Pinning THEN 2 ELSE 0)
  <2>1. Cardinality(Besides(Selected \ OnDisk)) <= 2 * faults
    BY DEF DiskInv, LeftInv
  <2> QED
    BY <1>5, <1>6, <2>1
<1>8. ASSUME cycle.pc \notin {"idle", "measure"}
      PROVE  Cardinality(Selected) <= cycle.used + 2 * faults + (IF Pinning THEN 2 ELSE 0)
  <2>1. Cardinality(Besides(Selected)) <= cycle.used + 2 * faults
    BY <1>8 DEF DiskInv, MeasuredInv
  <2> QED
    BY <1>4, <1>6, <2>1
<1> QED
  BY <1>2, <1>4, <1>5, <1>6, <1>7, <1>8

LEMMA SameUnits ==
  ASSUME UNCHANGED <<want, have>>
  PROVE  Selected' = Selected /\ OnDisk' = OnDisk
  BY DEF Selected, OnDisk

LEMMA SameEngine ==
  ASSUME EngineInv, UNCHANGED <<managed, want, have>>, faults' \in Nat, cycle'.used \in Nat
  PROVE  EngineInv'
  BY DEF EngineInv

LEMMA Cost ==
  ASSUME EngineInv, NEW k \in Nat, Costs(k)
  PROVE  faults' \in Nat /\ faults' = faults + k
  BY DEF EngineInv, Costs

LEMMA ReachesCosts ==
  ASSUME EngineInv, NEW R, Reaches(R)
  PROVE  faults' \in Nat /\ faults' >= faults
  BY DEF EngineInv, Reaches, Costs

\* A step after which the cycle is not busy with a snapshot.
LEMMA AfterwardsFree ==
  ASSUME DiskInv, EngineInv', UNCHANGED <<want, have>>, ~Pinning', faults' >= faults,
         Cardinality(Selected \ OnDisk) <= 2 * faults',
         cycle'.pc \notin {"idle", "measure"} => Cardinality(Selected) <= cycle'.used + 2 * faults',
         cycle'.pc = "measure" => Cardinality(Selected) <= cycle'.used + 2 * faults' + 2,
         cycle'.pc \notin {"idle", "head", "measure"} => cycle'.used < MaxDisk
  PROVE  DiskInv'
<1>1. Selected' = Selected /\ OnDisk' = OnDisk
  BY SameUnits
<1>2. Besides(Selected)' = Selected /\ Besides(Selected \ OnDisk)' = Selected \ OnDisk
  BY <1>1 DEF Besides
<1>3. LeftInv' /\ MeasuredInv'
  BY <1>1, <1>2 DEF LeftInv, MeasuredInv
<1>4. SelectedInv'
  <2>1. Cardinality(Selected) \in Nat /\ Cardinality(Selected) < MaxDisk + 2 * (1 + faults)
    BY BesidesIsLess DEF DiskInv, SelectedInv
  <2>2. faults \in Nat /\ faults' \in Nat
    BY DEF DiskInv, EngineInv
  <2>3. Cardinality(Selected) < MaxDisk + 2 * (1 + faults')
    BY <2>1, <2>2, MaxDiskAssumption
  <2> QED
    BY <1>1, <2>3 DEF SelectedInv
<1> QED
  BY <1>3, <1>4 DEF DiskInv

\* A step after which the cycle is busy with a snapshot, the same as before if it was.
LEMMA AfterwardsPinning ==
  ASSUME DiskInv, EngineInv', UNCHANGED <<want, have>>, Pinning', faults' >= faults,
         cycle'.used = cycle.used, cycle.pc \notin {"idle", "head", "measure"},
         Pinning => Loading' = Loading
  PROVE  DiskInv'
<1>1. Selected' = Selected /\ OnDisk' = OnDisk
  BY SameUnits
<1>2. EngineInv /\ faults \in Nat /\ faults' \in Nat /\ cycle.used \in Nat
  BY DEF DiskInv, EngineInv
<1>3. Besides(Selected)' \in SUBSET Besides(Selected)
      /\ Besides(Selected \ OnDisk)' \in SUBSET Besides(Selected \ OnDisk)
  BY <1>1 DEF Besides
<1>4. Selected \in SUBSET Selected /\ (Selected \ OnDisk) \in SUBSET Selected
  OBVIOUS
<1>5. /\ Cardinality(Besides(Selected)') \in Nat /\ Cardinality(Besides(Selected)) \in Nat
      /\ Cardinality(Besides(Selected)') <= Cardinality(Besides(Selected))
  BY <1>2, <1>3, <1>4, BesidesIsLess, SmallerSet
<1>6. /\ Cardinality(Besides(Selected \ OnDisk)') \in Nat /\ Cardinality(Besides(Selected \ OnDisk)) \in Nat
      /\ Cardinality(Besides(Selected \ OnDisk)') <= Cardinality(Besides(Selected \ OnDisk))
  BY <1>2, <1>3, <1>4, BesidesIsLess, SmallerSet
<1>7. LeftInv'
  BY <1>2, <1>6 DEF DiskInv, LeftInv
<1>8. MeasuredInv'
  <2>1. cycle'.pc \in {"manifest", "select", "wait"}
    BY DEF Pinning
  <2>2. Cardinality(Besides(Selected)) <= cycle.used + 2 * faults /\ cycle.used < MaxDisk
    BY DEF DiskInv, MeasuredInv
  <2>3. Cardinality(Besides(Selected)') <= cycle'.used + 2 * faults'
    BY <1>2, <1>5, <2>2
  <2> QED
    BY <2>1, <2>2, <2>3 DEF MeasuredInv
<1>9. SelectedInv'
  <2>1. Cardinality(Selected) \in Nat /\ Cardinality(Selected) < MaxDisk + 2 * (1 + faults)
    BY <1>2, BesidesIsLess DEF DiskInv, SelectedInv
  <2>3. Cardinality(Selected) < MaxDisk + 2 * (1 + faults')
    BY <1>2, <2>1, MaxDiskAssumption
  <2> QED
    BY <1>1, <2>3 DEF SelectedInv
<1> QED
  BY <1>7, <1>8, <1>9 DEF DiskInv

\* Publishers, nodes and what else leaves the cycle and the engine alone.
LEMMA ElsewhereDisk ==
  ASSUME DiskInv, UNCHANGED <<managed, want, have, cycle>>, faults' \in Nat, faults' >= faults
  PROVE  DiskInv'
<1>1. Selected' = Selected /\ OnDisk' = OnDisk
  BY SameUnits
<1>2. EngineInv' /\ EngineInv /\ faults \in Nat /\ cycle.used \in Nat
  BY SameEngine DEF DiskInv, EngineInv
<1>3. Besides(Selected)' = Besides(Selected) /\ Besides(Selected \ OnDisk)' = Besides(Selected \ OnDisk)
  BY <1>1 DEF Besides, Pinning, Loading, Target
<1>4. Selected \in SUBSET Selected /\ (Selected \ OnDisk) \in SUBSET Selected
  OBVIOUS
<1>5. Cardinality(Selected) \in Nat /\ Cardinality(Besides(Selected)) \in Nat
      /\ Cardinality(Besides(Selected \ OnDisk)) \in Nat
  BY <1>2, <1>4, BesidesIsLess
<1>6. LeftInv'
  BY <1>2, <1>3, <1>5 DEF DiskInv, LeftInv
<1>7. MeasuredInv'
  BY <1>1, <1>2, <1>3, <1>5 DEF DiskInv, MeasuredInv
<1>8. SelectedInv'
  BY <1>1, <1>2, <1>5, MaxDiskAssumption DEF DiskInv, SelectedInv
<1> QED
  BY <1>2, <1>6, <1>7, <1>8 DEF DiskInv

\* The loop, and the steps of a pin before the engine selects anything.
LEMMA LoopDisk ==
  ASSUME SeederInv, DiskInv, EngineInv', UNCHANGED <<want, have>>, ~Pinning, ~Pinning', faults' >= faults,
         cycle.pc \notin {"idle", "measure"}, cycle'.used = cycle.used,
         cycle'.pc \notin {"idle", "head", "measure"} => cycle.used < MaxDisk
  PROVE  DiskInv'
<1>1. /\ Cardinality(Selected) \in Nat /\ Cardinality(Selected \ OnDisk) \in Nat
      /\ Cardinality(Selected \ OnDisk) <= 2 * faults /\ faults \in Nat /\ cycle.used \in Nat
      /\ Cardinality(Selected) <= cycle.used + 2 * faults
  BY DiskNumbers
<1>2. faults' \in Nat
  BY DEF EngineInv
<1>3. Cardinality(Selected \ OnDisk) <= 2 * faults'
  BY <1>1, <1>2
<1>4. Cardinality(Selected) <= cycle'.used + 2 * faults'
  BY <1>1, <1>2
<1>5. Cardinality(Selected) <= cycle'.used + 2 * faults' + 2
  BY <1>1, <1>2, <1>4
<1> QED
  BY <1>3, <1>4, <1>5, AfterwardsFree

LEMMA HeadDisk ==
  ASSUME SeederInv, DiskInv, NEW R \in SUBSET Nodes, ResolveHead(R) \/ SkipTarget(R) \/ Reannounce(R)
  PROVE  DiskInv'
<1>1. UNCHANGED <<managed, want, have>> /\ cycle.pc \in {"head", "reannounce"}
  BY DEF ResolveHead, SkipTarget, Reannounce, AtTarget, authority, engine
<1>2. /\ cycle'.used = cycle.used /\ cycle'.pc \in {"head", "reannounce", "load"}
      /\ cycle'.pc # "head" => cycle.used < MaxDisk
  BY DEF ResolveHead, SkipTarget, NextTarget, Reannounce, AtTarget, BelowDiskLimit, SeederInv,
     CycleInv, DiskInv, MeasuredInv
<1>3. faults' \in Nat /\ faults' >= faults
  <2>1. Reaches(R) \/ Costs(1)
    BY DEF ResolveHead, SkipTarget, Reannounce
  <2>2. EngineInv /\ faults \in Nat
    BY DEF DiskInv, EngineInv
  <2> QED
    BY <2>1, <2>2, ReachesCosts, Cost
<1>4. EngineInv'
  BY <1>1, <1>2, <1>3, SameEngine DEF DiskInv, EngineInv
<1> QED
  BY <1>1, <1>2, <1>3, <1>4, LoopDisk DEF Pinning

LEMMA TickDisk ==
  ASSUME SeederInv, DiskInv, Tick \/ EndCycle
  PROVE  DiskInv'
<1>1. UNCHANGED <<managed, want, have, faults>> /\ ~Pinning
  BY DEF Tick, EndCycle, engine, Pinning
<1>2. /\ DiskUse \in Nat /\ Cardinality(Selected) \in Nat /\ faults \in Nat
      /\ Cardinality(Selected \ OnDisk) \in Nat /\ Cardinality(Selected \ OnDisk) <= 2 * faults
      /\ Cardinality(Selected) = DiskUse + Cardinality(Selected \ OnDisk)
  BY <1>1, DiskNumbers
<1>3. \/ cycle'.pc = "head" /\ cycle'.used = DiskUse
      \/ cycle'.pc = "idle" /\ cycle'.used = 0
  <2>1. Tick => cycle' = [pc |-> "head", at |-> 1, used |-> DiskUse, load |-> NoItem]
    BY DEF Tick, Idle
  <2>2. EndCycle => cycle'.pc = "idle" /\ cycle'.used = 0
    BY DEF EndCycle, Idle
  <2> QED
    BY <2>1, <2>2
<1>4. EngineInv'
  BY <1>1, <1>2, <1>3, SameEngine DEF DiskInv, EngineInv
<1>5. cycle'.pc = "head" => Cardinality(Selected) <= cycle'.used + 2 * faults'
  BY <1>1, <1>2, <1>3
<1> QED
  BY <1>1, <1>2, <1>3, <1>4, <1>5, AfterwardsFree DEF Pinning

\* What is measured is what is selected but for what is left of failed pins; a
\* measurement that fails is a fault of its own.
LEMMA MeasureDisk ==
  ASSUME SeederInv, DiskInv, Measure
  PROVE  DiskInv'
<1>1. UNCHANGED <<managed, want, have>> /\ ~Pinning /\ cycle.pc = "measure"
  BY DEF Measure, engine, Pinning
<1>2. /\ DiskUse \in Nat /\ Cardinality(Selected) \in Nat /\ faults \in Nat /\ cycle.used \in Nat
      /\ Cardinality(Selected \ OnDisk) \in Nat /\ Cardinality(Selected \ OnDisk) <= 2 * faults
      /\ Cardinality(Selected) = DiskUse + Cardinality(Selected \ OnDisk)
  BY <1>1, DiskNumbers
<1>3. Cardinality(Selected) <= cycle.used + 2 * faults + 2
  BY <1>1 DEF DiskInv, MeasuredInv
<1>4. /\ cycle'.pc = "head"
      /\ \/ cycle'.used = DiskUse /\ faults' = faults
         \/ cycle'.used = cycle.used /\ faults' = faults + 1
  <2>1. DOMAIN cycle = {"pc", "at", "used", "load"}
    BY DEF SeederInv, CycleInv
  <2>2. CASE cycle' = [cycle EXCEPT !.pc = "head", !.at = @ + 1, !.used = DiskUse] /\ Costs(0)
    <3>1. faults' = faults
      BY <1>2, <2>2 DEF Costs
    <3>2. cycle'.pc = "head" /\ cycle'.used = DiskUse
      BY <2>1, <2>2, Zenon
    <3> QED
      BY <3>1, <3>2
  <2>3. CASE cycle' = [cycle EXCEPT !.pc = "head", !.at = @ + 1] /\ Costs(1)
    BY <2>1, <2>3 DEF Costs
  <2> QED
    BY <2>2, <2>3 DEF Measure
<1>5. EngineInv'
  BY <1>1, <1>2, <1>4, SameEngine DEF DiskInv, EngineInv
<1>6. /\ Cardinality(Selected) <= cycle'.used + 2 * faults'
      /\ Cardinality(Selected \ OnDisk) <= 2 * faults' /\ faults' >= faults
  BY <1>2, <1>3, <1>4
<1> QED
  BY <1>1, <1>4, <1>5, <1>6, AfterwardsFree DEF Pinning

LEMMA LoadDisk ==
  ASSUME SeederInv, DiskInv, NEW R \in SUBSET Nodes, LoadHead(R)
  PROVE  DiskInv'
<1>1. UNCHANGED <<managed, want, have>> /\ ~Pinning /\ cycle.pc = "load" /\ cycle.used < MaxDisk
  BY DEF LoadHead, engine, Pinning, DiskInv, MeasuredInv
<1>2. faults' \in Nat /\ faults' >= faults
  BY ReachesCosts DEF LoadHead, DiskInv
<1>3. cycle'.used = cycle.used /\ cycle'.pc \in {"measure", "select", "add"}
  BY DEF LoadHead, PinReturns, SeederInv, CycleInv
<1>4. EngineInv'
  BY <1>1, <1>2, <1>3, SameEngine DEF DiskInv, EngineInv
<1>5. CASE cycle'.pc = "select"
  BY <1>1, <1>2, <1>3, <1>4, <1>5, AfterwardsPinning DEF Pinning
<1>6. CASE cycle'.pc # "select"
  <2>1. ~Pinning'
    BY <1>3, <1>6 DEF Pinning
  <2> QED
    BY <1>1, <1>2, <1>3, <1>4, <2>1, LoopDisk
<1> QED
  BY <1>5, <1>6

\* A step that selects more of the snapshot in progress, after the limit was looked at.
LEMMA SelectsMore ==
  ASSUME DiskInv, EngineInv', faults' = faults, cycle'.used = cycle.used, cycle.used < MaxDisk,
         cycle.pc \in {"add", "select"}, cycle'.pc \in {"manifest", "wait"}, Loading' = Loading,
         \A u \in Torrents \X (1..2) : u[1] # Loading =>
             (u \in Selected' <=> u \in Selected) /\ (u \in OnDisk' <=> u \in OnDisk)
  PROVE  DiskInv'
<1>0. EngineInv /\ faults \in Nat /\ cycle.used \in Nat
  BY DEF DiskInv, EngineInv
<1>1. Pinning'
  BY DEF Pinning
<1>2. Selected' \in SUBSET (Torrents \X (1..2)) /\ Selected \in SUBSET (Torrents \X (1..2))
  BY DEF Selected
<1>3. Besides(Selected)' \in SUBSET Besides(Selected)
      /\ Besides(Selected \ OnDisk)' \in SUBSET Besides(Selected \ OnDisk)
  BY <1>1, <1>2 DEF Besides
<1>4. Selected \in SUBSET Selected /\ (Selected \ OnDisk) \in SUBSET Selected
  OBVIOUS
<1>5. /\ IsFiniteSet(Besides(Selected)') /\ Cardinality(Besides(Selected)') \in Nat
      /\ Cardinality(Besides(Selected)) \in Nat
      /\ Cardinality(Besides(Selected)') <= Cardinality(Besides(Selected))
  BY <1>0, <1>3, <1>4, BesidesIsLess, SmallerSet
<1>6. /\ Cardinality(Besides(Selected \ OnDisk)') \in Nat /\ Cardinality(Besides(Selected \ OnDisk)) \in Nat
      /\ Cardinality(Besides(Selected \ OnDisk)') <= Cardinality(Besides(Selected \ OnDisk))
  BY <1>0, <1>3, <1>4, BesidesIsLess, SmallerSet
<1>7. LeftInv'
  BY <1>0, <1>6 DEF DiskInv, LeftInv
<1>8. Cardinality(Besides(Selected)') <= cycle.used + 2 * faults
  <2>1. Cardinality(Besides(Selected)) <= cycle.used + 2 * faults
    BY DEF DiskInv, MeasuredInv
  <2> QED
    BY <1>0, <1>5, <2>1
<1>9. MeasuredInv'
  BY <1>8 DEF MeasuredInv
<1>10. SelectedInv'
  <2>1. \A u \in Selected' : u[1] # Loading => u \in Besides(Selected)'
    BY <1>1 DEF Besides
  <2>2. IsFiniteSet(Selected') /\ Cardinality(Selected') <= Cardinality(Besides(Selected)') + 2
    BY <1>2, <1>5, <2>1, TwoUnits
  <2>3. Cardinality(Selected') \in Nat
    BY <2>2, FS_CardinalityType
  <2>4. Cardinality(Selected') < MaxDisk + 2 * (1 + faults')
    BY <1>0, <1>5, <1>8, <2>2, <2>3, MaxDiskAssumption
  <2> QED
    BY <2>4 DEF SelectedInv
<1> QED
  BY <1>7, <1>9, <1>10 DEF DiskInv

\* The torrent comes to be managed, and its manifest is selected.
LEMMA AddDisk ==
  ASSUME SeederInv, DiskInv, AddMagnet
  PROVE  DiskInv'
<1>0. EngineInv /\ faults \in Nat /\ cycle.used \in Nat
  BY DEF DiskInv, EngineInv
<1>1. Loading \in Torrents /\ Loading \notin managed /\ ~Pinning /\ cycle.pc = "add"
      /\ cycle.used < MaxDisk
  BY LoadingType DEF AddMagnet, Pinning, DiskInv, MeasuredInv
<1>2. /\ managed' = managed \cup {Loading} /\ want' = [want EXCEPT ![Loading] = 1]
      /\ UNCHANGED <<have, faults>>
      /\ cycle'.pc = "manifest" /\ cycle'.used = cycle.used /\ Loading' = Loading
  BY DEF AddMagnet, SeederInv, CycleInv, Loading, Target
<1>3. EngineInv'
  <2>1. IsFiniteSet(managed')
    BY <1>0, <1>2, FS_AddElement DEF EngineInv
  <2>2. want[Loading] = 0 /\ have[Loading] <= want[Loading] /\ have[Loading] \in 0..2
    BY <1>0, <1>1 DEF EngineInv, SeederInv, TableInv
  <2> QED
    BY <1>0, <1>1, <1>2, <2>1, <2>2 DEF EngineInv, SeederInv, TableInv
<1>4. \A u \in Torrents \X (1..2) : u[1] # Loading => (u \in Selected' <=> u \in Selected)
                                              /\ (u \in OnDisk' <=> u \in OnDisk)
  BY <1>2 DEF Selected, OnDisk, SeederInv, TableInv
<1> QED
  BY <1>0, <1>1, <1>2, <1>3, <1>4, SelectsMore DEF Pinning

\* The rest of the snapshot is selected.
LEMMA SelectDisk ==
  ASSUME SeederInv, ManagedInv, DiskInv, SelectAll
  PROVE  DiskInv'
<1>0. EngineInv /\ faults \in Nat /\ cycle.used \in Nat
  BY DEF DiskInv, EngineInv
<1>1. Loading \in Torrents /\ Pinning /\ cycle.pc = "select" /\ cycle.used < MaxDisk
  BY LoadingType DEF SelectAll, Pinning, DiskInv, MeasuredInv
<1>2. /\ want' = [want EXCEPT ![Loading] = 2] /\ UNCHANGED <<managed, have, faults>>
      /\ cycle'.pc = "wait" /\ cycle'.used = cycle.used /\ Loading' = Loading
  BY DEF SelectAll, SeederInv, CycleInv, Loading, Target
<1>3. Loading \in managed
  BY <1>1 DEF ManagedInv
<1>4. EngineInv'
  BY <1>0, <1>1, <1>2, <1>3 DEF EngineInv, SeederInv, TableInv
<1>5. \A u \in Torrents \X (1..2) : u[1] # Loading => (u \in Selected' <=> u \in Selected)
                                              /\ (u \in OnDisk' <=> u \in OnDisk)
  BY <1>2 DEF Selected, OnDisk, SeederInv, TableInv
<1> QED
  BY <1>0, <1>1, <1>2, <1>4, <1>5, SelectsMore DEF Pinning

\* The pin goes on with the snapshot, or is over with all of it on disk.
LEMMA PinDisk ==
  ASSUME SeederInv, DiskInv, LoadManifest \/ Pin
  PROVE  DiskInv'
<1>0. EngineInv /\ faults \in Nat /\ cycle.used \in Nat
  BY DEF DiskInv, EngineInv
<1>1. Loading \in Torrents /\ Pinning /\ UNCHANGED <<managed, want, have, faults>>
      /\ cycle.used < MaxDisk /\ cycle.pc \in {"manifest", "wait"}
  BY LoadingType DEF LoadManifest, Pin, Pinning, engine, DiskInv, MeasuredInv
<1>2. cycle'.used = cycle.used /\ Loading \in Torrents
      /\ (LoadManifest => cycle'.pc = "select" /\ Loading' = Loading) /\ (Pin => cycle'.pc = "measure")
  BY <1>1 DEF LoadManifest, Pin, PinReturns, SeederInv, CycleInv, Loading, Target
<1>3. EngineInv'
  BY <1>0, <1>1, <1>2, SameEngine
<1>4. CASE LoadManifest
  BY <1>0, <1>1, <1>2, <1>3, <1>4, AfterwardsPinning DEF Pinning
<1>5. CASE Pin
  <2>1. want[Loading] = 2 /\ have[Loading] = 2
    BY <1>1, <1>5 DEF Pin, SelectionComplete, SeederInv, WaitInv, TableInv
  <2>2. Besides(Selected \ OnDisk) = Selected \ OnDisk
    BY <1>1, <2>1 DEF Besides, Selected, OnDisk
  <2>3. Cardinality(Selected \ OnDisk) <= 2 * faults'
    BY <1>1, <2>2 DEF DiskInv, LeftInv
  <2>4. Cardinality(Selected) <= cycle'.used + 2 * faults' + 2
    BY <1>1, <1>2, DiskNumbers
  <2> QED
    BY <1>0, <1>1, <1>2, <1>3, <1>5, <2>3, <2>4, AfterwardsFree DEF Pinning
<1> QED
  BY <1>4, <1>5

\* A pin that fails costs a fault and leaves its snapshot selected; one that finds the
\* torrent managed, or does not get it, has selected nothing.
LEMMA PinEndsDisk ==
  ASSUME SeederInv, DiskInv, AlreadyManaged \/ AddTimesOut \/ PinFails
  PROVE  DiskInv'
<1>0. EngineInv /\ faults \in Nat /\ cycle.used \in Nat
  BY DEF DiskInv, EngineInv
<1>1. UNCHANGED <<want, have>> /\ cycle'.used = cycle.used /\ cycle'.pc = "measure" /\ ~Pinning'
  BY DEF AlreadyManaged, AddTimesOut, PinFails, PinReturns, engine, SeederInv, CycleInv, Pinning
<1>2. CASE PinFails
  <2>1. faults' = faults + 1 /\ managed' = managed /\ Pinning
    BY <1>2 DEF PinFails, Costs, Pinning, engine
  <2>2. EngineInv'
    BY <1>0, <1>1, <2>1, SameEngine
  <2>3. /\ Cardinality(Selected) \in Nat /\ Cardinality(Selected \ OnDisk) \in Nat
        /\ Cardinality(Selected \ OnDisk) <= 2 * faults + 2
        /\ Cardinality(Selected) <= cycle.used + 2 * faults + 2
    BY <2>1, DiskNumbers DEF Pinning
  <2>4. /\ Cardinality(Selected \ OnDisk) <= 2 * faults' /\ faults' >= faults
        /\ Cardinality(Selected) <= cycle'.used + 2 * faults' + 2
    BY <1>0, <1>1, <2>1, <2>3
  <2> QED
    BY <1>1, <2>2, <2>4, AfterwardsFree
<1>3. CASE AlreadyManaged \/ AddTimesOut
  <2>1. ~Pinning /\ cycle.pc = "add" /\ Loading \in Torrents
    BY <1>3, LoadingType DEF AlreadyManaged, AddTimesOut, Pinning
  <2>2. faults' \in Nat /\ faults' >= faults /\ managed' \in {managed, managed \cup {Loading}}
    BY <1>0, <1>3 DEF AlreadyManaged, AddTimesOut, Costs, engine
  <2>3. IsFiniteSet(managed')
    BY <1>0, <2>2, FS_AddElement DEF EngineInv
  <2>4. EngineInv'
    BY <1>0, <1>1, <2>1, <2>2, <2>3 DEF EngineInv
  <2> QED
    BY <1>1, <2>1, <2>2, <2>4, LoopDisk
<1> QED
  BY <1>2, <1>3

\* What was selected when the process died stays selected.
LEMMA CrashDisk ==
  ASSUME SeederInv, DiskInv, Crash
  PROVE  DiskInv'
<1>1. UNCHANGED <<managed, want, have>> /\ cycle'.pc = "idle" /\ cycle'.used = 0 /\ ~Pinning'
  BY DEF Crash, engine, Idle, Pinning
<1>2. faults' = faults + 1 /\ faults \in Nat
  BY DEF Crash, Costs, DiskInv, EngineInv
<1>3. EngineInv'
  BY <1>1, <1>2, SameEngine DEF DiskInv
<1>4. Cardinality(Selected \ OnDisk) \in Nat /\ Cardinality(Selected \ OnDisk) <= 2 * faults + 2
  BY DiskNumbers
<1> QED
  BY <1>1, <1>2, <1>3, <1>4, AfterwardsFree

\* What is downloaded was selected.
LEMMA DownloadDisk ==
  ASSUME SeederInv, DiskInv, NEW x \in Torrents, Download(x)
  PROVE  DiskInv'
<1>0. EngineInv /\ faults \in Nat /\ cycle.used \in Nat
  BY DEF DiskInv, EngineInv
<1>1. /\ have[x] < want[x] /\ have' = [have EXCEPT ![x] = have[x] + 1]
      /\ UNCHANGED <<managed, want, cycle, faults>>
  BY DEF Download
<1>2. EngineInv'
  BY <1>0, <1>1 DEF EngineInv, SeederInv, TableInv
<1>3. Selected' = Selected /\ Pinning' = Pinning /\ Loading' = Loading
  BY <1>1 DEF Selected, Pinning, Loading, Target
<1>4. OnDisk \subseteq OnDisk'
  BY <1>1 DEF OnDisk, SeederInv, TableInv
<1>5. Besides(Selected)' = Besides(Selected)
      /\ Besides(Selected \ OnDisk)' \in SUBSET Besides(Selected \ OnDisk)
  BY <1>3, <1>4 DEF Besides
<1>6. (Selected \ OnDisk) \in SUBSET Selected
  OBVIOUS
<1>7. /\ Cardinality(Besides(Selected \ OnDisk)') \in Nat /\ Cardinality(Besides(Selected \ OnDisk)) \in Nat
      /\ Cardinality(Besides(Selected \ OnDisk)') <= Cardinality(Besides(Selected \ OnDisk))
  BY <1>0, <1>5, <1>6, BesidesIsLess, SmallerSet
<1>8. LeftInv'
  BY <1>0, <1>1, <1>7 DEF DiskInv, LeftInv
<1>9. MeasuredInv' /\ SelectedInv'
  BY <1>1, <1>3, <1>5 DEF DiskInv, MeasuredInv, SelectedInv
<1> QED
  BY <1>2, <1>8, <1>9 DEF DiskInv

LEMMA ManagedStep ==
  ASSUME SeederInv, ManagedInv, [Next]_vars
  PROVE  ManagedInv'
<1> DEFINE Known(t) == loaded[t] # NoItem => <<t, loaded[t].hash>> \in managed
<1>0. \A t \in Targets : Known(t)
  BY DEF ManagedInv
<1>1. managed \subseteq managed'
  BY DEF Next, SeedCycle, Tick, EndCycle, ResolveHead, SkipTarget, Reannounce, LoadHead, AddMagnet,
     AlreadyManaged, AddTimesOut, LoadManifest, SelectAll, Pin, PinFails, Measure, Crash, Download,
     Publish, Expire, engine, vars
<1>2. ASSUME loaded' = loaded, ~Pinning' \/ (Pinning /\ Loading' = Loading)
      PROVE  ManagedInv'
  BY <1>0, <1>1, <1>2 DEF ManagedInv
<1>3. ASSUME Tick \/ EndCycle \/ Measure \/ AlreadyManaged \/ AddTimesOut \/ Pin \/ PinFails
      PROVE  ManagedInv'
  <2>1. loaded' = loaded
    BY <1>3 DEF Tick, EndCycle, Measure, AlreadyManaged, AddTimesOut, Pin, PinFails
  <2>2. cycle'.pc \in {"head", "idle", "measure"}
    <3>1. DOMAIN cycle = {"pc", "at", "used", "load"}
      BY DEF SeederInv, CycleInv
    <3>2. Tick \/ EndCycle => cycle'.pc \in {"head", "idle"}
      <4>1. Tick => cycle' = [pc |-> "head", at |-> 1, used |-> DiskUse, load |-> NoItem]
        BY DEF Tick, Idle
      <4> QED
        BY <4>1 DEF EndCycle, Idle
    <3>3. Measure => cycle'.pc = "head"
      BY <3>1 DEF Measure
    <3>4. PinReturns => cycle'.pc = "measure"
      BY <3>1 DEF PinReturns
    <3> QED
      BY <1>3, <3>2, <3>3, <3>4 DEF AlreadyManaged, AddTimesOut, Pin, PinFails
  <2>3. ~Pinning'
    BY <2>2 DEF Pinning
  <2> QED
    BY <1>2, <2>1, <2>3
<1>4. ASSUME NEW R \in SUBSET Nodes, ResolveHead(R) \/ SkipTarget(R) \/ Reannounce(R)
      PROVE  ManagedInv'
  <2>1. loaded' = loaded
    BY <1>4 DEF ResolveHead, SkipTarget, Reannounce
  <2>2. cycle'.pc \in {"head", "reannounce", "load"}
    BY <1>4 DEF ResolveHead, SkipTarget, NextTarget, Reannounce, SeederInv, CycleInv
  <2>3. ~Pinning'
    BY <2>2 DEF Pinning
  <2> QED
    BY <1>2, <2>1, <2>3
<1>5. ASSUME NEW R \in SUBSET Nodes, LoadHead(R)
      PROVE  ManagedInv'
  <2>1. UNCHANGED <<loaded, managed>> /\ Target \in Targets
    BY <1>5, TargetType DEF LoadHead, engine, SeederInv, CycleInv
  <2>2. \/ cycle'.pc \in {"measure", "add"}
        \/ /\ cycle'.pc = "select" /\ cycle'.load = loaded[Target] /\ cycle'.at = cycle.at
           /\ loaded[Target] # NoItem
    <3>1. DOMAIN cycle = {"pc", "at", "used", "load"}
      BY DEF SeederInv, CycleInv
    <3> QED
      BY <1>5, <3>1 DEF LoadHead, PinReturns, CacheHit
  <2>3. CASE cycle'.pc \in {"measure", "add"}
    <3>1. ~Pinning'
      BY <2>3 DEF Pinning
    <3> QED
      BY <1>2, <2>1, <3>1
  <2>4. CASE cycle'.load = loaded[Target] /\ cycle'.at = cycle.at /\ loaded[Target] # NoItem
    <3>1. Loading' = <<Target, loaded[Target].hash>>
      BY <2>4 DEF Loading, Target
    <3> QED
      BY <1>0, <2>1, <2>4, <3>1 DEF ManagedInv
  <2> QED
    BY <2>2, <2>3, <2>4
<1>6. ASSUME AddMagnet
      PROVE  ManagedInv'
  <2>1. UNCHANGED loaded /\ managed' = managed \cup {Loading} /\ Loading' = Loading
    BY <1>6 DEF AddMagnet, Loading, Target, SeederInv, CycleInv
  <2> QED
    BY <1>0, <1>1, <2>1 DEF ManagedInv
<1>7. ASSUME LoadManifest \/ SelectAll
      PROVE  ManagedInv'
  <2>1. UNCHANGED managed /\ Loading' = Loading /\ Loading \in managed
    BY <1>7 DEF LoadManifest, SelectAll, engine, Loading, Target, SeederInv, CycleInv, ManagedInv, Pinning
  <2>2. \A t \in Targets : Known(t)'
    BY <1>0, <1>7, <2>1 DEF LoadManifest, SelectAll, Loading, SeederInv, TableInv
  <2> QED
    BY <2>1, <2>2 DEF ManagedInv
<1>8. ASSUME Crash
      PROVE  ManagedInv'
  BY <1>8 DEF Crash, Idle, ManagedInv, Pinning
<1>9. ASSUME UNCHANGED <<loaded, cycle>>
      PROVE  ManagedInv'
  BY <1>2, <1>9 DEF Pinning, Loading, Target
<1>10. ASSUME \/ \E x \in Torrents : Download(x)
              \/ \E t \in Targets, h \in Hash, R \in SUBSET Nodes : Publish(t, h, R)
              \/ \E t \in Targets, n \in Nodes : Expire(t, n)
              \/ UNCHANGED vars
       PROVE  ManagedInv'
  BY <1>9, <1>10 DEF Download, Publish, Expire, vars
<1> QED
  BY <1>3, <1>4, <1>5, <1>6, <1>7, <1>8, <1>10 DEF Next, SeedCycle

LEMMA InitDisk == Init => ManagedInv /\ DiskInv
<1> SUFFICES ASSUME Init PROVE ManagedInv /\ DiskInv
  OBVIOUS
<1>1. ManagedInv
  BY DEF Init, ManagedInv, Idle, Pinning
<1>2. EngineInv
  BY FS_EmptySet DEF Init, EngineInv, Idle
<1>3. Selected = {}
  <2> SUFFICES ASSUME NEW u \in Torrents \X (1..2), want[u[1]] >= u[2] PROVE FALSE
    BY DEF Selected
  <2> QED
    BY DEF Init
<1>4. Besides(Selected) = {} /\ Besides(Selected \ OnDisk) = {} /\ Cardinality({}) = 0
  BY <1>3, FS_EmptySet DEF Init, Idle, Besides, Pinning
<1>5. faults = 0 /\ cycle.pc = "idle"
  BY DEF Init, Idle
<1>6. LeftInv /\ MeasuredInv /\ SelectedInv
  BY <1>3, <1>4, <1>5, MaxDiskAssumption DEF LeftInv, MeasuredInv, SelectedInv
<1> QED
  BY <1>1, <1>2, <1>6 DEF DiskInv

LEMMA DiskStep == SeederInv /\ ManagedInv /\ DiskInv /\ [Next]_vars => DiskInv'
<1> SUFFICES ASSUME SeederInv, ManagedInv, DiskInv, [Next]_vars PROVE DiskInv'
  OBVIOUS
<1>1. CASE SeedCycle
  BY <1>1, TickDisk, HeadDisk, LoadDisk, AddDisk, PinEndsDisk, PinDisk, SelectDisk, MeasureDisk
  DEF SeedCycle
<1>2. CASE \/ \E t \in Targets, h \in Hash, R \in SUBSET Nodes : Publish(t, h, R)
           \/ \E t \in Targets, n \in Nodes : Expire(t, n)
           \/ UNCHANGED vars
  <2>1. UNCHANGED <<managed, want, have, cycle>>
    BY <1>2 DEF Publish, Expire, engine, vars
  <2>2. faults' \in Nat /\ faults' >= faults
    <3>1. EngineInv /\ faults \in Nat
      BY DEF DiskInv, EngineInv
    <3>2. (\E R \in SUBSET Nodes : Reaches(R)) \/ Costs(1) \/ UNCHANGED faults
      BY <1>2 DEF Publish, Expire, vars
    <3> QED
      BY <3>1, <3>2, ReachesCosts, Cost
  <2> QED
    BY <2>1, <2>2, ElsewhereDisk
<1> QED
  BY <1>1, <1>2, CrashDisk, DownloadDisk DEF Next

LEMMA DiskInvHolds == Spec => [](SeederInv /\ ManagedInv /\ DiskInv)
<1>1. Init => SeederInv /\ ManagedInv /\ DiskInv
  BY InitSeeder, InitDisk
<1>2. SeederInv /\ ManagedInv /\ DiskInv /\ [Next]_vars => (SeederInv /\ ManagedInv /\ DiskInv)'
  BY SeederStep, ManagedStep, DiskStep
<1> QED
  BY <1>1, <1>2, PTL DEF Spec

\* The disk limit is exceeded by less than one snapshot and one more for each failure,
\* whatever is downloaded meanwhile and though failed pins stay selected (seed_cycle
\* looks at the limit before a pin only).
THEOREM OverrunIsBounded == Spec => []OverrunBounded
<1>1. SeederInv /\ DiskInv => OverrunBounded
  <2> SUFFICES ASSUME SeederInv, DiskInv PROVE OverrunBounded
    OBVIOUS
  <2>1. DiskUse \in Nat /\ Cardinality(Selected) \in Nat /\ DiskUse <= Cardinality(Selected)
    BY OnDiskIsSelected, DiskNumbers DEF DiskInv
  <2>2. Cardinality(Selected) < MaxDisk + 2 * (1 + faults) /\ faults \in Nat
    BY DEF DiskInv, EngineInv, SelectedInv
  <2> QED
    BY <2>1, <2>2, MaxDiskAssumption DEF OverrunBounded
<1> QED
  BY <1>1, DiskInvHolds, PTL

-----------------------------------------------------------------------------
(* Types *)

\* What TypeOK says besides the invariants above.
RestInv ==
    /\ published \in [Targets -> SUBSET Hash]
    /\ \A t \in Targets : highest[t] <= MaxSequence
    /\ cycle \in CycleState
    /\ faults \in 0..MaxFaults

LEMMA ItemsAreItems == SomeItem \subseteq Item
  BY NoHashAssumption, MaxSequenceAssumption DEF SomeItem, NoItem, Item

\* The record of the cycle, step by step.
LEMMA CycleType ==
  ASSUME SeederInv, RestInv, DiskUse \in Nat, [Next]_vars
  PROVE  cycle' \in CycleState
<1>0. cycle \in CycleState /\ cycle.at \in 1..(Len(Order) + 1) /\ Len(Order) \in Nat
  BY OrderFacts DEF RestInv, SeederInv, CycleInv
<1>1. NoItem \in Item /\ Idle \in CycleState
  BY <1>0, NoItemIsAnItem, ItemsAreItems DEF Idle, CycleState
<1>2. ASSUME Tick \/ EndCycle \/ Crash PROVE cycle' \in CycleState
  <2>1. Tick => cycle' = [pc |-> "head", at |-> 1, used |-> DiskUse, load |-> NoItem]
    BY DEF Tick, Idle
  <2>2. EndCycle \/ Crash => cycle' = Idle
    BY DEF EndCycle, Crash
  <2> QED
    BY <1>0, <1>1, <1>2, <2>1, <2>2 DEF CycleState
<1>3. ASSUME Measure \/ \E R \in SUBSET Nodes : SkipTarget(R) PROVE cycle' \in CycleState
  <2>1. cycle.at + 1 \in 1..(Len(Order) + 1)
    BY <1>0, <1>3 DEF Measure, SkipTarget, AtTarget, SeederInv, CycleInv
  <2>2. \/ cycle' = [cycle EXCEPT !.pc = "head", !.at = @ + 1, !.used = DiskUse]
        \/ cycle' = [cycle EXCEPT !.pc = "head", !.at = @ + 1]
    BY <1>3 DEF Measure, SkipTarget, NextTarget
  <2> QED
    BY <1>0, <2>1, <2>2 DEF CycleState
<1>4. ASSUME PinReturns PROVE cycle' \in CycleState
  BY <1>0, <1>1, <1>4 DEF PinReturns, CycleState
<1>5. ASSUME NEW R \in SUBSET Nodes, ResolveHead(R) \/ Reannounce(R) PROVE cycle' \in CycleState
  BY <1>0, <1>5 DEF ResolveHead, Reannounce, CycleState
<1>6. ASSUME NEW R \in SUBSET Nodes, LoadHead(R) PROVE cycle' \in CycleState
  <2>1. Target \in Targets
    BY <1>6, TargetType DEF LoadHead, SeederInv, CycleInv
  <2>2. dht[Target] \in [Nodes -> SomeItem] /\ loaded[Target] \in Item
    BY <2>1, ItemsAreItems DEF SeederInv, TableInv
  <2>3. PICK item \in MostRecent(dht[Target], R) :
          \/ PinReturns
          \/ cycle' = [cycle EXCEPT !.pc = "select", !.load = loaded[Target]]
          \/ cycle' = [cycle EXCEPT !.pc = "add", !.load = item]
    BY <1>6 DEF LoadHead
  <2>4. item \in Item
    BY <2>2, MostRecentIsHead, ItemsAreItems
  <2> QED
    BY <1>0, <1>4, <2>2, <2>3, <2>4 DEF CycleState
<1>7. ASSUME AddMagnet \/ LoadManifest \/ SelectAll PROVE cycle' \in CycleState
  BY <1>0, <1>7 DEF AddMagnet, LoadManifest, SelectAll, CycleState
<1>8. ASSUME AlreadyManaged \/ AddTimesOut \/ Pin \/ PinFails PROVE cycle' \in CycleState
  BY <1>4, <1>8 DEF AlreadyManaged, AddTimesOut, Pin, PinFails
<1>9. ASSUME UNCHANGED cycle PROVE cycle' \in CycleState
  BY <1>0, <1>9
<1> QED
  BY <1>2, <1>3, <1>5, <1>6, <1>7, <1>8, <1>9
  DEF Next, SeedCycle, Download, Publish, Expire, vars

LEMMA RestStep == SeederInv /\ DiskInv /\ RestInv /\ [Next]_vars => RestInv'
<1> SUFFICES ASSUME SeederInv, DiskInv, RestInv, [Next]_vars PROVE RestInv'
  OBVIOUS
<1>1. faults' \in 0..MaxFaults
  <2>1. ASSUME NEW k \in 0..1, Costs(k) PROVE faults' \in 0..MaxFaults
    BY <2>1, MaxFaultsAssumption DEF RestInv, Costs
  <2>2. ASSUME NEW R, Reaches(R) PROVE faults' \in 0..MaxFaults
    BY <2>1, <2>2 DEF Reaches
  <2>3. ASSUME UNCHANGED faults PROVE faults' \in 0..MaxFaults
    BY <2>3 DEF RestInv
  <2>4. 0 \in 0..1 /\ 1 \in 0..1
    OBVIOUS
  <2>5. \/ \E k \in 0..1 : Costs(k)
        \/ \E R \in SUBSET Nodes : Reaches(R)
        \/ UNCHANGED faults
    BY <2>4, Zenon DEF Next, SeedCycle, Tick, EndCycle, ResolveHead, SkipTarget,
     Reannounce, LoadHead, AddMagnet, AlreadyManaged, AddTimesOut, LoadManifest, SelectAll, Pin, PinFails,
     Measure, Crash, Download, Publish, Expire, vars
  <2> QED
    BY <2>1, <2>2, <2>3, <2>5
<1>2. published' \in [Targets -> SUBSET Hash]
  <2>1. ASSUME NEW t \in Targets, NEW h \in Hash, NEW R \in SUBSET Nodes, Publish(t, h, R)
        PROVE  published' \in [Targets -> SUBSET Hash]
    BY <2>1 DEF Publish, RestInv
  <2>2. ASSUME UNCHANGED published
        PROVE  published' \in [Targets -> SUBSET Hash]
    BY <2>2 DEF RestInv
  <2> QED
    BY <2>1, <2>2 DEF Next, SeedCycle, Tick, EndCycle, ResolveHead, SkipTarget,
     Reannounce, LoadHead, AddMagnet, AlreadyManaged, AddTimesOut, LoadManifest, SelectAll, Pin, PinFails,
     Measure, Crash, Download, Expire, authority, vars
<1>3. \A t \in Targets : highest'[t] <= MaxSequence
  <2>1. ASSUME NEW R \in SUBSET Nodes, ResolveHead(R)
        PROVE  \A t \in Targets : highest'[t] <= MaxSequence
    <3>1. PICK item \in MostRecent(dht[Target], R) :
            /\ ~RolledBack(Target, item)
            /\ highest' = [highest EXCEPT ![Target] = Max({highest[Target], item.seq})]
      BY <2>1 DEF ResolveHead
    <3>2. Target \in Targets
      BY <2>1, TargetType DEF ResolveHead, AtTarget
    <3>3. dht[Target] \in [Nodes -> SomeItem] /\ highest \in [Targets -> Nat]
      BY <3>2 DEF SeederInv, TableInv
    <3>4. item \in SomeItem
      BY <3>3, MostRecentIsHead
    <3>5. item.seq \in Nat /\ item.seq <= MaxSequence
      BY <3>4, MaxSequenceAssumption DEF SomeItem, NoItem
    <3>6. Max({highest[Target], item.seq}) = item.seq
      BY <3>1, <3>2, <3>3, <3>5, MaxOfTwo DEF RolledBack
    <3> QED
      BY <3>1, <3>3, <3>5, <3>6 DEF RestInv
  <2>2. ASSUME UNCHANGED highest
        PROVE  \A t \in Targets : highest'[t] <= MaxSequence
    BY <2>2 DEF RestInv
  <2> QED
    BY <2>1, <2>2 DEF Next, SeedCycle, Tick, EndCycle, SkipTarget,
     Reannounce, LoadHead, AddMagnet, AlreadyManaged, AddTimesOut, LoadManifest, SelectAll, Pin, PinFails,
     Measure, Crash, Download, Publish, Expire, authority, vars
<1>4. cycle' \in CycleState
  BY CycleType, OnDiskIsSelected DEF DiskInv
<1> QED
  BY <1>1, <1>2, <1>3, <1>4 DEF RestInv

LEMMA InitRest == Init => RestInv
  BY MaxFaultsAssumption, MaxSequenceAssumption, NoItemIsAnItem, ItemsAreItems, OrderFacts
  DEF Init, RestInv, Idle, CycleState

\* Every variable keeps its type, for any bounds.
THEOREM TypesHold == Spec => []TypeOK
<1>1. SomeItem \subseteq Item
  BY ItemsAreItems
<1>2. SeederInv /\ DiskInv /\ RestInv => TypeOK
  <2> SUFFICES ASSUME SeederInv, DiskInv, RestInv PROVE TypeOK
    OBVIOUS
  <2>1. dht \in [Targets -> Slot]
    BY <1>1 DEF SeederInv, TableInv, Slot
  <2>2. highest \in [Targets -> 0..MaxSequence]
    BY MaxSequenceAssumption DEF SeederInv, TableInv, RestInv
  <2>3. accepted \in [Targets -> Item] /\ loaded \in [Targets -> Item] /\ pinned \in [Targets -> Item]
    BY <1>1 DEF SeederInv, TableInv
  <2> QED
    BY <2>1, <2>2, <2>3 DEF TypeOK, SeederInv, TableInv, DiskInv, EngineInv, RestInv
<1>3. Spec => []RestInv
  BY InitRest, RestStep, DiskInvHolds, PTL DEF Spec
<1> QED
  BY <1>2, <1>3, DiskInvHolds, PTL

=============================================================================
