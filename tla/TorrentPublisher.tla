-------------------------- MODULE TorrentPublisher --------------------------
(***************************************************************************)
(* TorrentDatasetPublisher::publish (crates/dataset-torrent) down to the   *)
(* DHT requests that HeadClient::publish_next (crates/swarm-head) makes.   *)
(*                                                                         *)
(* A call holds the publisher's state mutex from its first lookup to its   *)
(* return, so one publisher has at most one call in progress; other        *)
(* publishers with the same root key (Publishers) share only the DHT. Each *)
(* lookup reaches any set of nodes; a put is one request per node, which   *)
(* arrives after any other or never; a call may fail whatever was stored,  *)
(* and nodes forget items. A publisher process may crash and be rebuilt    *)
(* with with_current from the state its owner saved.                       *)
(***************************************************************************)
EXTENDS MainlineDht, Sequences

CONSTANTS
    Publishers,    \* publisher processes holding the same root key
    SavesOnReturn, \* the owner saves the state in the step in which publish returns
    Restored,      \* the head every publisher starts from; NoItem for a new key
    Reach,         \* the sets of nodes that one lookup may reach
    Volatile,      \* the nodes that may forget an item
    MaxCalls       \* bound of the model: publish calls

ASSUME SavesOnReturnAssumption == SavesOnReturn \in BOOLEAN
ASSUME RestoredAssumption ==
    Restored \in {i \in Item : i.seq = 0 <=> i.hash = NoHash}
ASSUME ReachAssumption == Reach \subseteq SUBSET Nodes
ASSUME VolatileAssumption == Volatile \subseteq Nodes
ASSUME MaxCallsAssumption == MaxCalls \in Nat

VARIABLES
    dht,       \* the slot of the root key
    state,     \* Mutex<Option<PublishedState>> of each publisher; NoItem is None
    saved,     \* what each owner would pass to with_current
    call,      \* the publish call each publisher is in
    puts,      \* put requests on their way to a node
    seeded,    \* snapshots staged on disk, complete and announced
    log,       \* history: the calls that returned Ok, with the base they named
    calls      \* calls begun so far

vars == <<dht, state, saved, call, puts, seeded, log, calls>>

\* One info hash per manifest digest: the snapshot directory is deterministic. An
\* Item therefore doubles as a PublishedState.
OptionHash == Hash \cup {NoHash}
Entry == [base : OptionHash, head : Item]

CallState == [pc       : {"idle", "resolve", "stage", "confirm", "put", "answers"},
              base     : OptionHash,     \* expected_previous
              hash     : OptionHash,     \* the publication
              expected : 0..MaxSequence, \* sequence of network_head; 0 for None
              next     : 0..MaxSequence, \* the sequence signed
              stored   : BOOLEAN]        \* some node answered that it stored it
IdleCall == [pc |-> "idle", base |-> NoHash, hash |-> NoHash, expected |-> 0, next |-> 0,
             stored |-> FALSE]
PutRequest == [by : Publishers, to : Nodes, item : Item, cas : 0..MaxSequence]

TypeOK ==
    /\ dht \in Slot
    /\ state \in [Publishers -> Item]
    /\ saved \in [Publishers -> Item]
    /\ call \in [Publishers -> CallState]
    /\ puts \subseteq PutRequest
    /\ seeded \subseteq Hash
    /\ log \in Seq(Entry)
    /\ calls \in 0..MaxCalls

Init ==
    /\ dht = [n \in Nodes |-> Restored]
    /\ state = [p \in Publishers |-> Restored]
    /\ saved = [p \in Publishers |-> Restored]
    /\ call = [p \in Publishers |-> IdleCall]
    /\ puts = {}
    /\ seeded = {Restored.hash} \ {NoHash}
    /\ log = <<>>
    /\ calls = 0
-----------------------------------------------------------------------------
\* publish(h, base): takes the state mutex.
Begin(p, h, base) ==
    /\ call[p].pc = "idle"
    /\ calls < MaxCalls
    /\ call' = [call EXCEPT ![p] = [IdleCall EXCEPT !.pc = "resolve", !.hash = h, !.base = base]]
    /\ calls' = calls + 1
    /\ UNCHANGED <<dht, state, saved, puts, seeded, log>>

\* The call returns an error: the mutex is released, state keeps its value. put_mutable
\* may fail having been stored by some nodes, and its requests may still arrive.
Fail(p) ==
    /\ call[p].pc # "idle"
    /\ call' = [call EXCEPT ![p] = IdleCall]
    /\ UNCHANGED <<dht, state, saved, puts, seeded, log, calls>>

\* actual != expected_previous; the defect ignores the caller's base.
AnyBase(p) == TRUE
MatchesBase(p) == state[p].hash = call[p].base

\* The match on (*state, network_head): both absent, or the same sequence.
\* Defect: a publisher without state adopts whatever the network has.
AdoptNetwork(p, network) == state[p] = NoItem \/ state[p].seq = network.seq
AgreesWithNetwork(p, network) == state[p].seq = network.seq

\* First lookup and the checks on its result.
Resolve(p, R) ==
    /\ call[p].pc = "resolve"
    /\ MatchesBase(p)
    /\ \E network \in MostRecent(dht, R) :
          /\ AgreesWithNetwork(p, network)
          /\ call' = [call EXCEPT ![p] = [@ EXCEPT !.pc = "stage", !.expected = network.seq]]
    /\ UNCHANGED <<dht, state, saved, puts, seeded, log, calls>>

\* Defect: the head is signed before the snapshot is in place.
StageNothing(p) ==
    /\ call[p].pc = "stage"
    /\ call' = [call EXCEPT ![p].pc = "confirm"]
    /\ UNCHANGED <<dht, state, saved, puts, seeded, log, calls>>

\* stage_snapshot, create_torrent, add_metainfo, wait_until_completed, announce.
Stage(p) ==
    /\ call[p].pc = "stage"
    /\ seeded' = seeded \cup {call[p].hash}
    /\ call' = [call EXCEPT ![p].pc = "confirm"]
    /\ UNCHANGED <<dht, state, saved, puts, log, calls>>

\* checked_add(1) on the sequence; the defect wraps or saturates past it.
AlwaysNext(p) == TRUE
HasNextSequence(p) == call[p].expected < MaxSequence

\* publish_next looks the head up again and signs the sequence after it. Defect: it
\* trusts the sequence the caller expects.
TrustExpected(p, R) ==
    /\ call[p].pc = "confirm"
    /\ HasNextSequence(p)
    /\ \E current \in MostRecent(dht, R) : current.seq < MaxSequence /\
          call' = [call EXCEPT ![p] = [@ EXCEPT !.pc = "put", !.next = current.seq + 1]]
    /\ UNCHANGED <<dht, state, saved, puts, seeded, log, calls>>

Confirm(p, R) ==
    /\ call[p].pc = "confirm"
    /\ HasNextSequence(p)
    /\ \E current \in MostRecent(dht, R) :
          /\ current.seq = call[p].expected
          /\ call' = [call EXCEPT ![p] = [@ EXCEPT !.pc = "put", !.next = current.seq + 1]]
    /\ UNCHANGED <<dht, state, saved, puts, seeded, log, calls>>

\* The cas of the put is the sequence of the second lookup; the defect leaves it out.
NoCas(p) == 0
Cas(p) == call[p].expected

Signed(p) == [seq |-> call[p].next, hash |-> call[p].hash]

\* put_mutable(signed, actual): a request to each node; one that is lost never arrives.
SendPut(p) ==
    /\ call[p].pc = "put"
    /\ puts' = puts \cup {[by |-> p, to |-> n, item |-> Signed(p), cas |-> Cas(p)] : n \in Nodes}
    /\ call' = [call EXCEPT ![p].pc = "answers"]
    /\ UNCHANGED <<dht, state, saved, seeded, log, calls>>

\* Each node decides on its own when the request arrives, be it after the call returned.
\* A request repeated with the same item by a later call is one with the first.
Arrive(r) ==
    /\ puts' = puts \ {r}
    /\ IF Accepts(dht[r.to], r.item, r.cas)
         THEN /\ dht' = [dht EXCEPT ![r.to] = r.item]
              /\ call' = IF call[r.by].pc = "answers" /\ Signed(r.by) = r.item
                         THEN [call EXCEPT ![r.by].stored = TRUE] ELSE call
         ELSE UNCHANGED <<dht, call>>
    /\ UNCHANGED <<state, saved, seeded, log, calls>>

\* put_mutable succeeds, some node having stored the item, and publish returns Ok.
PutOk(p) ==
    /\ call[p].pc = "answers"
    /\ call[p].stored
    /\ state' = [state EXCEPT ![p] = Signed(p)]
    /\ saved' = IF SavesOnReturn THEN [saved EXCEPT ![p] = Signed(p)] ELSE saved
    /\ log' = Append(log, [base |-> call[p].base, head |-> Signed(p)])
    /\ call' = [call EXCEPT ![p] = IdleCall]
    /\ UNCHANGED <<dht, puts, seeded, calls>>

\* The owner of the publisher saves what the last publish returned.
Save(p) ==
    /\ call[p].pc = "idle"
    /\ saved[p] # state[p]
    /\ saved' = [saved EXCEPT ![p] = state[p]]
    /\ UNCHANGED <<dht, state, call, puts, seeded, log, calls>>

\* The process dies and a new one is built with with_current.
Restart(p) ==
    /\ <<call[p], state[p]>> # <<IdleCall, saved[p]>>
    /\ call' = [call EXCEPT ![p] = IdleCall]
    /\ state' = [state EXCEPT ![p] = saved[p]]
    /\ UNCHANGED <<dht, saved, puts, seeded, log, calls>>

\* A DHT node forgets the item, or leaves and is replaced.
Expire(n) ==
    /\ dht[n] # NoItem
    /\ dht' = [dht EXCEPT ![n] = NoItem]
    /\ UNCHANGED <<state, saved, call, puts, seeded, log, calls>>

Next == \/ \E p \in Publishers :
              \/ \E h \in Hash, base \in OptionHash : Begin(p, h, base)
              \/ Fail(p)
              \/ \E R \in Reach : Resolve(p, R)
              \/ Stage(p)
              \/ \E R \in Reach : Confirm(p, R)
              \/ SendPut(p)
              \/ PutOk(p)
              \/ Save(p)
              \/ Restart(p)
        \/ \E r \in puts : Arrive(r)
        \/ \E n \in Volatile : Expire(n)

Spec == Init /\ [][Next]_vars
-----------------------------------------------------------------------------
(* Properties *)

\* Whatever the DHT answers, loses or forgets and wherever the process crashes, one
\* publisher whose owner saves its state sees its own publications as an
\* authority: each call that returned Ok was a compare-and-swap onto the next
\* sequence of the previous one (the reconciliation of state and network_head).
Sole == CHOOSE p \in Publishers : TRUE
Authority == INSTANCE DatasetAuthority
    WITH Digest <- Hash, NoDigest <- NoHash,
         head <- [seq |-> state[Sole].seq, digest |-> state[Sole].hash],
         log <- [i \in DOMAIN log |->
                   [base |-> log[i].base,
                    head |-> [seq |-> log[i].head.seq, digest |-> log[i].head.hash]]]
RefinesAuthority == Authority!Spec

\* An item reaches the DHT only after its snapshot is complete on disk and
\* announced, so a reader that resolves it can find a peer (publication order).
SeededBeforePublished == \A n \in Nodes : dht[n] # NoItem => dht[n].hash \in seeded

\* Of a key that exists, a node replaces the head it holds by its direct successor only:
\* by no other head of the same sequence, none that is older and none that skips one, in
\* whatever order the requests of racing publishers and of calls that failed or were
\* forgotten in a crash arrive (the cas of the put). No node orders them for another: two
\* publications under one sequence may both be stored, each by other nodes, and both
\* return Ok, and the first publication of a key carries no cas.
HeadsReplacedInTurn ==
    [][\A n \in Nodes : NoItem \notin {dht[n], dht'[n]} /\ dht'[n] # dht[n] =>
          dht'[n].seq = dht[n].seq + 1]_vars

\* No two calls that returned Ok published under one sequence.
AcknowledgedOnce ==
    \A i, j \in 1..Len(log) : i # j => log[i].head.seq # log[j].head.seq
=============================================================================
