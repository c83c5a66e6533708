---------------------------- MODULE MainlineDht -----------------------------
(***************************************************************************)
(* The Mainline DHT as crates/swarm-head uses it: BEP 44 mutable items of  *)
(* one publisher key and salt, held independently by the nodes closest to  *)
(* their target. The DHT itself is a library and a network, outside this   *)
(* repository; a slot is the function from nodes to the item each holds.   *)
(*                                                                         *)
(* A lookup asks the nodes that happen to respond and returns the most     *)
(* recent item among theirs. A put is applied by every node reached that   *)
(* accepts it, each on its own: there is no agreement between nodes.       *)
(***************************************************************************)
EXTENDS Naturals

CONSTANTS
    Nodes,         \* DHT nodes close to the target
    Hash,          \* v1 info hashes: the value of a BEP 46 item
    NoHash,
    MaxSequence    \* i64::MAX in the code, a small number in a model

ASSUME NoHashAssumption == NoHash \notin Hash
ASSUME MaxSequenceAssumption == MaxSequence \in Nat \ {0}

\* A signed item. Sequences are positive, so sequence 0 stands for no item, and
\* for "no cas field" where a cas is expected.
Item == [seq : 0..MaxSequence, hash : Hash \cup {NoHash}]
NoItem == [seq |-> 0, hash |-> NoHash]
Slot == [Nodes -> Item]
EmptySlot == [n \in Nodes |-> NoItem]

\* get_mutable_most_recent over the nodes R that respond: any of the items with
\* the highest sequence among them.
MostRecent(slot, R) ==
    IF \A n \in R : slot[n] = NoItem
    THEN {NoItem}
    ELSE {slot[n] : n \in {m \in R : \A k \in R : slot[k].seq <= slot[m].seq}}

\* A node's decision on a put: the cas field must match what it holds, and the
\* sequence must not go back. An equal sequence overwrites.
Accepts(held, item, cas) ==
    \/ held = NoItem
    \/ (cas = 0 \/ cas = held.seq) /\ item.seq >= held.seq

\* put_mutable(item, cas) reaching the nodes R.
Put(slot, R, item, cas) ==
    [n \in Nodes |-> IF n \in R /\ Accepts(slot[n], item, cas) THEN item ELSE slot[n]]
=============================================================================
