-------------------------- MODULE DatasetAuthority --------------------------
(***************************************************************************)
(* What a dataset promises its users, whatever transport carries it: one   *)
(* authoritative head, replaced by an atomic compare-and-swap on the       *)
(* manifest digest, whose authority sequence grows by exactly one with     *)
(* each commit (the DatasetPublisher contract of crates/dataset-core).     *)
(* The transports are shown to implement this specification, or shown not  *)
(* to, with head and log mapped to their own state.                        *)
(***************************************************************************)
EXTENDS Naturals, Sequences

CONSTANTS
    Digest,        \* manifest digests: the identity of a dataset state
    NoDigest,      \* Option::None where an Option<ManifestDigest> is expected
    MaxSequence    \* u64::MAX in the code, a small number in a model

VARIABLES
    head,          \* the head a reader resolves; NoHead before any commit
    log            \* every commit so far: the base its caller named, and its head

OptionDigest == Digest \cup {NoDigest}

\* A DatasetHead. No real head has sequence 0, so None is the head below all.
DatasetHead == [seq : 0..MaxSequence, digest : OptionDigest]
NoHead == [seq |-> 0, digest |-> NoDigest]

Entry == [base : OptionDigest, head : DatasetHead]

Init == head = NoHead /\ log = <<>>

\* publish(d, base) succeeds exactly when base is the digest of the head.
Commit(base, d) ==
    /\ head.digest = base
    /\ head.seq < MaxSequence
    /\ head' = [seq |-> head.seq + 1, digest |-> d]
    /\ log' = Append(log, [base |-> base, head |-> head'])

Next == \E base \in OptionDigest, d \in Digest : Commit(base, d)

Spec == Init /\ [][Next]_<<head, log>>
=============================================================================
