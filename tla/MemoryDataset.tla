--------------------------- MODULE MemoryDataset ----------------------------
(***************************************************************************)
(* The in-memory dataset of crates/dataset-core, the reference             *)
(* implementation of the publisher, reader and watcher traits.             *)
(*                                                                         *)
(* Publisher handles are cloned freely and called from several tasks. A    *)
(* publish call validates its publication with no lock held, performs the  *)
(* compare-and-swap under the state mutex, and sends the new head to the   *)
(* watch channel after the mutex has been released: those are its steps.   *)
(* A watcher is the consumer loop the ChangeWatcher contract prescribes:   *)
(* wait for a hint, then resolve the head again through a reader.          *)
(***************************************************************************)
EXTENDS Naturals, Sequences

CONSTANTS
    Digest, NoDigest, MaxSequence,   \* see DatasetAuthority
    Publishers,                      \* tasks that call publish
    Watchers                         \* tasks that call wait_for_change

ASSUME NoDigestAssumption == NoDigest \notin Digest
ASSUME MaxSequenceAssumption == MaxSequence \in Nat \ {0}

VARIABLES
    state,      \* Mutex<Option<Committed>>: the committed head
    channel,    \* the value the watch channel holds
    pub,        \* the publish call each task is in
    watch,      \* the wait_for_change call each watcher is in
    closed,     \* every clone of the channel's sender has been dropped
    log         \* history: every commit, with the base its caller named

vars == <<state, channel, pub, watch, closed, log>>

OptionDigest == Digest \cup {NoDigest}
DatasetHead == [seq : 0..MaxSequence, digest : OptionDigest]
NoHead == [seq |-> 0, digest |-> NoDigest]
Entry == [base : OptionDigest, head : DatasetHead]

\* base is the digest the caller last resolved, digest the publication's.
PubState == [pc     : {"idle", "staged", "committed"},
             base   : OptionDigest,
             digest : OptionDigest,
             head   : DatasetHead,
             result : {"none", "ok", "invalid", "concurrent", "exhausted"}]

\* since is the head the consumer knows; fresh tells that the channel was sent
\* to after the last borrow_and_update.
WatchState == [pc    : {"idle", "borrow", "parked", "resolve", "closed"},
               since : DatasetHead,
               fresh : BOOLEAN]

TypeOK ==
    /\ state \in DatasetHead
    /\ channel \in DatasetHead
    /\ pub \in [Publishers -> PubState]
    /\ watch \in [Watchers -> WatchState]
    /\ closed \in BOOLEAN
    /\ log \in Seq(Entry)

Init ==
    /\ state = NoHead
    /\ channel = NoHead
    /\ pub = [p \in Publishers |-> [pc |-> "idle", base |-> NoDigest,
                 digest |-> NoDigest, head |-> NoHead, result |-> "none"]]
    /\ watch = [w \in Watchers |-> [pc |-> "idle", since |-> NoHead, fresh |-> FALSE]]
    /\ closed = FALSE
    /\ log = <<>>
-----------------------------------------------------------------------------
(* Publishers *)

\* The caller resolves the head it will base its next publication on.
ReadHead(p) ==
    /\ ~closed
    /\ pub[p].pc = "idle"
    /\ pub' = [pub EXCEPT ![p].base = state.digest]
    /\ UNCHANGED <<state, channel, watch, closed, log>>

\* Defect: the head is announced while it is only staged.
StageAnnouncing(p, d) ==
    /\ ~closed
    /\ pub[p].pc = "idle"
    /\ pub' = [pub EXCEPT ![p] = [@ EXCEPT !.pc = "staged", !.digest = d, !.result = "none"]]
    /\ channel' = [seq |-> (state.seq % MaxSequence) + 1, digest |-> d]
    /\ UNCHANGED <<state, watch, closed, log>>

\* publish validates the manifest and the snapshot, with no lock held.
Stage(p, d) ==
    /\ ~closed
    /\ pub[p].pc = "idle"
    /\ pub' = [pub EXCEPT ![p] = [@ EXCEPT !.pc = "staged", !.digest = d, !.result = "none"]]
    /\ UNCHANGED <<state, channel, watch, closed, log>>

StageInvalid(p) ==
    /\ ~closed
    /\ pub[p].pc = "idle"
    /\ pub' = [pub EXCEPT ![p].result = "invalid"]
    /\ UNCHANGED <<state, channel, watch, closed, log>>

\* actual != expected_previous; the defect ignores the caller's base.
AnyBase(p) == TRUE
MatchesBase(p) == state.digest = pub[p].base

\* checked_add; the defect is an unchecked one.
AlwaysNext(h) == TRUE
HasNextSequence(h) == h.seq < MaxSequence

\* map_or(Ok(1), .. + 1); the defect forgets the increment.
SameSequence(h) == IF h = NoHead THEN 1 ELSE h.seq
NextSequence(h) == IF h = NoHead THEN 1 ELSE h.seq + 1

\* The critical section: compare, assign the next sequence, swap.
CommitSection(p) ==
    /\ pub[p].pc = "staged"
    /\ MatchesBase(p)
    /\ HasNextSequence(state)
    /\ state' = [seq |-> NextSequence(state), digest |-> pub[p].digest]
    /\ log' = Append(log, [base |-> pub[p].base, head |-> state'])
    /\ pub' = [pub EXCEPT ![p] = [@ EXCEPT !.pc = "committed", !.head = state']]
    /\ UNCHANGED <<channel, watch, closed>>

Reject(p, result) ==
    /\ pub[p].pc = "staged"
    /\ pub' = [pub EXCEPT ![p] = [@ EXCEPT !.pc = "idle", !.result = result]]
    /\ UNCHANGED <<state, channel, watch, closed, log>>

RejectConcurrent(p) == ~MatchesBase(p) /\ Reject(p, "concurrent")

RejectExhausted(p) ==
    MatchesBase(p) /\ ~HasNextSequence(state) /\ Reject(p, "exhausted")

\* Defect: the value is replaced but no receiver is woken.
NotifyUnheard(p) ==
    /\ pub[p].pc = "committed"
    /\ channel' = pub[p].head
    /\ pub' = [pub EXCEPT ![p] = [@ EXCEPT !.pc = "idle", !.result = "ok"]]
    /\ UNCHANGED <<state, watch, closed, log>>

\* changes.send_replace(Some(head)), after drop(state).
Notify(p) ==
    /\ pub[p].pc = "committed"
    /\ channel' = pub[p].head
    /\ watch' = [w \in Watchers |-> [watch[w] EXCEPT !.fresh = TRUE]]
    /\ pub' = [pub EXCEPT ![p] = [@ EXCEPT !.pc = "idle", !.result = "ok"]]
    /\ UNCHANGED <<state, closed, log>>

Publish(p) ==
    \/ ReadHead(p)
    \/ \E d \in Digest : Stage(p, d)
    \/ StageInvalid(p)
    \/ CommitSection(p)
    \/ RejectConcurrent(p)
    \/ RejectExhausted(p)
    \/ Notify(p)

\* The dataset and its publisher handles are dropped; a call in progress keeps
\* its handle alive.
DropSenders ==
    /\ ~closed
    /\ \A p \in Publishers : pub[p].pc = "idle"
    /\ closed' = TRUE
    /\ UNCHANGED <<state, channel, pub, watch, log>>
-----------------------------------------------------------------------------
(* Watchers *)

WaitForChange(w) ==
    /\ watch[w].pc = "idle"
    /\ watch' = [watch EXCEPT ![w].pc = "borrow"]
    /\ UNCHANGED <<state, channel, pub, closed, log>>

\* borrow_and_update, then return the head or wait for changed().
BorrowAndUpdate(w) ==
    /\ watch[w].pc = "borrow"
    /\ watch' = [watch EXCEPT ![w] =
            [@ EXCEPT !.pc = IF channel # watch[w].since /\ channel # NoHead
                             THEN "resolve" ELSE "parked",
                      !.fresh = FALSE]]
    /\ UNCHANGED <<state, channel, pub, closed, log>>

\* changed() reports an unseen value first and a closed channel second.
Changed(w) ==
    /\ watch[w].pc = "parked"
    /\ \/ watch[w].fresh /\ watch' = [watch EXCEPT ![w].pc = "borrow"]
       \/ /\ ~watch[w].fresh
          /\ closed
          /\ watch' = [watch EXCEPT ![w].pc = "closed"]
    /\ UNCHANGED <<state, channel, pub, closed, log>>

\* The hint is never used itself: the consumer resolves the head again.
ReResolve(w) ==
    /\ watch[w].pc = "resolve"
    /\ watch' = [watch EXCEPT ![w] = [@ EXCEPT !.pc = "idle", !.since = state]]
    /\ UNCHANGED <<state, channel, pub, closed, log>>

Watch(w) == WaitForChange(w) \/ BorrowAndUpdate(w) \/ Changed(w) \/ ReResolve(w)
-----------------------------------------------------------------------------
Next == \/ \E p \in Publishers : Publish(p)
        \/ DropSenders
        \/ \E w \in Watchers : Watch(w)

Spec == Init /\ [][Next]_vars

\* A watcher task that can run does, and a publish call that has committed goes
\* on to its send: there is no await between the two. Whether anyone publishes
\* is up to the callers.
Fairness == /\ \A p \in Publishers : WF_vars(Notify(p))
            /\ \A w \in Watchers : WF_vars(Watch(w))

FairSpec == Spec /\ Fairness
-----------------------------------------------------------------------------
(* Properties *)

\* The dataset implements the abstract authority: every step that changes the
\* committed head is one successful compare-and-swap, against the very digest
\* the caller named, onto the next sequence (MemoryPublisher::publish).
Authority == INSTANCE DatasetAuthority WITH head <- state
RefinesAuthority == Authority!Spec

\* A publish call that returned Ok, or is about to, has its own place in the
\* history: the commit it reports is the one recorded under that sequence, and
\* no two tasks report the same one.
AcknowledgedOnce ==
    /\ \A p \in Publishers : pub[p].head # NoHead =>
          /\ pub[p].head.seq \in 1..Len(log)
          /\ log[pub[p].head.seq].head = pub[p].head
    /\ \A p, q \in Publishers :
          p # q /\ pub[p].head # NoHead => pub[p].head.seq # pub[q].head.seq

\* A hint may be late or out of order but is never invented: the channel holds a
\* head that was committed, never one ahead of the authority.
HintWasCommitted ==
    channel = NoHead \/ (channel.seq \in 1..Len(log) /\ log[channel.seq].head = channel)

\* A watcher never misses the last commit and never spins, provided no commit falls
\* between another one and its send: once publication stops it knows the head and
\* is parked on changed(), or has been told that the channel is closed. (Otherwise
\* the sends can be reordered, and this fails; the trait allows missed
\* notifications.)
SendsInOrder ==
    \A p, q \in Publishers : pub[p].pc = "committed" /\ pub[q].pc = "committed" => p = q
WatcherSettles ==
    []SendsInOrder =>
    \A w \in Watchers : <>[](/\ watch[w].since = state
                               /\ watch[w].pc \in {"parked", "closed"})
=============================================================================
