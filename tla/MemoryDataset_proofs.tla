------------------------ MODULE MemoryDataset_proofs ------------------------
(***************************************************************************)
(* Proofs about MemoryDataset, for any sets of digests, publishing tasks   *)
(* and watchers and any maximal sequence.                                  *)
(***************************************************************************)
EXTENDS MemoryDataset, SequenceTheorems, TLAPS

LEMMA NoHeadType == NoHead \in DatasetHead
  BY MaxSequenceAssumption DEF NoHead, DatasetHead, OptionDigest

\* Type correctness: in particular no committed sequence exceeds the maximum, so
\* checked_add never wraps a head around.
THEOREM TypeCorrect == Spec => []TypeOK
<1>1. Init => TypeOK
  <2> SUFFICES ASSUME Init PROVE TypeOK
    OBVIOUS
  <2>1. pub \in [Publishers -> PubState]
    BY NoHeadType DEF Init, PubState, OptionDigest
  <2>2. watch \in [Watchers -> WatchState]
    BY NoHeadType DEF Init, WatchState
  <2>3. closed \in BOOLEAN
    BY Zenon DEF Init
  <2>4. log \in Seq(Entry)
    BY DEF Init
  <2> QED
    BY <2>1, <2>2, <2>3, <2>4, NoHeadType DEF Init, TypeOK
<1>2. TypeOK /\ [Next]_vars => TypeOK'
  <2> SUFFICES ASSUME TypeOK, [Next]_vars PROVE TypeOK'
    OBVIOUS
  <2> USE DEF TypeOK
  <2>1. ASSUME NEW p \in Publishers, ReadHead(p) PROVE TypeOK'
    <3>1. state.digest \in OptionDigest
      BY DEF DatasetHead
    <3>2. pub' \in [Publishers -> PubState]
      BY <2>1, <3>1 DEF ReadHead, PubState
    <3> QED
      BY <2>1, <3>2 DEF ReadHead
  <2>2. ASSUME NEW p \in Publishers, NEW d \in Digest, Stage(p, d) PROVE TypeOK'
    <3>1. d \in OptionDigest
      BY DEF OptionDigest
    <3>2. pub' \in [Publishers -> PubState]
      BY <2>2, <3>1 DEF Stage, PubState
    <3> QED
      BY <2>2, <3>2 DEF Stage
  <2>3. ASSUME NEW p \in Publishers, StageInvalid(p) PROVE TypeOK'
    BY <2>3 DEF StageInvalid, PubState
  <2>4. ASSUME NEW p \in Publishers, CommitSection(p) PROVE TypeOK'
    <3>1. state' \in DatasetHead
      BY <2>4, MaxSequenceAssumption
      DEF CommitSection, HasNextSequence, NextSequence, DatasetHead, PubState, NoHead
    <3>2. [base |-> pub[p].base, head |-> state'] \in Entry
      BY <3>1 DEF Entry, PubState
    <3>3. log' \in Seq(Entry)
      BY <2>4, <3>2, AppendProperties DEF CommitSection
    <3>4. pub' \in [Publishers -> PubState]
      BY <2>4, <3>1 DEF CommitSection, PubState
    <3> QED
      BY <2>4, <3>1, <3>3, <3>4 DEF CommitSection
  <2>5. ASSUME NEW p \in Publishers, RejectConcurrent(p) PROVE TypeOK'
    BY <2>5 DEF RejectConcurrent, Reject, PubState
  <2>6. ASSUME NEW p \in Publishers, RejectExhausted(p) PROVE TypeOK'
    BY <2>6 DEF RejectExhausted, Reject, PubState
  <2>7. ASSUME NEW p \in Publishers, Notify(p) PROVE TypeOK'
    <3>1. watch' \in [Watchers -> WatchState]
      BY <2>7 DEF Notify, WatchState
    <3>2. pub' \in [Publishers -> PubState] /\ channel' \in DatasetHead
      BY <2>7 DEF Notify, PubState
    <3> QED
      BY <2>7, <3>1, <3>2 DEF Notify
  <2>8. CASE DropSenders
    BY <2>8 DEF DropSenders
  <2>9. ASSUME NEW w \in Watchers, Watch(w) PROVE TypeOK'
    <3>1. ASSUME NEW ws \in WatchState, NEW q \in {"idle", "borrow", "parked", "resolve", "closed"}
          PROVE  /\ [ws EXCEPT !.pc = q] \in WatchState
                 /\ [ws EXCEPT !.pc = q, !.fresh = FALSE] \in WatchState
                 /\ [ws EXCEPT !.pc = q, !.since = state] \in WatchState
      BY DEF WatchState
    <3>2. watch' \in [Watchers -> WatchState]
      <4>1. ASSUME NEW q \in {"borrow", "closed"}, watch' = [watch EXCEPT ![w].pc = q]
            PROVE  watch' \in [Watchers -> WatchState]
        BY <3>1, <4>1
      <4>2. CASE BorrowAndUpdate(w)
        BY <3>1, <4>2 DEF BorrowAndUpdate
      <4>3. CASE ReResolve(w)
        BY <3>1, <4>3 DEF ReResolve
      <4> QED
        BY <2>9, <4>1, <4>2, <4>3, Zenon DEF Watch, WaitForChange, Changed
    <3> QED
      BY <2>9, <3>2 DEF Watch, WaitForChange, BorrowAndUpdate, Changed, ReResolve
  <2>10. CASE UNCHANGED vars
    BY <2>10 DEF vars
  <2> QED
    BY <2>1, <2>2, <2>3, <2>4, <2>5, <2>6, <2>7, <2>8, <2>9, <2>10 DEF Next, Publish
<1> QED
  BY <1>1, <1>2, PTL DEF Spec
-----------------------------------------------------------------------------
\* A publish call past validation holds a real digest, and one past its commit a
\* real head.
CallShape ==
    \A p \in Publishers :
        /\ pub[p].pc = "staged" => pub[p].digest \in Digest
        /\ pub[p].pc = "committed" => pub[p].head # NoHead

\* No update is lost: whatever the interleaving of publish calls, each commit
\* names the digest of the commit just before it, the sequences have no gap and
\* no repetition, and the head is the last commit.
NoLostUpdate ==
    /\ state = IF log = <<>> THEN NoHead ELSE log[Len(log)].head
    /\ \A i \in 1..Len(log) :
          /\ log[i].head.seq = i
          /\ log[i].base = IF i = 1 THEN NoDigest ELSE log[i-1].head.digest

\* The inductive invariant: NoLostUpdate alone survives a commit only because the
\* head is the last entry of the log, AcknowledgedOnce needs the log's numbering,
\* and HintWasCommitted needs AcknowledgedOnce of the task about to send.
IInv == TypeOK /\ NoLostUpdate /\ AcknowledgedOnce /\ HintWasCommitted /\ CallShape

\* Under NoLostUpdate the sequence of the head counts the commits.
LEMMA HeadCountsCommits ==
  ASSUME TypeOK, NoLostUpdate
  PROVE  /\ Len(log) \in Nat
         /\ state.seq = Len(log)
         /\ NextSequence(state) = Len(log) + 1
         /\ Len(log) > 0 => state = log[Len(log)].head
         /\ Len(log) = 0 => state = NoHead
<1>1. Len(log) \in Nat
  BY DEF TypeOK
<1>2. CASE log = <<>>
  BY <1>2 DEF NoLostUpdate, NoHead, NextSequence
<1>3. CASE log # <<>>
  <2>1. Len(log) \in 1..Len(log)
    BY <1>1, <1>3, EmptySeq DEF TypeOK
  <2>2. state = log[Len(log)].head /\ state.seq = Len(log)
    BY <1>3, <2>1 DEF NoLostUpdate
  <2>3. state # NoHead
    BY <2>1, <2>2 DEF NoHead
  <2> QED
    BY <1>1, <2>1, <2>2, <2>3 DEF NextSequence
<1> QED
  BY <1>2, <1>3

\* A commit extends the log and touches none of its entries.
LEMMA CommitAppends ==
  ASSUME TypeOK, NoLostUpdate, NEW p \in Publishers, CommitSection(p)
  PROVE  /\ Len(log') = Len(log) + 1
         /\ \A i \in 1..Len(log) : log'[i] = log[i]
         /\ log'[Len(log) + 1] = [base |-> state.digest, head |-> state']
         /\ state' = [seq |-> Len(log) + 1, digest |-> pub[p].digest]
         /\ log' # <<>>
<1> DEFINE e == [base |-> pub[p].base, head |-> state']
<1>1. state' = [seq |-> Len(log) + 1, digest |-> pub[p].digest]
  BY HeadCountsCommits DEF CommitSection
<1>2. log \in Seq(Entry) /\ log' = Append(log, e) /\ Len(log) \in Nat
  BY HeadCountsCommits DEF CommitSection, TypeOK
<1>3. /\ Len(log') = Len(log) + 1
      /\ \A i \in 1..Len(log) : log'[i] = log[i]
      /\ log'[Len(log) + 1] = e
  BY <1>2
<1>4. pub[p].base = state.digest
  BY DEF CommitSection, MatchesBase
<1> QED
  BY <1>1, <1>2, <1>3, <1>4, EmptySeq

LEMMA CommitPreserves ==
  ASSUME IInv, TypeOK', NEW p \in Publishers, CommitSection(p)
  PROVE  IInv'
<1> USE DEF IInv
<1> DEFINE n == Len(log)
<1>1. n \in Nat /\ n = state.seq
  BY HeadCountsCommits
<1>2. /\ Len(log') = n + 1
      /\ \A i \in 1..n : log'[i] = log[i]
      /\ log'[n + 1] = [base |-> state.digest, head |-> state']
      /\ state' = [seq |-> n + 1, digest |-> pub[p].digest]
      /\ log' # <<>>
  BY CommitAppends
<1>3. state'.seq = n + 1 /\ state' # NoHead
  BY <1>1, <1>2 DEF NoHead
<1>4. NoLostUpdate'
  <2>1. ASSUME NEW i \in 1..(n + 1)
        PROVE  /\ log'[i].head.seq = i
               /\ log'[i].base = IF i = 1 THEN NoDigest ELSE log'[i-1].head.digest
    <3>1. CASE i \in 1..n
      <4>1. log'[i] = log[i] /\ (i # 1 => log'[i-1] = log[i-1])
        BY <1>1, <1>2, <3>1
      <4> QED
        BY <3>1, <4>1 DEF NoLostUpdate
    <3>2. CASE i = n + 1
      <4>1. CASE n = 0
        BY <1>1, <1>2, <3>2, <4>1, HeadCountsCommits DEF NoHead
      <4>2. CASE n > 0
        <5>1. i # 1 /\ i - 1 = n /\ n \in 1..n
          BY <1>1, <3>2, <4>2
        <5>2. log'[i - 1] = log[n] /\ state = log[n].head
          BY <1>2, <4>2, <5>1, HeadCountsCommits
        <5> QED
          BY <1>2, <1>3, <3>2, <5>1, <5>2
      <4> QED
        BY <1>1, <4>1, <4>2
    <3> QED
      BY <1>1, <3>1, <3>2
  <2> QED
    BY <1>1, <1>2, <2>1 DEF NoLostUpdate
<1>5. \A q \in Publishers : pub'[q].head = IF q = p THEN state' ELSE pub[q].head
  BY DEF CommitSection, TypeOK, PubState
<1>6. AcknowledgedOnce'
  <2>1. ASSUME NEW q \in Publishers, pub'[q].head # NoHead
        PROVE  pub'[q].head.seq \in 1..(n + 1) /\ log'[pub'[q].head.seq].head = pub'[q].head
    <3>1. CASE q = p
      BY <1>1, <1>2, <1>3, <1>5, <3>1
    <3>2. CASE q # p
      <4>1. pub'[q].head = pub[q].head /\ pub[q].head # NoHead
        BY <1>5, <2>1, <3>2
      <4>2. pub[q].head.seq \in 1..n /\ log[pub[q].head.seq].head = pub[q].head
        BY <4>1 DEF AcknowledgedOnce
      <4> QED
        BY <1>1, <1>2, <4>1, <4>2
    <3> QED
      BY <3>1, <3>2
  <2>2. ASSUME NEW q \in Publishers, NEW r \in Publishers, q # r, pub'[q].head # NoHead
        PROVE  pub'[q].head.seq # pub'[r].head.seq
    <3>1. \A t \in Publishers : pub[t].head.seq \in 0..n
      BY <1>1 DEF AcknowledgedOnce, NoHead
    <3> QED
      BY <1>1, <1>3, <1>5, <2>2, <3>1 DEF AcknowledgedOnce
  <2> QED
    BY <1>2, <2>1, <2>2 DEF AcknowledgedOnce
<1>7. HintWasCommitted'
  BY <1>1, <1>2 DEF HintWasCommitted, CommitSection
<1>8. CallShape'
  BY <1>3 DEF CallShape, CommitSection, TypeOK, PubState
<1> QED
  BY <1>4, <1>6, <1>7, <1>8

\* A step that neither commits nor sends leaves the log, the head, the channel and
\* every call's head alone.
LEMMA QuietPreserves ==
  ASSUME IInv, TypeOK', UNCHANGED <<state, channel, log>>,
         \A q \in Publishers :
            /\ pub'[q].head = pub[q].head
            /\ pub'[q].pc = "staged" => pub'[q].digest \in Digest
            /\ pub'[q].pc = "committed" => pub[q].pc = "committed"
  PROVE  IInv'
BY DEF IInv, NoLostUpdate, AcknowledgedOnce, HintWasCommitted, CallShape

LEMMA NotifyPreserves ==
  ASSUME IInv, TypeOK', NEW p \in Publishers, Notify(p)
  PROVE  IInv'
<1>1. \A q \in Publishers : /\ pub'[q].head = pub[q].head
                            /\ pub'[q].pc \in {pub[q].pc, "idle"}
                            /\ pub'[q].digest = pub[q].digest
  BY DEF Notify, IInv, TypeOK, PubState
<1>2. pub[p].head # NoHead /\ channel' = pub[p].head /\ UNCHANGED <<state, log>>
  BY DEF Notify, IInv, CallShape
<1>3. HintWasCommitted'
  BY <1>2 DEF IInv, AcknowledgedOnce, HintWasCommitted
<1>4. CallShape'
  BY <1>1 DEF IInv, CallShape
<1>5. NoLostUpdate'
  BY <1>2 DEF IInv, NoLostUpdate
<1>6. AcknowledgedOnce'
  BY <1>1, <1>2 DEF IInv, AcknowledgedOnce
<1> QED
  BY <1>3, <1>4, <1>5, <1>6 DEF IInv

LEMMA Inductive == Spec => []IInv
<1>1. Init => NoLostUpdate /\ AcknowledgedOnce /\ HintWasCommitted /\ CallShape
  <2> SUFFICES ASSUME Init
               PROVE  NoLostUpdate /\ AcknowledgedOnce /\ HintWasCommitted /\ CallShape
    OBVIOUS
  <2>1. \A p \in Publishers : pub[p].head = NoHead /\ pub[p].pc = "idle"
    BY DEF Init
  <2>2. log = <<>> /\ state = NoHead /\ channel = NoHead
    BY DEF Init
  <2> QED
    BY <2>1, <2>2 DEF NoLostUpdate, AcknowledgedOnce, HintWasCommitted, CallShape
<1>2. IInv /\ TypeOK' /\ [Next]_vars => IInv'
  <2> SUFFICES ASSUME IInv, TypeOK', [Next]_vars PROVE IInv'
    OBVIOUS
  <2> USE DEF IInv, TypeOK, CallShape
  <2>1. ASSUME NEW p \in Publishers,
               \/ ReadHead(p)
               \/ \E d \in Digest : Stage(p, d)
               \/ StageInvalid(p)
               \/ RejectConcurrent(p)
               \/ RejectExhausted(p)
        PROVE  IInv'
    <3>1. \A q \in Publishers :
            /\ pub'[q].head = pub[q].head
            /\ pub'[q].pc = "staged" => pub'[q].digest \in Digest
            /\ pub'[q].pc = "committed" => pub[q].pc = "committed"
      <4>1. CASE ReadHead(p) \/ StageInvalid(p)
        BY <4>1 DEF ReadHead, StageInvalid, PubState
      <4>2. ASSUME NEW d \in Digest, Stage(p, d)
            PROVE  /\ pub'[p].head = pub[p].head /\ pub'[p].pc = "staged" /\ pub'[p].digest = d
                   /\ \A q \in Publishers \ {p} : pub'[q] = pub[q]
        BY <4>2 DEF Stage, PubState
      <4>3. CASE RejectConcurrent(p) \/ RejectExhausted(p)
        <5>1. PICK r \in {"concurrent", "exhausted"} : Reject(p, r)
          BY <4>3 DEF RejectConcurrent, RejectExhausted
        <5>2. /\ pub'[p].head = pub[p].head /\ pub'[p].pc = "idle"
              /\ \A q \in Publishers \ {p} : pub'[q] = pub[q]
          BY <5>1 DEF Reject, PubState
        <5> QED
          BY <5>2
      <4> QED
        <5>1. ASSUME NEW d \in Digest, Stage(p, d)
              PROVE  \A q \in Publishers :
                        /\ pub'[q].head = pub[q].head
                        /\ pub'[q].pc = "staged" => pub'[q].digest \in Digest
                        /\ pub'[q].pc = "committed" => pub[q].pc = "committed"
          BY <4>2, <5>1
        <5> QED
          BY <2>1, <4>1, <4>3, <5>1
    <3>2. UNCHANGED <<state, channel, log>>
      BY <2>1 DEF ReadHead, Stage, StageInvalid, RejectConcurrent, RejectExhausted, Reject
    <3> QED
      BY <3>1, <3>2, QuietPreserves
  <2>2. ASSUME UNCHANGED <<state, channel, pub, log>> PROVE IInv'
    BY <2>2, QuietPreserves
  <2>3. ASSUME NEW w \in Watchers, Watch(w) PROVE UNCHANGED <<state, channel, pub, log>>
    BY <2>3 DEF Watch, WaitForChange, BorrowAndUpdate, Changed, ReResolve
  <2>4. DropSenders \/ UNCHANGED vars => UNCHANGED <<state, channel, pub, log>>
    BY DEF DropSenders, vars
  <2> QED
    BY <2>1, <2>2, <2>3, <2>4, CommitPreserves, NotifyPreserves DEF Next, Publish
<1> QED
  BY <1>1, <1>2, TypeCorrect, PTL DEF Spec, IInv

\* No update is lost, for any number of publishing tasks: the critical section of
\* MemoryPublisher::publish makes the history a gapless chain of
\* compare-and-swaps.
THEOREM HistoryIsChained == Spec => []NoLostUpdate
<1>1. IInv => NoLostUpdate
  BY DEF IInv
<1> QED
  BY <1>1, Inductive, PTL

\* Two publish calls never report the same commit.
THEOREM AcknowledgedIsUnique == Spec => []AcknowledgedOnce
<1>1. IInv => AcknowledgedOnce
  BY DEF IInv
<1> QED
  BY <1>1, Inductive, PTL

\* Although the sends race, the watch channel only ever holds committed heads.
THEOREM HintsAreCommitted == Spec => []HintWasCommitted
<1>1. IInv => HintWasCommitted
  BY DEF IInv
<1> QED
  BY <1>1, Inductive, PTL

\* MemoryDataset implements the abstract dataset authority.
THEOREM Refinement == Spec => RefinesAuthority
<1>1. Init => Authority!Init
  BY DEF Init, Authority!Init, Authority!NoHead, NoHead
<1>2. IInv /\ [Next]_vars => [Authority!Next]_<<state, log>>
  <2> SUFFICES ASSUME IInv, [Next]_vars,  ~ UNCHANGED <<state, log>>
               PROVE  Authority!Next
    OBVIOUS
  <2>1. PICK p \in Publishers : CommitSection(p)
    BY DEF Next, Publish, ReadHead, Stage, StageInvalid, RejectConcurrent, RejectExhausted,
           Reject, Notify, DropSenders, Watch, WaitForChange, BorrowAndUpdate, Changed,
           ReResolve, vars
  <2>2. pub[p].base \in OptionDigest /\ pub[p].digest \in Digest
    BY <2>1 DEF IInv, CallShape, TypeOK, PubState, CommitSection
  <2>3. NextSequence(state) = state.seq + 1
    BY HeadCountsCommits DEF IInv
  <2>4. Authority!Commit(pub[p].base, pub[p].digest)
    BY <2>1, <2>3 DEF Authority!Commit, CommitSection, MatchesBase, HasNextSequence
  <2> QED
    BY <2>2, <2>4 DEF Authority!Next, Authority!OptionDigest, OptionDigest
<1> QED
  BY <1>1, <1>2, Inductive, PTL DEF Spec, RefinesAuthority, Authority!Spec
=============================================================================
