---------------------- MODULE TorrentPublisher_proofs -----------------------
(***************************************************************************)
(* Proofs about TorrentPublisher, for any DHT nodes, publishers, info      *)
(* hashes and sequence bound, and whatever requests reach.                 *)
(***************************************************************************)
EXTENDS TorrentPublisher, SequenceTheorems, TLAPS

\* A call in progress has a publication, and one that has staged it is seeding it.
CallInv ==
    \A p \in Publishers :
        /\ call[p].pc # "idle" => call[p].hash \in Hash
        /\ call[p].pc \in {"confirm", "put", "answers"} => call[p].hash \in seeded

\* What is on its way to a node is complete and announced.
PutsInv == \A r \in puts : r.item.hash \in seeded

\* The inductive invariant. SeededBeforePublished needs the calls about to put and the
\* requests they made, since any of them may be the next to reach a node.
SeedInv == TypeOK /\ CallInv /\ PutsInv /\ SeededBeforePublished
-----------------------------------------------------------------------------
(* The DHT *)

LEMMA NoItemType == NoItem \in Item
  BY MaxSequenceAssumption DEF NoItem, Item

LEMMA MostRecentIsHeld ==
  ASSUME NEW slot \in Slot, NEW R \in SUBSET Nodes, NEW item \in MostRecent(slot, R)
  PROVE  item = NoItem \/ \E n \in R : item = slot[n]
  BY DEF MostRecent

LEMMA MostRecentType ==
  ASSUME NEW slot \in Slot, NEW R \in SUBSET Nodes, NEW item \in MostRecent(slot, R)
  PROVE  item \in Item
  BY MostRecentIsHeld, NoItemType DEF Slot
-----------------------------------------------------------------------------
LEMMA InitSeed == Init => SeedInv
<1> SUFFICES ASSUME Init PROVE SeedInv
  OBVIOUS
<1>1. Restored \in Item /\ (Restored.seq = 0 <=> Restored.hash = NoHash)
  BY RestoredAssumption
<1>2. Restored # NoItem => Restored.hash # NoHash
  BY <1>1 DEF Item, NoItem
<1>3. IdleCall \in CallState /\ IdleCall.pc = "idle"
  BY MaxSequenceAssumption DEF IdleCall, CallState, OptionHash
<1>4. TypeOK
  BY <1>1, <1>3, MaxCallsAssumption DEF Init, TypeOK, Slot, Item
<1>5. CallInv /\ PutsInv
  BY <1>3 DEF Init, CallInv, PutsInv
<1>6. SeededBeforePublished
  BY <1>2 DEF Init, SeededBeforePublished
<1> QED
  BY <1>4, <1>5, <1>6 DEF SeedInv

\* A step that reaches no node and changes the call of p alone.
LEMMA CallStep ==
  ASSUME SeedInv, NEW p \in Publishers, NEW new \in CallState,
         call' = [call EXCEPT ![p] = new],
         dht' = dht, seeded \subseteq seeded', seeded' \subseteq Hash,
         new.pc # "idle" => new.hash \in Hash,
         new.pc \in {"confirm", "put", "answers"} => new.hash \in seeded'
  PROVE  /\ call' \in [Publishers -> CallState] /\ CallInv' /\ SeededBeforePublished'
         /\ puts' = puts => PutsInv'
  BY DEF SeedInv, TypeOK, CallInv, PutsInv, SeededBeforePublished

LEMMA ReturnStep ==
  ASSUME SeedInv, NEW p \in Publishers, call' = [call EXCEPT ![p] = IdleCall], seeded' = seeded
  PROVE  call' \in [Publishers -> CallState] /\ CallInv' /\ (puts' = puts => PutsInv')
<1>1. IdleCall \in CallState /\ IdleCall.pc = "idle"
  BY MaxSequenceAssumption DEF IdleCall, CallState, OptionHash
<1> QED
  BY <1>1 DEF SeedInv, TypeOK, CallInv, PutsInv

LEMMA SignedIsItem ==
  ASSUME SeedInv, NEW p \in Publishers
  PROVE  Signed(p) \in Item
  BY DEF SeedInv, TypeOK, CallState, Signed, Item, OptionHash

\* A request that arrives is gone, and only its node and the call it belongs to notice.
LEMMA ArriveEffect ==
  ASSUME SeedInv, NEW r \in puts, Arrive(r)
  PROVE  /\ r \in PutRequest /\ puts' = puts \ {r}
         /\ dht' = dht \/ dht' = [dht EXCEPT ![r.to] = r.item]
         /\ call' = call \/ call' = [call EXCEPT ![r.by] = [call[r.by] EXCEPT !.stored = TRUE]]
         /\ UNCHANGED <<state, saved, seeded, log, calls>>
  BY DEF SeedInv, TypeOK, Arrive

LEMMA SeedStep == SeedInv /\ [Next]_vars => SeedInv'
<1> SUFFICES ASSUME SeedInv, [Next]_vars PROVE SeedInv'
  OBVIOUS
<1>t. /\ call \in [Publishers -> CallState] /\ dht \in Slot /\ seeded \subseteq Hash
      /\ \A R \in Reach : R \in SUBSET Nodes
  BY ReachAssumption DEF SeedInv, TypeOK
<1>1. ASSUME NEW p \in Publishers, NEW h \in Hash, NEW base \in OptionHash, Begin(p, h, base)
      PROVE  SeedInv'
  <2> DEFINE new == [IdleCall EXCEPT !.pc = "resolve", !.hash = h, !.base = base]
  <2>1. new \in CallState /\ new.pc = "resolve" /\ new.hash = h
    <3>1. IdleCall \in CallState
      BY MaxSequenceAssumption DEF IdleCall, CallState, OptionHash
    <3> QED
      BY <3>1 DEF CallState, OptionHash
  <2>2. calls' \in 0..MaxCalls
    BY <1>1, MaxCallsAssumption DEF Begin, SeedInv, TypeOK
  <2>3. call' = [call EXCEPT ![p] = new] /\ UNCHANGED <<dht, state, saved, puts, seeded, log>>
    BY <1>1 DEF Begin
  <2> HIDE DEF new
  <2> QED
    BY <1>t, <2>1, <2>2, <2>3, CallStep DEF SeedInv, TypeOK
<1>2. ASSUME NEW p \in Publishers, Fail(p) PROVE SeedInv'
  BY <1>2, ReturnStep DEF Fail, SeedInv, TypeOK, SeededBeforePublished
<1>3. ASSUME NEW p \in Publishers, NEW R \in Reach, Resolve(p, R) PROVE SeedInv'
  <2>1. PICK network \in MostRecent(dht, R) :
           call' = [call EXCEPT ![p] = [call[p] EXCEPT !.pc = "stage", !.expected = network.seq]]
    BY <1>3, Zenon DEF Resolve
  <2> DEFINE new == [call[p] EXCEPT !.pc = "stage", !.expected = network.seq]
  <2>2. network.seq \in 0..MaxSequence
    BY <1>t, MostRecentType DEF Item
  <2>3. new \in CallState /\ new.pc = "stage" /\ new.hash = call[p].hash
    BY <1>t, <2>2 DEF CallState
  <2>4. UNCHANGED <<dht, state, saved, puts, seeded, log, calls>> /\ call[p].hash \in Hash
    BY <1>3 DEF Resolve, SeedInv, CallInv
  <2>5. call' = [call EXCEPT ![p] = new]
    BY <2>1
  <2> HIDE DEF new
  <2> QED
    BY <1>t, <2>3, <2>4, <2>5, CallStep DEF SeedInv, TypeOK
<1>4. ASSUME NEW p \in Publishers, Stage(p) PROVE SeedInv'
  <2> DEFINE new == [call[p] EXCEPT !.pc = "confirm"]
  <2>1. new \in CallState /\ new.pc = "confirm" /\ new.hash = call[p].hash
    BY <1>t DEF CallState
  <2>2. call[p].hash \in Hash /\ seeded' = seeded \cup {call[p].hash}
    BY <1>4 DEF Stage, SeedInv, CallInv
  <2>3. call' = [call EXCEPT ![p] = new] /\ UNCHANGED <<dht, state, saved, puts, log, calls>>
    BY <1>4 DEF Stage
  <2> HIDE DEF new
  <2> QED
    BY <1>t, <2>1, <2>2, <2>3, CallStep DEF SeedInv, TypeOK
<1>5. ASSUME NEW p \in Publishers, NEW R \in Reach, Confirm(p, R) PROVE SeedInv'
  <2>1. PICK current \in MostRecent(dht, R) :
           /\ current.seq = call[p].expected
           /\ call' = [call EXCEPT ![p] = [call[p] EXCEPT !.pc = "put", !.next = current.seq + 1]]
    BY <1>5, Zenon DEF Confirm
  <2> DEFINE new == [call[p] EXCEPT !.pc = "put", !.next = current.seq + 1]
  <2>2. current.seq + 1 \in 0..MaxSequence
    BY <1>5, <1>t, <2>1, MaxSequenceAssumption DEF Confirm, HasNextSequence, CallState
  <2>3. new \in CallState /\ new.pc = "put" /\ new.hash = call[p].hash
    BY <1>t, <2>2 DEF CallState
  <2>4. /\ UNCHANGED <<dht, state, saved, puts, seeded, log, calls>>
        /\ call[p].hash \in Hash /\ call[p].hash \in seeded
    BY <1>5 DEF Confirm, SeedInv, CallInv
  <2>5. call' = [call EXCEPT ![p] = new]
    BY <2>1
  <2> HIDE DEF new
  <2> QED
    BY <1>t, <2>3, <2>4, <2>5, CallStep DEF SeedInv, TypeOK
<1>6. ASSUME NEW p \in Publishers, SendPut(p) PROVE SeedInv'
  <2> DEFINE new == [call[p] EXCEPT !.pc = "answers"]
             sent == {[by |-> p, to |-> n, item |-> Signed(p), cas |-> Cas(p)] : n \in Nodes}
  <2>1. new \in CallState /\ new.pc = "answers" /\ new.hash = call[p].hash
    BY <1>t DEF CallState
  <2>2. call[p].hash \in Hash /\ call[p].hash \in seeded
    BY <1>6 DEF SendPut, SeedInv, CallInv
  <2>3. /\ call' = [call EXCEPT ![p] = new] /\ puts' = puts \cup sent
        /\ UNCHANGED <<dht, state, saved, seeded, log, calls>>
    BY <1>6 DEF SendPut
  <2>4. sent \subseteq PutRequest
    BY <1>t, SignedIsItem DEF PutRequest, Cas, CallState
  <2>5. \A r \in sent : r.item.hash \in seeded
    BY <2>2 DEF Signed
  <2> HIDE DEF new, sent
  <2>6. puts' \subseteq PutRequest /\ PutsInv'
    BY <2>3, <2>4, <2>5 DEF SeedInv, TypeOK, PutsInv
  <2> QED
    BY <1>t, <2>1, <2>2, <2>3, <2>6, CallStep DEF SeedInv, TypeOK
<1>7. ASSUME NEW r \in puts, Arrive(r) PROVE SeedInv'
  <2>1. /\ r \in PutRequest /\ puts' = puts \ {r}
        /\ dht' = dht \/ dht' = [dht EXCEPT ![r.to] = r.item]
        /\ call' = call \/ call' = [call EXCEPT ![r.by] = [call[r.by] EXCEPT !.stored = TRUE]]
        /\ UNCHANGED <<state, saved, seeded, log, calls>>
    BY <1>7, ArriveEffect
  <2>2. dht' \in Slot /\ \A n \in Nodes : dht'[n] \in {dht[n], r.item}
    BY <1>t, <2>1 DEF Slot, PutRequest
  <2>3. SeededBeforePublished'
    BY <2>1, <2>2 DEF SeedInv, PutsInv, SeededBeforePublished
  <2>4. call' \in [Publishers -> CallState] /\ CallInv'
    <3>1. CASE call' = call
      BY <1>t, <2>1, <3>1 DEF SeedInv, CallInv
    <3>2. CASE call' = [call EXCEPT ![r.by] = [call[r.by] EXCEPT !.stored = TRUE]]
      <4> DEFINE new == [call[r.by] EXCEPT !.stored = TRUE]
      <4>1. /\ r.by \in Publishers /\ new \in CallState
            /\ new.pc = call[r.by].pc /\ new.hash = call[r.by].hash
        <5>1. r.by \in Publishers
          BY <2>1 DEF PutRequest
        <5>2. call[r.by] \in CallState
          BY <1>t, <5>1
        <5> QED
          BY <5>1, <5>2 DEF CallState
      <4>2. call' = [call EXCEPT ![r.by] = new]
        BY <3>2
      <4> HIDE DEF new
      <4> QED
        BY <1>t, <2>1, <4>1, <4>2 DEF SeedInv, CallInv
    <3> QED
      BY <2>1, <3>1, <3>2
  <2>5. puts' \subseteq PutRequest /\ PutsInv'
    BY <2>1 DEF SeedInv, TypeOK, PutsInv
  <2> QED
    BY <2>1, <2>2, <2>3, <2>4, <2>5 DEF SeedInv, TypeOK
<1>8. ASSUME NEW p \in Publishers, PutOk(p) PROVE SeedInv'
  <2>1. Signed(p) \in Item
    BY SignedIsItem
  <2>2. call' \in [Publishers -> CallState] /\ CallInv' /\ PutsInv'
    BY <1>8, ReturnStep DEF PutOk
  <2>3. state' \in [Publishers -> Item] /\ saved' \in [Publishers -> Item]
    BY <1>8, <2>1 DEF PutOk, SeedInv, TypeOK
  <2>4. log' \in Seq(Entry)
    <3>1. [base |-> call[p].base, head |-> Signed(p)] \in Entry
      BY <1>t, <2>1 DEF CallState, Entry
    <3> QED
      BY <1>8, <3>1 DEF PutOk, SeedInv, TypeOK
  <2>5. SeededBeforePublished'
    BY <1>8 DEF PutOk, SeedInv, SeededBeforePublished
  <2> QED
    BY <1>8, <2>2, <2>3, <2>4, <2>5 DEF PutOk, SeedInv, TypeOK
<1>9. ASSUME NEW p \in Publishers, Save(p) PROVE SeedInv'
  BY <1>9 DEF Save, SeedInv, TypeOK, CallInv, PutsInv, SeededBeforePublished
<1>10. ASSUME NEW p \in Publishers, Restart(p) PROVE SeedInv'
  <2>1. call' \in [Publishers -> CallState] /\ CallInv' /\ PutsInv'
    BY <1>10, ReturnStep DEF Restart
  <2>2. state' \in [Publishers -> Item]
    BY <1>10 DEF Restart, SeedInv, TypeOK
  <2> QED
    BY <1>10, <2>1, <2>2 DEF Restart, SeedInv, TypeOK, SeededBeforePublished
<1>11. ASSUME NEW n \in Volatile, Expire(n) PROVE SeedInv'
  <2>1. dht' \in Slot
    BY <1>11, <1>t, NoItemType DEF Expire, Slot
  <2>2. SeededBeforePublished'
    BY <1>11, <1>t DEF Expire, SeedInv, SeededBeforePublished, Slot
  <2> QED
    BY <1>11, <2>1, <2>2 DEF Expire, SeedInv, TypeOK, CallInv, PutsInv
<1>12. CASE UNCHANGED vars
  BY <1>12 DEF vars, SeedInv, TypeOK, CallInv, PutsInv, SeededBeforePublished
<1> QED
  BY <1>1, <1>2, <1>3, <1>4, <1>5, <1>6, <1>7, <1>8, <1>9, <1>10, <1>11, <1>12 DEF Next

LEMMA SeedInvHolds == Spec => []SeedInv
  BY InitSeed, SeedStep, PTL DEF Spec

\* Every variable of the publisher model keeps its type (publish, with_current).
THEOREM PublisherTypes == Spec => []TypeOK
<1>1. SeedInv => TypeOK
  BY DEF SeedInv
<1> QED
  BY <1>1, SeedInvHolds, PTL

\* Whatever lookups and puts reach, and however publishers fail and restart, no node
\* holds an item whose snapshot is not complete and announced (publication order).
THEOREM PublishedIsSeeded == Spec => []SeededBeforePublished
<1>1. SeedInv => SeededBeforePublished
  BY DEF SeedInv
<1> QED
  BY <1>1, SeedInvHolds, PTL
-----------------------------------------------------------------------------
(* The race for the next sequence *)

\* A publisher of an existing key always has a head to go on from, so each of its puts
\* carries the sequence it goes on from as its cas, and an item with the next one.
TurnInv ==
    /\ \A p \in Publishers :
          /\ state[p].seq >= 1 /\ saved[p].seq >= 1
          /\ call[p].pc \in {"stage", "confirm", "put", "answers"} => call[p].expected >= 1
          /\ call[p].pc \in {"put", "answers"} => call[p].next = call[p].expected + 1
    /\ \A r \in puts : r.cas >= 1 /\ r.item.seq = r.cas + 1

\* A step that sends nothing, and goes on with a call that keeps to its turn.
LEMMA TurnCallStep ==
  ASSUME SeedInv, TurnInv, NEW p \in Publishers, NEW new,
         call' = [call EXCEPT ![p] = new], UNCHANGED <<state, saved, puts>>,
         new.pc \in {"stage", "confirm", "put", "answers"} => new.expected >= 1,
         new.pc \in {"put", "answers"} => new.next = new.expected + 1
  PROVE  TurnInv'
  BY DEF SeedInv, TypeOK, TurnInv

LEMMA TurnReturnStep ==
  ASSUME SeedInv, TurnInv, NEW p \in Publishers, call' = [call EXCEPT ![p] = IdleCall],
         puts' = puts, state'[p].seq >= 1, saved'[p].seq >= 1,
         \A q \in Publishers \ {p} : state'[q] = state[q] /\ saved'[q] = saved[q]
  PROVE  TurnInv'
  BY DEF SeedInv, TypeOK, TurnInv, IdleCall

LEMMA TurnStep == SeedInv /\ TurnInv /\ [Next]_vars => TurnInv'
<1> SUFFICES ASSUME SeedInv, TurnInv, [Next]_vars PROVE TurnInv'
  OBVIOUS
<1>t. /\ call \in [Publishers -> CallState]
      /\ state \in [Publishers -> Item] /\ saved \in [Publishers -> Item]
  BY DEF SeedInv, TypeOK
<1>1. ASSUME NEW p \in Publishers, NEW h \in Hash, NEW base \in OptionHash, Begin(p, h, base)
      PROVE  TurnInv'
  <2> DEFINE new == [IdleCall EXCEPT !.pc = "resolve", !.hash = h, !.base = base]
  <2>1. new.pc = "resolve"
    BY DEF IdleCall
  <2>2. call' = [call EXCEPT ![p] = new] /\ UNCHANGED <<state, saved, puts>>
    BY <1>1 DEF Begin
  <2> HIDE DEF new
  <2> QED
    BY <2>1, <2>2, TurnCallStep
<1>2. ASSUME NEW p \in Publishers, Fail(p) PROVE TurnInv'
  BY <1>2, TurnReturnStep DEF Fail, TurnInv
<1>3. ASSUME NEW p \in Publishers, NEW R \in Reach, Resolve(p, R) PROVE TurnInv'
  <2>1. PICK network \in MostRecent(dht, R) :
           /\ AgreesWithNetwork(p, network)
           /\ call' = [call EXCEPT ![p] = [call[p] EXCEPT !.pc = "stage", !.expected = network.seq]]
    BY <1>3, Zenon DEF Resolve
  <2> DEFINE new == [call[p] EXCEPT !.pc = "stage", !.expected = network.seq]
  <2>2. new.pc = "stage" /\ new.expected = network.seq
    BY <1>t DEF CallState
  <2>3. new.expected >= 1
    BY <2>1, <2>2 DEF AgreesWithNetwork, TurnInv
  <2>4. call' = [call EXCEPT ![p] = new] /\ UNCHANGED <<state, saved, puts>>
    BY <1>3, <2>1 DEF Resolve
  <2> HIDE DEF new
  <2> QED
    BY <2>2, <2>3, <2>4, TurnCallStep
<1>4. ASSUME NEW p \in Publishers, Stage(p) PROVE TurnInv'
  <2> DEFINE new == [call[p] EXCEPT !.pc = "confirm"]
  <2>1. new.pc = "confirm" /\ new.expected = call[p].expected
    BY <1>t DEF CallState
  <2>2. new.expected >= 1
    BY <1>4, <2>1 DEF Stage, TurnInv
  <2>3. call' = [call EXCEPT ![p] = new] /\ UNCHANGED <<state, saved, puts>>
    BY <1>4 DEF Stage
  <2> HIDE DEF new
  <2> QED
    BY <2>1, <2>2, <2>3, TurnCallStep
<1>5. ASSUME NEW p \in Publishers, NEW R \in Reach, Confirm(p, R) PROVE TurnInv'
  <2>1. PICK current \in MostRecent(dht, R) :
           /\ current.seq = call[p].expected
           /\ call' = [call EXCEPT ![p] = [call[p] EXCEPT !.pc = "put", !.next = current.seq + 1]]
    BY <1>5, Zenon DEF Confirm
  <2> DEFINE new == [call[p] EXCEPT !.pc = "put", !.next = current.seq + 1]
  <2>2. new.pc = "put" /\ new.expected = call[p].expected /\ new.next = current.seq + 1
    BY <1>t DEF CallState
  <2>3. new.expected >= 1 /\ new.next = new.expected + 1
    BY <1>5, <2>1, <2>2 DEF Confirm, TurnInv
  <2>4. call' = [call EXCEPT ![p] = new] /\ UNCHANGED <<state, saved, puts>>
    BY <1>5, <2>1 DEF Confirm
  <2> HIDE DEF new
  <2> QED
    BY <2>2, <2>3, <2>4, TurnCallStep
<1>6. ASSUME NEW p \in Publishers, SendPut(p) PROVE TurnInv'
  <2>1. call[p].expected >= 1 /\ call[p].next = call[p].expected + 1
    BY <1>6 DEF SendPut, TurnInv
  <2>2. \A r \in puts' : r.cas >= 1 /\ r.item.seq = r.cas + 1
    BY <1>6, <2>1 DEF SendPut, TurnInv, Signed, Cas
  <2>3. \A q \in Publishers :
           call'[q].expected = call[q].expected /\ call'[q].next = call[q].next
    BY <1>6, <1>t DEF SendPut, CallState
  <2>4. \A q \in Publishers : call'[q].pc = IF q = p THEN "answers" ELSE call[q].pc
    BY <1>6, <1>t DEF SendPut, CallState
  <2> QED
    BY <1>6, <2>1, <2>2, <2>3, <2>4 DEF SendPut, TurnInv
<1>7. ASSUME NEW r \in puts, Arrive(r) PROVE TurnInv'
  <2>1. /\ r \in PutRequest /\ puts' = puts \ {r}
        /\ call' = call \/ call' = [call EXCEPT ![r.by] = [call[r.by] EXCEPT !.stored = TRUE]]
        /\ UNCHANGED <<state, saved>>
    BY <1>7, ArriveEffect
  <2>2. \A q \in Publishers : /\ call'[q].pc = call[q].pc
                              /\ call'[q].expected = call[q].expected
                              /\ call'[q].next = call[q].next
    BY <1>t, <2>1 DEF CallState, PutRequest
  <2> QED
    BY <2>1, <2>2 DEF TurnInv
<1>8. ASSUME NEW p \in Publishers, PutOk(p) PROVE TurnInv'
  <2>1. call[p].next = call[p].expected + 1 /\ call[p].expected >= 1
    BY <1>8 DEF PutOk, TurnInv
  <2>2. call[p].expected \in Nat
    BY <1>t, MaxSequenceAssumption DEF CallState
  <2>3. Signed(p).seq >= 1
    BY <2>1, <2>2 DEF Signed
  <2>4. /\ state' = [state EXCEPT ![p] = Signed(p)] /\ puts' = puts
        /\ call' = [call EXCEPT ![p] = IdleCall]
        /\ saved' = saved \/ saved' = [saved EXCEPT ![p] = Signed(p)]
    BY <1>8 DEF PutOk
  <2>5. /\ state'[p].seq >= 1 /\ saved'[p].seq >= 1
        /\ \A q \in Publishers \ {p} : state'[q] = state[q] /\ saved'[q] = saved[q]
    BY <1>t, <2>3, <2>4 DEF TurnInv
  <2> QED
    BY <2>4, <2>5, TurnReturnStep
<1>9. ASSUME NEW p \in Publishers, Save(p) PROVE TurnInv'
  BY <1>9, <1>t DEF Save, TurnInv
<1>10. ASSUME NEW p \in Publishers, Restart(p) PROVE TurnInv'
  <2>1. /\ call' = [call EXCEPT ![p] = IdleCall] /\ state' = [state EXCEPT ![p] = saved[p]]
        /\ UNCHANGED <<saved, puts>>
    BY <1>10 DEF Restart
  <2>2. /\ state'[p].seq >= 1 /\ saved'[p].seq >= 1
        /\ \A q \in Publishers \ {p} : state'[q] = state[q] /\ saved'[q] = saved[q]
    BY <1>t, <2>1 DEF TurnInv
  <2> QED
    BY <2>1, <2>2, TurnReturnStep
<1>11. CASE UNCHANGED <<state, saved, call, puts>>
  BY <1>11 DEF TurnInv
<1> QED
  BY <1>1, <1>2, <1>3, <1>4, <1>5, <1>6, <1>7, <1>8, <1>9, <1>10, <1>11 DEF Next, Expire, vars

\* Of a key that exists, however many publishers share it, in whatever order their
\* requests reach the nodes, and after whatever losses, failures and crashes, a node
\* that holds a head replaces it by the direct successor of that head only.
THEOREM NodesReplaceInTurn ==
  ASSUME Restored # NoItem
  PROVE  Spec => HeadsReplacedInTurn
<1> DEFINE InTurn ==
      \A n \in Nodes : NoItem \notin {dht[n], dht'[n]} /\ dht'[n] # dht[n] =>
         dht'[n].seq = dht[n].seq + 1
<1>1. Init => SeedInv /\ TurnInv
  <2>1. Restored.seq \in Nat /\ Restored.seq # 0
    BY RestoredAssumption, MaxSequenceAssumption DEF Item, NoItem
  <2>2. Init => TurnInv
    BY <2>1 DEF Init, TurnInv, IdleCall
  <2> QED
    BY <2>2, InitSeed
<1>2. SeedInv /\ TurnInv /\ [Next]_vars => SeedInv' /\ TurnInv'
  BY SeedStep, TurnStep
<1>3. SeedInv /\ TurnInv /\ [Next]_vars => [InTurn]_vars
  <2> SUFFICES ASSUME SeedInv, TurnInv, Next, NEW n \in Nodes,
                      dht[n] # NoItem, dht'[n] # NoItem, dht'[n] # dht[n]
               PROVE  dht'[n].seq = dht[n].seq + 1
    BY Zenon
  <2>1. dht \in Slot /\ puts \subseteq PutRequest
    BY DEF SeedInv, TypeOK
  <2>2. ASSUME NEW m \in Volatile, Expire(m) PROVE FALSE
    BY <2>1, <2>2 DEF Expire, Slot
  <2>3. PICK r \in puts : Arrive(r)
    BY <2>2 DEF Next, Begin, Fail, Resolve, Stage, Confirm, SendPut, PutOk, Save, Restart
  <2>4. r.to = n /\ dht'[n] = r.item /\ Accepts(dht[n], r.item, r.cas)
    BY <2>1, <2>3 DEF Arrive, Slot, PutRequest
  <2>5. r.cas >= 1 /\ r.item.seq = r.cas + 1
    BY DEF TurnInv
  <2> QED
    BY <2>4, <2>5 DEF Accepts
<1> QED
  BY <1>1, <1>2, <1>3, PTL DEF Spec, HeadsReplacedInTurn
-----------------------------------------------------------------------------
(* The single publisher of a key *)

\* The reconciliation of state and network_head: a call that got past it bases itself on
\* the publisher's own last publication and expects its sequence, and the process that
\* a crash leaves behind starts from that publication again.
ReconciledInv ==
    \A p \in Publishers :
        /\ state[p] = saved[p]
        /\ call[p].pc \in {"stage", "confirm", "put", "answers"} =>
              state[p].hash = call[p].base /\ state[p].seq = call[p].expected
        /\ call[p].pc \in {"put", "answers"} => call[p].next = call[p].expected + 1

OwnInv == SeedInv /\ ReconciledInv

LEMMA InitOwn == Init => OwnInv
  BY InitSeed DEF Init, OwnInv, ReconciledInv, IdleCall

\* A step in which p publishes nothing, and goes on with a reconciled call.
LEMMA OwnCallStep ==
  ASSUME OwnInv, NEW p \in Publishers, NEW new,
         call' = [call EXCEPT ![p] = new], UNCHANGED <<state, saved>>,
         new.pc \in {"stage", "confirm", "put", "answers"} =>
            state[p].hash = new.base /\ state[p].seq = new.expected,
         new.pc \in {"put", "answers"} => new.next = new.expected + 1
  PROVE  ReconciledInv'
  BY DEF OwnInv, SeedInv, TypeOK, ReconciledInv

\* A step that ends the call of p with the same state restored and saved.
LEMMA OwnReturnStep ==
  ASSUME OwnInv, NEW p \in Publishers, call' = [call EXCEPT ![p] = IdleCall],
         state'[p] = saved'[p],
         \A q \in Publishers \ {p} : state'[q] = state[q] /\ saved'[q] = saved[q]
  PROVE  ReconciledInv'
  BY DEF OwnInv, SeedInv, TypeOK, ReconciledInv, IdleCall

LEMMA OwnStep == ASSUME SavesOnReturn PROVE OwnInv /\ [Next]_vars => OwnInv'
<1> SUFFICES ASSUME OwnInv, [Next]_vars PROVE OwnInv'
  OBVIOUS
<1>s. SeedInv'
  BY SeedStep DEF OwnInv
<1>t. /\ call \in [Publishers -> CallState]
      /\ state \in [Publishers -> Item] /\ saved \in [Publishers -> Item]
  BY DEF OwnInv, SeedInv, TypeOK
<1> SUFFICES ReconciledInv'
  BY <1>s DEF OwnInv
<1>1. ASSUME NEW p \in Publishers, NEW h \in Hash, NEW base \in OptionHash, Begin(p, h, base)
      PROVE  ReconciledInv'
  <2> DEFINE new == [IdleCall EXCEPT !.pc = "resolve", !.hash = h, !.base = base]
  <2>1. new.pc = "resolve"
    BY DEF IdleCall
  <2>2. call' = [call EXCEPT ![p] = new] /\ UNCHANGED <<state, saved>>
    BY <1>1 DEF Begin
  <2> HIDE DEF new
  <2> QED
    BY <2>1, <2>2, OwnCallStep
<1>2. ASSUME NEW p \in Publishers, Fail(p) PROVE ReconciledInv'
  BY <1>2, OwnReturnStep DEF Fail, OwnInv, ReconciledInv
<1>3. ASSUME NEW p \in Publishers, NEW R \in Reach, Resolve(p, R) PROVE ReconciledInv'
  <2>1. PICK network \in MostRecent(dht, R) :
           /\ AgreesWithNetwork(p, network)
           /\ call' = [call EXCEPT ![p] = [call[p] EXCEPT !.pc = "stage", !.expected = network.seq]]
    BY <1>3, Zenon DEF Resolve
  <2> DEFINE new == [call[p] EXCEPT !.pc = "stage", !.expected = network.seq]
  <2>2. new.pc = "stage" /\ new.expected = network.seq /\ new.base = call[p].base
    BY <1>t DEF CallState
  <2>3. state[p].hash = new.base /\ state[p].seq = new.expected
    BY <1>3, <2>1, <2>2 DEF Resolve, MatchesBase, AgreesWithNetwork
  <2>4. call' = [call EXCEPT ![p] = new]
    BY <2>1
  <2>5. UNCHANGED <<state, saved>>
    BY <1>3 DEF Resolve
  <2> HIDE DEF new
  <2> QED
    BY <2>2, <2>3, <2>4, <2>5, OwnCallStep
<1>4. ASSUME NEW p \in Publishers, Stage(p) PROVE ReconciledInv'
  <2> DEFINE new == [call[p] EXCEPT !.pc = "confirm"]
  <2>1. new.pc = "confirm" /\ new.base = call[p].base /\ new.expected = call[p].expected
    BY <1>t DEF CallState
  <2>2. state[p].hash = new.base /\ state[p].seq = new.expected
    BY <1>4, <2>1 DEF Stage, OwnInv, ReconciledInv
  <2>3. call' = [call EXCEPT ![p] = new] /\ UNCHANGED <<state, saved>>
    BY <1>4 DEF Stage
  <2> HIDE DEF new
  <2> QED
    BY <2>1, <2>2, <2>3, OwnCallStep
<1>5. ASSUME NEW p \in Publishers, NEW R \in Reach, Confirm(p, R) PROVE ReconciledInv'
  <2>1. PICK current \in MostRecent(dht, R) :
           /\ current.seq = call[p].expected
           /\ call' = [call EXCEPT ![p] = [call[p] EXCEPT !.pc = "put", !.next = current.seq + 1]]
    BY <1>5, Zenon DEF Confirm
  <2> DEFINE new == [call[p] EXCEPT !.pc = "put", !.next = current.seq + 1]
  <2>2. /\ new.pc = "put" /\ new.base = call[p].base /\ new.expected = call[p].expected
        /\ new.next = current.seq + 1
    BY <1>t DEF CallState
  <2>3. state[p].hash = new.base /\ state[p].seq = new.expected
    BY <1>5, <2>2 DEF Confirm, OwnInv, ReconciledInv
  <2>4. new.next = new.expected + 1
    BY <2>1, <2>2
  <2>5. call' = [call EXCEPT ![p] = new]
    BY <2>1
  <2>6. UNCHANGED <<state, saved>>
    BY <1>5 DEF Confirm
  <2> HIDE DEF new
  <2> QED
    BY <2>2, <2>3, <2>4, <2>5, <2>6, OwnCallStep
<1>6. ASSUME NEW p \in Publishers, SendPut(p) PROVE ReconciledInv'
  <2> DEFINE new == [call[p] EXCEPT !.pc = "answers"]
  <2>1. /\ new.pc = "answers" /\ new.base = call[p].base
        /\ new.expected = call[p].expected /\ new.next = call[p].next
    BY <1>t DEF CallState
  <2>2. /\ state[p].hash = new.base /\ state[p].seq = new.expected
        /\ new.next = new.expected + 1
    BY <1>6, <2>1 DEF SendPut, OwnInv, ReconciledInv
  <2>3. call' = [call EXCEPT ![p] = new] /\ UNCHANGED <<state, saved>>
    BY <1>6 DEF SendPut
  <2> HIDE DEF new
  <2> QED
    BY <2>1, <2>2, <2>3, OwnCallStep
<1>7. ASSUME NEW r \in puts, Arrive(r) PROVE ReconciledInv'
  <2>1. /\ r \in PutRequest /\ UNCHANGED <<state, saved>>
        /\ call' = call \/ call' = [call EXCEPT ![r.by] = [call[r.by] EXCEPT !.stored = TRUE]]
    BY <1>7, ArriveEffect DEF OwnInv
  <2>2. \A q \in Publishers :
           /\ call'[q].pc = call[q].pc /\ call'[q].base = call[q].base
           /\ call'[q].expected = call[q].expected /\ call'[q].next = call[q].next
    BY <1>t, <2>1 DEF CallState, PutRequest
  <2> QED
    BY <2>1, <2>2 DEF OwnInv, ReconciledInv
<1>8. ASSUME NEW p \in Publishers, PutOk(p) PROVE ReconciledInv'
  BY <1>8, <1>t, OwnReturnStep DEF PutOk
<1>9. ASSUME NEW p \in Publishers, Save(p) PROVE ReconciledInv'
  BY <1>9 DEF Save, OwnInv, ReconciledInv
<1>10. ASSUME NEW p \in Publishers, Restart(p) PROVE ReconciledInv'
  BY <1>10, <1>t, OwnReturnStep DEF Restart
<1>11. CASE UNCHANGED <<state, saved, call>>
  BY <1>11 DEF OwnInv, ReconciledInv
<1> QED
  BY <1>1, <1>2, <1>3, <1>4, <1>5, <1>6, <1>7, <1>8, <1>9, <1>10, <1>11 DEF Next, Expire, vars

\* A state changes only when a put succeeds, and then to the sequence after its own.
LEMMA OnlyPutsMoveState ==
  ASSUME OwnInv, [Next]_vars, ~ UNCHANGED <<state, log>>
  PROVE  \E p \in Publishers : PutOk(p)
<1>1. ASSUME NEW p \in Publishers, Restart(p) PROVE UNCHANGED <<state, log>>
  BY <1>1 DEF Restart, OwnInv, SeedInv, TypeOK, ReconciledInv
<1> QED
  BY <1>1 DEF Next, Begin, Fail, Resolve, Stage, Confirm, SendPut, Arrive, Save, Expire, vars

\* The owner of a new key runs one publisher and saves its state with each publication.
SoleOwner == (\E p : Publishers = {p}) /\ SavesOnReturn /\ Restored = NoItem

LEMMA LogSequences ==
  ASSUME NEW l \in Seq(Entry), NEW i \in 1..Len(l)
  PROVE  l[i].head.seq \in Nat
<1>1. l[i] \in Entry
  OBVIOUS
<1>2. l[i].head \in Item
  BY <1>1 DEF Entry
<1> QED
  BY <1>2, MaxSequenceAssumption DEF Item

\* The history as DatasetAuthority writes it.
AsHead(item) == [seq |-> item.seq, digest |-> item.hash]
AsLog(l) ==
    [i \in DOMAIN l |->
        [base |-> l[i].base, head |-> [seq |-> l[i].head.seq, digest |-> l[i].head.hash]]]

LEMMA AsLogAppends ==
  ASSUME NEW l \in Seq(Entry), NEW e \in Entry
  PROVE  AsLog(Append(l, e)) = Append(AsLog(l), [base |-> e.base, head |-> AsHead(e.head)])
<1> DEFINE AEntry == [base : OptionHash, head : [seq : 0..MaxSequence, digest : OptionHash]]
           ae == [base |-> e.base, head |-> AsHead(e.head)]
           After == AsLog(Append(l, e))
           Wanted == Append(AsLog(l), ae)
<1>1. \A x \in Entry :
         [base |-> x.base, head |-> [seq |-> x.head.seq, digest |-> x.head.hash]] \in AEntry
  BY DEF Entry, Item, OptionHash
<1>2. ae \in AEntry
  BY <1>1 DEF AsHead
<1>3. DOMAIN l = 1..Len(l) /\ \A i \in 1..Len(l) : l[i] \in Entry
  OBVIOUS
<1>4. AsLog(l) \in Seq(AEntry) /\ Len(AsLog(l)) = Len(l)
  <2>1. AsLog(l) \in [1..Len(l) -> AEntry]
    BY <1>1, <1>3 DEF AsLog
  <2> HIDE DEF AEntry
  <2> QED
    BY <2>1
<1>5. DOMAIN Append(l, e) = 1..Len(l) + 1 /\ Append(l, e)[Len(l) + 1] = e
  OBVIOUS
<1>6. \A i \in 1..Len(l) : Append(l, e)[i] = l[i]
  OBVIOUS
<1>7. After[Len(l) + 1] = ae /\ \A i \in 1..Len(l) : After[i] = AsLog(l)[i]
  BY <1>3, <1>5, <1>6 DEF AsLog, AsHead
<1>8. After \in Seq(AEntry) /\ Len(After) = Len(l) + 1
  <2>1. Append(l, e) \in Seq(Entry) /\ Len(Append(l, e)) = Len(l) + 1
    OBVIOUS
  <2>2. After \in [1..Len(l) + 1 -> AEntry]
    BY <1>1, <1>5, <1>6, <2>1 DEF AsLog
  <2> HIDE DEF After, AEntry
  <2> QED
    BY <2>2
<1> HIDE DEF ae, AEntry, After
<1>9. /\ Wanted \in Seq(AEntry) /\ Len(Wanted) = Len(l) + 1
      /\ Wanted[Len(l) + 1] = ae /\ \A i \in 1..Len(l) : Wanted[i] = AsLog(l)[i]
  BY <1>2, <1>4
<1>10. \A i \in 1..Len(l) + 1 : After[i] = Wanted[i]
  BY <1>7, <1>9
<1> HIDE DEF Wanted
<1>11. After = Wanted
  BY <1>8, <1>9, <1>10, SeqEqual
<1> QED
  BY <1>11 DEF After, Wanted, ae

\* Whatever the DHT answers, loses or forgets and wherever the process crashes, the
\* publications of a key's only publisher are those of a dataset authority: each call of
\* publish that returns Ok swaps the head it was based on for one with the next sequence.
THEOREM SolePublisherIsAuthority ==
  ASSUME SoleOwner
  PROVE  Spec => RefinesAuthority
<1>1. Publishers = {Sole}
  BY DEF SoleOwner, Sole
<1>2. Init => Authority!Init
  BY <1>1 DEF SoleOwner, Init, Authority!Init, Authority!NoHead, NoItem
<1>3. OwnInv /\ [Next]_vars => [Authority!Next]_<<AsHead(state[Sole]), AsLog(log)>>
  <2> SUFFICES ASSUME OwnInv, [Next]_vars, ~ UNCHANGED <<state, log>> PROVE Authority!Next
    BY DEF AsHead, AsLog
  <2>1. PutOk(Sole)
    BY <1>1, OnlyPutsMoveState
  <2>2. /\ state \in [Publishers -> Item] /\ log \in Seq(Entry)
        /\ call[Sole] \in CallState /\ call[Sole].hash \in Hash
    BY <1>1, <2>1 DEF OwnInv, SeedInv, TypeOK, CallInv, PutOk
  <2>3. /\ state[Sole].hash = call[Sole].base
        /\ call[Sole].next = state[Sole].seq + 1
    BY <1>1, <2>1 DEF OwnInv, ReconciledInv, PutOk
  <2>4. state[Sole].seq < MaxSequence
    <3>1. call[Sole].next \in 0..MaxSequence /\ state[Sole].seq \in Nat
      BY <1>1, <2>2, MaxSequenceAssumption DEF CallState, Item
    <3> QED
      BY <2>3, <3>1, MaxSequenceAssumption
  <2>5. state'[Sole] = Signed(Sole)
    BY <1>1, <2>1, <2>2 DEF PutOk
  <2>6. AsHead(state'[Sole]) = [seq |-> state[Sole].seq + 1, digest |-> call[Sole].hash]
    BY <2>3, <2>5 DEF AsHead, Signed
  <2>7. AsLog(log)' = Append(AsLog(log), [base |-> call[Sole].base, head |-> AsHead(state'[Sole])])
    <3> DEFINE e == [base |-> call[Sole].base, head |-> Signed(Sole)]
    <3>1. e \in Entry
      BY <2>2 DEF CallState, Entry, Signed, Item
    <3>2. log' = Append(log, e) /\ e.base = call[Sole].base /\ e.head = state'[Sole]
      BY <2>1, <2>5 DEF PutOk
    <3>3. AsLog(log)' = AsLog(log')
      BY DEF AsLog
    <3> HIDE DEF e
    <3> QED
      BY <2>2, <3>1, <3>2, <3>3, AsLogAppends
  <2>8. call[Sole].base \in Authority!OptionDigest
    BY <2>2 DEF Authority!OptionDigest, CallState, OptionHash
  <2>9. PICK base \in Authority!OptionDigest, hash \in Hash :
           base = call[Sole].base /\ hash = call[Sole].hash
    BY <2>2, <2>8
  <2>10. Authority!Commit(base, hash)
    BY <2>3, <2>4, <2>6, <2>7, <2>9 DEF Authority!Commit, AsHead, AsLog
  <2> QED
    BY <2>9, <2>10 DEF Authority!Next
<1>4. Spec => []OwnInv
  BY InitOwn, OwnStep, PTL DEF Spec, SoleOwner
<1> QED
  BY <1>2, <1>3, <1>4, PTL DEF Spec, RefinesAuthority, Authority!Spec, AsHead, AsLog

\* What was acknowledged is at the publisher's own head or behind it.
BehindInv == \A i \in 1..Len(log) : log[i].head.seq <= state[Sole].seq

\* A key's only publisher never acknowledges two publications under one sequence, though
\* nodes may forget the key, lookups and puts may reach few nodes or none, requests of
\* calls that failed may arrive late, and the first publication carries no cas.
THEOREM SoleNeverRepeats ==
  ASSUME SoleOwner
  PROVE  Spec => []AcknowledgedOnce
<1>1. Publishers = {Sole}
  BY DEF SoleOwner, Sole
<1>2. Init => BehindInv /\ AcknowledgedOnce
  BY DEF Init, BehindInv, AcknowledgedOnce
<1>3. OwnInv /\ BehindInv /\ AcknowledgedOnce /\ [Next]_vars => (BehindInv /\ AcknowledgedOnce)'
  <2> SUFFICES ASSUME OwnInv, BehindInv, AcknowledgedOnce, [Next]_vars, ~ UNCHANGED <<state, log>>
               PROVE  BehindInv' /\ AcknowledgedOnce'
    BY DEF BehindInv, AcknowledgedOnce
  <2>1. PutOk(Sole)
    BY <1>1, OnlyPutsMoveState
  <2>2. /\ state \in [Publishers -> Item] /\ log \in Seq(Entry)
        /\ call[Sole] \in CallState /\ call[Sole].hash \in Hash
    BY <1>1, <2>1 DEF OwnInv, SeedInv, TypeOK, CallInv, PutOk
  <2> DEFINE n == Len(log)
             e == [base |-> call[Sole].base, head |-> Signed(Sole)]
  <2>3. Signed(Sole).seq = state[Sole].seq + 1 /\ state[Sole].seq \in Nat /\ n \in Nat
    BY <1>1, <2>1, <2>2, MaxSequenceAssumption DEF OwnInv, ReconciledInv, PutOk, Signed, Item
  <2>4. state'[Sole] = Signed(Sole) /\ log' = Append(log, e)
    BY <1>1, <2>1, <2>2 DEF PutOk
  <2>5. e \in Entry /\ e.head = Signed(Sole)
    BY <2>2 DEF CallState, Entry, Signed, Item
  <2> HIDE DEF e
  <2>6. Len(log') = n + 1 /\ log'[n + 1] = e /\ \A i \in 1..n : log'[i] = log[i]
    BY <2>2, <2>4, <2>5
  <2>7. \A i \in 1..n : log[i].head.seq \in Nat /\ log[i].head.seq <= state[Sole].seq
    BY <2>2, LogSequences DEF BehindInv
  <2>8. BehindInv'
    BY <2>3, <2>4, <2>5, <2>6, <2>7 DEF BehindInv
  <2>9. AcknowledgedOnce'
    <3>1. \A i \in 1..n : log'[i].head.seq # log'[n + 1].head.seq
      <4> SUFFICES ASSUME NEW i \in 1..n PROVE log[i].head.seq # state[Sole].seq + 1
        BY <2>3, <2>5, <2>6
      <4> QED
        BY <2>3, <2>7
    <3>2. \A i, j \in 1..n : i # j => log'[i].head.seq # log'[j].head.seq
      BY <2>6 DEF AcknowledgedOnce
    <3>3. 1..Len(log') = (1..n) \cup {n + 1}
      BY <2>3, <2>6
    <3> HIDE DEF n
    <3> QED
      BY <3>1, <3>2, <3>3 DEF AcknowledgedOnce
  <2> QED
    BY <2>8, <2>9
<1>4. Spec => []OwnInv
  BY InitOwn, OwnStep, PTL DEF Spec, SoleOwner
<1> QED
  BY <1>2, <1>3, <1>4, PTL DEF Spec
=============================================================================
