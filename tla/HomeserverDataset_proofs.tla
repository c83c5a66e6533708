---------------------- MODULE HomeserverDataset_proofs ----------------------
(***************************************************************************)
(* Proofs about HomeserverDataset, for any numbers of processes, tasks,    *)
(* readers, watchers, digests and objects, and for any late writes.        *)
(***************************************************************************)
EXTENDS HomeserverDataset, SequenceTheorems, TLAPS

\* What a publish call has uploaded by the time it is where it is.
UploadInv ==
    \A t \in Tasks :
        /\ call[t].pc # "idle" => call[t].digest \in Digest
        /\ call[t].pc = "objects" =>
              \A path \in Contents[call[t].digest] \ call[t].todo :
                  <<call[t].digest, path>> \in objects
        /\ call[t].pc = "head" => Complete(call[t].digest)

\* A head write still under way names a complete state.
LateInv == \A e \in late : Complete(e.head.digest)

\* A get in progress works on a complete state and on a path it declares.
ReadInv ==
    \A r \in Readers :
        /\ read[r].pc # "missing"
        /\ read[r].pc \in {"manifest", "object"} => Complete(read[r].head.digest)
        /\ read[r].pc = "object" => read[r].path \in Contents[read[r].head.digest]

\* The inductive invariant. HeadComplete needs the upload progress of every call and of
\* every late write, because any of them may be the next to overwrite the head.
IInv == TypeOK /\ HeadComplete /\ UploadInv /\ LateInv /\ ReadInv

\* Storage under digest-addressed paths only grows.
Grows == objects \subseteq objects' /\ manifests \subseteq manifests'
-----------------------------------------------------------------------------
LEMMA NoHeadType == NoHead \in DatasetHead
  BY MaxSequenceAssumption DEF NoHead, DatasetHead, OptionDigest

LEMMA IdleTypes == IdleCall \in CallState /\ IdleRead \in ReadState
  BY NoHeadType, MaxSequenceAssumption DEF IdleCall, IdleRead, CallState, ReadState, OptionDigest

LEMMA CompleteIsStable ==
  ASSUME NEW d, Complete(d), Grows
  PROVE  Complete(d)'
  BY DEF Complete, Grows

\* A step that leaves the calls alone, or ends one, keeps what the calls rely on.
LEMMA ReturnPreserves ==
  ASSUME TypeOK, UploadInv, Grows, NEW t \in Tasks, Return(t)
  PROVE  /\ call' \in [Tasks -> CallState]
         /\ lock' \in [Processes -> Tasks \cup {NoTask}]
         /\ UploadInv'
<1>1. [IdleCall EXCEPT !.base = call[t].base] \in CallState
  BY IdleTypes DEF TypeOK, CallState
<1>2. call' \in [Tasks -> CallState]
  BY <1>1 DEF Return, TypeOK
<1>3. lock' \in [Processes -> Tasks \cup {NoTask}]
  BY ProcessOfAssumption DEF Return, TypeOK
<1>4. call'[t].pc = "idle" /\ \A u \in Tasks \ {t} : call'[u] = call[u]
  BY IdleTypes DEF Return, TypeOK, IdleCall
<1>5. UploadInv'
  BY <1>4, CompleteIsStable DEF UploadInv, Grows
<1> QED
  BY <1>2, <1>3, <1>5

\* A step that leaves the reads alone keeps what they rely on.
LEMMA ReadsPreserved ==
  ASSUME ReadInv, Grows, UNCHANGED read
  PROVE  ReadInv'
  BY CompleteIsStable DEF ReadInv

LEMMA LatePreserved ==
  ASSUME LateInv, Grows, UNCHANGED late
  PROVE  LateInv'
  BY CompleteIsStable DEF LateInv

LEMMA HeadPreserved ==
  ASSUME HeadComplete, Grows, UNCHANGED headFile
  PROVE  HeadComplete'
  BY CompleteIsStable DEF HeadComplete

LEMMA CallsPreserved ==
  ASSUME UploadInv, Grows, UNCHANGED call
  PROVE  UploadInv'
  BY CompleteIsStable DEF UploadInv, Grows

\* A call about to write the head writes a well-formed entry.
LEMMA NewHeadType ==
  ASSUME TypeOK, UploadInv, NEW t \in Tasks, call[t].pc = "head"
  PROVE  /\ NewHead(t) \in DatasetHead /\ Complete(NewHead(t).digest)
         /\ \A isLate \in BOOLEAN : HeadWrite(t, isLate) \in Entry
  BY ProcessOfAssumption DEF TypeOK, UploadInv, NewHead, HeadWrite, CallState, DatasetHead, Entry

\* Giving up head writes adds well-formed late writes of complete states, and no others.
LEMMA AbandonedWrites ==
  ASSUME TypeOK, UploadInv, LateInv, NEW tasks \in SUBSET Tasks, late' = Abandoned(tasks), Grows
  PROVE  late' \subseteq Entry /\ LateInv' /\ \A e \in late' \ late : e.late
<1> DEFINE sent == {HeadWrite(t, TRUE) : t \in {u \in tasks : call[u].pc = "head"}}
<1>1. late' = late \cup sent \/ late' = late
  BY DEF Abandoned
<1>2. \A e \in sent : e \in Entry /\ e.late /\ Complete(e.head.digest)
  <2>1. ASSUME NEW t \in tasks, call[t].pc = "head"
        PROVE  /\ HeadWrite(t, TRUE) \in Entry /\ HeadWrite(t, TRUE).late
               /\ Complete(HeadWrite(t, TRUE).head.digest)
    BY <2>1, NewHeadType DEF HeadWrite
  <2> QED
    BY <2>1
<1> HIDE DEF sent
<1> QED
  BY <1>1, <1>2, CompleteIsStable DEF TypeOK, LateInv
-----------------------------------------------------------------------------
LEMMA InitEstablishes == Init => IInv
<1> SUFFICES ASSUME Init PROVE IInv
  OBVIOUS
<1>1. TypeOK
  <2>1. call \in [Tasks -> CallState] /\ read \in [Readers -> ReadState]
    BY IdleTypes DEF Init
  <2>2. late \subseteq Entry /\ log \in Seq(Entry)
    BY DEF Init
  <2> QED
    BY <2>1, <2>2, NoHeadType DEF Init, TypeOK
<1>2. UploadInv /\ LateInv /\ ReadInv /\ HeadComplete
  BY DEF Init, UploadInv, LateInv, ReadInv, HeadComplete, IdleCall, IdleRead
<1> QED
  BY <1>1, <1>2 DEF IInv
-----------------------------------------------------------------------------
\* Ending a call that changed nothing else, which is how most requests fail.
LEMMA ReturnQuietly ==
  ASSUME IInv, NEW t \in Tasks, Return(t), UNCHANGED storage
  PROVE  IInv'
<1>1. Grows
  BY DEF Grows, storage
<1>2. UploadInv' /\ TypeOK'
  BY <1>1, ReturnPreserves DEF IInv, TypeOK, Return, storage
<1> QED
  BY <1>1, <1>2, HeadPreserved, LatePreserved, ReadsPreserved DEF IInv, Return, storage

\* A step of a call that changes no stored data and ends in a well-formed call.
LEMMA CallStep ==
  ASSUME IInv, NEW t \in Tasks, NEW c \in CallState,
         call' = [call EXCEPT ![t] = c],
         c.pc # "idle" => c.digest \in Digest,
         c.pc = "objects" =>
             \A path \in Contents[c.digest] \ c.todo : <<c.digest, path>> \in objects',
         c.pc = "head" => Complete(c.digest)',
         Grows, objects' \subseteq Digest \X Path, manifests' \subseteq Digest,
         lock' \in [Processes -> Tasks \cup {NoTask}],
         UNCHANGED <<headFile, late, log, read, since>>
  PROVE  IInv'
<1>1. TypeOK'
  BY DEF IInv, TypeOK
<1>2. call'[t] = c /\ \A u \in Tasks \ {t} : call'[u] = call[u]
  BY DEF IInv, TypeOK
<1>3. UploadInv'
  BY <1>2, CompleteIsStable DEF IInv, UploadInv, Grows
<1> QED
  BY <1>1, <1>3, HeadPreserved, LatePreserved, ReadsPreserved DEF IInv

LEMMA PublishPreserves ==
  ASSUME IInv, NEW t \in Tasks, Publish(t)
  PROVE  IInv'
<1> USE DEF IInv
<1>t. call[t] \in CallState /\ headFile \in DatasetHead
  BY DEF TypeOK
<1>u. lock \in [Processes -> Tasks \cup {NoTask}] /\ objects \subseteq Digest \X Path
      /\ manifests \subseteq Digest
  BY DEF TypeOK
<1>1. CASE ReadHead(t)
  <2> DEFINE c == [call[t] EXCEPT !.base = headFile.digest]
  <2>1. c \in CallState /\ c.pc = "idle"
    BY <1>1, <1>t DEF ReadHead, CallState, DatasetHead
  <2>2. call' = [call EXCEPT ![t] = c]
    BY <1>1 DEF ReadHead
  <2> HIDE DEF c
  <2> QED
    BY <1>1, <1>u, <2>1, <2>2, CallStep DEF ReadHead, storage, Grows
<1>2. ASSUME NEW d \in Digest, Begin(t, d) PROVE IInv'
  <2> DEFINE c == [call[t] EXCEPT !.pc = "load", !.digest = d]
  <2>1. c \in CallState /\ c.pc = "load" /\ c.digest = d
    BY <1>t DEF CallState, OptionDigest
  <2>2. call' = [call EXCEPT ![t] = c]
    BY <1>2 DEF Begin
  <2>3. lock' \in [Processes -> Tasks \cup {NoTask}]
    BY <1>2, <1>u, ProcessOfAssumption DEF Begin
  <2> HIDE DEF c
  <2> QED
    BY <1>2, <1>u, <2>1, <2>2, <2>3, CallStep DEF Begin, storage, Grows
<1>3. CASE LoadHead(t)
  <2> DEFINE c == [call[t] EXCEPT !.pc = "objects", !.next = NextSequence(headFile),
                                  !.todo = Contents[call[t].digest]]
  <2>1. call[t].digest \in Digest /\ NextSequence(headFile) \in 0..MaxSequence
    BY <1>3, <1>t, MaxSequenceAssumption
    DEF LoadHead, UploadInv, HasNextSequence, NextSequence, DatasetHead
  <2>2. Contents[call[t].digest] \in SUBSET Path
    BY <2>1, ContentsAssumption
  <2>3. /\ c \in CallState /\ c.pc = "objects" /\ c.digest = call[t].digest
        /\ c.todo = Contents[call[t].digest]
    BY <1>t, <2>1, <2>2 DEF CallState
  <2>4. call' = [call EXCEPT ![t] = c]
    BY <1>3 DEF LoadHead
  <2>5. UNCHANGED <<objects, manifests, headFile, late, log, lock, read, since>> /\ Grows
    BY <1>3 DEF LoadHead, storage, Grows
  <2> HIDE DEF c
  <2> QED
    BY <1>u, <2>1, <2>3, <2>4, <2>5, CallStep
<1>4. CASE LoadHeadFails(t)
  BY <1>4, ReturnQuietly DEF LoadHeadFails
<1>5. ASSUME NEW path \in Path, PutObject(t, path) PROVE IInv'
  <2>1. call[t].digest \in Digest
    BY <1>5 DEF PutObject, UploadInv
  <2>2. Grows /\ objects' \subseteq Digest \X Path /\ manifests' = manifests
    BY <1>5, <1>u, <2>1 DEF PutObject, Grows
  <2>3. CASE Return(t)
    <3>1. UploadInv' /\ TypeOK'
      BY <1>5, <2>2, <2>3, ReturnPreserves DEF TypeOK, Return, PutObject
    <3> QED
      BY <1>5, <2>2, <2>3, <3>1, HeadPreserved, LatePreserved, ReadsPreserved
      DEF Return, PutObject
  <2>4. CASE Acknowledged(t, [call[t] EXCEPT !.todo = @ \ {path}])
    <3> DEFINE c == [call[t] EXCEPT !.todo = @ \ {path}]
    <3>1. /\ c \in CallState /\ c.pc = "objects" /\ c.digest = call[t].digest
          /\ c.todo = call[t].todo \ {path}
      BY <1>5, <1>t DEF CallState, PutObject
    <3>2. call' = [call EXCEPT ![t] = c]
      BY <2>4 DEF Acknowledged
    <3> HIDE DEF c
    <3>3. \A q \in Contents[c.digest] \ c.todo : <<c.digest, q>> \in objects'
      BY <1>5, <3>1 DEF PutObject, UploadInv
    <3> QED
      BY <1>5, <1>u, <2>1, <2>2, <2>4, <3>1, <3>2, <3>3, CallStep DEF PutObject, Acknowledged
  <2> QED
    BY <1>5, <2>3, <2>4 DEF PutObject
<1>6. CASE PutManifest(t)
  <2>1. call[t].digest \in Digest
    BY <1>6 DEF PutManifest, UploadInv
  <2>2. Grows /\ objects' = objects /\ manifests' \subseteq Digest
    BY <1>6, <1>u, <2>1 DEF PutManifest, Grows
  <2>3. CASE Return(t)
    <3>1. UploadInv' /\ TypeOK'
      BY <1>6, <2>2, <2>3, ReturnPreserves DEF TypeOK, Return, PutManifest
    <3> QED
      BY <1>6, <2>2, <2>3, <3>1, HeadPreserved, LatePreserved, ReadsPreserved
      DEF Return, PutManifest
  <2>4. CASE Acknowledged(t, [call[t] EXCEPT !.pc = "head"])
    <3>0. [call[t] EXCEPT !.pc = "head"] \in CallState
      BY <1>t DEF CallState
    <3>1. PICK c \in CallState : c = [call[t] EXCEPT !.pc = "head"]
      BY <3>0
    <3>2. /\ call' = [call EXCEPT ![t] = c]
          /\ c.pc = "head" /\ c.digest = call[t].digest
      BY <1>t, <2>4, <3>1 DEF Acknowledged, CallState
    <3>3. Complete(c.digest)'
      BY <1>6, <2>2, <3>2 DEF PutManifest, ObjectsUploaded, UploadInv, Complete
    <3> QED
      BY <1>6, <1>u, <2>1, <2>2, <2>4, <3>2, <3>3, CallStep
      DEF PutManifest, Acknowledged
  <2> QED
    BY <1>6, <2>3, <2>4 DEF PutManifest
<1>7. CASE PutHead(t)
  <2>1. Grows
    BY <1>7 DEF PutHead, Grows
  <2>2. /\ headFile' \in DatasetHead
        /\ HeadWrite(t, FALSE) \in Entry
        /\ Complete(headFile'.digest)
    BY <1>7, NewHeadType DEF PutHead
  <2>3. log' \in Seq(Entry)
    BY <1>7, <2>2, AppendProperties DEF PutHead, TypeOK
  <2>4. UploadInv' /\ TypeOK'
    BY <1>7, <2>1, <2>2, <2>3, ReturnPreserves DEF PutHead, TypeOK, Return
  <2>5. HeadComplete'
    BY <2>1, <2>2, CompleteIsStable DEF HeadComplete
  <2> QED
    BY <1>7, <2>1, <2>4, <2>5, LatePreserved, ReadsPreserved DEF PutHead, Return
<1>8. CASE PutFails(t)
  <2>1. Grows
    BY <1>8 DEF PutFails, Grows
  <2>2. late' \subseteq Entry /\ LateInv'
    BY <1>8, <2>1, AbandonedWrites DEF PutFails
  <2>3. UploadInv' /\ TypeOK'
    BY <1>8, <2>1, <2>2, ReturnPreserves DEF PutFails, TypeOK, Return
  <2> QED
    BY <1>8, <2>1, <2>2, <2>3, HeadPreserved, ReadsPreserved DEF PutFails, Return
<1> QED
  BY <1>1, <1>2, <1>3, <1>4, <1>5, <1>6, <1>7, <1>8 DEF Publish
-----------------------------------------------------------------------------
LEMMA LateHeadPreserves == IInv /\ LateHead => IInv'
<1> SUFFICES ASSUME IInv, LateHead PROVE IInv'
  OBVIOUS
<1> USE DEF IInv
<1>1. PICK e \in late : /\ headFile' = e.head
                        /\ log' = Append(log, e)
                        /\ late' = late \ {e}
                        /\ UNCHANGED <<objects, manifests, lock, call, read, since>>
  BY DEF LateHead
<1>2. Grows
  BY <1>1 DEF Grows
<1>3. e \in Entry /\ e.head \in DatasetHead /\ Complete(e.head.digest)
  BY DEF TypeOK, LateInv, Entry
<1>4. log' \in Seq(Entry)
  BY <1>1, <1>3, AppendProperties DEF TypeOK
<1>5. TypeOK'
  BY <1>1, <1>3, <1>4 DEF TypeOK
<1>6. HeadComplete'
  BY <1>1, <1>2, <1>3, CompleteIsStable DEF HeadComplete
<1>7. LateInv'
  BY <1>1, <1>2, CompleteIsStable DEF LateInv
<1> QED
  BY <1>1, <1>2, <1>5, <1>6, <1>7, CallsPreserved, ReadsPreserved

LEMMA CrashPreserves ==
  ASSUME IInv, NEW proc \in Processes, Crash(proc)
  PROVE  IInv'
<1> USE DEF IInv
<1>1. Grows
  BY DEF Crash, Grows
<1>2. call' \in [Tasks -> CallState]
  BY IdleTypes DEF Crash, TypeOK
<1>3. lock' \in [Processes -> Tasks \cup {NoTask}]
  BY DEF Crash, TypeOK
<1>4. late' \subseteq Entry /\ LateInv'
  BY <1>1, AbandonedWrites DEF Crash
<1>5. TypeOK'
  BY <1>2, <1>3, <1>4 DEF Crash, TypeOK
<1>6. \A t \in Tasks : call'[t].pc = "idle" \/ call'[t] = call[t]
  BY DEF Crash, IdleCall
<1>7. UploadInv'
  BY <1>1, <1>6, CompleteIsStable DEF UploadInv, Grows
<1> QED
  BY <1>1, <1>4, <1>5, <1>7, HeadPreserved, ReadsPreserved DEF Crash

\* Readers and watchers change nothing but themselves.
LEMMA ReadPreserves ==
  ASSUME IInv, NEW r \in Readers,
         (\E path \in Path : GetHead(r, path)) \/ GetManifest(r) \/ GetObject(r)
  PROVE  IInv'
<1> USE DEF IInv
<1>1. Grows /\ UNCHANGED <<storage, lock, call, since>>
  BY DEF Grows, GetHead, GetManifest, GetObject, storage
<1>2. read[r] \in ReadState /\ headFile \in DatasetHead
  BY DEF TypeOK
<1>3. read' \in [Readers -> ReadState] /\ ReadInv'
  <2>1. ASSUME NEW path \in Path, GetHead(r, path)
        PROVE  read' \in [Readers -> ReadState] /\ ReadInv'
    <3>1. [pc |-> "manifest", head |-> headFile, path |-> path] \in ReadState
      BY <1>2 DEF ReadState
    <3>2. Complete(headFile.digest)
      BY <2>1 DEF GetHead, HeadComplete
    <3>3. read' \in [Readers -> ReadState]
      BY <2>1, <3>1 DEF GetHead, TypeOK
    <3> QED
      BY <1>1, <2>1, <3>2, <3>3, CompleteIsStable DEF GetHead, ReadInv, TypeOK
  <2>2. CASE GetManifest(r)
    <3>1. Complete(read[r].head.digest)
      BY <2>2 DEF GetManifest, ReadInv
    <3>2. read' = [read EXCEPT ![r] =
                      IF read[r].path \in Contents[read[r].head.digest]
                      THEN [read[r] EXCEPT !.pc = "object"] ELSE IdleRead]
      BY <2>2, <3>1 DEF GetManifest, Complete, TypeOK
    <3>3. [read[r] EXCEPT !.pc = "object"] \in ReadState
      BY <1>2 DEF ReadState
    <3>4. read' \in [Readers -> ReadState]
      BY <3>2, <3>3, IdleTypes DEF TypeOK
    <3>5. /\ \A u \in Readers \ {r} : read'[u] = read[u]
          /\ \/ /\ read'[r].pc = "object"
                /\ read'[r].head = read[r].head /\ read'[r].path = read[r].path
                /\ read[r].path \in Contents[read[r].head.digest]
             \/ read'[r].pc = "idle"
      BY <1>2, <3>2 DEF TypeOK, ReadState, IdleRead
    <3> QED
      BY <1>1, <3>1, <3>4, <3>5, CompleteIsStable DEF ReadInv
  <2>3. CASE GetObject(r)
    <3>1. /\ Complete(read[r].head.digest)
          /\ read[r].path \in Contents[read[r].head.digest]
      BY <2>3 DEF GetObject, ReadInv
    <3>2. read' = [read EXCEPT ![r] = IdleRead]
      BY <2>3, <3>1 DEF GetObject, Complete, TypeOK
    <3> QED
      BY <1>1, <3>2, IdleTypes, CompleteIsStable DEF ReadInv, TypeOK, IdleRead
  <2> QED
    BY <2>1, <2>2, <2>3
<1>4. TypeOK'
  BY <1>1, <1>3 DEF TypeOK, storage
<1> QED
  BY <1>1, <1>3, <1>4, CallsPreserved, HeadPreserved, LatePreserved DEF storage

LEMMA PollPreserves ==
  ASSUME IInv, NEW w \in Watchers, Poll(w)
  PROVE  IInv'
<1>1. Grows /\ UNCHANGED <<storage, lock, call, read>>
  BY DEF Grows, Poll, storage
<1>2. TypeOK'
  BY <1>1 DEF IInv, Poll, TypeOK, storage
<1> QED
  BY <1>1, <1>2, CallsPreserved, HeadPreserved, LatePreserved, ReadsPreserved
  DEF IInv, storage

LEMMA Inductive == IInv /\ [Next]_vars => IInv'
<1> SUFFICES ASSUME IInv, [Next]_vars PROVE IInv'
  OBVIOUS
<1>1. CASE UNCHANGED vars
  <2>1. Grows
    BY <1>1 DEF vars, Grows
  <2>2. TypeOK'
    BY <1>1 DEF IInv, TypeOK, vars
  <2> QED
    BY <1>1, <2>1, <2>2, CallsPreserved, HeadPreserved, LatePreserved, ReadsPreserved
    DEF IInv, vars
<1> QED
  BY <1>1, PublishPreserves, LateHeadPreserves, CrashPreserves, ReadPreserves,
     PollPreserves DEF Next
-----------------------------------------------------------------------------
\* Type correctness; in particular no sequence written exceeds the maximum.
THEOREM TypeCorrect == Spec => []TypeOK
<1>1. IInv => TypeOK
  BY DEF IInv
<1> QED
  BY <1>1, InitEstablishes, Inductive, PTL DEF Spec

\* Whatever number of processes publish, fail, crash and overwrite each other, with
\* late writes or without, the head names a complete state.
THEOREM HeadIsComplete == Spec => []HeadComplete
<1>1. IInv => HeadComplete
  BY DEF IInv
<1> QED
  BY <1>1, InitEstablishes, Inductive, PTL DEF Spec

\* No get, however slow and whatever is published meanwhile, misses its manifest or its
\* object.
THEOREM ReadsAreComplete == Spec => []ReadsComplete
<1>1. IInv => ReadsComplete
  BY DEF IInv, ReadInv, ReadsComplete
<1> QED
  BY <1>1, InitEstablishes, Inductive, PTL DEF Spec
-----------------------------------------------------------------------------
(* The tasks of a process *)

\* A call that is under way holds the mutex of its process, and from load_head on only late
\* writes and those of other processes come between it and the head it was compared with.
Ordered ==
    /\ headFile = HeadAfter(log, Len(log))
    /\ \A e \in late : e.late
    /\ \A t \in Tasks :
          /\ call[t].pc # "idle" => lock[ProcessOf[t]] = t
          /\ call[t].pc \in {"objects", "head"} =>
                FollowsBut(ProcessOf[t], log, Len(log), call[t].base, call[t].next)
    /\ NoOwnUpdateLost

OrderInv == IInv /\ Ordered

LEMMA InitOrder == Init => OrderInv
  BY InitEstablishes DEF Init, OrderInv, Ordered, IdleCall, HeadAfter, NoOwnUpdateLost

\* One more write leaves the writes before it, and what followed them, as they were.
LEMMA OneMoreWrite ==
  ASSUME NEW l \in Seq(Entry), NEW e \in Entry
  PROVE  /\ Append(l, e) \in Seq(Entry) /\ Len(Append(l, e)) = Len(l) + 1
         /\ HeadAfter(Append(l, e), Len(l) + 1) = e.head
         /\ \A n \in 0..Len(l) : \A proc, base, seq :
               FollowsBut(proc, l, n, base, seq) => FollowsBut(proc, Append(l, e), n, base, seq)
         /\ \A proc, base, seq :
               FollowsBut(proc, l, Len(l), base, seq) /\ (e.late \/ e.by # proc) =>
                  FollowsBut(proc, Append(l, e), Len(l) + 1, base, seq)
<1> DEFINE m == Append(l, e)
<1>1. /\ m \in Seq(Entry) /\ Len(m) = Len(l) + 1 /\ Len(l) \in Nat
      /\ m[Len(l) + 1] = e /\ \A k \in 1..Len(l) : m[k] = l[k]
  OBVIOUS
<1> HIDE DEF m
<1>2. HeadAfter(m, Len(l) + 1) = e.head
  BY <1>1 DEF HeadAfter
<1>3. \A j \in 0..Len(l) : HeadAfter(m, j) = HeadAfter(l, j)
  BY <1>1 DEF HeadAfter
<1>4. ASSUME NEW proc, NEW n \in 0..Len(l), NEW base, NEW seq, FollowsBut(proc, l, n, base, seq)
      PROVE  FollowsBut(proc, m, n, base, seq)
  <2>1. PICK j \in 0..n : /\ base = HeadAfter(l, j).digest /\ seq = HeadAfter(l, j).seq + 1
                          /\ \A k \in (j + 1)..n : l[k].late \/ l[k].by # proc
    BY <1>4 DEF FollowsBut
  <2>2. \A k \in (j + 1)..n : m[k].late \/ m[k].by # proc
    BY <1>1, <2>1
  <2>3. j \in 0..Len(l)
    BY <1>1
  <2> QED
    BY <1>3, <2>1, <2>2, <2>3 DEF FollowsBut
<1>5. ASSUME NEW proc, NEW base, NEW seq, FollowsBut(proc, l, Len(l), base, seq),
             e.late \/ e.by # proc
      PROVE  FollowsBut(proc, m, Len(l) + 1, base, seq)
  <2>1. PICK j \in 0..Len(l) : /\ base = HeadAfter(l, j).digest /\ seq = HeadAfter(l, j).seq + 1
                               /\ \A k \in (j + 1)..Len(l) : l[k].late \/ l[k].by # proc
    BY <1>5 DEF FollowsBut
  <2>2. \A k \in (j + 1)..(Len(l) + 1) : m[k].late \/ m[k].by # proc
    BY <1>1, <1>5, <2>1
  <2>3. j \in 0..(Len(l) + 1)
    BY <1>1
  <2> QED
    BY <1>3, <2>1, <2>2, <2>3 DEF FollowsBut
<1> QED
  BY <1>1, <1>2, <1>4, <1>5 DEF m

\* A write that is late, or follows what it should, adds no loss.
LEMMA WriteLosesNothing ==
  ASSUME log \in Seq(Entry), NoOwnUpdateLost, NEW e \in Entry, log' = Append(log, e),
         e.late \/ FollowsBut(e.by, log, Len(log), e.base, e.head.seq)
  PROVE  NoOwnUpdateLost'
<1>1. /\ Len(log') = Len(log) + 1 /\ Len(log) \in Nat
      /\ log'[Len(log) + 1] = e /\ \A k \in 1..Len(log) : log'[k] = log[k]
  OBVIOUS
<1>2. \A n \in 0..Len(log) : \A proc, base, seq :
         FollowsBut(proc, log, n, base, seq) => FollowsBut(proc, log', n, base, seq)
  BY OneMoreWrite
<1>3. ASSUME NEW i \in 1..Len(log')
      PROVE  log'[i].late \/ FollowsBut(log'[i].by, log', i - 1, log'[i].base, log'[i].head.seq)
  <2>1. CASE i = Len(log) + 1
    <3>1. i - 1 = Len(log) /\ Len(log) \in 0..Len(log) /\ log'[i] = e
      BY <1>1, <2>1
    <3>2. e.late \/ FollowsBut(e.by, log', Len(log), e.base, e.head.seq)
      BY <1>2, <3>1
    <3> QED
      BY <3>1, <3>2
  <2>2. CASE i \in 1..Len(log)
    <3> DEFINE w == log[i]
    <3>1. i - 1 \in 0..Len(log) /\ log'[i] = w
      BY <1>1, <2>2
    <3>2. w.late \/ FollowsBut(w.by, log, i - 1, w.base, w.head.seq)
      BY <2>2 DEF NoOwnUpdateLost
    <3> HIDE DEF w
    <3>3. w.late \/ FollowsBut(w.by, log', i - 1, w.base, w.head.seq)
      BY <1>2, <3>1, <3>2
    <3> QED
      BY <3>1, <3>3
  <2> QED
    BY <1>1, <2>1, <2>2
<1> QED
  BY <1>3 DEF NoOwnUpdateLost

\* A call that begins or goes on while nothing is written.
LEMMA OrderedCallStep ==
  ASSUME OrderInv, NEW t \in Tasks, NEW c,
         call' = [call EXCEPT ![t] = c], UNCHANGED <<headFile, log, late>>,
         c.pc # "idle" => lock'[ProcessOf[t]] = t,
         c.pc \in {"objects", "head"} => FollowsBut(ProcessOf[t], log, Len(log), c.base, c.next),
         \A u \in Tasks \ {t} : call[u].pc # "idle" => lock'[ProcessOf[u]] = u
  PROVE  Ordered'
<1>1. call'[t] = c /\ \A u \in Tasks \ {t} : call'[u] = call[u]
  BY DEF OrderInv, IInv, TypeOK
<1>2. NoOwnUpdateLost'
  BY DEF OrderInv, Ordered, NoOwnUpdateLost
<1> QED
  BY <1>1, <1>2 DEF OrderInv, Ordered

\* The task that holds the mutex is the only one of its process with a call under way.
LEMMA OthersAreIdle ==
  ASSUME OrderInv, NEW t \in Tasks, call[t].pc # "idle",
         NEW u \in Tasks \ {t}, ProcessOf[u] = ProcessOf[t]
  PROVE  call[u].pc = "idle"
  BY DEF OrderInv, Ordered

\* When the call that holds the mutex returns, none is left in its process, and the others
\* keep theirs.
LEMMA ReturnLeaves ==
  ASSUME OrderInv, NEW t \in Tasks, call[t].pc # "idle", Return(t),
         NEW u \in Tasks, call'[u].pc # "idle"
  PROVE  /\ ProcessOf[u] # ProcessOf[t]
         /\ call'[u] = call[u] /\ lock'[ProcessOf[u]] = lock[ProcessOf[u]]
<1>1. call'[t].pc = "idle" /\ \A v \in Tasks \ {t} : call'[v] = call[v]
  BY DEF Return, OrderInv, IInv, TypeOK, IdleCall
<1>2. \A q \in Processes \ {ProcessOf[t]} : lock'[q] = lock[q]
  BY DEF Return, OrderInv, IInv, TypeOK
<1> QED
  BY <1>1, <1>2, OthersAreIdle, ProcessOfAssumption

\* A call that returns without a write of the head of its own.
LEMMA OrderedReturnStep ==
  ASSUME OrderInv, NEW t \in Tasks, call[t].pc # "idle", Return(t),
         UNCHANGED <<headFile, log>>, \A e \in late' \ late : e.late
  PROVE  Ordered'
<1>1. NoOwnUpdateLost'
  BY DEF OrderInv, Ordered, NoOwnUpdateLost
<1> QED
  BY <1>1, ReturnLeaves DEF OrderInv, Ordered

LEMMA OrderedPublishStep ==
  ASSUME OrderInv, NEW t \in Tasks, Publish(t)
  PROVE  Ordered'
<1>t. /\ call \in [Tasks -> CallState] /\ headFile \in DatasetHead /\ log \in Seq(Entry)
      /\ lock \in [Processes -> Tasks \cup {NoTask}]
  BY DEF OrderInv, IInv, TypeOK
<1>h. headFile.seq \in Nat /\ Len(log) \in Nat
  BY <1>t, MaxSequenceAssumption DEF DatasetHead
<1>1. CASE ReadHead(t)
  <2> DEFINE c == [call[t] EXCEPT !.base = headFile.digest]
  <2>1. c.pc = "idle"
    BY <1>1, <1>t DEF ReadHead, CallState
  <2>2. call' = [call EXCEPT ![t] = c] /\ UNCHANGED <<headFile, log, late, lock>>
    BY <1>1, <1>t DEF ReadHead, storage
  <2>3. \A u \in Tasks \ {t} : call[u].pc # "idle" => lock'[ProcessOf[u]] = u
    BY <2>2 DEF OrderInv, Ordered
  <2> HIDE DEF c
  <2> QED
    BY <2>1, <2>2, <2>3, OrderedCallStep
\* The lock was free, so no other task of the process had a call under way.
<1>2. ASSUME NEW d \in Digest, Begin(t, d) PROVE Ordered'
  <2> DEFINE c == [call[t] EXCEPT !.pc = "load", !.digest = d]
  <2>1. c.pc = "load"
    BY <1>t DEF CallState
  <2>2. call' = [call EXCEPT ![t] = c] /\ UNCHANGED <<headFile, log, late>>
    BY <1>2 DEF Begin, storage
  <2>3. lock'[ProcessOf[t]] = t /\ lock[ProcessOf[t]] = NoTask
    BY <1>2, <1>t, ProcessOfAssumption DEF Begin, LockFree
  <2>4. \A u \in Tasks \ {t} : call[u].pc # "idle" => lock'[ProcessOf[u]] = u
    <3>1. ASSUME NEW u \in Tasks, call[u].pc # "idle" PROVE ProcessOf[u] # ProcessOf[t]
      BY <2>3, <3>1, NoTaskAssumption DEF OrderInv, Ordered
    <3>2. \A q \in Processes \ {ProcessOf[t]} : lock'[q] = lock[q]
      BY <1>2, <1>t DEF Begin
    <3> QED
      BY <3>1, <3>2, ProcessOfAssumption DEF OrderInv, Ordered
  <2> HIDE DEF c
  <2> QED
    BY <2>1, <2>2, <2>3, <2>4, OrderedCallStep
<1>3. CASE LoadHead(t)
  <2> DEFINE c == [call[t] EXCEPT !.pc = "objects", !.next = NextSequence(headFile),
                                  !.todo = Contents[call[t].digest]]
  <2>1. c.pc = "objects" /\ c.base = call[t].base /\ c.next = NextSequence(headFile)
    BY <1>t DEF CallState
  <2>2. call' = [call EXCEPT ![t] = c] /\ UNCHANGED <<headFile, log, late, lock>>
    BY <1>3 DEF LoadHead, storage
  <2>3. headFile.digest = call[t].base /\ call[t].pc = "load"
    BY <1>3 DEF LoadHead, MatchesBase
  <2>4. NextSequence(headFile) = headFile.seq + 1
    BY <1>h DEF NextSequence, NoHead
  <2>5. \A u \in Tasks : call[u].pc # "idle" => lock'[ProcessOf[u]] = u
    BY <2>2 DEF OrderInv, Ordered
  <2>6. headFile = HeadAfter(log, Len(log))
    BY DEF OrderInv, Ordered
  <2> HIDE DEF c
  <2>7. FollowsBut(ProcessOf[t], log, Len(log), c.base, c.next)
    BY <1>h, <2>1, <2>3, <2>4, <2>6 DEF FollowsBut
  <2> QED
    BY <2>1, <2>2, <2>3, <2>5, <2>7, OrderedCallStep
<1>4. CASE LoadHeadFails(t)
  BY <1>4, OrderedReturnStep DEF LoadHeadFails, storage
<1>5. ASSUME NEW path \in Path, PutObject(t, path) PROVE Ordered'
  <2> DEFINE c == [call[t] EXCEPT !.todo = call[t].todo \ {path}]
  <2>1. call[t].pc = "objects" /\ UNCHANGED <<headFile, log, late>>
    BY <1>5 DEF PutObject
  <2>2. CASE Return(t)
    BY <2>1, <2>2, OrderedReturnStep
  <2>3. CASE call' = [call EXCEPT ![t] = c] /\ lock' = lock
    <3>1. c.pc = "objects" /\ c.base = call[t].base /\ c.next = call[t].next
      BY <1>t, <2>1 DEF CallState
    <3>2. \A u \in Tasks : call[u].pc # "idle" => lock'[ProcessOf[u]] = u
      BY <2>3 DEF OrderInv, Ordered
    <3>3. FollowsBut(ProcessOf[t], log, Len(log), call[t].base, call[t].next)
      BY <2>1 DEF OrderInv, Ordered
    <3> HIDE DEF c
    <3> QED
      BY <2>1, <2>3, <3>1, <3>2, <3>3, OrderedCallStep
  <2> QED
    BY <1>5, <1>t, <2>2, <2>3 DEF PutObject, Acknowledged, CallState
<1>6. CASE PutManifest(t)
  <2> DEFINE c == [call[t] EXCEPT !.pc = "head"]
  <2>1. call[t].pc = "objects" /\ UNCHANGED <<headFile, log, late>>
    BY <1>6 DEF PutManifest
  <2>2. CASE Return(t)
    BY <2>1, <2>2, OrderedReturnStep
  <2>3. CASE call' = [call EXCEPT ![t] = c] /\ lock' = lock
    <3>1. c.pc = "head" /\ c.base = call[t].base /\ c.next = call[t].next
      BY <1>t, <2>1 DEF CallState
    <3>2. \A u \in Tasks : call[u].pc # "idle" => lock'[ProcessOf[u]] = u
      BY <2>3 DEF OrderInv, Ordered
    <3>3. FollowsBut(ProcessOf[t], log, Len(log), call[t].base, call[t].next)
      BY <2>1 DEF OrderInv, Ordered
    <3> HIDE DEF c
    <3> QED
      BY <2>1, <2>3, <3>1, <3>2, <3>3, OrderedCallStep
  <2> QED
    BY <1>6, <2>2, <2>3 DEF PutManifest, Acknowledged
\* The write follows the head that the call was compared with; to calls of other processes
\* it is one of those that may come in between.
<1>7. CASE PutHead(t)
  <2> DEFINE e == HeadWrite(t, FALSE)
  <2>1. /\ call[t].pc = "head" /\ log' = Append(log, e) /\ headFile' = NewHead(t)
        /\ Return(t) /\ late' = late
    BY <1>7 DEF PutHead
  <2>2. /\ e \in Entry /\ e.base = call[t].base /\ e.head = NewHead(t)
        /\ e.head.seq = call[t].next /\ e.by = ProcessOf[t]
    BY <2>1, NewHeadType DEF OrderInv, IInv, HeadWrite, NewHead
  <2> HIDE DEF e
  <2>3. FollowsBut(e.by, log, Len(log), e.base, e.head.seq)
    BY <2>1, <2>2 DEF OrderInv, Ordered
  <2>4. NoOwnUpdateLost'
    BY <1>t, <2>1, <2>2, <2>3, WriteLosesNothing DEF OrderInv, Ordered
  <2>5. headFile' = HeadAfter(log', Len(log'))
    BY <1>t, <2>1, <2>2, OneMoreWrite
  <2>6. ASSUME NEW u \in Tasks, call'[u].pc # "idle"
        PROVE  /\ lock'[ProcessOf[u]] = u
               /\ call'[u].pc \in {"objects", "head"} =>
                     FollowsBut(ProcessOf[u], log', Len(log'), call'[u].base, call'[u].next)
    <3>1. /\ ProcessOf[u] # ProcessOf[t] /\ call'[u] = call[u]
          /\ lock'[ProcessOf[u]] = lock[ProcessOf[u]]
      BY <2>1, <2>6, ReturnLeaves
    <3>2. Len(log') = Len(log) + 1
      BY <1>t, <2>1, <2>2
    <3> QED
      BY <1>t, <2>1, <2>2, <2>6, <3>1, <3>2, OneMoreWrite DEF OrderInv, Ordered
  <2> QED
    BY <2>1, <2>4, <2>5, <2>6 DEF OrderInv, Ordered
<1>8. CASE PutFails(t)
  <2>1. Grows
    BY <1>8 DEF PutFails, Grows
  <2>2. \A e \in late' \ late : e.late
    BY <1>8, <2>1, AbandonedWrites DEF PutFails, OrderInv, IInv
  <2> QED
    BY <1>8, <2>2, OrderedReturnStep DEF PutFails
<1> QED
  BY <1>1, <1>2, <1>3, <1>4, <1>5, <1>6, <1>7, <1>8 DEF Publish

LEMMA OrderStep == OrderInv /\ [Next]_vars => OrderInv'
<1> SUFFICES ASSUME OrderInv, [Next]_vars PROVE OrderInv'
  OBVIOUS
<1>1. IInv'
  BY Inductive DEF OrderInv
\* A crash takes the calls of the process and its mutex together.
<1>2. ASSUME NEW proc \in Processes, Crash(proc) PROVE Ordered'
  <2>1. /\ \A t \in Tasks : call'[t] = IF ProcessOf[t] = proc THEN IdleCall ELSE call[t]
        /\ \A q \in Processes \ {proc} : lock'[q] = lock[q]
        /\ UNCHANGED <<headFile, log>>
    BY <1>2 DEF Crash, OrderInv, IInv, TypeOK
  <2>2. Grows
    BY <1>2 DEF Crash, Grows
  <2>3. \A e \in late' \ late : e.late
    BY <1>2, <2>2, AbandonedWrites DEF Crash, OrderInv, IInv
  <2>4. NoOwnUpdateLost'
    BY <2>1 DEF OrderInv, Ordered, NoOwnUpdateLost
  <2> QED
    BY <2>1, <2>3, <2>4, ProcessOfAssumption DEF OrderInv, Ordered, IdleCall
\* A late write comes between a call and the head it was compared with.
<1>3. ASSUME LateHead PROVE Ordered'
  <2>1. PICK e \in late : /\ headFile' = e.head /\ log' = Append(log, e) /\ late' = late \ {e}
                          /\ UNCHANGED <<lock, call>>
    BY <1>3 DEF LateHead
  <2>2. log \in Seq(Entry) /\ e \in Entry /\ e.late
    BY DEF OrderInv, IInv, TypeOK, Ordered
  <2>3. headFile' = HeadAfter(log', Len(log'))
    BY <2>1, <2>2, OneMoreWrite
  <2>4. \A t \in Tasks : call'[t].pc \in {"objects", "head"} =>
           FollowsBut(ProcessOf[t], log', Len(log'), call'[t].base, call'[t].next)
    BY <2>1, <2>2, OneMoreWrite DEF OrderInv, Ordered
  <2>5. NoOwnUpdateLost'
    BY <2>1, <2>2, WriteLosesNothing DEF OrderInv, Ordered
  <2>6. \A d \in late' : d.late
    BY <2>1 DEF OrderInv, Ordered
  <2>7. \A t \in Tasks : call'[t].pc # "idle" => lock'[ProcessOf[t]] = t
    BY <2>1 DEF OrderInv, Ordered
  <2> QED
    BY <2>3, <2>4, <2>5, <2>6, <2>7 DEF Ordered
<1>4. UNCHANGED <<call, lock, headFile, log, late>> => Ordered'
  <2> SUFFICES ASSUME call' = call, lock' = lock, headFile' = headFile, log' = log, late' = late
               PROVE  Ordered'
    OBVIOUS
  <2>1. NoOwnUpdateLost'
    BY DEF OrderInv, Ordered, NoOwnUpdateLost
  <2> QED
    BY <2>1 DEF OrderInv, Ordered
<1>5. \A r \in Readers :
         (\E path \in Path : GetHead(r, path)) \/ GetManifest(r) \/ GetObject(r) =>
            UNCHANGED <<call, lock, headFile, log, late>>
  BY DEF GetHead, GetManifest, GetObject, storage
<1>6. \A w \in Watchers : Poll(w) => UNCHANGED <<call, lock, headFile, log, late>>
  BY DEF Poll, storage
<1>7. UNCHANGED vars => UNCHANGED <<call, lock, headFile, log, late>>
  BY DEF vars
<1>8. Ordered'
  <2>1. ASSUME NEW t \in Tasks, Publish(t) PROVE Ordered'
    BY <2>1, OrderedPublishStep
  <2> QED
    BY <1>2, <1>3, <1>4, <1>5, <1>6, <1>7, <2>1 DEF Next
<1> QED
  BY <1>1, <1>8 DEF OrderInv

\* However many processes publish, whatever requests fail and wherever a process dies, a
\* head that a call of publish writes was based on the head it overwrites, except that
\* writes of other processes, and writes whose callers had given up, may have come in
\* between (HomeserverPublisher.lock; the write of the head is unconditional).
THEOREM ProcessesKeepTheirOwnUpdates == Spec => []NoOwnUpdateLost
<1>1. OrderInv => NoOwnUpdateLost
  BY DEF OrderInv, Ordered
<1> QED
  BY <1>1, InitOrder, OrderStep, PTL DEF Spec
=============================================================================
