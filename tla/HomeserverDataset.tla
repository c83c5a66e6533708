------------------------- MODULE HomeserverDataset --------------------------
(***************************************************************************)
(* The dataset transport of crates/dataset-homeserver: immutable objects   *)
(* and manifests under digest-addressed paths of a Pubky homeserver, and   *)
(* one mutable head file that is overwritten last.                         *)
(*                                                                         *)
(* A HomeserverPublisher serialises the publish calls of its own process   *)
(* with a mutex held across every request; nothing coordinates processes,  *)
(* because the homeserver has no conditional write. Every request may fail *)
(* before or after it took effect, every process may crash between two     *)
(* requests, and a head write whose sender gave up or died may still reach *)
(* the homeserver later.                                                   *)
(***************************************************************************)
EXTENDS Naturals, Sequences, FiniteSets

CONSTANTS
    Digest, NoDigest, MaxSequence,   \* see DatasetAuthority
    Path,                            \* object paths
    Contents,                        \* Contents[d]: the paths manifest d declares
    Processes,                       \* processes holding a HomeserverPublisher
    Tasks,                           \* tasks calling publish
    ProcessOf,                       \* ProcessOf[t]: the process task t runs in
    Readers,                         \* tasks calling DatasetReader::get
    Watchers,                        \* tasks in HomeserverWatcher::wait_for_change
    NoTask, NoPath,
    MaxLate,                         \* bound of the model: head writes abandoned at once
    MaxWrites                        \* bound of the model: writes of the head file

ASSUME NoDigestAssumption == NoDigest \notin Digest
ASSUME MaxSequenceAssumption == MaxSequence \in Nat \ {0}
ASSUME ContentsAssumption == Contents \in [Digest -> SUBSET Path]
ASSUME ProcessOfAssumption == ProcessOf \in [Tasks -> Processes]
ASSUME NoTaskAssumption == NoTask \notin Tasks
ASSUME NoPathAssumption == NoPath \notin Path
ASSUME MaxWritesAssumption == MaxWrites \in Nat
ASSUME MaxLateAssumption == MaxLate \in Nat

VARIABLES
    objects,     \* stored objects, as <<digest, path>>
    manifests,   \* digests whose manifest is stored
    headFile,    \* dataset-head.json; NoHead when it does not exist
    late,        \* head writes still on their way after their sender gave up
    lock,        \* lock[proc]: the task holding HomeserverPublisher.lock
    call,        \* the publish call each task is in
    read,        \* the get call each reader is in
    since,       \* the head each watcher was last given
    log          \* history: every write of the head file, with its base

vars == <<objects, manifests, headFile, late, lock, call, read, since, log>>
storage == <<objects, manifests, headFile, late, log>>

OptionDigest == Digest \cup {NoDigest}
DatasetHead == [seq : 0..MaxSequence, digest : OptionDigest]
NoHead == [seq |-> 0, digest |-> NoDigest]
\* A write of the head file by a process; late when its sender no longer waits for it.
Entry == [by : Processes, base : OptionDigest, head : DatasetHead, late : BOOLEAN]

CallState == [pc     : {"idle", "load", "objects", "head"},
              base   : OptionDigest,      \* expected_previous
              digest : OptionDigest,      \* the publication
              next   : 0..MaxSequence,    \* next_sequence
              todo   : SUBSET Path]       \* objects still to upload

ReadState == [pc   : {"idle", "manifest", "object", "missing"},
              head : DatasetHead,
              path : Path \cup {NoPath}]

TypeOK ==
    /\ objects \subseteq Digest \X Path
    /\ manifests \subseteq Digest
    /\ headFile \in DatasetHead
    /\ late \subseteq Entry
    /\ lock \in [Processes -> Tasks \cup {NoTask}]
    /\ call \in [Tasks -> CallState]
    /\ read \in [Readers -> ReadState]
    /\ since \in [Watchers -> DatasetHead]
    /\ log \in Seq(Entry)

IdleCall == [pc |-> "idle", base |-> NoDigest, digest |-> NoDigest, next |-> 0, todo |-> {}]
IdleRead == [pc |-> "idle", head |-> NoHead, path |-> NoPath]

Init ==
    /\ objects = {} /\ manifests = {} /\ headFile = NoHead /\ late = {}
    /\ lock = [proc \in Processes |-> NoTask]
    /\ call = [t \in Tasks |-> IdleCall]
    /\ read = [r \in Readers |-> IdleRead]
    /\ since = [w \in Watchers |-> NoHead]
    /\ log = <<>>
-----------------------------------------------------------------------------
(* HomeserverPublisher::publish *)

\* The caller resolves the head it will base its publication on.
ReadHead(t) ==
    /\ call[t].pc = "idle"
    /\ call' = [call EXCEPT ![t].base = headFile.digest]
    /\ UNCHANGED <<storage, lock, read, since>>

\* self.lock.lock().await; the defect is a publisher without the mutex.
NoLock(t) == TRUE
LockFree(t) == lock[ProcessOf[t]] = NoTask

Begin(t, d) ==
    /\ call[t].pc = "idle"
    /\ LockFree(t)
    /\ lock' = [lock EXCEPT ![ProcessOf[t]] = t]
    /\ call' = [call EXCEPT ![t] = [@ EXCEPT !.pc = "load", !.digest = d]]
    /\ UNCHANGED <<storage, read, since>>

\* The call returns, with Ok or an error, and drops its guard.
Return(t) ==
    /\ call' = [call EXCEPT ![t] = [IdleCall EXCEPT !.base = call[t].base]]
    /\ lock' = [lock EXCEPT ![ProcessOf[t]] = NoTask]
    /\ UNCHANGED <<read, since>>

\* actual != expected_previous; the defect ignores the caller's base.
AnyBase(t) == TRUE
MatchesBase(t) == headFile.digest = call[t].base

\* checked_add; the defect is an unchecked one.
AlwaysNext(h) == TRUE
HasNextSequence(h) == h.seq < MaxSequence

\* map_or(1, ..).checked_add(current.is_some())
NextSequence(h) == IF h = NoHead THEN 1 ELSE h.seq + 1

\* load_head, the comparison, the next sequence, manifest and snapshot validation.
LoadHead(t) ==
    /\ call[t].pc = "load"
    /\ MatchesBase(t)
    /\ HasNextSequence(headFile)
    /\ call' = [call EXCEPT ![t] = [@ EXCEPT !.pc = "objects",
                                             !.next = NextSequence(headFile),
                                             !.todo = Contents[call[t].digest]]]
    /\ UNCHANGED <<storage, lock, read, since>>

\* The same steps when one of them fails: the request, the comparison, an
\* exhausted sequence or the validation.
LoadHeadFails(t) ==
    /\ call[t].pc = "load"
    /\ Return(t)
    /\ UNCHANGED storage

\* A put that took effect: its acknowledgement arrives and the call goes on, or is
\* lost and the call returns an error.
Acknowledged(t, update) ==
    /\ call' = [call EXCEPT ![t] = update]
    /\ UNCHANGED <<lock, read, since>>

PutObject(t, path) ==
    /\ call[t].pc = "objects"
    /\ path \in call[t].todo
    /\ objects' = objects \cup {<<call[t].digest, path>>}
    /\ \/ Acknowledged(t, [call[t] EXCEPT !.todo = @ \ {path}])
       \/ Return(t)
    /\ UNCHANGED <<manifests, headFile, late, log>>

\* Defect: the manifest and the head go out before the last object.
ObjectsSkipped(t) == TRUE
ObjectsUploaded(t) == call[t].todo = {}

PutManifest(t) ==
    /\ call[t].pc = "objects"
    /\ ObjectsUploaded(t)
    /\ manifests' = manifests \cup {call[t].digest}
    /\ \/ Acknowledged(t, [call[t] EXCEPT !.pc = "head"])
       \/ Return(t)
    /\ UNCHANGED <<objects, headFile, late, log>>

NewHead(t) == [seq |-> call[t].next, digest |-> call[t].digest]
HeadWrite(t, isLate) ==
    [by |-> ProcessOf[t], base |-> call[t].base, head |-> NewHead(t), late |-> isLate]

\* put_json(HEAD_PATH): an unconditional overwrite.
PutHead(t) ==
    /\ call[t].pc = "head"
    /\ Len(log) < MaxWrites
    /\ headFile' = NewHead(t)
    /\ log' = Append(log, HeadWrite(t, FALSE))
    /\ Return(t)
    /\ UNCHANGED <<objects, manifests, late>>

\* The late writes once these tasks no longer wait for theirs.
Abandoned(tasks) ==
    LET writes == late \cup {HeadWrite(t, TRUE) : t \in {u \in tasks : call[u].pc = "head"}}
    IN  IF Cardinality(writes) <= MaxLate THEN writes ELSE late

\* A request that failed. One for the head may still be on its way.
PutFails(t) ==
    /\ call[t].pc \in {"objects", "head"}
    /\ Return(t)
    /\ late' = Abandoned({t})
    /\ UNCHANGED <<objects, manifests, headFile, log>>

\* The homeserver takes a head write that nobody waits for any more.
LateHead ==
    \E e \in late :
        /\ Len(log) < MaxWrites
        /\ headFile' = e.head
        /\ log' = Append(log, e)
        /\ late' = late \ {e}
        /\ UNCHANGED <<objects, manifests, lock, call, read, since>>

\* A process dies with whatever its calls had done so far, and starts again. A head
\* write it had sent may still be on its way.
Crash(proc) ==
    /\ lock[proc] # NoTask
    /\ call' = [t \in Tasks |-> IF ProcessOf[t] = proc THEN IdleCall ELSE call[t]]
    /\ lock' = [lock EXCEPT ![proc] = NoTask]
    /\ late' = Abandoned({t \in Tasks : ProcessOf[t] = proc})
    /\ UNCHANGED <<objects, manifests, headFile, log, read, since>>

Publish(t) ==
    \/ ReadHead(t)
    \/ \E d \in Digest : Begin(t, d)
    \/ LoadHead(t)
    \/ LoadHeadFails(t)
    \/ \E path \in Path : PutObject(t, path)
    \/ PutManifest(t)
    \/ PutHead(t)
    \/ PutFails(t)
-----------------------------------------------------------------------------
(* HomeserverReader and HomeserverWatcher *)

\* get(path): load the head, ...
GetHead(r, path) ==
    /\ read[r] = IdleRead
    /\ headFile # NoHead
    /\ read' = [read EXCEPT ![r] = [pc |-> "manifest", head |-> headFile, path |-> path]]
    /\ UNCHANGED <<storage, lock, call, since>>

\* ... then its manifest, which may not declare the path, ...
GetManifest(r) ==
    /\ read[r].pc = "manifest"
    /\ read' = [read EXCEPT ![r] =
            IF @.head.digest \notin manifests THEN [@ EXCEPT !.pc = "missing"]
            ELSE IF @.path \in Contents[@.head.digest] THEN [@ EXCEPT !.pc = "object"]
            ELSE IdleRead]
    /\ UNCHANGED <<storage, lock, call, since>>

\* ... then the object under that manifest's digest, verified against it.
GetObject(r) ==
    /\ read[r].pc = "object"
    /\ read' = [read EXCEPT ![r] =
            IF <<@.head.digest, @.path>> \in objects THEN IdleRead
            ELSE [@ EXCEPT !.pc = "missing"]]
    /\ UNCHANGED <<storage, lock, call, since>>

\* current != since; the defect compares manifests only, not sequences.
ManifestChanged(w) == headFile.digest # since[w].digest
Changed(w) == headFile # since[w]

\* One poll of wait_for_change that finds a head differing from since.
Poll(w) ==
    /\ headFile # NoHead
    /\ Changed(w)
    /\ since' = [since EXCEPT ![w] = headFile]
    /\ UNCHANGED <<storage, lock, call, read>>
-----------------------------------------------------------------------------
Next == \/ \E t \in Tasks : Publish(t)
        \/ LateHead
        \/ \E proc \in Processes : Crash(proc)
        \/ \E r \in Readers, path \in Path : GetHead(r, path)
        \/ \E r \in Readers : GetManifest(r) \/ GetObject(r)
        \/ \E w \in Watchers : Poll(w)

Spec == Init /\ [][Next]_vars

\* The polling loop goes on for ever.
FairSpec == Spec /\ \A w \in Watchers : WF_vars(Poll(w))
-----------------------------------------------------------------------------
(* Properties *)

Complete(d) == d \in manifests /\ \A path \in Contents[d] : <<d, path>> \in objects

\* However many processes publish, whatever fails or crashes and whatever late
\* write lands, the head names a state whose manifest and objects are all stored:
\* the previous state or a new one, never a mixture (publication order, and the
\* DatasetPublisher contract).
HeadComplete == headFile # NoHead => Complete(headFile.digest)

\* A get that started from any head, however old by the time it goes on, finds the
\* manifest and the object it needs: nothing a later publication does breaks it.
ReadsComplete == \A r \in Readers : read[r].pc # "missing"

\* The head after the first n writes of the history l.
HeadAfter(l, n) == IF n = 0 THEN NoHead ELSE l[n].head

\* A publication of proc with this base and sequence follows the head as it was after the
\* first n writes of l, or before some of them that came late or from other processes.
FollowsBut(proc, l, n, base, seq) ==
    \E j \in 0..n : /\ base = HeadAfter(l, j).digest
                    /\ seq = HeadAfter(l, j).seq + 1
                    /\ \A k \in (j + 1)..n : l[k].late \/ l[k].by # proc

\* The tasks of a process lose no update of each other, crashes, failed requests and other
\* processes notwithstanding: a head that a call of publish writes is based on, and next in
\* sequence to, the head it overwrites, or one that only writes of other processes and late
\* ones came after (the mutex is held from load_head to the write). To those any update may
\* be lost, against the contract of expected_previous: the write is unconditional.
NoOwnUpdateLost ==
    \A i \in 1..Len(log) :
        log[i].late \/ FollowsBut(log[i].by, log, i - 1, log[i].base, log[i].head.seq)

\* A watcher that keeps polling ends up with the current head.
WatcherCatchesUp == \A w \in Watchers : []<>(headFile = NoHead \/ since[w] = headFile)
=============================================================================
