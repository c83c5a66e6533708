----------------------- MODULE LibtorrentFacade_proofs -----------------------
(***************************************************************************)
(* Proofs about LibtorrentFacade, for any number of torrents, requests and *)
(* alerts, and any limits of the backlog and of libtorrent's queue.        *)
(***************************************************************************)
EXTENDS LibtorrentFacade, FiniteSetTheorems, TLAPS

ATorrent == [id : 1..MaxAdds, handle : Handle, active : BOOLEAN]
ARequest == [id : Token, handle : Handle, state : States, answer : Token \cup {None}]
ACommand == [op : {"save", "remove"}, handle : Handle, token : 0..MaxRequests]
AnAlert == [kind : Kinds, handle : 0..MaxAdds, token : 0..MaxRequests]
ASnapshot == [serial : Nat, kind : Kinds, handle : 0..MaxAdds, torrent : TorrentIds]

\* The types, those of libtorrent's queues included.
ShapeInv ==
    /\ closed \in BOOLEAN /\ dropped \in BOOLEAN /\ lost \in BOOLEAN
    /\ nextTorrent \in 1..(MaxAdds + 1) /\ nextHandle \in 1..(MaxAdds + 1)
    /\ nextRequest \in 1..(MaxRequests + 1)
    /\ torrents \subseteq ATorrent
    /\ requests \subseteq ARequest
    /\ backlog \in Seq(ASnapshot) /\ unseen \in Nat
    /\ swarm \in [Content -> 0..MaxAdds]
    /\ commands \in Seq(ACommand)
    /\ stopping \subseteq Handle
    /\ alerts \in Seq(AnAlert) /\ Len(alerts) <= 3 * QueueLimit
    /\ issued \in [Handle -> TorrentIds]
    /\ asked \in Seq(Handle) /\ Len(asked) = nextRequest - 1
    /\ answered \in [Token -> 0..MaxRequests]

\* A removal libtorrent has yet to execute, to finish or to tell of.
Removing(h) ==
    \/ \E i \in DOMAIN commands : commands[i].op = "remove" /\ commands[i].handle = h
    \/ h \in stopping
    \/ \E i \in DOMAIN alerts : alerts[i].kind = "removed" /\ alerts[i].handle = h

\* A torrent is removed once: at most one of its removal's stages is under way.
RemovalsOnce ==
    /\ \A i, j \in DOMAIN commands :
          commands[i].op = "remove" /\ commands[j].op = "remove"
            /\ commands[i].handle = commands[j].handle => i = j
    /\ \A i \in DOMAIN commands : commands[i].op = "remove" =>
          /\ commands[i].handle \notin stopping
          /\ \A j \in DOMAIN alerts : alerts[j].kind = "removed" => alerts[j].handle # commands[i].handle
    /\ \A i \in DOMAIN alerts : alerts[i].kind = "removed" => alerts[i].handle \notin stopping
    /\ \A i, j \in DOMAIN alerts :
          alerts[i].kind = "removed" /\ alerts[j].kind = "removed"
            /\ alerts[i].handle = alerts[j].handle => i = j

\* The record of a torrent bears the ID issued for it, has a handle of its own, and is
\* there until the removal was told of; nothing is known of a handle yet to come.
RecordsInv ==
    /\ nextTorrent = nextHandle
    /\ \A t \in torrents :
          /\ t.handle < nextHandle /\ t.id = issued[t.handle] /\ t.id < nextTorrent
          /\ t.active => ~Removing(t.handle)
    /\ \A t, u \in torrents : t.handle = u.handle \/ t.id = u.id => t = u
    /\ \A h \in Handle :
          /\ h >= nextHandle => issued[h] = None
          /\ issued[h] # None /\ (\A t \in torrents : t.handle # h) => ~Removing(h)
          /\ Removing(h) => h < nextHandle
    /\ \A i \in DOMAIN commands : commands[i].handle < nextHandle
    /\ \A i \in DOMAIN alerts : alerts[i].handle < nextHandle
    /\ \A i \in DOMAIN alerts : alerts[i].kind = "removed" => alerts[i].handle # None
    /\ \A i \in DOMAIN backlog : backlog[i].handle < nextHandle
    /\ \A c \in Content : swarm[c] # None =>
          \/ Existing(swarm[c])
          \/ \E i \in DOMAIN commands : commands[i].op = "remove" /\ commands[i].handle = swarm[c]

-----------------------------------------------------------------------------
(* Requests and answers *)

IsAnswer(i) == alerts[i].kind \in Answers
IsSave(i) == commands[i].op = "save"
\* The requests of a torrent that libtorrent has answered, or is yet to.
Told(h) == {alerts[i].token : i \in AnswersFor(alerts, h)}
ToTell(h) == {commands[i].token : i \in {j \in DOMAIN commands : IsSave(j) /\ commands[j].handle = h}}
Outstanding(h) == Told(h) \cup ToTell(h)

\* libtorrent answers in the order it was asked, each request once.
InOrder ==
    /\ \A i, j \in DOMAIN alerts : IsAnswer(i) /\ IsAnswer(j) /\ i < j => alerts[i].token < alerts[j].token
    /\ \A i, j \in DOMAIN commands : IsSave(i) /\ IsSave(j) /\ i < j => commands[i].token < commands[j].token
    /\ \A i \in DOMAIN alerts, j \in DOMAIN commands :
          IsAnswer(i) /\ IsSave(j) => alerts[i].token < commands[j].token
    /\ \A i \in DOMAIN alerts : IsAnswer(i) =>
          alerts[i].token \in 1..(nextRequest - 1) /\ alerts[i].handle = asked[alerts[i].token]
    /\ \A i \in DOMAIN commands : IsSave(i) =>
          commands[i].token \in 1..(nextRequest - 1) /\ commands[i].handle = asked[commands[i].token]

\* The requests and what was answered are of those that were made; each request is there
\* once.
RequestsInv ==
    /\ \A r \in requests : r.id < nextRequest /\ asked[r.id] = r.handle
    /\ \A q, r \in requests : q.id = r.id => q = r
    /\ \A r \in requests : r.state # "pending" => r.answer \in 1..(nextRequest - 1)
    /\ \A t \in Token : answered[t] # None => t < nextRequest /\ answered[t] \in 1..(nextRequest - 1)

\* Up to any request, no more answers are outstanding than requests are pending, and
\* exactly theirs while nothing is lost.
Covered ==
    /\ \A h \in Handle, n \in 0..MaxRequests : Rank(Outstanding(h), n) <= Rank(Pending(h), n)
    /\ ~closed /\ ~lost => \A h \in Handle : Outstanding(h) = Pending(h)

IInv ==
    /\ ShapeInv /\ RemovalsOnce /\ RecordsInv
    /\ InOrder /\ RequestsInv /\ Covered
    /\ AnswersPairUp /\ AlertsNameTheirTorrent /\ BacklogIsNewest
-----------------------------------------------------------------------------
(* Ranks *)

LEMMA RankNat ==
  ASSUME NEW S \in SUBSET Nat, NEW n \in Nat
  PROVE  IsFiniteSet({m \in S : m <= n}) /\ Rank(S, n) \in Nat
<1>1. IsFiniteSet({m \in S : m <= n})
  BY FS_BoundedSetOfNaturals
<1> QED
  BY <1>1, FS_CardinalityType DEF Rank

LEMMA RankSubset ==
  ASSUME NEW T \in SUBSET Nat, NEW S \in SUBSET T, NEW n \in Nat
  PROVE  Rank(S, n) <= Rank(T, n)
<1>1. {m \in S : m <= n} \in SUBSET {m \in T : m <= n}
  OBVIOUS
<1> QED
  BY <1>1, RankNat, FS_Subset DEF Rank

LEMMA RankStrict ==
  ASSUME NEW S \in SUBSET Nat, NEW n \in S, NEW m \in Nat, m < n
  PROVE  Rank(S, m) < Rank(S, n)
<1> DEFINE low == {i \in S : i <= m}
           high == {i \in S : i <= n}
<1>1. low \in SUBSET high /\ n \in high /\ n \notin low
  <2>1. S \subseteq Nat /\ n \in Nat
    OBVIOUS
  <2>2. low \in SUBSET high
    <3>1. \A i \in S : i <= m => i <= n
      BY <2>1
    <3> QED
      BY <3>1
  <2>3. n \in high /\ n \notin low
    BY <2>1
  <2> QED
    BY <2>2, <2>3
<1>2. IsFiniteSet(high) /\ Cardinality(high) \in Nat
  BY RankNat DEF Rank
<1>3. IsFiniteSet(low) /\ Cardinality(low) \in Nat
  BY RankNat DEF Rank
<1>4. Cardinality(low) <= Cardinality(high) /\ Cardinality(low) # Cardinality(high)
  <2> HIDE DEF low, high
  <2> QED
    BY <1>1, <1>2, FS_Subset
<1> QED
  BY <1>2, <1>3, <1>4 DEF Rank

\* A new greatest element is last; the ranks below it stay.
LEMMA RankAdd ==
  ASSUME NEW S \in SUBSET Nat, NEW x \in Nat, x \notin S, NEW n \in Nat
  PROVE  Rank(S \cup {x}, n) = Rank(S, n) + (IF x <= n THEN 1 ELSE 0)
<1>1. IsFiniteSet({m \in S : m <= n}) /\ Rank(S, n) \in Nat
  BY RankNat
<1>2. CASE x <= n
  <2>1. {m \in S \cup {x} : m <= n} = {m \in S : m <= n} \cup {x}
    BY <1>2
  <2> QED
    BY <1>1, <1>2, <2>1, FS_AddElement DEF Rank
<1>3. CASE ~(x <= n)
  <2>1. {m \in S \cup {x} : m <= n} = {m \in S : m <= n}
    BY <1>3
  <2> QED
    BY <1>1, <1>3, <2>1 DEF Rank
<1> QED
  BY <1>2, <1>3

LEMMA RankInjective ==
  ASSUME NEW S \in SUBSET Nat, NEW m \in S, NEW n \in S, Rank(S, m) = Rank(S, n)
  PROVE  m = n
<1>1. m \in Nat /\ n \in Nat
  OBVIOUS
<1>2. Rank(S, m) \in Nat
  BY <1>1, RankNat
<1>3. CASE m < n
  BY <1>1, <1>2, <1>3, RankStrict
<1>4. CASE n < m
  BY <1>1, <1>2, <1>4, RankStrict
<1> QED
  BY <1>1, <1>3, <1>4

\* Of the outstanding requests O the first ones, A, are told; W are the pending ones.
LEMMA AnswerIsNotOlder ==
  ASSUME NEW W \in SUBSET Nat, NEW O \in SUBSET Nat,
         NEW a \in O, NEW w \in W,
         Rank(O, a) <= Rank(W, a), Rank(O, a) = Rank(W, w)
  PROVE  w <= a
<1>1. Rank(W, a) \in Nat /\ Rank(W, w) \in Nat
  BY RankNat
<1>2. a < w => Rank(W, a) < Rank(W, w)
  BY RankStrict
<1> QED
  BY <1>1, <1>2

LEMMA StillCovered ==
  ASSUME NEW N \in Nat, NEW W \in SUBSET (0..N), NEW O \in SUBSET (0..N), NEW A \in SUBSET O,
         \A a \in A, o \in O \ A : a < o,
         \A n \in 0..N : Rank(O, n) <= Rank(W, n),
         NEW n \in 0..N
  PROVE  Rank(O \ A, n) <= Rank(W \ {w \in W : \E a \in A : Rank(O, a) = Rank(W, w)}, n)
<1> DEFINE M == {w \in W : \E a \in A : Rank(O, a) = Rank(W, w)}
<1>0. /\ W \in SUBSET Nat /\ O \in SUBSET Nat /\ n \in Nat /\ O \ A \in SUBSET Nat
      /\ W \ M \in SUBSET Nat
  <2>1. W \subseteq Nat /\ O \subseteq Nat /\ n \in Nat
    OBVIOUS
  <2>2. O \ A \subseteq O /\ W \ M \subseteq W
    OBVIOUS
  <2> HIDE DEF M
  <2> QED
    BY <2>1, <2>2
<1>1. CASE \E a \in A : a > n
  <2>1. {m \in O \ A : m <= n} = {}
    <3>1. PICK a \in A : a > n
      BY <1>1
    <3>2. \A o \in O \ A : a < o /\ o \in Nat /\ a \in Nat
      BY <1>0
    <3>3. \A o \in O \ A : ~(o <= n)
      BY <3>1, <3>2
    <3> QED
      BY <3>3
  <2>2. Rank(O \ A, n) = 0
    BY <2>1, FS_EmptySet DEF Rank
  <2>3. Rank(W \ M, n) \in Nat
    BY <1>0, RankNat
  <2> QED
    BY <2>2, <2>3
<1>2. CASE \A a \in A : a <= n
  <2> DEFINE OL == {m \in O : m <= n}
             WL == {m \in W : m <= n}
  <2>1. IsFiniteSet(OL) /\ Cardinality(OL) \in Nat /\ IsFiniteSet(WL) /\ Cardinality(WL) \in Nat
    BY <1>0, RankNat DEF Rank
  <2>2. A \in SUBSET OL /\ IsFiniteSet(A) /\ Cardinality(A) \in Nat
    <3>1. A \in SUBSET OL
      BY <1>0, <1>2
    <3> QED
      BY <3>1, <2>1, FS_Subset, FS_CardinalityType
  <2>3. Rank(O \ A, n) = Cardinality(OL) - Cardinality(A)
    <3>1. {m \in O \ A : m <= n} = OL \ A /\ OL \cap A = A
      BY <2>2
    <3> QED
      BY <3>1, <2>1, FS_Difference DEF Rank
  <2>4. IsFiniteSet(M) /\ Cardinality(M) \in Nat /\ Cardinality(M) <= Cardinality(A)
    <3> DEFINE f == [w \in M |-> CHOOSE a \in A : Rank(O, a) = Rank(W, w)]
    <3>1. \A w \in M : f[w] \in A /\ Rank(O, f[w]) = Rank(W, w)
      OBVIOUS
    <3>2. f \in [M -> A]
      BY <3>1
    <3>3. IsInjective(f)
      <4> SUFFICES ASSUME NEW v \in M, NEW w \in M, f[v] = f[w] PROVE v = w
        BY DEF IsInjective
      <4>1. Rank(W, v) = Rank(W, w)
        BY <3>1
      <4> QED
        BY <4>1, <1>0, RankInjective
    <3>4. f \in Injection(M, A)
      BY <3>2, <3>3 DEF Injection
    <3> HIDE DEF M, f
    <3> QED
      BY <3>4, <2>2, FS_Injection, FS_CardinalityType
  <2>5. Rank(W \ M, n) >= Cardinality(WL) - Cardinality(M)
    <3>1. {m \in W \ M : m <= n} = WL \ M
      OBVIOUS
    <3>2. Cardinality(WL \ M) = Cardinality(WL) - Cardinality(WL \cap M)
      <4> HIDE DEF M, WL
      <4> QED
        BY <2>1, FS_Difference
    <3>3. Cardinality(WL \cap M) \in Nat /\ Cardinality(WL \cap M) <= Cardinality(M)
      <4> HIDE DEF M, WL
      <4> QED
        BY <2>4, FS_Intersection, FS_CardinalityType
    <3>4. Rank(W \ M, n) = Cardinality(WL \ M)
      BY <3>1 DEF Rank
    <3> HIDE DEF M, WL
    <3> QED
      BY <3>2, <3>3, <3>4, <2>1, <2>4
  <2>6. Cardinality(OL) <= Cardinality(WL)
    BY DEF Rank
  <2>7. Rank(W \ M, n) \in Nat
    BY <1>0, RankNat
  <2> HIDE DEF M, OL, WL
  <2>8. Rank(O \ A, n) <= Rank(W \ M, n)
    BY <2>1, <2>2, <2>3, <2>4, <2>5, <2>6, <2>7
  <2> QED
    BY <2>8 DEF M
<1> QED
  BY <1>1, <1>2

\* The pending requests are exactly the outstanding ones: each gets its own answer.
LEMMA ExactlyThose ==
  ASSUME NEW W \in SUBSET Nat, NEW A \in SUBSET W
  PROVE  {w \in W : \E a \in A : Rank(W, a) = Rank(W, w)} = A
<1>1. \A w \in W, a \in A : Rank(W, a) = Rank(W, w) => a = w
  BY RankInjective
<1> QED
  BY <1>1
-----------------------------------------------------------------------------
(* Sequences *)

LEMMA TailFacts ==
  ASSUME NEW S, NEW s \in Seq(S), s # <<>>
  PROVE  /\ Head(s) \in S /\ Head(s) = s[1] /\ 1 \in DOMAIN s
         /\ Tail(s) \in Seq(S)
         /\ \A i \in DOMAIN Tail(s) : i + 1 \in DOMAIN s /\ Tail(s)[i] = s[i + 1] /\ i \in Nat \ {0}
         /\ \A i \in DOMAIN s : i # 1 => i - 1 \in DOMAIN Tail(s) /\ i \in Nat
  OBVIOUS

LEMMA AppendFacts ==
  ASSUME NEW S, NEW s \in Seq(S), NEW e \in S
  PROVE  LET t == Append(s, e) IN
         /\ t \in Seq(S) /\ Len(t) = Len(s) + 1
         /\ DOMAIN s \subseteq Nat /\ Len(s) + 1 \notin DOMAIN s /\ Len(s) + 1 \in Nat
         /\ DOMAIN t = DOMAIN s \cup {Len(s) + 1}
         /\ \A i \in DOMAIN s : t[i] = s[i] /\ i < Len(s) + 1
         /\ t[Len(s) + 1] = e
  OBVIOUS

LEMMA NewestAre ==
  ASSUME NEW S, NEW s \in Seq(S), NEW k \in 0..Len(s)
  PROVE  LET t == SubSeq(s, Len(s) - k + 1, Len(s)) IN
         /\ t \in Seq(S) /\ Len(t) = k /\ DOMAIN t = 1..k
         /\ \A i \in 1..k : t[i] = s[Len(s) - k + i]
<1> DEFINE t == SubSeq(s, Len(s) - k + 1, Len(s))
<1>1. t \in Seq(S) /\ Len(t) = k
  OBVIOUS
<1>2. \A i \in 1..k : t[i] = s[Len(s) - k + i]
  OBVIOUS
<1> QED
  BY <1>1, <1>2

LEMMA NothingIn == DOMAIN <<>> = {} /\ Len(<<>>) = 0 /\ \A S : <<>> \in Seq(S)
  OBVIOUS

-----------------------------------------------------------------------------
(* What the steps keep of the types *)

\* libtorrent appends the alert, or drops it, at the limit.
LEMMA PostFacts ==
  ASSUME alerts \in Seq(AnAlert), Len(alerts) <= 3 * QueueLimit,
         dropped \in BOOLEAN, lost \in BOOLEAN,
         NEW kind \in Kinds, NEW handle \in 0..MaxAdds, NEW token \in 0..MaxRequests,
         Post(kind, handle, token)
  PROVE  /\ alerts' \in Seq(AnAlert) /\ Len(alerts') <= 3 * QueueLimit
         /\ dropped' \in BOOLEAN /\ lost' \in BOOLEAN
         /\ \/ alerts' = alerts /\ (lost' \/ kind = "notice") /\ (~lost' => ~lost)
            \/ alerts' = Append(alerts, Alert(kind, handle, token)) /\ lost' = lost
<1>1. Alert(kind, handle, token) \in AnAlert
  BY DEF Alert, AnAlert
<1>2. CASE Room(kind)
  <2>1. Len(alerts) < 3 * QueueLimit
    <3>1. Len(alerts) \in Nat
      OBVIOUS
    <3>2. CASE kind = "notice"
      BY <1>2, <3>1, <3>2, LimitsAreNatural DEF Room
    <3>3. CASE kind # "notice"
      <4>1. Len(alerts) \div 3 < QueueLimit
        BY <1>2, <3>3 DEF Room
      <4> QED
        BY <4>1, <3>1, LimitsAreNatural
    <3> QED
      BY <3>2, <3>3
  <2>2. alerts' = Append(alerts, Alert(kind, handle, token)) /\ dropped' = dropped /\ lost' = lost
    BY <1>2 DEF Post
  <2> QED
    BY <1>1, <2>1, <2>2, AppendFacts, LimitsAreNatural
<1>3. CASE ~Room(kind)
  BY <1>3 DEF Post
<1> QED
  BY <1>2, <1>3

LEMMA IdForHandle ==
  ASSUME ShapeInv, RecordsInv, NEW h
  PROVE  \/ TorrentIdForHandle(h) = None /\ \A t \in torrents : t.handle # h
         \/ \E t \in torrents : t.handle = h /\ TorrentIdForHandle(h) = t.id
<1> DEFINE ids == {t.id : t \in {u \in torrents : u.handle = h}}
<1>1. CASE \A t \in torrents : t.handle # h
  <2>1. ids = {}
    BY <1>1
  <2> QED
    BY <1>1, <2>1 DEF TorrentIdForHandle
<1>2. CASE \E t \in torrents : t.handle = h
  <2>1. PICK t \in torrents : t.handle = h
    BY <1>2
  <2>2. {u \in torrents : u.handle = h} = {t}
    BY <2>1 DEF RecordsInv
  <2>3. ids = {t.id}
    BY <2>2
  <2>4. t.id \in Nat
    BY DEF ShapeInv, ATorrent
  <2>5. Min({t.id}) = t.id
    BY <2>4 DEF Min
  <2> QED
    BY <2>1, <2>3, <2>5 DEF TorrentIdForHandle
<1> QED
  BY <1>1, <1>2

LEMMA PoppedFacts ==
  ASSUME ShapeInv
  PROVE  /\ Popped \in Seq(AnAlert)
         /\ \A i \in DOMAIN Popped :
               \/ i \in DOMAIN alerts /\ Popped[i] = alerts[i]
               \/ Popped[i].kind = "dropped" /\ Popped[i].handle = None
         /\ \A i \in DOMAIN alerts : i \in DOMAIN Popped /\ Popped[i] = alerts[i]
<1>1. Alert("dropped", None, None) \in AnAlert
  BY LimitsAreNatural DEF Alert, AnAlert, Kinds, None
<1>2. alerts \in Seq(AnAlert)
  BY DEF ShapeInv
<1>3. Alert("dropped", None, None).kind = "dropped" /\ Alert("dropped", None, None).handle = None
  BY DEF Alert
<1>4. CASE dropped
  BY <1>1, <1>2, <1>3, <1>4, AppendFacts DEF Popped
<1>5. CASE ~dropped
  BY <1>2, <1>5 DEF Popped
<1> QED
  BY <1>4, <1>5

LEMMA SnapshotsFacts ==
  ASSUME ShapeInv, RecordsInv
  PROVE  /\ Snapshots \in Seq(ASnapshot) /\ Len(Snapshots) = Len(Popped)
         /\ DOMAIN Snapshots = DOMAIN Popped
         /\ \A i \in DOMAIN Popped : /\ Snapshots[i].serial = unseen + i
                                     /\ Snapshots[i].kind = Popped[i].kind
                                     /\ Snapshots[i].handle = Popped[i].handle
                                     /\ Snapshots[i].torrent = TorrentIdForHandle(Popped[i].handle)
<1>1. Popped \in Seq(AnAlert) /\ unseen \in Nat
  BY PoppedFacts DEF ShapeInv
<1>2. \A h : TorrentIdForHandle(h) \in TorrentIds
  <2>1. \A t \in torrents : t.id \in TorrentIds
    BY LimitsAreNatural DEF ShapeInv, ATorrent, TorrentIds
  <2>2. None \in TorrentIds
    BY LimitsAreNatural DEF TorrentIds, None
  <2> QED
    BY <2>1, <2>2, IdForHandle
<1>3. DOMAIN Popped = 1..Len(Popped) /\ Len(Popped) \in Nat
  BY <1>1
<1>4. \A i \in 1..Len(Popped) : Popped[i] \in AnAlert
  BY <1>1
<1>5. \A i \in 1..Len(Popped) : Snapshots[i] \in ASnapshot
  BY <1>1, <1>2, <1>3, <1>4 DEF Snapshots, ASnapshot, AnAlert
<1>6. Snapshots = [i \in 1..Len(Popped) |-> Snapshots[i]]
  BY <1>3 DEF Snapshots
<1>7. Snapshots \in Seq(ASnapshot) /\ Len(Snapshots) = Len(Popped)
  <2> HIDE DEF Snapshots
  <2> QED
    BY <1>3, <1>5, <1>6
<1> QED
  BY <1>3, <1>7 DEF Snapshots

-----------------------------------------------------------------------------
(* The backlog *)

\* The newest MaxBacklog of what was retained and what is popped.
LEMMA RetainedFacts ==
  ASSUME ShapeInv, RecordsInv, BacklogIsNewest
  PROVE  /\ Retained \in Seq(ASnapshot)
         /\ \A i \in DOMAIN Retained : \/ \E j \in DOMAIN backlog : Retained[i] = backlog[j]
                                       \/ \E j \in DOMAIN Popped : Retained[i] = Snapshots[j]
         /\ unseen + Len(Popped) \in Nat
         /\ LET count == unseen + Len(Popped) IN
            /\ Len(Retained) = IF count < MaxBacklog THEN count ELSE MaxBacklog
            /\ \A i \in DOMAIN Retained : Retained[i].serial = count - Len(Retained) + i
<1> DEFINE log == backlog \o Snapshots
           n == Len(backlog)
           m == Len(Snapshots)
<1>1. /\ backlog \in Seq(ASnapshot) /\ Snapshots \in Seq(ASnapshot)
      /\ unseen \in Nat /\ n \in Nat /\ m \in Nat /\ MaxBacklog \in Nat
      /\ m = Len(Popped)
  BY SnapshotsFacts, LimitsAreNatural DEF ShapeInv
<1>2. /\ log \in Seq(ASnapshot) /\ Len(log) = n + m /\ DOMAIN log = 1..(n + m)
      /\ \A i \in 1..(n + m) : log[i] = IF i <= n THEN backlog[i] ELSE Snapshots[i - n]
  BY <1>1
<1>3. DOMAIN backlog = 1..n /\ DOMAIN Popped = 1..m
  BY <1>1, SnapshotsFacts
<1>4. \A i \in 1..(n + m) : log[i].serial = unseen - n + i
  <2>1. \A i \in 1..n : backlog[i].serial = unseen - n + i
    BY <1>3 DEF BacklogIsNewest
  <2>2. \A i \in 1..m : Snapshots[i].serial = unseen + i
    BY <1>3, SnapshotsFacts
  <2> QED
    BY <1>1, <1>2, <2>1, <2>2
<1>5. \A i \in 1..(n + m) : \/ \E j \in DOMAIN backlog : log[i] = backlog[j]
                           \/ \E j \in DOMAIN Popped : log[i] = Snapshots[j]
  <2> SUFFICES ASSUME NEW i \in 1..(n + m)
               PROVE  \/ \E j \in DOMAIN backlog : log[i] = backlog[j]
                      \/ \E j \in DOMAIN Popped : log[i] = Snapshots[j]
    OBVIOUS
  <2>1. CASE i <= n
    <3>1. i \in DOMAIN backlog /\ log[i] = backlog[i]
      BY <1>2, <1>3, <2>1
    <3> QED
      BY <3>1
  <2>2. CASE ~(i <= n)
    <3>1. i - n \in DOMAIN Popped /\ log[i] = Snapshots[i - n]
      BY <1>1, <1>2, <1>3, <2>2
    <3> QED
      BY <3>1
  <2> QED
    BY <2>1, <2>2
<1>6. n = IF unseen < MaxBacklog THEN unseen ELSE MaxBacklog
  BY DEF BacklogIsNewest
<1>9. /\ Len(log) > MaxBacklog => Retained = SubSeq(log, Len(log) - MaxBacklog + 1, Len(log))
      /\ ~(Len(log) > MaxBacklog) => Retained = log
  BY DEF Retained, Trimmed, Newest
<1>10. Len(Popped) = m
  BY <1>1
<1> HIDE DEF log, n, m
<1>7. CASE n + m > MaxBacklog
  <2>1. Retained = SubSeq(log, n + m - MaxBacklog + 1, n + m)
    <3>1. Len(log) = n + m
      BY <1>2
    <3>2. Retained = SubSeq(log, Len(log) - MaxBacklog + 1, Len(log))
      BY <3>1, <1>7, <1>9
    <3> QED
      BY <3>1, <3>2, <1>1
  <2>2. /\ Retained \in Seq(ASnapshot) /\ Len(Retained) = MaxBacklog /\ DOMAIN Retained = 1..MaxBacklog
        /\ \A i \in 1..MaxBacklog : Retained[i] = log[n + m - MaxBacklog + i]
    BY <1>1, <1>2, <1>7, <2>1, NewestAre
  <2>3. \A i \in 1..MaxBacklog : n + m - MaxBacklog + i \in 1..(n + m)
    BY <1>1, <1>7
  <2>4. unseen + m >= MaxBacklog
    BY <1>1, <1>6, <1>7
  <2>5. \A i \in 1..MaxBacklog : Retained[i].serial = unseen - n + (n + m - MaxBacklog + i)
    BY <2>2, <2>3, <1>4
  <2>6. \A i \in DOMAIN Retained : \/ \E j \in DOMAIN backlog : Retained[i] = backlog[j]
                                  \/ \E j \in DOMAIN Popped : Retained[i] = Snapshots[j]
    BY <2>2, <2>3, <1>5
  <2>7. \A i \in DOMAIN Retained : Retained[i].serial = unseen + m - Len(Retained) + i
    BY <1>1, <2>2, <2>5
  <2> QED
    BY <1>1, <2>2, <2>4, <2>6, <2>7
<1>8. CASE ~(n + m > MaxBacklog)
  <2>1. Retained = log
    BY <1>2, <1>8, <1>9
  <2>2. n + m = IF unseen + m < MaxBacklog THEN unseen + m ELSE MaxBacklog
    BY <1>1, <1>6, <1>8
  <2>3. \A i \in 1..(n + m) : log[i].serial = unseen + m - (n + m) + i
    BY <1>1, <1>4
  <2> QED
    <3>1. \A i \in DOMAIN Retained : \/ \E j \in DOMAIN backlog : Retained[i] = backlog[j]
                                    \/ \E j \in DOMAIN Popped : Retained[i] = Snapshots[j]
      BY <1>2, <1>5, <2>1
    <3>2. Len(Retained) = n + m /\ DOMAIN Retained = 1..(n + m) /\ Retained \in Seq(ASnapshot)
      BY <1>2, <2>1
    <3>3. \A i \in DOMAIN Retained : Retained[i].serial = unseen + m - Len(Retained) + i
      BY <2>1, <2>3, <3>2
    <3> QED
      BY <1>1, <1>10, <2>2, <3>1, <3>2, <3>3
<1> QED
  BY <1>7, <1>8
-----------------------------------------------------------------------------
(* Types *)

LEMMA KindsAre == Answers \subseteq Kinds /\ "removed" \in Kinds /\ "notice" \in Kinds
  BY DEF Kinds

LEMMA ShapeInit == Init => ShapeInv
<1> SUFFICES ASSUME Init PROVE ShapeInv
  OBVIOUS
<1>1. None \in 0..MaxAdds /\ None \in 0..MaxRequests /\ None \in TorrentIds
  BY LimitsAreNatural DEF None, TorrentIds
<1>2. 1 \in 1..(MaxAdds + 1) /\ 1 \in 1..(MaxRequests + 1)
  BY LimitsAreNatural
<1> QED
  <2>1. closed \in BOOLEAN /\ dropped \in BOOLEAN /\ lost \in BOOLEAN
    BY DEF Init
  <2>2. nextTorrent = 1 /\ nextHandle = 1 /\ nextRequest = 1 /\ unseen = 0 /\ 0 \in Nat
    BY DEF Init
  <2>3. /\ torrents \subseteq ATorrent /\ requests \subseteq ARequest /\ stopping \subseteq Handle
        /\ backlog \in Seq(ASnapshot) /\ commands \in Seq(ACommand)
        /\ asked \in Seq(Handle) /\ Len(asked) = 1 - 1
        /\ alerts \in Seq(AnAlert) /\ Len(alerts) = 0 /\ 0 <= 3 * QueueLimit
    BY NothingIn, LimitsAreNatural DEF Init
  <2>4. /\ swarm \in [Content -> 0..MaxAdds] /\ issued \in [Handle -> TorrentIds]
        /\ answered \in [Token -> 0..MaxRequests]
    BY <1>1 DEF Init
  <2> QED
    BY <1>2, <2>1, <2>2, <2>3, <2>4 DEF ShapeInv

LEMMA ShapeNative ==
  ASSUME ShapeInv,
         NativeSave \/ NativeRemove \/ NativeStopped \/ NativeNotice
  PROVE  ShapeInv'
<1>0. /\ alerts \in Seq(AnAlert) /\ Len(alerts) <= 3 * QueueLimit
      /\ dropped \in BOOLEAN /\ lost \in BOOLEAN /\ commands \in Seq(ACommand)
  BY DEF ShapeInv
<1>1. None \in 0..MaxAdds /\ None \in 0..MaxRequests /\ Handle \subseteq 0..MaxAdds
  BY LimitsAreNatural DEF None, Handle
<1>7. UNCHANGED <<tables, history>> /\ nextHandle' = nextHandle
  BY DEF NativeSave, NativeRemove, NativeStopped, NativeNotice
<1>2. ASSUME /\ alerts' \in Seq(AnAlert) /\ Len(alerts') <= 3 * QueueLimit
             /\ dropped' \in BOOLEAN /\ lost' \in BOOLEAN
             /\ commands' \in Seq(ACommand) /\ swarm' \in [Content -> 0..MaxAdds]
             /\ stopping' \subseteq Handle
      PROVE  ShapeInv'
  BY <1>2, <1>7 DEF ShapeInv, tables, history
<1>3. CASE NativeSave
  <2>1. commands' = Tail(commands) /\ swarm' = swarm /\ stopping' = stopping /\ commands # <<>>
    BY <1>3 DEF NativeSave
  <2>2. PICK kind \in Answers : Post(kind, Head(commands).handle, Head(commands).token)
    BY <1>3 DEF NativeSave
  <2>3. commands' \in Seq(ACommand) /\ Head(commands) \in ACommand
    BY <1>0, <2>1, TailFacts
  <2>4. Head(commands).handle \in 0..MaxAdds /\ Head(commands).token \in 0..MaxRequests
    BY <2>3, <1>1 DEF ACommand
  <2>5. /\ alerts' \in Seq(AnAlert) /\ Len(alerts') <= 3 * QueueLimit
        /\ dropped' \in BOOLEAN /\ lost' \in BOOLEAN
    BY <1>0, <2>2, <2>4, KindsAre, PostFacts
  <2> QED
    BY <1>2, <2>1, <2>3, <2>5 DEF ShapeInv
<1>4. CASE NativeRemove
  <2>1. /\ commands' = Tail(commands) /\ commands # <<>>
        /\ swarm' = [c \in Content |-> IF swarm[c] = Head(commands).handle THEN None ELSE swarm[c]]
        /\ \/ Post("removed", Head(commands).handle, None) /\ stopping' = stopping
           \/ stopping' = stopping \cup {Head(commands).handle} /\ UNCHANGED queue
    BY <1>4 DEF NativeRemove
  <2>2. commands' \in Seq(ACommand) /\ Head(commands).handle \in Handle
    <3>1. commands' \in Seq(ACommand) /\ Head(commands) \in ACommand
      BY <1>0, <2>1, TailFacts
    <3> QED
      BY <3>1 DEF ACommand
  <2>3. swarm' \in [Content -> 0..MaxAdds]
    BY <1>1, <2>1 DEF ShapeInv
  <2>4. CASE Post("removed", Head(commands).handle, None) /\ stopping' = stopping
    <3>1. /\ alerts' \in Seq(AnAlert) /\ Len(alerts') <= 3 * QueueLimit
          /\ dropped' \in BOOLEAN /\ lost' \in BOOLEAN
      BY <1>0, <1>1, <2>2, <2>4, KindsAre, PostFacts
    <3> QED
      BY <1>2, <2>2, <2>3, <2>4, <3>1 DEF ShapeInv
  <2>5. CASE stopping' = stopping \cup {Head(commands).handle} /\ UNCHANGED queue
    BY <1>0, <1>2, <2>2, <2>3, <2>5 DEF ShapeInv, queue
  <2> QED
    BY <2>1, <2>4, <2>5
<1>5. CASE NativeStopped
  <2>1. PICK h \in stopping : stopping' = stopping \ {h} /\ Post("removed", h, None)
    BY <1>5 DEF NativeStopped
  <2>2. h \in 0..MaxAdds /\ commands' = commands /\ swarm' = swarm
    BY <1>1, <1>5 DEF ShapeInv, NativeStopped
  <2>3. /\ alerts' \in Seq(AnAlert) /\ Len(alerts') <= 3 * QueueLimit
        /\ dropped' \in BOOLEAN /\ lost' \in BOOLEAN
    BY <1>0, <1>1, <2>1, <2>2, KindsAre, PostFacts
  <2> QED
    BY <1>2, <2>1, <2>2, <2>3 DEF ShapeInv
<1>6. CASE NativeNotice
  <2>1. PICK h \in 0..(nextHandle - 1) : Post("notice", h, None)
    BY <1>6 DEF NativeNotice
  <2>2. h \in 0..MaxAdds /\ commands' = commands /\ swarm' = swarm /\ stopping' = stopping
    BY <1>6, LimitsAreNatural DEF ShapeInv, NativeNotice
  <2>3. /\ alerts' \in Seq(AnAlert) /\ Len(alerts') <= 3 * QueueLimit
        /\ dropped' \in BOOLEAN /\ lost' \in BOOLEAN
    BY <1>0, <1>1, <2>1, <2>2, KindsAre, PostFacts
  <2> QED
    BY <1>2, <2>2, <2>3 DEF ShapeInv
<1> QED
  BY <1>3, <1>4, <1>5, <1>6

\* Every request in Settled is one of before, or one with its state and answer changed.
LEMMA SettledFacts ==
  ASSUME ShapeInv
  PROVE  /\ Settled \subseteq ARequest
         /\ \A s \in Settled : \E r \in requests :
               /\ s.id = r.id /\ s.handle = r.handle
               /\ \/ s = r /\ AnswerTo(r, Popped) = {}
                  \/ \E i \in AnswerTo(r, Popped) :
                        s.state \in {"ready", "failed"} /\ s.answer = Popped[i].token
         /\ \A r \in requests : \E s \in Settled :
               /\ s.id = r.id /\ s.handle = r.handle
               /\ AnswerTo(r, Popped) = {} => s = r
               /\ AnswerTo(r, Popped) # {} => s.state # "pending"
<1> DEFINE Of(r) == IF AnswerTo(r, Popped) = {} THEN r
                    ELSE Answered(r, Popped[CHOOSE i \in AnswerTo(r, Popped) : TRUE])
<1>1. Settled = {Of(r) : r \in requests}
  BY DEF Settled, Settle
<1>2. ASSUME NEW r \in requests
      PROVE  /\ Of(r) \in ARequest /\ Of(r).id = r.id /\ Of(r).handle = r.handle
             /\ \/ Of(r) = r /\ AnswerTo(r, Popped) = {}
                \/ \E i \in AnswerTo(r, Popped) :
                      Of(r).state \in {"ready", "failed"} /\ Of(r).answer = Popped[i].token
  <2>1. r \in ARequest
    BY DEF ShapeInv
  <2>2. CASE AnswerTo(r, Popped) = {}
    BY <2>1, <2>2
  <2>3. CASE AnswerTo(r, Popped) # {}
    <3>1. PICK i \in AnswerTo(r, Popped) : Of(r) = Answered(r, Popped[i])
      BY <2>3
    <3>2. i \in DOMAIN Popped /\ Popped[i].kind \in Answers
      BY DEF AnswerTo, AnswersFor
    <3>3. Popped[i].token \in Token \cup {None}
      <4>1. Popped[i] \in AnAlert
        BY <3>2, PoppedFacts
      <4>2. Popped[i].token \in 0..MaxRequests
        BY <4>1 DEF AnAlert
      <4> QED
        BY <4>2, LimitsAreNatural DEF Token, None
    <3>4. /\ Answered(r, Popped[i]).id = r.id /\ Answered(r, Popped[i]).handle = r.handle
          /\ Answered(r, Popped[i]).state \in {"ready", "failed"}
          /\ Answered(r, Popped[i]).answer = Popped[i].token
          /\ Answered(r, Popped[i]) \in ARequest
      BY <2>1, <3>3 DEF Answered, ARequest, States
    <3> QED
      BY <3>1, <3>4
  <2> QED
    BY <2>2, <2>3
<1>3. \A r \in requests : AnswerTo(r, Popped) = {} => Of(r) = r
  OBVIOUS
<1>4. \A r \in requests : AnswerTo(r, Popped) # {} => Of(r).state # "pending"
  BY <1>2
<1> HIDE DEF Of
<1> QED
  BY <1>1, <1>2, <1>3, <1>4

\* The facade's own steps; Add hands out the handle it says only if that is new.
LEMMA ShapeAdd ==
  ASSUME ShapeInv, RecordsInv, NEW c \in Content, Add(c)
  PROVE  /\ ShapeInv'
         /\ swarm' = [swarm EXCEPT ![c] = nextHandle]
         /\ nextHandle \in Handle /\ commands = <<>>
         /\ nextHandle' = nextHandle + 1 /\ nextTorrent' = nextTorrent + 1
         /\ \/ /\ torrents' = torrents \cup {[id |-> nextTorrent, handle |-> nextHandle, active |-> TRUE]}
               /\ issued' = [issued EXCEPT ![nextHandle] = nextTorrent]
               /\ commands' = commands
            \/ /\ commands' = Append(commands, [op |-> "remove", handle |-> nextHandle, token |-> None])
               /\ torrents' = torrents /\ issued' = issued
         /\ UNCHANGED <<closed, nextRequest, requests, backlog, stopping, notices,
                        queue, unseen, asked, answered>>
<1>1. commands = <<>> /\ nextHandle \in Handle /\ nextTorrent = nextHandle
  BY LimitsAreNatural DEF Add, ShapeInv, Handle, RecordsInv
<1>2. swarm[c] = None
  <2>1. SUFFICES ASSUME swarm[c] # None PROVE FALSE
    OBVIOUS
  <2>2. ~Existing(swarm[c])
    BY <2>1 DEF Add
  <2>3. \E i \in DOMAIN commands : TRUE
    BY <2>1, <2>2 DEF RecordsInv
  <2> QED
    BY <1>1, <2>3, NothingIn
<1>3. /\ swarm' = [swarm EXCEPT ![c] = nextHandle]
      /\ nextHandle' = nextHandle + 1 /\ nextTorrent' = nextTorrent + 1
      /\ \/ /\ torrents' = torrents \cup {[id |-> nextTorrent, handle |-> nextHandle, active |-> TRUE]}
            /\ issued' = [issued EXCEPT ![nextHandle] = nextTorrent]
            /\ commands' = commands
         \/ /\ commands' = Append(commands, [op |-> "remove", handle |-> nextHandle, token |-> None])
            /\ torrents' = torrents /\ issued' = issued
      /\ UNCHANGED <<closed, nextRequest, requests, backlog, stopping, notices,
                     queue, unseen, asked, answered>>
  BY <1>2 DEF Add, NewTorrentId, Enqueue
<1>4. /\ nextHandle \in 0..MaxAdds /\ nextTorrent \in TorrentIds /\ nextTorrent \in 1..MaxAdds
      /\ nextTorrent' \in 1..(MaxAdds + 1) /\ nextHandle' \in 1..(MaxAdds + 1)
  BY <1>1, <1>3, LimitsAreNatural DEF Handle, TorrentIds
<1>5. swarm' \in [Content -> 0..MaxAdds]
  BY <1>3, <1>4 DEF ShapeInv
<1>6. torrents' \subseteq ATorrent /\ issued' \in [Handle -> TorrentIds]
  <2>1. [id |-> nextTorrent, handle |-> nextHandle, active |-> TRUE] \in ATorrent
    BY <1>1, <1>4 DEF ATorrent
  <2>2. torrents \subseteq ATorrent /\ issued \in [Handle -> TorrentIds]
    BY DEF ShapeInv
  <2>3. [issued EXCEPT ![nextHandle] = nextTorrent] \in [Handle -> TorrentIds]
    BY <1>4, <2>2
  <2> QED
    BY <1>3, <2>1, <2>2, <2>3
<1>7. [op |-> "remove", handle |-> nextHandle, token |-> None] \in ACommand
  BY <1>1, LimitsAreNatural DEF ACommand, None
<1>8. commands' \in Seq(ACommand)
  <2>1. commands \in Seq(ACommand)
    BY DEF ShapeInv
  <2>2. Append(commands, [op |-> "remove", handle |-> nextHandle, token |-> None]) \in Seq(ACommand)
    BY <1>7, <2>1, AppendFacts
  <2> QED
    BY <1>3, <2>1, <2>2
<1>9. ShapeInv'
  BY <1>3, <1>4, <1>5, <1>6, <1>8 DEF ShapeInv, queue
<1> QED
  BY <1>1, <1>3, <1>9

LEMMA ShapeRemove ==
  ASSUME ShapeInv, NEW id, RemoveTorrent(id)
  PROVE  ShapeInv'
<1>1. PICK t \in FindTorrent(id) :
         /\ Enqueue("remove", t.handle, None)
         /\ torrents' = (torrents \ {t}) \cup {[t EXCEPT !.active = FALSE]}
  BY DEF RemoveTorrent
<1>2. t \in torrents /\ t \in ATorrent
  BY DEF FindTorrent, ShapeInv
<1>3. torrents' \subseteq ATorrent
  BY <1>1, <1>2 DEF ATorrent, ShapeInv
<1>4. [op |-> "remove", handle |-> t.handle, token |-> None] \in ACommand
  BY <1>2, LimitsAreNatural DEF ACommand, ATorrent, None
<1>5. commands' \in Seq(ACommand)
  BY <1>1, <1>4 DEF Enqueue, ShapeInv
<1> QED
  BY <1>3, <1>5 DEF ShapeInv, RemoveTorrent, queue, history

LEMMA ShapeSave ==
  ASSUME ShapeInv, NEW id, SaveResumeData(id)
  PROVE  /\ ShapeInv'
         /\ nextRequest \in Token /\ nextRequest' = nextRequest + 1
         /\ UNCHANGED <<closed, nextTorrent, torrents, backlog, swarm, nextHandle,
                        stopping, notices, queue, unseen, issued, answered>>
         /\ \E t \in torrents :
               /\ asked' = Append(asked, t.handle)
               /\ t.handle \in Handle
               /\ \/ /\ requests' = requests \cup {[id |-> nextRequest, handle |-> t.handle,
                                                   state |-> "pending", answer |-> None]}
                     /\ commands' = Append(commands, [op |-> "save", handle |-> t.handle,
                                                      token |-> nextRequest])
                  \/ UNCHANGED <<requests, commands>>
<1>1. PICK t \in FindTorrent(id) :
         /\ asked' = Append(asked, t.handle)
         /\ \/ /\ requests' = requests \cup {[id |-> nextRequest, handle |-> t.handle,
                                             state |-> "pending", answer |-> None]}
               /\ Enqueue("save", t.handle, nextRequest)
            \/ UNCHANGED <<requests, commands>>
  BY DEF SaveResumeData
<1>2. t \in torrents /\ t.handle \in Handle
  BY DEF FindTorrent, ShapeInv, ATorrent
<1>3. nextRequest \in Token /\ nextRequest' = nextRequest + 1
  BY LimitsAreNatural DEF SaveResumeData, ShapeInv, Token
<1>4. nextRequest \in 0..MaxRequests /\ nextRequest' \in 1..(MaxRequests + 1)
  BY <1>3, LimitsAreNatural DEF Token
<1>5. [id |-> nextRequest, handle |-> t.handle, state |-> "pending", answer |-> None] \in ARequest
  BY <1>2, <1>3 DEF ARequest, States
<1>6. [op |-> "save", handle |-> t.handle, token |-> nextRequest] \in ACommand
  BY <1>2, <1>4 DEF ACommand
<1>7. requests' \subseteq ARequest /\ commands' \in Seq(ACommand)
  <2>1. requests \subseteq ARequest /\ commands \in Seq(ACommand)
    BY DEF ShapeInv
  <2>2. Append(commands, [op |-> "save", handle |-> t.handle, token |-> nextRequest]) \in Seq(ACommand)
    BY <1>6, <2>1, AppendFacts
  <2> QED
    BY <1>1, <1>5, <2>1, <2>2 DEF Enqueue
<1>8. asked' \in Seq(Handle) /\ Len(asked') = nextRequest' - 1
  BY <1>1, <1>2, <1>3 DEF ShapeInv, Token
<1>9. UNCHANGED <<closed, nextTorrent, torrents, backlog, swarm, nextHandle,
                  stopping, notices, queue, unseen, issued, answered>>
  BY DEF SaveResumeData
<1>10. ShapeInv'
  BY <1>4, <1>7, <1>8, <1>9 DEF ShapeInv, queue
<1> QED
  BY <1>1, <1>2, <1>3, <1>9, <1>10 DEF Enqueue

\* What a poll and a snapshot have in common.
Drain ==
    /\ ProcessAlerts
    /\ requests' \subseteq Settled
    /\ \/ backlog' = Retained /\ unseen' = unseen + Len(Popped)
       \/ backlog' = <<>> /\ unseen' = 0
    /\ UNCHANGED <<issued, asked>>

LEMMA PollDrains ==
  ASSUME ShapeInv, NEW token \in 1..(nextRequest - 1), PollResumeData(token)
  PROVE  /\ Drain
         /\ \A s \in Settled : s.state = "pending" => s \in requests'
         /\ answered' \in [Token -> 0..MaxRequests]
         /\ \A t \in Token : \/ answered'[t] = answered[t]
                             \/ \E s \in Settled : /\ s.id = t /\ s.state # "pending"
                                                   /\ answered'[t] = s.answer
<1> DEFINE terminal == {r \in Settled : r.id = token /\ r.state # "pending"}
           answer == IF terminal = {} THEN answered[token] ELSE (CHOOSE r \in terminal : TRUE).answer
<1>1. /\ ProcessAlerts /\ backlog' = Retained /\ unseen' = unseen + Len(Popped)
      /\ requests' = Settled \ terminal
      /\ UNCHANGED <<issued, asked>>
      /\ answered' = [answered EXCEPT ![token] = answer]
  BY DEF PollResumeData
<1>2. token \in Token /\ answered \in [Token -> 0..MaxRequests]
  BY LimitsAreNatural DEF ShapeInv, Token
<1>3. \/ answer = answered[token]
      \/ \E s \in Settled : s.id = token /\ s.state # "pending" /\ answer = s.answer
  <2>1. CASE terminal = {}
    BY <2>1
  <2>2. CASE terminal # {}
    <3>1. (CHOOSE r \in terminal : TRUE) \in terminal
      BY <2>2
    <3> QED
      BY <2>2, <3>1
  <2> QED
    BY <2>1, <2>2
<1>4. answer \in 0..MaxRequests
  <2>1. \A s \in Settled : s.answer \in 0..MaxRequests
    <3>1. \A s \in Settled : s.answer \in Token \cup {None}
      BY SettledFacts DEF ARequest
    <3> QED
      BY <3>1, LimitsAreNatural DEF Token, None
  <2> QED
    BY <1>2, <1>3, <2>1
<1>5. \A s \in Settled : s.state = "pending" => s \in requests'
  BY <1>1
<1>6. requests' \subseteq Settled
  BY <1>1
<1>7. Drain
  BY <1>1, <1>6 DEF Drain
<1> HIDE DEF answer
<1>8. answered' \in [Token -> 0..MaxRequests]
  BY <1>1, <1>2, <1>4
<1>9. ASSUME NEW t \in Token
      PROVE  \/ answered'[t] = answered[t]
             \/ \E s \in Settled : s.id = t /\ s.state # "pending" /\ answered'[t] = s.answer
  <2>1. answered'[t] = IF t = token THEN answer ELSE answered[t]
    BY <1>1, <1>2
  <2> QED
    BY <1>3, <2>1
<1> QED
  BY <1>5, <1>7, <1>8, <1>9

LEMMA SnapshotDrains ==
  ASSUME SnapshotSession
  PROVE  Drain /\ requests' = Settled /\ answered' = answered
  BY DEF SnapshotSession, Drain

LEMMA ShapeDrain ==
  ASSUME ShapeInv, RecordsInv, BacklogIsNewest, Drain, answered' \in [Token -> 0..MaxRequests]
  PROVE  /\ ShapeInv' /\ BacklogIsNewest'
         /\ commands' = commands /\ alerts' = <<>> /\ UNCHANGED <<native, lost, closed, nextTorrent, nextRequest>>
         /\ \A i \in DOMAIN backlog' : \/ \E j \in DOMAIN backlog : backlog'[i] = backlog[j]
                                       \/ \E j \in DOMAIN Popped : backlog'[i] = Snapshots[j]
<1>1. /\ alerts' = <<>> /\ dropped' = FALSE /\ torrents' \subseteq torrents
      /\ UNCHANGED <<closed, nextTorrent, nextRequest, native, lost, issued, asked>>
  BY DEF Drain, ProcessAlerts
<1>2. requests' \subseteq ARequest
  BY SettledFacts DEF Drain
<1>3. /\ backlog' \in Seq(ASnapshot) /\ unseen' \in Nat /\ BacklogIsNewest'
      /\ \A i \in DOMAIN backlog' : \/ \E j \in DOMAIN backlog : backlog'[i] = backlog[j]
                                    \/ \E j \in DOMAIN Popped : backlog'[i] = Snapshots[j]
  <2>1. CASE backlog' = Retained /\ unseen' = unseen + Len(Popped)
    BY <2>1, RetainedFacts DEF BacklogIsNewest
  <2>2. CASE backlog' = <<>> /\ unseen' = 0
    <3>1. Len(backlog') = 0 /\ DOMAIN backlog' = {} /\ backlog' \in Seq(ASnapshot)
      BY <2>2, NothingIn
    <3>2. 0 = IF 0 < MaxBacklog THEN 0 ELSE MaxBacklog
      BY LimitsAreNatural
    <3> QED
      BY <2>2, <3>1, <3>2 DEF BacklogIsNewest
  <2> QED
    BY <2>1, <2>2 DEF Drain
<1>4. alerts' \in Seq(AnAlert) /\ Len(alerts') <= 3 * QueueLimit
  BY <1>1, NothingIn, LimitsAreNatural
<1>5. ShapeInv'
  BY <1>1, <1>2, <1>3, <1>4 DEF ShapeInv, native
<1> QED
  BY <1>1, <1>3, <1>5 DEF native

LEMMA ShapeShutdown ==
  ASSUME ShapeInv, ShutdownSession
  PROVE  ShapeInv'
<1>1. /\ alerts' \in Seq(AnAlert) /\ Len(alerts') <= 3 * QueueLimit
      /\ commands' \in Seq(ACommand) /\ stopping' \subseteq Handle
  BY NothingIn, LimitsAreNatural DEF ShutdownSession
<1>2. swarm' \in [Content -> 0..MaxAdds]
  BY LimitsAreNatural DEF ShutdownSession, None
<1> QED
  BY <1>1, <1>2 DEF ShapeInv, ShutdownSession, history
-----------------------------------------------------------------------------
(* Torrents and their removals *)

\* RemovalsOnce depends on these three only.
LEMMA RemovalsInit ==
  ASSUME commands = <<>>, stopping = {}, alerts = <<>>
  PROVE  RemovalsOnce
  BY NothingIn DEF RemovalsOnce

\* The alert that is posted, if one is, tells of the removal of h or of none; nothing
\* else is then under way for h.
LEMMA RemovalsPost ==
  ASSUME RemovalsOnce, commands \in Seq(ACommand), alerts \in Seq(AnAlert),
         NEW a \in AnAlert, alerts' = alerts \/ alerts' = Append(alerts, a),
         commands' = commands \/ (commands # <<>> /\ commands' = Tail(commands)),
         stopping' \subseteq stopping,
         a.kind = "removed" =>
            /\ a.handle \notin stopping'
            /\ \A i \in DOMAIN alerts : alerts[i].kind = "removed" => alerts[i].handle # a.handle
            /\ \A i \in DOMAIN commands' : commands'[i].op = "remove" => commands'[i].handle # a.handle
  PROVE  RemovalsOnce'
<1>1. \A i \in DOMAIN commands' : \E j \in DOMAIN commands :
         commands'[i] = commands[j] /\ j \in Nat /\ i \in Nat /\ (commands' = commands => j = i)
           /\ (commands' # commands => j = i + 1)
  <2>1. CASE commands' = commands
    <3>1. \A i \in DOMAIN commands : i \in Nat
      OBVIOUS
    <3> QED
      BY <2>1, <3>1
  <2>2. CASE commands' # commands
    <3>1. commands # <<>> /\ commands' = Tail(commands)
      BY <2>2
    <3>2. \A i \in DOMAIN Tail(commands) : i + 1 \in DOMAIN commands /\ Tail(commands)[i] = commands[i + 1] /\ i \in Nat \ {0}
      BY <3>1, TailFacts
    <3> QED
      BY <2>2, <3>1, <3>2
  <2> QED
    BY <2>1, <2>2
<1>2. \A i \in DOMAIN alerts' : \/ i \in DOMAIN alerts /\ alerts'[i] = alerts[i]
                                \/ i = Len(alerts) + 1 /\ alerts'[i] = a
  BY AppendFacts
<1>3. \A i, j \in DOMAIN commands' :
        commands'[i].op = "remove" /\ commands'[j].op = "remove"
          /\ commands'[i].handle = commands'[j].handle => i = j
  <2> SUFFICES ASSUME NEW i \in DOMAIN commands', NEW j \in DOMAIN commands',
                      commands'[i].op = "remove", commands'[j].op = "remove",
                      commands'[i].handle = commands'[j].handle
               PROVE  i = j
    OBVIOUS
  <2>1. PICK k \in DOMAIN commands : /\ commands'[i] = commands[k] /\ k \in Nat /\ i \in Nat
                                     /\ (commands' = commands => k = i) /\ (commands' # commands => k = i + 1)
    BY <1>1
  <2>2. PICK l \in DOMAIN commands : /\ commands'[j] = commands[l] /\ l \in Nat /\ j \in Nat
                                     /\ (commands' = commands => l = j) /\ (commands' # commands => l = j + 1)
    BY <1>1
  <2>3. k = l
    BY <2>1, <2>2 DEF RemovalsOnce
  <2> QED
    BY <2>1, <2>2, <2>3
<1>4. \A i \in DOMAIN commands' : commands'[i].op = "remove" =>
         /\ commands'[i].handle \notin stopping'
         /\ \A j \in DOMAIN alerts' : alerts'[j].kind = "removed" => alerts'[j].handle # commands'[i].handle
  BY <1>1, <1>2 DEF RemovalsOnce
<1>5. \A i \in DOMAIN alerts' : alerts'[i].kind = "removed" => alerts'[i].handle \notin stopping'
  BY <1>2 DEF RemovalsOnce
<1>6. \A i, j \in DOMAIN alerts' :
        alerts'[i].kind = "removed" /\ alerts'[j].kind = "removed"
          /\ alerts'[i].handle = alerts'[j].handle => i = j
  BY <1>2 DEF RemovalsOnce
<1> QED
  BY <1>3, <1>4, <1>5, <1>6 DEF RemovalsOnce

\* A removal is asked for of a torrent that none is under way for.
LEMMA RemovalsAsked ==
  ASSUME RemovalsOnce, commands \in Seq(ACommand), NEW c \in ACommand,
         commands' = Append(commands, c), UNCHANGED <<stopping, alerts>>,
         c.op = "remove" => ~Removing(c.handle)
  PROVE  RemovalsOnce'
<1>1. \A i \in DOMAIN commands' : \/ i \in DOMAIN commands /\ commands'[i] = commands[i]
                                  \/ i = Len(commands) + 1 /\ commands'[i] = c
  BY AppendFacts
<1>2. \A i, j \in DOMAIN commands' :
        commands'[i].op = "remove" /\ commands'[j].op = "remove"
          /\ commands'[i].handle = commands'[j].handle => i = j
  BY <1>1 DEF RemovalsOnce, Removing
<1>3. \A i \in DOMAIN commands' : commands'[i].op = "remove" =>
         /\ commands'[i].handle \notin stopping'
         /\ \A j \in DOMAIN alerts' : alerts'[j].kind = "removed" => alerts'[j].handle # commands'[i].handle
  BY <1>1 DEF RemovalsOnce, Removing
<1> QED
  BY <1>2, <1>3 DEF RemovalsOnce

\* A disk job that is still running takes over from its command.
LEMMA RemovalsStopping ==
  ASSUME RemovalsOnce, commands \in Seq(ACommand), commands # <<>>,
         commands[1].op = "remove",
         commands' = Tail(commands), stopping' = stopping \cup {commands[1].handle}, alerts' = alerts
  PROVE  RemovalsOnce'
<1>1. /\ 1 \in DOMAIN commands
      /\ \A i \in DOMAIN commands' : i + 1 \in DOMAIN commands /\ commands'[i] = commands[i + 1] /\ i \in Nat \ {0}
  BY TailFacts
<1>2. \A i, j \in DOMAIN commands' :
        commands'[i].op = "remove" /\ commands'[j].op = "remove"
          /\ commands'[i].handle = commands'[j].handle => i = j
  <2> SUFFICES ASSUME NEW i \in DOMAIN commands', NEW j \in DOMAIN commands',
                      commands'[i].op = "remove", commands'[j].op = "remove",
                      commands'[i].handle = commands'[j].handle
               PROVE  i = j
    OBVIOUS
  <2>1. i + 1 = j + 1
    BY <1>1 DEF RemovalsOnce
  <2> QED
    BY <1>1, <2>1
<1>3. \A i \in DOMAIN commands' : commands'[i].op = "remove" =>
         /\ commands'[i].handle \notin stopping'
         /\ \A j \in DOMAIN alerts' : alerts'[j].kind = "removed" => alerts'[j].handle # commands'[i].handle
  <2> SUFFICES ASSUME NEW i \in DOMAIN commands', commands'[i].op = "remove"
               PROVE  /\ commands'[i].handle \notin stopping'
                      /\ \A j \in DOMAIN alerts' : alerts'[j].kind = "removed" => alerts'[j].handle # commands'[i].handle
    OBVIOUS
  <2>1. i + 1 # 1 /\ i + 1 \in DOMAIN commands /\ commands'[i] = commands[i + 1]
    BY <1>1
  <2>2. commands[i + 1].handle # commands[1].handle
    BY <1>1, <2>1 DEF RemovalsOnce
  <2> QED
    BY <2>1, <2>2 DEF RemovalsOnce
<1>4. \A i \in DOMAIN alerts' : alerts'[i].kind = "removed" => alerts'[i].handle \notin stopping'
  BY <1>1 DEF RemovalsOnce
<1> QED
  BY <1>2, <1>3, <1>4 DEF RemovalsOnce

\* What libtorrent does leaves the records be: it starts no removal.
LEMMA RecordsNative ==
  ASSUME ShapeInv, RecordsInv,
         UNCHANGED <<torrents, issued, nextTorrent, nextHandle, backlog>>,
         \A h : Removing(h)' => Removing(h),
         \A i \in DOMAIN commands' : commands'[i].handle < nextHandle,
         NEW a \in AnAlert, alerts' = alerts \/ alerts' = Append(alerts, a),
         a.handle < nextHandle, a.kind = "removed" => a.handle # None,
         \A c \in Content : swarm'[c] # None =>
            /\ swarm'[c] = swarm[c]
            /\ \A i \in DOMAIN commands : commands[i].op = "remove" /\ commands[i].handle = swarm[c] =>
                  \E j \in DOMAIN commands' : commands'[j] = commands[i]
  PROVE  RecordsInv'
<1>1. \A i \in DOMAIN alerts' : \/ i \in DOMAIN alerts /\ alerts'[i] = alerts[i]
                                \/ i = Len(alerts) + 1 /\ alerts'[i] = a
  <2>1. alerts \in Seq(AnAlert)
    BY DEF ShapeInv
  <2> QED
    BY <2>1, AppendFacts
<1>2. /\ \A i \in DOMAIN alerts' : alerts'[i].handle < nextHandle'
      /\ \A i \in DOMAIN alerts' : alerts'[i].kind = "removed" => alerts'[i].handle # None
  BY <1>1 DEF RecordsInv
<1>3. \A c \in Content : swarm'[c] # None =>
        \/ \E t \in torrents' : t.active /\ t.handle = swarm'[c]
        \/ \E i \in DOMAIN commands' : commands'[i].op = "remove" /\ commands'[i].handle = swarm'[c]
  <2> SUFFICES ASSUME NEW c \in Content, swarm'[c] # None, ~Existing(swarm[c])
               PROVE  \E i \in DOMAIN commands' : commands'[i].op = "remove" /\ commands'[i].handle = swarm[c]
    BY DEF Existing
  <2>1. swarm'[c] = swarm[c] /\ swarm[c] # None
    OBVIOUS
  <2>2. PICK i \in DOMAIN commands : commands[i].op = "remove" /\ commands[i].handle = swarm[c]
    BY <2>1 DEF RecordsInv
  <2> QED
    BY <2>1, <2>2
<1>4. /\ \A t \in torrents : t.active => ~Removing(t.handle)'
      /\ \A h \in Handle : /\ issued[h] # None /\ (\A t \in torrents : t.handle # h) => ~Removing(h)'
                           /\ Removing(h)' => h < nextHandle
  BY DEF RecordsInv
<1> QED
  <2>1. \A c \in Content : swarm'[c] # None =>
          \/ \E t \in torrents' : t.active /\ t.handle = swarm'[c]
          \/ \E i \in DOMAIN commands' : commands'[i].op = "remove" /\ commands'[i].handle = swarm'[c]
    BY <1>3
  <2>2. /\ nextTorrent' = nextHandle'
        /\ \A t \in torrents' :
              /\ t.handle < nextHandle' /\ t.id = issued'[t.handle] /\ t.id < nextTorrent'
              /\ t.active => ~Removing(t.handle)'
        /\ \A t, u \in torrents' : t.handle = u.handle \/ t.id = u.id => t = u
        /\ \A h \in Handle : h >= nextHandle' => issued'[h] = None
        /\ \A i \in DOMAIN backlog' : backlog'[i].handle < nextHandle'
    BY <1>4 DEF RecordsInv
  <2> QED
    BY <1>2, <1>4, <2>1, <2>2 DEF RecordsInv, Existing

\* The stages of a removal by step.
LEMMA NativeRecords ==
  ASSUME ShapeInv, RecordsInv, RemovalsOnce,
         NativeSave \/ NativeRemove \/ NativeStopped \/ NativeNotice
  PROVE  RecordsInv' /\ RemovalsOnce'
<1>0. /\ alerts \in Seq(AnAlert) /\ Len(alerts) <= 3 * QueueLimit
      /\ dropped \in BOOLEAN /\ lost \in BOOLEAN /\ commands \in Seq(ACommand)
      /\ nextHandle \in Nat /\ nextHandle - 1 <= MaxAdds /\ MaxAdds \in Nat
      /\ swarm \in [Content -> 0..MaxAdds] /\ stopping \subseteq Handle
  BY LimitsAreNatural DEF ShapeInv
<1>1. None \in 0..MaxAdds /\ None \in 0..MaxRequests /\ Handle \subseteq 0..MaxAdds
  BY LimitsAreNatural DEF None, Handle
<1>2. UNCHANGED <<torrents, issued, nextTorrent, nextHandle, backlog>>
  BY DEF NativeSave, NativeRemove, NativeStopped, NativeNotice, tables, history
<1>3. CASE NativeSave
  <2>1. /\ commands' = Tail(commands) /\ swarm' = swarm /\ stopping' = stopping
        /\ commands # <<>> /\ Head(commands).op = "save"
    BY <1>3 DEF NativeSave
  <2> DEFINE c == Head(commands)
  <2>2. PICK kind \in Answers : Post(kind, c.handle, c.token)
    BY <1>3 DEF NativeSave
  <2> DEFINE a == Alert(kind, c.handle, c.token)
  <2>3. /\ c \in ACommand /\ c = commands[1] /\ 1 \in DOMAIN commands
        /\ \A i \in DOMAIN commands' : i + 1 \in DOMAIN commands /\ commands'[i] = commands[i + 1]
        /\ \A i \in DOMAIN commands : i # 1 => i - 1 \in DOMAIN commands' /\ i \in Nat
    BY <1>0, <2>1, TailFacts
  <2>4. c.handle \in 0..MaxAdds /\ c.token \in 0..MaxRequests
    BY <2>3, <1>1 DEF ACommand
  <2>5. alerts' = alerts \/ alerts' = Append(alerts, a)
    BY <1>0, <2>2, <2>4, KindsAre, PostFacts
  <2>6. a \in AnAlert /\ a.kind # "removed" /\ a.handle = c.handle
    BY <2>4, KindsAre DEF Alert, AnAlert, Answers
  <2>7. \A i \in DOMAIN alerts' : \/ i \in DOMAIN alerts /\ alerts'[i] = alerts[i]
                                  \/ i = Len(alerts) + 1 /\ alerts'[i] = a
    BY <1>0, <2>5, <2>6, AppendFacts
  <2> HIDE DEF a, c
  <2>8. \A h : Removing(h)' => Removing(h)
    BY <2>1, <2>3, <2>6, <2>7 DEF Removing
  <2>9. \A i \in DOMAIN commands : commands[i].op = "remove" => \E j \in DOMAIN commands' : commands'[j] = commands[i]
    <3> SUFFICES ASSUME NEW i \in DOMAIN commands, commands[i].op = "remove"
                 PROVE  \E j \in DOMAIN commands' : commands'[j] = commands[i]
      OBVIOUS
    <3>1. i # 1
      BY <2>1, <2>3 DEF c
    <3>2. i - 1 \in DOMAIN commands' /\ i \in Nat
      BY <2>3, <3>1
    <3>3. commands'[i - 1] = commands[(i - 1) + 1] /\ (i - 1) + 1 = i
      BY <2>3, <3>2
    <3> QED
      BY <3>2, <3>3
  <2>10. c.handle < nextHandle /\ \A i \in DOMAIN commands' : commands'[i].handle < nextHandle
    BY <2>3 DEF RecordsInv
  <2>11. RecordsInv'
    BY <1>2, <2>1, <2>5, <2>6, <2>8, <2>9, <2>10, RecordsNative
  <2>12. RemovalsOnce'
    BY <1>0, <2>1, <2>5, <2>6, RemovalsPost
  <2> QED
    BY <2>11, <2>12
<1>4. CASE NativeRemove
  <2> DEFINE c == Head(commands)
             a == Alert("removed", c.handle, None)
  <2>1. /\ commands' = Tail(commands) /\ commands # <<>> /\ c.op = "remove"
        /\ swarm' = [x \in Content |-> IF swarm[x] = c.handle THEN None ELSE swarm[x]]
        /\ \/ Post("removed", c.handle, None) /\ stopping' = stopping
           \/ stopping' = stopping \cup {c.handle} /\ alerts' = alerts
    BY <1>4 DEF NativeRemove, queue
  <2>3. /\ c \in ACommand /\ c = commands[1] /\ 1 \in DOMAIN commands
        /\ \A i \in DOMAIN commands' : i + 1 \in DOMAIN commands /\ commands'[i] = commands[i + 1] /\ i \in Nat \ {0}
        /\ \A i \in DOMAIN commands : i # 1 => i - 1 \in DOMAIN commands' /\ i \in Nat
    BY <1>0, <2>1, TailFacts
  <2>4. c.handle \in Handle
    BY <2>3 DEF ACommand
  <2>5. alerts' = alerts \/ (stopping' = stopping /\ alerts' = Append(alerts, a))
    BY <1>0, <1>1, <2>1, <2>4, KindsAre, PostFacts
  <2>6. a \in AnAlert /\ a.kind = "removed" /\ a.handle = c.handle
    BY <1>1, <2>4, KindsAre DEF Alert, AnAlert
  <2>7. \A i \in DOMAIN alerts' : \/ i \in DOMAIN alerts /\ alerts'[i] = alerts[i]
                                  \/ i = Len(alerts) + 1 /\ alerts'[i] = a
    BY <1>0, <2>5, <2>6, AppendFacts
  <2>13. commands[1].op = "remove" /\ commands[1].handle = c.handle
    BY <2>1, <2>3
  <2> HIDE DEF a, c
  <2>8. \A h : Removing(h)' => Removing(h)
    BY <2>1, <2>3, <2>6, <2>7, <2>13 DEF Removing
  <2>9. \A i \in DOMAIN commands : commands[i].handle # c.handle => \E j \in DOMAIN commands' : commands'[j] = commands[i]
    <3> SUFFICES ASSUME NEW i \in DOMAIN commands, commands[i].handle # c.handle
                 PROVE  \E j \in DOMAIN commands' : commands'[j] = commands[i]
      OBVIOUS
    <3>1. i # 1
      BY <2>13
    <3>2. i - 1 \in DOMAIN commands' /\ i \in Nat
      BY <2>3, <3>1
    <3>3. commands'[i - 1] = commands[(i - 1) + 1] /\ (i - 1) + 1 = i
      BY <2>3, <3>2
    <3> QED
      BY <3>2, <3>3
  <2>10. c.handle < nextHandle /\ \A i \in DOMAIN commands' : commands'[i].handle < nextHandle
    BY <2>3 DEF RecordsInv
  <2>14. \A x \in Content : swarm'[x] # None => swarm'[x] = swarm[x] /\ swarm[x] # c.handle
    BY <2>1
  <2>15. a.handle # None
    BY <2>4, <2>6, LimitsAreNatural DEF Handle, None
  <2>11. RecordsInv'
    BY <1>2, <2>5, <2>6, <2>8, <2>9, <2>10, <2>14, <2>15, RecordsNative
  <2>12. RemovalsOnce'
    <3>1. CASE stopping' = stopping \cup {c.handle} /\ alerts' = alerts
      BY <1>0, <2>1, <2>13, <3>1, RemovalsStopping
    <3>2. CASE stopping' = stopping
      <4>1. /\ c.handle \notin stopping'
            /\ \A i \in DOMAIN alerts : alerts[i].kind = "removed" => alerts[i].handle # c.handle
        BY <2>3, <2>13, <3>2 DEF RemovalsOnce
      <4>2. \A i \in DOMAIN commands' : commands'[i].op = "remove" => commands'[i].handle # c.handle
        <5> SUFFICES ASSUME NEW i \in DOMAIN commands', commands'[i].op = "remove",
                            commands'[i].handle = c.handle
                     PROVE  FALSE
          OBVIOUS
        <5>1. i + 1 = 1
          BY <2>3, <2>13 DEF RemovalsOnce
        <5> QED
          BY <2>3, <5>1
      <4> QED
        BY <1>0, <2>1, <2>5, <2>6, <3>2, <4>1, <4>2, RemovalsPost
    <3> QED
      BY <2>1, <3>1, <3>2
  <2> QED
    BY <2>11, <2>12
<1>5. CASE NativeStopped
  <2>1. PICK h \in stopping : stopping' = stopping \ {h} /\ Post("removed", h, None)
    BY <1>5 DEF NativeStopped
  <2>2. h \in Handle /\ commands' = commands /\ swarm' = swarm
    BY <1>0, <1>5 DEF NativeStopped
  <2> DEFINE a == Alert("removed", h, None)
  <2>5. alerts' = alerts \/ alerts' = Append(alerts, a)
    BY <1>0, <1>1, <2>1, <2>2, KindsAre, PostFacts
  <2>6. a \in AnAlert /\ a.kind = "removed" /\ a.handle = h
    BY <1>1, <2>2, KindsAre DEF Alert, AnAlert
  <2>7. \A i \in DOMAIN alerts' : \/ i \in DOMAIN alerts /\ alerts'[i] = alerts[i]
                                  \/ i = Len(alerts) + 1 /\ alerts'[i] = a
    BY <1>0, <2>5, <2>6, AppendFacts
  <2> HIDE DEF a
  <2>8. \A g : Removing(g)' => Removing(g)
    BY <2>1, <2>2, <2>6, <2>7 DEF Removing
  <2>9. h < nextHandle /\ h # None
    BY <2>1, <2>2, LimitsAreNatural DEF RecordsInv, Removing, Handle, None
  <2>10. \A i \in DOMAIN commands' : commands'[i].handle < nextHandle
    BY <2>2 DEF RecordsInv
  <2>11. RecordsInv'
    BY <1>2, <2>2, <2>5, <2>6, <2>8, <2>9, <2>10, RecordsNative
  <2>12. RemovalsOnce'
    <3>1. /\ h \notin stopping'
          /\ \A i \in DOMAIN alerts : alerts[i].kind = "removed" => alerts[i].handle # h
          /\ \A i \in DOMAIN commands' : commands'[i].op = "remove" => commands'[i].handle # h
      BY <2>1, <2>2 DEF RemovalsOnce
    <3> QED
      BY <1>0, <2>1, <2>2, <2>5, <2>6, <3>1, RemovalsPost
  <2> QED
    BY <2>11, <2>12
<1>6. CASE NativeNotice
  <2>1. PICK h \in 0..(nextHandle - 1) : Post("notice", h, None)
    BY <1>6 DEF NativeNotice
  <2>2. commands' = commands /\ swarm' = swarm /\ stopping' = stopping /\ h \in 0..MaxAdds /\ h < nextHandle
    BY <1>0, <1>6 DEF NativeNotice
  <2> DEFINE a == Alert("notice", h, None)
  <2>5. alerts' = alerts \/ alerts' = Append(alerts, a)
    BY <1>0, <1>1, <2>1, <2>2, KindsAre, PostFacts
  <2>6. a \in AnAlert /\ a.kind # "removed" /\ a.handle = h
    BY <1>1, <2>2, KindsAre DEF Alert, AnAlert
  <2>7. \A i \in DOMAIN alerts' : \/ i \in DOMAIN alerts /\ alerts'[i] = alerts[i]
                                  \/ i = Len(alerts) + 1 /\ alerts'[i] = a
    BY <1>0, <2>5, <2>6, AppendFacts
  <2> HIDE DEF a
  <2>8. \A g : Removing(g)' => Removing(g)
    BY <2>2, <2>6, <2>7 DEF Removing
  <2>10. \A i \in DOMAIN commands' : commands'[i].handle < nextHandle
    BY <2>2 DEF RecordsInv
  <2>11. RecordsInv'
    BY <1>2, <2>2, <2>5, <2>6, <2>8, <2>10, RecordsNative
  <2>12. RemovalsOnce'
    BY <1>0, <2>2, <2>5, <2>6, RemovalsPost
  <2> QED
    BY <2>11, <2>12
<1> QED
  BY <1>3, <1>4, <1>5, <1>6
-----------------------------------------------------------------------------
(* Torrents and their removals: the facade's calls *)

LEMMA RecordsInit == Init => RecordsInv /\ RemovalsOnce
<1> SUFFICES ASSUME Init PROVE RecordsInv /\ RemovalsOnce
  OBVIOUS
<1>1. RemovalsOnce
  BY RemovalsInit DEF Init
<1>2. \A h \in Handle : issued[h] = None /\ ~Removing(h)
  BY NothingIn DEF Init, Removing
<1>3. \A c \in Content : swarm[c] = None
  BY DEF Init
<1>4. DOMAIN commands = {} /\ DOMAIN alerts = {} /\ DOMAIN backlog = {} /\ torrents = {} /\ nextTorrent = nextHandle
  BY NothingIn DEF Init
<1> QED
  BY <1>1, <1>2, <1>3, <1>4 DEF RecordsInv

LEMMA PartTypes ==
  ASSUME ShapeInv
  PROVE  /\ \A i \in DOMAIN alerts : alerts[i].handle \in Nat /\ alerts[i].token \in 0..MaxRequests
         /\ \A i \in DOMAIN backlog : backlog[i].handle \in Nat
         /\ \A i \in DOMAIN commands : commands[i].handle \in Handle /\ commands[i].token \in 0..MaxRequests
         /\ \A t \in torrents : t.handle \in Handle /\ t.handle \in Nat /\ t.id \in Nat
<1>1. /\ \A i \in DOMAIN alerts : alerts[i] \in AnAlert
      /\ \A i \in DOMAIN backlog : backlog[i] \in ASnapshot
      /\ \A i \in DOMAIN commands : commands[i] \in ACommand
      /\ \A t \in torrents : t \in ATorrent
  BY DEF ShapeInv
<1>2. 0..MaxAdds \subseteq Nat /\ Handle \subseteq Nat /\ 1..MaxAdds \subseteq Nat
  BY LimitsAreNatural DEF Handle
<1>3. \A i \in DOMAIN alerts : alerts[i].handle \in 0..MaxAdds /\ alerts[i].token \in 0..MaxRequests
  BY <1>1 DEF AnAlert
<1>4. \A i \in DOMAIN backlog : backlog[i].handle \in 0..MaxAdds
  BY <1>1 DEF ASnapshot
<1>5. \A i \in DOMAIN commands : commands[i].handle \in Handle /\ commands[i].token \in 0..MaxRequests
  BY <1>1 DEF ACommand
<1>6. \A t \in torrents : t.handle \in Handle /\ t.id \in 1..MaxAdds
  BY <1>1 DEF ATorrent
<1> QED
  BY <1>2, <1>3, <1>4, <1>5, <1>6

LEMMA RecordsAdd ==
  ASSUME ShapeInv, RecordsInv, RemovalsOnce, NEW c \in Content, Add(c)
  PROVE  RecordsInv' /\ RemovalsOnce'
<1> DEFINE record == [id |-> nextTorrent, handle |-> nextHandle, active |-> TRUE]
           command == [op |-> "remove", handle |-> nextHandle, token |-> None]
<1>1. /\ ShapeInv' /\ swarm' = [swarm EXCEPT ![c] = nextHandle]
      /\ nextHandle \in Handle /\ commands = <<>>
      /\ nextHandle' = nextHandle + 1 /\ nextTorrent' = nextTorrent + 1
      /\ \/ /\ torrents' = torrents \cup {record}
            /\ issued' = [issued EXCEPT ![nextHandle] = nextTorrent]
            /\ commands' = commands
         \/ /\ commands' = Append(commands, command)
            /\ torrents' = torrents /\ issued' = issued
      /\ alerts' = alerts /\ stopping' = stopping /\ backlog' = backlog
  BY ShapeAdd DEF queue
<1>2. /\ nextHandle \in Nat /\ nextTorrent = nextHandle /\ nextHandle # None
      /\ swarm \in [Content -> 0..MaxAdds] /\ issued \in [Handle -> TorrentIds]
      /\ commands \in Seq(ACommand) /\ Handle \subseteq Nat
      /\ \A t \in torrents : t.handle \in Handle /\ t.id \in Nat
  <2>1. \A t \in torrents : t.handle \in Handle /\ t.id \in Nat
    BY PartTypes
  <2>2. nextHandle \in Nat /\ nextHandle # None /\ Handle \subseteq Nat
    BY <1>1, LimitsAreNatural DEF Handle, None
  <2>3. swarm \in [Content -> 0..MaxAdds] /\ issued \in [Handle -> TorrentIds] /\ commands \in Seq(ACommand)
    BY DEF ShapeInv
  <2>4. nextTorrent = nextHandle
    BY DEF RecordsInv
  <2> QED
    BY <2>1, <2>2, <2>3, <2>4
<1>3. /\ record.id = nextTorrent /\ record.handle = nextHandle /\ record.active
      /\ command.op = "remove" /\ command.handle = nextHandle /\ command \in ACommand
  BY <1>1, LimitsAreNatural DEF ACommand, None
<1>4. ~Removing(nextHandle)
  BY <1>1, <1>2 DEF RecordsInv
<1>5. DOMAIN commands = {}
  BY <1>1, NothingIn
<1>6. /\ \A x \in Content : swarm'[x] = IF x = c THEN nextHandle ELSE swarm[x]
      /\ \A h \in Handle : [issued EXCEPT ![nextHandle] = nextTorrent][h] = IF h = nextHandle THEN nextTorrent ELSE issued[h]
  BY <1>1, <1>2
<1> HIDE DEF record, command
<1>7. CASE /\ torrents' = torrents \cup {record}
           /\ issued' = [issued EXCEPT ![nextHandle] = nextTorrent]
           /\ commands' = commands
  <2>1. RemovalsOnce'
    BY <1>1, <1>7 DEF RemovalsOnce
  <2>2. \A h : Removing(h)' <=> Removing(h)
    BY <1>1, <1>7 DEF Removing
  <2>3. \A t \in torrents' :
          /\ t.handle < nextHandle' /\ t.id = issued'[t.handle] /\ t.id < nextTorrent'
          /\ t.active => ~Removing(t.handle)
    <3>1. \A t \in torrents :
             /\ t.handle < nextHandle /\ t.id = issued[t.handle] /\ t.id < nextTorrent
             /\ t.active => ~Removing(t.handle)
             /\ t.handle \in Handle /\ t.handle \in Nat /\ t.id \in Nat
      BY <1>2 DEF RecordsInv
    <3>2. \A t \in torrents : issued'[t.handle] = issued[t.handle]
      BY <1>2, <1>6, <1>7, <3>1
    <3>3. record.id = issued'[record.handle]
      BY <1>1, <1>3, <1>6, <1>7
    <3>4. nextTorrent \in Nat
      BY <1>2
    <3> QED
      BY <1>1, <1>2, <1>3, <1>4, <1>7, <3>1, <3>2, <3>3, <3>4
  <2>4. \A t, u \in torrents' : t.handle = u.handle \/ t.id = u.id => t = u
    BY <1>2, <1>3, <1>7 DEF RecordsInv
  <2>5. \A h \in Handle :
          /\ h >= nextHandle' => issued'[h] = None
          /\ issued'[h] # None /\ (\A t \in torrents' : t.handle # h) => ~Removing(h)
          /\ Removing(h) => h < nextHandle'
    <3> SUFFICES ASSUME NEW h \in Handle
                 PROVE  /\ h >= nextHandle' => issued'[h] = None
                        /\ issued'[h] # None /\ (\A t \in torrents' : t.handle # h) => ~Removing(h)
                        /\ Removing(h) => h < nextHandle'
      OBVIOUS
    <3>1. h \in Nat
      BY <1>2
    <3>2. CASE h = nextHandle
      BY <1>1, <1>2, <1>3, <1>4, <3>2
    <3>3. CASE h # nextHandle
      <4>1. issued'[h] = issued[h]
        BY <1>6, <1>7, <3>3
      <4>2. /\ h >= nextHandle => issued[h] = None
            /\ issued[h] # None /\ (\A t \in torrents : t.handle # h) => ~Removing(h)
            /\ Removing(h) => h < nextHandle
        BY DEF RecordsInv
      <4> QED
        BY <1>1, <1>2, <1>7, <3>1, <3>3, <4>1, <4>2
    <3> QED
      BY <3>2, <3>3
  <2>6. /\ \A i \in DOMAIN commands' : commands'[i].handle < nextHandle'
        /\ \A i \in DOMAIN alerts' : alerts'[i].handle < nextHandle'
        /\ \A i \in DOMAIN alerts' : alerts'[i].kind = "removed" => alerts'[i].handle # None
        /\ \A i \in DOMAIN backlog' : backlog'[i].handle < nextHandle'
    <3>1. /\ \A i \in DOMAIN alerts : alerts[i].handle \in Nat
          /\ \A i \in DOMAIN backlog : backlog[i].handle \in Nat
      BY PartTypes
    <3> QED
      BY <1>1, <1>2, <1>5, <1>7, <3>1 DEF RecordsInv
  <2>7. \A x \in Content : swarm'[x] # None =>
           \/ \E t \in torrents' : t.active /\ t.handle = swarm'[x]
           \/ \E i \in DOMAIN commands' : commands'[i].op = "remove" /\ commands'[i].handle = swarm'[x]
    BY <1>3, <1>6, <1>7 DEF RecordsInv, Existing
  <2>8. nextTorrent' = nextHandle'
    BY <1>1, <1>2
  <2> QED
    BY <2>1, <2>2, <2>3, <2>4, <2>5, <2>6, <2>7, <2>8 DEF RecordsInv, Existing
<1>8. CASE /\ commands' = Append(commands, command)
           /\ torrents' = torrents /\ issued' = issued
  <2>1. RemovalsOnce'
    BY <1>1, <1>2, <1>3, <1>4, <1>8, RemovalsAsked
  <2>2. \A i \in DOMAIN commands' : \/ i \in DOMAIN commands /\ commands'[i] = commands[i]
                                    \/ i = Len(commands) + 1 /\ commands'[i] = command
    BY <1>2, <1>3, <1>8, AppendFacts
  <2>9. Len(commands) + 1 \in DOMAIN commands' /\ commands'[Len(commands) + 1] = command
    BY <1>2, <1>3, <1>8, AppendFacts
  <2>3. \A h : Removing(h)' => Removing(h) \/ h = nextHandle
    BY <1>1, <1>3, <2>2 DEF Removing
  <2>4. \A t \in torrents :
          /\ t.handle < nextHandle' /\ t.id < nextTorrent' /\ t.handle # nextHandle
          /\ t.active => ~Removing(t.handle)'
    <3>1. \A t \in torrents : /\ t.handle < nextHandle /\ t.id < nextTorrent /\ t.handle \in Nat
                              /\ t.active => ~Removing(t.handle)
      BY <1>2 DEF RecordsInv
    <3>2. \A t \in torrents : t.handle # nextHandle
      BY <1>2, <3>1
    <3> QED
      BY <1>1, <1>2, <2>3, <3>1, <3>2
  <2>5. \A h \in Handle :
          /\ h >= nextHandle' => issued[h] = None
          /\ issued[h] # None /\ (\A t \in torrents : t.handle # h) => ~Removing(h)'
          /\ Removing(h)' => h < nextHandle'
    <3>1. \A h \in Handle :
             /\ h >= nextHandle => issued[h] = None
             /\ issued[h] # None /\ (\A t \in torrents : t.handle # h) => ~Removing(h)
             /\ Removing(h) => h < nextHandle
      BY DEF RecordsInv
    <3>2. issued[nextHandle] = None
      BY <1>1, <1>2, <3>1
    <3>3. \A h \in Handle : h \in Nat
      BY <1>2
    <3> QED
      BY <1>1, <1>2, <2>3, <3>1, <3>2, <3>3
  <2>6. /\ \A i \in DOMAIN commands' : commands'[i].handle < nextHandle'
        /\ \A i \in DOMAIN alerts' : alerts'[i].handle < nextHandle'
        /\ \A i \in DOMAIN alerts' : alerts'[i].kind = "removed" => alerts'[i].handle # None
        /\ \A i \in DOMAIN backlog' : backlog'[i].handle < nextHandle'
    <3>1. /\ \A i \in DOMAIN alerts : alerts[i].handle \in Nat
          /\ \A i \in DOMAIN backlog : backlog[i].handle \in Nat
      BY PartTypes
    <3> QED
      BY <1>1, <1>2, <1>3, <1>5, <2>2, <3>1 DEF RecordsInv
  <2>7. \A x \in Content : swarm'[x] # None =>
           \/ \E t \in torrents' : t.active /\ t.handle = swarm'[x]
           \/ \E i \in DOMAIN commands' : commands'[i].op = "remove" /\ commands'[i].handle = swarm'[x]
    BY <1>3, <1>5, <1>6, <1>8, <2>9 DEF RecordsInv, Existing
  <2>8. nextTorrent' = nextHandle'
    BY <1>1, <1>2
  <2> QED
    BY <1>8, <2>1, <2>4, <2>5, <2>6, <2>7, <2>8 DEF RecordsInv, Existing
<1> QED
  BY <1>1, <1>7, <1>8

\* The handle of a record that turns inactive is the one a removal is asked for.
LEMMA RecordsRemove ==
  ASSUME ShapeInv, RecordsInv, RemovalsOnce, NEW id, RemoveTorrent(id)
  PROVE  RecordsInv' /\ RemovalsOnce'
<1>1. PICK t \in FindTorrent(id) :
         /\ Enqueue("remove", t.handle, None)
         /\ torrents' = (torrents \ {t}) \cup {[t EXCEPT !.active = FALSE]}
  BY DEF RemoveTorrent
<1> DEFINE u == [t EXCEPT !.active = FALSE]
           command == [op |-> "remove", handle |-> t.handle, token |-> None]
<1>2. /\ t \in torrents /\ t.active /\ t \in ATorrent /\ t.handle \in Handle
      /\ u.id = t.id /\ u.handle = t.handle /\ u.active = FALSE
  BY DEF FindTorrent, ShapeInv, ATorrent
<1>3. /\ command.op = "remove" /\ command.handle = t.handle /\ command \in ACommand
      /\ commands \in Seq(ACommand) /\ commands' = Append(commands, command)
  BY <1>1, <1>2, LimitsAreNatural DEF ACommand, None, Enqueue, ShapeInv
<1>4. UNCHANGED <<nextTorrent, nextHandle, issued, alerts, stopping, backlog, swarm>>
  BY DEF RemoveTorrent, queue, history
<1>5. ~Removing(t.handle) /\ t.handle < nextHandle
  BY <1>2 DEF RecordsInv
<1> HIDE DEF u, command
<1>6. torrents' = (torrents \ {t}) \cup {u}
  BY <1>1 DEF u
<1>7. RemovalsOnce'
  BY <1>3, <1>4, <1>5, RemovalsAsked
<1>8. /\ \A i \in DOMAIN commands' : \/ i \in DOMAIN commands /\ commands'[i] = commands[i]
                                     \/ i = Len(commands) + 1 /\ commands'[i] = command
      /\ \A i \in DOMAIN commands : i \in DOMAIN commands' /\ commands'[i] = commands[i]
      /\ Len(commands) + 1 \in DOMAIN commands' /\ commands'[Len(commands) + 1] = command
  BY <1>3, AppendFacts
<1>9. \A h : Removing(h)' => Removing(h) \/ h = t.handle
  BY <1>3, <1>4, <1>8 DEF Removing
<1>10. \A v \in torrents' :
          /\ v.handle < nextHandle /\ v.id = issued[v.handle] /\ v.id < nextTorrent
          /\ v.active => ~Removing(v.handle)'
  BY <1>2, <1>6, <1>9 DEF RecordsInv
<1>11. \A v, w \in torrents' : v.handle = w.handle \/ v.id = w.id => v = w
  BY <1>2, <1>6 DEF RecordsInv
<1>12. \A h \in Handle :
          /\ issued[h] # None /\ (\A v \in torrents' : v.handle # h) => ~Removing(h)'
          /\ Removing(h)' => h < nextHandle
  <2>1. \A h : (\A v \in torrents' : v.handle # h) => h # t.handle /\ (\A v \in torrents : v.handle # h)
    BY <1>2, <1>6
  <2> QED
    BY <1>5, <1>9, <2>1 DEF RecordsInv
<1>13. \A i \in DOMAIN commands' : commands'[i].handle < nextHandle
  BY <1>3, <1>5, <1>8 DEF RecordsInv
<1>14. \A x \in Content : swarm[x] # None =>
          \/ \E v \in torrents' : v.active /\ v.handle = swarm[x]
          \/ \E i \in DOMAIN commands' : commands'[i].op = "remove" /\ commands'[i].handle = swarm[x]
  <2> SUFFICES ASSUME NEW x \in Content, swarm[x] # None
               PROVE  \/ \E v \in torrents' : v.active /\ v.handle = swarm[x]
                      \/ \E i \in DOMAIN commands' : commands'[i].op = "remove" /\ commands'[i].handle = swarm[x]
    OBVIOUS
  <2>1. CASE swarm[x] = t.handle
    BY <1>3, <1>8, <2>1
  <2>2. CASE swarm[x] # t.handle
    <3>1. \/ \E v \in torrents : v.active /\ v.handle = swarm[x]
          \/ \E i \in DOMAIN commands : commands[i].op = "remove" /\ commands[i].handle = swarm[x]
      BY DEF RecordsInv, Existing
    <3> QED
      BY <1>6, <1>8, <2>2, <3>1
  <2> QED
    BY <2>1, <2>2
<1>15. /\ \A h \in Handle : h >= nextHandle => issued[h] = None
       /\ \A i \in DOMAIN alerts : alerts[i].handle < nextHandle
       /\ \A i \in DOMAIN alerts : alerts[i].kind = "removed" => alerts[i].handle # None
       /\ \A i \in DOMAIN backlog : backlog[i].handle < nextHandle
       /\ nextTorrent = nextHandle
  BY DEF RecordsInv
<1> QED
  BY <1>4, <1>7, <1>10, <1>11, <1>12, <1>13, <1>14, <1>15 DEF RecordsInv, Existing

\* What is told of here is told of for the last time: the record can go.
LEMMA RecordsDrain ==
  ASSUME ShapeInv, RecordsInv, RemovalsOnce, BacklogIsNewest,
         Drain, answered' \in [Token -> 0..MaxRequests]
  PROVE  RecordsInv' /\ RemovalsOnce'
<1>1. /\ commands' = commands /\ alerts' = <<>> /\ stopping' = stopping /\ swarm' = swarm
      /\ nextHandle' = nextHandle /\ nextTorrent' = nextTorrent /\ issued' = issued
      /\ torrents' = {t \in torrents : t.active \/ t.id \notin CompletedRemovals}
  BY DEF Drain, ProcessAlerts, native
<1>2. DOMAIN alerts' = {}
  BY <1>1, NothingIn
<1>3. RemovalsOnce'
  BY <1>1, <1>2 DEF RemovalsOnce
<1>4. \A h : Removing(h)' => /\ Removing(h)
                            /\ \A i \in DOMAIN alerts : alerts[i].kind = "removed" => alerts[i].handle # h
  BY <1>1, <1>2 DEF Removing, RemovalsOnce
<1>5. \A t \in torrents : t \notin torrents' =>
         \E i \in DOMAIN alerts : alerts[i].kind = "removed" /\ alerts[i].handle = t.handle
  <2> SUFFICES ASSUME NEW t \in torrents, t \notin torrents'
               PROVE  \E i \in DOMAIN alerts : alerts[i].kind = "removed" /\ alerts[i].handle = t.handle
    OBVIOUS
  <2>1. t.id \in CompletedRemovals
    BY <1>1
  <2>2. PICK i \in DOMAIN Popped : Popped[i].kind = "removed" /\ t.id = TorrentIdForHandle(Popped[i].handle)
    BY <2>1 DEF CompletedRemovals
  <2>3. i \in DOMAIN alerts /\ Popped[i] = alerts[i]
    BY <2>2, PoppedFacts
  <2>4. t.id # None
    BY LimitsAreNatural DEF ShapeInv, ATorrent, None
  <2>5. PICK u \in torrents : u.handle = Popped[i].handle /\ t.id = u.id
    BY <2>2, <2>4, IdForHandle
  <2>6. u = t
    BY <2>5 DEF RecordsInv
  <2> QED
    BY <2>2, <2>3, <2>5, <2>6
<1>6. \A h \in Handle :
         /\ issued[h] # None /\ (\A t \in torrents' : t.handle # h) => ~Removing(h)'
         /\ Removing(h)' => h < nextHandle
  <2> SUFFICES ASSUME NEW h \in Handle, Removing(h)'
               PROVE  /\ ~(issued[h] # None /\ \A t \in torrents' : t.handle # h)
                      /\ h < nextHandle
    OBVIOUS
  <2>1. h < nextHandle /\ Removing(h)
    BY <1>4 DEF RecordsInv
  <2>2. issued[h] # None => \E t \in torrents : t.handle = h
    BY <2>1 DEF RecordsInv
  <2>3. \A t \in torrents : t.handle = h => t \in torrents'
    BY <1>4, <1>5
  <2> QED
    BY <2>1, <2>2, <2>3
<1>7. \A i \in DOMAIN backlog' : backlog'[i].handle < nextHandle
  <2>1. \A i \in DOMAIN Popped : Snapshots[i].handle < nextHandle
    <3>1. \A i \in DOMAIN Popped : Popped[i].handle < nextHandle
      <4>1. None < nextHandle
        BY LimitsAreNatural DEF ShapeInv, None
      <4> QED
        BY <4>1, PoppedFacts DEF RecordsInv
    <3> QED
      BY <3>1, SnapshotsFacts
  <2>2. \A i \in DOMAIN backlog : backlog[i].handle < nextHandle
    BY DEF RecordsInv
  <2>3. \A i \in DOMAIN backlog' : \/ \E j \in DOMAIN backlog : backlog'[i] = backlog[j]
                                  \/ \E j \in DOMAIN Popped : backlog'[i] = Snapshots[j]
    BY ShapeDrain
  <2> QED
    BY <2>1, <2>2, <2>3
<1>8. \A x \in Content : swarm[x] # None =>
          \/ \E t \in torrents' : t.active /\ t.handle = swarm[x]
          \/ \E i \in DOMAIN commands : commands[i].op = "remove" /\ commands[i].handle = swarm[x]
  BY <1>1 DEF RecordsInv, Existing
<1>9. /\ \A t \in torrents' : /\ t.handle < nextHandle /\ t.id = issued[t.handle] /\ t.id < nextTorrent
                               /\ t.active => ~Removing(t.handle)'
      /\ \A t, u \in torrents' : t.handle = u.handle \/ t.id = u.id => t = u
  BY <1>1, <1>4 DEF RecordsInv
<1>10. /\ nextTorrent = nextHandle
       /\ \A h \in Handle : h >= nextHandle => issued[h] = None
       /\ \A i \in DOMAIN commands : commands[i].handle < nextHandle
  BY DEF RecordsInv
<1> QED
  BY <1>1, <1>2, <1>3, <1>6, <1>7, <1>8, <1>9, <1>10 DEF RecordsInv, Existing

LEMMA RecordsSave ==
  ASSUME ShapeInv, RecordsInv, RemovalsOnce, NEW id, SaveResumeData(id)
  PROVE  RecordsInv' /\ RemovalsOnce'
<1>1. PICK t \in torrents :
         \/ commands' = Append(commands, [op |-> "save", handle |-> t.handle, token |-> nextRequest])
         \/ commands' = commands
  BY ShapeSave
<1>2. UNCHANGED <<nextTorrent, torrents, backlog, swarm, nextHandle, stopping, alerts, issued>>
  BY ShapeSave DEF queue
<1>3. CASE commands' = commands
  BY <1>2, <1>3 DEF RecordsInv, RemovalsOnce, Removing, Existing
<1>4. CASE commands' = Append(commands, [op |-> "save", handle |-> t.handle, token |-> nextRequest])
  <2> DEFINE c == [op |-> "save", handle |-> t.handle, token |-> nextRequest]
  <2>1. c \in ACommand /\ c.op # "remove" /\ c.handle = t.handle
    <3>1. nextRequest \in 0..MaxRequests
      BY ShapeSave, LimitsAreNatural DEF Token
    <3> QED
      BY <3>1, PartTypes DEF ACommand
  <2>2. commands \in Seq(ACommand)
    BY DEF ShapeInv
  <2> HIDE DEF c
  <2>3. commands' = Append(commands, c)
    BY <1>4 DEF c
  <2>4. RemovalsOnce'
    BY <1>2, <2>1, <2>2, <2>3, RemovalsAsked
  <2>5. /\ \A i \in DOMAIN commands' : \/ i \in DOMAIN commands /\ commands'[i] = commands[i]
                                       \/ commands'[i] = c
        /\ \A i \in DOMAIN commands : i \in DOMAIN commands' /\ commands'[i] = commands[i]
    BY <2>1, <2>2, <2>3, AppendFacts
  <2>6. \A h : Removing(h)' <=> Removing(h)
    BY <1>2, <2>1, <2>5 DEF Removing
  <2>7. \A i \in DOMAIN commands' : commands'[i].handle < nextHandle
    BY <2>1, <2>5 DEF RecordsInv
  <2>8. \A x \in Content : swarm[x] # None =>
            \/ \E v \in torrents : v.active /\ v.handle = swarm[x]
            \/ \E i \in DOMAIN commands' : commands'[i].op = "remove" /\ commands'[i].handle = swarm[x]
    <3> SUFFICES ASSUME NEW x \in Content, swarm[x] # None,
                        ~ \E v \in torrents : v.active /\ v.handle = swarm[x]
                 PROVE  \E i \in DOMAIN commands' : commands'[i].op = "remove" /\ commands'[i].handle = swarm[x]
      OBVIOUS
    <3>1. PICK i \in DOMAIN commands : commands[i].op = "remove" /\ commands[i].handle = swarm[x]
      BY DEF RecordsInv, Existing
    <3> QED
      BY <2>5, <3>1
  <2>9. RecordsInv'
    <3>1. \A v \in torrents : v.active => ~Removing(v.handle)'
      BY <2>6 DEF RecordsInv
    <3>2. \A h \in Handle :
             /\ issued[h] # None /\ (\A v \in torrents : v.handle # h) => ~Removing(h)'
             /\ Removing(h)' => h < nextHandle
      BY <2>6 DEF RecordsInv
    <3> QED
      BY <1>2, <2>7, <2>8, <3>1, <3>2 DEF RecordsInv, Existing
  <2> QED
    BY <2>4, <2>9
<1> QED
  BY <1>1, <1>3, <1>4

LEMMA RecordsShutdown ==
  ASSUME ShapeInv, RecordsInv, ShutdownSession
  PROVE  RecordsInv' /\ RemovalsOnce'
<1>1. /\ DOMAIN commands' = {} /\ DOMAIN alerts' = {} /\ stopping' = {}
      /\ UNCHANGED <<nextTorrent, nextHandle, torrents, issued, backlog>>
      /\ \A x \in Content : swarm'[x] = None
  BY NothingIn DEF ShutdownSession, history
<1>2. RemovalsOnce' /\ \A h : ~Removing(h)'
  BY <1>1 DEF RemovalsOnce, Removing
<1> QED
  BY <1>1, <1>2 DEF RecordsInv, Existing

-----------------------------------------------------------------------------
(* What alerts are called *)

LEMMA NamesDrain ==
  ASSUME ShapeInv, RecordsInv, BacklogIsNewest, AlertsNameTheirTorrent,
         Drain, answered' \in [Token -> 0..MaxRequests]
  PROVE  AlertsNameTheirTorrent'
<1>1. ASSUME NEW i \in DOMAIN Popped, Popped[i].handle # None
      PROVE  \/ Snapshots[i].torrent = issued[Snapshots[i].handle]
             \/ Snapshots[i].torrent = None /\ Snapshots[i].kind # "removed"
  <2>1. /\ Snapshots[i].kind = Popped[i].kind /\ Snapshots[i].handle = Popped[i].handle
        /\ Snapshots[i].torrent = TorrentIdForHandle(Popped[i].handle)
    BY SnapshotsFacts
  <2>2. i \in DOMAIN alerts /\ Popped[i] = alerts[i]
    BY <1>1, PoppedFacts
  <2> DEFINE h == Popped[i].handle
  <2>3. h \in Handle
    <3>1. Popped[i] \in AnAlert
      BY PoppedFacts
    <3>2. Popped[i].handle \in 0..MaxAdds
      BY <3>1 DEF AnAlert
    <3> QED
      BY <1>1, <3>2, LimitsAreNatural DEF Handle, None
  <2>4. CASE \E t \in torrents : t.handle = h /\ TorrentIdForHandle(h) = t.id
    BY <2>1, <2>4 DEF RecordsInv
  <2>5. CASE TorrentIdForHandle(h) = None /\ \A t \in torrents : t.handle # h
    <3>1. CASE Popped[i].kind = "removed"
      <4>1. Removing(h)
        BY <2>2, <3>1 DEF Removing
      <4>2. issued[h] = None
        BY <2>3, <2>5, <4>1 DEF RecordsInv
      <4> QED
        BY <2>1, <2>5, <4>2
    <3>2. CASE Popped[i].kind # "removed"
      BY <2>1, <2>5, <3>2
    <3> QED
      BY <3>1, <3>2
  <2> QED
    BY <2>4, <2>5, IdForHandle
<1>2. \A i \in DOMAIN Popped : Snapshots[i].handle = Popped[i].handle
  BY SnapshotsFacts
<1>3. \A i \in DOMAIN backlog' : \/ \E j \in DOMAIN backlog : backlog'[i] = backlog[j]
                                \/ \E j \in DOMAIN Popped : backlog'[i] = Snapshots[j]
  BY ShapeDrain
<1>4. issued' = issued
  BY DEF Drain
<1> QED
  BY <1>1, <1>2, <1>3, <1>4 DEF AlertsNameTheirTorrent

\* A handle that is told of was handed out before: its ID does not change.
LEMMA NamesAdd ==
  ASSUME ShapeInv, RecordsInv, AlertsNameTheirTorrent, NEW c \in Content, Add(c)
  PROVE  AlertsNameTheirTorrent'
<1>1. /\ backlog' = backlog /\ nextHandle \in Handle
      /\ issued' = issued \/ issued' = [issued EXCEPT ![nextHandle] = nextTorrent]
  BY ShapeAdd
<1>2. \A i \in DOMAIN backlog : issued'[backlog[i].handle] = issued[backlog[i].handle] \/ backlog[i].handle = None
  <2> SUFFICES ASSUME NEW i \in DOMAIN backlog, backlog[i].handle # None
               PROVE  issued'[backlog[i].handle] = issued[backlog[i].handle]
    OBVIOUS
  <2>1. backlog[i].handle < nextHandle /\ backlog[i].handle \in Nat /\ nextHandle \in Nat
    BY PartTypes DEF RecordsInv, ShapeInv
  <2>2. backlog[i].handle # nextHandle
    BY <2>1
  <2>3. issued \in [Handle -> TorrentIds]
    BY DEF ShapeInv
  <2>4. backlog[i].handle \in Handle
    BY <1>1, <2>1, LimitsAreNatural DEF Handle, None
  <2> QED
    BY <1>1, <2>2, <2>3, <2>4
<1> QED
  BY <1>1, <1>2 DEF AlertsNameTheirTorrent

LEMMA NamesKept ==
  ASSUME AlertsNameTheirTorrent, UNCHANGED <<backlog, issued>>
  PROVE  AlertsNameTheirTorrent'
  BY DEF AlertsNameTheirTorrent
-----------------------------------------------------------------------------
(* Requests and their answers *)

\* The positions of a torrent's answers in the alert queue rank like their tokens among
\* all that is outstanding.
LEMMA PositionsAsTokens ==
  ASSUME ShapeInv, InOrder, NEW h, NEW i \in AnswersFor(alerts, h)
  PROVE  /\ alerts[i].token \in Told(h) /\ Told(h) \subseteq Nat /\ Outstanding(h) \subseteq 0..MaxRequests
         /\ Rank(AnswersFor(alerts, h), i) = Rank(Outstanding(h), alerts[i].token)
<1> DEFINE A == AnswersFor(alerts, h)
           O == Outstanding(h)
           low == {j \in A : j <= i}
           told == {o \in O : o <= alerts[i].token}
<1>1. A \subseteq DOMAIN alerts /\ DOMAIN alerts \subseteq Nat /\ A \subseteq Nat
  BY DEF AnswersFor, ShapeInv
<1>2. \A j \in A : IsAnswer(j) /\ alerts[j].token \in 0..MaxRequests /\ alerts[j].token \in Nat
  BY <1>1, PartTypes, LimitsAreNatural DEF AnswersFor, IsAnswer
<1>3. \A j, k \in A : j < k => alerts[j].token < alerts[k].token
  BY <1>1, <1>2 DEF InOrder
<1>4. \A o \in ToTell(h) : alerts[i].token < o /\ o \in 0..MaxRequests
  <2> SUFFICES ASSUME NEW o \in ToTell(h) PROVE alerts[i].token < o /\ o \in 0..MaxRequests
    OBVIOUS
  <2>1. PICK k \in DOMAIN commands : IsSave(k) /\ o = commands[k].token
    BY DEF ToTell
  <2> QED
    BY <1>1, <1>2, <2>1, PartTypes DEF InOrder
<1>5. Told(h) = {alerts[j].token : j \in A}
  BY DEF Told
<1>6. O = Told(h) \cup ToTell(h)
  BY DEF Outstanding
<1>7. IsFiniteSet(low) /\ Rank(A, i) = Cardinality(low)
  BY <1>1, RankNat DEF Rank
<1>8. \A j \in low : alerts[j].token \in told
  <2> SUFFICES ASSUME NEW j \in A, j <= i PROVE alerts[j].token \in O /\ alerts[j].token <= alerts[i].token
    OBVIOUS
  <2>1. j = i \/ j < i
    BY <1>1
  <2> QED
    BY <1>2, <1>3, <1>5, <1>6, <2>1
<1>9. \A o \in told : \E j \in low : alerts[j].token = o
  <2> SUFFICES ASSUME NEW o \in O, o <= alerts[i].token PROVE \E j \in A : j <= i /\ alerts[j].token = o
    OBVIOUS
  <2>1. o \notin ToTell(h)
    <3>1. SUFFICES ASSUME o \in ToTell(h) PROVE FALSE
      OBVIOUS
    <3>2. alerts[i].token < o /\ o \in Nat /\ alerts[i].token \in Nat
      BY <1>2, <1>4, <3>1, LimitsAreNatural
    <3> QED
      BY <3>2
  <2>2. PICK j \in A : alerts[j].token = o
    BY <1>5, <1>6, <2>1
  <2>3. ~(i < j)
    <3>1. SUFFICES ASSUME i < j PROVE FALSE
      OBVIOUS
    <3>2. alerts[i].token < alerts[j].token
      BY <1>3, <3>1
    <3> QED
      BY <1>2, <2>2, <3>2
  <2> QED
    BY <1>1, <2>2, <2>3
<1> DEFINE f == [j \in low |-> alerts[j].token]
<1>10. f \in Bijection(low, told)
  <2>1. f \in [low -> told] /\ DOMAIN f = low
    BY <1>8
  <2>2. \A o \in told : \E j \in low : f[j] = o
    BY <1>9
  <2>3. IsInjective(f)
    <3> SUFFICES ASSUME NEW j \in low, NEW k \in low, alerts[j].token = alerts[k].token PROVE j = k
      BY DEF IsInjective
    <3>1. j \in A /\ k \in A /\ j \in Nat /\ k \in Nat
      BY <1>1
    <3>2. ~(j < k) /\ ~(k < j)
      BY <1>2, <1>3, <3>1
    <3> QED
      BY <3>1, <3>2
  <2> HIDE DEF f, low, told
  <2> QED
    BY <2>1, <2>2, <2>3 DEF Bijection, Injection, Surjection
<1>11. Cardinality(told) = Cardinality(low)
  <2> HIDE DEF f, low, told
  <2> QED
    BY <1>7, <1>10, FS_Bijection DEF ExistsBijection
<1>12. Rank(O, alerts[i].token) = Cardinality(told)
  BY DEF Rank
<1>13. Told(h) \subseteq 0..MaxRequests /\ Told(h) \subseteq Nat /\ ToTell(h) \subseteq 0..MaxRequests
  BY <1>2, <1>4, <1>5
<1>14. Outstanding(h) \subseteq 0..MaxRequests
  BY <1>6, <1>13
<1> QED
  BY <1>5, <1>7, <1>11, <1>12, <1>13, <1>14

LEMMA SetsTyped ==
  ASSUME ShapeInv, NEW h
  PROVE  /\ Outstanding(h) \subseteq 0..MaxRequests /\ Pending(h) \subseteq 0..MaxRequests
         /\ Outstanding(h) \subseteq Nat /\ Pending(h) \subseteq Nat /\ MaxRequests \in Nat
<1>1. \A r \in requests : r.id \in 0..MaxRequests
  BY LimitsAreNatural DEF ShapeInv, ARequest, Token
<1>2. Pending(h) \subseteq 0..MaxRequests
  BY <1>1 DEF Pending
<1>3. Told(h) \subseteq 0..MaxRequests
  BY PartTypes DEF Told, AnswersFor
<1>4. ToTell(h) \subseteq 0..MaxRequests
  BY PartTypes DEF ToTell
<1> QED
  BY <1>2, <1>3, <1>4, LimitsAreNatural DEF Outstanding

LEMMA PoppedAnswers ==
  ASSUME ShapeInv, NEW h
  PROVE  /\ AnswersFor(Popped, h) = AnswersFor(alerts, h)
         /\ \A i \in AnswersFor(alerts, h) : Popped[i] = alerts[i]
<1>1. "dropped" \notin Answers
  BY DEF Answers
<1> QED
  BY <1>1, PoppedFacts DEF AnswersFor

\* An answer is given to a request that is pending and not younger, and to its own
\* while none was lost.
LEMMA AnswerFits ==
  ASSUME ShapeInv, InOrder, RequestsInv, Covered,
         NEW r \in requests, NEW i \in AnswerTo(r, Popped)
  PROVE  /\ i \in AnswersFor(alerts, r.handle) /\ Popped[i] = alerts[i]
         /\ r.state = "pending" /\ r.id \in Pending(r.handle)
         /\ Rank(Outstanding(r.handle), alerts[i].token) = Rank(Pending(r.handle), r.id)
         /\ asked[alerts[i].token] = r.handle
         /\ alerts[i].token >= r.id
         /\ ~closed /\ ~lost => alerts[i].token = r.id
<1> DEFINE h == r.handle
           t == alerts[i].token
<1>1. /\ i \in AnswersFor(alerts, h) /\ Popped[i] = alerts[i]
      /\ Rank(AnswersFor(alerts, h), i) = Rank(Pending(h), r.id)
      /\ r.state = "pending"
  BY PoppedAnswers DEF AnswerTo, Awaits
<1>2. r.id \in Pending(h) /\ h \in Handle
  BY <1>1 DEF Pending, Awaits, ShapeInv, ARequest
<1>3. t \in Outstanding(h) /\ Rank(Outstanding(h), t) = Rank(Pending(h), r.id)
  BY <1>1, PositionsAsTokens DEF Outstanding
<1>4. Rank(Outstanding(h), t) <= Rank(Pending(h), t)
  BY <1>2, <1>3, SetsTyped DEF Covered
<1>5. r.id <= t
  BY <1>2, <1>3, <1>4, SetsTyped, AnswerIsNotOlder
<1>6. asked[t] = h
  BY <1>1 DEF InOrder, IsAnswer, AnswersFor
<1>7. ASSUME ~closed, ~lost PROVE t = r.id
  <2>1. Outstanding(h) = Pending(h)
    BY <1>2, <1>7 DEF Covered
  <2> QED
    BY <1>2, <1>3, <2>1, SetsTyped, RankInjective
<1>8. t \in Nat /\ r.id \in Nat
  BY <1>2, <1>3, SetsTyped
<1> QED
  BY <1>1, <1>2, <1>3, <1>5, <1>6, <1>7, <1>8
-----------------------------------------------------------------------------
\* Settling the popped alerts takes the told tokens from what is outstanding and, from
\* the pending requests, those of the same ranks.
LEMMA PendingSettled ==
  ASSUME ShapeInv, InOrder, NEW h \in Handle,
         requests' \subseteq Settled, \A s \in Settled : s.state = "pending" => s \in requests'
  PROVE  Pending(h)' = Pending(h) \ {w \in Pending(h) : \E a \in Told(h) : Rank(Outstanding(h), a) = Rank(Pending(h), w)}
<1> DEFINE W == Pending(h)
           O == Outstanding(h)
           M == {w \in W : \E a \in Told(h) : Rank(O, a) = Rank(W, w)}
<1>0. Told(h) = {alerts[i].token : i \in AnswersFor(alerts, h)}
  BY DEF Told
<1>1. ASSUME NEW r \in requests, r.handle = h, r.state = "pending"
      PROVE  AnswerTo(r, Popped) = {} <=> r.id \notin M
  <2>1. r.id \in W
    BY <1>1 DEF Pending, Awaits
  <2>2. AnswerTo(r, Popped) = {i \in AnswersFor(alerts, h) : Rank(AnswersFor(alerts, h), i) = Rank(W, r.id)}
    BY <1>1, PoppedAnswers DEF AnswerTo, Awaits
  <2>3. AnswerTo(r, Popped) = {i \in AnswersFor(alerts, h) : Rank(O, alerts[i].token) = Rank(W, r.id)}
    BY <2>2, PositionsAsTokens
  <2> QED
    BY <1>0, <2>1, <2>3
<1>2. Pending(h)' = {r.id : r \in {q \in requests' : q.state = "pending" /\ q.handle = h}}
  BY DEF Pending, Awaits
<1>3. W = {r.id : r \in {q \in requests : q.state = "pending" /\ q.handle = h}}
  BY DEF Pending, Awaits
<1> HIDE DEF M, W, O
<1>4. ASSUME NEW q \in requests', q.state = "pending", q.handle = h
      PROVE  q.id \in W \ M
  <2>1. PICK r \in requests : /\ q.id = r.id /\ q.handle = r.handle
                              /\ \/ q = r /\ AnswerTo(r, Popped) = {}
                                 \/ q.state \in {"ready", "failed"}
    <3>1. q \in Settled
      OBVIOUS
    <3> QED
      BY <3>1, SettledFacts
  <2>2. q = r /\ AnswerTo(r, Popped) = {}
    BY <1>4, <2>1
  <2> QED
    BY <1>1, <1>3, <1>4, <2>2
<1>5. ASSUME NEW w \in W, w \notin M
      PROVE  \E q \in requests' : q.state = "pending" /\ q.handle = h /\ q.id = w
  <2>1. PICK r \in requests : r.state = "pending" /\ r.handle = h /\ r.id = w
    BY <1>3
  <2>2. AnswerTo(r, Popped) = {}
    BY <1>1, <1>5, <2>1
  <2>3. r \in Settled
    BY <2>2, SettledFacts
  <2> QED
    BY <2>1, <2>3
<1>6. Pending(h)' = W \ M
  BY <1>2, <1>4, <1>5
<1> QED
  BY <1>6 DEF M, W, O

LEMMA OutstandingDrained ==
  ASSUME ShapeInv, InOrder, NEW h, alerts' = <<>>, commands' = commands
  PROVE  /\ Outstanding(h)' = Outstanding(h) \ Told(h)
         /\ \A a \in Told(h), o \in Outstanding(h) \ Told(h) : a < o
<1>1. Told(h)' = {}
  BY NothingIn DEF Told, AnswersFor
<1>2. ToTell(h)' = ToTell(h)
  BY DEF ToTell, IsSave
<1>3. \A a \in Told(h), o \in ToTell(h) : a < o /\ a \in Nat /\ o \in Nat
  <2> SUFFICES ASSUME NEW a \in Told(h), NEW o \in ToTell(h) PROVE a < o /\ a \in Nat /\ o \in Nat
    OBVIOUS
  <2>1. PICK i \in DOMAIN alerts : IsAnswer(i) /\ a = alerts[i].token
    BY DEF Told, AnswersFor, IsAnswer
  <2>2. PICK j \in DOMAIN commands : IsSave(j) /\ o = commands[j].token
    BY DEF ToTell
  <2>3. a < o
    BY <2>1, <2>2 DEF InOrder
  <2> QED
    BY <2>3, SetsTyped DEF Outstanding
<1>4. Told(h) \cap ToTell(h) = {}
  BY <1>3
<1> QED
  BY <1>1, <1>2, <1>3, <1>4 DEF Outstanding

LEMMA SettledPairUp ==
  ASSUME ShapeInv, InOrder, RequestsInv, Covered, AnswersPairUp, ~closed,
         NEW s \in Settled, s.state # "pending"
  PROVE  /\ asked[s.answer] = s.handle /\ asked[s.id] = s.handle
         /\ s.answer >= s.id /\ s.answer \in 1..(nextRequest - 1) /\ s.id < nextRequest
         /\ ~lost => s.answer = s.id
<1>1. PICK r \in requests :
         /\ s.id = r.id /\ s.handle = r.handle
         /\ \/ s = r /\ AnswerTo(r, Popped) = {}
            \/ \E i \in AnswerTo(r, Popped) :
                  s.state \in {"ready", "failed"} /\ s.answer = Popped[i].token
  BY SettledFacts
<1>2. asked[r.id] = r.handle /\ r.id < nextRequest
  BY DEF RequestsInv
<1>3. CASE s = r
  BY <1>2, <1>3 DEF AnswersPairUp, RequestsInv
<1>4. CASE \E i \in AnswerTo(r, Popped) : s.answer = Popped[i].token
  <2>1. PICK i \in AnswerTo(r, Popped) : s.answer = Popped[i].token
    BY <1>4
  <2>2. /\ i \in AnswersFor(alerts, r.handle) /\ Popped[i] = alerts[i]
        /\ asked[alerts[i].token] = r.handle
        /\ alerts[i].token >= r.id
        /\ ~lost => alerts[i].token = r.id
    BY AnswerFits
  <2>3. alerts[i].token \in 1..(nextRequest - 1)
    BY <2>2 DEF AnswersFor, InOrder, IsAnswer
  <2> QED
    BY <1>1, <1>2, <2>1, <2>2, <2>3
<1> QED
  BY <1>1, <1>3, <1>4

LEMMA AnswersDrain ==
  ASSUME ShapeInv, InOrder, RequestsInv, Covered, AnswersPairUp, ~closed, Drain,
         \A s \in Settled : s.state = "pending" => s \in requests',
         \A t \in Token : \/ answered'[t] = answered[t]
                          \/ \E s \in Settled : /\ s.id = t /\ s.state # "pending"
                                                /\ answered'[t] = s.answer
  PROVE  InOrder' /\ RequestsInv' /\ Covered' /\ AnswersPairUp'
<1>1. /\ alerts' = <<>> /\ commands' = commands /\ asked' = asked /\ nextRequest' = nextRequest
      /\ lost' = lost /\ closed' = closed /\ requests' \subseteq Settled
  BY DEF Drain, ProcessAlerts, native
<1>2. InOrder'
  <2>1. DOMAIN alerts' = {}
    BY <1>1, NothingIn
  <2> QED
    BY <1>1, <2>1 DEF InOrder, IsAnswer, IsSave
<1>3. ASSUME NEW h \in Handle
      PROVE  /\ \A n \in 0..MaxRequests : Rank(Outstanding(h), n)' <= Rank(Pending(h), n)'
             /\ ~closed /\ ~lost => Outstanding(h)' = Pending(h)'
  <2> DEFINE W == Pending(h)
             O == Outstanding(h)
             A == Told(h)
             M == {w \in W : \E a \in A : Rank(O, a) = Rank(W, w)}
  <2>1. Pending(h)' = W \ M
    BY <1>1, PendingSettled
  <2>2. Outstanding(h)' = O \ A /\ \A a \in A, o \in O \ A : a < o
    BY <1>1, OutstandingDrained
  <2>3. W \in SUBSET (0..MaxRequests) /\ O \in SUBSET (0..MaxRequests) /\ A \in SUBSET O /\ MaxRequests \in Nat
        /\ W \in SUBSET Nat
    BY SetsTyped DEF Outstanding
  <2>4. \A n \in 0..MaxRequests : Rank(O, n) <= Rank(W, n)
    BY DEF Covered
  <2>5. \A n \in 0..MaxRequests : Rank(O \ A, n) <= Rank(W \ M, n)
    <3> HIDE DEF W, O, A
    <3> QED
      BY <2>2, <2>3, <2>4, StillCovered
  <2>6. ASSUME ~closed, ~lost PROVE O \ A = W \ M
    <3>1. O = W
      BY <2>6 DEF Covered
    <3>2. M = A
      <4>1. A \in SUBSET W
        BY <2>3, <3>1
      <4>2. {w \in W : \E a \in A : Rank(W, a) = Rank(W, w)} = A
        <5> HIDE DEF W, O, A, M
        <5> QED
          BY <2>3, <4>1, ExactlyThose
      <4> QED
        BY <3>1, <4>2
    <3> QED
      BY <3>1, <3>2
  <2> QED
    BY <2>1, <2>2, <2>5, <2>6 DEF Rank
<1>4. Covered'
  BY <1>1, <1>3 DEF Covered
<1>5. RequestsInv'
  <2>1. \A s \in Settled : \E r \in requests : s.id = r.id /\ s.handle = r.handle
    BY SettledFacts
  <2>2. \A r \in requests' : r.id < nextRequest /\ asked[r.id] = r.handle
    BY <1>1, <2>1 DEF RequestsInv
  <2>3. \A q, r \in requests' : q.id = r.id => q = r
    <3> DEFINE Of(r) == IF AnswerTo(r, Popped) = {} THEN r
                        ELSE Answered(r, Popped[CHOOSE i \in AnswerTo(r, Popped) : TRUE])
    <3>1. Settled = {Of(r) : r \in requests}
      BY DEF Settled, Settle
    <3>2. \A r \in requests : Of(r).id = r.id
      <4>1. \A r \in requests : r \in ARequest
        BY DEF ShapeInv
      <4> QED
        BY <4>1 DEF Answered, ARequest
    <3> HIDE DEF Of
    <3> QED
      BY <1>1, <3>1, <3>2 DEF RequestsInv
  <2>4. \A r \in requests' : r.state # "pending" => r.answer \in 1..(nextRequest - 1)
    BY <1>1, SettledPairUp
  <2>5. \A t \in Token : answered'[t] # None => t < nextRequest /\ answered'[t] \in 1..(nextRequest - 1)
    BY SettledPairUp DEF RequestsInv
  <2> QED
    BY <1>1, <2>2, <2>3, <2>4, <2>5 DEF RequestsInv
<1>6. AnswersPairUp'
  <2>1. ASSUME NEW t \in Token, answered'[t] # None
        PROVE  /\ asked[answered'[t]] = asked[t]
               /\ answered'[t] >= t
               /\ ~lost => answered'[t] = t
    <3>1. CASE answered'[t] = answered[t]
      BY <2>1, <3>1 DEF AnswersPairUp
    <3>2. CASE \E s \in Settled : s.id = t /\ s.state # "pending" /\ answered'[t] = s.answer
      BY <3>2, SettledPairUp
    <3> QED
      BY <3>1, <3>2
  <2>2. \A r \in requests' : r.state # "pending" =>
          /\ asked[r.answer] = r.handle
          /\ r.answer >= r.id
          /\ ~lost => r.answer = r.id
    BY <1>1, SettledPairUp
  <2> QED
    BY <1>1, <2>1, <2>2 DEF AnswersPairUp
<1> QED
  BY <1>2, <1>4, <1>5, <1>6
-----------------------------------------------------------------------------
(* The other steps *)

\* Fewer answers may be outstanding once one was lost.
LEMMA FewerOutstanding ==
  ASSUME ShapeInv, Covered, requests' = requests,
         \A h \in Handle : Outstanding(h)' \subseteq Outstanding(h),
         (closed => closed'),
         closed' \/ lost' \/ (~lost /\ \A h \in Handle : Outstanding(h)' = Outstanding(h))
  PROVE  Covered'
<1>1. \A h : Pending(h)' = Pending(h)
  BY DEF Pending, Awaits
<1>2. ASSUME NEW h \in Handle, NEW n \in 0..MaxRequests
      PROVE  Rank(Outstanding(h), n)' <= Rank(Pending(h), n)'
  <2> DEFINE O == Outstanding(h)
             P == Outstanding(h)'
             W == Pending(h)
  <2>1. O \in SUBSET Nat /\ P \in SUBSET O /\ P \in SUBSET Nat /\ W \in SUBSET Nat /\ n \in Nat
    BY SetsTyped
  <2>2. Rank(O, n) <= Rank(W, n)
    BY DEF Covered
  <2> HIDE DEF O, P, W
  <2>3. Rank(P, n) <= Rank(O, n) /\ Rank(P, n) \in Nat /\ Rank(O, n) \in Nat /\ Rank(W, n) \in Nat
    BY <2>1, RankSubset, RankNat
  <2>4. Rank(P, n) <= Rank(W, n)
    BY <2>2, <2>3
  <2> QED
    BY <1>1, <2>4 DEF Rank, O, P, W
<1>3. ~closed' /\ ~lost' => \A h \in Handle : Outstanding(h)' = Pending(h)'
  BY <1>1 DEF Covered
<1> QED
  BY <1>2, <1>3 DEF Covered

LEMMA AnswersKept ==
  ASSUME RequestsInv, AnswersPairUp, lost => lost',
         UNCHANGED <<requests, asked, answered, nextRequest>>
  PROVE  RequestsInv' /\ AnswersPairUp'
  BY DEF RequestsInv, AnswersPairUp

\* No answer comes or goes: at most another alert is queued, or a command which is not
\* a save executed.
LEMMA NothingTold ==
  ASSUME ShapeInv, InOrder, RequestsInv, Covered, AnswersPairUp,
         UNCHANGED <<closed, requests, nextRequest, asked, answered>>,
         lost => lost', NEW k \in {0, 1},
         \A i \in DOMAIN alerts' : IsAnswer(i)' => i \in DOMAIN alerts /\ alerts'[i] = alerts[i],
         \A i \in DOMAIN alerts : IsAnswer(i) => i \in DOMAIN alerts' /\ alerts'[i] = alerts[i],
         \A i \in DOMAIN commands' : i \in Nat
            /\ (IsSave(i)' => i + k \in DOMAIN commands /\ commands'[i] = commands[i + k]),
         \A i \in DOMAIN commands : IsSave(i) => \E j \in DOMAIN commands' : commands'[j] = commands[i]
  PROVE  InOrder' /\ RequestsInv' /\ Covered' /\ AnswersPairUp'
<1>1. \A i \in DOMAIN alerts' : IsAnswer(i)' => IsAnswer(i)
  BY DEF IsAnswer
<1>2. \A i \in DOMAIN commands' : IsSave(i)' => IsSave(i + k)
  BY DEF IsSave
<1>3. InOrder'
  <2>1. \A i, j \in DOMAIN alerts' : IsAnswer(i)' /\ IsAnswer(j)' /\ i < j => alerts'[i].token < alerts'[j].token
    BY <1>1 DEF InOrder
  <2>2. \A i, j \in DOMAIN commands' : IsSave(i)' /\ IsSave(j)' /\ i < j => commands'[i].token < commands'[j].token
    <3> SUFFICES ASSUME NEW i \in DOMAIN commands', NEW j \in DOMAIN commands', IsSave(i)', IsSave(j)', i < j
                 PROVE  commands'[i].token < commands'[j].token
      OBVIOUS
    <3>1. i + k < j + k
      OBVIOUS
    <3> QED
      BY <1>2, <3>1 DEF InOrder
  <2>3. \A i \in DOMAIN alerts', j \in DOMAIN commands' :
          IsAnswer(i)' /\ IsSave(j)' => alerts'[i].token < commands'[j].token
    BY <1>1, <1>2 DEF InOrder
  <2>4. \A i \in DOMAIN alerts' : IsAnswer(i)' =>
          alerts'[i].token \in 1..(nextRequest - 1) /\ alerts'[i].handle = asked[alerts'[i].token]
    BY <1>1 DEF InOrder
  <2>5. \A i \in DOMAIN commands' : IsSave(i)' =>
          commands'[i].token \in 1..(nextRequest - 1) /\ commands'[i].handle = asked[commands'[i].token]
    BY <1>2 DEF InOrder
  <2> QED
    BY <2>1, <2>2, <2>3, <2>4, <2>5 DEF InOrder
<1>4. \A h \in Handle : Outstanding(h)' = Outstanding(h)
  <2> TAKE h \in Handle
  <2>1. Told(h)' = Told(h)
    <3>1. AnswersFor(alerts, h)' = AnswersFor(alerts, h)
      BY DEF AnswersFor, IsAnswer
    <3> QED
      BY <3>1 DEF Told, AnswersFor, IsAnswer
  <2>2. ToTell(h)' = ToTell(h)
    <3>1. \A i \in DOMAIN commands' : IsSave(i)' /\ commands'[i].handle = h => commands'[i].token \in ToTell(h)
      BY <1>2 DEF ToTell
    <3>2. \A i \in DOMAIN commands : IsSave(i) /\ commands[i].handle = h =>
             \E j \in DOMAIN commands' : IsSave(j)' /\ commands'[j].handle = h /\ commands'[j].token = commands[i].token
      BY DEF IsSave
    <3> QED
      BY <3>1, <3>2 DEF ToTell
  <2> QED
    BY <2>1, <2>2 DEF Outstanding
<1>5. Covered'
  BY <1>4, FewerOutstanding
<1> QED
  BY <1>3, <1>5, AnswersKept

\* An answer follows those that were given before; at the limit of the queue it is lost.
LEMMA AnswersSave ==
  ASSUME ShapeInv, InOrder, RequestsInv, Covered, AnswersPairUp, NativeSave
  PROVE  InOrder' /\ RequestsInv' /\ Covered' /\ AnswersPairUp'
<1> DEFINE c == commands[1]
<1>0. /\ alerts \in Seq(AnAlert) /\ Len(alerts) <= 3 * QueueLimit
      /\ dropped \in BOOLEAN /\ lost \in BOOLEAN /\ commands \in Seq(ACommand) /\ commands # <<>>
      /\ 0..MaxAdds = {None} \cup Handle
  BY LimitsAreNatural DEF ShapeInv, NativeSave, None, Handle
<1>1. /\ Head(commands) = c /\ c \in ACommand /\ 1 \in DOMAIN commands
      /\ \A i \in DOMAIN Tail(commands) : i + 1 \in DOMAIN commands /\ Tail(commands)[i] = commands[i + 1] /\ i \in Nat \ {0}
      /\ \A i \in DOMAIN commands : i # 1 => i - 1 \in DOMAIN Tail(commands) /\ i \in Nat
  BY <1>0, TailFacts
<1>2. /\ commands' = Tail(commands) /\ IsSave(1)
      /\ UNCHANGED <<closed, requests, nextRequest, asked, answered>>
  BY <1>1 DEF NativeSave, IsSave, tables, history
<1>3. PICK kind \in Answers : Post(kind, c.handle, c.token)
  BY <1>1 DEF NativeSave
<1> DEFINE a == Alert(kind, c.handle, c.token)
<1>4. /\ kind \in Kinds /\ kind # "notice" /\ c.handle \in 0..MaxAdds /\ c.token \in 0..MaxRequests
      /\ a \in AnAlert /\ a.kind \in Answers /\ a.handle = c.handle /\ a.token = c.token
  BY <1>0, <1>1, KindsAre DEF Alert, AnAlert, ACommand, Answers
<1>5. \/ alerts' = alerts /\ lost'
      \/ alerts' = Append(alerts, a) /\ lost' = lost
  BY <1>0, <1>3, <1>4, PostFacts
<1>6. /\ \A i \in DOMAIN alerts' : \/ i \in DOMAIN alerts /\ alerts'[i] = alerts[i] /\ i < Len(alerts) + 1
                                   \/ i = Len(alerts) + 1 /\ alerts'[i] = a
      /\ \A i \in DOMAIN alerts : i \in DOMAIN alerts' /\ alerts'[i] = alerts[i]
      /\ \A i \in DOMAIN alerts : i < Len(alerts) + 1
      /\ Len(alerts) + 1 \in Int /\ DOMAIN alerts \subseteq Int
      /\ alerts' = Append(alerts, a) => Len(alerts) + 1 \in DOMAIN alerts' /\ alerts'[Len(alerts) + 1] = a
  <2>1. \A i \in DOMAIN alerts : i < Len(alerts) + 1 /\ i \in Int
    BY <1>0
  <2>2. Len(alerts) + 1 \in Int
    BY <1>0
  <2> HIDE DEF a
  <2>3. CASE alerts' = alerts
    <3>1. Append(alerts, a) # alerts
      <4>1. Len(Append(alerts, a)) # Len(alerts)
        BY <1>0, <1>4
      <4> QED
        BY <4>1
    <3> QED
      BY <2>1, <2>2, <2>3, <3>1
  <2>4. CASE alerts' = Append(alerts, a)
    BY <1>0, <1>4, <2>1, <2>2, <2>4, AppendFacts
  <2> QED
    BY <1>5, <2>3, <2>4
<1>7. /\ c.token \in 1..(nextRequest - 1) /\ c.handle = asked[c.token]
      /\ \A i \in DOMAIN alerts : IsAnswer(i) => alerts[i].token < c.token
      /\ \A i \in DOMAIN commands : IsSave(i) /\ i # 1 => c.token < commands[i].token
  <2>1. \A i \in DOMAIN commands : i # 1 => 1 < i
    BY <1>0
  <2> QED
    BY <1>1, <1>2, <2>1 DEF InOrder
<1> HIDE DEF a, c
<1>8. InOrder'
  <2>1. \A i, j \in DOMAIN alerts' : IsAnswer(i)' /\ IsAnswer(j)' /\ i < j => alerts'[i].token < alerts'[j].token
    <3> SUFFICES ASSUME NEW i \in DOMAIN alerts', NEW j \in DOMAIN alerts', IsAnswer(i)', IsAnswer(j)', i < j
                 PROVE  alerts'[i].token < alerts'[j].token
      OBVIOUS
    <3>1. i \in DOMAIN alerts /\ alerts'[i] = alerts[i]
      BY <1>6
    <3>2. CASE j \in DOMAIN alerts /\ alerts'[j] = alerts[j]
      BY <3>1, <3>2 DEF InOrder, IsAnswer
    <3>3. CASE alerts'[j] = a
      BY <1>4, <1>7, <3>1, <3>3 DEF IsAnswer
    <3> QED
      BY <1>6, <3>2, <3>3
  <2>2. \A j \in DOMAIN commands' : IsSave(j)' =>
           /\ j + 1 \in DOMAIN commands /\ j + 1 # 1 /\ IsSave(j + 1) /\ commands'[j] = commands[j + 1] /\ j \in Nat
    BY <1>1, <1>2 DEF IsSave
  <2>3. \A i, j \in DOMAIN commands' : IsSave(i)' /\ IsSave(j)' /\ i < j => commands'[i].token < commands'[j].token
    <3> SUFFICES ASSUME NEW i \in DOMAIN commands', NEW j \in DOMAIN commands', IsSave(i)', IsSave(j)', i < j
                 PROVE  commands'[i].token < commands'[j].token
      OBVIOUS
    <3>1. i + 1 < j + 1
      BY <2>2
    <3> QED
      BY <2>2, <3>1 DEF InOrder
  <2>4. \A i \in DOMAIN alerts', j \in DOMAIN commands' :
          IsAnswer(i)' /\ IsSave(j)' => alerts'[i].token < commands'[j].token
    <3> SUFFICES ASSUME NEW i \in DOMAIN alerts', NEW j \in DOMAIN commands', IsAnswer(i)', IsSave(j)'
                 PROVE  alerts'[i].token < commands'[j].token
      OBVIOUS
    <3>1. CASE i \in DOMAIN alerts /\ alerts'[i] = alerts[i]
      BY <2>2, <3>1 DEF InOrder, IsAnswer
    <3>2. CASE alerts'[i] = a
      BY <1>4, <1>7, <2>2, <3>2
    <3> QED
      BY <1>6, <3>1, <3>2
  <2>5. \A i \in DOMAIN alerts' : IsAnswer(i)' =>
          alerts'[i].token \in 1..(nextRequest - 1) /\ alerts'[i].handle = asked[alerts'[i].token]
    BY <1>4, <1>6, <1>7 DEF InOrder, IsAnswer
  <2>6. \A i \in DOMAIN commands' : IsSave(i)' =>
          commands'[i].token \in 1..(nextRequest - 1) /\ commands'[i].handle = asked[commands'[i].token]
    BY <2>2 DEF InOrder
  <2> QED
    BY <1>2, <2>1, <2>3, <2>4, <2>5, <2>6 DEF InOrder
<1>9. ASSUME NEW h \in Handle
      PROVE  /\ Outstanding(h)' \subseteq Outstanding(h)
             /\ alerts' = Append(alerts, a) => Outstanding(h) \subseteq Outstanding(h)'
  <2>1. c.handle = h => c.token \in ToTell(h)
    BY <1>1, <1>2 DEF ToTell, c
  <2>2. \A i \in DOMAIN alerts' : IsAnswer(i)' /\ alerts'[i].handle = h => alerts'[i].token \in Outstanding(h)
    BY <1>4, <1>6, <2>1 DEF Outstanding, Told, AnswersFor, IsAnswer
  <2>3. \A i \in DOMAIN commands' : IsSave(i)' /\ commands'[i].handle = h => commands'[i].token \in ToTell(h)
    BY <1>1, <1>2 DEF ToTell, IsSave
  <2>4. Told(h) \subseteq Told(h)'
    BY <1>6 DEF Told, AnswersFor
  <2>5. \A i \in DOMAIN commands : IsSave(i) /\ commands[i].handle = h /\ i # 1 => commands[i].token \in ToTell(h)'
    <3> SUFFICES ASSUME NEW i \in DOMAIN commands, IsSave(i), commands[i].handle = h, i # 1
                 PROVE  commands[i].token \in ToTell(h)'
      OBVIOUS
    <3>1. i - 1 \in DOMAIN commands' /\ (i - 1) + 1 = i
      BY <1>1, <1>2
    <3>2. commands'[i - 1] = commands[i]
      BY <1>1, <1>2, <3>1
    <3> QED
      BY <3>1, <3>2 DEF ToTell, IsSave
  <2>6. alerts' = Append(alerts, a) /\ c.handle = h => c.token \in Told(h)'
    BY <1>4, <1>6 DEF Told, AnswersFor
  <2>7. Outstanding(h)' \subseteq Outstanding(h)
    <3>1. \A o \in Told(h)' : o \in Outstanding(h)
      BY <2>2 DEF Told, AnswersFor, IsAnswer
    <3>2. \A o \in ToTell(h)' : o \in Outstanding(h)
      BY <2>3 DEF ToTell, Outstanding
    <3> QED
      BY <3>1, <3>2 DEF Outstanding
  <2>8. alerts' = Append(alerts, a) => Outstanding(h) \subseteq Outstanding(h)'
    <3> SUFFICES ASSUME alerts' = Append(alerts, a), NEW o \in ToTell(h) PROVE o \in Outstanding(h)'
      BY <2>4 DEF Outstanding
    <3>1. PICK i \in DOMAIN commands : IsSave(i) /\ commands[i].handle = h /\ o = commands[i].token
      BY DEF ToTell
    <3> QED
      BY <2>5, <2>6, <3>1 DEF Outstanding, c
  <2> QED
    BY <2>7, <2>8
<1>10. Covered'
  <2>1. CASE lost'
    BY <1>2, <1>9, <2>1, FewerOutstanding
  <2>2. CASE closed
    BY <1>2, <1>9, <2>2, FewerOutstanding
  <2>3. CASE ~lost' /\ ~closed
    <3>1. alerts' = Append(alerts, a) /\ ~lost
      BY <1>5, <2>3
    <3>2. \A h \in Handle : Outstanding(h)' = Outstanding(h)
      BY <1>9, <3>1
    <3> QED
      BY <1>2, <1>9, <2>3, <3>1, <3>2, FewerOutstanding
  <2> QED
    BY <2>1, <2>2, <2>3
<1>11. lost => lost'
  BY <1>5
<1> QED
  BY <1>2, <1>8, <1>10, <1>11, AnswersKept
-----------------------------------------------------------------------------
\* What queues no save and executes none.
LEMMA AnswersOther ==
  ASSUME ShapeInv, InOrder, RequestsInv, Covered, AnswersPairUp,
         UNCHANGED <<closed, requests, nextRequest, asked, answered>>,
         lost => lost',
         NEW a \in AnAlert, a.kind \notin Answers,
         alerts' = alerts \/ alerts' = Append(alerts, a),
         \/ commands' = commands
         \/ \E c \in ACommand : c.op = "remove" /\ commands' = Append(commands, c)
         \/ commands # <<>> /\ Head(commands).op = "remove" /\ commands' = Tail(commands)
  PROVE  InOrder' /\ RequestsInv' /\ Covered' /\ AnswersPairUp'
<1>1. alerts \in Seq(AnAlert) /\ commands \in Seq(ACommand)
  BY DEF ShapeInv
<1>2. /\ \A i \in DOMAIN alerts' : IsAnswer(i)' => i \in DOMAIN alerts /\ alerts'[i] = alerts[i]
      /\ \A i \in DOMAIN alerts : IsAnswer(i) => i \in DOMAIN alerts' /\ alerts'[i] = alerts[i]
  <2>1. CASE alerts' = alerts
    BY <2>1 DEF IsAnswer
  <2>2. CASE alerts' = Append(alerts, a)
    <3>1. /\ DOMAIN alerts' = DOMAIN alerts \cup {Len(alerts) + 1} /\ alerts'[Len(alerts) + 1] = a
          /\ \A i \in DOMAIN alerts : alerts'[i] = alerts[i]
      BY <1>1, <2>2, AppendFacts
    <3> QED
      BY <3>1 DEF IsAnswer
  <2> QED
    BY <2>1, <2>2
<1>3. CASE commands' = commands
  <2>1. \A i \in DOMAIN commands' : i \in Nat /\ i + 0 \in DOMAIN commands /\ commands'[i] = commands[i + 0]
    BY <1>1, <1>3
  <2>2. \A i \in DOMAIN commands : \E j \in DOMAIN commands' : commands'[j] = commands[i]
    BY <1>3
  <2> QED
    BY <1>2, <2>1, <2>2, NothingTold
<1>4. CASE \E c \in ACommand : c.op = "remove" /\ commands' = Append(commands, c)
  <2> PICK c \in ACommand : c.op = "remove" /\ commands' = Append(commands, c)
    BY <1>4
  <2>1. \A i \in DOMAIN commands' : i \in Nat
           /\ (IsSave(i)' => i + 0 \in DOMAIN commands /\ commands'[i] = commands[i + 0])
    BY <1>1, <1>4, AppendFacts DEF IsSave
  <2>2. \A i \in DOMAIN commands : \E j \in DOMAIN commands' : commands'[j] = commands[i]
    BY <1>1, <1>4, AppendFacts
  <2> QED
    BY <1>2, <2>1, <2>2, NothingTold
<1>5. CASE commands # <<>> /\ Head(commands).op = "remove" /\ commands' = Tail(commands)
  <2>1. /\ Head(commands) = commands[1]
        /\ \A i \in DOMAIN commands' : i + 1 \in DOMAIN commands /\ commands'[i] = commands[i + 1] /\ i \in Nat
        /\ \A i \in DOMAIN commands : i # 1 => i - 1 \in DOMAIN commands' /\ i \in Nat
    BY <1>1, <1>5, TailFacts
  <2>2. ASSUME NEW i \in DOMAIN commands, IsSave(i)
        PROVE  \E j \in DOMAIN commands' : commands'[j] = commands[i]
    <3>1. i # 1
      BY <1>5, <2>1, <2>2 DEF IsSave
    <3>2. i - 1 \in DOMAIN commands' /\ (i - 1) + 1 = i
      BY <2>1, <3>1
    <3>3. commands'[i - 1] = commands[i]
      BY <2>1, <3>2
    <3> QED
      BY <3>2, <3>3
  <2> QED
    BY <1>2, <2>1, <2>2, NothingTold
<1> QED
  BY <1>3, <1>4, <1>5

LEMMA AnswersNative ==
  ASSUME ShapeInv, InOrder, RequestsInv, Covered, AnswersPairUp,
         NativeRemove \/ NativeStopped \/ NativeNotice
  PROVE  InOrder' /\ RequestsInv' /\ Covered' /\ AnswersPairUp'
<1>0. /\ alerts \in Seq(AnAlert) /\ Len(alerts) <= 3 * QueueLimit
      /\ dropped \in BOOLEAN /\ lost \in BOOLEAN /\ commands \in Seq(ACommand)
      /\ stopping \subseteq Handle /\ nextHandle \in 1..(MaxAdds + 1)
      /\ MaxAdds \in Nat
  BY LimitsAreNatural DEF ShapeInv
<1>1. /\ None \in 0..MaxAdds /\ None \in 0..MaxRequests /\ Handle \subseteq 0..MaxAdds
      /\ 0..(nextHandle - 1) \subseteq 0..MaxAdds
  BY <1>0, LimitsAreNatural DEF None, Handle
<1>2. UNCHANGED <<closed, requests, nextRequest, asked, answered>>
  BY DEF NativeRemove, NativeStopped, NativeNotice, tables, history
<1>3. PICK kind \in {"removed", "notice"}, handle \in 0..MaxAdds :
         Post(kind, handle, None) \/ UNCHANGED queue
  <2>1. CASE NativeRemove
    <3>1. Head(commands) \in ACommand
      BY <1>0, <2>1, TailFacts DEF NativeRemove
    <3>2. Head(commands).handle \in 0..MaxAdds
      BY <1>1, <3>1 DEF ACommand
    <3> QED
      BY <2>1, <3>2 DEF NativeRemove
  <2>2. CASE NativeStopped
    <3>1. \A handle \in stopping : handle \in 0..MaxAdds
      BY <1>0, <1>1
    <3> QED
      BY <2>2, <3>1 DEF NativeStopped
  <2>3. CASE NativeNotice
    BY <1>1, <2>3 DEF NativeNotice
  <2> QED
    BY <2>1, <2>2, <2>3
<1> DEFINE a == Alert(kind, handle, None)
<1>4. a \in AnAlert /\ a.kind \notin Answers /\ kind \in Kinds
  BY <1>1, KindsAre DEF Alert, AnAlert, Answers
<1>5. (alerts' = alerts \/ alerts' = Append(alerts, a)) /\ (lost => lost')
  <2>1. CASE UNCHANGED queue
    BY <2>1 DEF queue
  <2>2. CASE Post(kind, handle, None)
    <3>1. lost => lost'
      BY <2>2 DEF Post
    <3> QED
      BY <1>0, <1>1, <1>4, <2>2, <3>1, PostFacts
  <2> QED
    BY <1>3, <2>1, <2>2
<1>6. \/ commands' = commands
      \/ commands # <<>> /\ Head(commands).op = "remove" /\ commands' = Tail(commands)
  BY DEF NativeRemove, NativeStopped, NativeNotice
<1> HIDE DEF a
<1> QED
  BY <1>2, <1>4, <1>5, <1>6, AnswersOther

\* An add whose torrent cannot be described, and a removal, queue a removal.
LEMMA AnswersQueued ==
  ASSUME ShapeInv, InOrder, RequestsInv, Covered, AnswersPairUp,
         UNCHANGED <<closed, requests, nextRequest, asked, answered, lost, alerts>>,
         NEW h \in Handle,
         commands' = commands \/ commands' = Append(commands, [op |-> "remove", handle |-> h, token |-> None])
  PROVE  InOrder' /\ RequestsInv' /\ Covered' /\ AnswersPairUp'
<1> DEFINE c == [op |-> "remove", handle |-> h, token |-> None]
           a == Alert("notice", None, None)
<1>1. c \in ACommand /\ c.op = "remove"
  BY LimitsAreNatural DEF ACommand, None
<1>2. a \in AnAlert /\ a.kind \notin Answers
  BY KindsAre, LimitsAreNatural DEF Alert, AnAlert, Answers, None
<1> HIDE DEF a
<1> QED
  BY <1>1, <1>2, AnswersOther

LEMMA AnswersAdd ==
  ASSUME ShapeInv, RecordsInv, InOrder, RequestsInv, Covered, AnswersPairUp,
         NEW c \in Content, Add(c)
  PROVE  InOrder' /\ RequestsInv' /\ Covered' /\ AnswersPairUp'
  BY ShapeAdd, AnswersQueued DEF queue

LEMMA AnswersRemove ==
  ASSUME ShapeInv, InOrder, RequestsInv, Covered, AnswersPairUp,
         NEW id, RemoveTorrent(id)
  PROVE  InOrder' /\ RequestsInv' /\ Covered' /\ AnswersPairUp'
<1>1. PICK t \in torrents : Enqueue("remove", t.handle, None)
  BY DEF RemoveTorrent, FindTorrent
<1>2. t.handle \in Handle
  BY PartTypes
<1> QED
  BY <1>1, <1>2, AnswersQueued DEF Enqueue, RemoveTorrent, queue, history

\* Nothing comes to anybody any more.
LEMMA AnswersShutdown ==
  ASSUME ShapeInv, InOrder, RequestsInv, Covered, AnswersPairUp, ShutdownSession
  PROVE  InOrder' /\ RequestsInv' /\ Covered' /\ AnswersPairUp'
<1>1. DOMAIN alerts' = {} /\ DOMAIN commands' = {}
  BY NothingIn DEF ShutdownSession
<1>2. InOrder'
  BY <1>1 DEF InOrder
<1>3. \A h \in Handle : Outstanding(h)' = {}
  BY <1>1 DEF Outstanding, Told, ToTell, AnswersFor
<1>4. closed' /\ UNCHANGED <<requests, asked, answered, nextRequest, lost>>
  BY DEF ShutdownSession, history
<1> QED
  BY <1>2, <1>3, <1>4, FewerOutstanding, AnswersKept

LEMMA AnswersInit ==
  ASSUME Init
  PROVE  InOrder /\ RequestsInv /\ Covered /\ AnswersPairUp
<1>1. DOMAIN alerts = {} /\ DOMAIN commands = {} /\ requests = {}
  BY NothingIn DEF Init
<1>2. \A t \in Token : answered[t] = None
  BY DEF Init
<1>3. \A h : Outstanding(h) = {} /\ Pending(h) = {}
  BY <1>1 DEF Outstanding, Told, ToTell, AnswersFor, Pending
<1>4. \A n : Rank({}, n) = 0
  BY FS_EmptySet DEF Rank
<1>5. Covered
  BY <1>3, <1>4 DEF Covered
<1> QED
  BY <1>1, <1>2, <1>5 DEF InOrder, RequestsInv, AnswersPairUp
-----------------------------------------------------------------------------
\* A request is the youngest of all; its answer will come after all the others.
LEMMA AnswersRequested ==
  ASSUME ShapeInv, InOrder, RequestsInv, Covered, AnswersPairUp,
         NEW id, SaveResumeData(id)
  PROVE  InOrder' /\ RequestsInv' /\ Covered' /\ AnswersPairUp'
<1> DEFINE n == nextRequest
<1>0. /\ n \in Nat /\ n \in Token /\ nextRequest' = n + 1 /\ asked \in Seq(Handle) /\ Len(asked) = n - 1
      /\ commands \in Seq(ACommand) /\ Token \subseteq Nat /\ requests \subseteq ARequest
      /\ UNCHANGED <<alerts, lost, closed, answered>>
  BY ShapeSave, LimitsAreNatural DEF ShapeInv, Token, queue
<1>1. PICK t \in torrents :
         /\ asked' = Append(asked, t.handle) /\ t.handle \in Handle
         /\ \/ /\ requests' = requests \cup {[id |-> n, handle |-> t.handle, state |-> "pending", answer |-> None]}
               /\ commands' = Append(commands, [op |-> "save", handle |-> t.handle, token |-> n])
            \/ requests' = requests /\ commands' = commands
  BY ShapeSave
<1> DEFINE g == t.handle
           r == [id |-> n, handle |-> g, state |-> "pending", answer |-> None]
           c == [op |-> "save", handle |-> g, token |-> n]
<1>2. /\ asked'[n] = g
      /\ \A m \in 1..(n - 1) : asked'[m] = asked[m] /\ m \in 1..(n + 1 - 1) /\ m < n
  BY <1>0, <1>1
<1>3. /\ r.id = n /\ r.handle = g /\ r.state = "pending"
      /\ c.op = "save" /\ c.handle = g /\ c.token = n /\ c \in ACommand
  <2>1. n \in 0..MaxRequests
    BY <1>0, LimitsAreNatural DEF Token
  <2> QED
    BY <1>1, <2>1 DEF ACommand
<1>4. /\ \A q \in requests : q.id \in 1..(n - 1) /\ q.id < n
      /\ \A i \in DOMAIN alerts : IsAnswer(i) => alerts[i].token \in 1..(n - 1) /\ alerts[i].token < n
      /\ \A i \in DOMAIN commands : IsSave(i) => commands[i].token \in 1..(n - 1) /\ commands[i].token < n
  <2>1. \A q \in requests : q.id \in 1..(n - 1) /\ q.id < n
    BY <1>0, LimitsAreNatural DEF RequestsInv, ARequest, Token
  <2> QED
    BY <1>0, <2>1 DEF InOrder
<1> HIDE DEF n, g, r, c
<1>5. /\ \A q \in requests' : q \in requests \/ q = r
      /\ requests \subseteq requests'
  BY <1>1 DEF n, g, r
<1>6. /\ \A i \in DOMAIN commands' : \/ i \in DOMAIN commands /\ commands'[i] = commands[i] /\ i < Len(commands) + 1
                                     \/ i = Len(commands) + 1 /\ commands'[i] = c
      /\ \A i \in DOMAIN commands : i \in DOMAIN commands' /\ commands'[i] = commands[i] /\ i \in Nat
      /\ requests' # requests => commands' = Append(commands, c)
      /\ commands' = Append(commands, c) => Len(commands) + 1 \in DOMAIN commands' /\ commands'[Len(commands) + 1] = c
  <2>0. commands' = commands \/ commands' = Append(commands, c)
    BY <1>1 DEF n, g, c
  <2>1. \A i \in DOMAIN commands : i \in Nat /\ i < Len(commands) + 1
    BY <1>0
  <2>2. CASE commands' = commands
    <3>1. Append(commands, c) # commands
      <4>1. Len(Append(commands, c)) # Len(commands)
        BY <1>0, <1>3
      <4> QED
        BY <4>1
    <3> QED
      BY <1>1, <2>1, <2>2, <3>1 DEF n, g, c
  <2>3. CASE commands' = Append(commands, c)
    BY <1>0, <1>3, <2>1, <2>3, AppendFacts
  <2> QED
    BY <2>0, <2>2, <2>3
<1>7. InOrder'
  <2>1. \A i \in DOMAIN alerts' : IsAnswer(i)' => IsAnswer(i)
    BY <1>0 DEF IsAnswer
  <2>2. \A i \in DOMAIN commands' : IsSave(i)' =>
           \/ i \in DOMAIN commands /\ IsSave(i) /\ commands'[i] = commands[i] /\ i < Len(commands) + 1
           \/ i = Len(commands) + 1 /\ commands'[i] = c
    BY <1>6 DEF IsSave
  <2>3. \A i, j \in DOMAIN commands' : IsSave(i)' /\ IsSave(j)' /\ i < j => commands'[i].token < commands'[j].token
    <3> SUFFICES ASSUME NEW i \in DOMAIN commands', NEW j \in DOMAIN commands', IsSave(i)', IsSave(j)', i < j
                 PROVE  commands'[i].token < commands'[j].token
      OBVIOUS
    <3>1. Len(commands) + 1 \in Nat /\ \A k \in DOMAIN commands : k \in Nat
      BY <1>0
    <3>2. i \in DOMAIN commands /\ IsSave(i) /\ commands'[i] = commands[i]
      BY <2>2, <3>1
    <3>3. CASE j \in DOMAIN commands /\ IsSave(j) /\ commands'[j] = commands[j]
      BY <3>2, <3>3 DEF InOrder
    <3>4. CASE commands'[j] = c
      BY <1>3, <1>4, <3>2, <3>4
    <3> QED
      BY <2>2, <3>3, <3>4
  <2>4. \A i \in DOMAIN alerts', j \in DOMAIN commands' :
          IsAnswer(i)' /\ IsSave(j)' => alerts'[i].token < commands'[j].token
    BY <1>0, <1>3, <1>4, <2>1, <2>2 DEF InOrder
  <2>5. \A i \in DOMAIN alerts' : IsAnswer(i)' =>
          alerts'[i].token \in 1..(nextRequest' - 1) /\ alerts'[i].handle = asked'[alerts'[i].token]
    BY <1>0, <1>2, <1>4, <2>1 DEF InOrder
  <2>6. \A i \in DOMAIN commands' : IsSave(i)' =>
          commands'[i].token \in 1..(nextRequest' - 1) /\ commands'[i].handle = asked'[commands'[i].token]
    <3>1. n \in 1..(n + 1 - 1)
      BY <1>0 DEF Token
    <3> QED
      BY <1>0, <1>2, <1>3, <1>4, <2>2, <3>1 DEF InOrder
  <2>7. \A i, j \in DOMAIN alerts' : IsAnswer(i)' /\ IsAnswer(j)' /\ i < j => alerts'[i].token < alerts'[j].token
    BY <1>0, <2>1 DEF InOrder
  <2> QED
    BY <2>3, <2>4, <2>5, <2>6, <2>7 DEF InOrder
<1>8. RequestsInv'
  <2>1. \A q \in requests' : q.id < nextRequest' /\ asked'[q.id] = q.handle
    <3>1. \A q \in requests : q.id < n + 1 /\ asked'[q.id] = q.handle
      BY <1>0, <1>2, <1>4 DEF RequestsInv
    <3>2. r.id < n + 1 /\ asked'[r.id] = r.handle
      BY <1>0, <1>2, <1>3
    <3> QED
      BY <1>0, <1>5, <3>1, <3>2
  <2>2. \A p, q \in requests' : p.id = q.id => p = q
    <3>1. \A q \in requests : q.id # r.id
      BY <1>0, <1>3, <1>4
    <3> QED
      BY <1>5, <3>1 DEF RequestsInv
  <2>3. \A q \in requests' : q.state # "pending" => q.answer \in 1..(nextRequest' - 1)
    BY <1>0, <1>2, <1>3, <1>5 DEF RequestsInv, n
  <2>4. \A m \in Token : answered'[m] # None => m < nextRequest' /\ answered'[m] \in 1..(nextRequest' - 1)
    <3>1. ASSUME NEW m \in Token, answered[m] # None PROVE m < n + 1 /\ answered[m] \in 1..(n - 1)
      <4>1. m < n /\ m \in Nat /\ answered[m] \in 1..(n - 1)
        BY <1>0, <3>1 DEF RequestsInv, n
      <4> QED
        BY <1>0, <4>1
    <3> QED
      BY <1>0, <1>2, <3>1
  <2> QED
    BY <2>1, <2>2, <2>3, <2>4 DEF RequestsInv
<1>9. AnswersPairUp'
  <2>1. ASSUME NEW m \in Token, answered'[m] # None
        PROVE  /\ asked'[answered'[m]] = asked'[m]
               /\ answered'[m] >= m
               /\ ~lost' => answered'[m] = m
    <3>1. answered[m] # None
      BY <1>0, <2>1
    <3>2. answered[m] \in 1..(n - 1) /\ m \in 1..(n - 1)
      BY <1>0, <3>1 DEF RequestsInv, n, Token
    <3> QED
      BY <1>0, <1>2, <3>1, <3>2 DEF AnswersPairUp
  <2>2. \A q \in requests' : q.state # "pending" =>
          /\ asked'[q.answer] = q.handle
          /\ q.answer >= q.id
          /\ ~lost' => q.answer = q.id
    BY <1>0, <1>2, <1>3, <1>5 DEF AnswersPairUp, RequestsInv, n
  <2> QED
    BY <2>1, <2>2 DEF AnswersPairUp
<1>10. Covered'
  <2>1. \A h : Told(h)' = Told(h)
    BY <1>0 DEF Told, AnswersFor
  <2>2. CASE requests' = requests
    <3>1. commands' = commands
      <4>1. r \notin requests
        BY <1>0, <1>3, <1>4
      <4>2. requests' # requests \cup {r}
        BY <2>2, <4>1
      <4> QED
        BY <1>1, <4>2 DEF n, g, r
    <3>2. \A h \in Handle : Outstanding(h)' = Outstanding(h)
      BY <2>1, <3>1 DEF Outstanding, ToTell, IsSave
    <3>3. closed' = closed /\ lost' = lost /\ lost \in BOOLEAN
      BY <1>0 DEF ShapeInv
    <3> QED
      BY <2>2, <3>2, <3>3, FewerOutstanding
  <2>3. CASE requests' # requests
    <3>1. requests' = requests \cup {r} /\ commands' = Append(commands, c)
      BY <1>1, <2>3 DEF n, g, r, c
    <3>2. \A h : Pending(h)' = IF h = g THEN Pending(h) \cup {n} ELSE Pending(h)
      BY <1>3, <3>1 DEF Pending, Awaits
    <3>3. \A h : ToTell(h)' = IF h = g THEN ToTell(h) \cup {n} ELSE ToTell(h)
      <4>1. \A h, o : o \in ToTell(h)' <=> o \in ToTell(h) \/ (h = g /\ o = n)
        <5> TAKE h, o
        <5>1. o \in ToTell(h)' => o \in ToTell(h) \/ (h = g /\ o = n)
          <6>1. ASSUME NEW i \in DOMAIN commands', IsSave(i)', commands'[i].handle = h, o = commands'[i].token
                PROVE  o \in ToTell(h) \/ (h = g /\ o = n)
            BY <1>3, <1>6, <6>1 DEF ToTell, IsSave
          <6> QED
            BY <6>1 DEF ToTell
        <5>2. o \in ToTell(h) => o \in ToTell(h)'
          BY <1>6 DEF ToTell, IsSave
        <5>3. h = g /\ o = n => o \in ToTell(h)'
          BY <1>3, <1>6, <3>1 DEF ToTell, IsSave
        <5> QED
          BY <5>1, <5>2, <5>3
      <4> HIDE DEF ToTell
      <4> QED
        BY <4>1
    <3>4. \A h : Outstanding(h)' = IF h = g THEN Outstanding(h) \cup {n} ELSE Outstanding(h)
      BY <2>1, <3>3 DEF Outstanding
    <3>5. ASSUME NEW h \in Handle, NEW m \in 0..MaxRequests
          PROVE  Rank(Outstanding(h), m)' <= Rank(Pending(h), m)'
      <4> DEFINE O == Outstanding(h)
                 W == Pending(h)
      <4>1. Rank(O, m) <= Rank(W, m) /\ O \in SUBSET Nat /\ W \in SUBSET Nat /\ m \in Nat
        BY SetsTyped DEF Covered
      <4>2. n \notin W
        BY <1>0, <1>4 DEF Pending
      <4>3. n \notin O
        BY <1>0, <1>4 DEF Outstanding, Told, ToTell, AnswersFor, IsAnswer
      <4>4. /\ Rank(O, m)' = Rank(Outstanding(h)', m) /\ Rank(W, m)' = Rank(Pending(h)', m)
        BY DEF Rank
      <4> HIDE DEF O, W
      <4>n. n \in Nat
        BY <1>0
      <4>o. Rank(O \cup {n}, m) = Rank(O, m) + (IF n <= m THEN 1 ELSE 0)
        BY <4>n, <4>1, <4>3, RankAdd
      <4>w. Rank(W \cup {n}, m) = Rank(W, m) + (IF n <= m THEN 1 ELSE 0)
        BY <4>n, <4>1, <4>2, RankAdd
      <4>5. Rank(O, m) \in Nat /\ Rank(W, m) \in Nat
        BY <4>1, RankNat
      <4>6. Rank(O \cup {n}, m) <= Rank(W \cup {n}, m)
        BY <4>1, <4>o, <4>w, <4>5
      <4> QED
        BY <3>2, <3>4, <4>1, <4>4, <4>6 DEF O, W
    <3>6. ~closed' /\ ~lost' => \A h \in Handle : Outstanding(h)' = Pending(h)'
      BY <1>0, <3>2, <3>4 DEF Covered
    <3> QED
      BY <3>5, <3>6 DEF Covered
  <2> QED
    BY <2>2, <2>3
<1> QED
  BY <1>7, <1>8, <1>9, <1>10
-----------------------------------------------------------------------------
(* The invariant *)

LEMMA BacklogKept ==
  ASSUME BacklogIsNewest, UNCHANGED <<backlog, unseen>>
  PROVE  BacklogIsNewest'
  BY DEF BacklogIsNewest

LEMMA InitInv == Init => IInv
<1> SUFFICES ASSUME Init PROVE IInv
  OBVIOUS
<1>1. DOMAIN backlog = {} /\ Len(backlog) = 0 /\ unseen = 0
  BY NothingIn DEF Init
<1>2. BacklogIsNewest
  BY <1>1, LimitsAreNatural DEF BacklogIsNewest
<1>3. AlertsNameTheirTorrent
  BY <1>1 DEF AlertsNameTheirTorrent
<1> QED
  BY <1>2, <1>3, ShapeInit, RecordsInit, AnswersInit DEF IInv

LEMMA StepInv ==
  ASSUME IInv, Next
  PROVE  IInv'
<1>0. /\ ShapeInv /\ RemovalsOnce /\ RecordsInv /\ InOrder /\ RequestsInv /\ Covered
      /\ AnswersPairUp /\ AlertsNameTheirTorrent /\ BacklogIsNewest /\ ~closed
  BY DEF IInv, Next
<1>1. ASSUME NEW c \in Content, Add(c) PROVE IInv'
  <2>1. UNCHANGED <<backlog, unseen>>
    BY <1>1 DEF Add
  <2> QED
    BY <1>0, <1>1, <2>1, ShapeAdd, RecordsAdd, NamesAdd, AnswersAdd, BacklogKept DEF IInv
<1>2. ASSUME NEW id, RemoveTorrent(id) PROVE IInv'
  <2>1. UNCHANGED <<backlog, unseen, issued>>
    BY <1>2 DEF RemoveTorrent, history
  <2> QED
    BY <1>0, <1>2, <2>1, ShapeRemove, RecordsRemove, NamesKept, AnswersRemove, BacklogKept DEF IInv
<1>3. ASSUME NEW id, SaveResumeData(id) PROVE IInv'
  <2>1. UNCHANGED <<backlog, unseen, issued>>
    BY <1>3 DEF SaveResumeData
  <2> QED
    BY <1>0, <1>3, <2>1, ShapeSave, RecordsSave, NamesKept, AnswersRequested, BacklogKept DEF IInv
<1>4. ASSUME NEW t \in 1..(nextRequest - 1), PollResumeData(t) PROVE IInv'
  BY <1>0, <1>4, PollDrains, ShapeDrain, RecordsDrain, NamesDrain, AnswersDrain DEF IInv
<1>5. CASE SnapshotSession
  <2>1. /\ Drain /\ answered' = answered /\ answered' \in [Token -> 0..MaxRequests]
        /\ \A s \in Settled : s \in requests'
    BY <1>0, <1>5, SnapshotDrains DEF ShapeInv
  <2> QED
    BY <1>0, <2>1, ShapeDrain, RecordsDrain, NamesDrain, AnswersDrain DEF IInv
<1>6. CASE ShutdownSession
  <2>1. UNCHANGED <<backlog, unseen, issued>>
    BY <1>6 DEF ShutdownSession, history
  <2> QED
    BY <1>0, <1>6, <2>1, ShapeShutdown, RecordsShutdown, NamesKept, AnswersShutdown, BacklogKept DEF IInv
<1>7. CASE NativeSave \/ NativeRemove \/ NativeStopped \/ NativeNotice
  <2>1. UNCHANGED <<backlog, unseen, issued>>
    BY <1>7 DEF NativeSave, NativeRemove, NativeStopped, NativeNotice, tables, history
  <2>2. InOrder' /\ RequestsInv' /\ Covered' /\ AnswersPairUp'
    BY <1>0, <1>7, AnswersSave, AnswersNative
  <2> QED
    BY <1>0, <1>7, <2>1, <2>2, ShapeNative, NativeRecords, NamesKept, BacklogKept DEF IInv
<1> QED
  BY <1>1, <1>2, <1>3, <1>4, <1>5, <1>6, <1>7 DEF Next

LEMMA StutterInv ==
  ASSUME IInv, UNCHANGED vars
  PROVE  IInv'
<1>1. UNCHANGED <<closed, nextTorrent, nextRequest, torrents, requests, backlog, swarm, nextHandle,
                  commands, stopping, notices, alerts, dropped, lost, unseen, issued, asked, answered>>
  BY DEF vars, tables, native, queue, history
<1>2. ShapeInv' /\ RemovalsOnce'
  BY <1>1 DEF IInv, ShapeInv, RemovalsOnce
<1>3. RecordsInv'
  BY <1>1 DEF IInv, RecordsInv, Removing, Existing
<1>4. InOrder' /\ RequestsInv' /\ AnswersPairUp'
  BY <1>1 DEF IInv, InOrder, IsAnswer, IsSave, RequestsInv, AnswersPairUp
<1>5. AlertsNameTheirTorrent' /\ BacklogIsNewest'
  BY <1>1, NamesKept, BacklogKept DEF IInv
<1>6. Covered'
  <2>1. \A h : Outstanding(h)' = Outstanding(h)
    BY <1>1 DEF Outstanding, Told, ToTell, AnswersFor, IsSave
  <2>2. Covered /\ ShapeInv
    BY DEF IInv
  <2>3. \A h \in Handle : Outstanding(h)' \subseteq Outstanding(h)
    BY <2>1
  <2>4. lost' \/ (~lost /\ \A h \in Handle : Outstanding(h)' = Outstanding(h))
    BY <1>1, <2>1, <2>2 DEF ShapeInv
  <2> QED
    BY <1>1, <2>2, <2>3, <2>4, FewerOutstanding
<1> QED
  BY <1>2, <1>3, <1>4, <1>5, <1>6 DEF IInv

\* The inductive invariant of the facade and of libtorrent's queues holds.
THEOREM Invariant == Spec => []IInv
<1>1. IInv /\ [Next]_vars => IInv'
  BY StepInv, StutterInv
<1> QED
  BY <1>1, InitInv, PTL DEF Spec
-----------------------------------------------------------------------------
\* Type correctness, the backlog within its limit.
THEOREM TypeCorrect == Spec => []TypeOK
<1>1. ASSUME IInv PROVE TypeOK
  <2>0. ShapeInv /\ BacklogIsNewest
    BY <1>1 DEF IInv
  <2>1. torrents \subseteq [id : TorrentIds, handle : Handle, active : BOOLEAN]
    <3>1. 1..MaxAdds \subseteq TorrentIds
      BY LimitsAreNatural DEF TorrentIds
    <3>2. \A t \in torrents : t \in ATorrent
      BY <2>0 DEF ShapeInv
    <3> QED
      BY <3>1, <3>2 DEF ATorrent
  <2> DEFINE Snapshot == [serial : 1..unseen, kind : Kinds, handle : 0..MaxAdds, torrent : TorrentIds]
  <2>2. /\ backlog \in Seq(ASnapshot) /\ Len(backlog) \in Nat /\ DOMAIN backlog = 1..Len(backlog)
        /\ unseen \in Nat /\ MaxBacklog \in Nat
    BY <2>0, LimitsAreNatural DEF ShapeInv
  <2>3. Len(backlog) <= MaxBacklog /\ Len(backlog) <= unseen
    BY <2>0, <2>2 DEF BacklogIsNewest
  <2>4. \A i \in 1..Len(backlog) : backlog[i] \in Snapshot
    <3> SUFFICES ASSUME NEW i \in 1..Len(backlog) PROVE backlog[i] \in Snapshot
      OBVIOUS
    <3>1. backlog[i] \in ASnapshot
      BY <2>2
    <3>2. backlog[i].serial = unseen - Len(backlog) + i
      BY <2>0, <2>2 DEF BacklogIsNewest
    <3>3. backlog[i].serial \in 1..unseen
      BY <2>2, <2>3, <3>2
    <3> QED
      BY <3>1, <3>3 DEF ASnapshot
  <2>5. backlog \in Seq(Snapshot)
    <3>1. backlog = [i \in 1..Len(backlog) |-> backlog[i]]
      BY <2>2
    <3> HIDE DEF Snapshot
    <3> QED
      BY <2>2, <2>4, <3>1
  <2>6. requests \subseteq [id : Token, handle : Handle, state : States, answer : Token \cup {None}]
    BY <2>0 DEF ShapeInv, ARequest
  <2> QED
    BY <2>0, <2>1, <2>3, <2>5, <2>6 DEF ShapeInv, TypeOK
<1> QED
  BY <1>1, Invariant, PTL

\* A caller's answers are those of its own requests: of the torrent it asked about, and
\* of the very request while libtorrent has dropped none.
THEOREM AnswersAreTheirs == Spec => []AnswersPairUp
<1>1. IInv => AnswersPairUp
  BY DEF IInv
<1> QED
  BY <1>1, Invariant, PTL

\* Each pending request has its answer still to come, whatever the backlog has evicted.
THEOREM NoRequestForgotten == Spec => []PendingAnswersToCome
<1>1. ASSUME IInv PROVE PendingAnswersToCome
  <2> SUFFICES ASSUME ~closed, ~lost, NEW r \in requests, r.state = "pending"
               PROVE  \/ \E j \in DOMAIN commands : commands[j].token = r.id
                      \/ \E j \in DOMAIN alerts : alerts[j].token = r.id
    BY DEF PendingAnswersToCome
  <2>1. r.id \in Pending(r.handle)
    BY DEF Pending, Awaits
  <2>2. r.handle \in Handle
    BY <1>1 DEF IInv, ShapeInv, ARequest
  <2>3. r.id \in Outstanding(r.handle)
    BY <1>1, <2>1, <2>2 DEF IInv, Covered
  <2> QED
    BY <2>3 DEF Outstanding, Told, ToTell, AnswersFor
<1> QED
  BY <1>1, Invariant, PTL

\* The alert of a removal names the ID its torrent was given, no alert another one.
THEOREM AlertsAreNamed == Spec => []AlertsNameTheirTorrent
<1>1. IInv => AlertsNameTheirTorrent
  BY DEF IInv
<1> QED
  BY <1>1, Invariant, PTL

\* The backlog is the newest alerts popped since a snapshot was returned.
THEOREM BacklogIsTheNewest == Spec => []BacklogIsNewest
<1>1. IInv => BacklogIsNewest
  BY DEF IInv
<1> QED
  BY <1>1, Invariant, PTL

\* A torrent ID is issued once in the life of a session: what becomes active has an ID
\* above all that were issued.
THEOREM IdsAreNew == Spec => IdsNeverReused
<1> DEFINE New == \A id \in ActiveIds' \ ActiveIds : id \in nextTorrent..(nextTorrent' - 1)
<1>1. ASSUME IInv, [Next]_vars PROVE New
  <2>0. ShapeInv /\ RecordsInv /\ nextTorrent \in Nat
    BY <1>1, LimitsAreNatural DEF IInv, ShapeInv
  <2>1. ASSUME \A t \in torrents' : t.active => t \in torrents PROVE New
    BY <2>1 DEF ActiveIds
  <2>2. ASSUME NEW c \in Content, Add(c) PROVE New
    <3>1. CASE torrents' = torrents
      BY <2>1, <3>1
    <3>2. CASE torrents' = torrents \cup {[id |-> nextTorrent, handle |-> nextHandle, active |-> TRUE]}
      <4>1. \A id \in ActiveIds' \ ActiveIds : id = nextTorrent
        BY <3>2 DEF ActiveIds
      <4>2. nextTorrent' = nextTorrent + 1
        BY <2>0, <2>2, ShapeAdd
      <4> QED
        BY <2>0, <4>1, <4>2
    <3> QED
      BY <2>0, <2>2, <3>1, <3>2, ShapeAdd
  <2>3. ASSUME NEW id, RemoveTorrent(id) PROVE New
    <3>1. PICK t \in torrents : torrents' = (torrents \ {t}) \cup {[t EXCEPT !.active = FALSE]}
      BY <2>3 DEF RemoveTorrent, FindTorrent
    <3>2. ~[t EXCEPT !.active = FALSE].active
      BY <2>0 DEF ShapeInv, ATorrent
    <3> QED
      BY <2>1, <3>1, <3>2
  <2>4. CASE ProcessAlerts
    <3>1. torrents' \subseteq torrents
      BY <2>4 DEF ProcessAlerts
    <3> QED
      BY <2>1, <3>1
  <2>5. CASE torrents' = torrents
    BY <2>1, <2>5
  <2>6. CASE Next
    <3>1. \/ \E c \in Content : Add(c)
          \/ \E id \in 1..(nextTorrent - 1) : RemoveTorrent(id)
          \/ ProcessAlerts
          \/ torrents' = torrents
      BY <2>6 DEF Next, SaveResumeData, PollResumeData, SnapshotSession, ShutdownSession,
                  NativeSave, NativeRemove, NativeStopped, NativeNotice, tables
    <3> QED
      BY <2>2, <2>3, <2>4, <2>5, <3>1
  <2> QED
    BY <1>1, <2>5, <2>6 DEF vars, tables
<1>2. IInv /\ [Next]_vars => [New]_vars
  BY <1>1
<1> QED
  BY <1>2, Invariant, PTL DEF Spec, IdsNeverReused
=============================================================================
