-------------------------- MODULE LibtorrentFacade --------------------------
(* The C++ facade of crates/libtorrent-engine. Calls arrive one at a time,  *)
(* through an exclusive reference; libtorrent's network thread executes the *)
(* commands they queue and posts alerts, which the facade pops whenever a   *)
(* poll or a snapshot calls process_alerts. A handle is the identity of a   *)
(* native torrent; 0 stands for the absence of one. Commands that change    *)
(* no facade state (pause, limits, priorities, ...) are left out. The       *)
(* vectors of torrents and of requests are sets: both grow by the next ID   *)
(* only, so that their order, and which of their records std::find_if       *)
(* meets first, is the order of the IDs.                                    *)
EXTENDS Integers, FiniteSets, FiniteSetsExt, Sequences

CONSTANTS
    Content,      \* info hashes that are added
    MaxBacklog,   \* max_alert_backlog
    QueueLimit,   \* libtorrent's alert_queue_size
    MaxAdds, MaxRequests, MaxNotices  \* bounds on the length of a history

ASSUME LimitsAreNatural ==
    /\ MaxBacklog \in Nat /\ QueueLimit \in Nat
    /\ MaxAdds \in Nat /\ MaxRequests \in Nat

VARIABLES
    closed,       \* the session pointer is null
    nextTorrent,  \* next_torrent_id
    nextRequest,  \* next_resume_request_id
    torrents,     \* set of [id, handle, active]
    requests,     \* set of [id, handle, state, answer]
    backlog,      \* alert_backlog
    swarm,        \* libtorrent: the handle of each content, or 0
    nextHandle,   \* libtorrent: identity of its next torrent
    commands,     \* libtorrent: calls its network thread has yet to execute
    stopping,     \* libtorrent: removed torrents whose storage is stopping
    alerts,       \* libtorrent: the alert queue
    dropped,      \* libtorrent: an alert was dropped since the last pop
    notices,      \* history: alerts posted on libtorrent's own account
    unseen,       \* history: the number of alerts popped since a snapshot
    issued,       \* history: the ID returned to the caller for a handle, or 0
    asked,        \* history: the handle of every request
    answered,     \* history: the answer a terminal poll returned, or 0
    lost          \* history: libtorrent dropped an answer or a removal

native == <<swarm, nextHandle, commands, stopping, notices>>
queue == <<alerts, dropped, lost>>
tables == <<closed, nextTorrent, nextRequest, torrents, requests, backlog>>
history == <<unseen, issued, asked, answered>>
vars == <<tables, native, queue, history>>

Handle == 1..MaxAdds
Token == 1..MaxRequests
None == 0
States == {"pending", "ready", "failed"}
Answers == {"saved", "failed"}
Kinds == Answers \cup {"removed", "notice", "dropped"}

(* An answer carries the token of its request, which the program does not   *)
(* have and no action decides by.                                           *)
Alert(kind, handle, token) == [kind |-> kind, handle |-> handle, token |-> token]

Init ==
    /\ closed = FALSE
    /\ nextTorrent = 1
    /\ nextRequest = 1
    /\ torrents = {}
    /\ requests = {}
    /\ backlog = <<>>
    /\ swarm = [c \in Content |-> None]
    /\ nextHandle = 1
    /\ commands = <<>>
    /\ stopping = {}
    /\ alerts = <<>>
    /\ dropped = FALSE
    /\ notices = 0
    /\ unseen = 0
    /\ issued = [h \in Handle |-> None]
    /\ asked = <<>>
    /\ answered = [t \in Token |-> None]
    /\ lost = FALSE

-----------------------------------------------------------------------------
(* libtorrent *)

(* A critical alert is still queued when three times the limit is.          *)
Room(kind) ==
    Len(alerts) \div (IF kind = "notice" THEN 1 ELSE 3) < QueueLimit

Post(kind, handle, token) ==
    \/ /\ Room(kind)
       /\ alerts' = Append(alerts, Alert(kind, handle, token))
       /\ UNCHANGED <<dropped, lost>>
    \/ /\ ~Room(kind)
       /\ dropped' = TRUE
       /\ lost' = (lost \/ kind # "notice")
       /\ UNCHANGED alerts

(* The data is saved, or an error of libtorrent's or of the serializer is   *)
(* the answer.                                                              *)
NativeSave ==
    /\ commands # <<>>
    /\ Head(commands).op = "save"
    /\ commands' = Tail(commands)
    /\ \E kind \in Answers : Post(kind, Head(commands).handle, Head(commands).token)
    /\ UNCHANGED <<tables, swarm, nextHandle, stopping, notices, history>>

(* A torrent without storage is removed at once, another when its disk jobs *)
(* have stopped.                                                            *)
NativeRemove ==
    /\ commands # <<>>
    /\ Head(commands).op = "remove"
    /\ commands' = Tail(commands)
    /\ LET handle == Head(commands).handle IN
       /\ swarm' = [c \in Content |-> IF swarm[c] = handle THEN None ELSE swarm[c]]
       /\ \/ Post("removed", handle, None) /\ UNCHANGED stopping
          \/ stopping' = stopping \cup {handle} /\ UNCHANGED queue
    /\ UNCHANGED <<tables, nextHandle, notices, history>>

NativeStopped ==
    /\ \E handle \in stopping :
          /\ stopping' = stopping \ {handle}
          /\ Post("removed", handle, None)
    /\ UNCHANGED <<tables, swarm, nextHandle, commands, notices, history>>

(* Any other alert, of the session or of a torrent.                         *)
NativeNotice ==
    /\ notices < MaxNotices
    /\ notices' = notices + 1
    /\ \E handle \in 0..(nextHandle - 1) : Post("notice", handle, None)
    /\ UNCHANGED <<tables, swarm, nextHandle, commands, stopping, history>>

-----------------------------------------------------------------------------
(* process_alerts *)

TorrentIdForHandle(handle) ==
    LET ids == {t.id : t \in {u \in torrents : u.handle = handle}}
    IN  IF ids = {} THEN None ELSE Min(ids)

(* What pop_alerts returns: a last alert tells of those dropped.            *)
Popped == IF dropped THEN Append(alerts, Alert("dropped", None, None)) ELSE alerts

(* The owned copies of the popped alerts, numbered since the last snapshot. *)
Snapshots ==
    [i \in DOMAIN Popped |->
        [serial |-> unseen + i, kind |-> Popped[i].kind, handle |-> Popped[i].handle,
         torrent |-> TorrentIdForHandle(Popped[i].handle)]]

(* Defect: the newest alerts are the ones that go.                          *)
Oldest(log) == SubSeq(log, 1, MaxBacklog)

(* Appending each alert and erasing the oldest at the limit keeps the last  *)
(* MaxBacklog of them.                                                      *)
Newest(log) == SubSeq(log, Len(log) - MaxBacklog + 1, Len(log))

(* Defect: nothing is dropped.                                              *)
Everything(log) == log

Trimmed(log) == IF Len(log) > MaxBacklog THEN Newest(log) ELSE log

Retained == Trimmed(backlog \o Snapshots)

(* Defect: an answer is matched whatever has been answered before.          *)
AwaitsAnything(request, handle) == request.handle = handle

Awaits(request, handle) == request.state = "pending" /\ request.handle = handle

Pending(handle) == {r.id : r \in {q \in requests : Awaits(q, handle)}}

AnswersFor(seen, handle) ==
    {i \in DOMAIN seen : seen[i].kind \in Answers /\ seen[i].handle = handle}

Rank(S, n) == Cardinality({m \in S : m <= n})

(* Each answer goes to the first pending request of its torrent, so the nth *)
(* to the nth.                                                              *)
AnswerTo(request, seen) ==
    LET answers == AnswersFor(seen, request.handle) IN
    {i \in answers :
        /\ Awaits(request, request.handle)
        /\ Rank(answers, i) = Rank(Pending(request.handle), request.id)}

Answered(request, alert) ==
    [request EXCEPT !.state = IF alert.kind = "saved" THEN "ready" ELSE "failed",
                    !.answer = alert.token]

(* The requests once the given alerts have been through                     *)
(* complete_resume_request and fail_resume_request.                         *)
Settle(seen) ==
    {IF AnswerTo(r, seen) = {} THEN r
     ELSE Answered(r, seen[CHOOSE i \in AnswerTo(r, seen) : TRUE]) : r \in requests}

(* Defect: answers are looked for among the alerts that are retained.       *)
SettledFromBacklog == Settle(Trimmed(Popped))

Settled == Settle(Popped)

(* Defect: every inactive record is erased, its alert seen or not.          *)
Finished == {t.id : t \in torrents}

CompletedRemovals ==
    {TorrentIdForHandle(Popped[i].handle) :
        i \in {j \in DOMAIN Popped : Popped[j].kind = "removed"}}

(* The callers give requests' and backlog'.                                 *)
ProcessAlerts ==
    /\ torrents' = {t \in torrents : t.active \/ t.id \notin CompletedRemovals}
    /\ alerts' = <<>>
    /\ dropped' = FALSE
    /\ UNCHANGED <<closed, nextTorrent, nextRequest, native, lost>>

-----------------------------------------------------------------------------
(* The facade's calls. An exception before the first change, an unknown ID  *)
(* and the add of an active torrent change nothing.                         *)

FindTorrent(id) == {t \in torrents : t.id = id /\ t.active}

Existing(handle) == \E t \in torrents : t.active /\ t.handle = handle

(* Defect: IDs count the records there are.                                 *)
NextRecord == Cardinality(torrents) + 1

NewTorrentId == nextTorrent

Enqueue(op, handle, token) ==
    commands' = Append(commands, [op |-> op, handle |-> handle, token |-> token])

(* session::add_torrent waits for the network thread, hence for the         *)
(* commands before it. If the new torrent cannot be described its record is *)
(* taken back, but not its ID.                                              *)
Add(content) ==
    /\ commands = <<>>
    /\ nextHandle <= MaxAdds
    /\ LET handle == IF swarm[content] = None THEN nextHandle ELSE swarm[content]
           record == [id |-> NewTorrentId, handle |-> handle, active |-> TRUE]
       IN  /\ ~Existing(handle)
           /\ swarm' = [swarm EXCEPT ![content] = handle]
           /\ nextHandle' = IF handle = nextHandle THEN nextHandle + 1 ELSE nextHandle
           /\ \/ /\ torrents' = torrents \cup {record}
                 /\ issued' = [issued EXCEPT ![handle] = record.id]
                 /\ UNCHANGED commands
              \/ /\ Enqueue("remove", handle, None)
                 /\ UNCHANGED <<torrents, issued>>
    /\ nextTorrent' = nextTorrent + 1
    /\ UNCHANGED <<closed, nextRequest, requests, backlog, stopping, notices,
                   queue, unseen, asked, answered>>

RemoveTorrent(id) ==
    /\ \E t \in FindTorrent(id) :
          /\ Enqueue("remove", t.handle, None)
          /\ torrents' = (torrents \ {t}) \cup {[t EXCEPT !.active = FALSE]}
    /\ UNCHANGED <<closed, nextTorrent, nextRequest, requests, backlog, swarm,
                   nextHandle, stopping, notices, queue, history>>

(* A command that throws takes its record with it; the token is spent.      *)
SaveResumeData(id) ==
    /\ nextRequest <= MaxRequests
    /\ \E t \in FindTorrent(id) :
          /\ asked' = Append(asked, t.handle)
          /\ \/ /\ requests' = requests \cup
                      {[id |-> nextRequest, handle |-> t.handle,
                        state |-> "pending", answer |-> None]}
                /\ Enqueue("save", t.handle, nextRequest)
             \/ UNCHANGED <<requests, commands>>
    /\ nextRequest' = nextRequest + 1
    /\ UNCHANGED <<closed, nextTorrent, torrents, backlog, swarm, nextHandle,
                   stopping, notices, queue, unseen, issued, answered>>

(* A terminal answer is returned and its request erased; a token that is    *)
(* unknown is reported after the alerts have been processed.                *)
PollResumeData(token) ==
    LET terminal == {r \in Settled : r.id = token /\ r.state # "pending"}
    IN  /\ ProcessAlerts
        /\ backlog' = Retained
        /\ requests' = Settled \ terminal
        /\ answered' = [answered EXCEPT
                          ![token] = IF terminal = {} THEN @
                                     ELSE (CHOOSE r \in terminal : TRUE).answer]
        /\ unseen' = unseen + Len(Popped)
        /\ UNCHANGED <<issued, asked>>

(* A snapshot that cannot describe a torrent fails before it drains.        *)
SnapshotSession ==
    /\ ProcessAlerts
    /\ requests' = Settled
    /\ \/ backlog' = <<>> /\ unseen' = 0
       \/ backlog' = Retained /\ unseen' = unseen + Len(Popped)
    /\ UNCHANGED <<issued, asked, answered>>

ShutdownSession ==
    /\ closed' = TRUE
    /\ swarm' = [c \in Content |-> None]
    /\ commands' = <<>>
    /\ stopping' = {}
    /\ alerts' = <<>>
    /\ dropped' = FALSE
    /\ UNCHANGED <<nextTorrent, nextRequest, torrents, requests, backlog,
                   nextHandle, notices, lost, history>>

Next ==
    /\ ~closed
    /\ \/ \E c \in Content : Add(c)
       \/ \E id \in 1..(nextTorrent - 1) : RemoveTorrent(id) \/ SaveResumeData(id)
       \/ \E t \in 1..(nextRequest - 1) : PollResumeData(t)
       \/ SnapshotSession
       \/ ShutdownSession
       \/ NativeSave \/ NativeRemove \/ NativeStopped \/ NativeNotice

Spec == Init /\ [][Next]_vars

-----------------------------------------------------------------------------
TorrentIds == 0..MaxAdds

(* Type invariant; the backlog keeps within its limit.                      *)
TypeOK ==
    /\ closed \in BOOLEAN /\ dropped \in BOOLEAN /\ lost \in BOOLEAN
    /\ nextTorrent \in 1..(MaxAdds + 1)
    /\ nextRequest \in 1..(MaxRequests + 1)
    /\ nextHandle \in 1..(MaxAdds + 1)
    /\ torrents \subseteq [id : TorrentIds, handle : Handle, active : BOOLEAN]
    /\ requests \subseteq
          [id : Token, handle : Handle, state : States, answer : Token \cup {None}]
    /\ backlog \in Seq([serial : 1..unseen, kind : Kinds, handle : 0..MaxAdds,
                        torrent : TorrentIds])
    /\ Len(backlog) <= MaxBacklog
    /\ Len(alerts) <= 3 * QueueLimit
    /\ swarm \in [Content -> 0..MaxAdds]
    /\ issued \in [Handle -> TorrentIds]
    /\ answered \in [Token -> 0..MaxRequests]

(* The answers a caller gets belong to its own request: to the torrent it   *)
(* asked about, not older than the request, and to that very request unless *)
(* libtorrent has dropped an answer. The facade matches by torrent only.    *)
AnswersPairUp ==
    /\ \A t \in Token : answered[t] # None =>
          /\ asked[answered[t]] = asked[t]
          /\ answered[t] >= t
          /\ ~lost => answered[t] = t
    /\ \A r \in requests : r.state # "pending" =>
          /\ asked[r.answer] = r.handle
          /\ r.answer >= r.id
          /\ ~lost => r.answer = r.id

(* No pending request is forgotten: until libtorrent drops an answer, each  *)
(* has its own still to come, however many alerts were evicted.             *)
PendingAnswersToCome ==
    ~closed /\ ~lost => \A r \in requests : r.state = "pending" =>
        \/ \E j \in DOMAIN commands : commands[j].token = r.id
        \/ \E j \in DOMAIN alerts : alerts[j].token = r.id

(* A removal stays observable: the torrent_removed alert in the backlog     *)
(* names the ID its torrent was given, and other alerts never name another. *)
AlertsNameTheirTorrent ==
    \A i \in DOMAIN backlog :
        LET alert == backlog[i] IN
        alert.handle # None =>
            \/ alert.torrent = issued[alert.handle]
            \/ alert.torrent = None /\ alert.kind # "removed"

(* The backlog is the newest alerts popped since the last snapshot, all of  *)
(* them below the limit: evictions take the oldest, failed snapshots none.  *)
BacklogIsNewest ==
    /\ Len(backlog) = IF unseen < MaxBacklog THEN unseen ELSE MaxBacklog
    /\ \A i \in DOMAIN backlog : backlog[i].serial = unseen - Len(backlog) + i

ActiveIds == {t.id : t \in {u \in torrents : u.active}}

(* A torrent ID is issued once: what becomes active has an ID no torrent of *)
(* the session had before.                                                  *)
IdsNeverReused ==
    [][\A id \in ActiveIds' \ ActiveIds : id \in nextTorrent..(nextTorrent' - 1)]_vars
=============================================================================
