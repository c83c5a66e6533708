-------------------------- MODULE TorrentTransfers --------------------------
(***************************************************************************)
(* Torrents of the desktop application: the commands that import, select,  *)
(* pause and forget them (apps/desktop/src-tauri), the wrapper around      *)
(* librqbit that validates what they are made of (crates/torrent-engine),  *)
(* and the loopback server that streams their files (crates/stream-        *)
(* gateway). Metainfo comes from peers, files and qBittorrent and may      *)
(* declare any files. Commands interleave wherever they wait for the       *)
(* session.                                                                *)
(*                                                                         *)
(* A path is a sequence of components, a component one of characters;      *)
(* 0 stands for a character, or a name, that no component may have.        *)
(***************************************************************************)
EXTENDS Integers, FiniteSets, Sequences, SequencesExt

CONSTANTS
    Metainfo,       \* what is imported: [hash, name, files], a file [path, length, symlink]
    Importers,      \* import commands that may be in progress together
    TorrentIds,     \* session IDs
    MaxFiles,       \* MetainfoLimits: max_files,
    MaxBytes,       \*   max_total_bytes,
    MaxComponents,  \*   max_path_components
    Selections,     \* the files callers select; {} for no selection
    RangeHeaders    \* Range headers: [kind, first, last]

ASSUME LimitsNotZero == {MaxFiles, MaxBytes, MaxComponents} \subseteq Nat \ {0}
ASSUME TorrentIdsAssumption == IsFiniteSet(TorrentIds)
ASSUME FilesAssumption ==
    \A meta \in Metainfo : meta.files \in Seq([path : Seq(Seq(Nat)), length : Nat, symlink : BOOLEAN])
ASSUME RangeHeadersAssumption == \A header \in RangeHeaders : header.first \in Nat /\ header.last \in Nat

VARIABLES
    managed,   \* torrents of the session: [id, meta, only, paused]
    transfer,  \* the import each importer is in
    response   \* the answer of the gateway that its client is reading

transferVars == <<managed, transfer, response>>
-----------------------------------------------------------------------------
(* validate_metainfo *)

ComponentOk(component) == component # <<>> /\ 0 \notin ToSet(component)

\* Paths of files: those listed, or the name of a single file. limited: with the
\* limits of the engine, which a torrent of one's own need not keep.
FileOk(file, limited) ==
    /\ ~file.symlink
    /\ file.path # <<>>
    /\ limited => Len(file.path) <= MaxComponents
    /\ \A i \in DOMAIN file.path : ComponentOk(file.path[i])
Total(meta) == FoldLeft(LAMBDA sum, file : sum + file.length, 0, meta.files)

\* The order of byte strings, and of sequences of them: what they first differ in
\* decides, and a prefix comes first. Defect: paths are ordered as the strings they are
\* displayed as (2 is the slash).
NameBefore(s, t) ==
    \E n \in 0..Len(s) :
       /\ n < Len(t)
       /\ \A k \in 1..n : s[k] = t[k]
       /\ n = Len(s) \/ s[n + 1] < t[n + 1]
DisplayedBefore(p, q) ==
    LET Text(path) == Tail(FlattenSeq([i \in DOMAIN path |-> <<2>> \o path[i]]))
    IN NameBefore(Text(p), Text(q))
PathBefore(p, q) ==
    \E n \in 0..Len(p) :
       /\ n < Len(q)
       /\ \A k \in 1..n : p[k] = q[k]
       /\ n = Len(p) \/ NameBefore(p[n + 1], q[n + 1])

\* Sorted, i comes before j, in whatever order what is equal is left in; the windows are
\* the neighbours, and no other paths are compared.
SortedBefore(paths, i, j) ==
    PathBefore(paths[i], paths[j]) \/ (paths[i] = paths[j] /\ i < j)
Windows(paths) ==
    {w \in (DOMAIN paths) \X (DOMAIN paths) :
       /\ SortedBefore(paths, w[1], w[2])
       /\ ~ \E k \in DOMAIN paths : SortedBefore(paths, w[1], k) /\ SortedBefore(paths, k, w[2])}
PathsApart(meta) ==
    LET paths == [i \in DOMAIN meta.files |-> meta.files[i].path]
    IN \A w \in Windows(paths) : ~IsPrefix(paths[w[1]], paths[w[2]])

Validated(meta, limited) ==
    /\ ComponentOk(meta.name)
    /\ meta.files # <<>>
    /\ limited => Len(meta.files) <= MaxFiles
    /\ \A i \in DOMAIN meta.files : FileOk(meta.files[i], limited)
    /\ PathsApart(meta)
    /\ Total(meta) > 0             \* a sum beyond u64 is refused as well
    /\ limited => Total(meta) <= MaxBytes
Accepted == {meta \in Metainfo : Validated(meta, TRUE)}
Creatable == {meta \in Metainfo : Validated(meta, FALSE)}

\* only_files of an add.
SelectionOk(meta, only) == only \subseteq DOMAIN meta.files
Selected(meta, only) == IF only = {} THEN DOMAIN meta.files ELSE only
-----------------------------------------------------------------------------
(* Imports *)

NoTransfer == [pc |-> "idle"]
NoResponse == [status |-> "none"]
TransferTypeOK ==
    /\ \A t \in managed : t.id \in TorrentIds /\ t.meta \in Metainfo /\ t.paused \in BOOLEAN
    /\ \A i \in Importers : transfer[i].pc \in {"idle", "resolving", "adding"}
    /\ response.status \in {"none", "not_found", "conflict", "failed", "not_satisfiable", "ok", "partial"}

TransferInit ==
    /\ managed = {}
    /\ transfer = [i \in Importers |-> NoTransfer]
    /\ response = NoResponse

InState(i, pc) == transfer[i].pc = pc
Managed(hash) == \E t \in managed : t.meta.hash = hash
Adding(i, meta, only) ==
    transfer' = [transfer EXCEPT ![i] = [pc |-> "adding", meta |-> meta, only |-> only]]
Refuse(i) == transfer' = [transfer EXCEPT ![i] = NoTransfer]

\* import_magnet and download_release: add_magnet begins to resolve the link.
ImportMagnet(i, meta, only) ==
    /\ InState(i, "idle")
    /\ transfer' = [transfer EXCEPT ![i] = [pc |-> "resolving", meta |-> meta, only |-> only]]
    /\ UNCHANGED <<managed, response>>

\* Its answer: a torrent that is managed, by now, is an error; the metainfo is
\* validated, and added in a second request.
MagnetResolved(i) ==
    /\ InState(i, "resolving")
    /\ LET meta == transfer[i].meta
           only == transfer[i].only
       IN IF ~Managed(meta.hash) /\ meta \in Accepted /\ SelectionOk(meta, only)
            THEN Adding(i, meta, only) ELSE Refuse(i)
    /\ UNCHANGED <<managed, response>>

\* import_torrent_file and import_completed_qbittorrent_torrent: add_metainfo.
ImportFile(i, meta, only) ==
    /\ InState(i, "idle")
    /\ meta \in Accepted /\ SelectionOk(meta, only)
    /\ Adding(i, meta, only)
    /\ UNCHANGED <<managed, response>>

\* create_release: create_torrent, without limits, and add_metainfo, with them.
CreateAndSeed(i, meta) ==
    /\ InState(i, "idle")
    /\ meta \in Creatable /\ meta \in Accepted
    /\ Adding(i, meta, {})
    /\ UNCHANGED <<managed, response>>

\* The session adds the torrent, unless it manages it, however it was added: then the
\* caller gets that one, its own selection ignored. IDs may be given out again.
AddToSession(i) ==
    /\ InState(i, "adding")
    /\ LET meta == transfer[i].meta IN
       IF Managed(meta.hash)
         THEN UNCHANGED managed
         ELSE \E id \in TorrentIds \ {t.id : t \in managed} :
                 managed' = managed \cup
                    {[id |-> id, meta |-> meta, only |-> Selected(meta, transfer[i].only), paused |-> FALSE]}
    /\ Refuse(i)
    /\ UNCHANGED response
-----------------------------------------------------------------------------
(* Torrents that are managed *)

\* pause_torrent, resume_torrent: idempotent.
SetPaused(t, paused) ==
    /\ t \in managed
    /\ managed' = (managed \ {t}) \cup {[t EXCEPT !.paused = paused]}
    /\ UNCHANGED <<transfer, response>>

\* update_torrent_files: here an empty selection is refused.
UpdateFiles(t, files) ==
    /\ t \in managed
    /\ files # {} /\ files \subseteq DOMAIN t.meta.files
    /\ managed' = (managed \ {t}) \cup {[t EXCEPT !.only = files]}
    /\ UNCHANGED <<transfer, response>>

\* forget_torrent: the files stay.
ForgetTorrent(t) ==
    /\ t \in managed
    /\ managed' = managed \ {t}
    /\ UNCHANGED <<transfer, response>>

\* The process ends; the session's persistence brings its torrents back.
RestartEngine ==
    /\ transfer # [i \in Importers |-> NoTransfer]
    /\ transfer' = [i \in Importers |-> NoTransfer]
    /\ response' = NoResponse
    /\ UNCHANGED managed
-----------------------------------------------------------------------------
(* stream_file *)

\* A range ends with the file at the latest. Defect: it ends where it says.
EndsAsGiven(last, length) == last
EndsWithin(last, length) == IF last < length - 1 THEN last ELSE length - 1
\* Several ranges, another unit and what is malformed are refused as well.
OneRange == {"none", "suffix", "from", "range"}
NotSatisfiable == [start |-> 0, end |-> -1]
ParseRange(header, length) ==
    LET range == CASE header.kind = "none"   -> [start |-> 0, end |-> length - 1]
                   [] header.kind = "suffix" -> [start |-> IF header.last > length THEN 0 ELSE length - header.last,
                                                 end |-> length - 1]
                   [] header.kind = "from"   -> [start |-> header.first, end |-> length - 1]
                   [] header.kind = "range"  -> [start |-> header.first, end |-> EndsWithin(header.last, length)]
                   [] OTHER                  -> NotSatisfiable
    IN IF length = 0 \/ range.start >= length \/ range.end < range.start THEN NotSatisfiable ELSE range

FileAnswer(length, header) ==
    LET range == ParseRange(header, length)
    IN [status |-> IF range = NotSatisfiable THEN "not_satisfiable"
                   ELSE IF header.kind = "none" THEN "ok" ELSE "partial",
        length |-> length, header |-> header, start |-> range.start, end |-> range.end]

\* Everything up to the seek is one step: the torrent cannot go meanwhile. librqbit may
\* have no metadata of the torrent or no stream of the file (409), or fail to seek (500).
StreamFile(id, index, header) ==
    /\ response = NoResponse
    /\ \/ /\ \A t \in managed : t.id # id
          /\ response' = [status |-> "not_found"]
       \/ \E t \in managed :
             /\ t.id = id
             /\ \/ response' = [status |-> "conflict"]
                \/ index \notin DOMAIN t.meta.files /\ response' = [status |-> "not_found"]
                \/ /\ index \in DOMAIN t.meta.files
                   /\ LET answer == FileAnswer(t.meta.files[index].length, header) IN
                      \/ response' = answer
                      \/ answer.status # "not_satisfiable" /\ response' = [status |-> "failed"]
    /\ UNCHANGED <<managed, transfer>>
ResponseRead ==
    /\ response # NoResponse
    /\ response' = NoResponse
    /\ UNCHANGED <<managed, transfer>>

TransferNext ==
    \/ \E i \in Importers :
          \/ \E meta \in Metainfo, only \in Selections :
                ImportMagnet(i, meta, only) \/ ImportFile(i, meta, only)
          \/ \E meta \in Metainfo : CreateAndSeed(i, meta)
          \/ MagnetResolved(i) \/ AddToSession(i)
    \/ \E t \in managed :
          \/ \E paused \in BOOLEAN : SetPaused(t, paused)
          \/ \E files \in SUBSET DOMAIN t.meta.files : UpdateFiles(t, files)
          \/ ForgetTorrent(t)
    \/ RestartEngine
    \/ \E id \in TorrentIds, index \in {1, 2}, header \in RangeHeaders : StreamFile(id, index, header)
    \/ ResponseRead

TransferSpec == TransferInit /\ [][TransferNext]_transferVars
-----------------------------------------------------------------------------
(* Properties *)

\* No file of a torrent that is managed is written where another one of it is, or
\* where it has a directory: sorted by components, colliding paths are neighbours.
\* Its selection names files it has, and is not empty.
FilesApart ==
    \A t \in managed :
       /\ \A i, j \in DOMAIN t.meta.files :
             i # j => ~IsPrefix(t.meta.files[i].path, t.meta.files[j].path)
       /\ t.only # {} /\ t.only \subseteq DOMAIN t.meta.files

\* An ID names one torrent, and a torrent is managed once, however imports of it
\* interleave: a request finds the file its index was checked against.
ManagedOnce ==
    \A s, t \in managed : s.id = t.id \/ s.meta.hash = t.meta.hash => s = t

\* The bytes that a Range header of one range asks for (RFC 9110, 14.1.2): those are
\* sent, and 416 is answered only if there are none. With any other header nothing is sent.
Requested(header, length) ==
    {b \in 0..(length - 1) :
       CASE header.kind = "none"   -> TRUE
         [] header.kind = "suffix" -> b + header.last >= length
         [] header.kind = "from"   -> b >= header.first
         [] header.kind = "range"  -> header.first <= b /\ b <= header.last}
RangesAreExact ==
    response.status \in {"ok", "partial", "not_satisfiable"} =>
       IF response.header.kind \in OneRange
         THEN response.start..response.end = Requested(response.header, response.length)
         ELSE response.status = "not_satisfiable"
TransfersAreSound == FilesApart /\ ManagedOnce /\ RangesAreExact
=============================================================================
