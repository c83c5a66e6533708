--------------------------- MODULE CatalogRecords ---------------------------
(***************************************************************************)
(* The records of crates/swarm-protocol: tag claims, collections,          *)
(* tombstones, moderation decisions, blocklists, releases, manifests and   *)
(* catalogue imports. One is made from an issuer's input, travels as a     *)
(* document that may come back with any content, and is accepted or        *)
(* refused by its reader. IDs are hashes of canonical bytes: here they     *)
(* are those bytes, as numbers.                                            *)
(*                                                                         *)
(* Every field has a type, and Layout lists those of each schema. Numbers, *)
(* keys and hashes have a fixed width and are one byte here; strings have  *)
(* as many as they have characters.                                        *)
(***************************************************************************)
EXTENDS Integers, FiniteSets, Sequences, SequencesExt

CONSTANTS
    Values,       \* Values[t]: the values of fields of type t that are submitted
    MaxSubjects,  \* MAX_ARTIFACT_SUBJECTS
    Torrents,     \* torrents that are imported: [id, private]
    Observations  \* observations that may be in a document

ASSUME MaxSubjectsAssumption == MaxSubjects \in Nat

VARIABLES
    draft,     \* what the issuer submits, [schema, fields]
    record,    \* the record made of it
    wire,      \* the document a reader gets for it
    accepted,  \* what the reader makes of that
    torrent    \* the torrent an import is about

recordVars == <<draft, record, wire, accepted, torrent>>

\* The types of the fields, in the order of the canonical bytes (schema and version are
\* in the domain prefix).
TagClaimV1           == <<"key", "subject", "name", "choice", "u64", "u64", "source">>
CollectionV1         == <<"key", "name", "text", "subjects", "u64", "u64", "source">>
TombstoneV1          == <<"key", "subject", "text", "u64", "u64", "source">>
ModerationDecisionV1 == <<"key", "subject", "choice", "text", "u64", "u64", "source">>
BlocklistV1          == <<"key", "name", "subjects", "u64", "u64", "source">>
ReleaseV1            == <<"key", "u64", "key", "name", "text", "files", "tags">>
DatasetManifestV1    == <<"key", "u64", "objects">>
Layout == [tag_claim |-> TagClaimV1, collection |-> CollectionV1, tombstone |-> TombstoneV1,
           moderation |-> ModerationDecisionV1, blocklist |-> BlocklistV1,
           release |-> ReleaseV1, manifest |-> DatasetManifestV1]

\* The ID of a release covers its publisher, time and info hash only (ReleaseId::derive).
Covered(schema) == IF schema = "release" THEN 1..3 ELSE DOMAIN Layout[schema]
Nothing == [schema |-> "none"]
Refused == [schema |-> "refused"]

\* The values of a type. Sources are Direct (0), Uri (1) and Import (2); the empty URI
\* of an import is its absent locator, and IndexerClaim (3) names an issuer.
Text == Seq(Nat)
SubjectRef == [torrent : BOOLEAN, text : Text]
Object == [path : Text, size : Nat, digest : Nat]
SourceAttribution ==
    [kind : {0}] \cup [kind : {1}, uri : Text]
    \cup [kind : {2}, provenance : {0, 1, 2, 4}, uri : Text]
    \cup [kind : {2}, provenance : {3}, issuer : Nat, uri : Text]
ValueOf(type) ==
    CASE type \in {"key", "u64", "choice"} -> Nat
      [] type \in {"name", "text"}         -> Text
      [] type = "subject"                  -> SubjectRef
      [] type = "subjects"                 -> Seq(SubjectRef)
      [] type = "source"                   -> SourceAttribution
      [] type = "tags"                     -> Seq(Text)
      [] type = "files"                    -> [size : Nat, files : Seq(Object)]
      [] type = "objects"                  -> Seq(Object)
FieldTypes == {"key", "u64", "choice", "name", "text", "subject", "subjects", "source", "tags",
               "files", "objects"}
ASSUME ValuesAssumption == \A type \in FieldTypes : Values[type] \subseteq ValueOf(type)
-----------------------------------------------------------------------------
(* Canonical bytes: CanonicalWriter *)

\* string: the length, then the bytes. Defect: the bytes alone.
StringUnprefixed(s) == s
String(s) == <<Len(s)>> \o s

SubjectBytes(s) == <<IF s.torrent THEN 0 ELSE 1>> \o String(s.text)
SourceBytes(s) ==
    <<s.kind>> \o
    (IF s.kind = 0 THEN <<>>                                       \* Direct
     ELSE IF s.kind = 1 THEN String(s.uri)                         \* Uri
     ELSE <<s.provenance>>                                         \* Import
          \o (IF s.provenance = 3 THEN <<s.issuer>> ELSE <<>>)
          \o (IF s.uri = <<>> THEN <<0>> ELSE <<1>> \o String(s.uri)))
ObjectBytes(o) == String(o.path) \o <<o.size, o.digest>>
List(seq, Bytes(_)) == <<Len(seq)>> \o FlattenSeq([i \in DOMAIN seq |-> Bytes(seq[i])])

FieldBytes(type, v) ==
    CASE type \in {"key", "u64", "choice"} -> <<v>>
      [] type \in {"name", "text"}         -> String(v)
      [] type = "subject"                  -> SubjectBytes(v)
      [] type = "subjects"                 -> List(v, SubjectBytes)
      [] type = "source"                   -> SourceBytes(v)
      [] type = "objects"                  -> List(v, ObjectBytes)

\* to_canonical_bytes, after the domain prefix; ReleaseId::derive.
Canonical(d) ==
    FlattenSeq([i \in DOMAIN d.fields |->
        IF i \in Covered(d.schema) THEN FieldBytes(Layout[d.schema][i], d.fields[i]) ELSE <<>>])
-----------------------------------------------------------------------------
(* Validation *)

\* The order of strings, byte by byte.
Before(s, t) ==
    \E n \in 0..Len(s) :
       /\ n < Len(t)
       /\ SubSeq(s, 1, n) = SubSeq(t, 1, n)
       /\ n = Len(s) \/ s[n + 1] < t[n + 1]
SubjectBefore(s, t) == \/ s.torrent /\ ~t.torrent
                       \/ s.torrent = t.torrent /\ Before(s.text, t.text)
Ascending(seq, Less(_, _)) == \A i \in 1..(Len(seq) - 1) : Less(seq[i], seq[i + 1])

\* Paths are compared as strings, and neighbours only are tested for a file that is
\* also a directory: in a, a-b, a/c it is not found. 2 is the slash.
Slash == 2
PathsOk(objects) ==
    /\ Ascending(objects, LAMBDA o, p : Before(o.path, p.path))
    /\ \A i \in 1..(Len(objects) - 1) :
          ~IsPrefix(Append(objects[i].path, Slash), objects[i + 1].path)

\* validate_torrent sorts the paths itself; the sizes add up to that of the torrent.
FilesOk(v) ==
    LET sorted == SortSeq(v.files, LAMBDA o, p : Before(o.path, p.path)) IN
    /\ v.files # <<>>
    /\ v.size > 0 /\ v.size = FoldLeft(LAMBDA sum, o : sum + o.size, 0, v.files)
    /\ PathsOk(sorted)

FieldOk(type, v) ==
    CASE type = "u64"      -> v > 0
      [] type = "name"     -> v # <<>>
      [] type = "subjects" -> v # <<>> /\ Len(v) <= MaxSubjects /\ Ascending(v, SubjectBefore)
      \* what an indexer says comes with the address it says it at
      [] type = "source"   -> ~(v.kind = 2 /\ v.provenance = 3 /\ v.uri = <<>>)
      [] type = "objects"  -> PathsOk(v)
      [] type = "files"    -> FilesOk(v)
      [] type = "tags"     -> Ascending(v, Before)
      [] OTHER             -> TRUE

Valid(d) == \A i \in DOMAIN d.fields : FieldOk(Layout[d.schema][i], d.fields[i])

\* CollectionV1, BlocklistV1 and DatasetManifestV1 sort on creation only: what is
\* equal is left in any order.
Arrangements(seq) == {[i \in DOMAIN seq |-> seq[p[i]]] : p \in Bijection(DOMAIN seq, DOMAIN seq)}
SortedValues(type, v) ==
    CASE type = "subjects" ->
           {seq \in Arrangements(v) : Ascending(seq, LAMBDA s, t : ~SubjectBefore(t, s))}
      [] type = "objects"  ->
           {seq \in Arrangements(v) : Ascending(seq, LAMBDA o, p : ~Before(p.path, o.path))}
      [] OTHER -> {v}

\* Records of 3, 6 or 7 fields, each from a set.
Drafted(schema, Of(_)) ==
    {[schema |-> schema, fields |-> fields] : fields \in
       CASE Len(Layout[schema]) = 3 -> Of(1) \X Of(2) \X Of(3)
         [] Len(Layout[schema]) = 6 -> Of(1) \X Of(2) \X Of(3) \X Of(4) \X Of(5) \X Of(6)
         [] Len(Layout[schema]) = 7 -> Of(1) \X Of(2) \X Of(3) \X Of(4) \X Of(5) \X Of(6) \X Of(7)}
SortedDrafts(d) == Drafted(d.schema, LAMBDA i : SortedValues(Layout[d.schema][i], d.fields[i]))

WithId(d) == [schema |-> d.schema, fields |-> d.fields, id |-> Canonical(d)]
\* The constructors, once they have sorted, and the deserializers: the ID must be that
\* of the content.
New(d) == IF Valid(d) THEN WithId(d) ELSE Refused
Parsed(d) == IF Valid(d) /\ d.id = Canonical(d) THEN d ELSE Refused
-----------------------------------------------------------------------------
(* Imports: what may be said of a torrent, by whom *)

Titles == {"info", "magnet"} \X {"title"}
AuthenticatedFacts == {"info"} \X {"private", "public", "extension", "file_type"}
Hints == {"top_level"} \X {"comment", "creator", "date", "tracker", "relation"}
Trackers == {"magnet", "indexer", "client"} \X {"tracker"}
Suggestions == {"indexer", "client"} \X {"suggestion"}

\* ImportObservation::validate: which value may come from which provenance (of the
\* suggestions of the local client, qBittorrent's only).
ObservationOk(o) ==
    <<o.from, o.what>> \in Titles \cup AuthenticatedFacts \cup Hints \cup Trackers \cup Suggestions

\* map_*: what the mappers make of one torrent: its flag is one of the observations.
Mapped(t) == {o \in Observations : /\ ObservationOk(o) /\ o.subject = t.id
                                   /\ o.what \in {"private", "public"} =>
                                        o.what = IF t.private THEN "private" ELSE "public"}

\* PublicCatalogImport::validate. Defect: an import that says nothing is public.
NotPrivate(subject, obs) ==
    /\ obs # {}
    /\ \A o \in obs : o.subject = subject /\ ObservationOk(o) /\ o.what # "private"
PublicImport(subject, obs) ==
    /\ obs # {}
    /\ \A o \in obs : o.subject = subject /\ ObservationOk(o) /\ o.what # "private"
    /\ \E o \in obs : o.what = "public"
ImportOf(subject, obs) ==
    IF PublicImport(subject, obs)
      THEN [schema |-> "import", subject |-> subject, obs |-> obs] ELSE Refused
-----------------------------------------------------------------------------
Drafts(schema) == Drafted(schema, LAMBDA i : Values[Layout[schema][i]])

RecordsTypeOK ==
    /\ draft.schema \in DOMAIN Layout \cup {"import"}
    /\ record.schema \in {draft.schema, "none", "refused"}
    /\ wire.schema \in {draft.schema, "none"} /\ accepted.schema \in {draft.schema, "none", "refused"}

RecordsInit ==
    /\ record = Nothing /\ wire = Nothing /\ accepted = Nothing
    /\ \/ /\ draft \in UNION {Drafts(schema) : schema \in DOMAIN Layout}
          /\ torrent = [id |-> 0, private |-> FALSE]
       \/ /\ draft = [schema |-> "import"]
          /\ torrent \in Torrents

Create ==
    /\ record = Nothing /\ draft.schema # "import"
    /\ \E d \in SortedDrafts(draft) : record' = New(d)
    /\ UNCHANGED <<draft, wire, accepted, torrent>>
\* An importer may have lost some observations.
Import ==
    /\ record = Nothing /\ draft.schema = "import"
    /\ \E obs \in SUBSET Mapped(torrent) : record' = ImportOf(torrent.id, obs)
    /\ UNCHANGED <<draft, wire, accepted, torrent>>

\* What is served under the ID of the record: any content of its type.
Serve ==
    /\ record.schema \in DOMAIN Layout /\ wire = Nothing
    /\ \E d \in Drafts(record.schema) :
          wire' = [schema |-> d.schema, fields |-> d.fields, id |-> record.id]
    /\ UNCHANGED <<draft, record, accepted, torrent>>
Read ==
    /\ wire # Nothing /\ accepted = Nothing
    /\ accepted' = Parsed(wire)
    /\ UNCHANGED <<draft, record, wire, torrent>>

RecordsNext == Create \/ Import \/ Serve \/ Read
RecordsSpec == RecordsInit /\ [][RecordsNext]_recordVars
-----------------------------------------------------------------------------
(* Properties *)

\* A record that is accepted under an ID is the one the ID was made for, in every
\* field the ID covers: caches that keep the first record of an ID, and readers
\* that compare a manifest's digest, rely on it. So the encoding of the fields can
\* be split in one way only.
IdsBindContent ==
    accepted.schema \in DOMAIN Layout =>
       \A i \in Covered(record.schema) : accepted.fields[i] = record.fields[i]

\* A private torrent never gets into a public import, whatever part of what was
\* observed of it is submitted, and in particular without its own flag.
ImportsArePublic == record.schema = "import" => ~torrent.private
AcceptedIsGenuine == IdsBindContent /\ ImportsArePublic
=============================================================================
