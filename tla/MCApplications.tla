--------------------------- MODULE MCApplications ---------------------------
(***************************************************************************)
(* The modules of the applications, checked side by side: focus names the  *)
(* one that moves in a behaviour, one of those the run has. They do not    *)
(* interact beyond the store, whose operations the others take over, so    *)
(* that this checks each of them and no product of them.                   *)
(***************************************************************************)
EXTENDS DesktopAuth, CatalogSearch, Publishing, Discovery, CatalogRecords, TorrentTransfers

CONSTANTS
    Focus,   \* the modules that may move
    pa, pb, e1, e2, e3, x, y

VARIABLE focus   \* the module that moves

vars == <<focus, authVars, storeVars, commandVars, taskVars, requestVars, recordVars, transferVars>>
-----------------------------------------------------------------------------
(* Values *)

ReleaseOf(p, i, b) == [publisher |-> p, id |-> i, at |-> i, rank |-> i, body |-> b]
MCRelease == {ReleaseOf(pa, 1, x), ReleaseOf(pa, 2, x), ReleaseOf(pa, 2, y)}
MCArtifact == {[table |-> "tag_claims", id |-> i, issuer |-> pa, revision |-> 1] : i \in 1..2}
MCPresets == << <<e1>>, <<e1, e2>> >>
MCSubmitted == {[dir |-> "blank", network |-> FALSE, limit |-> 0, port |-> None],
                [dir |-> None, network |-> TRUE, limit |-> 3, port |-> 1]}

FeedItem(title, hash, matches) == [title |-> title, hash |-> hash, matches |-> matches]
MCFeed == e1 :> <<FeedItem(2, 1, TRUE), FeedItem(1, 2, TRUE)>>
       @@ e2 :> <<FeedItem(1, 2, TRUE), FeedItem(1, 3, FALSE)>>
       @@ e3 :> <<FeedItem(1, 2, TRUE)>>

\* 1, 2 and 3 are characters, 2 the slash.
Subject(torrentSubject, text) == [torrent |-> torrentSubject, text |-> text]
ObjectAt(path, n) == [path |-> path, size |-> n, digest |-> n]
FilesOf(size, files) == [size |-> size, files |-> files]
MCValues ==
    [key      |-> {5},
     u64      |-> {1, 2},
     choice   |-> {0, 1},
     name     |-> {<<1>>, <<1, 3>>},
     text     |-> {<<>>, <<3>>},
     subject  |-> {Subject(TRUE, <<1>>), Subject(FALSE, <<1>>)},
     subjects |-> {<<Subject(FALSE, <<1>>), Subject(TRUE, <<1>>)>>,
                   <<Subject(TRUE, <<1>>), Subject(FALSE, <<1>>)>>, <<Subject(TRUE, <<1>>)>>},
     source   |-> {[kind |-> 0], [kind |-> 1, uri |-> <<1>>],
                   [kind |-> 2, provenance |-> 3, issuer |-> 5, uri |-> <<1>>]},
     tags     |-> {<<>>, <<<<1>>, <<3>>>>, <<<<3>>, <<1>>>>},
     files    |-> {FilesOf(1, <<ObjectAt(<<3>>, 1)>>), FilesOf(2, <<ObjectAt(<<3>>, 1)>>)},
     objects  |-> {<<>>, <<ObjectAt(<<3>>, 1)>>,
                   <<ObjectAt(<<3, 1>>, 1), ObjectAt(<<3>>, 2)>>, <<ObjectAt(<<3>>, 2), ObjectAt(<<3, 1>>, 1)>>,
                   <<ObjectAt(<<3>>, 2), ObjectAt(<<3, 2, 1>>, 1)>>}]
MCTorrents == [id : {1}, private : BOOLEAN]
MCObservations == [subject : {1}, from : {"info", "top_level", "magnet"},
                   what : {"title", "private", "public", "tracker"}]

FileAt(path, length) == [path |-> path, length |-> length, symlink |-> FALSE]
MetainfoOf(hash, files) == [hash |-> hash, name |-> <<3>>, files |-> files]
MCMetainfo == {MetainfoOf(1, <<FileAt(<<<<3>>>>, 2)>>),
               MetainfoOf(2, <<FileAt(<<<<3>>>>, 2), FileAt(<<<<3, 1>>>>, 0)>>),
               MetainfoOf(3, <<FileAt(<<<<3>>>>, 1), FileAt(<<<<3, 1>>>>, 1), FileAt(<<<<3>>, <<3>>>>, 1)>>)}
Header(kind, first, last) == [kind |-> kind, first |-> first, last |-> last]
MCRangeHeaders == {Header("none", 0, 0), Header("multiple", 0, 0),
                   Header("suffix", 0, 0), Header("suffix", 0, 3), Header("from", 2, 0),
                   Header("range", 1, 5), Header("range", 1, 0)}
-----------------------------------------------------------------------------
Init ==
    /\ focus \in Focus
    /\ AuthInit /\ NoCommands /\ NoTasks /\ NoRequests /\ TransferInit
    /\ IF focus = "store" THEN StoreInit ELSE FreshStore
    /\ IF focus = "records"
         THEN RecordsInit
         ELSE /\ draft = [schema |-> "import"] /\ torrent = [id |-> 1, private |-> FALSE]
              /\ record = Nothing /\ wire = Nothing /\ accepted = Nothing

Next ==
    /\ UNCHANGED focus
    /\ \/ /\ focus = "auth" /\ AuthNext
          /\ UNCHANGED <<storeVars, commandVars, taskVars, requestVars, recordVars, transferVars>>
       \/ /\ focus = "store" /\ StoreNext
          /\ UNCHANGED <<authVars, commandVars, taskVars, requestVars, recordVars, transferVars>>
       \/ /\ focus = "catalog" /\ CatalogNext
          /\ UNCHANGED <<authVars, taskVars, requestVars, recordVars, transferVars>>
       \/ /\ focus = "publishing" /\ PublishingNext
          /\ UNCHANGED <<authVars, commandVars, requestVars, recordVars, transferVars>>
       \/ /\ focus = "discovery" /\ DiscoveryNext
          /\ UNCHANGED <<authVars, commandVars, taskVars, recordVars, transferVars>>
       \/ /\ focus = "records" /\ RecordsNext
          /\ UNCHANGED <<authVars, storeVars, commandVars, taskVars, requestVars, transferVars>>
       \/ /\ focus = "transfers" /\ TransferNext
          /\ UNCHANGED <<authVars, storeVars, commandVars, taskVars, requestVars, recordVars>>

\* Outside "auth" no action that AuthFairness names is ever enabled.
Spec == Init /\ [][Next]_vars /\ AuthFairness

\* Every module keeps its types (Publishing's releases are not those of Release).
TypeOK ==
    /\ AuthTypeOK /\ CatalogTypeOK /\ PublishingTypeOK /\ DiscoveryTypeOK
    /\ RecordsTypeOK /\ TransferTypeOK
    /\ focus # "publishing" => StoreTypeOK

\* Desktop and discovery have a store file each: what its module says of the cached
\* releases is about its own.
RecordsKeepTheirAuthority == focus = "publishing" => RecordsUnderTheirAuthority
SyncedReleasesWerePublished == focus = "publishing" => CachedReleasesWerePublished
\* Publishing replaces the store by that of a new installation.
StoreForgetsNothing == [][focus # "publishing" => ForgetsNothing]_storeVars
RefreshesIndex == focus = "discovery" => FollowedIsIndexed
=============================================================================
