\* Bounds: two of everything that overlaps (polls, callers, tasks, refreshes, importers);
\* three store operations; three endpoints for two rows besides the preset; three revisions and
\* listings of two claims; the homeserver of pa may serve records that name pb.
SPECIFICATION Spec
CONSTANTS
    Focus = {"auth", "store", "catalog", "publishing", "discovery", "records", "transfers"}
    pa = pa  pb = pb  e1 = e1  e2 = e2  e3 = e3  x = x  y = y
    Publisher = {pa, pb}
    None = None
    Polls = {p1, p2}
    NoPoll = NoPoll
    MaxFlows = 2
    Release <- MCRelease
    Artifact <- MCArtifact
    MaxSequence = 2
    Endpoint = {e1, e2, e3}
    Presets <- MCPresets
    MaxSources = 2
    MaxLimit = 2
    MaxPort = 1
    Submitted <- MCSubmitted
    MaxOps = 3
    Callers = {c1, c2}
    Feed <- MCFeed
    SearchLimit = 3
    MaxResults = 3
    Tasks = {t1, t2}
    Requests = {{1, 2}}
    MaxRevision = 3
    ListLimit = 2
    Strangers = {pb}
    MaxCommands = 2
    Refreshes = {f1, f2}
    Listing = 3
    Asked = 2
    MaxPage = 1
    MaxOffset = 3
    Matching = {x}
    MaxPuts = 2
    Values <- MCValues
    MaxSubjects = 2
    Torrents <- MCTorrents
    Observations <- MCObservations
    Metainfo <- MCMetainfo
    Importers = {i1, i2}
    TorrentIds = {1, 2}
    MaxFiles = 3
    MaxBytes = 3
    MaxComponents = 2
    Selections = {{}, {2}}
    RangeHeaders <- MCRangeHeaders
INVARIANTS
    TypeOK
    SignedOutStaysOut
    StoreIntact
    KeysStayWithTheirSource
    OrderIndependent
    RefreshesIndex
    RevisionsUnique
    RecordsKeepTheirAuthority
    PagingSkipsNothing
    AcceptedIsGenuine
    TransfersAreSound
PROPERTIES
    StoreForgetsNothing
    ApprovalSignsIn
CHECK_DEADLOCK FALSE
