CONSTANTS
    d1 = d1
    d2 = d2
    Digest = {d1, d2}
    NoDigest = NoDigest
    MaxSequence = 3
    Publishers = {p1, p2}
    Watchers = {w1}
    p1 = p1
    p2 = p2
    w1 = w1
SPECIFICATION FairSpec
INVARIANTS TypeOK AcknowledgedOnce HintWasCommitted
PROPERTIES RefinesAuthority WatcherSettles
CHECK_DEADLOCK FALSE
