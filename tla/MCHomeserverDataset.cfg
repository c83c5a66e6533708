CONSTANTS
    d1 = d1
    d2 = d2
    a = a
    b = b
    t1 = t1
    t2 = t2
    t3 = t3
    pr1 = pr1
    pr2 = pr2
    r1 = r1
    w1 = w1
    Digest = {d1, d2}
    NoDigest = NoDigest
    MaxSequence = 2
    Path = {a, b}
    Contents <- MCContents
    Processes = {pr1, pr2}
    Tasks = {t1, t2, t3}
    ProcessOf <- MCProcessOf
    Readers = {r1}
    Watchers = {w1}
    NoTask = NoTask
    NoPath = NoPath
    MaxLate = 1
    MaxWrites = 3
SPECIFICATION MCSpec
INVARIANTS TypeOK HeadComplete ReadsComplete NoOwnUpdateLost
PROPERTY WatchersCatchUp
CHECK_DEADLOCK FALSE
