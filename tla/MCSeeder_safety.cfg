CONSTANTS
    n1 = n1
    n2 = n2
    h1 = h1
    h2 = h2
    h3 = h3
    h4 = h4
    t1 = t1
    t2 = t2
    NoHash = NoHash
    Nodes = {n1, n2}
    Hash = {h1, h2, h3, h4}
    MaxSequence = 3
    Targets = {t1}
    Order <- OneTarget
    MaxDisk = 3
    MaxFaults = 3
SPECIFICATION Spec
SYMMETRY Symmetry
INVARIANTS TypeOK PinnedIsComplete ReannouncesNewest OverrunBounded
