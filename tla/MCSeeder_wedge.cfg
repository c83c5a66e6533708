CONSTANTS
    n1 = n1
    n2 = n2
    h1 = h1
    h2 = h2
    h3 = h3
    t1 = t1
    t2 = t2
    NoHash = NoHash
    Nodes = {n1, n2}
    Hash = {h1}
    MaxSequence = 1
    Targets = {t1}
    Order <- OneTarget
    MaxDisk = 9
    MaxFaults = 1
SPECIFICATION FairSpec
PROPERTY PinsCurrent
