CONSTANTS
    n1 = n1
    n2 = n2
    h1 = h1
    h2 = h2
    h3 = h3
    t1 = t1
    t2 = t2
    NoHash = NoHash
    Nodes = {n1, n2}
    Hash = {h1, h2}
    MaxSequence = 2
    Targets = {t1, t2}
    Order <- TwoTargets
    MaxDisk = 7
    MaxFaults = 1
SPECIFICATION FairSpec
PROPERTIES PinsCurrentWithoutFaults HeadKeptAliveWithinBudget
