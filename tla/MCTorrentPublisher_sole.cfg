CONSTANTS
    n1 = n1
    n2 = n2
    n3 = n3
    h1 = h1
    h2 = h2
    h3 = h3
    p1 = p1
    p2 = p2
    NoHash = NoHash
    Nodes = {n1, n2, n3}
    Hash = {h1, h2}
    MaxSequence = 2
    Publishers = {p1}
    SavesOnReturn = TRUE
    Restored <- NewKey
    Reach <- AnyNodes
    Volatile = {n1, n2, n3}
    MaxCalls = 3
SPECIFICATION Spec
SYMMETRY Symmetry
INVARIANTS TypeOK SeededBeforePublished
PROPERTY RefinesAuthority
CHECK_DEADLOCK FALSE
