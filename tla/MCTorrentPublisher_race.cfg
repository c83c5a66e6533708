CONSTANTS
    n1 = n1
    n2 = n2
    n3 = n3
    h1 = h1
    h2 = h2
    h3 = h3
    p1 = p1
    p2 = p2
    NoHash = NoHash
    Nodes = {n1, n2}
    Hash = {h1, h2, h3}
    MaxSequence = 3
    Publishers = {p1, p2}
    SavesOnReturn = FALSE
    Restored <- ExistingKey
    Reach <- AnyNodes
    Volatile = {n1, n2}
    MaxCalls = 3
SPECIFICATION Spec
SYMMETRY NodeSymmetry
PROPERTY HeadsReplacedInTurn
CHECK_DEADLOCK FALSE
