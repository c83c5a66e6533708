------------------------- MODULE MCTorrentPublisher -------------------------
\* Model-checking instances of TorrentPublisher.
EXTENDS TorrentPublisher, TLC

CONSTANTS h1

NewKey == NoItem
ExistingKey == [seq |-> 1, hash |-> h1]

AnyNodes == SUBSET Nodes

\* Nodes and, for a new key, info hashes are only compared for equality.
NodeSymmetry == Permutations(Nodes)
Symmetry == NodeSymmetry \cup Permutations(Hash)
=============================================================================
