------------------------------ MODULE MCSeeder ------------------------------
\* Model-checking instances of Seeder.
EXTENDS Seeder, TLC

CONSTANTS t1, t2

OneTarget == <<t1>>
TwoTargets == <<t1, t2>>

\* Nodes and info hashes are only compared for equality.
Symmetry == Permutations(Nodes) \cup Permutations(Hash)
=============================================================================
