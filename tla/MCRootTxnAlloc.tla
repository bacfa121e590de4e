--------------------------- MODULE MCRootTxnAlloc ---------------------------
EXTENDS RootTxnAlloc

CONSTANTS n1, n2, c1, c2, c3

MCNodes == {n1, n2}
MCClients == {c1, c2}
MCOneClient == {c1}
MCThreeClients == {c1, c2, c3}
\* Callers and nodes are interchangeable.
MCSymmetry == Permutations(MCNodes) \cup Permutations(MCClients)
MCSymmetry3 == Permutations(MCNodes) \cup Permutations(MCThreeClients)

=============================================================================
