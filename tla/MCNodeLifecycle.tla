--------------------------- MODULE MCNodeLifecycle ---------------------------
EXTENDS NodeLifecycle

CONSTANTS n1, n2, a1, a2

MCNodes == {n1, n2}
\* The admin CLI: one client, one call at a time.
MCOneAdmin == {a1}
\* Two admin clients calling concurrently.
MCTwoAdmins == {a1, a2}
\* Nodes are interchangeable.
MCSymmetry == Permutations(MCNodes)

=============================================================================
