---------------------------- MODULE MCRootReport ----------------------------
EXTENDS RootReport

CONSTANTS g1, g2, n1, n2, r1, r2

MCGroups == {g1, g2}
MCNodes == {n1, n2}
MCReporters == {r1, r2}
\* One group, for the schema race.
MCOneGroup == {g1}
\* A replica of n1 moving to n2, and a replica added on n1.
MCMoveChoices == {[incoming |-> {n2}, outgoing |-> {n1}],
                  [incoming |-> {n1}, outgoing |-> {}]}
\* Report RPCs are interchangeable.
MCSymmetry == Permutations(MCReporters)

=============================================================================
