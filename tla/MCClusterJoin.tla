---------------------------- MODULE MCClusterJoin ----------------------------
EXTENDS ClusterJoin

CONSTANTS s, p1, p2

\* The --init node and two joining nodes.
MCProcs == {s, p1, p2}
\* The --init node and one joining node, for the duplicate registration.
MCOneProc == {s, p1}

=============================================================================
