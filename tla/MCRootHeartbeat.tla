--------------------------- MODULE MCRootHeartbeat ---------------------------
EXTENDS RootHeartbeat

CONSTANTS n1, n2

MCNodes == {n1, n2}

=============================================================================
