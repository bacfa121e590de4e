--------------------------- MODULE SchedStatsSpec ---------------------------
(***************************************************************************)
(* What OngoingStats' schedule part promises the allocator (spec 4.7):     *)
(* per group, the schedule state of the greatest epoch seen since the last *)
(* reset, and per node the replica-count delta of those states, +1 for    *)
(* each incoming and -1 for each outgoing replica.  An update of an older  *)
(* or equal epoch changes nothing.                                         *)
(***************************************************************************)
EXTENDS Integers, FiniteSets

CONSTANTS Groups, Nodes, NoEntry

VARIABLES stats, view

\* The replica-count delta of node n over the states in st.
Delta(st, n) ==
    LET in  == {g \in Groups : st[g] # NoEntry /\ n \in st[g].moves.incoming}
        out == {g \in Groups : st[g] # NoEntry /\ n \in st[g].moves.outgoing}
    IN  Cardinality(in) - Cardinality(out)

NodeView(st) == [n \in Nodes |-> Delta(st, n)]

Init ==
    /\ stats = [g \in Groups |-> NoEntry]
    /\ view = NodeView(stats)

\* Group g's entry is replaced by a schedule state of a strictly newer
\* epoch; nothing else changes.
Update(g) ==
    /\ stats'[g] # NoEntry
    /\ stats[g] = NoEntry \/ stats[g].epoch < stats'[g].epoch
    /\ stats' = [stats EXCEPT ![g] = stats'[g]]
    /\ view' = NodeView(stats')

\* Everything is forgotten.
Reset ==
    /\ stats' = [g \in Groups |-> NoEntry]
    /\ view' = NodeView(stats')

Next ==
    \/ \E g \in Groups : Update(g)
    \/ Reset

Spec == Init /\ [][Next]_<<stats, view>>

====
