----------------------------- MODULE RootReport -----------------------------
(***************************************************************************)
(* Root::report and OngoingStats (src/server/src/root/mod.rs).  Nodes      *)
(* report, per group, the group descriptor (epoch), the state of a replica *)
(* (term, role) and the schedule state (epoch, incoming and outgoing       *)
(* replicas).  report reads the schema's copy, keeps the reported value    *)
(* only if it is newer, writes it back with update_group_replica, and      *)
(* feeds the schedule state to OngoingStats::handle_update, whose          *)
(* replace_state keeps the greatest epoch per group and rebuilds the       *)
(* per-node view.  step_leader resets the stats after publishing the core  *)
(* and again on step-down.                                                 *)
(*                                                                          *)
(* Report RPCs run concurrently: the schema read and the write are awaits, *)
(* so another report may run between them.  The stats are changed under   *)
(* their mutex, in one step.  The schema store is a linearizable map.      *)
(***************************************************************************)
EXTENDS Integers, FiniteSets, TLC

CONSTANTS
    Groups,       \* group ids
    Nodes,        \* nodes replicas move between
    Reporters,    \* report RPCs, one update each
    MaxEpoch,     \* bound: group epochs
    MaxTerm,      \* bound: raft terms of the reported replica
    MaxLeaderChanges,  \* bound: root leadership changes
    MoveChoices,  \* the schedule states a reconfiguration may produce (a subset of Moves)
    NoEntry       \* absent schema row or stats entry

Roles == {"follower", "candidate", "leader"}

\* The schedule state of a group at an epoch: replicas moving in and out.
Moves == {m \in [incoming : SUBSET Nodes, outgoing : SUBSET Nodes] :
            m.incoming \cap m.outgoing = {}}

VARIABLES
    group,        \* truth: [Groups -> [epoch, moves, term, role]] of each group
    leader,       \* the root lease (schema() is Ok once the core is published)
    lpc,          \* step_leader position: "follower", "published", "leading"
    changes,      \* leadership changes so far
    schemaGroup,  \* schema: group descriptor epoch, or NoEntry
    schemaRS,     \* schema: replica state [term, role], or NoEntry
    raw,          \* SchedStats.raw_group_delta: group -> [epoch, moves] or NoEntry
    view,         \* SchedStats.node_view: node -> replica_count
    rpc,          \* [Reporters -> [pc, u, newDesc, newRS]]
    handled       \* ghost: greatest schedule epoch handled per group since the last reset

vars == <<group, leader, lpc, changes, schemaGroup, schemaRS, raw, view, rpc, handled>>

-----------------------------------------------------------------------------
\* SchedStats::rebuild_view: +1 per incoming, -1 per outgoing, over groups.
RECURSIVE SumOver(_, _)
SumOver(f, S) ==
    IF S = {} THEN 0 ELSE LET x == CHOOSE x \in S : TRUE IN f[x] + SumOver(f, S \ {x})

ViewOf(r) ==
    [n \in Nodes |->
        SumOver([g \in Groups |->
                   IF r[g] = NoEntry THEN 0
                   ELSE (IF n \in r[g].moves.incoming THEN 1 ELSE 0)
                        - (IF n \in r[g].moves.outgoing THEN 1 ELSE 0)],
                Groups)]

\* Mutants of replace_state: a vacant insert that does not report an
\* update, an occupied entry replaced whatever its epoch, and the whole
\* ScheduleState stored instead of a GroupDelta.
ReplaceStateVacantNotUpdated(r, s) ==
    IF r[s.group] = NoEntry
    THEN [stats |-> [r EXCEPT ![s.group] = [epoch |-> s.epoch, moves |-> s.moves]],
          updated |-> FALSE]
    ELSE IF r[s.group].epoch < s.epoch
    THEN [stats |-> [r EXCEPT ![s.group] = [epoch |-> s.epoch, moves |-> s.moves]],
          updated |-> TRUE]
    ELSE [stats |-> r, updated |-> FALSE]

ReplaceStateNoEpochCheck(r, s) ==
    [stats |-> [r EXCEPT ![s.group] = [epoch |-> s.epoch, moves |-> s.moves]],
     updated |-> TRUE]

\* SchedStats::replace_state for one update: a vacant entry is inserted, an
\* occupied one replaced only by a strictly greater epoch.  TRUE if updated.
ReplaceState(r, s) ==
    IF r[s.group] = NoEntry \/ r[s.group].epoch < s.epoch
    THEN [stats |-> [r EXCEPT ![s.group] = [epoch |-> s.epoch, moves |-> s.moves]],
          updated |-> TRUE]
    ELSE [stats |-> r, updated |-> FALSE]

\* OngoingStats::handle_update with one schedule state: replace, and rebuild
\* the view only if something was replaced.
HandleUpdate(s) ==
    LET res == ReplaceState(raw, s) IN
    /\ raw' = res.stats
    /\ view' = IF res.updated THEN ViewOf(res.stats) ELSE view

\* OngoingStats::reset.
ResetStats ==
    /\ raw' = [g \in Groups |-> NoEntry]
    /\ view' = [n \in Nodes |-> 0]

\* report's choice of group_desc: dropped if the schema's epoch is not older.
KeepDesc(pre, e) == pre = NoEntry \/ pre < e

\* report's choice of replica_state: dropped if the schema's term is newer,
\* or the term is the same and the role too.
KeepRS(pre, rs) ==
    ~(pre # NoEntry /\ (pre.term > rs.term \/ (pre.term = rs.term /\ pre.role = rs.role)))

-----------------------------------------------------------------------------
(* The reported groups (environment).                                      *)

\* A reconfiguration bumps the group's epoch with new moves.
GroupChange(g) ==
    /\ group[g].epoch < MaxEpoch
    /\ \E m \in MoveChoices :
         group' = [group EXCEPT ![g].epoch = @ + 1, ![g].moves = m]
    /\ UNCHANGED <<leader, lpc, changes, schemaGroup, schemaRS, raw, view, rpc, handled>>

\* The reported replica's raft role: a new term starts as candidate or
\* follower; within a term a candidate becomes leader or follower.
RoleChange(g) ==
    /\ \/ /\ group[g].term < MaxTerm
          /\ \E r \in {"candidate", "follower"} :
               group' = [group EXCEPT ![g].term = @ + 1, ![g].role = r]
       \/ /\ group[g].role = "candidate"
          /\ \E r \in {"leader", "follower"} : group' = [group EXCEPT ![g].role = r]
    /\ UNCHANGED <<leader, lpc, changes, schemaGroup, schemaRS, raw, view, rpc, handled>>

LeaseChange ==
    /\ changes < MaxLeaderChanges
    /\ leader' = ~leader
    /\ changes' = changes + 1
    /\ UNCHANGED <<group, lpc, schemaGroup, schemaRS, raw, view, rpc, handled>>

-----------------------------------------------------------------------------
(* step_leader: publish the core, then ongoing_stats.reset(); on step-down  *)
(* reset again and unpublish.                                              *)

StepUpPublish ==
    /\ lpc = "follower"
    /\ leader
    /\ lpc' = "published"
    /\ UNCHANGED <<group, leader, changes, schemaGroup, schemaRS, raw, view, rpc, handled>>

StepUpReset ==
    /\ lpc = "published"
    /\ ResetStats
    /\ handled' = [g \in Groups |-> 0]
    /\ lpc' = "leading"
    /\ UNCHANGED <<group, leader, changes, schemaGroup, schemaRS, rpc>>

StepDown ==
    /\ lpc = "leading"
    /\ ~leader
    /\ ResetStats
    /\ handled' = [g \in Groups |-> 0]
    /\ lpc' = "follower"
    /\ UNCHANGED <<group, leader, changes, schemaGroup, schemaRS, rpc>>

-----------------------------------------------------------------------------
(* Root::report.                                                           *)

\* A node sends a report of group g as it is now.
Send(r, g) ==
    /\ rpc[r].pc = "idle"
    /\ rpc' = [rpc EXCEPT ![r].pc = "recv",
                          ![r].u = [group |-> g, epoch |-> group[g].epoch,
                                    moves |-> group[g].moves,
                                    rs |-> [term |-> group[g].term, role |-> group[g].role]]]
    /\ UNCHANGED <<group, leader, lpc, changes, schemaGroup, schemaRS, raw, view, handled>>

\* schema()? (fails unless the core is published), then get_group and
\* get_replica_state, which fail with NotLeader without the lease, decide
\* which parts of the update are kept.
ReportRead(r) ==
    /\ rpc[r].pc = "recv"
    /\ LET u == rpc[r].u IN
         IF lpc = "follower" \/ ~leader
         THEN rpc' = [rpc EXCEPT ![r].pc = "done"]
         ELSE rpc' = [rpc EXCEPT ![r].pc = "write",
                                 ![r].newDesc = KeepDesc(schemaGroup[u.group], u.epoch),
                                 ![r].newRS = KeepRS(schemaRS[u.group], u.rs)]
    /\ UNCHANGED <<group, leader, lpc, changes, schemaGroup, schemaRS, raw, view, handled>>

\* update_group_replica writes the kept parts (NotLeader without the
\* lease: `?` returns); then handle_update with the schedule state.
ReportWriteFail(r) ==
    /\ rpc[r].pc = "write"
    /\ ~leader
    /\ rpc' = [rpc EXCEPT ![r].pc = "done"]
    /\ UNCHANGED <<group, leader, lpc, changes, schemaGroup, schemaRS, raw, view, handled>>

ReportWrite(r) ==
    /\ rpc[r].pc = "write"
    /\ leader
    /\ LET u == rpc[r].u IN
         /\ schemaGroup' = IF rpc[r].newDesc THEN [schemaGroup EXCEPT ![u.group] = u.epoch]
                           ELSE schemaGroup
         /\ schemaRS' = IF rpc[r].newRS THEN [schemaRS EXCEPT ![u.group] = u.rs]
                        ELSE schemaRS
         /\ HandleUpdate([group |-> u.group, epoch |-> u.epoch, moves |-> u.moves])
         /\ handled' = [handled EXCEPT ![u.group] = IF @ < u.epoch THEN u.epoch ELSE @]
    /\ rpc' = [rpc EXCEPT ![r].pc = "done"]
    /\ UNCHANGED <<group, leader, lpc, changes>>

-----------------------------------------------------------------------------
Init ==
    /\ group = [g \in Groups |-> [epoch |-> 1, moves |-> [incoming |-> {}, outgoing |-> {}],
                                  term |-> 1, role |-> "follower"]]
    /\ leader = FALSE
    /\ lpc = "follower"
    /\ changes = 0
    /\ schemaGroup = [g \in Groups |-> 1]
    /\ schemaRS = [g \in Groups |-> NoEntry]
    /\ raw = [g \in Groups |-> NoEntry]
    /\ view = [n \in Nodes |-> 0]
    /\ rpc = [r \in Reporters |-> [pc |-> "idle", u |-> NoEntry, newDesc |-> FALSE, newRS |-> FALSE]]
    /\ handled = [g \in Groups |-> 0]

\* All reports have been handled: the model's reports are used up.
ReportsDone ==
    /\ \A r \in Reporters : rpc[r].pc = "done"
    /\ UNCHANGED vars

Next ==
    \/ \E g \in Groups : GroupChange(g) \/ RoleChange(g)
    \/ LeaseChange \/ StepUpPublish \/ StepUpReset \/ StepDown
    \/ \E r \in Reporters :
         \/ \E g \in Groups : Send(r, g)
         \/ ReportRead(r) \/ ReportWrite(r) \/ ReportWriteFail(r)
    \/ ReportsDone

Spec == Init /\ [][Next]_vars

-----------------------------------------------------------------------------
TypeOK ==
    /\ leader \in BOOLEAN
    /\ lpc \in {"follower", "published", "leading"}
    /\ schemaGroup \in [Groups -> 1 .. MaxEpoch]
    /\ schemaRS \in [Groups -> [term : 1 .. MaxTerm, role : Roles] \cup {NoEntry}]
    /\ raw \in [Groups -> [epoch : 1 .. MaxEpoch, moves : Moves] \cup {NoEntry}]
    /\ view \in [Nodes -> Int]
    /\ \A r \in Reporters : rpc[r].pc \in {"idle", "recv", "write", "done"}

\* The per-node view is always the one rebuild_view derives from the
\* per-group deltas: get_node_delta never reads a view that misses or
\* double-counts a replica move, whichever reports, resets and rebuilds
\* interleave.
NodeViewMatchesDeltas == view = ViewOf(raw)

\* The stats hold, for every group, the schedule state of the greatest
\* epoch reported since the last reset, whatever order concurrent reports
\* are handled in: an older report never overwrites a newer one.
StatsKeepNewestEpoch ==
    \A g \in Groups :
        handled[g] > 0 => raw[g] # NoEntry /\ raw[g].epoch = handled[g]

\* The spec says reports are merged by epoch monotonicity and a group's
\* epoch is monotonic: once report has written a descriptor, the schema's
\* epoch of that group never goes back.
SchemaGroupEpochMonotone ==
    [][\A g \in Groups : schemaGroup'[g] >= schemaGroup[g]]_vars

====
