----------------------------- MODULE ClusterJoin -----------------------------
(***************************************************************************)
(* Joining a bootstrapped cluster: bootstrap_or_join_cluster and           *)
(* try_join_cluster (src/server/src/bootstrap.rs) on the joining node,     *)
(* Root::join (src/server/src/root/mod.rs) on the root leader.             *)
(*                                                                          *)
(* A node without a persisted NodeIdent sends JoinNodeRequest and retries  *)
(* on any error, sleeping with backoff.  Root::join checks schema()?, adds *)
(* a node descriptor with a fresh id, then reads the cluster id and the    *)
(* root descriptor -- both `?` -- and replies.  The node saves the ident   *)
(* it got, updates its root descriptor and serves.  Requests may fail in   *)
(* transport after the root handled them, and nodes may crash; the ident   *)
(* and the schema are durable.  The backoff's length does not matter to    *)
(* the protocol and is left out.                                           *)
(*                                                                          *)
(* The node started with --init (Seed) bootstraps instead: it creates the  *)
(* root group's replica, saves the ident FIRST_NODE_ID and hosts the root. *)
(* The root's first step_leader seeds the schema (try_bootstrap_root) with *)
(* the Seed's node descriptor before it publishes the core, so joins are   *)
(* answered only after that.                                               *)
(***************************************************************************)
EXTENDS Integers, FiniteSets, TLC

CONSTANTS
    Procs,            \* nodes, one data directory and address each
    Seed,             \* the node started with --init
    MaxFailures,      \* bound: transport errors seen by join_node calls
    MaxCrashes,       \* bound: process restarts
    MaxLeaseChanges,  \* bound: root lease losses
    NoId              \* no NodeIdent in the state engine

VARIABLES
    ident,        \* state engine: the saved NodeIdent's node id, or NoId
    pc,           \* each node's position in bootstrap_or_join_cluster
    got,          \* node id of the JoinNodeResponse being saved
    nodes,        \* schema: node descriptors [id, addr]
    nextId,       \* schema: the next node id add_node assigns
    msgs,         \* join requests the root is handling: [p, stage, id, cur]
    reply,        \* the reply delivered to each node's current call, or NoId
    leader,       \* the root leader holds its lease and has published its core
    rootReplica,  \* the Seed has created the root group's replica
    seeded,       \* schema: try_bootstrap_root has run
    failures, crashes, leaseChanges

vars == <<ident, pc, got, nodes, nextId, msgs, reply, leader, rootReplica, seeded,
          failures, crashes, leaseChanges>>

FIRST_NODE_ID == 1

Ids == 1 .. (Cardinality(Procs) * (1 + MaxFailures + MaxCrashes + MaxLeaseChanges) + 1)

\* Requests of p the caller no longer waits for.
Abandon(p) == {IF m.p = p THEN [m EXCEPT !.cur = FALSE] ELSE m : m \in msgs}

-----------------------------------------------------------------------------
(* The joining node.                                                       *)

\* read_ident(): an ident means the node joined before and serves;
\* otherwise bootstrap_cluster with --init, try_join_cluster without.
Boot(p) ==
    /\ pc[p] = "boot"
    /\ pc' = [pc EXCEPT ![p] = CASE ident[p] # NoId -> "serving"
                                  [] p = Seed       -> "init"
                                  [] OTHER          -> "join"]
    /\ UNCHANGED <<ident, got, nodes, nextId, msgs, reply, leader, failures, crashes, leaseChanges, rootReplica, seeded>>

\* bootstrap_cluster: write_initial_cluster_data creates the root group's
\* and the first user group's replicas and updates the root descriptor,
\* then save_node_ident(FIRST_NODE_ID) follows (as Save).  A restart in
\* between runs it again on the same data ("TODO clean staled data").
InitCluster(p) ==
    /\ pc[p] = "init"
    /\ rootReplica' = TRUE
    /\ got' = [got EXCEPT ![p] = FIRST_NODE_ID]
    /\ pc' = [pc EXCEPT ![p] = "save"]
    /\ UNCHANGED <<ident, nodes, nextId, msgs, reply, leader, seeded, failures, crashes, leaseChanges>>

\* root_client.join_node(req): the request reaches the root.
SendJoin(p) ==
    /\ pc[p] = "join"
    /\ msgs' = msgs \cup {[p |-> p, stage |-> "recv", id |-> NoId, cur |-> TRUE]}
    /\ reply' = [reply EXCEPT ![p] = NoId]
    /\ pc' = [pc EXCEPT ![p] = "wait"]
    /\ UNCHANGED <<ident, got, nodes, nextId, leader, failures, crashes, leaseChanges, rootReplica, seeded>>

\* Ok(res): keep res.node_id for save_node_ident; Err: sleep and loop.
Recv(p) ==
    /\ pc[p] = "wait"
    /\ reply[p] # NoId
    /\ IF reply[p].ok
       THEN /\ pc' = [pc EXCEPT ![p] = "save"]
            /\ got' = [got EXCEPT ![p] = reply[p].id]
       ELSE /\ pc' = [pc EXCEPT ![p] = "join"]
            /\ UNCHANGED got
    /\ reply' = [reply EXCEPT ![p] = NoId]
    /\ UNCHANGED <<ident, nodes, nextId, msgs, leader, failures, crashes, leaseChanges, rootReplica, seeded>>

\* The call fails in transport (connection reset, deadline): Err, whether
\* or not the root is still handling the request.
Timeout(p) ==
    /\ pc[p] = "wait"
    /\ failures < MaxFailures
    /\ msgs' = Abandon(p)
    /\ pc' = [pc EXCEPT ![p] = "join"]
    /\ failures' = failures + 1
    /\ UNCHANGED <<ident, got, nodes, nextId, reply, leader, crashes, leaseChanges, rootReplica, seeded>>

\* save_node_ident, then node.update_root and return.
Save(p) ==
    /\ pc[p] = "save"
    /\ ident' = [ident EXCEPT ![p] = got[p]]
    /\ pc' = [pc EXCEPT ![p] = "serving"]
    /\ UNCHANGED <<got, nodes, nextId, msgs, reply, leader, failures, crashes, leaseChanges, rootReplica, seeded>>

\* The process restarts: only the state engine and the replicas survive.
\* A restart of the Seed also ends the root's lease and its in-flight
\* join handlers; their callers see the connection fail.
Crash(p) ==
    /\ crashes < MaxCrashes
    /\ pc[p] # "boot"
    /\ pc' = [pc EXCEPT ![p] = "boot"]
    /\ crashes' = crashes + 1
    /\ IF p = Seed
       THEN /\ leader' = FALSE
            /\ msgs' = {}
            /\ reply' = [q \in Procs |->
                          CASE q = p -> NoId
                            [] \E m \in msgs : m.p = q /\ m.cur -> [ok |-> FALSE, id |-> 0]
                            [] OTHER -> reply[q]]
       ELSE /\ msgs' = Abandon(p)
            /\ reply' = [reply EXCEPT ![p] = NoId]
            /\ UNCHANGED leader
    /\ UNCHANGED <<ident, got, nodes, nextId, failures, leaseChanges, rootReplica, seeded>>

-----------------------------------------------------------------------------
(* Root::join on the root leader.                                          *)

\* The reply reaches the caller only if it still waits on this call.
Answer(m, ok, id) ==
    reply' = IF m.cur THEN [reply EXCEPT ![m.p] = [ok |-> ok, id |-> id]] ELSE reply

\* A mutant: the lease check of schema() inverted.
HandleAddLeaderInverted(m) ==
    /\ m.stage = "recv"
    /\ IF ~leader
       THEN /\ nodes' = nodes \cup {[id |-> nextId, addr |-> m.p]}
            /\ nextId' = nextId + 1
            /\ msgs' = (msgs \ {m}) \cup {[m EXCEPT !.stage = "added", !.id = nextId]}
            /\ UNCHANGED reply
       ELSE /\ Answer(m, FALSE, 0)
            /\ msgs' = msgs \ {m}
            /\ UNCHANGED <<nodes, nextId, rootReplica, seeded>>
    /\ UNCHANGED <<ident, pc, got, leader, failures, crashes, leaseChanges, rootReplica, seeded>>

\* A mutant: add_node reading the next node id without advancing it.
HandleAddNoBump(m) ==
    /\ m.stage = "recv"
    /\ IF leader
       THEN /\ nodes' = nodes \cup {[id |-> nextId, addr |-> m.p]}
            /\ msgs' = (msgs \ {m}) \cup {[m EXCEPT !.stage = "added", !.id = nextId]}
            /\ UNCHANGED <<reply, nextId>>
       ELSE /\ Answer(m, FALSE, 0)
            /\ msgs' = msgs \ {m}
            /\ UNCHANGED <<nodes, nextId>>
    /\ UNCHANGED <<ident, pc, got, leader, failures, crashes, leaseChanges, rootReplica, seeded>>

\* schema()? (NotLeader without the lease), then schema.add_node.
HandleAdd(m) ==
    /\ m.stage = "recv"
    /\ IF leader
       THEN /\ nodes' = nodes \cup {[id |-> nextId, addr |-> m.p]}
            /\ nextId' = nextId + 1
            /\ msgs' = (msgs \ {m}) \cup {[m EXCEPT !.stage = "added", !.id = nextId]}
            /\ UNCHANGED reply
       ELSE /\ Answer(m, FALSE, 0)
            /\ msgs' = msgs \ {m}
            /\ UNCHANGED <<nodes, nextId, rootReplica, seeded>>
    /\ UNCHANGED <<ident, pc, got, leader, failures, crashes, leaseChanges, rootReplica, seeded>>

\* A mutant: replying with the id add_node will assign next.
HandleReplyNextId(m) ==
    /\ m.stage = "added"
    /\ Answer(m, leader, IF leader THEN nextId ELSE 0)
    /\ msgs' = msgs \ {m}
    /\ UNCHANGED <<ident, pc, got, nodes, nextId, leader, failures, crashes, leaseChanges, rootReplica, seeded>>

\* cluster_id()? and get_root_desc()? (NotLeader once the lease is gone),
\* heartbeat try_schedule, then Ok((cluster_id, node, root)).
HandleReply(m) ==
    /\ m.stage = "added"
    /\ Answer(m, leader, IF leader THEN m.id ELSE 0)
    /\ msgs' = msgs \ {m}
    /\ UNCHANGED <<ident, pc, got, nodes, nextId, leader, failures, crashes, leaseChanges, rootReplica, seeded>>

-----------------------------------------------------------------------------
(* The root group's lease.                                                 *)

LoseLease ==
    /\ leader
    /\ leaseChanges < MaxLeaseChanges
    /\ leader' = FALSE
    /\ leaseChanges' = leaseChanges + 1
    /\ UNCHANGED <<ident, pc, got, nodes, nextId, msgs, reply, failures, crashes, rootReplica, seeded>>

\* run_in_async starts the root's daemons (root.bootstrap) only after
\* bootstrap_or_join_cluster has returned the Seed's ident, so its root
\* replica can lead only once the Seed serves.
RootRunning == pc[Seed] = "serving"

\* The Seed's root replica wins the lease; step_leader runs
\* try_bootstrap_root, which seeds the schema with the Seed's descriptor
\* the first time, and starts the schema's node-id counter past
\* FIRST_NODE_ID, before it publishes the core.
Elect ==
    /\ ~leader
    /\ rootReplica
    /\ RootRunning
    /\ leader' = TRUE
    /\ seeded' = TRUE
    /\ nodes' = IF seeded THEN nodes ELSE nodes \cup {[id |-> FIRST_NODE_ID, addr |-> Seed]}
    /\ nextId' = IF seeded THEN nextId ELSE FIRST_NODE_ID + 1
    /\ UNCHANGED <<ident, pc, got, msgs, reply, failures, crashes, leaseChanges, rootReplica>>

-----------------------------------------------------------------------------
Init ==
    /\ ident = [p \in Procs |-> NoId]
    /\ pc = [p \in Procs |-> "boot"]
    /\ got = [p \in Procs |-> NoId]
    /\ nodes = {}
    /\ nextId = FIRST_NODE_ID
    /\ msgs = {}
    /\ reply = [p \in Procs |-> NoId]
    /\ leader = FALSE
    /\ rootReplica = FALSE
    /\ seeded = FALSE
    /\ failures = 0 /\ crashes = 0 /\ leaseChanges = 0

\* Every node serves and the root has nothing left to handle.
Joined ==
    /\ \A p \in Procs : pc[p] = "serving"
    /\ msgs = {}
    /\ UNCHANGED vars

Next ==
    \/ \E p \in Procs : \/ Boot(p) \/ InitCluster(p) \/ SendJoin(p) \/ Recv(p)
                       \/ Timeout(p) \/ Save(p) \/ Crash(p)
    \/ \E m \in msgs : HandleAdd(m) \/ HandleReply(m)
    \/ LoseLease \/ Elect
    \/ Joined

\* The join loop, the root's request handlers and the root group's
\* election keep running; transport errors, crashes and lease losses are
\* the environment's and get no fairness.
Fairness ==
    /\ \A p \in Procs : /\ WF_vars(Boot(p)) /\ WF_vars(InitCluster(p)) /\ WF_vars(SendJoin(p))
                       /\ WF_vars(Recv(p)) /\ WF_vars(Save(p))
    /\ WF_vars(\E m \in msgs : HandleAdd(m) \/ HandleReply(m))
    /\ WF_vars(Elect)

Spec == Init /\ [][Next]_vars /\ Fairness

-----------------------------------------------------------------------------
\* The type of every variable.
TypeOK ==
    /\ ident \in [Procs -> Ids \cup {NoId}]
    /\ pc \in [Procs -> {"boot", "init", "join", "wait", "save", "serving"}]
    /\ nodes \subseteq [id : Ids, addr : Procs]
    /\ nextId \in Ids

\* Once the schema is bootstrapped, a node serves under an id the schema
\* has a descriptor for, with its own address: the id saved by
\* save_node_ident is the one add_node assigned to this node's request (or
\* the Seed's, seeded by try_bootstrap_root), even across lost replies,
\* retries and crashes.  The Seed saves its ident before any root runs.
SavedIdentRegistered ==
    \A p \in Procs :
        ident[p] # NoId /\ seeded => [id |-> ident[p], addr |-> p] \in nodes

\* No two data directories hold the same node id: the Seed's hard-coded
\* FIRST_NODE_ID, written before any root exists, and the ids add_node
\* hands out after try_bootstrap_root never meet, across retries, restarts
\* and lease changes.
NodeIdsUnique ==
    \A p, q \in Procs : p # q /\ ident[p] # NoId => ident[p] # ident[q]

\* Every node eventually serves for good, once transport errors, crashes
\* and lease losses stop: the Seed bootstraps and brings up the root, and
\* the retry loop of try_join_cluster gets every other node an ident.
JoinCompletes == \A p \in Procs : <>[](pc[p] = "serving")

\* The spec: a node's identity is persisted once per data directory.  The
\* cluster holds at most one node descriptor per joining node.
OneNodePerDataDir ==
    \A p \in Procs : Cardinality({d \in nodes : d.addr = p}) <= 1

====
