---------------------------- MODULE NodeLifecycle ----------------------------
(***************************************************************************)
(* The admin calls on a node's status (src/server/src/root/mod.rs:         *)
(* cordon_node, uncordon_node, begin_drain).  Each call runs on a root     *)
(* server: schema()? fails unless that server holds the root core, then    *)
(* get_node reads the descriptor, the status is checked, and update_node   *)
(* writes it back -- with no compare-and-set (`// TODO: cas`).  The read   *)
(* and the write are awaits, so other calls and the scheduler run between  *)
(* them.  begin_drain refuses to drain the server it runs on and asks the  *)
(* scheduler to shed the root first; after writing Draining it asks the    *)
(* scheduler to shed the node's leaders.  The scheduler (schedule.rs) and  *)
(* the end of a drain are not in this repository and follow the spec;   *)
(* the scheduler's tasks live on the server that set them up and are     *)
(* stepped only by that server's leader loop, while it holds the lease.   *)
(***************************************************************************)
EXTENDS Integers, FiniteSets, TLC

CONSTANTS
    Nodes,        \* cluster nodes: targets of the calls and root servers
    Admins,       \* admin clients, each issuing one call at a time
    MaxCalls,     \* bound: calls per admin client
    MaxLeaseChanges  \* bound: root lease moves not asked for by ShedRoot

Statuses == {"Active", "Cordoned", "Draining", "Drained", "Decommissioned"}
Ops == {"cordon", "uncordon", "drain"}

\* The lifecycle of spec section 3: Active -> Cordoned -> Draining ->
\* Drained -> Decommissioned, and uncordon back to Active.
Lifecycle ==
    {<<"Active", "Cordoned">>, <<"Cordoned", "Draining">>,
     <<"Draining", "Drained">>, <<"Drained", "Decommissioned">>,
     <<"Cordoned", "Active">>, <<"Drained", "Active">>,
     <<"Decommissioned", "Active">>}

VARIABLES
    status,       \* schema: node -> NodeStatus
    root,         \* the node holding the root lease (and the published core)
    leaseChanges, \* lease moves so far
    tasks,        \* setup_task queues: set of [kind, node, server]
    call,         \* [Admins -> [pc, op, node, server, read]]
    calls         \* calls issued per admin

vars == <<status, root, leaseChanges, tasks, call, calls>>

-----------------------------------------------------------------------------
\* The status a call accepts, and the one it writes.
Allowed(op) ==
    CASE op = "cordon"   -> {"Active"}
      [] op = "uncordon" -> {"Cordoned", "Drained", "Decommissioned"}
      [] op = "drain"    -> {"Cordoned"}

Target(op) ==
    CASE op = "cordon"   -> "Cordoned"
      [] op = "uncordon" -> "Active"
      [] op = "drain"    -> "Draining"

Done(a) == call' = [call EXCEPT ![a].pc = "idle"]

-----------------------------------------------------------------------------
(* The admin calls.                                                        *)

\* The admin client sends op on node n to server s.
Issue(a, op, n, s) ==
    /\ call[a].pc = "idle"
    /\ calls[a] < MaxCalls
    /\ call' = [call EXCEPT ![a] = [pc |-> "start", op |-> op, node |-> n,
                                    server |-> s, read |-> "Active"]]
    /\ calls' = [calls EXCEPT ![a] = @ + 1]
    /\ UNCHANGED <<status, root, leaseChanges, tasks>>

\* schema()? -- NotLeader unless the server holds the core; begin_drain on
\* the server's own node sets up ShedRoot and refuses; otherwise get_node.
Start(a) ==
    /\ call[a].pc = "start"
    /\ LET c == call[a] IN
         \/ /\ root # c.server
            /\ Done(a)
            /\ UNCHANGED tasks
         \/ /\ root = c.server
            /\ c.op = "drain" /\ c.node = c.server
            /\ tasks' = tasks \cup {[kind |-> "ShedRoot", node |-> c.node, server |-> c.server]}
            /\ Done(a)
         \/ /\ root = c.server
            /\ ~(c.op = "drain" /\ c.node = c.server)
            /\ call' = [call EXCEPT ![a].pc = "check", ![a].read = status[c.node]]
            /\ UNCHANGED tasks
    /\ UNCHANGED <<status, root, leaseChanges, calls>>

\* The status check on the descriptor read, then update_node with the new
\* status (NotLeader once the lease has moved).
Update(a) ==
    /\ call[a].pc = "check"
    /\ LET c == call[a] IN
         IF c.read \in Allowed(c.op) /\ root = c.server
         THEN /\ status' = [status EXCEPT ![c.node] = Target(c.op)]
              /\ call' = [call EXCEPT ![a].pc = IF c.op = "drain" THEN "shed" ELSE "idle"]
         ELSE /\ Done(a)
              /\ UNCHANGED status
    /\ UNCHANGED <<root, leaseChanges, tasks, calls>>

\* begin_drain, after the write: setup_task(ShedLeader).
SetupShedLeader(a) ==
    /\ call[a].pc = "shed"
    /\ tasks' = tasks \cup {[kind |-> "ShedLeader", node |-> call[a].node,
                           server |-> call[a].server]}
    /\ Done(a)
    /\ UNCHANGED <<status, root, leaseChanges, calls>>

-----------------------------------------------------------------------------
(* The scheduler and the cluster (spec sections 4.7 and 4.9).              *)

\* ShedRoot, stepped by the leader loop of the server that set it up: the
\* root lease moves off the node.
ShedRoot(t) ==
    /\ t.kind = "ShedRoot"
    /\ root = t.server
    /\ \E m \in Nodes \ {t.node} :
         root' = IF root = t.node THEN m ELSE root
    /\ tasks' = tasks \ {t}
    /\ UNCHANGED <<status, leaseChanges, call, calls>>

\* ShedLeader: the node's leaders are moved away; a node still draining
\* is then drained.
ShedLeader(t) ==
    /\ t.kind = "ShedLeader"
    /\ root = t.server
    /\ status' = IF status[t.node] = "Draining"
                 THEN [status EXCEPT ![t.node] = "Drained"] ELSE status
    /\ tasks' = tasks \ {t}
    /\ UNCHANGED <<root, leaseChanges, call, calls>>

\* A drained node is decommissioned.
Decommission(n) ==
    /\ status[n] = "Drained"
    /\ status' = [status EXCEPT ![n] = "Decommissioned"]
    /\ UNCHANGED <<root, leaseChanges, tasks, call, calls>>

\* The root lease moves for other reasons.
LeaseMove(m) ==
    /\ leaseChanges < MaxLeaseChanges
    /\ root # m
    /\ root' = m
    /\ leaseChanges' = leaseChanges + 1
    /\ UNCHANGED <<status, tasks, call, calls>>

-----------------------------------------------------------------------------
Init ==
    /\ status = [n \in Nodes |-> "Active"]
    /\ root \in Nodes
    /\ leaseChanges = 0
    /\ tasks = {}
    /\ call = [a \in Admins |-> [pc |-> "idle", op |-> "cordon", node |-> CHOOSE n \in Nodes : TRUE,
                                 server |-> CHOOSE n \in Nodes : TRUE, read |-> "Active"]]
    /\ calls = [a \in Admins |-> 0]

\* Every admin client has used its calls and no task can be stepped: the
\* tasks left wait on a server that no longer holds the lease.
Finished ==
    /\ \A a \in Admins : call[a].pc = "idle" /\ calls[a] = MaxCalls
    /\ \A t \in tasks : root # t.server
    /\ UNCHANGED vars

Next ==
    \/ \E a \in Admins :
         \/ \E op \in Ops, n \in Nodes, s \in Nodes : Issue(a, op, n, s)
         \/ Start(a) \/ Update(a) \/ SetupShedLeader(a)
    \/ \E t \in tasks : ShedRoot(t) \/ ShedLeader(t)
    \/ \E n \in Nodes : Decommission(n) \/ LeaseMove(n)
    \/ Finished

Spec == Init /\ [][Next]_vars

-----------------------------------------------------------------------------
\* The type of every variable.
TypeOK ==
    /\ status \in [Nodes -> Statuses]
    /\ root \in Nodes
    /\ tasks \subseteq [kind : {"ShedRoot", "ShedLeader"}, node : Nodes, server : Nodes]
    /\ \A a \in Admins : call[a].pc \in {"idle", "start", "check", "shed"}
                         /\ call[a].op \in Ops /\ call[a].read \in Statuses

\* Every change of a node's status, by an admin call or the scheduler, is
\* an edge of the lifecycle: cordon_node, uncordon_node and begin_drain
\* never move a node along an edge the spec forbids, whatever the scheduler
\* and the other calls do between their read and their write.
StatusTransitionsLegal ==
    [][\A n \in Nodes :
         status'[n] # status[n] => <<status[n], status'[n]>> \in Lifecycle]_vars

====
