---------------------------- MODULE RootTxnAlloc ----------------------------
(***************************************************************************)
(* The root leader's transaction-id allocator of sekas                     *)
(* (src/server/src/root/mod.rs): Root::step_leader creates a RootCore      *)
(* {next_txn_id, max_txn_id} from the persisted reservation, bumps it,      *)
(* spawns the periodic bumper and publishes the core; alloc_txn_id hands   *)
(* out [next, next + n) by compare-and-swap below max_txn_id; on losing    *)
(* the lease the bumper handle is dropped, max_txn_id is stored 0 and the  *)
(* core is unpublished.                                                    *)
(*                                                                          *)
(* Environment: raft leadership of the root group (on_leader) and the      *)
(* schema's persisted max txn id (set_txn_id commits only through the      *)
(* leader).  A process may crash and restart; the persisted value          *)
(* survives, memory does not.                                              *)
(***************************************************************************)
EXTENDS Integers, Sequences, FiniteSets, TLC

CONSTANTS
    Nodes,          \* servers that host a root replica
    Clients,        \* concurrent alloc_txn_id callers, one call each
    AllocSizes,     \* the num_required a caller may ask for
    Reserve,        \* bump reservation ahead of the clock (5_000_000_000)
    Clock,          \* readings timestamp_nanos() may return
    MaxId,          \* bound: largest max_txn_id a bump may reserve
    MaxElections,   \* bound: number of root leadership changes
    NoNode,         \* no raft leader
    NoCore          \* RootShared.core = None

ASSUME Reserve > 0 /\ Clock \subseteq Nat /\ AllocSizes \subseteq Nat \ {0}

\* RootCore values are identified by the election that created them.
CoreIds == 1 .. MaxElections

VARIABLES
    raftLeader,   \* the root group's raft leader, or NoNode
    elections,    \* root leaderships won so far (bounds CoreIds)
    persisted,    \* schema max txn id (set_txn_id)
    phase,        \* [Nodes -> position in run_schedule / step_leader]
    shared,       \* [Nodes -> CoreIds \cup {NoCore}]: RootShared.core
    core,         \* [CoreIds -> [node, next, max, live]]: the atomics of a RootCore
    bumper,       \* [CoreIds -> state of the txn_bumper task]
    pending,      \* [CoreIds -> value the bumper persisted but not yet stored]
    cpc,          \* [Clients -> position of the caller in alloc_txn_id]
    ccore,        \* [Clients -> the RootCore clone the caller holds]
    loaded,       \* [Clients -> next_txn_id the caller loaded]
    required,     \* [Clients -> num_required of the call]
    issued        \* sequence of ranges [lo, num, by] returned, in return order (by: the core)

vars == <<raftLeader, elections, persisted, phase, shared, core, bumper,
          pending, cpc, ccore, loaded, required, issued>>

-----------------------------------------------------------------------------
\* RootCore::bump_txn_id: the new reservation from the core's max_txn_id
\* and a reading of the wall clock.
BumpValue(max, now) == IF max >= now THEN max + Reserve ELSE now + Reserve

\* Dropping a JoinHandle aborts the task at its next poll: a bumper that is
\* idle or awaiting set_txn_id is cancelled; one being polled between the
\* completed set_txn_id and the store of max_txn_id may still store, and
\* ends at its next await ("dropping").
DropBumper(b) ==
    IF b = "persisted" THEN {"cancelled", "dropping"} ELSE {"cancelled"}

-----------------------------------------------------------------------------
(* Raft leadership of the root group (environment).                        *)

Elect(n) ==
    /\ raftLeader = NoNode
    /\ elections < MaxElections
    /\ raftLeader' = n
    /\ elections' = elections + 1
    /\ UNCHANGED <<persisted, phase, shared, core, bumper, pending, cpc, ccore, loaded, required, issued>>

LoseLeadership ==
    /\ raftLeader # NoNode
    /\ raftLeader' = NoNode
    /\ UNCHANGED <<elections, persisted, phase, shared, core, bumper, pending, cpc, ccore, loaded, required, issued>>

-----------------------------------------------------------------------------
(* Root::run_schedule and Root::step_leader.                               *)

\* on_leader("root") returns: step_leader reads the persisted max txn id
\* (an error NotLeader goes back to waiting), builds RootCore{next = max =
\* persisted} and runs the first bump_txn_id, which persists and stores
\* before the core is published.  The core gets the election's id.
StepLeaderInit(n) ==
    /\ phase[n] = "follower"
    /\ raftLeader = n
    /\ \E now \in Clock :
         LET c == elections
             v == BumpValue(persisted, now)
         IN /\ v <= MaxId
            /\ core[c].node = NoNode
            /\ core' = [core EXCEPT ![c] = [node |-> n, next |-> persisted,
                                             max |-> v, live |-> TRUE]]
            /\ persisted' = v
            /\ phase' = [phase EXCEPT ![n] = "published"]
            \* spawn the bumper, then *core = Some(root_core)
            /\ bumper' = [bumper EXCEPT ![c] = "idle"]
            /\ shared' = [shared EXCEPT ![n] = c]
    /\ UNCHANGED <<raftLeader, elections, pending, cpc, ccore, loaded, required, issued>>

\* ongoing_stats.reset, heartbeat_queue.enable, jobs.on_step_leader().await?
\* and schema.list_node().await?.  While still leader they succeed and the
\* reconcile loop starts.
StepLeaderHooks(n) ==
    /\ phase[n] = "published"
    /\ raftLeader = n
    /\ phase' = [phase EXCEPT ![n] = "serving"]
    /\ UNCHANGED <<raftLeader, elections, persisted, shared, core, bumper, pending, cpc, ccore, loaded, required, issued>>

\* The same calls fail with NotLeader once the lease is gone: `?` returns
\* the error before the clean-up at the end of step_leader, dropping only
\* the bumper handle; run_schedule continues as a follower while the core
\* stays published with its max_txn_id.
StepLeaderHooksFail(n) ==
    /\ phase[n] = "published"
    /\ raftLeader # n
    /\ \E b \in DropBumper(bumper[shared[n]]) :
         bumper' = [bumper EXCEPT ![shared[n]] = b]
    /\ phase' = [phase EXCEPT ![n] = "follower"]
    /\ UNCHANGED <<raftLeader, elections, persisted, shared, core, pending, cpc, ccore, loaded, required, issued>>

\* Any other error of step_leader (an Io or Rpc error of max_txn_id,
\* bump_txn_id, jobs.on_step_leader or list_node) reaches run_schedule's
\* todo!(): the panic ends the run_schedule task only.  Unwinding drops the
\* bumper handle; a core already published stays published, with its
\* max_txn_id, and nothing on n steps leader again until a restart.
StepLeaderPanic(n) ==
    \/ /\ phase[n] = "follower"
       /\ raftLeader = n
       /\ phase' = [phase EXCEPT ![n] = "dead"]
       /\ UNCHANGED bumper
    \/ /\ phase[n] = "published"
       /\ \E b \in DropBumper(bumper[shared[n]]) :
            bumper' = [bumper EXCEPT ![shared[n]] = b]
       /\ phase' = [phase EXCEPT ![n] = "dead"]
    /\ UNCHANGED <<raftLeader, elections, persisted, shared, core, pending, cpc, ccore, loaded, required, issued>>

\* The reconcile loop sees on_leader fail: drop the bumper handle, store 0
\* into max_txn_id, disable the heartbeat queue and set the core to None.
StepDown(n) ==
    /\ phase[n] = "serving"
    /\ raftLeader # n
    /\ \E b \in DropBumper(bumper[shared[n]]) :
         bumper' = [bumper EXCEPT ![shared[n]] = b]
    /\ core' = [core EXCEPT ![shared[n]].max = 0]
    /\ shared' = [shared EXCEPT ![n] = NoCore]
    /\ phase' = [phase EXCEPT ![n] = "follower"]
    /\ UNCHANGED <<raftLeader, elections, persisted, pending, cpc, ccore, loaded, required, issued>>

\* The process of node n crashes and restarts: memory (cores, tasks,
\* in-flight callers on n) is lost, the persisted value survives.
Crash(n) ==
    /\ phase' = [phase EXCEPT ![n] = "follower"]
    /\ shared' = [shared EXCEPT ![n] = NoCore]
    /\ core' = [c \in CoreIds |->
                  IF core[c].node = n THEN [core[c] EXCEPT !.live = FALSE] ELSE core[c]]
    /\ bumper' = [c \in CoreIds |->
                    IF core[c].node = n /\ bumper[c] # "none" THEN "cancelled" ELSE bumper[c]]
    /\ cpc' = [cl \in Clients |->
                 IF cpc[cl] \in {"load", "cas"} /\ core[ccore[cl]].node = n
                 THEN "failed" ELSE cpc[cl]]
    /\ raftLeader' = IF raftLeader = n THEN NoNode ELSE raftLeader
    /\ UNCHANGED <<elections, persisted, pending, ccore, loaded, required, issued>>

-----------------------------------------------------------------------------
(* The txn_bumper task of core c: every 30s bump_txn_id; an error ends it. *)

\* bump_txn_id reads max_txn_id, then awaits set_txn_id: the schema write
\* commits only through the raft leader.
BumperPersist(c) ==
    /\ bumper[c] = "idle"
    /\ core[c].live
    /\ IF raftLeader = core[c].node
       THEN \E now \in Clock :
              LET v == BumpValue(core[c].max, now) IN
                /\ v <= MaxId
                /\ persisted' = v
                /\ pending' = [pending EXCEPT ![c] = v]
                /\ bumper' = [bumper EXCEPT ![c] = "persisted"]
       ELSE /\ bumper' = [bumper EXCEPT ![c] = "stopped"]   \* warn!, break
            /\ UNCHANGED <<persisted, pending>>
    /\ UNCHANGED <<raftLeader, elections, phase, shared, core, cpc, ccore, loaded, required, issued>>

\* ... then max_txn_id.store(next_txn_id, Release) and sleep again.
BumperStore(c) ==
    /\ bumper[c] \in {"persisted", "dropping"}
    /\ core[c].live
    /\ core' = [core EXCEPT ![c].max = pending[c]]
    /\ bumper' = [bumper EXCEPT ![c] = IF @ = "dropping" THEN "cancelled" ELSE "idle"]
    /\ UNCHANGED <<raftLeader, elections, persisted, phase, shared, pending, cpc, ccore, loaded, required, issued>>

-----------------------------------------------------------------------------
(* Root::alloc_txn_id(num_required).                                       *)

\* root_core(): clone the published core, or NotRootLeader.
AllocStart(cl, n, num) ==
    /\ cpc[cl] = "idle"
    /\ required' = [required EXCEPT ![cl] = num]
    /\ IF shared[n] = NoCore
       THEN /\ cpc' = [cpc EXCEPT ![cl] = "failed"]
            /\ UNCHANGED ccore
       ELSE /\ cpc' = [cpc EXCEPT ![cl] = "load"]
            /\ ccore' = [ccore EXCEPT ![cl] = shared[n]]
    /\ UNCHANGED <<raftLeader, elections, persisted, phase, shared, core, bumper, pending, loaded, issued>>

\* Faulty variant: alloc_txn_id without the `next + n > max` check.
AllocLoadNoFit(cl) ==
    /\ cpc[cl] = "load"
    /\ IF core[ccore[cl]].max = 0
       THEN /\ cpc' = [cpc EXCEPT ![cl] = "failed"]
            /\ UNCHANGED loaded
       ELSE /\ loaded' = [loaded EXCEPT ![cl] = core[ccore[cl]].next]
            /\ cpc' = [cpc EXCEPT ![cl] = "cas"]
    /\ UNCHANGED <<raftLeader, elections, persisted, phase, shared, core, bumper, pending, ccore, required, issued>>

\* Load next_txn_id and max_txn_id: 0 means NotLeader; when the range does
\* not fit the caller yields and loads again (no step here).
AllocLoad(cl) ==
    /\ cpc[cl] = "load"
    /\ LET c == core[ccore[cl]]
           num == required[cl] IN
         IF c.max = 0
         THEN /\ cpc' = [cpc EXCEPT ![cl] = "failed"]
              /\ UNCHANGED loaded
         ELSE /\ c.next + num <= c.max
              /\ loaded' = [loaded EXCEPT ![cl] = c.next]
              /\ cpc' = [cpc EXCEPT ![cl] = "cas"]
    /\ UNCHANGED <<raftLeader, elections, persisted, phase, shared, core, bumper, pending, ccore, required, issued>>

\* Faulty variant: a load-then-store in place of compare_exchange.
AllocCasBlind(cl) ==
    /\ cpc[cl] = "cas"
    /\ core' = [core EXCEPT ![ccore[cl]].next = loaded[cl] + required[cl]]
    /\ issued' = Append(issued, [lo |-> loaded[cl], num |-> required[cl], by |-> ccore[cl]])
    /\ cpc' = [cpc EXCEPT ![cl] = "done"]
    /\ UNCHANGED <<raftLeader, elections, persisted, phase, shared, bumper, pending, ccore, loaded, required>>

\* compare_exchange(next, next + num): success returns next, failure loads
\* again.
AllocCas(cl) ==
    /\ cpc[cl] = "cas"
    /\ LET c == ccore[cl]
           num == required[cl] IN
         IF core[c].next = loaded[cl]
         THEN /\ core' = [core EXCEPT ![c].next = loaded[cl] + num]
              /\ issued' = Append(issued, [lo |-> loaded[cl], num |-> num, by |-> c])
              /\ cpc' = [cpc EXCEPT ![cl] = "done"]
         ELSE /\ cpc' = [cpc EXCEPT ![cl] = "load"]
              /\ UNCHANGED <<core, issued>>
    /\ UNCHANGED <<raftLeader, elections, persisted, phase, shared, bumper, pending, ccore, loaded, required>>

-----------------------------------------------------------------------------
Init ==
    /\ raftLeader = NoNode
    /\ elections = 0
    /\ persisted = 0
    /\ phase = [n \in Nodes |-> "follower"]
    /\ shared = [n \in Nodes |-> NoCore]
    /\ core = [c \in CoreIds |-> [node |-> NoNode, next |-> 0, max |-> 0, live |-> FALSE]]
    /\ bumper = [c \in CoreIds |-> "none"]
    /\ pending = [c \in CoreIds |-> 0]
    /\ cpc = [cl \in Clients |-> "idle"]
    /\ ccore = [cl \in Clients |-> NoCore]
    /\ loaded = [cl \in Clients |-> 0]
    /\ required = [cl \in Clients |-> CHOOSE s \in AllocSizes : TRUE]
    /\ issued = <<>>

\* Every caller has returned: the callers of this model are done.
CallersDone ==
    /\ \A cl \in Clients : cpc[cl] \in {"done", "failed"}
    /\ UNCHANGED vars

Next ==
    \/ \E n \in Nodes :
         \/ Elect(n) \/ StepLeaderInit(n) \/ StepLeaderHooks(n)
         \/ StepLeaderHooksFail(n) \/ StepLeaderPanic(n) \/ StepDown(n) \/ Crash(n)
    \/ LoseLeadership
    \/ \E c \in CoreIds : BumperPersist(c) \/ BumperStore(c)
    \/ \E cl \in Clients :
         \/ \E n \in Nodes, num \in AllocSizes : AllocStart(cl, n, num)
         \/ AllocLoad(cl) \/ AllocCas(cl)
    \/ CallersDone

Spec == Init /\ [][Next]_vars

\* The leader loop of run_schedule, each core's txn_bumper task and every
\* caller are polled by the runtime; leadership changes and crashes are
\* the environment's and get no fairness.  A caller whose range does not
\* fit yields and re-checks on every poll, so it is strongly fair to its
\* load: it proceeds if the range fits infinitely often.
Fairness ==
    /\ \A n \in Nodes : WF_vars(StepLeaderInit(n)) /\ WF_vars(StepLeaderHooks(n))
                        /\ WF_vars(StepLeaderHooksFail(n)) /\ WF_vars(StepDown(n))
    /\ \A c \in CoreIds : WF_vars(BumperPersist(c)) /\ WF_vars(BumperStore(c))
    /\ \A cl \in Clients : SF_vars(AllocLoad(cl)) /\ WF_vars(AllocCas(cl))

FairSpec == Spec /\ Fairness

-----------------------------------------------------------------------------
TypeOK ==
    /\ raftLeader \in Nodes \cup {NoNode}
    /\ elections \in 0 .. MaxElections
    /\ persisted \in 0 .. MaxId
    /\ phase \in [Nodes -> {"follower", "published", "serving", "dead"}]
    /\ shared \in [Nodes -> CoreIds \cup {NoCore}]
    /\ core \in [CoreIds -> [node : Nodes \cup {NoNode}, next : 0 .. MaxId,
                             max : 0 .. MaxId, live : BOOLEAN]]
    /\ bumper \in [CoreIds -> {"none", "idle", "persisted", "dropping", "stopped", "cancelled"}]
    /\ cpc \in [Clients -> {"idle", "load", "cas", "done", "failed"}]
    /\ ccore \in [Clients -> CoreIds \cup {NoCore}]
    /\ required \in [Clients -> AllocSizes]
    /\ issued \in Seq([lo : Nat, num : AllocSizes, by : CoreIds])

Ids(r) == r.lo .. (r.lo + r.num - 1)

\* Concurrent alloc_txn_id callers on one RootCore never get overlapping
\* ranges: each loads next_txn_id, checks the fit (yielding until it
\* fits), and only the compare_exchange that still sees the value it
\* loaded takes the range; the losers load again.  This holds whatever
\* happens to leadership, since a core's next_txn_id only moves by that CAS.
CoreRangesDisjoint ==
    \A i, j \in DOMAIN issued :
        i < j /\ issued[i].by = issued[j].by => Ids(issued[i]) \cap Ids(issued[j]) = {}

\* The spec (alloc_txn_id): ranges are non-overlapping, across leaders too.
\* A node that loses the root lease and wins it back before its leader
\* loop sees the change keeps its old core: that core's bumper raises
\* max_txn_id from the in-memory value, and the core goes on handing out
\* ids from its old next_txn_id, which a core of the other leader, built
\* from the persisted max, may already have handed out.
UniqueTxnIds ==
    \A i, j \in DOMAIN issued : i < j => Ids(issued[i]) \cap Ids(issued[j]) = {}

\* The allocator implements its abstract specification: each step either
\* returns a fresh range under the durable reservation (the CAS of
\* alloc_txn_id) or persists a reservation above every id returned
\* (bump_txn_id from step_leader or a bumper, stale cores included).
Alloc == INSTANCE TxnIdSpec WITH ranges <- issued, reserved <- persisted
AllocRefinesSpec == Alloc!Spec

\* The persisted max txn id only advances (spec, root core): every
\* set_txn_id of bump_txn_id, from a fresh step_leader or a bumper, reserves
\* beyond every reservation made before, by this or another leader.
PersistedMaxAdvances == [][persisted' >= persisted]_vars

\* The spec promises that a new root leader's first id is greater than any
\* id allocated by a previous leader: in the order alloc_txn_id calls
\* return, ids only grow.
IdsIncreaseAcrossLeaders ==
    \A i, j \in DOMAIN issued : i < j => issued[i].lo < issued[j].lo

\* The model's bound: no reservation of core c fits under MaxId any more.
ReservationBoundReached(c) == BumpValue(core[c].max, 0) > MaxId

\* The spec (root core, step 6 and its liveness note): a bumper stall
\* delays alloc_txn_id only until the next bump, and losing the lease
\* stores max_txn_id = 0 to abort pending allocators.  Every caller that
\* got a core from root_core() eventually returns Ok or NotLeader (or the
\* model's bound on reservations is reached).
AllocReturns ==
    \A cl \in Clients :
        cpc[cl] \in {"load", "cas"}
            ~> \/ cpc[cl] \in {"done", "failed"}
               \/ ccore[cl] # NoCore /\ ReservationBoundReached(ccore[cl])

=============================================================================
