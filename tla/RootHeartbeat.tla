---------------------------- MODULE RootHeartbeat ----------------------------
(***************************************************************************)
(* The root's heartbeat queue (src/server/src/root/mod.rs, HeartbeatQueue) *)
(* and its three users: step_leader (enable, full-cluster try_schedule,    *)
(* the reconcile loop waiting one heartbeat tick, disable on step-down),   *)
(* the run_heartbeat daemon (try_poll while schema() is Ok, send, then     *)
(* reschedule) and join/report (try_schedule now).                         *)
(*                                                                          *)
(* The futures Mutex around HeartbeatQueueCore makes try_schedule,         *)
(* try_poll, enable and the sentinel insert of wait_one_heartbeat_tick     *)
(* one step each.  The DelayQueue is kept apart from node_scheduled so     *)
(* that the two may disagree.  Time is tokio's Instant in whole ticks.     *)
(***************************************************************************)
EXTENDS Integers, FiniteSets, TLC

CONSTANTS
    Nodes,            \* heartbeat targets (node ids in the schema)
    Interval,         \* heartbeat interval: send_heartbeat reschedules at now + Interval
    MaxTime,          \* bound: the last instant of the model's horizon
    MaxLeaseChanges,  \* bound: changes of the root lease
    MaxJoins,         \* bound: try_schedule calls from join / report
    NoDeadline        \* node_scheduled has no entry for the node

Time == 0 .. MaxTime

VARIABLES
    now,            \* Instant::now()
    lease,          \* the root replica holds the lease (on_leader)
    leaseChanges,
    joins,
    published,      \* RootShared.core is Some: schema() is Ok
    enabled,        \* HeartbeatQueueCore.enable
    delay,          \* heartbeat entries of the DelayQueue: set of [node, at]
    nodeScheduled,  \* HeartbeatQueueCore.node_scheduled: node -> when
    sentinel,       \* the reconcile loop's Sentinel: none/queued/fired/dropped
    lpc,            \* position of step_leader
    hpc,            \* position of run_heartbeat
    polled,         \* nodes returned by the last try_poll, being sent
    requested       \* ghost: whens asked for each node since its entry was last removed

vars == <<now, lease, leaseChanges, joins, published, enabled, delay,
          nodeScheduled, sentinel, lpc, hpc, polled, requested>>

-----------------------------------------------------------------------------
(* HeartbeatQueue operations, each under the queue's lock.                 *)

\* Faulty variant: the reschedule comparison reversed (when > old_when).
TryScheduleLaterWins(ns, when) ==
    IF ~enabled
    THEN UNCHANGED <<delay, nodeScheduled, requested>>
    ELSE
    LET later == {n \in ns : nodeScheduled[n] # NoDeadline /\ when > nodeScheduled[n]}
        fresh == {n \in ns : nodeScheduled[n] = NoDeadline}
    IN /\ delay' = (delay \ {[node |-> n, at |-> nodeScheduled[n]] : n \in later})
                    \cup {[node |-> n, at |-> when] : n \in later \cup fresh}
       /\ nodeScheduled' = [n \in Nodes |-> IF n \in later \cup fresh THEN when ELSE nodeScheduled[n]]
       /\ requested' = [n \in Nodes |->
                          IF n \in ns THEN requested[n] \cup {when} ELSE requested[n]]

\* try_schedule(tasks, when) as a relation between the queue before and
\* after: a node with an entry is reset only to an earlier deadline, a node
\* without one gets a new entry.
TrySchedule(ns, when) ==
    IF ~enabled
    THEN UNCHANGED <<delay, nodeScheduled, requested>>
    ELSE
    LET earlier == {n \in ns : nodeScheduled[n] # NoDeadline /\ when < nodeScheduled[n]}
        fresh == {n \in ns : nodeScheduled[n] = NoDeadline}
        moved == earlier \cup fresh
    IN /\ delay' = (delay \ {[node |-> n, at |-> nodeScheduled[n]] : n \in earlier})
                    \cup {[node |-> n, at |-> when] : n \in moved}
       /\ nodeScheduled' = [n \in Nodes |-> IF n \in moved THEN when ELSE nodeScheduled[n]]
       /\ requested' = [n \in Nodes |->
                          IF n \in ns THEN requested[n] \cup {when} ELSE requested[n]]

\* try_poll: nothing when disabled; otherwise drain every expired entry,
\* drop node_scheduled of the heartbeats and send to the sentinel.
Expired == {e \in delay : e.at <= now}

\* Faulty variants of try_poll: node_scheduled left in place; the enable
\* check inverted; sentinels returned among the heartbeat tasks.
TryPollKeepScheduled ==
    IF ~enabled
    THEN /\ polled' = {}
         /\ UNCHANGED <<delay, nodeScheduled, sentinel, requested>>
    ELSE /\ delay' = delay \ Expired
         /\ sentinel' = IF sentinel = "queued" THEN "fired" ELSE sentinel
         /\ polled' = {e.node : e \in Expired}
         /\ UNCHANGED <<nodeScheduled, requested>>

TryPollWhenDisabled ==
    IF enabled
    THEN /\ polled' = {}
         /\ UNCHANGED <<delay, nodeScheduled, sentinel, requested>>
    ELSE /\ delay' = delay \ Expired
         /\ nodeScheduled' = [n \in Nodes |-> IF n \in {e.node : e \in Expired} THEN NoDeadline ELSE nodeScheduled[n]]
         /\ requested' = [n \in Nodes |-> IF n \in {e.node : e \in Expired} THEN {} ELSE requested[n]]
         /\ sentinel' = IF sentinel = "queued" THEN "fired" ELSE sentinel
         /\ polled' = {e.node : e \in Expired}

TryPoll ==
    IF ~enabled
    THEN /\ polled' = {}
         /\ UNCHANGED <<delay, nodeScheduled, sentinel, requested>>
    ELSE LET gone == {e.node : e \in Expired} IN
         /\ delay' = delay \ Expired
         /\ nodeScheduled' = [n \in Nodes |-> IF n \in gone THEN NoDeadline ELSE nodeScheduled[n]]
         /\ requested' = [n \in Nodes |-> IF n \in gone THEN {} ELSE requested[n]]
         /\ sentinel' = IF sentinel = "queued" THEN "fired" ELSE sentinel
         /\ polled' = gone

\* enable(flag): a change clears the DelayQueue (dropping a queued sentinel,
\* whose receiver then completes) and node_scheduled.
Enable(flag) ==
    IF enabled # flag
    THEN /\ enabled' = flag
         /\ delay' = {}
         /\ nodeScheduled' = [n \in Nodes |-> NoDeadline]
         /\ requested' = [n \in Nodes |-> {}]
         /\ sentinel' = IF sentinel = "queued" THEN "dropped" ELSE sentinel
    ELSE UNCHANGED <<enabled, delay, nodeScheduled, requested, sentinel>>

-----------------------------------------------------------------------------
(* Environment: time and the root lease.                                   *)

Tick ==
    /\ now < MaxTime
    /\ now' = now + 1
    /\ UNCHANGED <<lease, leaseChanges, joins, published, enabled, delay,
                   nodeScheduled, sentinel, lpc, hpc, polled, requested>>

LeaseChange ==
    /\ leaseChanges < MaxLeaseChanges
    /\ lease' = ~lease
    /\ leaseChanges' = leaseChanges + 1
    /\ UNCHANGED <<now, joins, published, enabled, delay, nodeScheduled,
                   sentinel, lpc, hpc, polled, requested>>

-----------------------------------------------------------------------------
(* Root::step_leader, the parts that touch the queue.                      *)

\* on_leader, the core is published (the txn-id part is RootTxnAlloc).
StepUp ==
    /\ lpc = "follower"
    /\ lease
    /\ published' = TRUE
    /\ lpc' = "publish"
    /\ UNCHANGED <<now, lease, leaseChanges, joins, enabled, delay,
                   nodeScheduled, sentinel, hpc, polled, requested>>

\* ongoing_stats.reset(); heartbeat_queue.enable(true).
StepUpEnable ==
    /\ lpc = "publish"
    /\ Enable(TRUE)
    /\ lpc' = "enabled"
    /\ UNCHANGED <<now, lease, leaseChanges, joins, published, hpc, polled>>

\* jobs.on_step_leader()? and list_node()? succeed; a full-cluster
\* try_schedule at now.
StepUpSchedule ==
    /\ lpc = "enabled"
    /\ lease
    /\ TrySchedule(Nodes, now)
    /\ lpc' = "loop"
    /\ UNCHANGED <<now, lease, leaseChanges, joins, published, enabled, sentinel, hpc, polled>>

\* ... or fail with NotLeader: `?` returns before the clean-up; the queue
\* stays enabled and the core published.
StepUpFail ==
    /\ lpc = "enabled"
    /\ ~lease
    /\ lpc' = "follower"
    /\ UNCHANGED <<now, lease, leaseChanges, joins, published, enabled, delay,
                   nodeScheduled, sentinel, hpc, polled, requested>>

\* The loop: on_leader Ok -> step_one, sleep, wait_one_heartbeat_tick
\* (insert a Sentinel due now unless disabled); else leave the loop.
LoopStep ==
    /\ lpc = "loop"
    /\ IF lease
       THEN IF enabled
            THEN /\ sentinel' = "queued"
                 /\ lpc' = "waiting"
            ELSE UNCHANGED <<sentinel, lpc>>
       ELSE /\ lpc' = "stepdown"
            /\ UNCHANGED sentinel
    /\ UNCHANGED <<now, lease, leaseChanges, joins, published, enabled, delay,
                   nodeScheduled, hpc, polled, requested>>

\* receiver.await completes: the sender fired or was dropped.
TickReturned ==
    /\ lpc = "waiting"
    /\ sentinel \in {"fired", "dropped"}
    /\ sentinel' = "none"
    /\ lpc' = "loop"
    /\ UNCHANGED <<now, lease, leaseChanges, joins, published, enabled, delay,
                   nodeScheduled, hpc, polled, requested>>

\* Clean-up: heartbeat_queue.enable(false), then *core = None.
StepDownDisable ==
    /\ lpc = "stepdown"
    /\ Enable(FALSE)
    /\ lpc' = "unpublish"
    /\ UNCHANGED <<now, lease, leaseChanges, joins, published, hpc, polled>>

StepDownUnpublish ==
    /\ lpc = "unpublish"
    /\ published' = FALSE
    /\ lpc' = "follower"
    /\ UNCHANGED <<now, lease, leaseChanges, joins, enabled, delay,
                   nodeScheduled, sentinel, hpc, polled, requested>>

-----------------------------------------------------------------------------
(* Root::run_heartbeat and the try_schedule of join / report.              *)

\* if schema() is Ok: try_poll; nodes to send, or sleep 1s and loop.
HeartbeatPoll ==
    /\ hpc = "idle"
    /\ published
    /\ TryPoll
    /\ hpc' = IF polled' = {} THEN "idle" ELSE "sending"
    /\ UNCHANGED <<now, lease, leaseChanges, joins, published, enabled, lpc>>

\* send_heartbeat (heartbeat.rs, spec_modelled): each node polled is
\* rescheduled for its next heartbeat one interval ahead, within the
\* horizon.
HeartbeatSend ==
    /\ hpc = "sending"
    /\ IF now + Interval <= MaxTime
       THEN TrySchedule(polled, now + Interval)
       ELSE UNCHANGED <<delay, nodeScheduled, requested>>
    /\ hpc' = "idle"
    /\ polled' = {}
    /\ UNCHANGED <<now, lease, leaseChanges, joins, published, enabled, sentinel, lpc>>

\* join (a new node) or report (a new root group desc): try_schedule now.
ScheduleNow(n) ==
    /\ joins < MaxJoins
    /\ published
    /\ TrySchedule({n}, now)
    /\ joins' = joins + 1
    /\ UNCHANGED <<now, lease, leaseChanges, published, enabled, sentinel, lpc, hpc, polled>>

\* The horizon is reached and nothing is due.
Horizon ==
    /\ now = MaxTime
    /\ UNCHANGED vars

-----------------------------------------------------------------------------
Init ==
    /\ now = 0
    /\ lease = FALSE
    /\ leaseChanges = 0
    /\ joins = 0
    /\ published = FALSE
    /\ enabled = FALSE
    /\ delay = {}
    /\ nodeScheduled = [n \in Nodes |-> NoDeadline]
    /\ sentinel = "none"
    /\ lpc = "follower"
    /\ hpc = "idle"
    /\ polled = {}
    /\ requested = [n \in Nodes |-> {}]

Next ==
    \/ Tick \/ LeaseChange
    \/ StepUp \/ StepUpEnable \/ StepUpSchedule \/ StepUpFail
    \/ LoopStep \/ TickReturned \/ StepDownDisable \/ StepDownUnpublish
    \/ HeartbeatPoll \/ HeartbeatSend
    \/ \E n \in Nodes : ScheduleNow(n)
    \/ Horizon

\* Tokio's clock advances; the two daemons and the leader task are polled
\* whenever they can run.  The lease is the environment's and gets no
\* fairness.
Fairness ==
    /\ WF_vars(Tick)
    /\ WF_vars(HeartbeatPoll) /\ WF_vars(HeartbeatSend)
    /\ WF_vars(StepUp) /\ WF_vars(StepUpEnable) /\ WF_vars(StepUpSchedule)
    /\ WF_vars(StepUpFail) /\ WF_vars(LoopStep) /\ WF_vars(TickReturned)
    /\ WF_vars(StepDownDisable) /\ WF_vars(StepDownUnpublish)

Spec == Init /\ [][Next]_vars /\ Fairness

-----------------------------------------------------------------------------
TypeOK ==
    /\ now \in Time
    /\ lease \in BOOLEAN /\ published \in BOOLEAN /\ enabled \in BOOLEAN
    /\ delay \subseteq [node : Nodes, at : Time]
    /\ nodeScheduled \in [Nodes -> Time \cup {NoDeadline}]
    /\ sentinel \in {"none", "queued", "fired", "dropped"}
    /\ lpc \in {"follower", "publish", "enabled", "loop", "waiting", "stepdown", "unpublish"}
    /\ hpc \in {"idle", "sending"}
    /\ polled \subseteq Nodes

\* node_scheduled and the DelayQueue agree: a node has an entry in the
\* queue exactly when node_scheduled names it, at the deadline it records,
\* and never two.  try_schedule relies on it: reset_at on a key the queue
\* no longer holds panics, and a second insert would send two heartbeats.
QueueConsistent ==
    \A n \in Nodes :
        {e \in delay : e.node = n} =
            IF nodeScheduled[n] = NoDeadline THEN {}
            ELSE {[node |-> n, at |-> nodeScheduled[n]]}

\* Reschedules coalesce to the earliest: a node's pending heartbeat is due
\* at the earliest `when` any try_schedule (leader start, join, report,
\* send_heartbeat) asked for since its last heartbeat was polled or the
\* queue was cleared.
EarliestDeadline ==
    \A n \in Nodes :
        nodeScheduled[n] # NoDeadline =>
            \A w \in requested[n] : nodeScheduled[n] <= w

\* The reconcile loop never waits forever in wait_one_heartbeat_tick:
\* run_heartbeat polls the sentinel while the core is published, or
\* disabling the queue drops it.
TickReturns == (lpc = "waiting") ~> (lpc # "waiting")

\* Every heartbeat scheduled is eventually polled, or the queue cleared.
ScheduledEventuallyPolled ==
    \A n \in Nodes : (nodeScheduled[n] # NoDeadline) ~> (nodeScheduled[n] = NoDeadline)

=============================================================================
