# TLA+ models of sekas

This directory holds TLA+ models of the parts of sekas, a distributed
transactional key-value store, whose code is in this repository
(`src/src/server/src`), and the TLC configurations that check them.

## The system and its parts

| Part | Code | What it does | Model |
|---|---|---|---|
| Shard intent evaluation | `replica/eval/cmd_txn.rs` | `write_intent` stages a txn's writes as intents at `TXN_INTENT_VERSION`, resolving foreign intents through the key latch; `commit_intent` turns them into versions at `commit_version`; `clear_intent` drops them | `TxnIntent`, run by `MCTxnIntent` |
| Root txn-id allocator | `root/mod.rs` (`RootCore`, `step_leader`, `run_schedule`, `alloc_txn_id`) | The root leader holds a reserved range `[next_txn_id, max_txn_id)` persisted in the schema, raises it with a periodic bumper, and hands out ids by CAS | `RootTxnAlloc`, run by `MCRootTxnAlloc`; `TxnIdSpec` states its promise, which it does not keep (finding 2) |
| Node lifecycle | `root/mod.rs` `cordon_node`, `uncordon_node`, `begin_drain` | Admin transitions of a node's status, read and written back without CAS | `NodeLifecycle`, run by `MCNodeLifecycle` |
| Heartbeat queue | `root/mod.rs` `HeartbeatQueue`, `run_heartbeat`, the heartbeat parts of `step_leader` | Deadline-ordered heartbeat tasks and the reconcile loop's sentinel, enabled only on the root leader | `RootHeartbeat`, run by `MCRootHeartbeat` |
| Ongoing stats | `root/mod.rs` `OngoingStats`, `SchedStats` | Epoch-guarded per-group schedule state and the per-node view rebuilt from it | `RootReport` (SchedStats; JobStats is set only by background jobs, which are not in this repository) |
| Report | `root/mod.rs` `report` | Epoch and term filtered merge of reported group and replica state into the schema, and the schedule state into the stats | `RootReport`, run by `MCRootReport` |
| Replica allocation | `root/mod.rs` `alloc_replica` | Reads the schema and asks the allocator; changes no root state | not modelled |
| Join | `bootstrap.rs` `bootstrap_or_join_cluster`, `try_join_cluster`; `root/mod.rs` `join` | A node without an ident joins through a retry loop; the root adds a node descriptor | `ClusterJoin`, run by `MCClusterJoin` |
| Schema administration | `root/mod.rs` `create_database`, `delete_database`, `create_collection`, `delete_collection`, `run_background_jobs` | Schema writes, durable background jobs (create, purge) and watcher notifications, each an `await` that can fail with NotLeader | `SchemaAdmin`, run by `MCSchemaAdmin` (the watcher hub and watch registration not modelled) |
| Cluster bootstrap | `bootstrap.rs` `bootstrap_cluster`; `root/mod.rs` `step_leader`'s `try_bootstrap_root` | The `--init` node creates the first groups and saves its ident; the root's first leadership seeds the schema | `ClusterJoin` (the Seed) |
| Service | `service/mod.rs` | Wiring | not modelled |
| etcd KV layer | `layers/etcd/src/kv.rs` | etcd-compatible `range`, `put`, `delete_range`, `txn` | not modelled (every method is `todo!()`) |

How the parts interact. A client coordinator draws a `start_version`
from the root's allocator. It sends `write_intent` to every shard it writes.
Depending on the replies it either commits its txn record at a
`commit_version` and sends `commit_intent`, or aborts it and sends
`clear_intent`. A shard that meets another txn's intent calls the latch's
`resolve_txn`. That call reads the owner's record and does one of three things:
- it commits the intent on the owner's behalf if the owner committed;
- it drops the intent if the owner aborted;
- it force-aborts the owner if the owner is still pending.

The coordinator, the latch and the engine are not in this repository. They are
modelled from `spec.md`, and the map in `PROJECT.json` marks those
definitions `spec_modelled`.

## TxnIntent: the intent protocol of one shard

State:
- `store[k]`: the committed MVCC chain of key `k`, as a function from
  version to content;
- `intent[k]`: the intent at `TXN_INTENT_VERSION`;
- `record[t]`: the txn record;
- client state `pc`, `startV`, `plan` and `nextTs`, the version source;
- `msgs`: the request messages;
- `resp`: the last response to each txn;
- `served`: the write requests evaluated so far.

A shard handler evaluates and applies its write batch while it holds the key
latches, so each of `ServeWriteIntent`, `ServeCommitIntent` and
`ServeClearIntent` is a single step. `ServeWriteIntent` folds `EvalWrite`
over the request's writes, deletes first as in the code. One fold step is
one iteration of the delete or put loop:
- read the intent and the next key;
- resolve a foreign intent, or skip the key if the intent has the same
  `start_version`;
- evaluate the conditions; a failure returns `CasFailed`;
- `apply_put_op` gives the content. `AddI64` wraps at `Width` bits;
  bytes that are not an i64 give `InvalidArgument`;
- stage a tombstone or put intent.

The contents are a few small integers and one model value `a`, which is not an
i64. Together they exercise every branch of `apply_put_op`.

Properties:
- `SerialHistory` (invariant). Every committed version of a key was written
  by a txn committed at exactly that version. The txn's condition held
  against the version just below, and the content is its put, tombstone or
  wrapped sum applied to that version. Catching a lost update takes two txns
  and a resolver.
- `CommittedDurable` (invariant). A committed txn that has finished has all of
  its non-Nop writes in the chains.
- `Quiescence` (liveness). Eventually every txn is done and no intent is left.
- `WriteIntentIdempotent` (action property, used in a violation run). Serving
  an already-served write request does not change the store or the intents.

Fairness: weak fairness on each client step and on serving each txn's
messages. The code's tasks run on a cooperative executor that keeps polling a
ready task, and nothing in the protocol disables a step once it is enabled.

## RootTxnAlloc: root leadership and the txn-id allocator

State:
- the environment: `raftLeader`, the root group's lease holder, and
  `persisted`, the schema's max txn id;
- `phase[n]`: each node's position in `run_schedule` and `step_leader`;
- `shared[n]`: `RootShared.core`;
- `core[c]`: the atomics of each `RootCore` created, identified by the
  election that created it;
- `bumper[c]` and `pending[c]`: each core's bumper task;
- each caller's position, cloned core, loaded `next_txn_id` and
  `num_required`;
- `issued`: the ranges returned, in order, each with the core that
  returned it.

Actions follow the code:
- `StepLeaderInit`: load the persisted max, build the core, do the first bump
  (persist, then store), spawn the bumper, publish.
- `StepLeaderHooks` and `StepLeaderHooksFail`: `jobs.on_step_leader()?` and
  `list_node()?`. A `NotLeader` error returns before the clean-up, so the
  core stays published.
- `StepDown`: drop the bumper handle, store 0, unpublish.
- `BumperPersist` and `BumperStore`: the two halves of `bump_txn_id` around
  its `await`.
- `AllocStart`, `AllocLoad` and `AllocCas`: `root_core()`, the loads with
  their `0` and fit checks, and the CAS.
- `StepLeaderPanic`: any other `step_leader` error reaches `run_schedule`'s
  `todo!()`. The panic ends only that spawned task (the build does not
  abort on panic): the node never steps leader again, its bumper handle is
  dropped, and a core it published stays published for its callers.
- `Crash`: a process restart. Memory is lost; the persisted max survives.

Dropping a bumper's handle cancels it at its next poll. A bumper being
polled between `set_txn_id` and the store can still store; see
`DropBumper`. Wall-clock readings are any member of `Clock`, which covers
clock skew.

Properties:
- `CoreRangesDisjoint`: callers on one core never get overlapping ranges.
  Only the compare_exchange that still sees the loaded `next_txn_id` takes
  a range. This holds whatever leadership does, because a core's
  `next_txn_id` moves only by that CAS.
- `UniqueTxnIds` (violation run): no id is returned twice, across cores.
  At three elections it fails (finding 2).
- `PersistedMaxAdvances` and `IdsIncreaseAcrossLeaders` state two more
  promises of `spec.md`. `MCRootTxnAllocABA.cfg` and
  `MCRootTxnAllocOrder.cfg` show that the code keeps neither. They are kept
  outside the listed runs, and each finds its trace in a few seconds
  (findings 2 and 3).
- `AllocReturns` (liveness): every caller that got a core from `root_core()`
  eventually returns, either `Ok` or `NotLeader`. A range that does not fit
  only waits for the bumper, and a step-down stores 0.

`TxnIdSpec` is the abstract allocator. It has two variables: `ranges`,
the ranges returned in order, and `reserved`, the durable reservation. It
has two actions:
- `Issue` returns a range that shares no id with an earlier one and ends
  at or below `reserved`;
- `Reserve` moves the reservation anywhere above every id returned.

`AllocRefinesSpec` maps `issued` to `ranges` and `persisted` to
`reserved`. At the bounds of `root_alloc` it adds nothing to
`CoreRangesDisjoint`. At three elections it fails, for the reason
`root_alloc_dup` shows. `MCRootTxnAllocRefine.cfg`, kept outside the listed
runs, finds that trace in about 15 seconds.

Fairness (`FairSpec`):
- Weak fairness on each step of the leader loop and of each core's bumper,
  and on each caller's CAS. The runtime polls these tasks.
- Strong fairness on a caller's load. The yield loop re-checks on every
  poll, so if the range fits infinitely often, the caller takes it.
- No fairness for leadership changes or crashes.
- The model bounds the reservations (`MaxId`). A caller whose core can no
  longer bump under that bound is excused by `ReservationBoundReached`, so
  a counterexample never rests on the bound.

## RootHeartbeat: the heartbeat queue and its users

`HeartbeatQueueCore` sits behind a futures `Mutex`. Because of that,
`try_schedule`, `try_poll`, `enable` and the sentinel insert of
`wait_one_heartbeat_tick` are each one step.

State:
- `delay`, the DelayQueue, as a set of `[node, at]` entries;
- `nodeScheduled`, the `node_scheduled` map, kept apart from `delay` so
  that the two can disagree;
- `enabled`;
- `sentinel`, the reconcile loop's oneshot: none, queued, fired or dropped;
- `now`, tokio's clock in whole ticks;
- the root lease and whether the core is published;
- `lpc`, the position in `step_leader`;
- `hpc` and `polled`, the `run_heartbeat` daemon;
- `requested` (ghost): every deadline asked for since the node's last poll.

Actions:
- `StepUp`, `StepUpEnable`, `StepUpSchedule` and `StepUpFail`: publish,
  `enable(true)`, then the full-cluster `try_schedule` or the `?` return
  that skips the clean-up.
- `LoopStep` and `TickReturned`: the reconcile loop and its sentinel wait.
- `StepDownDisable` and `StepDownUnpublish`: `enable(false)`, which drops a
  queued sentinel, then `core = None`.
- `HeartbeatPoll`: `run_heartbeat` calls `try_poll` only while `schema()` is Ok.
- `HeartbeatSend`: `send_heartbeat` reschedules one interval ahead. It is in
  `heartbeat.rs`, which is not in this repository, so it follows the spec.
- `ScheduleNow`: `join` and `report` of a root descriptor call `try_schedule`
  now.

Properties:
- `QueueConsistent`: the queue and `node_scheduled` agree. `reset_at` on a
  missing key would panic, and a second entry would send two heartbeats.
- `EarliestDeadline`: reschedules keep the earliest deadline.
- `TickReturns` (liveness): the reconcile loop's sentinel wait returns.
- `ScheduledEventuallyPolled` (liveness): a scheduled heartbeat is polled or
  cleared.

Fairness: weak fairness on the clock, the daemon and the leader task, which
the executor keeps polling. The lease gets none.

## RootReport: report and OngoingStats

State:
- `group`, the truth about each group: epoch, schedule state, and the
  reported replica's term and role;
- the schema's group epoch and replica state;
- the stats' `raw_group_delta` and `node_view`;
- the reports in flight;
- `handled` (ghost): the greatest schedule epoch handed to the stats since
  the last reset.

`report` is split at its awaits:
- `ReportRead`: `schema()?`, `get_group` and `get_replica_state`, with the
  epoch filter (`KeepDesc`) and the term filter (`KeepRS`).
- `ReportWrite`: `update_group_replica`, then `handle_update`.
  `ReportWriteFail` is its NotLeader return.

`handle_update` takes the stats mutex, so `ReplaceState` and the rebuild
(`ViewOf`) are one step. `step_leader` resets the stats after publishing
the core (`StepUpReset`) and again on step-down.

Properties:
- `NodeViewMatchesDeltas`: the view always equals the one rebuilt from the
  deltas.
- `StatsKeepNewestEpoch`: the stats hold the newest epoch handled since the
  last reset.
- `SchemaGroupEpochMonotone` (action property, violation run): the schema's
  group epoch never goes back.

`SchedStatsSpec` states the abstract promise of spec §4.7: per group, the
newest epoch since the last reset; per node, +1 for each incoming and -1
for each outgoing replica. No run checks that RootReport refines it,
because the two invariants above already say everything it says.

## NodeLifecycle: cordon, uncordon and drain

Each admin call has three steps:
- `Start`: `schema()?`. For `begin_drain` on the server's own node, it also
  sets up `ShedRoot` and refuses. Otherwise it reads the status with
  `get_node`.
- `Update`: the status check, then `update_node`, which fails with
  NotLeader once the lease has moved.
- `SetupShedLeader`: `begin_drain`'s task, set up after the write.

The scheduler's `ShedRoot` and `ShedLeader`, the end of a drain and
decommissioning live in `schedule.rs`, which is not in this repository.
They follow spec §4.7 and §4.9. A task belongs to the scheduler of the
server that set it up. It is stepped only by that server's leader loop,
that is, only while that server holds the lease (`root/mod.rs:338-341`).

Properties:
- `StatusTransitionsLegal`: every status change is an edge of the spec's
  lifecycle.

The model states no liveness. A drain completes only if the lease stays
with the server that set up `ShedLeader`. The call can also be cancelled
between `update_node` and `setup_task`. Either way the node stays Draining,
and the scheduler that would finish the drain is not in this repository.
The module has no fairness.

## ClusterJoin: bootstrapping and joining a cluster

One node, `Seed`, is started with `--init`; the others join.

A node goes through these steps:
- `Boot`: read the ident; with none, the Seed bootstraps and the others
  join;
- `InitCluster` (Seed): `bootstrap_cluster`. `write_initial_cluster_data`
  creates the root group's replica, and `save_node_ident(FIRST_NODE_ID)`
  follows as `Save`;
- `SendJoin`;
- `Recv`: Ok, or Err and retry;
- `Timeout`: a transport error, whether or not the root handled the call;
- `Save`: `save_node_ident` and `update_root`;
- `Crash`: a restart, after which only the ident and the replicas survive.
  A restart of the Seed also ends the root's lease. Its in-flight join
  handlers die, and their callers see the connection fail.

The root group lives on the Seed. `Elect` is its leadership together with
step_leader's `try_bootstrap_root`. The first time, that call seeds the
schema with the Seed's descriptor and starts the node-id counter past
`FIRST_NODE_ID`, before the core is published. `Root::join` can therefore answer only after it. `Elect` also
requires `RootRunning`: `run_in_async` starts the root's daemons
(`root.bootstrap`) only after `bootstrap_or_join_cluster` returns. Until the
Seed serves, and again after every restart of it, no join can succeed.

`Root::join` has two steps:
- `HandleAdd`: `schema()?`, then `add_node`;
- `HandleReply`: `cluster_id()?` and `get_root_desc()?`, then the reply.

A request whose caller gave up is marked stale, and its reply is dropped.

Properties:
- `SavedIdentRegistered`: once the schema is seeded, the ident a node saved
  is a descriptor of its own. The Seed saves its ident before any root
  runs.
- `NodeIdsUnique`: the Seed's hard-coded id and the ids `add_node` hands
  out never meet.
- `JoinCompletes` (liveness): every node eventually serves for good.
- `OneNodePerDataDir` (violation run): a data directory is registered once.

Fairness: weak fairness on the bootstrap and join steps, the root's
handlers and the root group's election. Transport errors, crashes and lease losses get none, so
they stop.

## SchemaAdmin: databases, collections and their jobs

Each call is a client `cl[c]` stepping through the awaits of its handler;
a step is one `await`:
- `create_database`: `CreateDatabase` (the schema write, refused for a
  name in use, then the watcher notification).
- `delete_database`: `DeleteDatabase` (lookup, `DatabaseNotFound`, the
  system database refused), `DeleteDatabaseSubmit` (the `PurgeDatabase`
  job), `DeleteDatabaseDelete` (with its notification).
- `create_collection`: `CreateCollection` (lookup of the database),
  `CreateCollectionPrepare` (an id, nothing written),
  `CreateCollectionSubmit` (`do_create_collection`: `next_shard_id` and the
  `CreateCollection` job, submitted with wait), `CreateCollectionWait` (Ok
  and the notification if the job wrote the collection, its error if it
  aborted, NotLeader if the lease is lost while it waits).
- `delete_collection`: `DeleteCollection` (lookups; a missing collection
  returns Ok, a system collection is refused), `DeleteCollectionSubmit`
  (the `PurgeCollection` job), `DeleteCollectionDelete` (with its
  notification).

No property reads what the watchers were told. Each call's last await, the
watcher hub's `notify_*`, is therefore folded into the step before it.
`Submit` adds a job to a set, so two identical jobs are one. No property
counts jobs, and the jobs delete by id, so running one twice would do
nothing more.

Every schema and job step, the wait included, has a `Fail` disjunct for NotLeader, which the
handler's `?` returns. The jobs (`JobCreateCollection`,
`JobPurgeCollection`, `JobPurgeDatabase`) follow spec §4.8 and run only
while the root leads, as `run_background_jobs` checks `schema()`. The lease
is lost at most `MaxLeaseChanges` times and regained.

Properties:
- `DroppedHavePurgeJob`: nothing leaves the schema without a durable purge
  job, whichever step fails and whatever runs in between. It breaks if a
  delete drops before it submits.
- `DroppedCollectionsPurged` (liveness): a collection taken out of the
  schema eventually has no live shard.
- `NoOrphanCollections`: a collection's database exists, or its purge job
  is pending. `MCSchemaAdminOrphan.cfg`, kept beside the listed runs, finds
  it violated: `create_collection` reads the database, a `delete_database`
  and its purge job run, and the `CreateCollection` job then writes the
  collection under the dropped database. Whether the real job rechecks the
  database is code outside this repository, so this is a hazard, not a
  finding.

Fairness: weak fairness on each call's steps (an awaited future runs to
its return), on the job loop and on regaining the lease. New calls, job
aborts and lease losses get none. No symmetry, because of the liveness
property.

Bounds: two clients, each with one call over the user database and
collection or the system ones, an initial schema with or without the user
collection, and two lease losses. That reaches every pair of calls
interleaved with the jobs and with a NotLeader at any step; three clients
take over five minutes.

## Runs

| Run | Config | Expect | What it shows |
|---|---|---|---|
| txn_intent | `MCTxnIntent.cfg` | pass | 2 txns, 2 keys, 4 plans (AddI64, AddI64 then a conditional put, so a condition can fail after a resolution, put + conditional delete, Nop with a condition), Width 2 so AddI64 wraps, versions up to 5: serial history, durability and quiescence. Reaches force-abort, on-behalf commit, CasFailed and InvalidArgument. |
| txn_intent_replay | `MCTxnIntentReplay.cfg` | violation | Requests may be delivered again. A late duplicate `write_intent` re-creates an intent that was force-aborted, committed or cleared. |
| root_alloc | `MCRootTxnAlloc.cfg` | pass | 2 nodes, 2 callers asking for 1 or 2 ids, reservation 2, clock readings {0, 3}, max id 9, 2 elections with crashes: callers on one core never get overlapping ranges; with `TypeOK`, `next_txn_id` never passes the id space that the reservations cover. |
| root_alloc_dup | `MCRootTxnAllocDup.cfg` | violation | 3 callers asking for 2 ids, reservation 2, clock 0, max id 4, 3 elections n1 → n2 → n1. n1 keeps its old core, which hands out [2, 3] again after n2's core did. |
| root_alloc_spin | `MCRootTxnAllocSpin.cfg` | violation | One caller asking for 1 or 3 ids, under `FairSpec`: the lease is lost during step_leader's hooks. The `?` return leaves the core published with max 7 and no bumper, and the caller, needing 3 ids from 5, yields forever. |
| root_heartbeat | `MCRootHeartbeat.cfg` | pass | 2 nodes, interval 2, instants 0..5, 3 lease changes, 2 joins: queue consistency, earliest deadline, the sentinel wait returns, every heartbeat is polled. |
| root_report | `MCRootReport.cfg` | pass | 2 concurrent reports, 2 groups, 2 nodes, epochs up to 2, terms up to 2, 2 lease changes: the view matches the deltas; the stats keep the newest epoch. |
| root_report_race | `MCRootReportRace.cfg` | violation | Two reports of one group read epoch 1; the epoch-3 report writes, then the epoch-2 one. |
| node_lifecycle_race | `MCNodeLifecycleRace.cfg` | violation | Two admin clients, 2 calls each, 2 nodes, 1 lease move: a drain that read Cordoned writes Draining over an uncordon's Active. |
| cluster_join | `MCClusterJoin.cfg` | pass | An `--init` Seed and 2 joining nodes, 1 transport error, 1 crash (of any node, the Seed included), 1 lease loss: saved idents are registered; node ids are unique; every node serves. |
| schema_admin | `MCSchemaAdmin.cfg` | pass | 2 admin clients, any create or delete of the user database or collection and the deletes of the system ones, 2 lease losses: every dropped database or collection has a purge job; dropped collections' shards are eventually tombstoned. |
| cluster_join_dup | `MCClusterJoinDup.cfg` | violation | A join that fails in transport after `add_node` is retried, and the data directory gets a second node id. |

Bounds.

RootTxnAlloc:
- Two elections are enough for every hand-off that does not bring a leader
  back to its own stale core:
  - a core left published after failed hooks;
  - a bumper that survives its cancellation;
  - in-flight callers on the old core;
  - a crash of the leader.
- Three elections add the return of a former leader. That is where
  `PersistedMaxAdvances` and `UniqueTxnIds` fail, so the pass run checks
  only what holds at any number of elections: `CoreRangesDisjoint`.

RootReport:
- Two epochs are enough for an older report to arrive after a newer one.
- Two reporters are enough for two reports to interleave between read and
  write.
- The reconfigurations are two fixed schedule states: a move from n1 to n2,
  and an add on n1. Their view contributions differ, so a missed or stale
  rebuild shows.
- Three reporters and three epochs were also checked. They reach 4M states
  and are too slow for a regular run.

RootHeartbeat: six instants and interval 2 give each node a second
heartbeat, and give a join an earlier deadline than a pending one.

NodeLifecycle:
- The race needs a second client. `node_lifecycle_race` has two, and finds
  finding 5 in a few seconds.
- `MCNodeLifecycle.cfg`, kept outside the listed runs, has one client with
  four calls. The calls are then sequential, and `StatusTransitionsLegal`
  holds.

ClusterJoin: one of each failure is enough for each path that re-joins.
The one crash may hit the Seed between its initial writes and its save, or
while the root handles a join.

## Findings

1. **write_intent is not idempotent once its intent is gone.**
   (`cmd_txn.rs:55`; spec §8.)
2. **A core that outlives a lost and regained lease hands out ids again.**
   The leader loop polls `on_leader` only between reconcile steps, so a node
   that loses the root lease and wins it back keeps its old core. That core
   goes on from its old `next_txn_id`, below ids that the core of the
   leader in between has already returned (`root_alloc_dup`). Its bumper
   also reserves from the in-memory max, not from the persisted max as the
   spec says, so the persisted reservation can go backwards
   (`MCRootTxnAllocABA.cfg`). Bumping from the persisted max alone would not
   stop the duplicates. (`root/mod.rs:108`; spec §4.5 and §8.)
3. **alloc_txn_id does not re-check leadership before returning.** This is the
   code's own TODO. Ids are not monotone across a leader hand-off.
   (`root/mod.rs:971`; spec §8.) It is shown by `MCRootTxnAllocOrder.cfg`,
   which is kept beside the listed runs.
4. **report merges without compare-and-set.** Two reports of one group can
   both pass the epoch filter, and the older one writes last. The schema's
   group epoch then goes back, although the spec says reports are merged by
   epoch monotonicity. (`root/mod.rs:844`.)
5. **Node status changes are not compare-and-set.** This is the code's own
   TODO. An uncordon and a drain race, and the node goes from Active to
   Draining. (`root/mod.rs:428`; spec §3 and §4.9.) It is shown by
   `node_lifecycle_race`.
6. **A retried join registers the node again.** A join retried after a
   transport error, after a NotLeader once `add_node` has run, or after a
   crash before `save_node_ident` adds a second descriptor for one data
   directory. (`bootstrap.rs:155`, `root/mod.rs:820`; spec §3, Node
   identity.)

7. **A failed step_leader leaves allocators spinning.** step_leader publishes
   the core and spawns the bumper. When `jobs.on_step_leader()?` or
   `list_node()?` fails after the lease is lost, it returns without the
   clean-up. Dropping the result also drops the bumper, but max is never
   stored as 0 and the core stays published. A caller whose range does not
   fit yields forever, although the spec says losing the lease aborts
   pending allocators. A bumper that ends on its first error, while the
   leader loop keeps serving its core, has the same effect.
   (`root/mod.rs:319`, `root/mod.rs:304`; spec §4.5, step 6 and its liveness
   note.)

## Not modelled

- Schema administration: `watch()` registration and the watcher hub
  (`watch.rs`, not in this repository), so no property relates what
  watchers were told to the schema; the read-only `list_database`,
  `get_database` as a call of its own, and `list_collection`.
- `alloc_replica`: it only reads.
- `report` carries one group update per call in the model. The code loops over several updates, each with the same read, write and handle steps, so two calls already give every interleaving of two updates.
- `create_replica` and the state engine are not in this repository.
  `InitCluster` takes the creation of the root group's replica as one step
  that succeeds, also when a restart repeats it.
- The blocking sleep in `try_join_cluster` (spec open question (a)) is an
  executor effect that is not visible at this level.
- Service wiring: `Server` and `ProxyServer` only hold handles and change
  no state.
- The etcd KV layer: every method of `kv.rs` is `todo!()`, so there is no
  behaviour to model.
- The root's read-only queries (`node_status`, `nodes`, `job_state`,
  `info`, `get_node_delta`) change nothing.
- Raft itself: it is the environment, reduced to a single lease holder and a
  linearizable persisted register.

## Plan

1. The CreateCollection and PurgeDatabase jobs decide whether the orphan
   collection of `MCSchemaAdminOrphan.cfg` can happen; modelling them from
   their code needs the jobs module, which is not in this repository.
2. `alloc_txn_id`'s `next_txn_id + num_required` can wrap in `u64`
   (`root/mod.rs:959`); its callers, which bound `num_required`, are not in
   this repository.
