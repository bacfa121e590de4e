---------------------------- MODULE SchemaAdmin -----------------------------
(***************************************************************************)
(* The root's schema administration (src/server/src/root/mod.rs, the       *)
(* second `impl Root`): create_database, delete_database,                  *)
(* create_collection and delete_collection.  Each call is a sequence of    *)
(* awaits on the schema (through the root replica: NotLeader without the   *)
(* lease) and on the durable job list, so calls interleave with each     *)
(* other and with the background jobs.  The watcher hub is told of each   *)
(* change after the write; no property here reads it, so that last await  *)
(* is folded into the step before it.                                     *)
(*                                                                          *)
(* The schema store and the jobs (spec section 4.8) are not in this       *)
(* repository and follow the spec.                                        *)
(***************************************************************************)
EXTENDS Integers, FiniteSets

CONSTANTS
    Clients,           \* concurrent admin RPCs, one call each
    Requests,          \* the calls a client may make: [op, db, coll]
    SysDb, UserDb,     \* database names
    SysColl, UserColl, \* collection names
    MaxLeaseChanges,   \* bound: root lease losses
    None

\* sekas_schema: the system database's id and the first user collection id
\* (system collections have smaller ids and cannot be deleted).
SYSTEM_DB_ID == 1
FIRST_USER_COLLECTION_ID == 10

VARIABLES
    leader, leaseChanges,  \* the root lease: schema() and its writes succeed
    dbs,          \* schema: database descs [id, name]
    colls,        \* schema: collection descs [id, db, name]
    nextDbId, nextCollId,
    jobs,         \* the durable job list
    submitted,    \* ghost: every purge job ever submitted
    shards,       \* ids of the collections whose shards are live
    everColls,    \* ghost: every collection desc ever in the schema
    cl            \* [Clients -> [pc, req, db, coll]]: a call's position and locals

env == <<leader, leaseChanges>>
store == <<dbs, colls, nextDbId, nextCollId>>
jobVars == <<jobs, submitted>>
data == <<shards, everColls>>
vars == <<env, store, jobVars, data, cl>>

Ids(S) == {x.id : x \in S}

\* Root::get_database: schema()?.get_database(name), the desc or None.
DbNamed(name) == IF \E d \in dbs : d.name = name THEN CHOOSE d \in dbs : d.name = name ELSE None

\* schema.get_collection(db, name).
CollNamed(db, name) ==
    IF \E x \in colls : x.db = db /\ x.name = name
    THEN CHOOSE x \in colls : x.db = db /\ x.name = name ELSE None

PurgeDbJob(d) == [kind |-> "purge_db", db |-> d.id, coll |-> None, name |-> None]
PurgeCollJob(x) == [kind |-> "purge_coll", db |-> x.db, coll |-> x.id, name |-> None]
CreateJob(x) == [kind |-> "create", db |-> x.db, coll |-> x.id, name |-> x.name]

\* A database or collection found by name that a delete may drop.
IsUserDb(d) == d # None /\ d.id # SYSTEM_DB_ID
IsUserColl(x) == x # None /\ x.id >= FIRST_USER_COLLECTION_ID

-----------------------------------------------------------------------------
Goto(c, pc) == cl' = [cl EXCEPT ![c].pc = pc]

\* An early return: `?` on NotLeader, or the call's own error.
Fail(c, cond) == /\ cond /\ Goto(c, "done") /\ UNCHANGED <<store, jobVars, data>>

\* jobs.submit(job, _).await?: the job is durable once it returns.
Submit(c, j, pc) ==
    /\ leader
    /\ jobs' = jobs \cup {j}
    /\ submitted' = IF j.kind = "create" THEN submitted ELSE submitted \cup {j}
    /\ Goto(c, pc)
    /\ UNCHANGED <<store, data>>

Start(c) ==
    /\ cl[c].pc = "idle"
    /\ \E r \in Requests : cl' = [cl EXCEPT ![c] = [pc |-> r.op, req |-> r, db |-> None, coll |-> None]]
    /\ UNCHANGED <<store, jobVars, data>>

\* create_database: schema()?.create_database(desc).await? (a name in use
\* is refused by the schema), then notify_updates.
CreateDatabase(c) ==
    /\ cl[c].pc = "create_db"
    /\ \/ Fail(c, ~leader \/ DbNamed(cl[c].req.db) # None)
       \/ /\ leader /\ DbNamed(cl[c].req.db) = None
          /\ LET d == [id |-> nextDbId, name |-> cl[c].req.db] IN
               /\ dbs' = dbs \cup {d}
               /\ cl' = [cl EXCEPT ![c].pc = "done", ![c].db = d]
          /\ nextDbId' = nextDbId + 1
          /\ UNCHANGED <<colls, nextCollId, jobVars, data>>

\* delete_database: get_database(name).await?, DatabaseNotFound, and the
\* system database is refused.
DeleteDatabase(c) ==
    /\ cl[c].pc = "delete_db"
    /\ LET d == DbNamed(cl[c].req.db) IN
         \/ Fail(c, ~leader \/ ~IsUserDb(d))
         \/ /\ leader /\ IsUserDb(d)
            /\ cl' = [cl EXCEPT ![c].pc = "delete_db_submit", ![c].db = d]
            /\ UNCHANGED <<store, jobVars, data>>

\* Faulty variant: the purge job is not submitted.
DeleteDatabaseSubmitSkipped(c) ==
    /\ cl[c].pc = "delete_db_submit"
    /\ Goto(c, "delete_db_delete")
    /\ UNCHANGED <<store, jobVars, data>>

\* jobs.submit(PurgeDatabase, false), before the database leaves the schema.
DeleteDatabaseSubmit(c) ==
    /\ cl[c].pc = "delete_db_submit"
    /\ Fail(c, ~leader) \/ Submit(c, PurgeDbJob(cl[c].db), "delete_db_delete")

\* schema()?.delete_database(&db).await?, then notify_deletes.
DeleteDatabaseDelete(c) ==
    /\ cl[c].pc = "delete_db_delete"
    /\ \/ Fail(c, ~leader)
       \/ /\ leader
          /\ dbs' = {d \in dbs : d.id # cl[c].db.id}
          /\ Goto(c, "done")
          /\ UNCHANGED <<colls, nextDbId, nextCollId, jobVars, data>>

\* create_collection: schema()?, get_database(&database).await? or
\* DatabaseNotFound.
CreateCollection(c) ==
    /\ cl[c].pc = "create_coll"
    /\ LET d == DbNamed(cl[c].req.db) IN
         \/ Fail(c, ~leader \/ d = None)
         \/ /\ leader /\ d # None
            /\ cl' = [cl EXCEPT ![c].pc = "create_coll_prepare", ![c].db = d]
            /\ UNCHANGED <<store, jobVars, data>>

\* prepare_create_collection(desc).await?: the schema gives the collection
\* an id (a name in use in the database is refused); nothing is written.
CreateCollectionPrepare(c) ==
    /\ cl[c].pc = "create_coll_prepare"
    /\ \/ Fail(c, ~leader \/ CollNamed(cl[c].db.id, cl[c].req.coll) # None)
       \/ /\ leader /\ CollNamed(cl[c].db.id, cl[c].req.coll) = None
          /\ cl' = [cl EXCEPT ![c].pc = "create_coll_submit",
                              ![c].coll = [id |-> nextCollId, db |-> cl[c].db.id, name |-> cl[c].req.coll]]
          /\ nextCollId' = nextCollId + 1
          /\ UNCHANGED <<dbs, colls, nextDbId, jobVars, data>>

\* do_create_collection: next_shard_id().await?, then
\* jobs.submit(CreateCollection, true).await?, which waits for the job.
CreateCollectionSubmit(c) ==
    /\ cl[c].pc = "create_coll_submit"
    /\ Fail(c, ~leader) \/ Submit(c, CreateJob(cl[c].coll), "create_coll_wait")

\* The submit returns when the job has finished: Ok if it wrote the
\* collection (then notify_updates), the job's error if it was aborted;
\* NotLeader if the lease is lost while it waits, the job left pending.
CreateCollectionWait(c) ==
    /\ cl[c].pc = "create_coll_wait"
    /\ \/ Fail(c, ~leader)
       \/ /\ CreateJob(cl[c].coll) \notin jobs
          /\ Goto(c, "done")
          /\ UNCHANGED <<store, jobVars, data>>

\* delete_collection: schema()?, get_database(&database.name).await? or
\* DatabaseNotFound, then schema.get_collection(db.id, name).await?: no
\* such collection returns Ok, a system collection is refused.
DeleteCollection(c) ==
    /\ cl[c].pc = "delete_coll"
    /\ LET d == DbNamed(cl[c].req.db)
           x == IF d = None THEN None ELSE CollNamed(d.id, cl[c].req.coll)
       IN \/ Fail(c, ~leader \/ ~IsUserColl(x))
          \/ /\ leader /\ IsUserColl(x)
             /\ cl' = [cl EXCEPT ![c].pc = "delete_coll_submit", ![c].db = d, ![c].coll = x]
             /\ UNCHANGED <<store, jobVars, data>>

\* Faulty variant: the purge job is not submitted.
DeleteCollectionSubmitSkipped(c) ==
    /\ cl[c].pc = "delete_coll_submit"
    /\ Goto(c, "delete_coll_delete")
    /\ UNCHANGED <<store, jobVars, data>>

\* jobs.submit(PurgeCollection, false), before the schema delete.
DeleteCollectionSubmit(c) ==
    /\ cl[c].pc = "delete_coll_submit"
    /\ Fail(c, ~leader) \/ Submit(c, PurgeCollJob(cl[c].coll), "delete_coll_delete")

\* schema.delete_collection(collection).await?, then notify_deletes.
DeleteCollectionDelete(c) ==
    /\ cl[c].pc = "delete_coll_delete"
    /\ \/ Fail(c, ~leader)
       \/ /\ leader
          /\ colls' = {x \in colls : x.id # cl[c].coll.id}
          /\ Goto(c, "done")
          /\ UNCHANGED <<dbs, nextDbId, nextCollId, jobVars, data>>

-----------------------------------------------------------------------------
(* The jobs (spec section 4.8): one step of advance_jobs each.            *)

\* run_background_jobs: advance_jobs only while schema() is Ok; an error is
\* logged and retried after a sleep, which leaves the job list as it was.
JobsAdvance == leader

\* CreateCollection: create the shard and write the desc (Finished), or
\* fail creating it and roll back (Aborted).
JobCreateCollection(j) ==
    /\ JobsAdvance /\ j.kind = "create"
    /\ jobs' = jobs \ {j}
    /\ \/ LET x == [id |-> j.coll, db |-> j.db, name |-> j.name] IN
            /\ shards' = shards \cup {x.id}
            /\ colls' = colls \cup {x}
            /\ everColls' = everColls \cup {x}
       \/ UNCHANGED <<shards, colls, everColls>>
    /\ UNCHANGED <<env, dbs, nextDbId, nextCollId, submitted, cl>>

\* PurgeCollection: tombstone the collection's shards, then delete it from
\* the schema.
JobPurgeCollection(j) ==
    /\ JobsAdvance /\ j.kind = "purge_coll"
    /\ jobs' = jobs \ {j}
    /\ shards' = shards \ {j.coll}
    /\ colls' = {x \in colls : x.id # j.coll}
    /\ UNCHANGED <<env, dbs, nextDbId, nextCollId, submitted, everColls, cl>>

\* PurgeDatabase: tombstone the shards of the database's collections, then
\* delete them and the database from the schema.
JobPurgeDatabase(j) ==
    /\ JobsAdvance /\ j.kind = "purge_db"
    /\ jobs' = jobs \ {j}
    /\ LET cs == {x \in colls : x.db = j.db} IN
         /\ shards' = shards \ Ids(cs)
         /\ colls' = colls \ cs
    /\ dbs' = {d \in dbs : d.id # j.db}
    /\ UNCHANGED <<env, nextDbId, nextCollId, submitted, everColls, cl>>

\* The root lease (environment): lost a bounded number of times, and won
\* back by a root that serves the same schema and jobs.
LoseLease ==
    /\ leader /\ leaseChanges < MaxLeaseChanges
    /\ leader' = FALSE
    /\ leaseChanges' = leaseChanges + 1
    /\ UNCHANGED <<store, jobVars, data, cl>>

RegainLease ==
    /\ ~leader
    /\ leader' = TRUE
    /\ UNCHANGED <<leaseChanges, store, jobVars, data, cl>>

-----------------------------------------------------------------------------
SysCollDesc == [id |-> 1, db |-> SYSTEM_DB_ID, name |-> SysColl]
UserCollDesc == [id |-> FIRST_USER_COLLECTION_ID, db |-> 2, name |-> UserColl]

\* The system database and a user database, which may already hold a user
\* collection.
Init ==
    /\ leader = TRUE /\ leaseChanges = 0
    /\ dbs = {[id |-> SYSTEM_DB_ID, name |-> SysDb], [id |-> 2, name |-> UserDb]}
    /\ colls \in {{SysCollDesc}, {SysCollDesc, UserCollDesc}}
    /\ nextDbId = 3
    /\ nextCollId = FIRST_USER_COLLECTION_ID + Cardinality(colls) - 1
    /\ jobs = {} /\ submitted = {}
    /\ shards = Ids(colls) /\ everColls = colls
    /\ cl = [c \in Clients |-> [pc |-> "idle", req |-> None, db |-> None, coll |-> None]]

\* Every call has returned and the job list is empty.
Quiescent ==
    /\ \A c \in Clients : cl[c].pc = "done"
    /\ jobs = {}
    /\ UNCHANGED vars

\* A step of call c; the lease is the environment's.
Step(c) ==
    /\ \/ CreateDatabase(c)
       \/ DeleteDatabase(c) \/ DeleteDatabaseSubmit(c) \/ DeleteDatabaseDelete(c)
       \/ CreateCollection(c) \/ CreateCollectionPrepare(c) \/ CreateCollectionSubmit(c)
       \/ CreateCollectionWait(c)
       \/ DeleteCollection(c) \/ DeleteCollectionSubmit(c) \/ DeleteCollectionDelete(c)
    /\ UNCHANGED env

JobStep == \E j \in jobs : JobCreateCollection(j) \/ JobPurgeCollection(j) \/ JobPurgeDatabase(j)

Next ==
    \/ \E c \in Clients : (Start(c) /\ UNCHANGED env) \/ Step(c)
    \/ JobStep \/ LoseLease \/ RegainLease
    \/ Quiescent

\* A call in progress is an awaited future and runs to its return; the
\* run_background_jobs loop advances the job list while the root leads;
\* the root group elects a leader again after a loss.  Whether a client
\* calls at all, job failures and lease losses get no fairness.
Fairness ==
    /\ \A c \in Clients : WF_vars(Step(c))
    /\ WF_vars(JobStep)
    /\ WF_vars(RegainLease)

Spec == Init /\ [][Next]_vars /\ Fairness

-----------------------------------------------------------------------------
TypeOK ==
    /\ leader \in BOOLEAN /\ leaseChanges \in 0 .. MaxLeaseChanges
    /\ \A c \in Clients : cl[c].req \in Requests \cup {None}
    /\ shards \subseteq Ids(everColls)
    /\ \A j \in jobs : j.kind \in {"create", "purge_coll", "purge_db"}
    /\ \A j \in submitted : j.kind \in {"purge_coll", "purge_db"}

\* delete_database and delete_collection submit the purge job before they
\* take the database or collection out of the schema, and the jobs delete
\* only what they purge: whichever step fails with NotLeader and whatever
\* runs in between, nothing leaves the schema without a durable job that
\* purges its data.
DroppedHavePurgeJob ==
    /\ \A id \in (1 .. nextDbId - 1) \ Ids(dbs) : PurgeDbJob([id |-> id]) \in submitted
    /\ \A x \in everColls :
         x.id \notin Ids(colls) =>
            PurgeCollJob(x) \in submitted \/ PurgeDbJob([id |-> x.db]) \in submitted

CollIdSpace == 1 .. FIRST_USER_COLLECTION_ID + Cardinality(Clients)

\* The data of a collection taken out of the schema is eventually
\* tombstoned: a delete_collection that returned, or failed after its
\* submit, leaves no live shard behind.
DroppedCollectionsPurged ==
    \A id \in CollIdSpace :
        id \in Ids(everColls) /\ id \notin Ids(colls) ~> id \notin shards

\* A collection outlives its database only while the database's purge job
\* is pending.  create_collection reads the database, then awaits
\* prepare_create_collection and the CreateCollection job; a
\* delete_database and its PurgeDatabase job can run in between, and the
\* job then writes the collection under a database that is gone, where no
\* delete_collection can name it (it looks the database up first).
NoOrphanCollections ==
    \A x \in colls : x.db \in Ids(dbs) \/ PurgeDbJob([id |-> x.db]) \in jobs

====
