----------------------------- MODULE TxnIntent -----------------------------
(***************************************************************************)
(* Intent-based two-phase writes on one shard of sekas.                     *)
(*                                                                          *)
(* Shard side (src/server/src/replica/eval/cmd_txn.rs): write_intent,      *)
(* commit_intent and clear_intent.  Each request is evaluated under the     *)
(* latches of its keys and its write batch is applied through raft before   *)
(* the latches are released, so one request is one atomic step here.       *)
(* The MVCC chain of a key is a function version -> content; the record at  *)
(* TXN_INTENT_VERSION (u64::MAX) is kept apart in `intent`.                 *)
(*                                                                          *)
(* Environment, modelled from spec.md because its code is not under src/:  *)
(* the client coordinator (start version, write_intent, commit version,    *)
(* txn record, commit_intent or clear_intent), the txn record table, the   *)
(* condition evaluator (cas.rs) and the latch's resolve_txn.                *)
(***************************************************************************)
EXTENDS Integers, Sequences, FiniteSets, SequencesExt, TLC

CONSTANTS
    Keys,        \* user keys of the shard
    Txns,        \* client transactions
    PutValues,   \* stored bytes that are not an 8-byte i64
    Plans,       \* the writes a transaction may ask for: sequences of ops
    Width,       \* bit width standing for i64 in AddI64 (wrapping_add)
    MaxTs,       \* largest id the transaction-id allocator hands out
    Redeliver,   \* TRUE: a delivered request may be delivered again later
    NoIntent,    \* no record at TXN_INTENT_VERSION
    NoValue,     \* Option::None for a value
    Tomb,        \* the content of a tombstone
    Invalid      \* Error::InvalidArgument of apply_put_op

Int64 == -(2^(Width - 1)) .. (2^(Width - 1) - 1)
Content == Int64 \cup PutValues
Versions == 1 .. MaxTs
Kinds == {"put", "delete", "add", "nop"}     \* PutType::None, delete, AddI64, Nop
Conds == {"none", "exists", "notexists"}     \* ExpectExists / ExpectNotExists
Op == [kind : Kinds, key : Keys, val : Content, cond : Conds]
IntentRec == [start : Versions, isDelete : BOOLEAN, value : Content \cup {NoValue}]
PrevValue == {NoValue} \cup [version : Versions, content : Content \cup {Tomb}]

ASSUME Plans \subseteq Seq(Op)
ASSUME \A p \in Plans : \A i, j \in DOMAIN p : i # j => p[i].key # p[j].key
ASSUME Redeliver \in BOOLEAN

VARIABLES
    store,     \* [Keys -> (versions -> content)]: committed MVCC chain
    intent,    \* [Keys -> IntentRec \cup {NoIntent}]: record at TXN_INTENT_VERSION
    record,    \* coordinator's txn record: [state, commit]
    nextTs,    \* next id of the transaction-id allocator
    pc,        \* client coordinator phase of each txn
    startV,    \* start_version of each txn
    plan,      \* the writes each txn asked for
    msgs,      \* requests in flight to the shard
    resp,      \* last response the shard sent to each txn
    served     \* write_intent requests the shard has applied at least once

vars == <<store, intent, record, nextTs, pc, startV, plan, msgs, resp, served>>

-----------------------------------------------------------------------------
(* Helpers of the group engine and the intent encoding.                     *)

\* The newest committed entry of chain `ch`: MvccIter::next below the intent.
LatestOf(ch) ==
    IF DOMAIN ch = {} THEN NoValue
    ELSE LET v == Max(DOMAIN ch) IN [version |-> v, content |-> ch[v]]

\* decode_i64 over the abstract contents: only an encoded i64 decodes.
decode_i64(c) == IF c \in PutValues THEN Invalid ELSE c

\* Faulty variant: a plain add in place of wrapping_add.
WrappingAddUnchecked(a, b) == a + b

\* i64::wrapping_add at width Width.
WrappingAdd(a, b) ==
    ((a + b + 2^(Width - 1)) % 2^Width) - 2^(Width - 1)

\* TxnIntent::tombstone and TxnIntent::with_put.
IntentTombstone(s) == [start |-> s, isDelete |-> TRUE, value |-> NoValue]
IntentWithPut(s, v) == [start |-> s, isDelete |-> FALSE, value |-> v]

\* A prev value "exists" unless absent or a tombstone (cas.rs).
Exists(prev) == prev # NoValue /\ prev.content # Tomb

\* eval_conditions: TRUE when the condition of the write fails.
CondFails(prev, cond) ==
    \/ cond = "exists" /\ ~Exists(prev)
    \/ cond = "notexists" /\ Exists(prev)

\* apply_put_op: the bytes an intent stores, NoValue for Nop, or Invalid.
apply_put_op(kind, prev, value) ==
    CASE kind = "add" ->
            LET delta == decode_i64(value)
                former == IF Exists(prev) THEN decode_i64(prev.content) ELSE 0
            IN IF delta = Invalid \/ former = Invalid THEN Invalid
               ELSE WrappingAdd(former, delta)
      [] kind = "put" -> value
      [] kind = "nop" -> NoValue

\* The shard request is built with deletes first, then puts.
OrderedWrites(p) ==
    SelectSeq(p, LAMBDA w : w.kind = "delete")
        \o SelectSeq(p, LAMBDA w : w.kind # "delete")

\* The txn whose start_version is s.
OwnerOf(s) == CHOOSE t \in Txns : record[t].state # "none" /\ startV[t] = s

-----------------------------------------------------------------------------
(* resolve_txn of the latch guard (spec 4.3, spec_modelled).  The foreign  *)
(* intent `in` on key k is resolved against the owner's txn record:        *)
(* committed -> its write is committed on k on the owner's behalf and the  *)
(* value at commit_version is returned; aborted -> None; pending -> the    *)
(* owner is force-aborted (abort threshold passed) and None is returned.    *)
(* `acc` carries the shard state threaded through one write_intent.         *)
ResolveTxn(acc, k, in) ==
    LET o == OwnerOf(in.start)
        r == acc.rec[o]
        content == IF in.isDelete THEN Tomb ELSE in.value
    IN CASE r.state = "committed" /\ content # NoValue ->
              [acc EXCEPT !.st[k] = (r.commit :> content) @@ @,
                          !.it[k] = NoIntent,
                          !.prev = [version |-> r.commit, content |-> content]]
         [] r.state = "committed" ->
              [acc EXCEPT !.it[k] = NoIntent]
         [] r.state = "aborted" ->
              [acc EXCEPT !.it[k] = NoIntent]
         [] r.state = "pending" ->
              [acc EXCEPT !.rec[o].state = "aborted", !.it[k] = NoIntent]

\* Faulty variant: write_intent ignores the value resolve_txn returns and
\* keeps the prev_value it read before resolving.
EvalWriteStalePrev(start, acc, w) ==
    IF acc.err # "ok" THEN acc
    ELSE
    LET k == w.key
        top == acc.it[k]
        read == [acc EXCEPT !.prev = LatestOf(acc.st[k])]
    IN IF top # NoIntent /\ top.start = start THEN read
       ELSE
       LET res == IF top = NoIntent THEN read
                  ELSE [ResolveTxn(read, k, top) EXCEPT !.prev = read.prev]
           applied == apply_put_op(w.kind, res.prev, w.val)
       IN CASE CondFails(res.prev, w.cond) -> [res EXCEPT !.err = "casfailed"]
            [] w.kind = "delete" -> [res EXCEPT !.wb = (k :> IntentTombstone(start)) @@ @]
            [] applied = Invalid -> [res EXCEPT !.err = Invalid]
            [] OTHER -> [res EXCEPT !.wb = (k :> IntentWithPut(start, applied)) @@ @]

\* One iteration of the delete or put loop of write_intent (lines 44-74,
\* 75-107): read intent and next key, resolve a foreign intent, skip an
\* intent of the same start_version, evaluate the conditions, stage the
\* intent in the write batch.  An error stops the loop.
EvalWrite(start, acc, w) ==
    IF acc.err # "ok" THEN acc
    ELSE
    LET k == w.key
        top == acc.it[k]
        read == [acc EXCEPT !.prev = LatestOf(acc.st[k])]
    IN IF top # NoIntent /\ top.start = start THEN read
       ELSE
       LET res == IF top = NoIntent THEN read ELSE ResolveTxn(read, k, top)
           applied == apply_put_op(w.kind, res.prev, w.val)
       IN CASE CondFails(res.prev, w.cond) ->
                 [res EXCEPT !.err = "casfailed"]
            [] w.kind = "delete" ->
                 [res EXCEPT !.wb = (k :> IntentTombstone(start)) @@ @]
            [] applied = Invalid ->
                 [res EXCEPT !.err = Invalid]
            [] OTHER ->
                 [res EXCEPT !.wb = (k :> IntentWithPut(start, applied)) @@ @]

\* Outcome of the whole write_intent handler on the current shard state.
WriteIntentOutcome(m) ==
    FoldLeft(LAMBDA acc, w : EvalWrite(m.start, acc, w),
             [st |-> store, it |-> intent, rec |-> record, prev |-> NoValue,
              wb |-> <<>>, err |-> "ok"],
             m.writes)

\* Faulty variant: read_target_intent without the start_version match.
TargetIntentAnyStart(k, s) == intent[k] # NoIntent

\* read_target_intent: the intent of key k if it belongs to start_version s.
TargetIntent(k, s) == intent[k] # NoIntent /\ intent[k].start = s

NoResp == [req |-> "none", res |-> "none"]

Consume(m) == IF Redeliver THEN msgs ELSE msgs \ {m}

-----------------------------------------------------------------------------
(* Shard request handlers.                                                  *)

\* write_intent followed by proposing and applying its eval result.
ServeWriteIntent(m) ==
    /\ m \in msgs
    /\ m.type = "write"
    /\ LET out == WriteIntentOutcome(m)
           wb == IF out.err = "ok" THEN out.wb ELSE <<>>
       IN /\ store' = out.st
          /\ intent' = wb @@ out.it
          /\ record' = out.rec
          /\ resp' = [resp EXCEPT ![m.txn] = [req |-> "write", res |-> out.err]]
    /\ msgs' = Consume(m)
    /\ served' = served \cup {m}
    /\ UNCHANGED <<nextTs, pc, startV, plan>>

\* commit_intent: for every key whose intent has this start_version, delete
\* the intent and write a tombstone or the value at commit_version (Nop
\* writes nothing); then signal_all(Committed).
ServeCommitIntent(m) ==
    /\ m \in msgs
    /\ m.type = "commit"
    /\ LET hit == {k \in m.keys : TargetIntent(k, m.start)}
           written == {k \in hit : intent[k].isDelete \/ intent[k].value # NoValue}
       IN /\ store' = [k \in Keys |->
                        IF k \in written
                        THEN (m.commit :> IF intent[k].isDelete THEN Tomb
                                         ELSE intent[k].value) @@ store[k]
                        ELSE store[k]]
          /\ intent' = [k \in Keys |-> IF k \in hit THEN NoIntent ELSE intent[k]]
    /\ resp' = [resp EXCEPT ![m.txn] = [req |-> "commit", res |-> "ok"]]
    /\ msgs' = Consume(m)
    /\ UNCHANGED <<record, nextTs, pc, startV, plan, served>>

\* Faulty variant: clear_intent that signals but stages no delete.
ServeClearIntentNoDelete(m) ==
    /\ m \in msgs
    /\ m.type = "clear"
    /\ resp' = [resp EXCEPT ![m.txn] = [req |-> "clear", res |-> "ok"]]
    /\ msgs' = Consume(m)
    /\ UNCHANGED <<store, intent, record, nextTs, pc, startV, plan, served>>

\* clear_intent: delete the intents of this start_version; signal_all(Aborted).
ServeClearIntent(m) ==
    /\ m \in msgs
    /\ m.type = "clear"
    /\ intent' = [k \in Keys |->
                    IF k \in m.keys /\ TargetIntent(k, m.start) THEN NoIntent
                    ELSE intent[k]]
    /\ resp' = [resp EXCEPT ![m.txn] = [req |-> "clear", res |-> "ok"]]
    /\ msgs' = Consume(m)
    /\ UNCHANGED <<store, record, nextTs, pc, startV, plan, served>>

-----------------------------------------------------------------------------
(* Client coordinator (spec 2, 4.2, 4.3; spec_modelled).                    *)

KeysOf(p) == {p[i].key : i \in DOMAIN p}

\* Allocate start_version and send write_intent.
Begin(t) ==
    /\ pc[t] = "idle"
    /\ nextTs <= MaxTs
    /\ \E p \in Plans :
         /\ plan' = [plan EXCEPT ![t] = p]
         /\ msgs' = msgs \cup {[type |-> "write", txn |-> t, start |-> nextTs,
                                writes |-> OrderedWrites(p)]}
    /\ startV' = [startV EXCEPT ![t] = nextTs]
    /\ nextTs' = nextTs + 1
    /\ record' = [record EXCEPT ![t] = [state |-> "pending", commit |-> 0]]
    /\ pc' = [pc EXCEPT ![t] = "writing"]
    /\ UNCHANGED <<store, intent, resp, served>>

\* On the write_intent response: allocate commit_version and commit the txn
\* record if it is still pending, else abort; then send commit or clear.
Decide(t) ==
    /\ pc[t] = "writing"
    /\ resp[t].req = "write"
    /\ IF resp[t].res = "ok" /\ record[t].state = "pending"
       THEN /\ nextTs <= MaxTs
            /\ record' = [record EXCEPT ![t] = [state |-> "committed", commit |-> nextTs]]
            /\ nextTs' = nextTs + 1
            /\ msgs' = msgs \cup {[type |-> "commit", txn |-> t, start |-> startV[t],
                                   commit |-> nextTs, keys |-> KeysOf(plan[t])]}
            /\ pc' = [pc EXCEPT ![t] = "committing"]
       ELSE /\ record' = [record EXCEPT ![t].state = "aborted"]
            /\ msgs' = msgs \cup {[type |-> "clear", txn |-> t, start |-> startV[t],
                                   keys |-> KeysOf(plan[t])]}
            /\ pc' = [pc EXCEPT ![t] = "aborting"]
            /\ UNCHANGED nextTs
    /\ resp' = [resp EXCEPT ![t] = NoResp]
    /\ UNCHANGED <<store, intent, startV, plan, served>>

\* The commit_intent or clear_intent response ends the txn.
Finish(t) ==
    /\ \/ pc[t] = "committing" /\ resp[t].req = "commit"
       \/ pc[t] = "aborting" /\ resp[t].req = "clear"
    /\ pc' = [pc EXCEPT ![t] = "done"]
    /\ resp' = [resp EXCEPT ![t] = NoResp]
    /\ UNCHANGED <<store, intent, record, nextTs, startV, plan, msgs, served>>

\* Every client is done: the system stops.
Terminated ==
    /\ \A t \in Txns : pc[t] = "done"
    /\ UNCHANGED vars

-----------------------------------------------------------------------------
Init ==
    /\ store = [k \in Keys |-> <<>>]
    /\ intent = [k \in Keys |-> NoIntent]
    /\ record = [t \in Txns |-> [state |-> "none", commit |-> 0]]
    /\ nextTs = 1
    /\ pc = [t \in Txns |-> "idle"]
    /\ startV = [t \in Txns |-> 0]
    /\ plan = [t \in Txns |-> <<>>]
    /\ msgs = {}
    /\ resp = [t \in Txns |-> NoResp]
    /\ served = {}

Next ==
    \/ \E t \in Txns : Begin(t) \/ Decide(t) \/ Finish(t)
    \/ \E m \in msgs :
         ServeWriteIntent(m) \/ ServeCommitIntent(m) \/ ServeClearIntent(m)
    \/ Terminated

\* The shard serves every request that stays deliverable and every client
\* keeps going: tasks of the cooperative executor are not starved forever.
Fairness ==
    /\ \A t \in Txns :
         /\ WF_vars(Begin(t)) /\ WF_vars(Decide(t)) /\ WF_vars(Finish(t))
         /\ WF_vars(\E m \in msgs : m.txn = t /\
                      (ServeWriteIntent(m) \/ ServeCommitIntent(m) \/ ServeClearIntent(m)))

Spec == Init /\ [][Next]_vars /\ Fairness

-----------------------------------------------------------------------------
(* Properties.                                                              *)

TypeOK ==
    /\ \A k \in Keys : /\ DOMAIN store[k] \subseteq Versions
                       /\ \A v \in DOMAIN store[k] : store[k][v] \in Content \cup {Tomb}
    /\ intent \in [Keys -> IntentRec \cup {NoIntent}]
    /\ record \in [Txns -> [state : {"none", "pending", "committed", "aborted"},
                            commit : 0 .. MaxTs]]
    /\ nextTs \in 1 .. MaxTs + 1
    /\ pc \in [Txns -> {"idle", "writing", "committing", "aborting", "done"}]
    /\ resp \in [Txns -> [req : {"none", "write", "commit", "clear"},
                          res : {"none", "ok", "casfailed", Invalid}]]

\* The write of txn t on key k.
WriteOf(t, k) == plan[t][CHOOSE i \in DOMAIN plan[t] : plan[t][i].key = k]

\* The committed entry of k just below version v.
PredOf(k, v) == LatestOf(RestrictDomain(store[k], LAMBDA x : x < v))

\* The content a write leaves at its commit version, given the entry below.
Expected(w, pred) == IF w.kind = "delete" THEN Tomb ELSE apply_put_op(w.kind, pred, w.val)

\* Serial history: every committed version of a key was written by a txn
\* whose record is committed at that version, its condition holds against
\* the entry just below it, and its content is its put, tombstone or AddI64
\* sum applied to that entry.  So replaying the committed txns in commit
\* order gives the chain: no lost AddI64 update, no CAS decided on a stale
\* value, no write of an aborted txn (write_intent conditions and
\* apply_put_op, commit_intent, resolve_txn).
SerialHistory ==
    \A k \in Keys : \A v \in DOMAIN store[k] :
        \E t \in Txns :
            /\ record[t].state = "committed"
            /\ record[t].commit = v
            /\ k \in KeysOf(plan[t])
            /\ ~CondFails(PredOf(k, v), WriteOf(t, k).cond)
            /\ store[k][v] = Expected(WriteOf(t, k), PredOf(k, v))

\* A committed txn that has finished has every non-Nop write in the chain
\* at its commit version: commit_intent found its intents, or a resolver
\* committed them for it, and no other txn's intent or clear erased them.
CommittedDurable ==
    \A t \in Txns :
        (pc[t] = "done" /\ record[t].state = "committed") =>
            \A i \in DOMAIN plan[t] :
                plan[t][i].kind # "nop" =>
                    record[t].commit \in DOMAIN store[plan[t][i].key]

\* Every txn eventually finishes and leaves no intent behind: no request
\* waits forever on a foreign intent and commit_intent / clear_intent
\* remove the intents they are for.
Quiescence ==
    <>(/\ \A t \in Txns : pc[t] = "done"
       /\ \A k \in Keys : intent[k] = NoIntent)

\* spec 8: "write_intent is idempotent: applying the same request twice
\* yields identical on-disk state".  A write_intent request the shard has
\* already applied leaves the chain and the intents unchanged when it is
\* applied again (a retried or late duplicate RPC).
WriteIntentIdempotent ==
    [][\A m \in served : ServeWriteIntent(m) => UNCHANGED <<store, intent>>]_vars

=============================================================================
