---------------------------- MODULE MCTxnIntent ----------------------------
(* Model of TxnIntent for TLC: two keys, a handful of write plans that     *)
(* exercise puts with conditions, deletes, AddI64 on the same key and Nop.  *)
EXTENDS TxnIntent

CONSTANTS k1, k2, t1, t2, t3, a

\* AddI64 of 1 on k1 (the ensure_add of cluster_rw_concurrent_inc).
AddOne == <<[kind |-> "add", key |-> k1, val |-> 1, cond |-> "none"]>>
\* an AddI64 on k2, then a put-if-absent of non-i64 bytes on k1: the
\* condition on k1 is checked after k2's foreign intent may have been
\* resolved.
PutAbsentAndAdd ==
    <<[kind |-> "add", key |-> k2, val |-> 1, cond |-> "none"],
      [kind |-> "put", key |-> k1, val |-> a, cond |-> "notexists"]>>
\* a put of i64 0 on k2 and a delete-if-exists on k1 (deletes go first).
PutAndDelete ==
    <<[kind |-> "put", key |-> k2, val |-> 0, cond |-> "none"],
      [kind |-> "delete", key |-> k1, val |-> 0, cond |-> "exists"]>>
\* a Nop lock on k2 that expects the key to exist.
NopExists == <<[kind |-> "nop", key |-> k2, val |-> 0, cond |-> "exists"]>>

MCPlans == {AddOne, PutAbsentAndAdd, PutAndDelete, NopExists}
MCPlansAdd == {AddOne}
=============================================================================
