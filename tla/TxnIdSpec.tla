------------------------------ MODULE TxnIdSpec ------------------------------
(***************************************************************************)
(* What the root's txn-id allocator promises (spec 4.5 and 8), as far as   *)
(* the code keeps it: every range alloc_txn_id returns is fresh -- it      *)
(* shares no id with a range returned before, by any leader -- and lies    *)
(* below the durable reservation, which never drops below an id already    *)
(* returned.  Ids need not grow in return order, and the reservation may   *)
(* move back while staying above every returned id.                        *)
(***************************************************************************)
EXTENDS Integers, SequencesExt

VARIABLES
    ranges,     \* the ranges [lo, num] returned, in return order
    reserved    \* the durable reservation (schema max txn id)

Ids(r) == r.lo .. (r.lo + r.num - 1)

\* Every id returned so far.
Returned(rs) == UNION {Ids(rs[i]) : i \in DOMAIN rs}

Init ==
    /\ ranges = <<>>
    /\ reserved = 0

\* A new reservation, above every id returned.
Reserve ==
    /\ reserved' \in Nat
    /\ \A i \in Returned(ranges) : i < reserved'
    /\ UNCHANGED ranges

\* A fresh range below the reservation is returned.
Issue ==
    /\ Len(ranges') = Len(ranges) + 1
    /\ Front(ranges') = ranges
    /\ Ids(Last(ranges')) \cap Returned(ranges) = {}
    /\ Last(ranges').lo + Last(ranges').num <= reserved
    /\ UNCHANGED reserved

Next == Reserve \/ Issue

Spec == Init /\ [][Next]_<<ranges, reserved>>

====
