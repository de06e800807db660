----------------------------- MODULE Dictionary -----------------------------
(***************************************************************************)
(* What hashmap.h promises: a map from keys to values that changes only    *)
(* where hashmap_put and hashmap_remove say so.  A put that runs out of    *)
(* memory may lose other entries, but alters none.                         *)
(***************************************************************************)
CONSTANTS Key, Value, NULL

VARIABLES dict,   \* the value of each key, NULL for none
          status  \* of the last call: it is running, or what it returned

Init == /\ dict = [k \in Key |-> NULL]
        /\ status = "ok"

Call == /\ status # "running"
        /\ status' = "running"
        /\ UNCHANGED dict

Put(k, v) == /\ status = "running"
             /\ dict' = [dict EXCEPT ![k] = v]
             /\ status' = "ok"

Fail(lost) == /\ status = "running"
              /\ dict' = [k \in Key |-> IF k \in lost THEN NULL ELSE dict[k]]
              /\ status' = "omem"

Remove(k) == /\ status # "running"
             /\ dict' = [dict EXCEPT ![k] = NULL]
             /\ status' = IF dict[k] = NULL THEN "missing" ELSE "ok"

Next == \/ Call
        \/ \E k \in Key, v \in Value : Put(k, v)
        \/ \E lost \in SUBSET Key : Fail(lost)
        \/ \E k \in Key : Remove(k)

Spec == Init /\ [][Next]_<<dict, status>>
=============================================================================
