----------------------------- MODULE Dictionary -----------------------------
(***************************************************************************)
(* What hash_table.h promises its callers: put stores the data of a name,  *)
(* get returns it, remove takes one datum away.  The promise is good until *)
(* the table is damaged, an event only a removal may cause; from then on   *)
(* nothing is promised.                                                    *)
(***************************************************************************)
CONSTANTS Keys, Data, NULL

VARIABLES
    dict,       \* what get returns for each key
    damaged     \* the promise is off

vars == <<dict, damaged>>

Init ==
    /\ dict = [k \in Keys |-> NULL]
    /\ damaged = FALSE

Put(k, d) ==
    /\ ~damaged
    /\ dict' = [dict EXCEPT ![k] = d]
    /\ UNCHANGED damaged

\* The datum is gone either way, and it was there before.
Remove(k) ==
    /\ ~damaged
    /\ dict[k] # NULL
    /\ dict' = [dict EXCEPT ![k] = NULL]
    /\ damaged' \in BOOLEAN

Anything ==
    /\ damaged /\ damaged'
    /\ dict' \in [Keys -> Data \cup {NULL}]

Next ==
    \/ \E k \in Keys, d \in Data : Put(k, d)
    \/ \E k \in Keys : Remove(k)
    \/ Anything

Spec == Init /\ [][Next]_vars
=============================================================================
