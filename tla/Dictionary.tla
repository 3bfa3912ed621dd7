----------------------------- MODULE Dictionary -----------------------------
(***************************************************************************)
(* What a Map of scc/src/hashmap.c promises its callers: a dictionary from *)
(* keys to values, where a value may itself be NULL.  A lookup returns the *)
(* value put last, NULL for a key that is not there, and mapHas cannot     *)
(* tell a NULL value from a missing key.                                   *)
(***************************************************************************)
CONSTANTS Key, Value, NULL, Absent

VARIABLES dict, ret

vars == <<dict, ret>>

Init ==
    /\ dict = [k \in Key |-> Absent]
    /\ ret = NULL

Put(k, v) ==
    /\ dict' = [dict EXCEPT ![k] = v]
    /\ UNCHANGED ret

Get(k) ==
    /\ ret' = IF dict[k] = Absent THEN NULL ELSE dict[k]
    /\ UNCHANGED dict

Has(k) ==
    /\ ret' = (dict[k] \notin {Absent, NULL})
    /\ UNCHANGED dict

Remove(k) ==
    /\ dict' = [dict EXCEPT ![k] = Absent]
    /\ UNCHANGED ret

Free ==
    /\ dict' = [k \in Key |-> Absent]
    /\ UNCHANGED ret

Next ==
    \/ \E k \in Key, v \in Value \cup {NULL} : Put(k, v)
    \/ \E k \in Key : Get(k) \/ Has(k) \/ Remove(k)
    \/ Free

Spec == Init /\ [][Next]_vars

=============================================================================
