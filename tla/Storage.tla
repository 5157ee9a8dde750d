------------------------------ MODULE Storage ------------------------------
(***************************************************************************)
(* The named keys of a contract, which the contracts use as a map from a   *)
(* formatted name to a value: get_key tells whether a name is there,       *)
(* put_key binds it whether it was there or not.  A map is a function      *)
(* whose domain is the set of names bound so far.                          *)
(***************************************************************************)

NoKeys == [k \in {} |-> k]

HasKey(map, k) == k \in DOMAIN map

PutKey(map, k, v) ==
    [x \in DOMAIN map \cup {k} |-> IF x = k THEN v ELSE map[x]]

\* A map from some of the keys K to values V.
IsMap(map, K, V) == DOMAIN map \subseteq K /\ map \in [DOMAIN map -> V]
=============================================================================
