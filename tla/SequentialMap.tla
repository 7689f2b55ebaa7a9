---------------------------- MODULE SequentialMap ----------------------------
(***************************************************************************)
(* The map contract every map of the crate implements (the SequentialMap   *)
(* trait, spec section 6): new, insert, lookup, remove on a finite map.    *)
(* out records the last operation and its answer.                          *)
(*   insert(k, v): Ok if k was absent (k now maps to v); Err(v) otherwise, *)
(*                 the map unchanged.                                      *)
(*   lookup(k):    Some(map[k]), or None iff k is absent.                  *)
(*   remove(k):    Ok(map[k]) and k removed; Err if k is absent.           *)
(***************************************************************************)
CONSTANTS
  Keys,      \* the encoded keys (byte sequences)
  Values,
  NoValue    \* marks a key the map does not hold

ASSUME NoValue \notin Values

VARIABLES map, out

Result(op, k, r) == [op |-> op, key |-> k, res |-> r]

Init ==
  /\ map = [k \in Keys |-> NoValue]
  /\ out = Result("new", <<>>, "Ok")

Insert(k, v) ==
  IF map[k] = NoValue
  THEN /\ map' = [map EXCEPT ![k] = v]
       /\ out' = Result("insert", k, "Ok")
  ELSE /\ out' = Result("insert", k, "Err")
       /\ UNCHANGED map

Lookup(k) ==
  /\ out' = Result("lookup", k, IF map[k] = NoValue THEN "None" ELSE map[k])
  /\ UNCHANGED map

Remove(k) ==
  IF map[k] = NoValue
  THEN /\ out' = Result("remove", k, "Err")
       /\ UNCHANGED map
  ELSE /\ map' = [map EXCEPT ![k] = NoValue]
       /\ out' = Result("remove", k, map[k])

Next ==
  \E k \in Keys :
    \/ \E v \in Values : Insert(k, v)
    \/ Lookup(k)
    \/ Remove(k)

Spec == Init /\ [][Next]_<<map, out>>
=============================================================================
