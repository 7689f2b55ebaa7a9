------------------------------ MODULE ChildMap ------------------------------
(***************************************************************************)
(* What a node shape promises (spec section 4.2): a partial map from a key *)
(* byte to a child handle.                                                 *)
(*   insert(b, h): Ok if b had no child, else Err(h) -- never overwrites;  *)
(*   lookup(b):    the child of b, or None;                                *)
(*   update(b, h): Ok(old child) if b had one, else Err(h);                *)
(*   remove(b):    Ok(removed child) if b had one, else Err.               *)
(***************************************************************************)
CONSTANTS Bytes, Handles, None

ASSUME None \notin Handles

VARIABLES map, out

Result(op, b, r) == [op |-> op, key |-> b, res |-> r]

Init ==
  /\ map \in [Bytes -> Handles \cup {None}]
  /\ out = Result("new", 0, "Ok")

Insert(b, h) ==
  IF map[b] = None
  THEN map' = [map EXCEPT ![b] = h] /\ out' = Result("insert", b, "Ok")
  ELSE UNCHANGED map /\ out' = Result("insert", b, "Err")

Lookup(b) == UNCHANGED map /\ out' = Result("lookup", b, map[b])

Update(b, h) ==
  IF map[b] = None
  THEN UNCHANGED map /\ out' = Result("update", b, "Err")
  ELSE map' = [map EXCEPT ![b] = h] /\ out' = Result("update", b, map[b])

Remove(b) ==
  IF map[b] = None
  THEN UNCHANGED map /\ out' = Result("remove", b, "Err")
  ELSE map' = [map EXCEPT ![b] = None] /\ out' = Result("remove", b, map[b])

Next ==
  \E b \in Bytes :
    \/ \E h \in Handles : Insert(b, h) \/ Update(b, h)
    \/ Lookup(b)
    \/ Remove(b)

Spec == Init /\ [][Next]_<<map, out>>
=============================================================================
