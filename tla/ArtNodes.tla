------------------------------ MODULE ArtNodes ------------------------------
(***************************************************************************)
(* The node-shape family of src/src/art/mod.rs as pure operators: one      *)
(* record type per shape (Node4, Node16, Node48, Node256), the NodeOps     *)
(* methods (insert, lookup, update, remove, is_full, is_shrinkable) and    *)
(* the From conversions used by Node::extend and Node::shrink.             *)
(*                                                                         *)
(* An operation returns [node |-> <the node after it>, res |-> <result>],  *)
(* where res is "Ok", "Err", "Panic" (a failed debug_assert), a child      *)
(* handle (Ok(old) of update/remove, Some(child) of lookup) or None.       *)
(*                                                                         *)
(* The capacities 4, 16, 48 and the 256 byte values are the constants      *)
(* Cap4 < Cap16 < Cap48 < Cardinality(Bytes); the code only compares       *)
(* occupancies with them, so a scaled-down instance keeps every branch.    *)
(* NodeHeader is moved unchanged by every operation here and is left out.  *)
(***************************************************************************)
EXTENDS Integers, FiniteSets

LOCAL INSTANCE SequencesExt

CONSTANTS
  Bytes,        \* the byte values; Node256 has one slot per byte
  Handles,      \* child handles (Node<V>) that may be stored in a node
  Cap4, Cap16, Cap48,
  Null,         \* Node::null()
  Absent,       \* 0xff, the empty entry of Node48's index table
  Uninit,       \* a slot still holding mem::uninitialized() contents
  None          \* lookup found no child

ASSUME /\ Bytes \subseteq 0..255
       /\ 0 < Cap4 /\ Cap4 < Cap16 /\ Cap16 < Cap48
       /\ Cap48 < Cardinality(Bytes)

NB == Cardinality(Bytes)   \* plays 256

Shapes == {"Node4", "Node16", "Node48", "Node256"}

Cap(shape) == CASE shape = "Node4"  -> Cap4
                [] shape = "Node16" -> Cap16
                [] shape = "Node48" -> Cap48
                [] shape = "Node256" -> NB

Ret(n, r) == [node |-> n, res |-> r]

(***************************************************************************)
(* Default::default() of each shape. Node4/Node16 take their arrays from   *)
(* mem::uninitialized(); Node48/Node256 fill them with 0xff and null.      *)
(***************************************************************************)
Default(shape) ==
  CASE shape \in {"Node4", "Node16"} ->
         [shape |-> shape, len |-> 0,
          keys |-> [i \in 0..(Cap(shape) - 1) |-> Uninit],
          children |-> [i \in 0..(Cap(shape) - 1) |-> Uninit]]
    [] shape = "Node48" ->
         [shape |-> shape, len |-> 0,
          keys |-> [b \in Bytes |-> Absent],
          children |-> [i \in 0..(Cap48 - 1) |-> Null]]
    [] shape = "Node256" ->
         [shape |-> shape, len |-> 0, children |-> [b \in Bytes |-> Null]]

IsFull(n) == n.len = Cap(n.shape)

\* variant: every shrink threshold one too high
IsShrinkableOffByOne(n) ==
  CASE n.shape = "Node4"   -> FALSE
    [] n.shape = "Node16"  -> n.len <= Cap4 + 1
    [] n.shape = "Node48"  -> n.len <= Cap16 + 1
    [] n.shape = "Node256" -> n.len <= Cap48 + 1

IsShrinkable(n) ==
  CASE n.shape = "Node4"   -> FALSE
    [] n.shape = "Node16"  -> n.len <= Cap4
    [] n.shape = "Node48"  -> n.len <= Cap16
    [] n.shape = "Node256" -> n.len <= Cap48

(***************************************************************************)
(* util::slice_insert / slice_remove on the slice arr[0..len): insert      *)
(* shifts arr[index..len-1) one slot right and writes e at index (len is   *)
(* already the enlarged length); remove shifts arr[index+1..len) one slot  *)
(* left and leaves arr[len-1] as it was.                                   *)
(***************************************************************************)
SliceInsert(arr, len, index, e) ==
  [i \in DOMAIN arr |-> IF i < index \/ i >= len THEN arr[i]
                        ELSE IF i = index THEN e ELSE arr[i - 1]]

SliceRemove(arr, len, index) ==
  [i \in DOMAIN arr |-> IF index <= i /\ i < len - 1 THEN arr[i + 1] ELSE arr[i]]

-----------------------------------------------------------------------------
(* Node4 and Node16: keys[0..len) with children at the same positions.     *)

\* keys() and children(): the slices the length makes visible
Visible(n) == 0..(n.len - 1)

\* the first visible position satisfying P, or -1 (the for-loops' exit)
FirstPos(n, P(_)) ==
  IF \E i \in Visible(n) : P(i)
  THEN CHOOSE i \in Visible(n) : P(i) /\ \A j \in 0..(i - 1) : ~P(j)
  ELSE -1

\* variant: the scan stops at the first smaller key instead of a larger one
SortedInsertSwapped(n, key, h) ==
  LET i == FirstPos(n, LAMBDA j : key >= n.keys[j]) IN
  IF IsFull(n) THEN Ret(n, "Panic")
  ELSE IF i = -1 \/ n.keys[i] = key THEN Ret(n, "Err")
  ELSE Ret([n EXCEPT !.len = n.len + 1,
                     !.keys = SliceInsert(n.keys, n.len + 1, i, key),
                     !.children = SliceInsert(n.children, n.len + 1, i, h)],
           "Ok")

SortedInsert(n, key, h) ==
  LET i == FirstPos(n, LAMBDA j : key <= n.keys[j]) IN
  IF IsFull(n) THEN Ret(n, "Panic")
  ELSE IF i = -1 \/ n.keys[i] = key THEN Ret(n, "Err")
  ELSE Ret([n EXCEPT !.len = n.len + 1,
                     !.keys = SliceInsert(n.keys, n.len + 1, i, key),
                     !.children = SliceInsert(n.children, n.len + 1, i, h)],
           "Ok")

SortedLookup(n, key) ==
  LET i == FirstPos(n, LAMBDA j : n.keys[j] = key) IN
  IF i = -1 THEN None ELSE n.children[i]

SortedUpdate(n, key, h) ==
  LET i == FirstPos(n, LAMBDA j : n.keys[j] = key) IN
  IF i = -1 THEN Ret(n, "Err")
  ELSE Ret([n EXCEPT !.children[i] = h], n.children[i])

SortedRemove(n, key) ==
  LET i == FirstPos(n, LAMBDA j : n.keys[j] = key) IN
  IF n.len = 0 THEN Ret(n, "Panic")
  ELSE IF i = -1 THEN Ret(n, "Err")
  ELSE Ret([n EXCEPT !.len = n.len - 1, !.children[i] = Null], n.children[i])

-----------------------------------------------------------------------------
(* Node48: a byte -> slot index table and a packed children array.         *)

Node48Insert(n, key, h) ==
  IF IsFull(n) THEN Ret(n, "Panic")
  ELSE IF n.keys[key] # Absent THEN Ret(n, "Err")
  ELSE Ret([n EXCEPT !.children[n.len] = h, !.keys[key] = n.len,
                     !.len = n.len + 1], "Ok")

Node48Lookup(n, key) ==
  IF n.keys[key] = Absent THEN None ELSE n.children[n.keys[key]]

Node48Update(n, key, h) ==
  IF n.keys[key] = Absent THEN Ret(n, "Err")
  ELSE Ret([n EXCEPT !.children[n.keys[key]] = h], n.children[n.keys[key]])

\* variant: the index entry of the removed byte is left in place
Node48RemoveKeepIndex(n, key) ==
  LET idx == n.keys[key] IN
  IF idx = Absent THEN Ret(n, "Err")
  ELSE IF idx >= n.len THEN Ret(n, "Panic")
  ELSE Ret([n EXCEPT !.children = SliceRemove(n.children, n.len, idx),
                     !.len = n.len - 1],
           n.children[idx])

\* variant: len is decremented on the Err path too
Node48RemoveAlwaysDec(n, key) ==
  LET idx == n.keys[key] IN
  IF idx = Absent THEN Ret([n EXCEPT !.len = n.len - 1], "Err")
  ELSE IF idx >= n.len THEN Ret(n, "Panic")
  ELSE Ret([n EXCEPT !.children = SliceRemove(n.children, n.len, idx),
                     !.keys[key] = Absent, !.len = n.len - 1],
           n.children[idx])

\* slice_remove on children() requires the index to lie inside the slice
Node48Remove(n, key) ==
  LET idx == n.keys[key] IN
  IF idx = Absent THEN Ret(n, "Err")
  ELSE IF idx >= n.len THEN Ret(n, "Panic")
  ELSE Ret([n EXCEPT !.children = SliceRemove(n.children, n.len, idx),
                     !.keys[key] = Absent, !.len = n.len - 1],
           n.children[idx])

-----------------------------------------------------------------------------
(* Node256: one child slot per byte value.                                 *)

Node256Insert(n, key, h) ==
  IF n.children[key] = Null
  THEN Ret([n EXCEPT !.children[key] = h], "Ok")
  ELSE Ret(n, "Err")

Node256Lookup(n, key) ==
  IF n.children[key] = Null THEN None ELSE n.children[key]

Node256Update(n, key, h) ==
  IF n.children[key] = Null THEN Ret(n, "Err")
  ELSE Ret([n EXCEPT !.children[key] = h], n.children[key])

Node256Remove(n, key) ==
  IF n.children[key] = Null THEN Ret(n, "Err")
  ELSE Ret([n EXCEPT !.children[key] = Null], n.children[key])

-----------------------------------------------------------------------------
(* Dispatch on the shape, as the NodeOps trait object does.                *)

NodeInsert(n, key, h) ==
  CASE n.shape \in {"Node4", "Node16"} -> SortedInsert(n, key, h)
    [] n.shape = "Node48"  -> Node48Insert(n, key, h)
    [] n.shape = "Node256" -> Node256Insert(n, key, h)

NodeLookup(n, key) ==
  CASE n.shape \in {"Node4", "Node16"} -> SortedLookup(n, key)
    [] n.shape = "Node48"  -> Node48Lookup(n, key)
    [] n.shape = "Node256" -> Node256Lookup(n, key)

NodeUpdate(n, key, h) ==
  CASE n.shape \in {"Node4", "Node16"} -> SortedUpdate(n, key, h)
    [] n.shape = "Node48"  -> Node48Update(n, key, h)
    [] n.shape = "Node256" -> Node256Update(n, key, h)

NodeRemove(n, key) ==
  CASE n.shape \in {"Node4", "Node16"} -> SortedRemove(n, key)
    [] n.shape = "Node48"  -> Node48Remove(n, key)
    [] n.shape = "Node256" -> Node256Remove(n, key)

(***************************************************************************)
(* The byte -> child map a node answers through lookup: the contract the   *)
(* NodeOps methods are meant to implement.                                 *)
(***************************************************************************)
View(n) == [b \in Bytes |-> NodeLookup(n, b)]

\* the number of live children the representation holds
Occupied(n) ==
  CASE n.shape \in {"Node4", "Node16"} ->
         Cardinality({i \in Visible(n) : n.children[i] \notin {Null, Uninit}})
    [] n.shape = "Node48"  -> Cardinality({b \in Bytes : n.keys[b] # Absent})
    [] n.shape = "Node256" -> Cardinality({b \in Bytes : n.children[b] # Null})

-----------------------------------------------------------------------------
(***************************************************************************)
(* The From conversions. Each takes the old node by value, builds a        *)
(* Default() node of the new shape, moves header, len and every child      *)
(* into it, and lets the old storage go.                                   *)
(***************************************************************************)

\* Node16::from(Node4) and Node4::from(Node16): copy keys/children[0..len)
CopySorted(n, shape) ==
  [shape |-> shape, len |-> n.len,
   keys |-> [i \in 0..(Cap(shape) - 1) |-> IF i < n.len THEN n.keys[i] ELSE Uninit],
   children |-> [i \in 0..(Cap(shape) - 1) |->
                   IF i < n.len THEN n.children[i] ELSE Uninit]]

Node16From4(n) == CopySorted(n, "Node16")

Node4From16(n) == CopySorted(n, "Node4")

\* Node48::from(Node16): keys[keys16[i]] = i for i in 0..len, children copied
Node48From16(n) ==
  [shape |-> "Node48", len |-> n.len,
   keys |-> [b \in Bytes |->
               IF \E i \in Visible(n) : n.keys[i] = b
               THEN CHOOSE i \in Visible(n) :
                      n.keys[i] = b /\ \A j \in Visible(n) : n.keys[j] = b => j <= i
               ELSE Absent],
   children |-> [i \in 0..(Cap48 - 1) |-> IF i < n.len THEN n.children[i] ELSE Null]]

\* the bytes a Node48 / Node256 holds, in ascending order
Present48(n) == SetToSortSeq({b \in Bytes : n.keys[b] # Absent}, <)
Present256(n) == SetToSortSeq({b \in Bytes : n.children[b] # Null}, <)

\* variant: the i-th present byte takes children[i] instead of children[keys[b]]
Node16From48ByPosition(n) ==
  LET P == Present48(n) IN
  [shape |-> "Node16", len |-> n.len,
   keys |-> [i \in 0..(Cap16 - 1) |-> IF i < Len(P) THEN P[i + 1] ELSE Uninit],
   children |-> [i \in 0..(Cap16 - 1) |->
                   IF i < Len(P) THEN n.children[i] ELSE Uninit]]

\* Node16::from(Node48): walk the index table in byte order; len copied
Node16From48(n) ==
  LET P == Present48(n) IN
  [shape |-> "Node16", len |-> n.len,
   keys |-> [i \in 0..(Cap16 - 1) |-> IF i < Len(P) THEN P[i + 1] ELSE Uninit],
   children |-> [i \in 0..(Cap16 - 1) |->
                   IF i < Len(P) THEN n.children[n.keys[P[i + 1]]] ELSE Uninit]]

\* Node256::from(Node48): children[b] = children48[keys[b]]; len copied
Node256From48(n) ==
  [shape |-> "Node256", len |-> n.len,
   children |-> [b \in Bytes |->
                   IF n.keys[b] # Absent THEN n.children[n.keys[b]] ELSE Null]]

\* Node48::from(Node256): pack the non-null children in byte order, counting
\* them in new.len, then overwrite new.len with the old node's len
Node48From256(n) ==
  LET P == Present256(n) IN
  [shape |-> "Node48", len |-> n.len,
   keys |-> [b \in Bytes |->
               IF n.children[b] # Null
               THEN Cardinality({c \in Bytes : c < b /\ n.children[c] # Null})
               ELSE Absent],
   children |-> [i \in 0..(Cap48 - 1) |->
                   IF i < Len(P) THEN n.children[P[i + 1]] ELSE Null]]
=============================================================================
