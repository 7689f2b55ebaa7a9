------------------------------ MODULE NodeOps ------------------------------
(***************************************************************************)
(* One inner node driven through the NodeOps trait (src/src/art/mod.rs,    *)
(* lines 49-60): any sequence of insert, lookup, update and remove calls   *)
(* on a node of one shape. The callers' side of each debug_assert at the   *)
(* top of a method is a guard: the engine grows a full node before insert  *)
(* (Node::extend) and Node4/Node16::remove is never called on an empty     *)
(* node. A debug_assert that fails inside a method ends the process.       *)
(***************************************************************************)
EXTENDS Integers, FiniteSets

CONSTANTS
  Bytes, Handles, Cap4, Cap16, Cap48, Null, Absent, Uninit, None,
  InitNodes     \* the nodes the node can start from: Default() or a From

VARIABLES
  node,   \* the node object
  out     \* the last call and its result

vars == <<node, out>>

INSTANCE ArtNodes

ASSUME \A n \in InitNodes : n.shape \in Shapes

Result(op, b, r) == [op |-> op, key |-> b, res |-> r]

Panicked == out.res = "Panic"

TypeOK ==
  /\ node.shape \in Shapes
  /\ node.len \in 0..Cap(node.shape)
  /\ out.op \in {"new", "insert", "lookup", "update", "remove"}

Init ==
  /\ node \in InitNodes
  /\ out = Result("new", 0, "Ok")

\* Call applies one NodeOps method and records its result
Call(op, b, r) ==
  /\ node' = r.node
  /\ out' = Result(op, b, r.res)

InsertOp(b, h) ==
  /\ ~Panicked
  /\ ~IsFull(node)
  /\ Call("insert", b, NodeInsert(node, b, h))

LookupOp(b) ==
  /\ ~Panicked
  /\ out' = Result("lookup", b, NodeLookup(node, b))
  /\ UNCHANGED node

UpdateOp(b, h) ==
  /\ ~Panicked
  /\ Call("update", b, NodeUpdate(node, b, h))

RemoveOp(b) ==
  /\ ~Panicked
  /\ node.shape \in {"Node4", "Node16"} => node.len # 0
  /\ Call("remove", b, NodeRemove(node, b))

\* a panic ends the process
Halted == Panicked /\ UNCHANGED vars

Next ==
  \/ \E b \in Bytes :
       \/ \E h \in Handles : InsertOp(b, h) \/ UpdateOp(b, h)
       \/ LookupOp(b)
       \/ RemoveOp(b)
  \/ Halted

Spec == Init /\ [][Next]_vars

-----------------------------------------------------------------------------
CM == INSTANCE ChildMap WITH map <- View(node), out <- out

(* The node implements its contract: after every call, lookup of each byte *)
(* answers the abstract byte -> child map, and each call returns what the  *)
(* map operation returns (insert never overwrites, remove returns the      *)
(* removed child).                                                         *)
ChildMapSpec == CM!Spec

(* A Node48's occupancy count len equals the number of bytes its index     *)
(* table maps (spec section 3), across removes that compact the children   *)
(* array; is_full and is_shrinkable decide grow and shrink on len alone.   *)
(* (Node4/Node16 break it after one remove: see run resize_holes.)         *)
OccupancyMatches == node.shape = "Node48" => node.len = Occupied(node)

(* Node4/Node16 keep keys[0..len) initialised and strictly ascending, so   *)
(* the linear scans of insert/lookup/update/remove stop at the right slot  *)
(* and never read a mem::uninitialized() key.                              *)
KeysSorted ==
  node.shape \in {"Node4", "Node16"} =>
    /\ \A i \in Visible(node) : node.keys[i] \in Bytes
    /\ \A i \in Visible(node) : i > 0 => node.keys[i - 1] < node.keys[i]
=============================================================================
