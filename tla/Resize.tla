------------------------------ MODULE Resize ------------------------------
(***************************************************************************)
(* One tagged Node<V> handle (src/src/art/mod.rs, lines 62-207): the tag   *)
(* bits of the pointer, the node object they point at, the NodeOps calls   *)
(* made through deref()/deref_mut(), and the grow/shrink state machine     *)
(* Node::extend and Node::shrink.                                          *)
(*                                                                         *)
(* deref() picks the node type from the tag alone. When the tag names a    *)
(* shape other than the object's, the object is read through the wrong    *)
(* struct layout: undefined behaviour whose outcome depends on the layout  *)
(* rustc chose. The model records such a deref as "UB" and stops there.    *)
(***************************************************************************)
EXTENDS Integers, FiniteSets

CONSTANTS
  Bytes, Handles, Cap4, Cap16, Cap48, Null, Absent, Uninit, None,
  InitNodes     \* objects Node::new(node, its type) can be given

VARIABLES
  tag,    \* pointer & NODETYPE_MASK
  obj,    \* the heap object the pointer addresses
  out     \* the last call on the handle and its result

vars == <<tag, obj, out>>

INSTANCE ArtNodes

Result(op, b, r) == [op |-> op, key |-> b, res |-> r]

Stopped == out.res \in {"Panic", "UB"}

\* deref()/deref_mut() read the object as the type the tag names
Mistagged == tag # obj.shape

TypeOK ==
  /\ tag \in Shapes
  /\ obj.shape \in Shapes
  /\ obj.len \in 0..Cap(obj.shape)

Init ==
  /\ obj \in InitNodes
  /\ tag = obj.shape
  /\ out = Result("new", 0, "Ok")

\* a NodeOps call through deref_mut(): UB on a mistagged handle
Through(op, b, r) ==
  IF Mistagged
  THEN out' = Result(op, b, "UB") /\ UNCHANGED <<tag, obj>>
  ELSE obj' = r.node /\ out' = Result(op, b, r.res) /\ UNCHANGED tag

InsertOp(b, h) ==
  /\ ~Stopped
  /\ ~IsFull(obj)
  /\ Through("insert", b, NodeInsert(obj, b, h))

UpdateOp(b, h) ==
  /\ ~Stopped
  /\ Through("update", b, NodeUpdate(obj, b, h))

RemoveOp(b) ==
  /\ ~Stopped
  /\ obj.shape \in {"Node4", "Node16"} => obj.len # 0
  /\ Through("remove", b, NodeRemove(obj, b))

(***************************************************************************)
(* Node::extend: deref() the handle, return unless is_full(); rebuild the *)
(* object one shape larger and store the new pointer with node_type, the   *)
(* type read before the conversion. A full Node256 panics.                 *)
(***************************************************************************)
Extend ==
  /\ ~Stopped
  /\ IF Mistagged
     THEN out' = Result("extend", 0, "UB") /\ UNCHANGED <<tag, obj>>
     ELSE /\ IsFull(obj)
          /\ CASE tag = "Node4"   -> obj' = Node16From4(obj)
               [] tag = "Node16"  -> obj' = Node48From16(obj)
               [] tag = "Node48"  -> obj' = Node256From48(obj)
               [] tag = "Node256" -> UNCHANGED obj
          /\ out' = Result("extend", 0, IF tag = "Node256" THEN "Panic" ELSE "Ok")
          /\ UNCHANGED tag

(***************************************************************************)
(* Node::shrink: return unless is_shrinkable(); then rebuild the object    *)
(* one shape smaller, again keeping the old node_type in the tag.          *)
(***************************************************************************)
Shrink ==
  /\ ~Stopped
  /\ IF Mistagged
     THEN out' = Result("shrink", 0, "UB") /\ UNCHANGED <<tag, obj>>
     ELSE /\ IsShrinkable(obj)
          /\ CASE tag = "Node16"  -> obj' = Node4From16(obj)
               [] tag = "Node48"  -> obj' = Node16From48(obj)
               [] tag = "Node256" -> obj' = Node48From256(obj)
          /\ out' = Result("shrink", 0, "Ok")
          /\ UNCHANGED tag

\* a panic or undefined behaviour ends the run
Halted == Stopped /\ UNCHANGED vars

Next ==
  \/ \E b \in Bytes :
       \/ \E h \in Handles : InsertOp(b, h) \/ UpdateOp(b, h)
       \/ RemoveOp(b)
  \/ Extend
  \/ Shrink
  \/ Halted

Spec == Init /\ [][Next]_vars

-----------------------------------------------------------------------------
(* The tag bits always name the type of the object they point at, so       *)
(* deref() reads every node through its own layout.                       *)
TagMatchesShape == tag = obj.shape

\* the new node answers lookup as the old one and its len counts its children
ChildrenMoved == View(obj') = View(obj) /\ obj'.len = Occupied(obj')

Converted == out'.op \in {"extend", "shrink"} /\ out'.res = "Ok"

(* A grow or shrink moves every child of the node it replaces: the new     *)
(* node answers lookup with the same child for every byte, and its len     *)
(* counts exactly the children it holds (spec 4.3: no handle duplicated or *)
(* dropped).                                                               *)
ConversionPreservesChildren == [][Converted => ChildrenMoved]_vars

(* The From conversions themselves are right: whenever the node being      *)
(* converted has len equal to its live children, the new node holds the   *)
(* same byte -> child map with a len that counts it.                       *)
ConversionOfConsistentNode ==
  [][Converted /\ obj.len = Occupied(obj) => ChildrenMoved]_vars
=============================================================================
