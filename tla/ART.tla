--------------------------------- MODULE ART ---------------------------------
(***************************************************************************)
(* The tree engine of src/src/art/mod.rs: ART::new, insert, lookup and     *)
(* remove, over a root Node<V> handle.                                     *)
(*                                                                         *)
(* A handle is either an inner node (a record of module ArtNodes, its      *)
(* shape playing the tag bits) or a NodeV [key, value]. ART::new makes the *)
(* root a Node256 whose NodeHeader has len 0. Every loop below is written  *)
(* for a general tree, but an inner node is only ever created by the       *)
(* prefix split of insert (lines 1029-1061), which needs a stop node whose *)
(* header len differs from prefix_len; from ART::new the stop node is      *)
(* either a NodeV or the root, with prefix_len = header.len = 0. So the    *)
(* tree is the root and its NodeV children, prefix_match is trivially Ok,  *)
(* the split never runs, and the model keeps no NodeHeader.                *)
(*                                                                         *)
(* Keys are Strings (module Encodable): insert and lookup walk the bytes   *)
(* of key.encode(), and a NodeV keeps those bytes as its key.              *)
(***************************************************************************)
EXTENDS Integers, Sequences, FiniteSets, Encodable

CONSTANTS
  Bytes, Keys, Values,
  Cap4, Cap16, Cap48,
  Null, Absent, Uninit,
  None,          \* a node lookup that found no child
  NoValue,       \* the abstract map's "absent"
  NoPanic        \* value of panic while the process runs

\* Keys are Strings, as sequences of chars; their encodings use only Bytes
ASSUME \A k \in Keys :
         /\ k \in Seq(Int)
         /\ \A i \in DOMAIN k : k[i] \in 0..1114111 /\ k[i] \notin 55296..57343
         /\ encode(k) \in Seq(Bytes)

VARIABLES
  root,     \* ART.root, the root node
  out,      \* the last operation and what it returned
  panic     \* NoPanic, or the operation whose panic ended the process

vars == <<root, out, panic>>

\* NodeV<V>: the encoded key (Box<[u8]>) and the value
ValueNodes == [key : {encode(k) : k \in Keys}, value : Values]

N == INSTANCE ArtNodes WITH Handles <- ValueNodes

\* deref() is Either::Right: the handle points at a NodeV
IsValue(h) == h \in ValueNodes

Result(op, k, r) == [op |-> op, key |-> k, res |-> r]

TypeOK ==
  /\ root \in [shape : {"Node256"}, len : Nat,
               children : [Bytes -> ValueNodes \cup {Null}]]
  /\ out.op \in {"new", "insert", "lookup"}
  /\ panic \in {NoPanic} \cup [op : {"insert", "remove"}, key : Keys]

\* variant: the classical minimal root (a Node4) instead of a Node256
InitNode4Root ==
  /\ root = N!Default("Node4")
  /\ out = Result("new", <<>>, "Ok")
  /\ panic = NoPanic

Init ==
  /\ root = N!Default("Node256")
  /\ out = Result("new", <<>>, "Ok")
  /\ panic = NoPanic

(***************************************************************************)
(* The while-loop of insert: from cur at depth, match the (empty) prefix,  *)
(* look up keys[depth] and descend with depth += 1 + header.len, until the *)
(* key is used up, a NodeV is reached, or the byte has no child.           *)
(***************************************************************************)
\* variant: the loop stops one byte early
RECURSIVE DescendShort(_, _, _)
DescendShort(cur, depth, k) ==
  IF depth + 1 < Len(k) /\ ~IsValue(cur)
  THEN LET child == N!NodeLookup(cur, k[depth + 1]) IN
       IF child = None THEN [stop |-> cur, depth |-> depth]
       ELSE DescendShort(child, depth + 1, k)
  ELSE [stop |-> cur, depth |-> depth]

RECURSIVE Descend(_, _, _)
Descend(cur, depth, k) ==
  IF depth < Len(k) /\ ~IsValue(cur)
  THEN LET child == N!NodeLookup(cur, k[depth + 1]) IN
       IF child = None THEN [stop |-> cur, depth |-> depth]
       ELSE Descend(child, depth + 1, k)
  ELSE [stop |-> cur, depth |-> depth]

(***************************************************************************)
(* insert(k, v), on keys = k.encode(). At a NodeV the answer is Err(v). At the root: extend()    *)
(* panics on a full Node256, keys[depth] panics when the key is used up,   *)
(* and otherwise the NodeV is inserted under keys[depth], with a           *)
(* debug_assert that the node accepted it.                                 *)
(***************************************************************************)
\* variant: insert on a present key replaces the stored NodeV
InsertOverwrite(k, v) ==
  LET keys == encode(k)
      s == Descend(root, 0, keys)
      new == [key |-> keys, value |-> v]
      r == N!NodeInsert(root, keys[s.depth + 1], new)
  IN
  /\ panic = NoPanic
  /\ IF IsValue(s.stop)
     THEN /\ root' = N!NodeUpdate(root, keys[s.depth], new).node
          /\ out' = Result("insert", k, "Ok")
          /\ UNCHANGED panic
     ELSE IF N!IsFull(root) \/ s.depth >= Len(keys) \/ r.res # "Ok"
     THEN /\ panic' = [op |-> "insert", key |-> k]
          /\ UNCHANGED <<root, out>>
     ELSE /\ root' = r.node
          /\ out' = Result("insert", k, "Ok")
          /\ UNCHANGED panic

Insert(k, v) ==
  LET keys == encode(k)
      s == Descend(root, 0, keys)
      r == N!NodeInsert(root, keys[s.depth + 1], [key |-> keys, value |-> v])
  IN
  /\ panic = NoPanic
  /\ IF IsValue(s.stop)
     THEN /\ out' = Result("insert", k, "Err")
          /\ UNCHANGED <<root, panic>>
     ELSE IF N!IsFull(root) \/ s.depth >= Len(keys) \/ r.res # "Ok"
     THEN /\ panic' = [op |-> "insert", key |-> k]
          /\ UNCHANGED <<root, out>>
     ELSE /\ root' = r.node
          /\ out' = Result("insert", k, "Ok")
          /\ UNCHANGED panic

(***************************************************************************)
(* The loop of lookup: skip header.len bytes, require a child for the next *)
(* byte, and while bytes remain a NodeV ends the search with None. At the  *)
(* end a NodeV answers only if its full key equals the key.                *)
(***************************************************************************)
\* variant: a NodeV answers without comparing its full key
RECURSIVE FindNoKeyCheck(_, _, _)
FindNoKeyCheck(cur, depth, k) ==
  IF depth < Len(k)
  THEN IF IsValue(cur) THEN "None"
       ELSE LET child == N!NodeLookup(cur, k[depth + 1]) IN
            IF child = None THEN "None" ELSE FindNoKeyCheck(child, depth + 1, k)
  ELSE IF IsValue(cur) THEN cur.value ELSE "None"

RECURSIVE Find(_, _, _)
Find(cur, depth, k) ==
  IF depth < Len(k)
  THEN IF IsValue(cur) THEN "None"
       ELSE LET child == N!NodeLookup(cur, k[depth + 1]) IN
            IF child = None THEN "None" ELSE Find(child, depth + 1, k)
  ELSE IF IsValue(cur) /\ cur.key = k THEN cur.value ELSE "None"

Lookup(k) ==
  /\ panic = NoPanic
  /\ out' = Result("lookup", k, Find(root, 0, encode(k)))
  /\ UNCHANGED <<root, panic>>

\* remove is todo!(): it panics
Remove(k) ==
  /\ panic = NoPanic
  /\ panic' = [op |-> "remove", key |-> k]
  /\ UNCHANGED <<root, out>>

\* a panic ends the process
Halted ==
  /\ panic # NoPanic
  /\ UNCHANGED vars

Next ==
  \/ \E k \in Keys :
       \/ \E v \in Values : Insert(k, v)
       \/ Lookup(k)
       \/ Remove(k)
  \/ Halted

Spec == Init /\ [][Next]_vars

\* the operations whose contract the map promises (remove is unimplemented)
NextInsertLookup ==
  \E k \in Keys : \/ \E v \in Values : Insert(k, v)
                  \/ Lookup(k)

SpecInsertLookup == Init /\ [][NextInsertLookup]_vars

-----------------------------------------------------------------------------
(* What the tree stores: key k maps to v iff a NodeV [k, v] hangs below.   *)
AbsMap ==
  [k \in Keys |->
     IF \E b \in Bytes : root.children[b] # Null /\ root.children[b].key = encode(k)
     THEN (CHOOSE h \in {root.children[b] : b \in Bytes} :
             h # Null /\ h.key = encode(k)).value
     ELSE NoValue]

SM == INSTANCE SequentialMap WITH map <- AbsMap, out <- out

(* The tree implements the map contract for insert and lookup: every step  *)
(* of insert/lookup answers as the abstract map over the stored NodeVs.    *)
MapSpec == SM!Spec

(* lookup never invents an answer: a value it returns is stored under      *)
(* exactly the key looked up (the full-key check of lookup, line 1091).    *)
LookupSound ==
  out.op = "lookup" /\ out.res # "None" => AbsMap[out.key] = out.res

(* A key, once stored, keeps its value: insert never overwrites, and no    *)
(* step of insert, lookup or a panic loses a stored NodeV.                 *)
StoredKept ==
  [][\A k \in Keys : AbsMap[k] # NoValue => AbsMap'[k] = AbsMap[k]]_vars

(* Round trip (spec section 8): lookup of a stored key returns its value,  *)
(* and None only for a key that is not stored.                             *)
LookupComplete ==
  out.op = "lookup" =>
    out.res = IF AbsMap[out.key] = NoValue THEN "None" ELSE AbsMap[out.key]

(* insert answers Err(value) only if the key is already present (spec 6).  *)
InsertErrOnlyIfPresent ==
  [][\A k \in Keys, v \in Values :
       Insert(k, v) /\ out'.res = "Err" => AbsMap[k] # NoValue]_vars

(* insert panics only by indexing keys[depth] of the empty key (line       *)
(* 1022): extend never panics on the root, and the debug_assert that the   *)
(* node accepted the new NodeV (line 1028) never fires, because the        *)
(* descent stops at the root only at a byte that has no child.             *)
InsertPanicsOnlyOnEmptyKey ==
  panic # NoPanic /\ panic.op = "insert" => panic.key = <<>>
=============================================================================
