------------------------------ MODULE MC_Resize ------------------------------
(***************************************************************************)
(* Instantiates Resize for TLC with the scaled shapes of MC_NodeOps (five  *)
(* byte values, capacities 2 < 3 < 4 < 5) and two child handles.           *)
(***************************************************************************)
EXTENDS Resize

MCBytes == 0..4

\* A Node48 filled by insert calls in ascending byte order, f giving the children
RECURSIVE InsertAll48(_, _, _)
InsertAll48(n, f, todo) ==
  IF todo = {} THEN n
  ELSE LET b == CHOOSE c \in todo : \A d \in todo : c <= d IN
       InsertAll48(Node48Insert(n, b, f[b]).node, f, todo \ {b})

SmallMaps == UNION {[S -> Handles] : S \in {S \in SUBSET Bytes : Cardinality(S) <= Cap16}}

\* the Node16s Node::shrink builds from a Node48 filled by inserts
Shrunk16 == {Node16From48(InsertAll48(Default("Node48"), f, DOMAIN f)) : f \in SmallMaps}

\* handles made by Node::new on a fresh Node48, Node16 or Node4, or on the
\* Node16 and Node4 objects that shrinking builds
InitSmall ==
  {Default("Node48"), Default("Node16"), Default("Node4")} \cup Shrunk16 \cup
  {Node4From16(n) : n \in {m \in Shrunk16 : m.len <= Cap4}}

\* the root ART::new makes
InitRoot == {Default("Node256")}
=============================================================================
