------------------------------ MODULE MC_NodeOps ------------------------------
(***************************************************************************)
(* Instantiates NodeOps for TLC: five byte values (playing 256) and the    *)
(* capacities scaled to 2 < 3 < 4 < 5, two child handles so that a wrong   *)
(* child is told apart from the right one.                                 *)
(***************************************************************************)
EXTENDS NodeOps

MCBytes == 0..4

\* A Node48 filled by insert calls in ascending byte order, f giving the children
RECURSIVE InsertAll48(_, _, _)
InsertAll48(n, f, todo) ==
  IF todo = {} THEN n
  ELSE LET b == CHOOSE c \in todo : \A d \in todo : c <= d IN
       InsertAll48(Node48Insert(n, b, f[b]).node, f, todo \ {b})

\* byte -> child maps small enough for a Node16
SmallMaps == UNION {[S -> Handles] : S \in {S \in SUBSET Bytes : Cardinality(S) <= Cap16}}

\* Node::shrink of a Node48 built by inserts yields these Node16s
Init16 ==
  {Default("Node16")} \cup
  {Node16From48(InsertAll48(Default("Node48"), f, DOMAIN f)) : f \in SmallMaps}

\* and Node::shrink of such a Node16 these Node4s
Init4 == {Default("Node4")} \cup {Node4From16(n) : n \in {m \in Init16 : m.len <= Cap4}}

Init48 == {Default("Node48")}

\* the two sorted shapes and Node48
InitShapes == Init4 \cup Init16 \cup Init48
=============================================================================
