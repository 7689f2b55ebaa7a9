---------------------------- MODULE PrefixMatch ----------------------------
(***************************************************************************)
(* NodeHeader and Node::prefix_match (src/src/art/mod.rs, lines 18-35 and  *)
(* 209-241): the compressed path a node stores inline in its header and    *)
(* the comparison of a key against it, from an absolute depth.             *)
(*                                                                         *)
(* PREFIX_LEN (12) is scaled to PrefixLen. A header whose len exceeds it   *)
(* makes prefix.get_unchecked(..len) read past the inline buffer: the      *)
(* bytes read there are whatever the node's layout puts after the buffer,  *)
(* so the model lets them be any bytes. If they all match, the lazy check  *)
(* calls get_any_child(), which is todo!() in every shape: a panic.        *)
(***************************************************************************)
EXTENDS Integers, Sequences
LOCAL INSTANCE SequencesExt

CONSTANTS
  Bytes,
  PrefixLen,      \* PREFIX_LEN
  MaxHeaderLen,   \* largest header.len an input header has
  MaxKeyLen,      \* longest encoded key
  Uninit,         \* a byte of mem::uninitialized()
  Idle            \* res before the first call

ASSUME PrefixLen \in Nat /\ MaxHeaderLen \in Nat /\ MaxKeyLen \in Nat

VARIABLES
  keys,     \* the encoded key
  depth,    \* the depth the match starts at
  header,   \* node.header()
  res       \* Idle, or the answer of the last call

vars == <<keys, depth, header, res>>

\* Result<(), usize>, and the panic that ends the call instead
Ok == [kind |-> "Ok", at |-> 0]
Err(d) == [kind |-> "Err", at |-> d]
Panic == [kind |-> "Panic", at |-> 0]

\* NodeHeader { len: u32, prefix: [u8; PREFIX_LEN] }
Headers == [len : 0..MaxHeaderLen, prefix : [0..(PrefixLen - 1) -> Bytes]]

\* NodeHeader::default(): len 0 and an uninitialised prefix
DefaultHeader == [len |-> 0, prefix |-> [i \in 0..(PrefixLen - 1) |-> Uninit]]

\* the compressed path, as far as it is stored inline
Inline(h) == [i \in 1..h.len |-> h.prefix[i - 1]]

(***************************************************************************)
(* The loop over prefix[..len] against keys[depth + index] (bounds         *)
(* checked: a key that ends inside the path panics), then the lazy check   *)
(* of a path longer than the buffer. p is what the loop reads at each      *)
(* index.                                                                  *)
(***************************************************************************)
\* variant: a path longer than the buffer is accepted on its inline part
RECURSIVE MatchFromSkipLazy(_, _, _, _, _)
MatchFromSkipLazy(k, p, len, d, index) ==
  IF index >= len \/ index >= PrefixLen THEN Ok
  ELSE IF d + index >= Len(k) THEN Panic
  ELSE IF k[d + index + 1] # p[index] THEN Err(d + index)
  ELSE MatchFromSkipLazy(k, p, len, d, index + 1)

\* variant: the mismatch is reported relative to depth
RECURSIVE MatchFromRelative(_, _, _, _, _)
MatchFromRelative(k, p, len, d, index) ==
  IF index >= len THEN IF len > PrefixLen THEN Panic ELSE Ok
  ELSE IF d + index >= Len(k) THEN Panic
  ELSE IF k[d + index + 1] # p[index] THEN Err(index)
  ELSE MatchFromRelative(k, p, len, d, index + 1)

RECURSIVE MatchFrom(_, _, _, _, _)
MatchFrom(k, p, len, d, index) ==
  IF index >= len THEN IF len > PrefixLen THEN Panic ELSE Ok
  ELSE IF d + index >= Len(k) THEN Panic
  ELSE IF k[d + index + 1] # p[index] THEN Err(d + index)
  ELSE MatchFrom(k, p, len, d, index + 1)

\* the answers prefix_match(k, node, d) can give: one, unless len > PrefixLen
PrefixMatch(k, h, d) ==
  { MatchFrom(k, [i \in 0..(h.len - 1) |->
                    IF i < PrefixLen THEN h.prefix[i] ELSE past[i]],
              h.len, d, 0) :
      past \in [PrefixLen..(h.len - 1) -> Bytes] }

Init ==
  /\ keys = <<>>
  /\ depth = 0
  /\ header = DefaultHeader
  /\ res = Idle

\* insert calls prefix_match only while depth < keys.len() (lookup skips
\* header.len bytes without comparing them, line 1078)
Call(k, d, h) ==
  /\ keys' = k
  /\ depth' = d
  /\ header' = h
  /\ res' \in PrefixMatch(k, h, d)

Next ==
  \E k \in BoundedSeq(Bytes, MaxKeyLen), h \in Headers \cup {DefaultHeader} :
    \E d \in 0..(Len(k) - 1) : Call(k, d, h)

Spec == Init /\ [][Next]_vars

-----------------------------------------------------------------------------
\* spec 4.1: Ok iff the key continues with the whole path, else the absolute
\* depth of the first byte where they differ
SpecMatch(k, path, d) ==
  LET lcp == LongestCommonPrefix({SubSeq(k, d + 1, Len(k)), path}) IN
  IF Len(lcp) = Len(path) THEN Ok ELSE Err(d + Len(lcp))

(* prefix_match answers as spec 4.1 says whenever the path fits the inline *)
(* buffer and the key reaches past it: Ok exactly when the key continues   *)
(* with the stored path, and otherwise the absolute depth of the first     *)
(* differing byte, which insert subtracts from depth to size a split.      *)
PrefixMatchAgrees ==
  res # Idle /\ header.len <= PrefixLen /\ depth + header.len <= Len(keys)
    => res = SpecMatch(keys, Inline(header), depth)

(* prefix_match never lets insert or lookup descend past a path the key    *)
(* does not continue with, whatever the header: Ok only for a path that    *)
(* fits the buffer and that the key continues with. A path longer than the *)
(* buffer, whose tail the loop reads out of bounds, and a key that ends    *)
(* inside the path end in Err or a panic, never in Ok.                     *)
PrefixMatchNeverFalseOk ==
  res = Ok =>
    /\ header.len <= PrefixLen
    /\ IsPrefix(Inline(header), SubSeq(keys, depth + 1, Len(keys)))
=============================================================================
