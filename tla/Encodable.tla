------------------------------ MODULE Encodable ------------------------------
(***************************************************************************)
(* The trait Encodable of src/src/art/mod.rs (lines 951-959) and its only  *)
(* implementation, for String: encode() is self.clone().into_bytes(), the  *)
(* UTF-8 bytes of the string. A string is modelled as the sequence of the  *)
(* Unicode scalar values of its chars; the encoding is UTF-8 itself, so    *)
(* two strings whose first chars differ may still share leading bytes.     *)
(***************************************************************************)
EXTENDS Integers, Sequences
LOCAL INSTANCE SequencesExt

\* the UTF-8 encoding of one char: 1 to 4 bytes, lead byte first
Utf8(c) ==
  CASE c < 128   -> << c >>
    [] c < 2048  -> << 192 + (c \div 64), 128 + (c % 64) >>
    [] c < 65536 -> << 224 + (c \div 4096), 128 + ((c \div 64) % 64),
                       128 + (c % 64) >>
    [] OTHER     -> << 240 + (c \div 262144), 128 + ((c \div 4096) % 64),
                       128 + ((c \div 64) % 64), 128 + (c % 64) >>

\* String::encode: the concatenated UTF-8 of its chars
encode(s) == FlattenSeq([i \in 1..Len(s) |-> Utf8(s[i])])
=============================================================================
