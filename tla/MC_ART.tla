-------------------------------- MODULE MC_ART --------------------------------
(***************************************************************************)
(* Instantiates ART for TLC. Keys are Strings over the chars a, b, c (one  *)
(* byte each in UTF-8) and the accented e-acute and e-grave (two bytes     *)
(* each, 0xC3 0xA9 and 0xC3 0xA8). The root Node256 has one slot for each  *)
(* byte these encodings use, and the shape capacities are scaled to        *)
(* 1 < 2 < 3 < 6. Two keys can then share a first byte, be a prefix of     *)
(* each other, or be equal.                                                *)
(***************************************************************************)
EXTENDS ART

MCBytes == {97, 98, 99, 168, 169, 195}

a == 97
b == 98
c == 99
eAcute == 233
eGrave == 232

\* one-char ASCII keys: the inputs on which every key has its own root slot
KeysOneByte == {<<x>> : x \in {a, b, c}}

\* ASCII keys of one or two chars over {a, b}
KeysUpTo2 == {<<x>> : x \in {a, b}} \cup {<<x, y>> : x, y \in {a, b}}

\* the same with the empty String ""
KeysWithEmpty == KeysUpTo2 \cup {<<>>}

\* "a", "é" and "è": three distinct one-char Strings, no one a prefix of another
KeysAccented == {<<a>>, <<eAcute>>, <<eGrave>>}

\* every key shape at once, for the runs that check safety of the engine
KeysAll == KeysWithEmpty \cup KeysAccented
=============================================================================
