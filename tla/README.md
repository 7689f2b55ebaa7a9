# TLA+ models of the adaptive radix tree (src/src/art/mod.rs)

This directory holds TLA+ models of the adaptive radix tree (ART) in
`src/src/art/mod.rs`, the TLC configurations that check them, and the
results. The crate runs single-threaded (spec section 5). The hard
behaviours here are therefore long call sequences on a node, grow/shrink
transitions, and the undefined behaviour of a mistagged pointer, not
interleavings. All properties are safety properties, and no fairness is
assumed: every operation is one synchronous call that the caller chooses
to make, so there is no step the library is bound to take eventually,
and a liveness property would only restate that calls return.

## The system and how its parts interact

| part | code (mod.rs) | state | operations |
|---|---|---|---|
| Prefix header | `NodeHeader` 19-35, `prefix_match` 210-241 | `len`, 12 prefix bytes | compare a key with the compressed path |
| Node shapes | `Node4` 267-434, `Node16` 436-626, `Node48` 628-813, `Node256` 816-948 | `keys`, `children`, `len` | `NodeOps` trait (49-60): `insert`, `lookup`, `update`, `remove`, `is_full`, `is_shrinkable`, `get_any_child` (todo!) |
| Shape conversions | the `Default` and `From` impls | a new object built from an old one | `Node16::from(Node4)`, `Node4::from(Node16)`, `Node48::from(Node16)`, `Node16::from(Node48)`, `Node256::from(Node48)`, `Node48::from(Node256)` |
| Tagged handle `Node<V>` | 62-207 | a pointer whose low bits name the `NodeType` | `deref`/`deref_mut` dispatch on the tag; `extend` grows a full node; `shrink` shrinks a sparse node |
| Leaf `NodeV` | 244-265 | full key and value | none |
| Tree engine `ART` | 966-1102 | the root handle | `new`, `insert`, `lookup`, `remove` (todo!) |
| `Encodable` | 951-959 | none | `String::encode`: the UTF-8 bytes of the string (`into_bytes`) |
| `SequentialMap` trait, `util::slice_insert`/`slice_remove` | not under `src/` | none | map contract; array shifts |

`ART::insert` walks down with `lookup_mut` and grows the stop node with
`extend`. It then inserts a `NodeV` under the next key byte, or splits a
compressed prefix. `ART::lookup` walks with `lookup` and compares the full
key at the leaf. Every node call goes through the tag dispatch of `deref`.

Starting from `ART::new`, only part of this is reachable:
- The root is a `Node256`.
- The split (1029-1061) needs a stop node whose header length differs
  from `prefix_len`. That never happens, because every header has length 0.
- So the reachable tree is a `Node256` root with `NodeV` children. The
  Node4/16/48 shapes and the conversions are used only by `extend` and
  `shrink`, and `shrink` is never called.

The node shapes are therefore modelled as components on their own, driven
through their trait by every call sequence a caller could make.

## Modules

| module | models |
|---|---|
| `ArtNodes` | Pure operators, one per node method, returning `[node, res]`. A node is a record `[shape, len, keys, children]` (Node48 adds an index table). `Cap4 < Cap16 < Cap48 < |Bytes|` scale 4/16/48/256 down. Model values stand for the null pointer (`Null`), the `0xff` index sentinel (`Absent`) and `mem::uninitialized()` keys (`Uninit`). `SliceInsert`/`SliceRemove` are modelled from the usual semantics, since util is not in the repository. |
| `ChildMap` | The abstract contract of every shape (spec 4.2): a byte-to-child map with insert, lookup, update and remove. |
| `NodeOps` | One node under any sequence of trait calls. Each method is an action. The caller-side `debug_assert`s at the top of a method become guards: insert only into a non-full node, and Node4/16 remove only when `len > 0`. A `debug_assert` failing inside a method (`slice_remove`) is a panic that ends the run. `View(node)` maps the node onto `ChildMap`. |
| `Resize` | A tagged handle: the tag, the object, trait calls through `deref_mut`, `Node::extend` and `Node::shrink`. A deref through a tag that does not match the object is undefined behaviour, recorded as the terminal result `"UB"`. |
| `PrefixMatch` | `NodeHeader`, `NodeHeader::default` and `Node::prefix_match`, with `PREFIX_LEN` scaled to `PrefixLen`. The loop is the recursive `MatchFrom`. Each `Call` action is one call from the insert loop (line 1000), with `depth < keys.len()`; lookup never calls it and skips `header.len` bytes unread (line 1078). A header longer than the buffer makes `get_unchecked(..len)` read past it. The model lets those bytes be any bytes, and the `todo!()` of `get_any_child` panics. The reference `SpecMatch` is spec 4.1, written with `LongestCommonPrefix` of the community module SequencesExt. |
| `Encodable` | `String::encode` as the UTF-8 encoding itself: a String is the sequence of its chars' scalar values, `Utf8` gives each char's 1 to 4 bytes, and `encode` concatenates them (`FlattenSeq` of SequencesExt). |
| `SequentialMap` | The map contract of the crate (spec 6). |
| `ART` | Keys are Strings: `insert` and `lookup` first compute `keys = encode(k)` and walk those bytes, and a `NodeV` stores the encoded key, as at lines 990, 1071 and 245. `ART::new`, `insert` (the descent loop as the recursive `Descend`), `lookup` (the recursive `Find`) and `remove` (a panic: todo!). `AbsMap` maps the tree onto `SequentialMap`. |
| `MC_ART`, `MC_NodeOps`, `MC_Resize`, `MC_PrefixMatch` | The bounds for TLC. The initial nodes are built with the code's own constructors: `Default`, Node48 inserts, and the `From` conversions that shrinking produces. |

## Runs

Bounds for ART: Strings over the chars `a`, `b`, `c`, `é` and `è`; the
root `Node256` has one slot for each of the six bytes their UTF-8 uses
(0x61-0x63, 0xC3, 0xA8, 0xA9); capacities 1/2/3; values {v1, v2}.
Bounds for the node and resize models: bytes 0..4, capacities 2/3/4,
handles {h1, h2}.

These bounds are small but reach every branch:
- Five bytes are one more than the Node48 capacity, so every shape can
  become full and be grown.
- Two handles tell an overwrite apart from a no-op.
- ASCII keys of one and two chars over {a, b} produce every
  shared-first-byte case of the engine where one key is a prefix of
  another.
- `é` and `è` are one char each but two bytes, with the same lead byte
  0xC3: they share a first byte without either key being a prefix of the
  other. art_insert_err uses {"a", "é", "è"}.
- art_sound takes all of these and the empty String, the one input on
  which the code's index `keys[depth]` is out of range from the start.
- For `prefix_match`: bytes {0, 1}, keys of up to 4 bytes, every depth
  inside the key, `PrefixLen` 2, and headers of length 0..3 with every
  inline content. This covers:
  - a mismatch at each index;
  - a full match;
  - a key that ends inside the path;
  - a path one byte longer than the buffer.

The largest passing runs take about 50 s.

| run | expect | checks | shows |
|---|---|---|---|
| art_single_byte | pass | `MapSpec` | With one-byte keys, `insert`/`lookup` refine `SequentialMap`. |
| art_sound | pass | `TypeOK`, `LookupSound`, `StoredKept`, `InsertPanicsOnlyOnEmptyKey` | With the empty String, the one- and two-char ASCII keys and the two accented keys: lookup never answers with another key's value, and no step loses or overwrites a stored value. Insert panics only on the empty key: `extend` never panics on the root, and the `debug_assert` that the root accepted the new leaf (line 1028) never fires. |
| art_roundtrip | violation | `LookupComplete` | Insert a two-char key such as `"aa"` or `"ba"`, then look it up: None: lookup stops at the leaf while a byte remains (line 1077). |
| art_insert_err | violation | `InsertErrOnlyIfPresent` | Insert `"è"`, then insert `"é"` gives Err. The two are distinct one-char Strings, and neither is a prefix of the other, but both encode with the lead byte 0xC3. Insert refuses any key whose first encoded byte leads to a leaf (line 1066). |
| node_invariants | pass | `TypeOK`, `KeysSorted`, `OccupancyMatches` | Starting from every Node4, Node16 and Node48 the constructors produce: Node4/16 keep `keys[0..len)` initialised and strictly ascending, and Node48 `len` always equals the number of used index entries (475k states, 30 s). |
| prefix_match | pass | `PrefixMatchAgrees`, `PrefixMatchNeverFalseOk` | For headers that fit the inline buffer and keys that reach past the path, `prefix_match` answers exactly as spec 4.1: Ok on a full match, else the absolute depth of the first differing byte. For every header and key, Ok means the header fits and the key continues with its path. A longer header, whose tail is read out of bounds, ends in Err or a panic. |
| node48_map | violation | `ChildMapSpec` | Insert 0, insert 1, remove 0, insert 0: byte 1's index is stale after `slice_remove`, and both bytes now share a slot (line 807). |
| node16_map | violation | `ChildMapSpec` | Insert into an empty Node16 answers Err: Node4/16 insert never appends (lines 379, 572). |
| resize_small | pass | `TypeOK`, `ConversionOfConsistentNode` | Every `From` conversion reached by grow/shrink from a node with a correct `len` moves exactly its children. |
| resize_root | violation | `ConversionPreservesChildren` | Node256 insert leaves `len` at 0 (line 901), and `Node48::from(Node256)` copies that stale `len` (line 708). Shrinking a Node256 with children then yields a Node48 with `len` 0. |
| resize_holes | violation | `ConversionPreservesChildren` | Node16 remove leaves a hole (line 617), and shrinking to Node4 copies only `len` slots (line 308), so a live child is lost. |
| resize_tag | violation | `TagMatchesShape` | `extend`/`shrink` store the old `node_type` in the tag (line 159). Every later deref of the handle is undefined behaviour. |

Each property of a passing run has a mutant in `PROJECT.json`: a variant
operator defined next to the one it replaces, modelling a plausible
slip. Each mutant makes its run fail.

## Findings

- Node4/16 insert never appends.
- Node4/16 remove leaves holes.
- Node48 remove leaves stale indices.
- Node256 never maintains `len`.
- `Node48::from(Node256)` copies a stale `len`.
- `extend`/`shrink` mistag the handle.
- Lookup fails for every key of two or more bytes.
- Insert refuses keys that share a first encoded byte with a stored key. Since keys are UTF-8, that includes any two non-ASCII chars with the same lead byte.

Each has a violation run above, and `PROJECT.json` lists them with their
lines. Inserting the empty key also panics (line 1022). `InsertPanicsOnlyOnEmptyKey`
shows it is the only key that makes insert panic. It is a hazard rather
than a finding, because the spec does not say whether `""` is a valid
key.

## Not modelled, and why

- **The split branch of insert and path compression.** They are
  unreachable from `ART::new`, because no header ever gets a non-zero
  length. `prefix_match` is modelled and checked (`PrefixMatch`). The split
  is not, and its defects are not listed as hazards, since no sequence of
  public calls reaches them. They would be:
  - `clone_from_slice` panics unless `prefix_len` is 12;
  - the children are inserted through a pointer to a moved-from local;
  - the Node4 it inserts into rejects every insert.
  The `map` entry of `ART.Insert` names lines 989-1028 only: the split
  (1029-1061) is not translated.
- **Headers longer than the buffer, and keys shorter than the path.**
  `PrefixMatch` models both, giving out-of-buffer reads every possible
  byte. `PrefixMatchNeverFalseOk` checks that neither case yields Ok.
  `PrefixMatchAgrees` excludes both cases:
  - spec 4.1 does not say what a key shorter than the path gets;
  - for a long header, the code's answer is undefined behaviour or a
    panic, on a path no reachable tree has.
  They are listed as hazards.
- **`remove` of the engine.** It is todo!(), modelled as a panic.
- **What the passing node invariants cannot see.** `KeysSorted` and
  `OccupancyMatches` hold although Node4/16 insert refuses and remove
  leaves holes, and although Node48 indices go stale: a refused insert
  keeps the order, a hole nulls a child but keeps the keys sorted, and a
  stale index still counts as one entry. `ConversionOfConsistentNode`
  reads through the same stale index the conversion uses. Those defects
  are shown by the violation runs (`node16_map`, `node48_map`,
  `resize_holes`, `resize_root`), and `PROJECT.json` lists the hazards
  only against properties that catch them.
- **Memory ownership.** `Box::into_raw`, `ptr::read` without a free, and
  the missing `Drop` are left out. Handles are values in the model.
- **The `Debug` impls.** Formatting is left out:
  - `NodeHeader`'s derived `Debug` prints the uninitialised prefix;
  - after a remove, Node4/16 `Debug` dereferences the null handle that the
    hole leaves.
  Both are listed as hazards.
- **Tests.** The test harness (`src/tests/map.rs`) and the AVL tests are
  left out.

## Plan

Done so far:
- the node shapes and their conversions;
- the tagged handle;
- the reachable engine;
- `prefix_match`;
- `String::encode`, so the engine's runs use Strings with one- and
  two-byte chars. `Utf8` also encodes 3- and 4-byte chars, as the
  conversion does; no run uses them, since they only add more shared
  lead bytes of the kind `é`/`è` already show.

What is left of the code is reachable only through a tree with a
compressed path, and no sequence of public calls builds one:
- the insert split;
- `get_any_child`;
- the lazy prefix loop.

Modelling them would mean starting from states the program cannot be in.
The remaining work is therefore:
1. If a run slot frees up, add a violation run of spec 8's prefix
   correctness (a path longer than the buffer) on `PrefixMatch`.
2. Track the source. If `remove`, `get_any_child` or a fix to Node4
   insert lands, model the new code and the split it makes reachable.
