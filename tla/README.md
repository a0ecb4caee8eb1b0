# A TLA+ development of EverCBOR

EverParse is a collection of verified parsers and the tools that produce them.
The part of it that runs in a product, and that has state to go wrong, is the
library for deterministic CBOR (RFC 8949, section 4.2) together with the code
that the CDDL compiler generates on top of it. The library is extracted from
Pulse to Rust (`src/src/cbor/pulse/det/rust`) and to C; the generated code of the
COSE formats is in `src/src/cose/rust`. A second library, for CBOR that need not be
deterministic, is extracted from the same source; it is modelled where it is not the
same. These modules model the Rust that is
built, statement group by statement group, not the F\* it comes from.

Source files, with the short names used below:

| name | file |
|---|---|
| AUX | `src/src/cbor/pulse/det/rust/src/cbordetveraux.rs` |
| VER | `src/src/cbor/pulse/det/rust/src/cbordetver.rs` |
| API | `src/src/cbor/pulse/det/rust/src/cbordet.rs` |
| COSE | `src/src/cose/rust/src/coseformat.rs` |
| NONDET | `src/src/cbor/pulse/nondet/rust/src/cbornondetveraux.rs` |
| SIGN | `src/src/cose/rust/src/commonpulse.rs`; its module `ed25519` is in `lib.rs` beside it |

## 1. Inventory

### 1.1 The parts and their state

| part | where | state it keeps while it runs | operations |
|---|---|---|---|
| header reader and validator | AUX 60–160, 439–792 | none; offsets into a borrowed slice | `read_header`, `validate_header`, `jump_header` |
| validator | AUX 793–1185, 1362–1882 | a slice or offset, a counter of items expected, a flag; for the key order a second slice and a counter of pairs | `validate_raw_data_item`, `jump_raw_data_item`, `cbor_validate_det`, `cbor_raw_sorted` |
| UTF-8 check | AUX 161–236 | offset, flag | `impl_correct` |
| comparison of bytes | AUX 390–437 | two offsets and the result of the last bytes | `lex_compare_bytes` |
| objects | AUX 237–385, 1203–1361, VER 9–372 | tagged unions: slices of objects in memory, or a header with the slice that holds the encoding | `cbor_read`, constructors `cbor_det_mk_*` |
| sizer and serializer | AUX 2649–4022, VER 53–80, 550–575 | recursion over an object, a cell with the room left, an output offset | `cbor_det_size`, `cbor_det_serialize`, `cbor_det_serialize_array/_map/_string/_tag` |
| in-place rotation | AUX, in five functions | three cells of a cycle-leader loop, a Euclidean loop | inlined |
| map insertion | AUX 1919–2048 | an offset into a half-built map, a three-valued result | `cbor_det_serialize_map_insert` |
| sort | AUX 4705–4848, VER 214–253 | recursion stack, two cells per merge, the caller's slice | `cbor_raw_sort`, `cbor_det_mk_map` |
| comparison of objects | AUX 4023–4702 | recursion stack with a pair of iterators per call | `cbor_compare_with_depth`, `cbor_det_equal` |
| iterators, index and lookup | AUX 2049–2647, VER 373–548 | an iterator (slice of objects, or encoding with a count), result, flag; for the index a count and a rest | `array_iterator_*`, `map_iterator_*`, `cbor_det_get_array_item`, `cbor_det_map_get` |
| generated serializers | COSE | count of entries and size so far, in cells that are updated when an entry is in | `serialize_*` |
| generated validators and parsers | COSE | a cell with the number of entries that nothing has matched; for arrays an iterator | `validate_*`, `parse_*`, `validate_and_parse_*` |
| generated iterators over arrays and maps | COSE 6679–6827 and the like | an iterator over the library's array or map, with the validators and parsers of what it yields | `is_empty_iterate_*`, `next_iterate_*` |
| unordered comparison | NONDET 4231–4611, 5692–5875, 6423–6744 | mutual recursion over items and maps; per map the two lists, two counts, the option of a verdict; a bound on the nesting | `impl_check_equiv_list_basic`, `impl_check_equiv_map_hd_basic`, `cbor_nondet_equiv` |
| validator of distinct keys | NONDET 3347–3510, 5876–6297 | a count of items; for each map a list of pairs and a second one of those behind a key; depth walks | `cbor_nondet_validate` |
| signing | SIGN | a buffer for the text that is signed | `sign1`, `sign1_simple`, `verify1`, `verify1_simple` |
| maps with distinct keys | NONDET 6745–7149 | two indices over the caller's slice; an iterator and a result | `cbor_nondet_mk_map`, `cbor_nondet_map_get` |

### 1.2 How they interact

Everything is a sequence of synchronous calls in one thread; there is no lock, no
callback into the caller and no persistent state. What couples the parts is *data
that one call leaves behind and the next one trusts*:

    bytes --cbor_validate_det--> "validated" --jump / read / iterate--> objects
                                                                    |
       objects built by the caller --mk_map: sort--> "sorted"       |
                                          |                         v
                                          +------> compare, map_get, size --> serialize --> bytes
       generated code: serialize key, value --> map_insert ... --> serialize_map --> bytes

* After validation no reader checks a bound: `jump_raw_data_item`, `cbor_read` and
  the iterators rely on what the first pass of the validator accepted.
* The validator's own second and third pass rely on the first.
* The pass that writes an object checks no bound: it relies on the pass that sized it.
* `cbor_det_map_get` stops at the first greater key: it relies on the key order
  that the validator checks, `mk_map` makes and `map_insert` keeps, and on those
  three and `compare` meaning the same order.
* A parser tests nothing that its validator has tested, and an iterator over the
  entries that no member of a map took relies on the validator's verdict and on its
  own `is_empty`.
* A parser of an array validates each part again, for where it ends, and the elements
  of an array of any length are validated and parsed when the caller comes to them.
* In the nondeterministic library, a key's form (the widths of its lengths, the order of
  the maps in it) has no meaning: the validator's verdict on keys, the construction
  of a map and the lookup all rest on one equivalence, which has a bound at which it
  gives up.
* The signing tool signs bytes that are in no message: signer and verifier each serialize
  them, one from its values and one from the values it parsed.
* The buffer that a map is built in is rearranged in place, while the generated
  code knows of it only a count and a size.

### 1.3 What is hard, and what makes each part correct

The code has no concurrency, and neither crashes nor messages. Its hard behaviours
are loops with two or three cursors whose relation no test states, unchecked reads
that are justified by an earlier pass, additions and subtractions of `usize`
values that come out of the input, recursion, failures in the middle of an update
in place, and the agreement of several traversals of one structure. For each part:

* *validator*: returns the length of the deterministic item at the start of the
  buffer, or 0, for every buffer; no counter wraps; no unchecked pass leaves the
  validated part; it returns.
* *UTF-8 and byte comparison*: decide the RFC's definition and the lexicographic
  order; never read past an end.
* *rotation*: is a rotation, loses nothing, ends.
* *sort*: result sorted, or a duplicate is reported; entries never lost, on failure
  neither; stack logarithmic.
* *map insertion and builder*: between two calls the buffer holds exactly the
  entries inserted, in key order; failures leave them; the result is one
  deterministic item.
* *comparison*: the byte order of the encodings, whatever form the objects have.
* *serializer*: writes exactly what was sized; what it writes the validator accepts
  and reads back; bottom-up and top-down writers agree.
* *lookup*: finds the value if and only if the key is there. *Arrays*: an index and an
  iterator, truncated or not, reach the same elements.
* *generated types*: accept what the CDDL says; a value that is sent is received as
  the same value.
* *generated maps*: the validator, which counts entries down and never looks for those
  that nothing matched, accepts what the CDDL says; members and table take every
  entry once; the table's iterator never runs past the map.
* *generated arrays*: what is parsed for each part are the items that the validator took
  for it, choices and repetitions included; an iterator yields each element once.
* *signing*: a message is verified if and only if it was signed, with the same key and
  additional data; what the signer had room for, the verifier has room for.
* *nondeterministic library*: the comparison decides whether two items mean the same, in
  both directions of the search, or gives up beyond the bound; the validator accepts
  exactly distinct keys; the lookup goes by meaning; the bound limits the recursion.

`PROJECT.json` lists each hazard with the line at which it bites and the properties
that would catch it; every one of them has such a property.

## 2. Modules

    CborItem <- CborGrammar <- CborValidate
     ^  ^ ^          ^- CborMeaning, CborGrammar_proofs
     |  | |             CborValidate, ByteLoops, CborGrammar_proofs <- CborValidate_proofs
     |  | +---- ByteLoops
     |  +-------------+
    Slices <- Rotation|
       ^  <- Juggling |   <- Juggling_proofs   (implements Rotation)
       |  <- CborSort |   <- CborSort_proofs
       +-- CborWrite -+
              ^  <- MapBuilder (with CborGrammar)
              |     MapBuilder, CborGrammar_proofs <- MapBuilder_proofs
              +-- CborValue <- CborCompare, CborSerialize, NondetMap,
                               CborReaders (with CborGrammar)
                    CborReaders, CborGrammar_proofs <- CborReaders_proofs

    CborItem <- NondetEquiv <- NondetValidate
                     ^- NondetEquiv_proofs

    CborEncoding <- CoseTypes <- CddlCodec
    CddlFormat <- CoseTypes, CddlMap <- CddlMap_proofs; CoseSign1
    CddlGroup <- CddlArray, CoseSign1

    reference definitions:  CborGrammar, CborMeaning, CborEncoding
    for TLC only:           CborMeaning, CborEncoding, MC*

`A <- B` reads "B extends or instantiates A".

| module | models | how |
|---|---|---|
| `CborItem` | initial byte, long argument, `validate_header`, `jump_header`, the counts of items behind a header; one header with a string payload; one round of the UTF-8 scan; `jump_raw_data_item`; the byte order | operators on a byte sequence and an offset, `ok` and the offset where the code has a flag and `*poffset`; recursive functions, no `RECURSIVE` |
| `ByteLoops` | `lex_compare_bytes` and the UTF-8 scan `impl_correct` | two state machines, with the cells of the loops; the other modules use the order and the verdict they compute |
| `CborValidate` | `cbor_validate_det` | three passes; one action per way through an iteration |
| `Slices` | `copy_from_slice` and the effect of a rotation | operators |
| `Rotation` | what a rotation promises | abstract specification, one step |
| `Juggling` | the rotation loops | the Euclidean loop and the cycle-leader loop with their cells |
| `CborSort` | `cbor_raw_sort` | explicit stack; a frame is the sub-slice with the cells of its merge |
| `CborWrite` | `write_header`, `size_header`, the writers that prepend a header | operators from (buffer, offset) to (buffer, result) |
| `MapBuilder` | `cbor_raw_map_insert` and the generated map serializers that call it | the search loop as actions of its caller's specification; keys and values in any order |
| `CborValue` | objects, constructors, `cbor_read`, iterators | records |
| `CborCompare` | `cbor_compare_with_depth` | explicit stack with pairs of iterators |
| `CborSerialize` | `cbor_size`, `cbor_serialize` | two passes with a worklist of the objects the loops have still to reach |
| `CborReaders` | array and map iterators, `truncate`, `cbor_det_get_array_item`, `cbor_det_map_get` | an iterator used in any way, then a walk by index or a lookup, on the same object; what the object holds is what the grammar finds in it |
| `NondetEquiv` | `impl_check_equiv_list_basic` and `impl_check_equiv_map_hd_basic` | explicit stack, alternating frames for items and for maps; verdicts are options |
| `NondetValidate` | `cbor_validate_nondet` behind its first pass, with the depth check | the loop over items, the two loops over keys; a comparison is the state machine of `NondetEquiv` |
| `NondetMap` | `cbor_nondet_equiv_with_depth`, `cbor_nondet_mk_map`, `cbor_nondet_map_get` | the comparison an operator, recursive over objects in memory, encoded parts by the constant `EquivList`; the two loops over the keys, the search |
| `CoseTypes` | the `validate_`, `parse_` and `serialize_` functions of types; the types of COSE that are no map or group; `header_map`, `cose_key_generic`, `cose_key_okp` | a type is a record, the functions recurse on it where the generated text repeats itself; one definition per type, with the generated name; of a map the members, alternatives, entries, cuts, in the order of the generated code |
| `CddlCodec` | a user of one type: `validate_and_parse_`, `serialize_` | receive or make a value, send it, receive it again |
| `CddlFormat` | the parts of a map that the CDDL has words for: entries, optional or not, with a cut or not, members, alternatives; one entry of a map in validator and parser, the constraint on the entries of the table | records, and operators on them; a type is the set of the objects its validator accepts |
| `CddlMap` | `validate_`, `parse_` of a map and the iterator over its table | the cell `remaining`, the two iterators; one action per outcome of an entry |
| `CddlGroup` | the generated functions of arrays: items, groups one behind the other, choices, one or more | a group is a record; a validator maps the iterator to a verdict and the iterator it leaves, on failure too; a parser validates ahead and truncates; `sig_structure`, `cose_sign1`, `cose_signature`, `cose_sign`, `cose_keyset` and the two tagged ones, in the nesting of the generated code, over leaves that are names |
| `CddlArray` | `validate_and_parse_`, `next_iterate_array_`, `serialize_` of an array | receive or make a value, read elements, send, receive again |
| `CoseSign1` | `sign1`, `verify1` and the two simple forms, `sign` and `verify` of the module `ed25519` | the calls that returned, with their messages, and the one that ended the program: a call returns, aborts or panics; composes `serialize_`, `validate_` and `parse_` of `cose_sign1_tagged` and `sig_structure`, and of the header map inside, which is parsed into members and an iterator over its table and serialized again; only the crate `ed25519_dalek` is external: a signature is a record of key and text |
| `CborGrammar` | — | RFC 8949 as a recursive grammar: `ValidLength`, `DetLength`, by a recursive function of a place and a number of items |
| `CborMeaning` | — | what an item means when maps are sets and widths do not matter; the depth of its maps |
| `CborEncoding` | — | the recursive encoding of an object, its nesting depth in memory |

Two modelling decisions hold throughout.

*Widths.* `Size(x)` is `x % (SizeMax + 1)`: every sum, difference and conversion
that the code does in `usize` goes through it, and `SizeMax` is a constant. 64-bit
arguments are taken from two bytes upwards as they are and saturate at two marks,
`Big32` for 2^30 .. 2^32 − 1 and `Big64` for 2^32 and above: no buffer of the model
has that many bytes, so the code can only find them too large, of which width they
are, and that they do not fit.

*Slices.* A slice is a pair of offsets or a sequence, as is closer to the code at
that place. Splitting and joining a slice does not appear as a step.

Comparisons of objects are taken as one step where another module models them as
steps: `CborSort` uses the order that `CborCompare` computes, `CborReaders` that order as
`CborCompare` is shown to compute it, the byte order of the encodings, as
`CborValidate` and `MapBuilder` use the byte order that `ByteLoops` computes
and the three users of a rotation the one that `Juggling` implements. `NondetValidate`
takes its comparisons step by step from `NondetEquiv`; `NondetMap` has those of encoded
parts as a table, by the meaning that the run `nondet` shows the comparison to decide. In `CddlGroup` a member of
an array is a leaf with a set of names that its validator accepts: what leaves do is
the matter of `CoseTypes` and `CddlMap`. The one leaf that has a structure is the protected
header in `CoseSign1`: what is signed and verified is what the code makes of it.

In front of an action or operator stands sometimes a second one with a comment
"Fault": the form it would have with a plausible bug. They are not part of any
specification; they serve to see that a property would notice.

## 3. Model checking

Every run is of one call, from each of the states a caller can start it in, except
`map_builder`, `readers`, `cddl_type`, `cddl_map` and `cddl_array`, which are of
sequences of calls. `CHECK_DEADLOCK` is off because every behaviour ends with the
return of the call; that it gets there is a `<>` property wherever a loop could fail to
(section 4).

Five runs hold two machines that have nothing to say to each other but belong to one
question: the initial state chooses one, and the other stands still. `byte_loops` has the
two loops over bytes, `validate` a `usize` of eight bits and one of three, `sort` the
sort and the rotation that it takes as one step, `nondet` the comparison called by a user
and called by the validator, `cddl_array` the arrays and the signing tool that is built
from them.

| run | inputs and bounds | states | what it shows |
|---|---|---|---|
| `byte_loops` | all pairs of strings of ≤ 4 bytes over 3 values; strings up to 4 bytes: all of length ≤ 2 over the 24 bytes at the ends of the ranges the scan compares with, and combinations of 3 and 4 | 50,119 | the comparison reads in bounds and returns the lexicographic order; the scan accepts exactly the encodings of code points of RFC 3629 in shortest form |
| `validate` | all sequences of ≤ 3 of 33 heads and short items (every major type, shortest form and not, truncated, huge counts); all maps of 2 and 3 pairs over 9 keys; with a `usize` of 3 bits, buffers of ≤ 7 bytes | 394,415 | result against the grammar; passes end together; unchecked passes in bounds; the call returns. With 3 bits, announced counts and their doubles do wrap if a bound is left out, and with the code's bounds do not |
| `sort` | every array of ≤ 6 entries with equal keys and without; rotations of every length ≤ 16 and every shift | 150,230 | order, duplicates, nothing lost, stack; the loops implement `Rotation` |
| `map_builder` | 6 keys of 1–3 bytes, one-byte and three-byte values, an entry excluded from a table, buffers of 0, 5, 9, 16 bytes, count limit 4 | 23,594 | the buffer between calls; the result; reasons of failure |
| `compare` | leaves at the thresholds of the widths, arrays, maps and tags of depth 1 and 2, in memory, read, and mixed; all pairs | 136,989 | byte order of the encodings; stack |
| `serialize` | the same kinds of objects, a string and an array of 24; 12 capacities from 0 to 40 | 69,742 | sizing = writing = encoding; reads back; bottom-up writers |
| `readers` | all arrays of ≤ 3 of 5 elements of different lengths and all maps of ≤ 3 of 5 keys, in memory and read; truncation at every length at any time; indices 0–3, `SizeMax` and above, `Big64`; 10 keys to look for, in both forms | 53,671 | iterators and index yield the elements in order; the lookup finds exactly what is there |
| `nondet` | every pair of 64 runs: atoms in two widths, arrays, tags, maps of one and two entries in either order, maps in keys, values, arrays and tags, three maps deep; the validator on maps of ≤ 3 pairs over keys with and without maps, at the top, in an array, a tag, a key and a value, strict and not; no bound and 0, 1, 2 | 373,697 | the verdict against the meaning; the recursion; the validator accepts distinct keys, in strict mode within the bound |
| `nondet_map` | keys of 15 meanings in one to three encodings, read and made in memory; maps made of 0, 2 and 3 entries, parsed of 1 and 2 | 49,319 | built when keys differ in meaning; lookup by meaning |
| `cddl_type` | every generated type; items of every major type, tagged with each tag that is used, arrays of ≤ 2, with bytes behind them, cut short, not in shortest form; values of callers, text that is not UTF-8 too; 7 capacities | 48,327 | what is accepted is what the CDDL says; what is sent is what was received; values survive |
| `cddl_map` | three formats; maps of ≤ 3 of 11 keys (the members', one of the table, one that is no label) with 4 values, and an object that is no map | 289,464 | the counter; the verdict against the text of the CDDL; the iterator over the table; every entry parsed once |
| `cddl_array` | seven array types; sequences of ≤ 4 of 6 leaves, five items for a `sig_structure`, ≤ 5 keys, ≤ 2 signatures of 6 objects; the right tag and a wrong one; values with slices of 0 to 2 made by a caller, byte strings that are not empty where they must be; 6 sizes of the room; a count limit of 5. Signing: up to two messages signed, with two payloads, two additional data, two unprotected headers, two sizes of the caller's buffer; or one that another program signed, with any header of ≤ 3 of 7 keys and 3 values; keys of 31, 32 and 64 bytes, public keys of small order and that are no point; then one verification, or a call that ends the program | 140,656 | received if and only if the CDDL has it; elements read in order, each once; sent completely or not at all; received back as sent; verified if and only if signed |

*Why the bounds are enough.* The loops are controlled by a comparison of neighbours:
a header and the one behind it, a key and the next, an element and its place. The
inputs contain every pair of neighbours of the interesting kinds and, for what
needs three (a map inside a map followed by a pair; a merge in which both halves
are longer than one; a cycle that is neither first nor last), enough elements: three
items, six entries, sixteen places (gcds up to 8). Width thresholds are met on both
sides. Buffers are of every relation to what is written: empty, too small for a
key, for a value, for the header, exact, larger. The widths of `usize` are met with
a `SizeMax` that the inputs reach, in the second machine of `validate`; elsewhere it is above all
sums, as a 64-bit `usize` is.

*Reference definitions.* `CborGrammar` says what a deterministic item is, top down,
with recursion on the structure where the code has flat loops over headers, and
without passes. `CborEncoding` encodes an object by recursion. Neither is translated
from the code; they use `CborItem`'s and `CborWrite`'s reading and writing of one
header, which the runs `serialize` and `map_builder` check against each other.
For the generated code the reference is `src/src/cose/cose-sign.cddl`: in
`MCCddlCodec` a type is a set of encodings, in `MCCddlMap` the three formats are
predicates on maps, without members, cuts or counters, in `MCCddlArray` the seven
arrays are predicates on sequences by position, without iterators or going back, and
the object of a value is built from the value alone; for `CoseSign1` it
is the `Sig_structure` of RFC 9052, 4.4. For the nondeterministic library
`CborMeaning` turns an item into a value of TLA+, a map into a set of pairs, and
compares with `=`.

*The generated maps.* `MCCddlMap` numbers the objects and turns the formats of
`CoseTypes` into formats over sets of numbers with `Validate`, the function that
`cddl_type` checks. A key that is 4, 5 or 6 is a member in one format and an entry
of the table in another, and each of the 4 values is right for some members and wrong
for others; so the same maps reach a member that matches, one that does not and is left
to the table, and one that does not and has a cut. Three entries are needed: to count an
entry twice and have another one pass unseen takes two, and a choice has two entries
next to those.

*The generated arrays.* The leaves are chosen so that alternatives overlap: an empty byte
string is a protected header and an `external_aad`, a serialized header map is a byte
string too, and a `sig_structure` of four items fails in its first alternative after
two of them were taken. The count limit of 5 stands for 2^64 − 1 and is met by a
`cose_keyset` with five keys; the sum of the sizes is met exactly, one below
and above.

*The signatures.* A header, a payload, additional data and a signature are leaves of
`CddlGroup` with further fields that tell two of them apart, and with sizes: a
`Sig_structure` has no room for the longer payload together with the longer additional data,
nor for some of the headers, and fits exactly with others; each of the caller's buffers fits
some message exactly and is too small for another. The verifier is given the messages that
were signed, these before other bytes and without their tag, and every message put together
from a header (the signer's, an empty one, one with another algorithm), a payload or nil,
and a signature of a signed message or one of another length; with the right key and
additional data and with others. A second message must have been signed for a signature of
one to stand in the other. Verification changes nothing, so one is enough.

A signer of this library writes one header only. What the verifier makes of a header shows
on messages of other programs, which it is given before any call of `sign1`: their headers
are all the maps of up to three of the keys 1 to 7 with three kinds of values that
`header_map` accepts; a value that is not of its parameter's type is left to the table. A
signature is of the header as it was sent; it verifies only if what the verifier parses and
serializes again is the same. The property says so without parser or serializer: the text
that was signed is the `Sig_structure` of RFC 9052 over the parts of the message.

A key is a slice of any length. One that is not of 32 bytes makes the `unwrap` of `lib.rs`
panic, in `sign1` and `verify1` alike, and is modelled so; so is the public key whose bytes
are no point of the curve, for which the result is `false`. `abort` and a panic end the
program. The model assumes of `ed25519_dalek` that a signature verifies for the key pair and
the text that it was made with and for no other, except that the signature of a key of small
order is valid for any text, and that `verify_strict` refuses such a key. Every sound public
key belongs to one private key.

*The unordered comparison.* Two entries are needed for order to matter and for an entry
to be found twice, a map in a key for the search to recurse, one in a value for the
recursion to take its other branch, and three nested for a bound of 2 to be exceeded in
the middle of either. The tables of meanings are computed once, for inputs, not in
each state.

*Widths of headers.* The sizer and the writer of a header have a definition of the width
each, as the code has (`SizeWidth`, `ArgumentWidth`); a threshold on which they differ breaks
`WritesWhatWasSized`. `SizerWidth` in `MapBuilder_proofs` shows that they agree for the headers of maps.

*Each property is broken by a fault.* `PROJECT.json` names for each property of each
run a definition and a faulty form of it under which TLC finds the property violated.

## 4. Fairness

All specifications have weak fairness of `Next` and nothing stronger, except those of
`CborReaders`, `nondet_map` and `cddl_array`, which are about safety only and have none, and
`Rotation`, an abstract specification, which asks for `<>rotated` itself. The code is called and
runs to its return on the caller's thread; it waits for nothing. Weak fairness of the
whole step says just that: as long as the function has a next statement, it is
executed. The liveness properties are therefore about the loops: that none turns
forever (`Returns`, `InsertionReturns`), or that the call returns *and*
returns the right thing (`DecidesUtf8`, `SortDecidesDuplicates`, `ComparesEncodings`,
`SerializesIfItFits`, `ValidatesCddl`, `ParsesEveryEntryOnce`, `EquivDecidesMeaning`,
`AcceptsDistinctKeys`, `ImplementsRotation`, in which the rotation must happen). In
`MapBuilder`, where the generated code decides what to insert next, the property is that each
insertion returns, not that the builder is ever finished.

## 5. Proofs

Checked by TLAPS from nothing but the assumptions on the constants
(`SizeAssumption`: 0 < `SizeMax` < 2^30, since the model has every argument from 2^30
upwards saturated; `InputsAssumption` of
`CborValidate`: inputs are byte sequences no longer than `SizeMax`; those of the other
modules are given below):

| theorem | in | says |
|---|---|---|
| `ValidateReturnsDetLength` | `CborValidate_proofs` | `Spec => []ReturnsDetLength`: for every input and every `SizeMax`, what `cbor_validate_det` returns is the length of the deterministic item that the recursive grammar finds at the start of the buffer, 0 if there is none |
| `ValidateRawPassDecidesValidity` | `CborValidate_proofs` | `Spec => []RawPassDecidesValidity`: the first pass alone finds the length of the item that the grammar finds, whatever its form |
| `ValidateKeysStayInBuffer` | `CborValidate_proofs` | `Spec => []KeysStayInBuffer`: the loop over the keys of a map, which jumps over whole items unchecked, never leaves what the first pass validated |
| `ValidateStaysInBuffer` | `CborValidate_proofs` | `Spec => []CountsStayInBuffer`: no count wraps and no slice is cut outside of the buffer, in the unchecked passes either |
| `ValidatePassesEndTogether` | `CborValidate_proofs` | `Spec => []PassesEndTogether`: the unchecked passes end exactly where the checked one ended |
| `ValidateTypeOK` | `CborValidate_proofs` | `Spec => []TypeOK`: every cell keeps its range |
| `LexCompareInBounds` | `CborValidate_proofs` | both strings are read in bounds although the loop tests the length of one only |
| `LexCompareCorrect` | `CborValidate_proofs` | the result is the sign of the lexicographic order |
| `Utf8ScanDecides` | `CborValidate_proofs` | for every text, a scan that has ended returns true if and only if the text is well-formed UTF-8, and so does `Utf8Correct`, which stands for the scan in `CborValidate`: the safety part of `DecidesUtf8` |
| `RecursionBounded` | `NondetEquiv_proofs` | for every buffer, call and bound `b` the unordered comparison has at most `2b + 1` frames on its stack, so what was received cannot deepen it |
| `LoopsRotate` | `Juggling_proofs` | for every length and shift, the loops of the rotation, seen from outside, turn the slice in one step as `Rotation` says: the safety part of `ImplementsRotation` |
| `SortKeepsParts` | `CborSort_proofs` | `Spec => []SortedParts`: for every input, what is sorted stays sorted at every depth, and a merge has its cursors between ordered parts |
| `SortLosesNothing` | `CborSort_proofs` | `Spec => []NothingLost`: the slice always holds the caller's entries, also when the sort gives up |
| `SortIsLogarithmic` | `CborSort_proofs` | `Spec => []StackIsLogarithmic`: a stack of *d* > 1 frames needs a slice of more than 2^(*d* − 2) entries |
| `SortResult` | `CborSort_proofs` | a sort that has returned true has put the slice in key order; it has returned false if and only if two entries have one key |
| `RemainingCountsUnclaimed` | `CddlMap_proofs` | `Spec => []RemainingIsUnclaimed`: for every format whose members share no keys and every map without repeated keys, the counter of the generated validator is the number of entries that nobody has claimed |
| `IteratorStaysInMap` | `CddlMap_proofs` | `Spec => []NextStaysInMap`: the iterator over the table, which does not test for the end, is never asked there |
| `StayInOrder` | `MapBuilder_proofs` | `Spec => []EntriesStayInOrder`: for every set of keys and values and every buffer, the bytes that the generated code counts as its map are the entries inserted, in key order, without a gap, after a failure too |
| `CursorPlace` | `MapBuilder_proofs` | `Spec => []CursorIsBehindSmallerKeys`: the search for the place of a new entry, which jumps unchecked, is always at the start of an entry, behind those with smaller keys and no other |
| `GivesUp` | `MapBuilder_proofs` | `Spec => []GivesUpForAReason`: a failure has one of the four reasons there may be |
| `BuiltMaps` | `MapBuilder_proofs` | `Spec => []BuiltMapIsDeterministic`: what is built is, to the byte, one item that the grammar accepts, with the entries in key order behind its header |
| `ReadersInOrder` | `CborReaders_proofs` | `Spec => []ElementsAreReadInOrder`: for every array and map, in memory or in a validated buffer, an iterator yields the entries up to the last truncation in order, each once, and the access by any 64-bit index the element that the iterator has there, or `None` |
| `LookupFinds` | `CborReaders_proofs` | `Spec => []FindsTheValue`: for every map with its keys in order and every key, the lookup finds the value of the key if the map has it, and nothing if not, although it gives up at a greater key |
| `NothingIsLost` | `CddlMap_proofs` | the safety part of `ParsesEveryEntryOnce`: in a map that the validator accepts, parsed members and table are the entries of the map, none twice |

*The grammar.* `Ends(s, short, sorted)` is a recursive function: at a place ⟨offset, k⟩ it has
the offset behind the *k* items there, or `Bad`. It recurses inside an item (a map asks
for the end of its pairs) and along a row. That such a function exists at all, and has its
equation, is `EndsUnfold`: places are ordered by the bytes behind them and then by *k*,
and two sets of naturals are shown to hold every number (`Induction`, from the library's
`WFMin`: the set is a plain constant of the lemma, so no operator has to be
instantiated). Rows fit (`RowBytes`: each item has a byte of its own, so *k* items need *k*
bytes) and add up (`EndsAdd`: the row of *k + m* items is the row of *m* where *k* end). From
that comes `LeafStep`, the heart of it: reading one header with its payload, and then
treating what the header announces as further items *of the same row*, changes nothing
about where the row ends. That is why a flat count can decide what a recursive
descent says. `JumpIsEnd` says the same of the unchecked jump over an item, by another
induction; `EndsWeaker` that what one grammar accepts a weaker one accepts with the
same end.

*The argument for the validator.* None of its properties is inductive: in the second pass the
code has forgotten how the first one got through the buffer. `IInv` says of each pass
that it `Decides` a grammar: as long as it has found no fault, the row of `n` items at
`off` ends where the whole item does; when it has found one, there is no item. The
first pass is about the grammar of valid items (`Weak`), the second asks for shortest
arguments too (`Short`), the third for sorted keys too (`Strict`). A later pass is
moreover on a row of `Weak` that ends at `len` (`ValidInv`), which is what gives each
item it still expects a byte before `len` and makes its unchecked reads safe. In the loop over
keys `OnKey` says which key and which value the cells are at, in terms of the
grammar's ends, and that the keys so far ascend; there `JumpIsEnd` applies. Where
the bounds of the code are used is the first pass: `RawTest` and `AcceptedCountFits` show that
a count which it accepts is not changed by the conversions to `usize`, the doubling for
a map included, and that one it refuses has no item in the grammar, because more
items are announced than bytes are left. The theorems hold for every set of byte sequences
that fit a `usize`, and for every `SizeMax`.

*The argument for the comparison.* Until a difference is found the strings agree up to
the cursors, and the cursors are equal; when the loop tests again both or neither
string may have ended, because the last test recorded which.

*The argument for the scan.* The code compares bytes with the borders of ranges; `WellFormed`
asks of the bits behind the prefixes which scalar value they spell. `CharacterBytes` and the
three lemmas behind it show, for each length of a character, that the two tests agree, the
shortest form, the surrogates and 10FFFF included, so that the scan goes on by *k* bytes exactly
where *k* bytes are a character (`NextIsCharacter`). Both recursive definitions are functions
that tell of every offset whether the end can be reached from it (`GetsThrough`), such a function
exists (`ForwardFunction`) and there is one only (`ScansAgree`). The invariant is that what it says
of the start it says of the index, as long as no fault is found.

*The argument for the recursion.* `RecursionIsBounded` speaks of the height of the stack
only. What keeps it is what each frame carries: `IInv` says that the frame at depth *i* has
the bound less *i* div 2, that this is not negative (`Level`), and that the code is in the
items of a list frame at odd depths and in the entries of a map frame at even ones
(`Depths`). Entering a map is the only step that lowers the bound, and is guarded by its not
being zero; comparing key and value pushes a list frame with the same bound. The proof needs
nothing about bytes: it holds for any buffer, even one that was not validated. It rests on
`BoundsAssumption`: a bound is `None` or a natural number. Without a bound (`None`) nothing
is claimed: a comment in `src/src/cbor/pulse/nondet/rust/src/cbornondet.rs` (31–34) promises
that `cbor_nondet_parse` uses constant stack space; that is so with `map_key_bound` given,
while with `None` only the nesting of what was received bounds the recursion, which
`RecursionIsBounded` excludes in its text.

*The argument for the rotation.* `ImplementsRotation` refines `Rotation`, and `LoopsRotate` is
that refinement without the liveness: the initial states map to initial states, and only
the step that ends the loops maps to more than a stutter. It needs to know why the code
may stop after `pn` cycles of `len / pn` moves. Euclid's loop keeps what its two numbers
combine to (`CombinesDivided`, `CombinesRest`), so that it ends with a divisor *e* of the
length *n* and the shift *s* that is itself *x·n + y·s*. `On(n, s, i, t, p)` says that *p* is the
*t*-th offset of the cycle from *i*. All of a cycle leave the rest *i* modulo *e* (`OnRest`), no
offset comes back before *n / e* of them (`OnDiffers`, which is where *e = x·n + y·s* is
needed), the next one after these is the first (`OnCloses`), and no offset with that rest is
left out (`OnCovers`). So the invariant can say of every moment which elements are
in their new places: those whose rest is below `pi`, and of the cycle at hand the first `pj`;
every other offset still has its own element, which is why a move never takes one
that has been overwritten, except for the first of the cycle, which `save` has.

*The argument for the sort.* `SortedParts` is not inductive: a frame that is returned to has
to know what the call below it did. `IInv` adds four things. The frames are nested, and
all but one that has just been called have two entries or more, so that the two halves of
a frame differ and the code after a call is known from the border of the part that
returns (`Nested`). A call that has returned has sorted its half (`Returned`). A merge has
its cursors in order, between three ordered parts, and what it has taken is below
what is left (`Merge`). The slice has the entries of the caller's, each at one place (`Same`):
that is why two equal keys at different cursors are two entries of the caller, and `FALSE`
is never returned for one entry that was met twice. The one step that moves
entries is a rotation of one entry to the front; `RotatedByOne` says what is where
afterwards, `RotationKeepsEntries` and `RotationKeepsOrder` what that keeps, and
`ReplaceKeepsIInv` that a change inside the part on top disturbs none of the first halves
below it, since they end where it begins. A stack of *d* frames needs more than 2^(*d* − 2)
entries because each frame that has called has twice as many, less one, as the one it called
(`FrameHalves`); that the powers of two double, which the provers do not compute, is taken
from the number of subsets of a finite set (`PowerOfTwo`), and the induction over the frames
is the least counterexample (`Least`). The theorems hold for every sequence of
integers as keys (`InputsAssumption`), of any length.

*The argument for the generated maps.* `IInv` says what the claims are at every moment: those of
the chosen alternatives of the members passed, of the entries passed in the
present alternative, and of the table so far. `FreeForMember` and `FreeForTable`
are why no two claims name one key: members have different keys, and the
constraint on the table excludes what a member's validator has matched, although it
repeats its tests in other words (`MatchedIsExcluded`). Counting down is then counting
claims (`ClaimCounts`), so the subtraction never wraps, and at 0 every key is claimed
(`AllClaimed`), which is where the verdict of a validator that looks for nothing
becomes a statement about the map. The iterator has yielded the table's entries before
its place; `NextIsBehindLook` is why `next`, which searches on without a test, stops where
`is_empty`, with its tests in another order, has seen an entry. The assumption
(`CddlMapAssumption`) asks that two members share no key, that no alternative has a key
twice, and that maps have no repeated keys, as the library's validator grants.

*The argument for the map builder.* `EntriesStayInOrder` says that the entries are somewhere in
the buffer; `Laid(out, es, lo, hi, at)` says so with the function `at` from entries to offsets,
and the arguments of the proof are about what the code does to `at`. `IInv` is stronger than
the properties in three ways. It says that the key and the value in work are behind the entries
until they are rotated away (`KeyWritten`, `ValueWritten`); that between the rotation and the
moment at which the generated code counts the entry the buffer holds one entry more than is
counted (`SuccessInv`), a state that `EntriesStayInOrder` does not speak of; and that the
cursor splits the entries by the new key (`Splits`). At the cursor the unchecked jump over a
key is the end that the grammar finds for it (`AtCursor`, `FirstEntry`, from `JumpIsEnd` and
from `EndsOccurs`: an item ends where it ends, whatever stands before and behind it), so it is
the key of an entry that is compared, and a step goes to the next entry. A rotation moves the
entries behind the cursor by the width of the new one and leaves the others (`RotatedFacts`,
`MovedBehind`, `LaidAdd`). At the end the header that was written behind is rotated to the
front, which moves every entry alike (`LaidBehind`). `HeaderReads` shows that `read_header`
reads back what `write_header` has written and finds its argument in shortest form, for each of
the widths, `RowOfEntries` that the pairs which the grammar finds behind it are the entries in
order, by induction on the number of entries in front of an offset (`Before`), and `MapIsItem`
that header and pairs are one item, their keys sorted. That the count is small enough for the
arithmetic of the model follows from the buffer: each entry has a byte of its own
(`ManyEntries`). `BuilderAssumption` asks that keys and values be deterministic items, which is
what the serializers of the members write, and that buffers be no longer than `SizeMax`.

*The argument for the readers.* `IterAt(x, i, k)` is the iterator that is at the *i*-th entry of *x*
and has *k* left: in memory the slice of these entries, in a buffer the bytes from where the
grammar says that the *i*-th entry starts to the end, truncated or not, with a count of *k*.
`IterNext` and `IterTruncated` show that the code goes from one such iterator to the next: the unchecked
jump is over exactly one item (`SuffixItem`, from `JumpIsEnd` and `EndsAdd`), of a map over two
(`IterNextInMap`), and truncating
a serialized array, which leaves the bytes as they are, does not move the start. The walk to an index is at the bytes behind the elements passed, and
its conversion of a 64-bit index to `usize` is one below the number of elements, hence
unchanged (`IndexKept`). The lookup is at an entry with all keys in front of it smaller than the one looked
for (`IsSearch`), so that a greater one leaves no place for it (`NoKeyThere`, by transitivity of the
byte order). `ReadersAssumption` asks of an object what its makers grant: as many entries
as its head counts, each one deterministic item in a buffer that has been validated, and of a map
that the encodings of its keys ascend, which is what `ReturnsDetLength` says of a buffer and
`SortResult` of a map made in memory. The keys' encodings may be anything that is a
sequence of bytes (`DetEncoding`, a parameter).

*Only model-checked.* Liveness (TLAPS 1.4.5 does not reason about `ENABLED`).
What rests on the recursive encoding of objects, on the meaning of items and on the recursion
over the types of the CDDL: those definitions (`CborEncoding`, `CborMeaning`, `CoseTypes`, `CddlGroup`) are `RECURSIVE` operators, of modules that
TLC's runs use, and for a recursion over a tree of objects there is no set of naturals
to do the induction in without defining one first.

## 6. Plan

Done in this order, core first: the validator and its comparison and UTF-8 loops; the
proofs for both; rotation; sort; map insertion and its callers; comparison;
serializer; lookup; the generated types; the generated maps; the unordered comparison,
the validator and the maps of the nondeterministic library; the proof for the
comparison; the generated arrays; access to arrays; signing; the proof for the sort; the proof for
the generated maps; the proof that the validator decides the grammar;
the proof that the loops of the rotation rotate; the proofs for the map builder; that the sort's
stack is logarithmic, for the UTF-8 scan, and for the readers.

Next, models:

1. `CddlMapSerialize`: the generated serializers of maps (COSE 4671–6644, 12224–14330),
   which take the members in order and then a table from a slice or an iterator,
   in composition with `MapBuilder`. `CoseSign1` has the one of `header_map` at the level of
   entries, without buffer. Property: what was serialized without failure
   validates and parses to the same members and entries.
2. The byte string of `empty_or_serialized_map`: validation of a map inside a byte string,
   in composition with `CborValidate`. Property: what is behind the map in the
   byte string is refused.

Next, proofs:

* `CborSerialize`: `WritesWhatWasSized` from an invariant over the worklist, as far as it
  goes without induction over objects.

## 7. Not modelled

* API: wrappers that call VER one to one and convert between `Option`s and results.
* The C library: extracted from the same Pulse source, function by function.
* The nondeterministic library's copies of the header reader, the first pass of the
  validator, the sizer, the serializer and the iterators (NONDET 9–3346): 68 functions have
  the name of one of AUX, and all but two (`cbor_match_compare_serialized_array` and
  `_map`) have the same text. Its Rust wrapper and its C library, as above.
* `src/src/cose/rust/src/cbordetver.rs` and `cbordetveraux.rs`, the copies of the library
  that the COSE code is built with: the first is VER, the second AUX in another order.
* What is inside the leaves of `CddlArray`: the map in the byte string of
  `empty_or_serialized_map` is a leaf that is accepted or not. In `CoseSign1` it is a map with
  its entries, for which the parser, the iterator over the table and the serializer are
  modelled; which maps the validator accepts is the matter of `CddlMap`.
* F\* specifications and proofs (`src/src/cbor/spec`, `src/src/cbor/pulse/raw`,
  `src/src/lowparse`), which are not run.
* The CDDL and 3D compilers, ASN.1 and QuackyDucky: functional programs and
  specifications without state of their own. The double-fetch discipline of 3D's
  validators is a candidate for later.
* The signing tools in C and the programs that test interoperability: straight-line calls of
  generated code and a crypto library.
* Build, packaging, tests, documentation.
* In modelled functions: panics of Rust on an index out of range do not appear as
  steps. They would be violations of the bounds that the properties state. The panics of
  `lib.rs` on the length of a key depend on the caller and are modelled, in `CoseSign1`.
