----------------------------- MODULE CborWrite -----------------------------
(***************************************************************************)
(* The header writer of cbordetveraux.rs, and the writers that put a header *)
(* in front of a payload which is already in the buffer.                    *)
(***************************************************************************)
EXTENDS CborItem, Slices

\* mk_raw_uint64: the shortest form of a value.
MkRawSize(value) ==
  IF value <= MaxInline THEN 0
  ELSE IF value < 256 THEN 1
  ELSE IF value < 65536 THEN 2
  ELSE IF value < Big64 THEN 3
  ELSE 4

MkHeader(type, value) == [type |-> type, size |-> MkRawSize(value), arg |-> value]

\* The initial byte's additional information: raw_uint64_as_argument.
InfoOf(h) == IF h.size = 0 THEN h.arg ELSE MaxInline + h.size

\* The width of the long argument for a raw size, and its bytes, most
\* significant first.  Big64 stands for 2^32.
ArgumentWidth(size) ==
  CASE size = 0 -> 0
    [] size = 1 -> 1
    [] size = 2 -> 2
    [] size = 3 -> 4
    [] OTHER -> 8
Place == <<1, 256, 65536, 16777216>>
ByteOf(value, i) ==
  IF value = Big64 THEN (IF i = 4 THEN 1 ELSE 0)
  ELSE IF i < 4 THEN (value \div Place[i + 1]) % 256 ELSE 0

\* write_header: the bytes it writes.
HeaderBytes(h) ==
  LET w == ArgumentWidth(h.size)
  IN  <<32 * h.type + InfoOf(h)>> \o [i \in 1 .. w |-> ByteOf(h.arg, w - i)]

\* The sizer has the widths by the additional information.
\* Fault: it takes an argument of eight bytes to have four.
SizeWidthShort(info) ==
  CASE info = Info8 -> 1
    [] info = Info16 -> 2
    [] info \in {Info32, Info64} -> 4
    [] OTHER -> 0

SizeWidth(info) ==
  CASE info = Info8 -> 1
    [] info = Info16 -> 2
    [] info = Info32 -> 4
    [] info = Info64 -> 8
    [] OTHER -> 0

\* Fault: the last byte of the buffer is not used.
SizeHeaderTight(h, capacity) ==
  LET w == SizeWidth(InfoOf(h))
  IN  IF capacity < 1 THEN [ok |-> FALSE, left |-> capacity]
      ELSE IF capacity - 1 <= w THEN [ok |-> FALSE, left |-> capacity - 1]
      ELSE [ok |-> TRUE, left |-> capacity - 1 - w]

\* size_header: whether the header fits a capacity, and the capacity it leaves.
SizeHeader(h, capacity) ==
  LET w == SizeWidth(InfoOf(h))
  IN  IF capacity < 1 THEN [ok |-> FALSE, left |-> capacity]
      ELSE IF capacity - 1 < w THEN [ok |-> FALSE, left |-> capacity - 1]
      ELSE [ok |-> TRUE, left |-> capacity - 1 - w]

\* cbor_serialize_array', cbor_serialize_map' and cbor_serialize_string: the
\* payload is in out up to offset off; the header is written behind it and
\* then rotated to the front.  The length of the whole is returned, or 0 when
\* the header does not fit.
\* Fault: the header is left behind the payload.
PrependHeaderBehind(h, out, off) ==
  LET end == off + Len(HeaderBytes(h))
  IN  IF SizeHeader(h, Size(Len(out) - off)).ok
      THEN [ret |-> end, out |-> Written(out, off, HeaderBytes(h))]
      ELSE [ret |-> 0, out |-> out]

PrependHeader(h, out, off) ==
  LET end == off + Len(HeaderBytes(h))
      written == Written(out, off, HeaderBytes(h))
  IN  IF SizeHeader(h, Size(Len(out) - off)).ok
      THEN [ret |-> end, out |-> RotatedPart(written, 0, end, off)]
      ELSE [ret |-> 0, out |-> out]

SerializeArray(len, out, off) == PrependHeader(MkHeader(ArrayType, len), out, off)
SerializeMap(len, out, off) == PrependHeader(MkHeader(MapType, len), out, off)
SerializeString(type, off, out) == PrependHeader(MkHeader(type, off), out, Size(off))

\* cbor_serialize_tag: the header alone, at the front.
SerializeTag(tag, out) == PrependHeader(MkHeader(Tagged, tag), out, 0)
=============================================================================
