-------------------------- MODULE MCCborSerialize --------------------------
EXTENDS CborSerialize

E == INSTANCE CborEncoding
G == INSTANCE CborGrammar

-----------------------------------------------------------------------------
EncodingOf(ys) == FlattenSeq([i \in DOMAIN ys |-> E!Encoding(ys[i])])

\* While the size is added up, the bytes counted and those the rest of the
\* object will take make its encoding.  The second pass, which looks at no
\* bound, stays inside of what the first one measured: what is still to be
\* written fills the room that is left, and the bytes written so far are the
\* beginning of the encoding.
WritesWhatWasSized ==
  /\ pc = "size" /\ res =>
       Len(out) - rem + Len(EncodingOf(todo)) = Len(E!Encoding(x))
  /\ pc = "write" =>
       /\ off + Len(EncodingOf(todo)) = len
       /\ Slice(out, 0, off) \o EncodingOf(todo) = E!Encoding(x)

\* The call returns, and the object is written if and only if the buffer has
\* room for it; the rest of the buffer, or all of it on failure, stays as it
\* was.
SerializesIfItFits ==
  <>/\ pc = "done"
    /\ ret # None <=> Len(E!Encoding(x)) <= Len(out)
    /\ ret # None => Slice(out, 0, ret) = E!Encoding(x)
    /\ \A i \in DOMAIN out : i > ret => out[i] = 0

\* What was written parses again, to an object of the same encoding: the
\* serializer and the validator agree on what deterministic encoding is.
ParsesBack ==
  pc = "done" /\ ret # None =>
    /\ G!DetLength(out) = ret
    /\ E!Encoding(CborRead(Slice(out, 0, ret))) = E!Encoding(x)

\* The same encoding comes about from the inside out: with the payload in the
\* buffer, cbor_det_serialize_string, _array and _map put the header in front
\* exactly when there is room for it; for a tag the header is written first.
BottomUpAgrees ==
  pc = "size" /\ todo = <<x>> =>
    LET payload == x.bytes \o EncodingOf(Inside(x))
        buffer == Written(out, 0, payload)
        off2 == Len(payload)
        h == x.head
        built == IF IsString(h) THEN SerializeString(h.type, off2, buffer)
                 ELSE IF h.type = ArrayType THEN SerializeArray(h.arg, buffer, off2)
                 ELSE SerializeMap(h.arg, buffer, off2)
        tag == SerializeTag(h.arg, out)
        whole == E!Encoding(x)
    IN  /\ (IsString(h) \/ h.type \in {ArrayType, MapType}) /\ off2 <= Len(out) =>
             /\ built.ret = (IF Len(whole) <= Len(out) THEN Len(whole) ELSE 0)
             /\ built.ret > 0 => Slice(built.out, 0, built.ret) = whole
        /\ h.type = Tagged =>
             /\ tag.ret = 0 <=> Len(HeaderBytes(h)) > Len(out)
             /\ tag.ret > 0 => Slice(tag.out, 0, tag.ret) \o payload = whole

-----------------------------------------------------------------------------
Leaves == {MkInt(UInt64, 0), MkInt(UInt64, 23), MkInt(UInt64, 24), MkInt(NegInt64, 256),
           MkInt(UInt64, 65535), MkInt(NegInt64, 65536), MkInt(UInt64, Big64),
           MkString(ByteString, <<>>), MkString(ByteString, <<1, 0>>),
           MkString(TextString, <<97, 195, 169>>),
           MkString(ByteString, [i \in 1 .. 24 |-> i]), MkSimple(20), MkSimple(32)}
Few == {MkInt(UInt64, 0), MkInt(UInt64, 24), MkString(TextString, <<97>>)}

Read(xs) == {CborRead(E!Encoding(y)) : y \in xs}
Both(xs) == xs \cup Read(xs)

Arrays(xs, n) == UNION {{MkArray(s) : s \in [1 .. k -> xs]} : k \in 0 .. n}
Maps(keys, xs, n) ==
  UNION {{MkMap(s) : s \in {p \in [1 .. k -> keys \X xs] :
            \A i \in 1 .. k - 1 : LexLess(E!Encoding(p[i][1]), E!Encoding(p[i + 1][1]))}}
          : k \in 0 .. n}
Tags(xs) == {MkTagged(t, y) : t \in {1, 24, 65536}, y \in xs}
Long == {MkArray([i \in 1 .. 24 |-> MkInt(UInt64, 0)])}

Flat == Arrays(Few, 2) \cup Maps(Few, Few, 2) \cup Tags(Few) \cup Long
Inner == Both({MkArray(<<MkInt(UInt64, 0)>>), MkArray(<<>>), MkTagged(1, MkInt(UInt64, 0)),
               MkMap(<< <<MkInt(UInt64, 0), MkInt(UInt64, 24)>>,
                        <<MkInt(UInt64, 24), MkInt(UInt64, 0)>> >>)})
Nested == Arrays(Inner, 2) \cup Maps(Inner, Few, 2) \cup Maps(Few, Inner, 2) \cup Tags(Inner)

MCObjects == Leaves \cup Both(Flat) \cup Nested
=============================================================================
