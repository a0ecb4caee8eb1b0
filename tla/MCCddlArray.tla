----------------------------- MODULE MCCddlArray -----------------------------
(***************************************************************************)
(* The generated array functions for every type, and the signing tool that  *)
(* calls those of cose_sign1_tagged and sig_structure: a behaviour is of    *)
(* the one or of the other.                                                 *)
(***************************************************************************)
EXTENDS CddlArray

MCTypes == {sig_structure, cose_sign1, cose_sign1_tagged, cose_signature, cose_sign,
            cose_sign_tagged, cose_keyset}

-----------------------------------------------------------------------------
\* cose-sign.cddl, read as the sets of sequences that the arrays may hold.
IsArray(x, n) == x.is = "array" /\ Len(x.holds) \in n
Are(x, k, names) == x.holds[k].is \in names
SerializedMap == {"empty", "header"}

IsSigStructure(x) ==
  /\ IsArray(x, {4, 5})
  /\ Are(x, 1, {"Signature", "Signature1"})
  /\ Are(x, 2, SerializedMap)
  /\ \A k \in 3 .. Len(x.holds) : Are(x, k, ByteStrings)
  /\ Len(x.holds) = 5 => Are(x, 3, SerializedMap)

HasHeaders(x) == Are(x, 1, SerializedMap) /\ Are(x, 2, {"map"})
IsSign1(x) ==
  IsArray(x, {4}) /\ HasHeaders(x) /\ Are(x, 3, ByteStrings \cup {"nil"}) /\ Are(x, 4, ByteStrings)
IsSignature(x) == IsArray(x, {3}) /\ HasHeaders(x) /\ Are(x, 3, ByteStrings)
IsSign(x) ==
  /\ IsArray(x, {4}) /\ HasHeaders(x) /\ Are(x, 3, ByteStrings \cup {"nil"})
  /\ Are(x, 4, {"array"})
  /\ x.holds[4].holds # <<>>
  /\ \A k \in DOMAIN x.holds[4].holds : IsSignature(x.holds[4].holds[k])
IsKeySet(x) == IsArray(x, 1 .. CountMax) /\ \A k \in DOMAIN x.holds : Are(x, k, {"key1", "key2"})

Conforms(t, x) ==
  \/ t = sig_structure /\ IsSigStructure(x)
  \/ t = cose_sign1 /\ IsSign1(x)
  \/ t = cose_sign1_tagged /\ x.is = "tag 18" /\ IsSign1(x.holds[1])
  \/ t = cose_signature /\ IsSignature(x)
  \/ t = cose_sign /\ IsSign(x)
  \/ t = cose_sign_tagged /\ x.is = "tag 98" /\ IsSign(x.holds[1])
  \/ t = cose_keyset /\ IsKeySet(x)

-----------------------------------------------------------------------------
\* The object that a value stands for, however far it has been read: the set of
\* it, empty for a value that the CDDL has no object for.
RECURSIVE ObjectsOf(_, _), Contents(_, _)
ObjectsOf(t, v) ==
  CASE t.kind = "leaf" -> {v} \cap {LeafObject(name) : name \in t.accepted}
    [] t.kind = "either" -> ObjectsOf(IF v.in = "l" THEN t.left ELSE t.right, v.value)
    [] t.kind = "tagged" -> {TaggedObject(t.tag, x) : x \in ObjectsOf(t.of, v)}
    [] t.kind = "array" -> {ArrayObject(xs) : xs \in Contents(t.group, v)}
Contents(g, v) ==
  CASE g.kind = "item" -> {<<x>> : x \in ObjectsOf(g.type, v)}
    [] g.kind = "cat" -> {a \o b : a \in Contents(g.left, v[1]), b \in Contents(g.right, v[2])}
    [] g.kind = "choice" -> Contents(IF v.in = "l" THEN g.left ELSE g.right, v.value)
    [] g.kind = "plus" ->
         IF v.in = "r" THEN {v.value} \ {<<>>}
         ELSE {xs \in [DOMAIN v.value -> UNION {ObjectsOf(g.type, v.value[k]) : k \in DOMAIN v.value}] :
                 xs # <<>> /\ \A k \in DOMAIN xs : xs[k] \in ObjectsOf(g.type, v.value[k])}

\* The objects in the array of any length of a received object.
Received(t, x) ==
  IF t = cose_keyset THEN x.holds
  ELSE IF t = cose_sign THEN x.holds[4].holds ELSE x.holds[1].holds[4].holds

\* The values that are read are those of the objects, in their order, each once, and
\* the iterator in the value has the rest.
ReadsElements ==
  object # <<>> /\ held # <<>> /\ type \in Iterated =>
    LET xs == Received(type, object[1])
        n == Len(read)
    IN  /\ \A k \in 1 .. n : ObjectsOf(ElementType(type), read[k]) = {xs[k]}
        /\ Elements(type, held[1]).value = SubSeq(xs, n + 1, Len(xs))

\* A value with a slice, as it comes back: with an iterator over what the slice has.
ComesBackAs(v, w) ==
  IF type \in Iterated /\ Elements(type, v).in = "l"
  THEN WithElements(type, w, Elements(type, v)) = v /\ ObjectsOf(type, w) = ObjectsOf(type, v)
  ELSE w = v

\* What is received has a value exactly if the CDDL has the object; the array of
\* any length in it is read as it is; what is sent is the object of the value in
\* hand, if it has one and there is room, and comes back as the same value.
ArraysAreWhatTheCddlSays ==
  /\ object # <<>> => (held # <<>> <=> Conforms(type, object[1]))
  /\ object # <<>> /\ held # <<>> /\ read = <<>> => ObjectsOf(type, held[1]) = {object[1]}
  /\ ReadsElements
  /\ held # <<>> /\ pc \in {"sent", "done"} =>
       sent = IF \E x \in ObjectsOf(type, held[1]) : SizeOf(x) <= room
              THEN <<CHOOSE x \in ObjectsOf(type, held[1]) : TRUE>> ELSE <<>>
  /\ pc = "done" /\ sent # <<>> => back # <<>> /\ ComesBackAs(held[1], back[1])

-----------------------------------------------------------------------------
RECURSIVE MCCallerValues(_), GroupValues(_)
MCCallerValues(t) ==
  CASE t.kind = "leaf" ->
         {LeafObject(name) : name \in IF "bytes" \in t.held THEN t.held \ {"header"} ELSE t.held}
    [] t.kind = "either" -> {[in |-> "l", value |-> v] : v \in MCCallerValues(t.left)}
                              \cup {[in |-> "r", value |-> v] : v \in MCCallerValues(t.right)}
    [] t.kind = "tagged" -> MCCallerValues(t.of)
    [] t.kind = "array" -> GroupValues(t.group)
GroupValues(g) ==
  CASE g.kind = "item" -> MCCallerValues(g.type)
    [] g.kind = "cat" -> GroupValues(g.left) \X GroupValues(g.right)
    [] g.kind = "choice" -> {[in |-> "l", value |-> v] : v \in GroupValues(g.left)}
                              \cup {[in |-> "r", value |-> v] : v \in GroupValues(g.right)}
    [] g.kind = "plus" ->
         {[in |-> "l", value |-> vs] : vs \in UNION {[1 .. n -> MCCallerValues(g.type)] : n \in 0 .. 2}}

Leaves(names) == {LeafObject(name) : name \in names}
SeqsUpTo(S, n) == UNION {[1 .. k -> S] : k \in 0 .. n}
Arrays(S, n) == {ArrayObject(xs) : xs \in SeqsUpTo(S, n)}

\* Two signatures, two arrays that are none, and a leaf.
SignatureObjects ==
  {ArrayObject(<<LeafObject(p), LeafObject("map"), LeafObject(s)>>) :
     p \in {"empty", "bytes"}, s \in {"bytes", "nil"}}
    \cup {ArrayObject(<<LeafObject("header"), LeafObject("map"), LeafObject("bytes")>>),
          LeafObject("bytes")}
SignObjects ==
  {ArrayObject(<<LeafObject(p), LeafObject("map"), LeafObject(q), ArrayObject(xs)>>) :
     p \in {"empty", "bytes"}, q \in {"nil", "map"}, xs \in SeqsUpTo(SignatureObjects, 2)}

MCObjects ==
  LET flat == Arrays(Leaves({"Signature1", "empty", "header", "bytes", "map", "nil"}), 4)
      long == {ArrayObject(<<LeafObject("Signature1")>> \o xs) :
                 xs \in [1 .. 4 -> Leaves({"empty", "header", "bytes", "nil"})]}
      sign1 == {x \in flat : IsArray(x, {4}) /\ Are(x, 2, {"map"})}
  IN  Leaves({"bytes", "key1"}) \cup flat \cup long \cup SignObjects \cup SignatureObjects
        \cup Arrays(Leaves({"key1", "key2", "map"}), 5)
        \cup {TaggedObject(n, x) : n \in {"tag 18", "tag 98"}, x \in sign1 \cup SignObjects}
-----------------------------------------------------------------------------
\* Keys of several lengths (64 bytes are a private and a public key together),
\* public keys that are no point or of small order, and two of everything else
\* that a signature depends on.  The longer additional data has no room in a
\* Sig_structure beside the longer payload, and has beside the other.
MCPrivateKeys ==
  {[pair |-> "pair1", size |-> n] : n \in {31, 32, 64}} \cup {[pair |-> "pair2", size |-> 32]}
MCPublicKeys ==
  {[pair |-> "pair1", size |-> n, point |-> "sound"] : n \in {31, 32, 64}}
    \cup {[pair |-> "pair2", size |-> 32, point |-> "sound"],
          [pair |-> "weak", size |-> 32, point |-> "weak"],
          [pair |-> "pair1", size |-> 32, point |-> "none"]}
MCAads == {LeafObject("empty"), [is |-> "bytes", size |-> 3, text |-> "context"]}
MCPayloads == {LeafObject("empty"), [is |-> "bytes", size |-> 4, text |-> "contents"]}
MCUnprotectedHeaders == {LeafObject("map"), [is |-> "map", with |-> "key identifier"]}
OtherUnprotected == [is |-> "map", with |-> "another key identifier"]

\* cose-sign.cddl, for headers with up to three entries: 5 and 6 are byte strings,
\* and not both there.
MapOver(ks, vs) ==
  LET keys == SetToSortSeq(ks, <)
  IN  [i \in DOMAIN keys |-> [key |-> keys[i], value |-> vs[i]]]
IsHeaderMap(m) ==
  /\ \A i \in DOMAIN m : m[i].key \in {5, 6} => m[i].value = "bytes"
  /\ \A i, j \in DOMAIN m : {m[i].key, m[j].key} # {5, 6}
MCHeaders ==
  {m \in {MapOver(ks, vs) : ks \in {ks \in SUBSET (1 .. 7) : Cardinality(ks) <= 3},
                            vs \in [1 .. 3 -> {"EdDSA", "labels", "bytes"}]} : IsHeaderMap(m)}

VARIABLES signed, verified, ended
signing == <<signed, verified, ended>>
MCTbsRoom == 10

\* RFC 9052: what is signed has the parts of the message as they are in it.
SigStructure(phdr, aad, payload) ==
  ArrayObject(<<LeafObject("Signature1"), phdr, aad, payload>>)
SignatureOf(key, text) ==
  [is |-> "bytes", size |-> 64, by |-> key.pair, of |-> IF key.pair = "weak" THEN LeafObject("any") ELSE text]
Sign1Object(phdr, uhdr, payload, signature) ==
  TaggedObject("tag 18", ArrayObject(<<phdr, uhdr, payload, signature>>))
HeaderOf(m) == [is |-> "header", entries |-> m, size |-> 1 + Len(m)]
WithRem(x, rem) == [object |-> x, rem |-> rem]
Signed(m) == m.message.holds[1].holds

\* Messages that other programs signed, with any header, and with a weak key.
OtherMessages ==
  {WithRem(Sign1Object(h, OtherUnprotected, p,
                       SignatureOf([pair |-> pair], SigStructure(h, LeafObject("empty"), p))), FALSE) :
     h \in {LeafObject("empty")} \cup {HeaderOf(m) : m \in MCHeaders},
     p \in MCPayloads, pair \in {"pair1", "weak"}}

\* Those, and when sign1 was called: the messages signed; such a message before
\* other bytes, without its tag, and with parts of another message, other parts,
\* or none, in its place.
MCMessages(done) ==
  LET Headers1 == {HeaderOf(<<[key |-> 1, value |-> v]>>) : v \in {"EdDSA", "bytes"}}
                    \cup {LeafObject("empty")}
      Signatures1 == {Signed(m)[4] : m \in done} \cup {LeafObject("bytes")}
  IN  IF done = {} THEN OtherMessages
      ELSE {WithRem(m.message, rem) : m \in done, rem \in BOOLEAN}
             \cup {WithRem(m.message.holds[1], FALSE) : m \in done}
             \cup {WithRem(Sign1Object(h, OtherUnprotected, p, s), FALSE) :
                     h \in Headers1, p \in MCPayloads \cup {LeafObject("nil")}, s \in Signatures1}

S == INSTANCE CoseSign1 WITH
       PrivateKeys <- MCPrivateKeys, PublicKeys <- MCPublicKeys, Aads <- MCAads,
       Payloads <- MCPayloads, UnprotectedHeaders <- MCUnprotectedHeaders,
       Messages <- MCMessages,
       TbsRoom <- MCTbsRoom, OutRooms <- {70, 73}, MaxSigned <- 2

-----------------------------------------------------------------------------
\* A message with a payload and a signature of 64 bytes, and nothing behind it.
IsSignedMessage(msg) ==
  /\ ~msg.rem
  /\ Conforms(cose_sign1_tagged, msg.object)
  /\ Are(msg.object.holds[1], 3, ByteStrings)
  /\ SizeOf(msg.object.holds[1].holds[4]) = 64

\* The bytes that a signature of it is about: its own parts, as they are in it.
TextOf(call) ==
  LET parts == call.msg.object.holds[1].holds
  IN  SigStructure(parts[1], call.aad, parts[3])
HasRoom(call) == SizeOf(TextOf(call)) <= MCTbsRoom

Authentic(call) ==
  /\ IsSignedMessage(call.msg) /\ HasRoom(call)
  /\ call.key.size = 32 /\ call.key.point = "sound"
  /\ call.msg.object.holds[1].holds[4] = SignatureOf(call.key, TextOf(call))

\* The two buffers of sign1.
Sign1Header == HeaderOf(<<[key |-> 1, value |-> "EdDSA"]>>)
TextHasRoom(c) == SizeOf(SigStructure(Sign1Header, c.aad, c.payload)) <= MCTbsRoom
MessageHasRoom(c) ==
  SizeOf(Sign1Object(Sign1Header, c.uhdr, c.payload, SignatureOf(c.key, LeafObject("any")))) <= c.room

\* verify1 of a message as sign1 made it, with the other key of the pair.
CallBack(m) ==
  [key |-> [pair |-> m.call.key.pair, size |-> 32, point |-> "sound"], aad |-> m.call.aad,
   msg |-> WithRem(m.message, FALSE)]

\* verify1 returns the payload exactly if the message's signature is, for the key
\* and the additional data, one of the message's own parts, as they are in it,
\* whoever made the message and whatever is in its unprotected header.  It ends
\* the program for such a message only, and sign1 ends it too, for these reasons:
\* it aborts if there is no room, and panics if there is and the key is not 32
\* bytes.  What sign1 makes is such a message, with the payload and the
\* unprotected header of the call: what the signer has room for, the verifier has.
VerifiesWhatWasSigned ==
  /\ \A k \in DOMAIN verified :
       LET v == verified[k]
       IN  /\ v.result = IF Authentic(v.call) THEN <<v.call.msg.object.holds[1].holds[3]>> ELSE <<>>
           /\ IsSignedMessage(v.call.msg) => HasRoom(v.call) /\ v.call.key.size = 32
  /\ \A k \in DOMAIN ended :
       LET c == ended[k].call
       IN  IF ended[k].by = "verifier"
           THEN /\ IsSignedMessage(c.msg)
                /\ ended[k].how = IF HasRoom(c) THEN "panic" ELSE "abort"
                /\ HasRoom(c) => c.key.size # 32
           ELSE /\ ended[k].how = IF TextHasRoom(c) /\ c.key.size # 32 THEN "panic" ELSE "abort"
                /\ ~(TextHasRoom(c) /\ MessageHasRoom(c) /\ c.key.size = 32)
  /\ \A m \in signed :
       /\ Authentic(CallBack(m))
       /\ Signed(m)[2] = m.call.uhdr /\ Signed(m)[3] = m.call.payload

MCInit == Init /\ S!Init
MCNext ==
  \/ signed = {} /\ verified = <<>> /\ ended = <<>> /\ Next /\ UNCHANGED signing
  \/ pc = "start" /\ type = cose_sign1_tagged /\ verified = <<>> /\ ended = <<>>
       /\ S!Next /\ UNCHANGED vars
MCSpec == MCInit /\ [][MCNext]_<<vars, signing>>
=============================================================================
