------------------------------ MODULE CoseSign1 ------------------------------
(***************************************************************************)
(* Signing and verifying a COSE_Sign1 message (cose/rust/src/commonpulse.rs, *)
(* and module ed25519 of cose/rust/src/lib.rs).  Neither side has the bytes  *)
(* that are signed in the message: each makes a Sig_structure of its parts,  *)
(* the verifier of the parsed ones, in a buffer of TbsRoom.  A message is    *)
(* the object in the buffer and whether bytes follow it.                     *)
(*                                                                         *)
(* The leaves of CddlGroup stand for several byte strings here: further     *)
(* fields tell them apart.  One that holds a header map has its entries, in *)
(* the order of their keys: the numbers of the parameters, and from 7 on    *)
(* other labels.  A value is named for its type.  The header is parsed into *)
(* members and an iterator over its table, and put together again to be     *)
(* signed or verified.                                                      *)
(*                                                                         *)
(* A private key is [pair, size] and a public key [pair, size, point], size *)
(* in bytes and point "sound", "weak" (of small order) or "none" (the bytes *)
(* are no point of the curve).                                              *)
(***************************************************************************)
EXTENDS CddlGroup, CddlFormat

CONSTANTS
  PrivateKeys, PublicKeys, Aads, Payloads, UnprotectedHeaders,
  TbsRoom,       \* 1024 in the code
  OutRooms,      \* the caller's buffers for a message
  Messages(_),   \* what the verifier may be given when these calls were made
  MaxSigned      \* a bound on the calls of sign1 that return

VARIABLES
  signed,        \* the calls of sign1 that returned, with the messages
  verified,      \* <<the last call of verify1 and its result>>
  ended          \* <<the call that ended the program, and how>>
vars == <<signed, verified, ended>>

Init == signed = {} /\ verified = <<>> /\ ended = <<>>

\* What a call comes to: it returns a value, aborts or panics.
Returns(v) == [how |-> "returns", value |-> v]
Ends(how) == [how |-> how]

-----------------------------------------------------------------------------
\* The crate ed25519_dalek.  The signature of a weak key is valid for any text,
\* but the strict verification refuses the key.
SigningKeySign(key, msg) ==
  [is |-> "bytes", size |-> 64, by |-> key.pair, of |-> IF key.pair = "weak" THEN LeafObject("any") ELSE msg]
VerifyingKeyFromBytes(key) == key.point # "none"
VerifyStrict(key, msg, signature) ==
  key.point # "weak" /\ signature = SigningKeySign(key, msg)

KeyLength == 32
SignatureLength == 64

\* The slices become arrays of these lengths, or unwrap panics.
Ed25519Sign(private_key, msg) ==
  IF private_key.size # KeyLength THEN Ends("panic") ELSE Returns(SigningKeySign(private_key, msg))

Ed25519Verify(public_key, msg, signature) ==
  IF public_key.size # KeyLength THEN Ends("panic")
  ELSE IF ~VerifyingKeyFromBytes(public_key) THEN Returns(FALSE)
  ELSE IF SizeOf(signature) # SignatureLength THEN Ends("panic")
  ELSE Returns(VerifyStrict(public_key, msg, signature))

-----------------------------------------------------------------------------
\* header_map, as in CoseTypes.
Labels == {"EdDSA", "label"}
HeaderValues == Labels \cup {"labels", "bytes"}
Parameter(key, type) == Member(Optional(Entry(key, type)))
Absent(key) == Cut(Optional(Entry(key, {})))
HeaderFormat ==
  [members |-> << Parameter(1, Labels), Parameter(2, {"labels"}), Parameter(3, Labels),
                  Parameter(4, {"bytes"}),
                  << <<Entry(5, {"bytes"}), Absent(6)>>, <<Entry(6, {"bytes"}), Absent(5)>>,
                     <<Absent(6), Absent(5)>> >> >>,
   key |-> Nat, value |-> HeaderValues]

\* A header map in a byte string: its header, and one unit for an entry.
HeaderObject(m) == [is |-> "header", entries |-> m, size |-> 1 + Len(m)]

\* parse_header_map: the members, and an iterator over the whole map.
ParseHeader(m) ==
  [members |-> ParseMembers(HeaderFormat, m), table |-> [in |-> "r", value |-> m]]

\* parse_empty_or_serialized_map, of what the generated array parsers hand on.
ParseProtected(phdr) ==
  IF phdr.in = "l" THEN [phdr EXCEPT !.value = ParseHeader(@.entries)] ELSE phdr

\* The entries that are serialized: the members that are there, in the order of
\* the format, then a caller's slice or what the iterator yields.
MembersOf(members) ==
  LET EntriesOf(p, entries) ==
        FlattenSeq([k \in DOMAIN entries |->
          [j \in DOMAIN p.values[k] |-> [key |-> entries[k].key, value |-> p.values[k][j]]]])
  IN  FlattenSeq([i \in DOMAIN members |->
        EntriesOf(members[i], HeaderFormat.members[i][members[i].alternative])])
TableOf(t) ==
  IF t.in = "l" THEN t.value ELSE SelectSeq(t.value, LAMBDA x : InTable(HeaderFormat, x))

\* Fault: the entries stay where they were written, behind the others.
AsWritten(entries) == entries

\* Every entry is inserted at its place among those before it, as MapBuilder has it.
InKeyOrder(entries) == SortSeq(entries, LAMBDA x, y : x.key < y.key)

\* serialize_header_map and the header of a byte string in front: <<object>>, or
\* <<>>.  The room is tested where the object is put into its array.
SerializeHeader(v) ==
  LET table == TableOf(v.table)
      all == MembersOf(v.members) \o table
  IN  IF /\ Len(all) <= CountMax
         /\ Cardinality(Keys(all)) = Len(all)
         /\ \A i \in DOMAIN table : ~Excluded(HeaderFormat, table[i])
      THEN <<HeaderObject(InKeyOrder(all))>> ELSE <<>>

\* serialize_empty_or_serialized_map, whose result CddlGroup puts into an array: it
\* serializes a slice itself.
SerializeProtected(phdr) ==
  IF phdr.in = "l"
  THEN LET h == SerializeHeader(phdr.value)
       IN  [i \in DOMAIN h |-> [phdr EXCEPT !.value = h[i]]]
  ELSE <<phdr>>

-----------------------------------------------------------------------------
\* The Sig_structure, which create_sig and verify_sig each make: <<object>>, or
\* <<>> if there is no room for it.
ToBeSigned(phdr, aad, payload) ==
  LET h == SerializeProtected(phdr)
  IN  IF h = <<>> THEN <<>>
      ELSE SerializeType(sig_structure,
             << [in |-> "r", value |-> LeafObject("Signature1")],
                << h[1], [in |-> "r", value |-> <<aad, payload>>] >> >>, TbsRoom)

create_sig(privkey, phdr, aad, payload) ==
  LET tbs == ToBeSigned(phdr, aad, payload)
  IN  IF tbs = <<>> THEN Ends("abort") ELSE Ed25519Sign(privkey, tbs[1])

verify_sig(pubkey, phdr, aad, payload, signature) ==
  LET tbs == ToBeSigned(phdr, aad, payload)
  IN  IF tbs = <<>> THEN Ends("abort") ELSE Ed25519Verify(pubkey, tbs[1], signature)

-----------------------------------------------------------------------------
\* mk_phdrs: a header with the algorithm -8 and nothing else.
Single(values) == [alternative |-> 1, values |-> <<values>>]
phdr_of_sign1 ==
  [in |-> "l",
   value |-> [members |-> << Single(<<"EdDSA">>), Single(<<>>), Single(<<>>), Single(<<>>),
                             [alternative |-> 3, values |-> << <<>>, <<>> >>] >>,
              table |-> [in |-> "l", value |-> <<>>]]]

Message(phdr, uhdr, payload, signature, room) ==
  LET h == SerializeProtected(phdr)
  IN  IF h = <<>> THEN <<>>
      ELSE SerializeType(cose_sign1_tagged,
             << <<h[1], uhdr>>, << [in |-> "l", value |-> payload], signature >> >>, room)

\* sign1: the signature, then the message in the caller's buffer; it aborts too
\* if the message has no room.
Sign1(key, uhdr, aad, payload, room) ==
  LET signature == create_sig(key, phdr_of_sign1, aad, payload)
      msg == Message(phdr_of_sign1, uhdr, payload, signature.value, room)
  IN  IF signature.how # "returns" THEN signature
      ELSE IF msg = <<>> THEN Ends("abort") ELSE Returns(msg[1])

sign1(key, uhdr, aad, payload, room) ==
  /\ ended = <<>> /\ Cardinality(signed) < MaxSigned
  /\ \E r \in {Sign1(key, uhdr, aad, payload, room)},
        call \in {[key |-> key, uhdr |-> uhdr, aad |-> aad, payload |-> payload, room |-> room]} :
       IF r.how = "returns"
       THEN signed' = signed \cup {[call |-> call, message |-> r.value]} /\ UNCHANGED ended
       ELSE ended' = << [by |-> "signer", call |-> call, how |-> r.how] >> /\ UNCHANGED signed
  /\ UNCHANGED verified

sign1_simple(key, payload, room) ==
  sign1(key, LeafObject("map"), LeafObject("empty"), payload, room)

-----------------------------------------------------------------------------
Call(key, aad, msg) == [key |-> key, aad |-> aad, msg |-> msg]

\* validate_and_parse_cose_sign1_tagged, and the parts of the value.
Parsed(msg) ==
  IF ValidateType(cose_sign1_tagged, msg.object)
  THEN {ParseType(cose_sign1_tagged, msg.object)} ELSE {}
Protected(x) == ParseProtected(x[1][1])
PayloadOf(x) == x[2][1]
SignatureOf(x) == x[2][2]

\* The whole message was parsed, it has its payload, and a signature of the right
\* length: only then a Sig_structure is made.
HasSignature(msg) ==
  \E x \in Parsed(msg) :
    /\ ~msg.rem
    /\ PayloadOf(x).in = "l"
    /\ SizeOf(SignatureOf(x)) = SignatureLength

Verdict(call, payload) ==
  /\ verified' = << [call |-> call, result |-> payload] >>
  /\ UNCHANGED <<signed, ended>>

verify1_refuses(key, aad, msg) ==
  /\ ended = <<>> /\ ~HasSignature(msg)
  /\ Verdict(Call(key, aad, msg), <<>>)

verify1(key, aad, msg) ==
  /\ ended = <<>> /\ HasSignature(msg)
  /\ \E x \in Parsed(msg) :
     \E r \in {verify_sig(key, Protected(x), aad, PayloadOf(x).value, SignatureOf(x))} :
       IF r.how = "returns"
       THEN Verdict(Call(key, aad, msg), IF r.value THEN <<PayloadOf(x).value>> ELSE <<>>)
       ELSE /\ ended' = << [by |-> "verifier", call |-> Call(key, aad, msg), how |-> r.how] >>
            /\ UNCHANGED <<signed, verified>>

verify1_simple(key, msg) == verify1(key, LeafObject("empty"), msg)

Next ==
  \/ \E key \in PrivateKeys, uhdr \in UnprotectedHeaders, aad \in Aads, p \in Payloads, n \in OutRooms :
       sign1(key, uhdr, aad, p, n) \/ sign1_simple(key, p, n)
  \/ \E key \in PublicKeys, aad \in Aads, msg \in Messages(signed) :
       \/ verify1(key, aad, msg) \/ verify1_refuses(key, aad, msg)
       \/ verify1_simple(key, msg)

Spec == Init /\ [][Next]_vars
=============================================================================
