---------------------------- MODULE MCCddlCodec ----------------------------
EXTENDS CddlCodec

-----------------------------------------------------------------------------
\* A type as the set of encodings it has, from the text of the CDDL: an input
\* is accepted exactly when its item is of the type (here: when the value in
\* hand is of an item that Belongs).
RECURSIVE Belongs(_, _)
Belongs(t, s) ==
  LET h == ReadHeader(s, 0)
      payload == Slice(s, JumpHeader(s, 0), Len(s))
  IN  CASE t.kind = "any" -> TRUE
        [] t.kind = "nomatch" -> FALSE
        [] t.kind = "bool" -> s \in {<<244>>, <<245>>}
        [] t.kind = "major" -> s[1] \div 32 = t.major
        [] t.kind = "literal" -> s = HeaderBytes(t.head)
        [] t.kind = "tagged" -> h.type = Tagged /\ h.arg = t.tag /\ Belongs(t.of, payload)
        [] t.kind = "either" -> Belongs(t.left, s) \/ Belongs(t.right, s)
        [] t.kind = "plus" ->
             /\ h.type = ArrayType /\ h.arg > 0
             /\ \A e \in {EntriesFrom(payload, h.arg, 1)[i][1] : i \in 1 .. h.arg} :
                  Belongs(t.of, Encoding(e))

\* What is received is the item at the start of the input, if it is of the
\* type; sent again, it is the same bytes, if they fit the buffer; the bytes of
\* a value that could be sent, wherever it came from, give the same value.
TypeRoundTrips ==
  pc = "done" =>
    LET n == G!DetLength(input)
        item == Slice(input, 0, n)
    IN  /\ input # <<>> => (held # <<>> <=> n > 0 /\ Belongs(type, item))
        /\ input # <<>> /\ held # <<>> => sent = (IF n <= capacity THEN item ELSE <<>>)
        /\ sent # <<>> =>
             /\ Len(sent) <= capacity
             /\ back = held

-----------------------------------------------------------------------------
\* What a caller may put into a value: text that is not UTF-8 too.
RECURSIVE MCCallerValues(_)
MCCallerValues(t) ==
  CASE t.kind = "any" -> {MkInt(NegInt64, 300), MkSimple(22)}
    [] t.kind \in {"nomatch", "literal"} -> {"unit"}
    [] t.kind = "bool" -> BOOLEAN
    [] t.kind = "major" -> IF t.major \in {ByteString, TextString}
                           THEN {<<>>, <<65>>, <<195, 169>>, <<195>>}
                           ELSE {0, 23, 24, 65536}
    [] t.kind = "tagged" -> MCCallerValues(t.of)
    [] t.kind = "either" ->
         {[in |-> "l", value |-> v] : v \in MCCallerValues(t.left)}
           \cup {[in |-> "r", value |-> v] : v \in MCCallerValues(t.right)}
    [] t.kind = "plus" -> UNION {[1 .. n -> MCCallerValues(t.of)] : n \in 0 .. 2}

Leaves == {MkSimple(v) : v \in {20, 21, 22, 23, 32}}
            \cup {MkInt(m, v) : m \in {UInt64, NegInt64}, v \in {0, 24, 55799}}
            \cup {MkString(m, s) : m \in {ByteString, TextString}, s \in {<<>>, <<65, 66>>}}
Tags == {0, 21, 22, 23, 24, 32, 33, 34, 35, 36, 37, 55799}
Received == Leaves
              \cup {MkTagged(n, x) : n \in Tags, x \in Leaves}
              \cup {MkArray(xs) : xs \in UNION {[1 .. n -> Leaves] : n \in 0 .. 2}}

\* Items, items with something behind them, cut off, and not in shortest form.
MCInputs ==
  LET items == {Encoding(x) : x \in Received}
  IN  items \cup {s \o <<0>> : s \in items} \cup {Slice(s, 0, Len(s) - 1) : s \in items}
            \cup {<<24, 1>>, <<216, 1, 0>>, <<97, 255>>}
=============================================================================
