----------------------------- MODULE CddlCodec -----------------------------
(***************************************************************************)
(* The calls a user of the generated code makes for one type: a value is    *)
(* received, with validate_and_parse_t, or made by the caller; it is sent,  *)
(* with serialize_t into a buffer of some capacity; what was sent is        *)
(* received by somebody else.                                               *)
(***************************************************************************)
EXTENDS CoseTypes

\* Types to be used, Inputs of bytes, values a caller may make of each type,
\* and capacities of the buffer.
CONSTANTS Types, Inputs, CallerValues(_), Capacities

VARIABLES
  pc,              \* "start", "send", "receive" or "done"
  type, input,     \* the type used and the bytes received, <<>> if none were
  held,            \* the value in hand: <<v>>, or <<>>
  capacity, sent,  \* the buffer that was sent from, and the bytes in it
  back             \* the value the other side has: <<v>>, or <<>>

vars == <<pc, type, input, held, capacity, sent, back>>

Init ==
  /\ pc = "start"
  /\ type \in Types
  /\ input = <<>> /\ held = <<>> /\ capacity = 0 /\ sent = <<>> /\ back = <<>>

\* validate_and_parse_t: cbor_det_parse takes the item at the start of s.
ValidateAndParse(t, s) ==
  LET n == G!DetLength(s)
      x == CborRead(Slice(s, 0, n))
  IN  IF n > 0 /\ Validate(t, x) THEN <<Parse(t, x)>> ELSE <<>>

Receive(s) ==
  /\ pc = "start"
  /\ input' = s
  /\ held' = ValidateAndParse(type, s)
  /\ pc' = IF held' = <<>> THEN "done" ELSE "send"
  /\ UNCHANGED <<type, capacity, sent, back>>

Make(v) ==
  /\ pc = "start"
  /\ held' = <<v>>
  /\ pc' = "send"
  /\ UNCHANGED <<type, input, capacity, sent, back>>

Send(n) ==
  /\ pc = "send"
  /\ capacity' = n
  /\ sent' = Serialize(type, held[1], n)
  /\ pc' = IF sent' = <<>> THEN "done" ELSE "receive"
  /\ UNCHANGED <<type, input, held, back>>

ReceiveBack ==
  /\ pc = "receive"
  /\ back' = ValidateAndParse(type, sent)
  /\ pc' = "done"
  /\ UNCHANGED <<type, input, held, capacity, sent>>

Next ==
  \/ \E s \in Inputs : Receive(s)
  \/ \E v \in CallerValues(type) : Make(v)
  \/ \E n \in Capacities : Send(n)
  \/ ReceiveBack

Spec == Init /\ [][Next]_vars /\ WF_vars(Next)
=============================================================================
