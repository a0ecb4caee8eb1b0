----------------------------- MODULE CddlArray -----------------------------
(***************************************************************************)
(* The calls a user of the generated code makes for a type that is an array *)
(* (cose/rust/src/coseformat.rs).  A value is received, with validate_ and  *)
(* parse_, or made by the caller; its array of any length is read, element  *)
(* by element, with next_iterate_array_, which moves the iterator in the    *)
(* value; at any time the value is sent, with serialize_ into the room      *)
(* there is, and received by somebody else.                                 *)
(***************************************************************************)
EXTENDS CddlGroup

\* Types to be used, objects received, values a caller may make of each type,
\* and the room for what is sent.
CONSTANTS Types, Objects, CallerValues(_), Rooms

VARIABLES
  pc,              \* "start", "hold", "sent" or "done"
  type, object,    \* the type used and the object received: <<x>>, or <<>>
  held,            \* the value in hand: <<v>>, or <<>>
  read,            \* the elements read from it
  room, sent,      \* the room for the object sent, and the object: <<x>>, or <<>>
  back             \* the value the other side has: <<v>>, or <<>>

vars == <<pc, type, object, held, read, room, sent, back>>

Init ==
  /\ pc = "start"
  /\ type \in Types
  /\ object = <<>> /\ held = <<>> /\ read = <<>> /\ room = 0 /\ sent = <<>> /\ back = <<>>

ValidateAndParse(t, x) == IF ValidateType(t, x) THEN <<ParseType(t, x)>> ELSE <<>>

Receive(x) ==
  /\ object' = <<x>>
  /\ held' = ValidateAndParse(type, x)
  /\ pc' = IF held' = <<>> THEN "done" ELSE "hold"
  /\ UNCHANGED <<type, read, room, sent, back>>

Make(v) ==
  /\ held' = <<v>>
  /\ pc' = "hold"
  /\ UNCHANGED <<type, object, read, room, sent, back>>

\* is_empty_iterate_array_*, and next_iterate_array_* if it is not.
Read ==
  /\ pc = "hold" /\ type \in Iterated
  /\ \E e \in {Elements(type, held[1])} :
       /\ e.in = "r" /\ e.value # <<>>
       /\ read' = Append(read, Element(ElementType(type), e.value))
       /\ held' = <<WithElements(type, held[1], RestOfElements(ElementType(type), e))>>
  /\ UNCHANGED <<pc, type, object, room, sent, back>>

Send(n) ==
  /\ pc = "hold"
  /\ room' = n
  /\ sent' = SerializeType(type, held[1], n)
  /\ pc' = IF sent' = <<>> THEN "done" ELSE "sent"
  /\ UNCHANGED <<type, object, held, read, back>>

ReceiveBack ==
  /\ pc = "sent"
  /\ back' = ValidateAndParse(type, sent[1])
  /\ pc' = "done"
  /\ UNCHANGED <<type, object, held, read, room, sent>>

Start ==
  /\ pc = "start"
  /\ (\E x \in Objects : Receive(x)) \/ (\E v \in CallerValues(type) : Make(v))

Next ==
  \/ Start
  \/ Read
  \/ \E n \in Rooms : Send(n)
  \/ ReceiveBack

Spec == Init /\ [][Next]_vars /\ WF_vars(Next)
=============================================================================
