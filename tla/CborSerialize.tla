--------------------------- MODULE CborSerialize ---------------------------
(***************************************************************************)
(* cbor_det_serialize: one pass over the object that adds up its size       *)
(* (cbor_size), counted down from the length of the output buffer, and, if  *)
(* the object fits, a second one that writes it (cbor_serialize).  The      *)
(* second pass checks nothing: it relies on the first one.                  *)
(*                                                                         *)
(* Both passes are recursive on objects in memory, with a loop over the     *)
(* entries; todo holds the objects that the loops still have to reach, in   *)
(* their order.                                                             *)
(***************************************************************************)
EXTENDS CborValue, SequencesExt

CONSTANTS Objects, Capacities

ASSUME SerializeAssumption ==
  /\ \A x \in Objects : x.head \in Header
  /\ Capacities \subseteq 0 .. SizeMax

VARIABLES
  pc,       \* "size", "write" or "done"
  x, out,   \* the arguments
  todo,
  res,      \* what siz'_d returned so far
  rem,      \* its cell: the room left
  len,      \* the size of the object, or 0
  off,      \* the offset ser'_d has reached
  ret       \* None, or the number of bytes written

None == -1
vars == <<pc, x, out, todo, res, rem, len, off, ret>>

Init ==
  /\ x \in Objects
  /\ \E n \in Capacities : out = [i \in 1 .. n |-> 0]
  /\ pc = "size"
  /\ todo = <<x>> /\ res = TRUE /\ rem = Len(out)
  /\ len = 0 /\ off = 0 /\ ret = None

-----------------------------------------------------------------------------
\* Fault: the key of a map's entry is left out.
InsideLast(y) == [i \in DOMAIN y.items |-> Last(y.items[i])]

\* The objects inside an object in memory, keys before values.
Inside(y) == FlattenSeq(y.items)
Rest(y) == Inside(y) \o Tail(todo)

\* size_header and, for a string or a serialized object, the payload.
Room == SizeHeader(Head(todo).head, rem)
PayloadFits == Len(Head(todo).bytes) <= Room.left

SizeItem ==
  /\ pc = "size" /\ res /\ todo # <<>>
  /\ Room.ok /\ PayloadFits
  /\ rem' = Size(Room.left - Len(Head(todo).bytes))
  /\ todo' = Rest(Head(todo))
  /\ UNCHANGED <<pc, x, out, res, len, off, ret>>

SizeTooBig ==
  /\ pc = "size" /\ res /\ todo # <<>>
  /\ ~(Room.ok /\ PayloadFits)
  /\ rem' = Room.left
  /\ res' = FALSE
  /\ UNCHANGED <<pc, x, out, todo, len, off, ret>>

\* cbor_size returns, and cbor_det_serialize goes on with what fits.
SizeEnd ==
  /\ pc = "size" /\ (~res \/ todo = <<>>)
  /\ len' = IF res THEN Size(Len(out) - rem) ELSE 0
  /\ IF len' > 0
     THEN pc' = "write" /\ todo' = <<x>>
     ELSE pc' = "done" /\ UNCHANGED todo
  /\ UNCHANGED <<x, out, res, rem, off, ret>>

-----------------------------------------------------------------------------
\* Fault: the payload is written over the header.
ChunkPayloadOnly(y) == y.bytes

\* write_header, and the payload copied behind it.
Chunk(y) == HeaderBytes(y.head) \o y.bytes

WriteItem ==
  /\ pc = "write" /\ todo # <<>>
  /\ out' = Written(out, off, Chunk(Head(todo)))
  /\ off' = Size(off + Len(Chunk(Head(todo))))
  /\ todo' = Rest(Head(todo))
  /\ UNCHANGED <<pc, x, res, rem, len, ret>>

WriteEnd ==
  /\ pc = "write" /\ todo = <<>>
  /\ ret' = off
  /\ pc' = "done"
  /\ UNCHANGED <<x, out, todo, res, rem, len, off>>

Next == SizeItem \/ SizeTooBig \/ SizeEnd \/ WriteItem \/ WriteEnd

Spec == Init /\ [][Next]_vars /\ WF_vars(Next)
=============================================================================
