---------------------------- MODULE CborCompare ----------------------------
(***************************************************************************)
(* cbor_compare_with_depth: the comparison of two objects behind            *)
(* cbor_det_equal, cbor_det_map_get and the sort of cbor_det_mk_map.  The   *)
(* function is recursive on objects in memory; two serialized objects are   *)
(* compared as byte strings.                                                *)
(*                                                                         *)
(* x1 and x2 are the arguments of the innermost call, y1 and y2 those of    *)
(* the outermost.  A frame is a call that waits in its loop over the        *)
(* entries of two arrays or two maps: the two iterators, and the values of  *)
(* the present entries while their keys are compared.                       *)
(***************************************************************************)
EXTENDS CborValue

CONSTANT Objects
ASSUME ObjectsAssumption == \A x \in Objects : x.head \in Header

VARIABLES pc, y1, y2, x1, x2, stack, ret
args == <<y1, y2>>
vars == <<pc, args, x1, x2, stack, ret>>

Init ==
  /\ y1 \in Objects /\ y2 \in Objects
  /\ x1 = y1 /\ x2 = y2
  /\ stack = <<>>
  /\ pc = "compare"
  /\ ret = 0

-----------------------------------------------------------------------------
\* impl_uint8_compare and uint64_compare
Sign(a, b) == IF a < b THEN -1 ELSE IF a > b THEN 1 ELSE 0

\* The first comparison that is not 0 decides.
Then(c, d) == IF c # 0 THEN c ELSE d

\* Fault: arguments of the same size are taken for equal.
HeadOrderSizeOnly(h1, h2) ==
  Then(Sign(h1.type, h2.type), Sign(h1.size, h2.size))

\* Major types first; then impl_raw_uint64_compare, or the simple values.
HeadOrder(h1, h2) ==
  Then(Sign(h1.type, h2.type),
       IF h1.type = SimpleValue THEN Sign(h1.arg, h2.arg)
       ELSE Then(Sign(h1.size, h2.size), Sign(h1.arg, h2.arg)))

heads == HeadOrder(x1.head, x2.head)
type == x1.head.type

\* Fault: serialized objects are taken apart like the others.
BothSerializedIgnored == FALSE

BothSerialized == x1.form = "serialized" /\ x2.form = "serialized"

\* The order of two iterators of which one at least is at its end.
EndOrder(i1, i2) == Sign(IF IsEmpty(i1) THEN 0 ELSE 1, IF IsEmpty(i2) THEN 0 ELSE 1)

Result(c) == ret' = c /\ pc' = "return"

HeadsDiffer ==
  /\ pc = "compare" /\ heads # 0
  /\ Result(heads)
  /\ UNCHANGED <<args, x1, x2, stack>>

\* Integers and simple values are their heads, strings have a payload too.
SameLeaf ==
  /\ pc = "compare" /\ heads = 0 /\ x1.form = "leaf"
  /\ Result(IF IsString(x1.head) THEN LexCompare(x1.bytes, x2.bytes) ELSE 0)
  /\ UNCHANGED <<args, x1, x2, stack>>

BytesDecide ==
  /\ pc = "compare" /\ heads = 0 /\ BothSerialized
  /\ Result(LexCompare(x1.bytes, x2.bytes))
  /\ UNCHANGED <<args, x1, x2, stack>>

Looks(t) == pc = "compare" /\ heads = 0 /\ type = t /\ ~BothSerialized

\* The payloads are compared by a call in tail position.
Payloads ==
  /\ Looks(Tagged)
  /\ x1' = TaggedPayload(x1) /\ x2' = TaggedPayload(x2)
  /\ UNCHANGED <<pc, args, stack, ret>>

BothEmpty ==
  /\ Looks(ArrayType) \/ Looks(MapType)
  /\ x1.head.arg = 0
  /\ Result(0)
  /\ UNCHANGED <<args, x1, x2, stack>>

\* The loop over the entries begins.
Enter ==
  /\ Looks(ArrayType) \/ Looks(MapType)
  /\ x1.head.arg # 0
  /\ LET i1 == IteratorInit(x1)
         i2 == IteratorInit(x2)
     IN  IF IsEmpty(i1) \/ IsEmpty(i2)
         THEN Result(EndOrder(i1, i2)) /\ UNCHANGED stack
         ELSE /\ stack' = Append(stack, [type |-> type, i1 |-> i1, i2 |-> i2,
                                         values |-> <<>>])
              /\ pc' = "entry"
              /\ UNCHANGED ret
  /\ UNCHANGED <<args, x1, x2>>

-----------------------------------------------------------------------------
top == stack[Len(stack)]
callers == SubSeq(stack, 1, Len(stack) - 1)

\* Both iterators move on; the elements, or the keys, are compared.
Entry ==
  /\ pc = "entry"
  /\ LET e1 == NextEntry(top.i1, top.type)
         e2 == NextEntry(top.i2, top.type)
     IN  /\ x1' = e1[1] /\ x2' = e2[1]
         /\ stack' = Append(callers,
              [top EXCEPT !.i1 = Advance(@, top.type), !.i2 = Advance(@, top.type),
                          !.values = IF top.type = MapType THEN <<e1[2], e2[2]>> ELSE <<>>])
  /\ pc' = "compare"
  /\ UNCHANGED <<args, ret>>

Returning == pc = "return" /\ stack # <<>>

\* The call that found a difference ends, and so do its callers.
Different ==
  /\ Returning /\ ret # 0
  /\ stack' = callers
  /\ UNCHANGED <<pc, args, x1, x2, ret>>

\* Fault: of a map's entries only the keys are compared.
SameKeyNoValue ==
  /\ Returning /\ ret = 0 /\ top.values # <<>>
  /\ stack' = Append(callers, [top EXCEPT !.values = <<>>])
  /\ UNCHANGED <<pc, args, x1, x2, ret>>

\* The keys are equal: the values decide.
SameKey ==
  /\ Returning /\ ret = 0 /\ top.values # <<>>
  /\ x1' = top.values[1] /\ x2' = top.values[2]
  /\ stack' = Append(callers, [top EXCEPT !.values = <<>>])
  /\ pc' = "compare"
  /\ UNCHANGED <<args, ret>>

SameEntry ==
  /\ Returning /\ ret = 0 /\ top.values = <<>>
  /\ IF IsEmpty(top.i1) \/ IsEmpty(top.i2)
     THEN /\ Result(EndOrder(top.i1, top.i2))
          /\ stack' = callers
     ELSE pc' = "entry" /\ UNCHANGED <<stack, ret>>
  /\ UNCHANGED <<args, x1, x2>>

Done ==
  /\ pc = "return" /\ stack = <<>>
  /\ pc' = "done"
  /\ UNCHANGED <<args, x1, x2, stack, ret>>

Next ==
  \/ HeadsDiffer \/ SameLeaf \/ BytesDecide \/ Payloads \/ BothEmpty \/ Enter
  \/ Entry \/ Different \/ SameKey \/ SameEntry \/ Done

Spec == Init /\ [][Next]_vars /\ WF_vars(Next)
=============================================================================
