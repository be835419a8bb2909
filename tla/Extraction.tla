------------------------------ MODULE Extraction ------------------------------
(* Packet bits and header storage: what extract, advance, lookahead, push and  *)
(* pop do to the cursor and to a header stack, what a deparser then emits, and *)
(* the packet V1Model sends (interp/packet.py, interp/stmt.py, interp/expr.py, *)
(* the last lines of V1Model.run).  The program's headers are one struct: a    *)
(* stack hs of StackSize elements and a header h, all of one header type.      *)
(* ParserLoop has the control of a parser run; this module has its data.       *)
EXTENDS Numbers, Sequences

CONSTANTS
  Packets,        \* input packets, sequences of bytes
  Widths,         \* field widths of the header type, first field first
  StackSize,      \* elements of the stack
  Counts,         \* operands of advance, push and pop
  LookaheadBits,  \* widths n for which hs[lookahead<bit<n>>] is extracted into
  MaxStatements   \* bound: statements before the parser stops

ASSUME BitsAssumption ==
  /\ Packets \subseteq Seq(0 .. 255) /\ Widths \in Seq(Nat \ {0}) /\ StackSize \in Nat
  /\ Counts \subseteq Nat /\ LookaheadBits \subseteq Nat /\ MaxStatements \in Nat

VARIABLES
  packet,   \* the bytes under the parser, fixed for the run
  cursor,   \* Packet.cursor, in bits
  hs,       \* the header stack: elements 0 .. StackSize-1 and next_index
  h,        \* the other header
  stage,    \* "parse", then "accepted" or "rejected", then "sent" or "dropped"
  error,    \* the ParseError, or NoError
  out,      \* the packet sent
  executed, \* statements executed
  inOrder,  \* history: the program only extracted, each header where it is emitted
  indexed   \* history: an element was written by index or had its validity set

bitVars == <<packet, cursor, hs, h, stage, error, out, executed, inOrder, indexed>>

NoError == "NoError"
Header ==
  {x \in [valid : BOOLEAN, fields : [DOMAIN Widths -> Nat]] :
     \A i \in DOMAIN Widths : x.fields[i] < Pow2(Widths[i])}
ZeroHeader == [valid |-> FALSE, fields |-> [i \in DOMAIN Widths |-> 0]]

-----------------------------------------------------------------------------
(* Bits                                                                        *)

TotalBits == 8 * Len(packet)
Remaining == TotalBits - cursor

(* int.from_bytes: the packet as one number.                                   *)
PacketValue ==
  LET value[k \in 0 .. Len(packet)] == IF k = 0 THEN 0 ELSE 256 * value[k - 1] + packet[k]
  IN value[Len(packet)]

(* The n bits after the cursor, most significant first.                        *)
PeekAt(at, n) == (PacketValue \div Pow2(TotalBits - at - n)) % Pow2(n)

(* Where field i ends, the header's width, and the bits after field i.         *)
FieldEnd(i) ==
  LET end[k \in 0 .. Len(Widths)] == IF k = 0 THEN 0 ELSE end[k - 1] + Widths[k] IN end[i]
Width == FieldEnd(Len(Widths))
Below(i) == Width - FieldEnd(i)

HeaderFromBits(raw) ==
  [valid |-> TRUE,
   fields |-> [i \in DOMAIN Widths |-> (raw \div Pow2(Below(i))) % Pow2(Widths[i])]]

(* The emitter: a buffer of `width` bits.                                      *)
EmptyBuffer == [width |-> 0, value |-> 0]
Write(buffer, w, v) ==
  [width |-> buffer.width + w, value |-> buffer.value * Pow2(w) + v]

HeaderToBits(header) ==
  LET bits[k \in 0 .. Len(Widths)] ==
        IF k = 0 THEN 0 ELSE bits[k - 1] * Pow2(Widths[k]) + header.fields[k]
  IN bits[Len(Widths)]

EmitHeader(buffer, header) ==
  IF header.valid THEN Write(buffer, Width, HeaderToBits(header)) ELSE buffer

(* emit of the headers struct, fields and elements in order.                   *)
Emitted ==
  LET buffer[k \in 0 .. StackSize] ==
        IF k = 0 THEN EmptyBuffer ELSE EmitHeader(buffer[k - 1], hs.elements[k])
  IN EmitHeader(buffer[StackSize], h)

(* to_bytes: zero bits up to a byte boundary.                                  *)
Padding(width) == (8 - (width % 8)) % 8
Bytes(buffer) ==
  LET pad == Padding(buffer.width)
      n == (buffer.width + pad) \div 8
  IN [i \in 1 .. n |-> ((buffer.value * Pow2(pad)) \div Pow2(8 * (n - i))) % 256]

(* The packet from the byte where the parser stopped.                          *)
Payload == SubSeq(packet, cursor \div 8 + 1, Len(packet))

-----------------------------------------------------------------------------
BitsInit ==
  /\ packet \in Packets
  /\ cursor = 0
  /\ hs = [elements |-> [i \in 1 .. StackSize |-> ZeroHeader], next_index |-> 0]
  /\ h = ZeroHeader
  /\ stage = "parse"
  /\ error = NoError
  /\ out = <<>>
  /\ executed = 0
  /\ inOrder = TRUE
  /\ indexed = FALSE

Step ==
  /\ stage = "parse" /\ executed < MaxStatements
  /\ executed' = executed + 1
  /\ UNCHANGED <<packet, out>>

Continue == stage' = stage /\ error' = error
Raise(e, at) ==
  /\ stage' = "rejected" /\ error' = e /\ cursor' = at
  /\ UNCHANGED <<hs, h>>

(* Fault: the packet is read before the stack is checked for room.             *)
ExtractNextReadsFirst ==
  /\ Step
  /\ inOrder' = (inOrder /\ ~h.valid)
  /\ UNCHANGED indexed
  /\ \/ /\ Width > Remaining
        /\ Raise("PacketTooShort", cursor)
     \/ /\ Width <= Remaining /\ hs.next_index >= StackSize
        /\ Raise("StackOutOfBounds", cursor + Width)
     \/ /\ Width <= Remaining /\ hs.next_index < StackSize
        /\ hs' = [elements |-> [hs.elements EXCEPT ![hs.next_index + 1] =
                                  HeaderFromBits(PeekAt(cursor, Width))],
                  next_index |-> hs.next_index + 1]
        /\ cursor' = cursor + Width
        /\ Continue /\ UNCHANGED h

(* hs.next: room is checked before the packet is.                              *)
ExtractNext ==
  /\ Step
  /\ inOrder' = (inOrder /\ ~h.valid)
  /\ UNCHANGED indexed
  /\ \/ /\ hs.next_index >= StackSize
        /\ Raise("StackOutOfBounds", cursor)
     \/ /\ hs.next_index < StackSize /\ Width > Remaining
        /\ Raise("PacketTooShort", cursor)
     \/ /\ hs.next_index < StackSize /\ Width <= Remaining
        /\ hs' = [elements |-> [hs.elements EXCEPT ![hs.next_index + 1] =
                                  HeaderFromBits(PeekAt(cursor, Width))],
                  next_index |-> hs.next_index + 1]
        /\ cursor' = cursor + Width
        /\ Continue /\ UNCHANGED h

(* A header variable: reading the target and writing it name the same storage. *)
ExtractHeader ==
  /\ Step
  /\ inOrder' = (inOrder /\ ~h.valid)
  /\ UNCHANGED indexed
  /\ \/ /\ Width > Remaining
        /\ Raise("PacketTooShort", cursor)
     \/ /\ Width <= Remaining
        /\ h' = HeaderFromBits(PeekAt(cursor, Width))
        /\ cursor' = cursor + Width
        /\ Continue /\ UNCHANGED hs

(* An index expression: a lookahead reads the packet where the cursor is, and  *)
(* any other one has a value no extract changes before it is done.             *)
IndexForms == [op : {"value"}, n : 0 .. StackSize] \cup [op : {"lookahead"}, n : LookaheadBits]
Raises(index, at) == index.op = "lookahead" /\ index.n > TotalBits - at
ValueOf(index, at) == IF index.op = "value" THEN index.n ELSE PeekAt(at, index.n)

(* A write past the end of the stack stores nothing.                           *)
StoreElement(i, header) ==
  hs' = IF i < StackSize THEN [hs EXCEPT !.elements[i + 1] = header] ELSE hs

(* hs[index]: read_lvalue evaluates the index, then the packet is read, then   *)
(* write_lvalue evaluates the index again.                                     *)
ExtractIndexed(index) ==
  /\ Step
  /\ inOrder' = FALSE
  /\ indexed' = TRUE
  /\ LET end == cursor + Width
         short == Raises(index, cursor) \/ Width > Remaining
     IN \/ /\ short
           /\ Raise("PacketTooShort", cursor)
        \/ /\ ~short /\ Raises(index, end)
           /\ Raise("PacketTooShort", end)
        \/ /\ ~short /\ ~Raises(index, end)
           /\ StoreElement(ValueOf(index, end), HeaderFromBits(PeekAt(cursor, Width)))
           /\ cursor' = end
           /\ Continue /\ UNCHANGED h

Advance(n) ==
  /\ Step
  /\ inOrder' = FALSE
  /\ UNCHANGED indexed
  /\ \/ /\ n > Remaining
        /\ Raise("PacketTooShort", cursor)
     \/ /\ n <= Remaining
        /\ cursor' = cursor + n
        /\ Continue /\ UNCHANGED <<hs, h>>

Least(a, b) == IF a < b THEN a ELSE b
ZeroHeaders(n) == [i \in 1 .. n |-> ZeroHeader]

(* Fault: nextIndex does not move with the elements.                           *)
PushFrontKeepsNext(count) ==
  /\ Step
  /\ LET n == Least(count, StackSize)
     IN hs' = [hs EXCEPT !.elements = ZeroHeaders(n) \o SubSeq(@, 1, StackSize - n)]
  /\ inOrder' = FALSE
  /\ Continue /\ UNCHANGED <<cursor, h, indexed>>

PushFront(count) ==
  /\ Step
  /\ LET n == Least(count, StackSize)
     IN hs' = [elements |-> ZeroHeaders(n) \o SubSeq(hs.elements, 1, StackSize - n),
               next_index |-> Least(hs.next_index + n, StackSize)]
  /\ inOrder' = FALSE
  /\ Continue /\ UNCHANGED <<cursor, h, indexed>>

PopFront(count) ==
  /\ Step
  /\ LET n == Least(count, StackSize)
     IN hs' = [elements |-> SubSeq(hs.elements, n + 1, StackSize) \o ZeroHeaders(n),
               next_index |-> IF n > hs.next_index THEN 0 ELSE hs.next_index - n]
  /\ inOrder' = FALSE
  /\ Continue /\ UNCHANGED <<cursor, h, indexed>>

(* setValid and setInvalid keep the stored fields.                             *)
SetValidity(i, valid) ==
  /\ Step
  /\ hs' = IF i < StackSize THEN [hs EXCEPT !.elements[i + 1].valid = valid] ELSE hs
  /\ inOrder' = FALSE
  /\ indexed' = TRUE
  /\ Continue /\ UNCHANGED <<cursor, h>>

Accept ==
  /\ stage = "parse"
  /\ stage' = "accepted"
  /\ UNCHANGED <<packet, cursor, hs, h, error, out, executed, inOrder, indexed>>

(* V1Model.run with empty controls: a parse error does not drop a packet, an   *)
(* unaligned cursor does.                                                      *)
Deparse ==
  /\ stage \in {"accepted", "rejected"}
  /\ \/ /\ cursor % 8 # 0
        /\ stage' = "dropped" /\ UNCHANGED out
     \/ /\ cursor % 8 = 0
        /\ stage' = "sent" /\ out' = Bytes(Emitted) \o Payload
  /\ UNCHANGED <<packet, cursor, hs, h, error, executed, inOrder, indexed>>

BitsNext ==
  \/ ExtractNext \/ ExtractHeader
  \/ \E index \in IndexForms : ExtractIndexed(index)
  \/ \E n \in Counts : Advance(n) \/ PushFront(n) \/ PopFront(n)
  \/ \E i \in 0 .. StackSize, valid \in BOOLEAN : SetValidity(i, valid)
  \/ Accept \/ Deparse

BitsSpec == BitsInit /\ [][BitsNext]_bitVars

-----------------------------------------------------------------------------
(* Types: in particular the cursor stays within the packet and what is sent is *)
(* bytes (Packet.read, Packet.advance, Emitter.to_bytes).                      *)
BitsTypeOK ==
  /\ packet \in Packets /\ cursor \in 0 .. TotalBits
  /\ hs \in [elements : Seq(Header), next_index : 0 .. StackSize] /\ Len(hs.elements) = StackSize
  /\ h \in Header
  /\ stage \in {"parse", "accepted", "rejected", "sent", "dropped"}
  /\ error \in {NoError, "PacketTooShort", "StackOutOfBounds"}
  /\ out \in Seq(0 .. 255)
  /\ executed \in 0 .. MaxStatements /\ inOrder \in BOOLEAN /\ indexed \in BOOLEAN

(* A program that only extracts, each header once and in the order they are    *)
(* emitted, sends exactly the packet it received, parse errors included: the   *)
(* shifts of peek, header_from_bits, header_to_bits, Emitter.write and         *)
(* to_bytes undo each other and the payload starts where the parser stopped.   *)
PassThrough == stage = "sent" /\ inOrder => out = packet

(* While elements are filled only through next, and moved only by push and pop,*)
(* everything at or above nextIndex is invalid: next never overwrites a header *)
(* that would still have been emitted.                                         *)
NextNeverOverwrites ==
  ~indexed => \A i \in 1 .. StackSize : i > hs.next_index => ~hs.elements[i].valid

PacketsKept == PassThrough /\ NextNeverOverwrites

(* A statement that raises has consumed nothing and written nothing            *)
(* (stmt.extract, Packet.read, Packet.advance), but for an extract whose index *)
(* looks ahead, which may have consumed its header: see the next property.     *)
RaiseChangesNothing ==
  [][error # error' =>
       /\ UNCHANGED <<hs, h>>
       /\ UNCHANGED cursor \/ \E n \in LookaheadBits : ExtractIndexed([op |-> "lookahead", n |-> n])]_bitVars

(* "a short packet raises PacketTooShort and consumes nothing": the docstring  *)
(* of stmt.extract, of an extract whose index looks ahead as of any other.     *)
ShortPacketConsumesNothing ==
  [][error' = "PacketTooShort" => UNCHANGED cursor]_bitVars
=============================================================================
