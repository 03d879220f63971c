------------------------------- MODULE Shead -------------------------------
(***************************************************************************)
(* The header of a message on the wire (simple_head/shead.c): five         *)
(* unsigned numbers at fixed places, most significant byte first whatever  *)
(* the byte order of the host.                                             *)
(*                                                                         *)
(* A number of w bytes is a function from 1..w, most significant byte      *)
(* first.  What the code does to the bytes of a number in memory is        *)
(* modelled with the order the host keeps them in.                         *)
(***************************************************************************)
EXTENDS Integers, Sequences

Byte == 0..255
Order == {"little", "big"}       \* of the bytes in a host's memory

SHEAD_ENCODE_SIZE == 24
SHEAD_MAGIC_NUM == <<242, 161, 194, 204>>     \* 0xF2A1C2CC

Heads == [id : [1..8 -> Byte], type : [1..4 -> Byte],
         reserved : [1..4 -> Byte], body_len : [1..4 -> Byte]]

Reversed(b, w) == [i \in 1..w |-> b[w + 1 - i]]

\* The bytes of the number v in the memory of a host, and the number that
\* bytes in its memory are.
InMemory(v, w, order) == IF order = "little" THEN Reversed(v, w) ELSE v

\* The bytes of a number are reversed on a host that keeps the least first.
_shead_check_bigendian(b, w, order) ==
  IF order = "little" THEN Reversed(b, w) ELSE b

\* What is copied to the output for v.
Wire(v, w, order) == _shead_check_bigendian(InMemory(v, w, order), w, order)

\* What v becomes that is copied from the input at an offset.
Read(input, off, w, order) ==
  InMemory(_shead_check_bigendian([i \in 1..w |-> input[off + i]], w, order), w, order)

\* shead_encode, on a host of that byte order.
Encode(head, order) ==
  [i \in 1..SHEAD_ENCODE_SIZE |->
     CASE i <= 8 -> Wire(head.id, 8, order)[i]
       [] i \in 9..12 -> Wire(head.type, 4, order)[i - 8]
       [] i \in 13..16 -> Wire(SHEAD_MAGIC_NUM, 4, order)[i - 12]
       [] i \in 17..20 -> Wire(head.reserved, 4, order)[i - 16]
       [] i \in 21..24 -> Wire(head.body_len, 4, order)[i - 20]]

\* shead_decode refuses what does not have the magic number at its place.
Valid(input, order) == Read(input, 12, 4, order) = SHEAD_MAGIC_NUM

Decode(input, order) ==
  [id |-> Read(input, 0, 8, order), type |-> Read(input, 8, 4, order),
   reserved |-> Read(input, 16, 4, order), body_len |-> Read(input, 20, 4, order)]
=============================================================================
