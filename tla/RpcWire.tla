------------------------------ MODULE RpcWire ------------------------------
(***************************************************************************)
(* One direction of an RPC connection, byte by byte: messages are written  *)
(* as a header (Shead) and a body (_sio_rpc_call, sio_rpc_finish), arrive  *)
(* in pieces of any size, and are cut out of the input again by the parse  *)
(* loop (_sio_rpc_upstream_parse_response, _sio_rpc_dstream_parse_request).*)
(* RpcClient and RpcServer take whole messages for granted: this is why    *)
(* they may, and where not.                                                *)
(*                                                                         *)
(* A write may fail and then takes nothing.  The bytes of the i-th body    *)
(* are all i.  What a closed connection had sent may still arrive.         *)
(***************************************************************************)
EXTENDS Shead, SequencesExt

CONSTANTS
  Messages,          \* bound: messages sent
  BodyLen            \* lengths of bodies

WireAssumption ==
  Messages \in 0..255 /\ BodyLen \subseteq 0..255

VARIABLES
  direction,         \* "request" or "answer"
  from, to,          \* the byte orders of the hosts
  sent,              \* messages of which all bytes were sent
  attempts,          \* messages written, wholly or not
  half,              \* of some message only the header or only the body was sent
  closed,            \* the writer has closed the connection
  wire,              \* bytes under way
  input,             \* the reader's input buffer
  parsed,            \* messages cut out of the input
  refused            \* the reader has met a malformed header, and closed

vars == <<direction, from, to, sent, attempts, half, closed, wire, input,
          parsed, refused>>

Number(b) == 16777216 * b[1] + 65536 * b[2] + 256 * b[3] + b[4]

Message(i, n) ==
  [head |-> [id |-> <<0, 0, 0, 0, 0, 0, 0, i>>, type |-> <<0, 0, 0, 1>>,
             reserved |-> <<0, 0, 0, 0>>, body_len |-> <<0, 0, 0, n>>],
   body |-> [j \in 1..n |-> i]]

TypeOK ==
  /\ direction \in {"request", "answer"}
  /\ {from, to} \subseteq Order
  /\ attempts \in 0..Messages
  /\ {half, closed, refused} \subseteq BOOLEAN
  /\ wire \in Seq(Byte) /\ input \in Seq(Byte)
  /\ Len(sent) <= attempts

Init ==
  /\ direction \in {"request", "answer"}
  /\ from \in Order /\ to \in Order
  /\ sent = <<>> /\ attempts = 0 /\ half = FALSE /\ closed = FALSE
  /\ wire = <<>> /\ input = <<>> /\ parsed = <<>> /\ refused = FALSE

\* Wrong: a client goes on after half a request.
WrongGivesUp(head, body) == ~head /\ ~body

\* Whether the connection is given up after the two writes: a client gives it
\* up unless both succeed, a server only if both fail.
GivesUp(head, body) ==
  IF direction = "request" THEN ~(head /\ body) ELSE ~head /\ ~body

\* The writer writes a message; head and body say which writes succeed.
Send(n, head, body) ==
  LET m == Message(attempts + 1, n) IN
  /\ attempts < Messages /\ ~closed
  /\ attempts' = attempts + 1
  /\ sent' = IF head /\ (body \/ n = 0) THEN Append(sent, m) ELSE sent
  /\ half' = (half \/ (n > 0 /\ head # body))
  /\ closed' = GivesUp(head, body)
  /\ wire' = wire \o (IF head THEN Encode(m.head, from) ELSE <<>>)
                  \o (IF body THEN m.body ELSE <<>>)
  /\ UNCHANGED <<direction, from, to, input, parsed, refused>>

-----------------------------------------------------------------------------
\* The loop goes on at used: a header is there, and malformed or with its body.
Complete(data, used) ==
  LET left == Len(data) - used IN
  /\ left >= SHEAD_ENCODE_SIZE
  /\ ~Valid(SubSeq(data, used + 1, used + SHEAD_ENCODE_SIZE), to)
       \/ left - SHEAD_ENCODE_SIZE >=
            Number(Decode(SubSeq(data, used + 1, used + SHEAD_ENCODE_SIZE), to).body_len)

\* What the parse loop makes of the data from an offset on: the messages, the
\* bytes used, and whether all headers were well formed.
ParseFrom(data) ==
  LET parse[used \in 0..Len(data)] ==
        IF ~Complete(data, used) THEN [msgs |-> <<>>, used |-> used, ok |-> TRUE]
        ELSE LET bytes == SubSeq(data, used + 1, used + SHEAD_ENCODE_SIZE)
                 head == Decode(bytes, to)
                 end == used + SHEAD_ENCODE_SIZE + Number(head.body_len)
             IN IF ~Valid(bytes, to) THEN [msgs |-> <<>>, used |-> used, ok |-> FALSE]
                ELSE [parse[end] EXCEPT !.msgs =
                        <<[head |-> head,
                           body |-> SubSeq(data, used + SHEAD_ENCODE_SIZE + 1, end)]>> \o @]
  IN parse

Parse(data) == ParseFrom(data)[0]

\* n bytes arrive and the reader parses its input.
Receive(n) ==
  LET data == input \o SubSeq(wire, 1, n)
      p == Parse(data)
  IN
  /\ ~refused
  /\ wire' = SubSeq(wire, n + 1, Len(wire))
  /\ parsed' = parsed \o p.msgs
  /\ refused' = ~p.ok
  /\ input' = IF p.ok THEN SubSeq(data, p.used + 1, Len(data)) ELSE <<>>
  /\ UNCHANGED <<direction, from, to, sent, attempts, half, closed>>

Next ==
  \/ \E n \in BodyLen, head, body \in BOOLEAN : Send(n, head, body)
  \/ \E n \in 1..Len(wire) : Receive(n)

Spec == Init /\ [][Next]_vars

-----------------------------------------------------------------------------
(* Properties. *)

\* What is parsed are messages that were sent, whole and in order, however the
\* bytes arrive, between hosts of any byte orders; and for requests even when
\* writes fail.
MessagesWhole == direction = "request" \/ ~half => IsPrefix(parsed, sent)

\* When all bytes have arrived every message has been parsed: the loop leaves
\* no complete message in the buffer, for which no event would come.
NothingStranded ==
  wire = <<>> /\ ~half /\ ~refused => parsed = sent /\ input = <<>>
=============================================================================
