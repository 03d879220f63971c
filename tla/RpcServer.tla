------------------------------ MODULE RpcServer ------------------------------
(***************************************************************************)
(* struct sio_rpc_server (simple_io/sio_rpc.c): downstream connections,    *)
(* registered methods, and responses that a method finishes at once or     *)
(* any time later, when the connection may be gone.                        *)
(*                                                                         *)
(* As in RpcClient a handler is one action up to the point where it calls  *)
(* the user: a method may finish responses and add methods before it       *)
(* returns to the parse loop.                                              *)
(*                                                                         *)
(* Outside the module: the kernel and the peers.  A session is one         *)
(* accepted TCP connection; it delivers complete requests, may break, and  *)
(* a write to it may fail.                                                 *)
(***************************************************************************)
EXTENDS Integers, Sequences

CONSTANTS
  Type,          \* request types
  None,          \* the null pointer
  MaxSession,    \* bound: connections accepted
  MaxRequest     \* bound: requests received on one connection

ASSUME ServerAssumption ==
  /\ MaxSession \in Nat /\ MaxRequest \in Nat
  /\ None \notin Nat

Session == 0..(MaxSession - 1)   \* also the ids that conn_id can take
Number == 1..MaxRequest          \* requests of a session, in the order received

VARIABLES
  dstreams,      \* server->dstreams: the ids it holds
  conn_id,       \* server->conn_id
  session,       \* the session whose stream the dstream with an id owns
  accepted,      \* how many sessions were accepted
  received,      \* how many requests a session has received
  input,         \* requests <<number, type>> the kernel has received
  inbuf,         \* those in sio_stream_buffer
  held,          \* struct sio_rpc_response not finished: <<conn_id, session, number>>
  written,       \* answers <<session, number>> written to a session
  methods,       \* server->methods: the types it holds
  dangling,      \* those whose struct sio_rpc_method was freed
  at,            \* where the running handler waits, "idle" between handlers
  cur,           \* the dstream whose input is being parsed
  closed         \* that dstream was freed by the method

netVars == <<accepted, received, input, inbuf>>
respVars == <<held, written>>
methodVars == <<methods, dangling>>
frameVars == <<at, cur, closed>>
vars == <<dstreams, conn_id, session, netVars, respVars, methodVars, frameVars>>

TypeOK ==
  /\ dstreams \subseteq Session
  /\ conn_id \in 0..MaxSession
  /\ session \in [Session -> Session \cup {None}]
  /\ accepted \in 0..MaxSession
  /\ received \in [Session -> 0..MaxRequest]
  /\ input \in [Session -> Seq(Number \X Type)]
  /\ inbuf \in [Session -> Seq(Number \X Type)]
  /\ held \subseteq Session \X Session \X Number
  /\ written \in [Session -> Seq(Session \X Number)]
  /\ methods \subseteq Type /\ dangling \subseteq methods
  /\ at \in {"idle", "parse", "method", "freed", "undefined"}
  /\ cur \in Session \cup {None}
  /\ closed \in BOOLEAN

Init ==
  /\ dstreams = {} /\ conn_id = 0
  /\ session = [d \in Session |-> None]
  /\ accepted = 0
  /\ received = [s \in Session |-> 0]
  /\ input = [s \in Session |-> <<>>]
  /\ inbuf = [s \in Session |-> <<>>]
  /\ held = {}
  /\ written = [s \in Session |-> <<>>]
  /\ methods = {} /\ dangling = {}
  /\ at = "idle" /\ cur = None /\ closed = FALSE

-----------------------------------------------------------------------------
(* Connections. *)

\* Wrong: the least id that no dstream has is used again.
WrongNewId == CHOOSE d \in Session \ dstreams : \A e \in Session \ dstreams : d <= e

\* server->conn_id++ returns this id.
NewId == conn_id

\* _sio_rpc_dstream_accept.
Accept ==
  /\ at = "idle"
  /\ accepted < MaxSession
  /\ accepted' = accepted + 1
  /\ conn_id' = conn_id + 1
  /\ dstreams' = dstreams \cup {NewId}
  /\ session' = [session EXCEPT ![NewId] = accepted]
  /\ UNCHANGED <<received, input, inbuf, respVars, methodVars, frameVars>>

\* _sio_rpc_dstream_free; bytes that were not parsed are lost.  A parse loop
\* that waits for its method is left with a freed stream.
Free(d) ==
  /\ dstreams' = dstreams \ {d}
  /\ session' = [session EXCEPT ![d] = None]
  /\ input' = [input EXCEPT ![session[d]] = <<>>]
  /\ inbuf' = [inbuf EXCEPT ![session[d]] = <<>>]
  /\ closed' = (closed \/ (at = "method" /\ cur = d))

\* SIO_STREAM_ERROR, SIO_STREAM_CLOSE, or _sio_rpc_dstream_timer on a stream
\* with too many bytes pending.
Drop(d) ==
  /\ at = "idle"
  /\ d \in dstreams
  /\ Free(d)
  /\ UNCHANGED <<conn_id, accepted, received, respVars, methodVars, at, cur>>

\* The kernel has a complete request of type t on the connection of d.
Receive(d, t) ==
  /\ at = "idle"
  /\ d \in dstreams
  /\ received[session[d]] < MaxRequest
  /\ received' = [received EXCEPT ![session[d]] = @ + 1]
  /\ input' = [input EXCEPT ![session[d]] = Append(@, <<received[session[d]] + 1, t>>)]
  /\ UNCHANGED <<dstreams, conn_id, session, accepted, inbuf, respVars, methodVars, frameVars>>

-----------------------------------------------------------------------------
(* SIO_STREAM_DATA, once read has moved some of the input to the buffer: *)
(* _sio_rpc_dstream_parse_request.                                       *)

Data(d) ==
  /\ at = "idle"
  /\ d \in dstreams
  /\ LET s == session[d] IN
     \E k \in 1..Len(input[s]) :
       /\ inbuf' = [inbuf EXCEPT ![s] = @ \o SubSeq(input[s], 1, k)]
       /\ input' = [input EXCEPT ![s] = SubSeq(@, k + 1, Len(@))]
  /\ at' = "parse" /\ cur' = d /\ closed' = FALSE
  /\ UNCHANGED <<dstreams, conn_id, session, accepted, received, respVars, methodVars>>

\* used += SHEAD_ENCODE_SIZE + head.body_len.
Parsed(s) == [inbuf EXCEPT ![s] = Tail(@)]

\* _sio_rpc_dstream_handle_request: no method, the request is ignored; or its
\* method is called with a new response.
ParseRequest ==
  /\ at = "parse"
  /\ LET s == session[cur] IN
     /\ inbuf[s] # <<>>
     /\ inbuf' = Parsed(s)
     /\ LET n == Head(inbuf[s])[1]
            t == Head(inbuf[s])[2] IN
        \/ t \notin methods /\ UNCHANGED <<held, at>>
        \/ t \in methods \ dangling /\ held' = held \cup {<<cur, s, n>>} /\ at' = "method"
        \/ t \in dangling /\ at' = "undefined" /\ UNCHANGED held
  /\ UNCHANGED <<dstreams, conn_id, session, accepted, received, input, written,
                 methodVars, cur, closed>>

\* The method returns: the loop goes on, with a stream it may have freed.
MethodReturn ==
  /\ at = "method"
  /\ at' = IF closed THEN "undefined" ELSE "parse"
  /\ UNCHANGED <<dstreams, conn_id, session, netVars, respVars, methodVars, cur, closed>>

\* Wrong: one request is parsed per event.
WrongParseEnd ==
  /\ at = "parse"
  /\ at' = "idle" /\ cur' = None
  /\ UNCHANGED <<dstreams, conn_id, session, netVars, respVars, methodVars, closed>>

\* No complete request is left.
ParseEnd ==
  /\ at = "parse"
  /\ inbuf[session[cur]] = <<>>
  /\ at' = "idle" /\ cur' = None
  /\ UNCHANGED <<dstreams, conn_id, session, netVars, respVars, methodVars, closed>>

\* The next header does not decode.
ParseMalformed ==
  /\ at = "parse"
  /\ Free(cur)
  /\ at' = "idle" /\ cur' = None
  /\ UNCHANGED <<conn_id, accepted, received, respVars, methodVars>>

-----------------------------------------------------------------------------
(* The user's operations; sio_rpc.h:229 forbids to remove a method in a       *)
(* callback, sio_rpc.h:204 to free the server with responses not finished.    *)

UserRuns == at \in {"idle", "method"}

\* The stream a response is written to is found by its conn_id.
Write(q) ==
  LET s == session[q[1]] IN
  /\ written' = [written EXCEPT ![s] = Append(@, <<q[2], q[3]>>)]
  /\ UNCHANGED <<dstreams, session, input, inbuf, closed>>

\* One of the two writes failed: the answer is not there, the stream stays.
WriteHalf ==
  /\ UNCHANGED <<dstreams, session, input, inbuf, written, closed>>

\* Both failed: `response send failed, close the connection'.
WriteFails(q) ==
  /\ Free(q[1])
  /\ UNCHANGED written

\* Wrong: the response outlives sio_rpc_finish.
WrongRelease(q) == held

\* _sio_rpc_finish.
Release(q) == held \ {q}

\* sio_rpc_finish: an answer to a connection that is gone is dropped.
Finish(q) ==
  /\ UserRuns
  /\ q \in held
  /\ held' = Release(q)
  /\ \/ q[1] \in dstreams /\ (Write(q) \/ WriteHalf \/ WriteFails(q))
     \/ /\ q[1] \notin dstreams
        /\ UNCHANGED <<dstreams, session, input, inbuf, written, closed>>
  /\ UNCHANGED <<conn_id, accepted, received, methodVars, at, cur>>

\* sio_rpc_server_add_method.
AddMethod(t) ==
  /\ UserRuns
  /\ t \notin methods
  /\ methods' = methods \cup {t}
  /\ UNCHANGED <<dstreams, conn_id, session, netVars, respVars, dangling, frameVars>>

\* sio_rpc_server_remove_method frees the method and leaves it in the table;
\* freeing it again is undefined.
RemoveMethod(t) ==
  /\ at = "idle"
  /\ t \in methods
  /\ \/ t \notin dangling /\ dangling' = dangling \cup {t} /\ UNCHANGED at
     \/ t \in dangling /\ at' = "undefined" /\ UNCHANGED dangling
  /\ UNCHANGED <<dstreams, conn_id, session, netVars, respVars, methods, cur, closed>>

\* sio_rpc_server_free frees every method in the table and every connection.
ServerFree ==
  /\ at = "idle"
  /\ held = {}
  /\ at' = IF dangling = {} THEN "freed" ELSE "undefined"
  /\ dstreams' = {}
  /\ session' = [d \in Session |-> None]
  /\ input' = [s \in Session |-> <<>>]
  /\ inbuf' = [s \in Session |-> <<>>]
  /\ methods' = {} /\ dangling' = {}
  /\ UNCHANGED <<conn_id, accepted, received, respVars, cur, closed>>

-----------------------------------------------------------------------------
Next ==
  \/ Accept
  \/ \E d \in Session : Drop(d) \/ Data(d) \/ \E t \in Type : Receive(d, t)
  \/ ParseRequest \/ MethodReturn \/ ParseEnd \/ ParseMalformed
  \/ \E q \in held : Finish(q)
  \/ \E t \in Type : AddMethod(t) \/ RemoveMethod(t)
  \/ ServerFree

Spec == Init /\ [][Next]_vars

\* The loop polls level-triggered, so a stream with input has its event again
\* and again; methods return and an input is finite.  When several streams are
\* ready each gets its event (SF: other handlers come in between).
Fairness ==
  /\ \A d \in Session : SF_vars(Data(d))
  /\ WF_vars(ParseRequest) /\ WF_vars(MethodReturn) /\ WF_vars(ParseEnd)

FairSpec == Spec /\ Fairness

-----------------------------------------------------------------------------
(* Properties. *)

Ran(f) == {f[k] : k \in DOMAIN f}

\* An answer is written to the connection its request came from, though the
\* request is only remembered by conn_id and connections come and go meanwhile.
AnswersGoHome ==
  \A s \in Session : \A k \in 1..Len(written[s]) : written[s][k][1] = s

\* A request is in one place: still unparsed, held by a method, or answered
\* once.  Never answered twice, never handled again after its answer.
Unparsed(s) == inbuf[s] \o input[s]

OncePerRequest ==
  /\ \A s \in Session :
       /\ \A j, k \in 1..Len(written[s]) : written[s][j] = written[s][k] => j = k
       /\ \A j, k \in 1..Len(Unparsed(s)) :
            Unparsed(s)[j][1] = Unparsed(s)[k][1] => j = k
       /\ \A p \in Ran(Unparsed(s)) : <<s, p[1]>> \notin Ran(written[s])
  /\ \A q \in held :
       /\ \A p \in Ran(Unparsed(q[2])) : p[1] # q[3]
       /\ <<q[2], q[3]>> \notin Ran(written[q[2]])

\* Every request that reaches the stream buffer is handed on, though no event
\* announces what is already there, unless its connection is dropped.
RequestsParsed ==
  \A s \in Session :
    (inbuf[s] # <<>> \/ input[s] # <<>>) ~>
      (Unparsed(s) = <<>> \/ at \in {"undefined", "freed"})

\* sio_rpc.h:229: methods can be removed while the server runs, so a request
\* for a removed one is ignored like any unknown type.
RemovedMethodsIgnored == [][ParseRequest => at' # "undefined"]_vars
=============================================================================
