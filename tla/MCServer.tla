------------------------------ MODULE MCServer ------------------------------
(* RpcServer, below it RpcWire, and RpcClient with its fairness, for TLC.      *)
(* They share no state: a behaviour is one of the server, of the wire or of    *)
(* the client.  Two connections with two requests each; bodies that are empty, *)
(* shorter than a header, and as long as one, so that a body without its       *)
(* header is taken for one; two calls over one upstream with one retry each,   *)
(* so that each can hold up the other.  No symmetry: the run checks liveness.  *)
EXTENDS RpcServer

CONSTANTS
  Messages, BodyLen,
  Upstream, Request, MaxRetry, RRMod, MaxDelay, PenaltyLife

VARIABLES
  component,
  direction, from, to, sent, attempts, half, gone, wire, bytes, parsed, refused,
  upstreams, rr, stream, socks, nextId, table, asked, delay, age, live, timers,
  owner, reqId, retries, budget, cbs, stands, answering, reading, reset

wireVars ==
  <<direction, from, to, sent, attempts, half, gone, wire, bytes, parsed, refused>>

callVars ==
  <<upstreams, rr, stream, socks, nextId, table, asked, delay, age, live, timers,
    owner, reqId, retries, budget, cbs, stands, answering, reading, reset>>

W == INSTANCE RpcWire WITH closed <- gone, input <- bytes
C == INSTANCE RpcClient WITH wire <- asked, at <- stands, cur <- answering,
                             curUp <- reading, closed <- reset

WireAssumption == W!WireAssumption
ASSUME WireAssumption

SystemInit ==
  /\ component \in {"server", "wire", "client"}
  /\ Init /\ W!Init /\ C!Init
  /\ component # "wire" => direction = "request" /\ <<from, to>> = <<"big", "big">>

ServerStep ==
  component = "server" /\ Next /\ UNCHANGED <<component, wireVars, callVars>>

Send ==
  /\ component = "wire"
  /\ \E n \in BodyLen, head, body \in BOOLEAN : W!Send(n, head, body)
  /\ UNCHANGED <<component, vars, callVars>>

Arrive ==
  /\ component = "wire"
  /\ \E n \in 1..Len(wire) : W!Receive(n)
  /\ UNCHANGED <<component, vars, callVars>>

ClientStep ==
  component = "client" /\ C!Next /\ UNCHANGED <<component, vars, wireVars>>

SystemNext == ServerStep \/ Send \/ Arrive \/ ClientStep

\* The fairness of RpcServer and of RpcClient.
SystemSpec ==
  /\ SystemInit /\ [][SystemNext]_<<component, vars, wireVars, callVars>>
  /\ Fairness
  /\ WF_callVars(component = "client" /\ C!TimeoutReturn)
  /\ WF_callVars(component = "client" /\ C!AnswerReturn)
  /\ WF_callVars(component = "client" /\ C!ParseEnd)
  /\ \A r \in Request : SF_callVars(component = "client" /\ C!RequestTimeout(r))

-----------------------------------------------------------------------------
\* Messages are parsed whole and in order, and none that is complete stays in
\* the buffer.
WireSound == W!MessagesWhole /\ W!NothingStranded

\* Every call is called back and freed, whatever becomes of its connections.
CallCompletes == C!CallCompletes
=============================================================================
