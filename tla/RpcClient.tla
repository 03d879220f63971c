------------------------------ MODULE RpcClient ------------------------------
(***************************************************************************)
(* struct sio_rpc_client (simple_io/sio_rpc.c): upstream connections, the  *)
(* calls waiting on them, per-call timers with retries, reconnection with  *)
(* back-off.                                                               *)
(*                                                                         *)
(* The event loop is single threaded, so a handler runs alone.  It is one  *)
(* action up to the point where it calls the user back: the user may issue *)
(* further calls or add upstreams before returning, so the control point   *)
(* `at' says where the handler waits and the rest of it is another action. *)
(*                                                                         *)
(* A table of calls is a set.  The loops over one visit all of it, which   *)
(* Shash shows of every iteration that does not begin during a rehash.     *)
(*                                                                         *)
(* Outside the module: the kernel and the peer.  A connection attempt may  *)
(* fail, a write on an established connection may fail, an established or  *)
(* connecting stream may go down, and the peer answers in any order what   *)
(* it was sent on the current connection, or never.                        *)
(***************************************************************************)
EXTENDS Integers, Sequences, FiniteSets

CONSTANTS
  Upstream,      \* ip:port pairs
  Request,       \* struct sio_rpc_request, one model value per call
  None,          \* the null pointer
  MaxRetry,      \* bound: largest retry_times a user passes
  RRMod,         \* values of rr_stream, 2^32 in the code
  MaxDelay,      \* largest conn_delay, 256 in the code
  PenaltyLife    \* a connection that lived less is penalised, 5 in the code

ASSUME ClientAssumption ==
  /\ None \notin Upstream /\ None \notin Request
  /\ MaxRetry \in Nat
  /\ RRMod \in Nat \ {0} /\ MaxDelay \in Nat \ {0} /\ PenaltyLife \in Nat

VARIABLES
  upstreams,     \* client->upstreams, the array in order
  rr,            \* client->rr_stream
  stream,        \* upstream->stream: "none", "connecting" or "open"
  socks,         \* sockets opened for an upstream and not closed yet
  nextId,        \* upstream->req_id
  table,         \* upstream->req_status: pairs <<id, request>>
  wire,          \* pairs sent on the current connection, not answered yet
  delay,         \* upstream->conn_delay
  age,           \* time(NULL) - upstream->last_conn_time, saturating
  live,          \* client->req_record
  timers,        \* requests whose timer is armed
  owner,         \* req->upstream
  reqId,         \* req->id
  retries,       \* req->retry_count
  budget,        \* req->retry_times
  cbs,           \* how often the user callback of a request ran
  at,            \* where the running handler waits, "idle" between handlers
  cur,           \* the request whose callback runs
  curUp,         \* the upstream whose input is being parsed
  closed         \* that upstream was reset by the callback

connVars  == <<stream, socks, nextId, table, wire, delay, age>>
reqVars   == <<live, timers, owner, reqId, retries, budget, cbs>>
frameVars == <<at, cur, curUp, closed>>
vars == <<upstreams, rr, connVars, reqVars, frameVars>>

Ids == Nat
MaxAge == IF MaxDelay > PenaltyLife THEN MaxDelay ELSE PenaltyLife
Listed == {upstreams[k] : k \in 1..Len(upstreams)}

\* A callback runs: the handler waits for the user to return.
InCallback == at \in {"answer", "timeout"}

ConnTypeOK ==
  /\ upstreams \in Seq(Upstream)
  /\ rr \in 0..(RRMod - 1)
  /\ stream \in [Upstream -> {"none", "connecting", "open"}]
  /\ socks \in [Upstream -> Int]
  /\ nextId \in [Upstream -> Ids]
  /\ table \in [Upstream -> SUBSET (Ids \X Request)]
  /\ wire \in [Upstream -> SUBSET (Ids \X Request)]
  /\ delay \in [Upstream -> Nat \ {0}]
  /\ age \in [Upstream -> Nat]

CallTypeOK ==
  /\ live \subseteq Request
  /\ timers \subseteq Request
  /\ owner \in [Request -> Upstream \cup {None}]
  /\ reqId \in [Request -> Ids]
  /\ retries \in [Request -> Nat]
  /\ budget \in [Request -> Nat]
  /\ cbs \in [Request -> Nat]

FrameTypeOK ==
  /\ at \in {"idle", "parse", "answer", "timeout", "freed", "undefined"}
  /\ cur \in Request \cup {None}
  /\ curUp \in Upstream \cup {None}
  /\ closed \in BOOLEAN

TypeOK == ConnTypeOK /\ CallTypeOK /\ FrameTypeOK

Init ==
  /\ upstreams = <<>>
  /\ rr = 0
  /\ stream = [u \in Upstream |-> "none"]
  /\ socks = [u \in Upstream |-> 0]
  /\ nextId = [u \in Upstream |-> 0]
  /\ table = [u \in Upstream |-> {}]
  /\ wire = [u \in Upstream |-> {}]
  /\ delay = [u \in Upstream |-> 1]
  /\ age = [u \in Upstream |-> 0]
  /\ live = {}
  /\ timers = {}
  /\ owner = [r \in Request |-> None]
  /\ reqId = [r \in Request |-> 0]
  /\ retries = [r \in Request |-> 0]
  /\ budget = [r \in Request |-> 0]
  /\ cbs = [r \in Request |-> 0]
  /\ at = "idle" /\ cur = None /\ curUp = None /\ closed = FALSE

-----------------------------------------------------------------------------
(* Connections. *)

Doubled(d) == IF d >= MaxDelay THEN MaxDelay ELSE d * 2

\* conn_delay after _sio_rpc_reset_upstream.
Penalty(u) == IF age[u] < PenaltyLife THEN Doubled(delay[u]) ELSE 1

\* Requests of u that wait for an answer, tbl being the current req_status.
Waiting(u, tbl) == {p[2] : p \in tbl[u]}

\* _sio_rpc_upstream_connect: the attempt succeeds or fails at once.
Connect(u) ==
  /\ stream' = [stream EXCEPT ![u] = "connecting"]
  /\ socks' = [socks EXCEPT ![u] = @ + 1]
  /\ age' = [age EXCEPT ![u] = 0]
  /\ UNCHANGED delay

ConnectFails(u) ==
  /\ delay' = [delay EXCEPT ![u] = Doubled(@)]
  /\ age' = [age EXCEPT ![u] = 0]
  /\ UNCHANGED <<stream, socks>>

\* Wrong: the calls lose their upstream but stay in its table.
WrongCleared(u, tbl, extra) ==
  /\ nextId' = [nextId EXCEPT ![u] = 0]
  /\ table' = tbl
  /\ wire' = [wire EXCEPT ![u] = {}]
  /\ owner' = [q \in Request |->
                 IF q \in Waiting(u, tbl) \cup extra THEN None ELSE owner[q]]

\* The effect of _sio_rpc_reset_upstream on calls: ids restart and whoever
\* waits, and the calls in extra, lose their upstream.
Cleared(u, tbl, extra) ==
  /\ nextId' = [nextId EXCEPT ![u] = 0]
  /\ table' = [tbl EXCEPT ![u] = {}]
  /\ wire' = [wire EXCEPT ![u] = {}]
  /\ owner' = [q \in Request |->
                 IF q \in Waiting(u, tbl) \cup extra THEN None ELSE owner[q]]

Disconnect(u, tbl, extra) ==
  /\ stream' = [stream EXCEPT ![u] = "none"]
  /\ socks' = [socks EXCEPT ![u] = @ - 1]
  /\ Cleared(u, tbl, extra)

Reset(u, tbl, extra) ==
  /\ Disconnect(u, tbl, extra)
  /\ delay' = [delay EXCEPT ![u] = Penalty(u)]
  /\ UNCHANGED age

-----------------------------------------------------------------------------
(* Choosing an upstream and sending a request, in tbl being the tables. *)

\* Wrong: the counter does not wrap.
WrongRot == rr + 1

Rot == (rr + 1) % RRMod

\* The k-th upstream _sio_rpc_choose_upstream examines (uint32 arithmetic).
Slot(k) == upstreams[(((Rot + k) % RRMod) % Len(upstreams)) + 1]

Usable == {k \in 0..(Len(upstreams) - 1) : stream[Slot(k)] # "none"}

LeastLoaded(tbl) ==
  {k \in Usable : \A j \in Usable :
     Cardinality(tbl[Slot(k)]) <= Cardinality(tbl[Slot(j)])}

\* `pending <= min_pending': among equals the one examined last wins.
Choice(tbl) ==
  {Slot(k) : k \in {m \in LeastLoaded(tbl) : \A j \in LeastLoaded(tbl) : j <= m}}

\* Wrong: req_id is not incremented.
WrongTransmit(u, r, tbl) ==
  /\ reqId' = [reqId EXCEPT ![r] = nextId[u]]
  /\ nextId' = nextId
  /\ table' = [tbl EXCEPT ![u] = @ \cup {<<nextId[u], r>>}]
  /\ wire' = [wire EXCEPT ![u] = @ \cup {<<nextId[u], r>>}]
  /\ owner' = [owner EXCEPT ![r] = u]

\* _sio_rpc_call: both writes succeed and the call is recorded.
Transmit(u, r, tbl) ==
  /\ reqId' = [reqId EXCEPT ![r] = nextId[u]]
  /\ nextId' = [nextId EXCEPT ![u] = @ + 1]
  /\ table' = [tbl EXCEPT ![u] = @ \cup {<<nextId[u], r>>}]
  /\ wire' = [wire EXCEPT ![u] = @ \cup {<<nextId[u], r>>}]
  /\ owner' = [owner EXCEPT ![r] = u]

Send(u, r, tbl) ==
  /\ Transmit(u, r, tbl)
  /\ UNCHANGED <<stream, socks, delay, age, closed>>

\* _sio_rpc_call: a write fails.  Only an established stream writes at once,
\* a connecting one buffers.
SendFails(u, r, tbl) ==
  /\ stream[u] = "open"
  /\ Reset(u, tbl, {r})
  /\ reqId' = [reqId EXCEPT ![r] = nextId[u]]
  /\ closed' = (closed \/ (at = "answer" /\ curUp = u))

NotSent(r, tbl) ==
  /\ owner' = [owner EXCEPT ![r] = None]
  /\ table' = tbl
  /\ UNCHANGED <<reqId, nextId, wire, closed>>

\* _sio_rpc_choose_upstream and, if it finds one, _sio_rpc_call.
Dispatch(r, tbl) ==
  /\ rr' = Rot
  /\ \/ \E u \in Choice(tbl) : Send(u, r, tbl) \/ SendFails(u, r, tbl)
     \/ /\ Usable = {} /\ upstreams # <<>>
        /\ Connect(Slot(0)) /\ Transmit(Slot(0), r, tbl) /\ UNCHANGED closed
     \/ /\ Usable = {} /\ upstreams # <<>>
        /\ ConnectFails(Slot(0)) /\ NotSent(r, tbl)
     \/ /\ upstreams = <<>>
        /\ NotSent(r, tbl)
        /\ UNCHANGED <<stream, socks, delay, age>>

-----------------------------------------------------------------------------
(* The user's operations.  Calls and new upstreams are legal in callbacks;  *)
(* sio_rpc.h:159 forbids to remove an upstream there, sio_rpc.c:67 to call  *)
(* while the client is being released.                                      *)

UserRuns == at = "idle" \/ InCallback

\* sio_rpc_call.
Call(r) ==
  /\ UserRuns
  /\ r \notin live /\ cbs[r] = 0
  /\ \E n \in 0..MaxRetry : budget' = [budget EXCEPT ![r] = n]
  /\ live' = live \cup {r}
  /\ timers' = timers \cup {r}
  /\ Dispatch(r, table)
  /\ UNCHANGED <<upstreams, retries, cbs, at, cur, curUp>>

\* sio_rpc_add_upstream; delay and age have the values malloc'ed memory gets.
AddUpstream(u) ==
  /\ UserRuns
  /\ u \notin Listed
  /\ Connect(u) \/ ConnectFails(u)
  /\ upstreams' = Append(upstreams, u)
  /\ UNCHANGED <<rr, nextId, table, wire, reqVars, frameVars>>

\* Wrong: the array is shortened but the last upstream is not moved.
WrongWithoutSlot(k) == SubSeq(upstreams, 1, Len(upstreams) - 1)

\* The array without its k-th element: the last one takes the free slot.
WithoutSlot(k) ==
  [j \in 1..(Len(upstreams) - 1) |->
     IF j = k THEN upstreams[Len(upstreams)] ELSE upstreams[j]]

\* sio_rpc_remove_upstream and _sio_rpc_remove_upstream.
RemoveUpstream(u) ==
  /\ at = "idle"
  /\ \E k \in 1..Len(upstreams) :
       upstreams[k] = u /\ upstreams' = WithoutSlot(k)
  /\ IF stream[u] # "none"
       THEN Disconnect(u, table, {})
       ELSE UNCHANGED <<stream, socks, nextId, table, wire, owner>>
  /\ delay' = [delay EXCEPT ![u] = 1]
  /\ age' = [age EXCEPT ![u] = 0]
  /\ UNCHANGED <<rr, live, timers, reqId, retries, budget, cbs, frameVars>>

\* sio_rpc_client_free: every call on record is called back and freed.
ClientFree ==
  /\ at = "idle"
  /\ at' = "freed"
  /\ upstreams' = <<>>
  /\ stream' = [u \in Upstream |-> "none"]
  /\ socks' = [u \in Upstream |-> IF stream[u] = "none" THEN socks[u] ELSE socks[u] - 1]
  /\ nextId' = [u \in Upstream |-> 0]
  /\ table' = [u \in Upstream |-> {}]
  /\ wire' = [u \in Upstream |-> {}]
  /\ owner' = [r \in Request |-> None]
  /\ cbs' = [r \in Request |-> IF r \in live THEN cbs[r] + 1 ELSE cbs[r]]
  /\ live' = {} /\ timers' = timers \ live
  /\ UNCHANGED <<rr, delay, age, reqId, retries, budget, cur, curUp, closed>>

-----------------------------------------------------------------------------
(* Timers. *)

\* Wrong: the entry of the expired attempt stays.
WrongCancelled(r) == table

\* req_status once the entry of r is erased by _sio_rpc_call_timer.
Cancelled(r) ==
  IF owner[r] = None THEN table
  ELSE [table EXCEPT ![owner[r]] = {p \in @ : p[1] # reqId[r]}]

\* _sio_rpc_call_timer: the last period is over, call the user back.
GiveUp(r) ==
  /\ retries[r] >= budget[r]
  /\ table' = Cancelled(r)
  /\ owner' = [owner EXCEPT ![r] = None]
  /\ timers' = timers \ {r}
  /\ cbs' = [cbs EXCEPT ![r] = @ + 1]
  /\ at' = "timeout" /\ cur' = r
  /\ UNCHANGED <<rr, stream, socks, nextId, wire, delay, age, reqId, closed>>

\* Wrong: the timer is not started again.
WrongRetry(r) ==
  /\ retries[r] < budget[r]
  /\ Dispatch(r, Cancelled(r))
  /\ timers' = timers \ {r}
  /\ UNCHANGED <<cbs, at, cur>>

\* _sio_rpc_call_timer: start over on whatever upstream the rotation offers.
Retry(r) ==
  /\ retries[r] < budget[r]
  /\ Dispatch(r, Cancelled(r))
  /\ UNCHANGED <<timers, cbs, at, cur>>

RequestTimeout(r) ==
  /\ at = "idle"
  /\ r \in timers
  /\ GiveUp(r) \/ Retry(r)
  /\ retries' = [retries EXCEPT ![r] = @ + 1]
  /\ UNCHANGED <<upstreams, live, budget, curUp>>

\* The user returns, the call is freed.
TimeoutReturn ==
  /\ at = "timeout"
  /\ live' = live \ {cur}
  /\ at' = "idle" /\ cur' = None
  /\ UNCHANGED <<upstreams, rr, connVars, timers, owner, reqId, retries,
                 budget, cbs, curUp, closed>>

\* Wrong: a connection is started although there is one.
WrongReconnect(u) ==
  /\ age[u] >= delay[u]
  /\ Connect(u) \/ ConnectFails(u)
  /\ UNCHANGED <<nextId, table, wire, owner>>

\* _sio_rpc_upstream_timer on a missing connection whose delay is over.
Reconnect(u) ==
  /\ stream[u] = "none" /\ age[u] >= delay[u]
  /\ Connect(u) \/ ConnectFails(u)
  /\ UNCHANGED <<nextId, table, wire, owner>>

\* _sio_rpc_upstream_timer on a connection with too many bytes pending: it is
\* reset and, when it is older than its new delay, replaced at once.
Replace(u) ==
  /\ \/ /\ stream' = [stream EXCEPT ![u] = "connecting"]
        /\ delay' = [delay EXCEPT ![u] = Penalty(u)]
        /\ UNCHANGED socks
     \/ /\ stream' = [stream EXCEPT ![u] = "none"]
        /\ delay' = [delay EXCEPT ![u] = Doubled(Penalty(u))]
        /\ socks' = [socks EXCEPT ![u] = @ - 1]
  /\ age' = [age EXCEPT ![u] = 0]
  /\ Cleared(u, table, {})

Overfull(u) ==
  /\ stream[u] # "none"
  /\ \/ age[u] < Penalty(u) /\ Reset(u, table, {})
     \/ age[u] >= Penalty(u) /\ Replace(u)

UpstreamTimer(u) ==
  /\ at = "idle"
  /\ u \in Listed
  /\ Reconnect(u) \/ Overfull(u)
  /\ UNCHANGED <<upstreams, rr, live, timers, reqId, retries, budget, cbs, frameVars>>

\* A second passes; ages beyond MaxAge are alike.
Tick ==
  /\ at = "idle"
  /\ \E u \in Listed : age[u] < MaxAge
  /\ age' = [u \in Upstream |-> IF u \in Listed /\ age[u] < MaxAge
                                  THEN age[u] + 1 ELSE age[u]]
  /\ UNCHANGED <<upstreams, rr, stream, socks, nextId, table, wire, delay,
                 reqVars, frameVars>>

-----------------------------------------------------------------------------
(* Stream events: _sio_rpc_upstream_callback. *)

Connected(u) ==
  /\ at = "idle"
  /\ stream[u] = "connecting"
  /\ stream' = [stream EXCEPT ![u] = "open"]
  /\ UNCHANGED <<upstreams, rr, socks, nextId, table, wire, delay, age,
                 reqVars, frameVars>>

\* SIO_STREAM_ERROR and SIO_STREAM_CLOSE.
Down(u) ==
  /\ at = "idle"
  /\ stream[u] # "none"
  /\ Reset(u, table, {})
  /\ UNCHANGED <<upstreams, rr, live, timers, reqId, retries, budget, cbs, frameVars>>

\* SIO_STREAM_DATA: _sio_rpc_upstream_parse_response starts.
Data(u) ==
  /\ at = "idle"
  /\ stream[u] = "open"
  /\ at' = "parse" /\ curUp' = u /\ closed' = FALSE
  /\ UNCHANGED <<upstreams, rr, connVars, reqVars, cur>>

\* The next complete message in the input is the answer to <<i, s>>.
Arrives(i, s) ==
  /\ at = "parse"
  /\ <<i, s>> \in wire[curUp]
  /\ wire' = [wire EXCEPT ![curUp] = @ \ {<<i, s>>}]
  /\ UNCHANGED <<upstreams, rr, stream, socks, nextId, delay, age, live, timers,
                 reqId, retries, budget, curUp, closed>>

\* It finds a call of its type: the call is erased and the user called back.
Answered(i, s) ==
  /\ Arrives(i, s)
  /\ \E q \in Request :
       /\ <<i, q>> \in table[curUp]
       /\ table' = [table EXCEPT ![curUp] = {p \in @ : p[1] # i}]
       /\ cbs' = [cbs EXCEPT ![q] = @ + 1]
       /\ at' = "answer" /\ cur' = q
  /\ UNCHANGED owner

\* It finds a call of another type: the call is left to its timer.
Mismatched(i, s) ==
  /\ Arrives(i, s)
  /\ \E q \in Request :
       /\ <<i, q>> \in table[curUp]
       /\ table' = [table EXCEPT ![curUp] = {p \in @ : p[1] # i}]
       /\ owner' = [owner EXCEPT ![q] = None]
  /\ UNCHANGED <<cbs, at, cur>>

\* It finds no call: the answer came after the timeout.
Late(i, s) ==
  /\ Arrives(i, s)
  /\ \A p \in table[curUp] : p[1] # i
  /\ UNCHANGED <<table, owner, cbs, at, cur>>

\* Wrong: the timer of the answered call is not stopped.
WrongAnswerReturn ==
  /\ at = "answer"
  /\ live' = live \ {cur}
  /\ at' = IF closed THEN "undefined" ELSE "parse"
  /\ cur' = None
  /\ UNCHANGED <<upstreams, rr, connVars, timers, owner, reqId, retries, budget,
                 cbs, curUp, closed>>

\* The user returns: the timer is stopped, the call freed, and the loop goes on
\* with the input of a stream that the callback may have freed.
AnswerReturn ==
  /\ at = "answer"
  /\ timers' = timers \ {cur}
  /\ live' = live \ {cur}
  /\ at' = IF closed THEN "undefined" ELSE "parse"
  /\ cur' = None
  /\ UNCHANGED <<upstreams, rr, connVars, owner, reqId, retries, budget, cbs,
                 curUp, closed>>

\* No complete message is left.
ParseEnd ==
  /\ at = "parse"
  /\ at' = "idle" /\ curUp' = None
  /\ UNCHANGED <<upstreams, rr, connVars, reqVars, cur, closed>>

\* The next header does not decode.
ParseMalformed ==
  /\ at = "parse"
  /\ Reset(curUp, table, {})
  /\ at' = "idle" /\ curUp' = None
  /\ UNCHANGED <<upstreams, rr, live, timers, reqId, retries, budget, cbs, cur, closed>>

-----------------------------------------------------------------------------
Respond(i, s) == Answered(i, s) \/ Mismatched(i, s) \/ Late(i, s)

Next ==
  \/ \E r \in Request : Call(r) \/ RequestTimeout(r)
  \/ \E u \in Upstream : \/ AddUpstream(u) \/ RemoveUpstream(u) \/ UpstreamTimer(u)
                         \/ Connected(u) \/ Down(u) \/ Data(u)
  \/ \E u \in Upstream : \E p \in wire[u] : Respond(p[1], p[2])
  \/ ClientFree \/ TimeoutReturn \/ Tick
  \/ AnswerReturn \/ ParseEnd \/ ParseMalformed

Spec == Init /\ [][Next]_vars

\* The user's callbacks return and an input is finite, so a handler ends.
\* sio_run serves the timers that are due before it polls, so a due timer is
\* served however often streams have events (SF).
Fairness ==
  /\ WF_vars(TimeoutReturn) /\ WF_vars(AnswerReturn) /\ WF_vars(ParseEnd)
  /\ \A r \in Request : SF_vars(RequestTimeout(r))

FairSpec == Spec /\ Fairness

-----------------------------------------------------------------------------
(* Properties. *)

\* The table of a connection and the calls agree: an entry is a live call that
\* names this upstream and this id, and a live call that names an upstream is
\* in its table, unless it is being answered.  Otherwise the assert on
\* shash_erase in _sio_rpc_call_timer fails, or a freed call is called back.
Ownership ==
  /\ \A u \in Upstream : \A p \in table[u] :
       p[2] \in live /\ owner[p[2]] = u /\ reqId[p[2]] = p[1]
  /\ \A r \in live : owner[r] # None =>
       \/ <<reqId[r], r>> \in table[owner[r]]
       \/ at = "answer" /\ cur = r

\* The ids of a connection are below its counter, and a connection that is
\* gone leaves no id, entry or unanswered message behind: _sio_rpc_call never
\* inserts an id that is taken.
FreshIds ==
  \A u \in Upstream :
    /\ \A p \in table[u] \cup wire[u] : p[1] < nextId[u]
    /\ stream[u] = "none" => nextId[u] = 0 /\ table[u] = {} /\ wire[u] = {}

\* An answer reaches the call it answers: late answers of retried calls and
\* ids that restart on a new connection never meet another call.
AnswersMatch ==
  \A u \in Upstream :
    /\ table[u] \subseteq wire[u]
    /\ \A p \in wire[u], q \in table[u] : p[1] = q[1] => p = q

\* Every live call has a timer that will wake it, except while its timeout is
\* reported, and no timer belongs to a freed call.
LiveCallsAreTimed ==
  /\ timers \subseteq live
  /\ \A r \in live \ timers : at = "timeout" /\ cur = r

\* One socket per connection: none is leaked or closed twice by the resets and
\* reconnections that timers, events and calls start.
OneSocket ==
  \A u \in Upstream : socks[u] = IF stream[u] = "none" THEN 0 ELSE 1

\* The array has no duplicates (sio_rpc.h:65), and filling a freed slot loses
\* no other upstream: whoever has a connection is in the array.
ArraySound ==
  /\ \A j, k \in 1..Len(upstreams) : upstreams[j] = upstreams[k] => j = k
  /\ \A u \in Upstream : stream[u] # "none" => u \in Listed

\* What the user sees of a call.
phase ==
  [r \in Request |-> IF cbs[r] = 0 THEN IF r \in live THEN "pending" ELSE "new"
                     ELSE IF cbs[r] = 1 THEN "done" ELSE "twice"]

Contract == INSTANCE RpcContract

\* The client keeps the promise of RpcContract: a callback runs at most once,
\* for a call that was issued, and no call is dropped without it.
KeepsContract == Contract!Spec

\* Every call is called back and freed, unless a callback made the parse loop
\* use a freed stream.
CallCompletes ==
  \A r \in Request : (r \in live) ~> (r \notin live \/ at = "undefined")

\* The callback of sio_rpc_client.c's test issues the next call: a handler
\* never goes on with memory such a call has freed.
NoUseAfterClose == at # "undefined"
=============================================================================
