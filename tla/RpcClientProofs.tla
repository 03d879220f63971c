--------------------------- MODULE RpcClientProofs ---------------------------
(***************************************************************************)
(* The safety invariants of RpcClient hold for every number of upstreams   *)
(* and calls and every bound.  IInv is inductive; it adds to them what a   *)
(* handler knows while it waits for the user.                              *)
(***************************************************************************)
EXTENDS RpcClient, SequenceTheorems, TLAPS

\* What holds at each control point.
Handler ==
  /\ at \in {"parse", "answer"} => curUp \in Upstream
  /\ at = "parse" => stream[curUp] = "open"
  /\ at = "answer" => closed \/ stream[curUp] = "open"
  /\ at = "answer" => /\ cur \in live
                      /\ \A u \in Upstream : \A p \in table[u] : p[2] # cur
  /\ at = "timeout" => cur \in live /\ cur \notin timers /\ owner[cur] = None
  /\ \A r \in live : cbs[r] = IF InCallback /\ cur = r THEN 1 ELSE 0

IInv ==
  /\ TypeOK
  /\ Ownership
  /\ FreshIds
  /\ AnswersMatch
  /\ LiveCallsAreTimed
  /\ OneSocket
  /\ ArraySound
  /\ Handler

-----------------------------------------------------------------------------
(* Types. *)

\* A table is a set of pairs, so the calls in it are calls.
LEMMA WaitingType ==
  ASSUME NEW u \in Upstream, NEW tbl \in [Upstream -> SUBSET (Ids \X Request)]
  PROVE  Waiting(u, tbl) \subseteq Request
BY DEF Waiting

\* The rotation and the back-off stay in range.
LEMMA RotType ==
  ASSUME ConnTypeOK PROVE Rot \in 0..(RRMod - 1)
BY ClientAssumption DEF Rot, ConnTypeOK

LEMMA DoubledType ==
  ASSUME NEW d \in Nat \ {0} PROVE Doubled(d) \in Nat \ {0}
BY ClientAssumption DEF Doubled

\* A slot of a non-empty array is an upstream.
LEMMA SlotType ==
  ASSUME ConnTypeOK, upstreams # <<>>, NEW k \in Nat
  PROVE  Slot(k) \in Upstream /\ Slot(k) \in Listed
<1> DEFINE n == Len(upstreams)
           i == (Rot + k) % RRMod
<1>1. n \in Nat \ {0}
  BY DEF ConnTypeOK
<1>2. i \in Nat
  BY RotType, ClientAssumption
<1>3. (i % n) + 1 \in 1..n
  BY <1>1, <1>2
<1>4. Slot(k) = upstreams[(i % n) + 1]
  BY DEF Slot
<1> QED
  BY <1>3, <1>4 DEF Listed, ConnTypeOK

\* The upstream a call is sent on is one of the array and has a stream.
LEMMA ChoiceType ==
  ASSUME ConnTypeOK, NEW tbl, NEW u \in Choice(tbl)
  PROVE  u \in Upstream /\ u \in Listed /\ stream[u] # "none"
<1>1. PICK k \in Usable : u = Slot(k)
  BY DEF Choice, LeastLoaded
<1>2. upstreams # <<>> /\ k \in Nat /\ stream[Slot(k)] # "none"
  BY DEF Usable, ConnTypeOK
<1> QED
  BY <1>1, <1>2, SlotType

\* Recording a sent call.
LEMMA TransmitType ==
  ASSUME TypeOK, NEW r \in Request, NEW u \in Upstream,
         NEW tbl \in [Upstream -> SUBSET (Ids \X Request)], Transmit(u, r, tbl)
  PROVE  /\ table' \in [Upstream -> SUBSET (Ids \X Request)]
         /\ wire' \in [Upstream -> SUBSET (Ids \X Request)]
         /\ nextId' \in [Upstream -> Ids]
         /\ reqId' \in [Request -> Ids]
         /\ owner' \in [Request -> Upstream \cup {None}]
<1> USE DEF TypeOK, ConnTypeOK, CallTypeOK, Ids, Transmit
<1> DEFINE P == Ids \X Request
<1>1. <<nextId[u], r>> \in P
  OBVIOUS
<1> HIDE DEF P
<1>2. tbl[u] \cup {<<nextId[u], r>>} \in SUBSET P
  BY <1>1 DEF P
<1>3. wire[u] \cup {<<nextId[u], r>>} \in SUBSET P
  BY <1>1 DEF P
<1>4. table' \in [Upstream -> SUBSET P] /\ wire' \in [Upstream -> SUBSET P]
  BY <1>2, <1>3 DEF P
<1>5. nextId' \in [Upstream -> Ids] /\ reqId' \in [Request -> Ids]
  OBVIOUS
<1>6. owner' \in [Request -> Upstream \cup {None}]
  OBVIOUS
<1> QED
  BY <1>4, <1>5, <1>6 DEF P

\* Opening a connection, or failing to.
LEMMA ConnectType ==
  ASSUME TypeOK, NEW u \in Upstream, Connect(u) \/ ConnectFails(u)
  PROVE  /\ stream' \in [Upstream -> {"none", "connecting", "open"}]
         /\ socks' \in [Upstream -> Int]
         /\ delay' \in [Upstream -> Nat \ {0}]
         /\ age' \in [Upstream -> Nat]
<1> USE DEF TypeOK, ConnTypeOK
<1>1. CASE Connect(u)
  BY <1>1 DEF Connect
<1>2. CASE ConnectFails(u)
  <2>1. Doubled(delay[u]) \in Nat \ {0}
    BY DoubledType
  <2> QED
    BY <1>2, <2>1 DEF ConnectFails
<1> QED
  BY <1>1, <1>2

\* Closing a connection.
LEMMA ClearedType ==
  ASSUME TypeOK, NEW u \in Upstream, NEW extra \in SUBSET Request,
         NEW tbl \in [Upstream -> SUBSET (Ids \X Request)],
         Cleared(u, tbl, extra)
  PROVE  /\ table' \in [Upstream -> SUBSET (Ids \X Request)]
         /\ wire' \in [Upstream -> SUBSET (Ids \X Request)]
         /\ nextId' \in [Upstream -> Ids]
         /\ owner' \in [Request -> Upstream \cup {None}]
BY DEF TypeOK, ConnTypeOK, CallTypeOK, Ids, Cleared

LEMMA DisconnectType ==
  ASSUME TypeOK, NEW u \in Upstream, NEW extra \in SUBSET Request,
         NEW tbl \in [Upstream -> SUBSET (Ids \X Request)],
         Disconnect(u, tbl, extra)
  PROVE  /\ stream' \in [Upstream -> {"none", "connecting", "open"}]
         /\ socks' \in [Upstream -> Int]
         /\ table' \in [Upstream -> SUBSET (Ids \X Request)]
         /\ wire' \in [Upstream -> SUBSET (Ids \X Request)]
         /\ nextId' \in [Upstream -> Ids]
         /\ owner' \in [Request -> Upstream \cup {None}]
<1>1. Cleared(u, tbl, extra)
  BY DEF Disconnect
<1>2. /\ stream' \in [Upstream -> {"none", "connecting", "open"}]
      /\ socks' \in [Upstream -> Int]
  BY DEF TypeOK, ConnTypeOK, Disconnect
<1> QED
  BY <1>1, <1>2, ClearedType

\* What Dispatch touches.
DispatchTypes ==
  /\ rr \in 0..(RRMod - 1)
  /\ stream \in [Upstream -> {"none", "connecting", "open"}]
  /\ socks \in [Upstream -> Int]
  /\ nextId \in [Upstream -> Ids]
  /\ table \in [Upstream -> SUBSET (Ids \X Request)]
  /\ wire \in [Upstream -> SUBSET (Ids \X Request)]
  /\ delay \in [Upstream -> Nat \ {0}]
  /\ age \in [Upstream -> Nat]
  /\ owner \in [Request -> Upstream \cup {None}]
  /\ reqId \in [Request -> Ids]
  /\ closed \in BOOLEAN

\* Sending a call keeps the types of what it touches.
LEMMA DispatchType ==
  ASSUME TypeOK, NEW r \in Request,
         NEW tbl \in [Upstream -> SUBSET (Ids \X Request)], Dispatch(r, tbl)
  PROVE  DispatchTypes'
<1> USE DEF TypeOK, ConnTypeOK, CallTypeOK, FrameTypeOK, Ids, DispatchTypes
<1>0. rr' \in 0..(RRMod - 1)
  BY RotType DEF Dispatch
<1>1. ASSUME NEW u \in Choice(tbl), Send(u, r, tbl)
      PROVE  DispatchTypes'
  <2>1. u \in Upstream
    BY ChoiceType
  <2> QED
    BY <1>0, <1>1, <2>1, TransmitType DEF Send
<1>2. ASSUME NEW u \in Choice(tbl), SendFails(u, r, tbl)
      PROVE  DispatchTypes'
  <2>1. u \in Upstream
    BY ChoiceType
  <2>2. Penalty(u) \in Nat \ {0}
    BY <2>1, DoubledType DEF Penalty
  <2> QED
    BY <1>0, <1>2, <2>1, <2>2, DisconnectType DEF SendFails, Reset
<1>3. ASSUME upstreams # <<>>, Connect(Slot(0)), Transmit(Slot(0), r, tbl),
             UNCHANGED closed
      PROVE  DispatchTypes'
  <2>1. Slot(0) \in Upstream
    BY <1>3, SlotType
  <2>2. PICK u \in Upstream : Connect(u) /\ Transmit(u, r, tbl)
    BY <1>3, <2>1
  <2>3. closed' \in BOOLEAN
    BY <1>3
  <2> QED
    BY <1>0, <2>2, <2>3, ConnectType, TransmitType
<1>4. ASSUME upstreams # <<>>, ConnectFails(Slot(0)), NotSent(r, tbl)
      PROVE  DispatchTypes'
  <2>1. Slot(0) \in Upstream
    BY <1>4, SlotType
  <2> QED
    BY <1>0, <1>4, <2>1, ConnectType DEF NotSent
<1>5. ASSUME NotSent(r, tbl), UNCHANGED <<stream, socks, delay, age>>
      PROVE  DispatchTypes'
  BY <1>0, <1>5 DEF NotSent
<1> QED
  BY <1>1, <1>2, <1>3, <1>4, <1>5 DEF Dispatch

\* The table without the entry of an expired attempt.
LEMMA CancelledType ==
  ASSUME TypeOK, NEW r \in Request
  PROVE  Cancelled(r) \in [Upstream -> SUBSET (Ids \X Request)]
BY DEF TypeOK, ConnTypeOK, CallTypeOK, Cancelled

\* Every step keeps the types.
LEMMA TypeStep ==
  ASSUME IInv, Next PROVE TypeOK'
<1> USE DEF ConnTypeOK, CallTypeOK, FrameTypeOK
<1> SUFFICES ConnTypeOK' /\ CallTypeOK' /\ FrameTypeOK'
  BY DEF TypeOK
<1>0. TypeOK /\ ConnTypeOK /\ CallTypeOK /\ FrameTypeOK
  BY DEF IInv, TypeOK
<1>1. ASSUME NEW r \in Request, Call(r)
      PROVE  ConnTypeOK' /\ CallTypeOK' /\ FrameTypeOK'
  <2>1. DispatchTypes'
    BY <1>0, <1>1, DispatchType DEF Call
  <2>2. ConnTypeOK'
    BY <1>0, <1>1, <2>1 DEF Call, DispatchTypes
  <2>3. budget' \in [Request -> Nat]
    BY <1>0, <1>1 DEF Call
  <2>4. CallTypeOK'
    BY <1>0, <1>1, <2>1, <2>3 DEF Call, DispatchTypes
  <2>5. FrameTypeOK'
    BY <1>0, <1>1, <2>1 DEF Call, DispatchTypes
  <2> QED
    BY <2>2, <2>4, <2>5
<1>2. ASSUME NEW r \in Request, RequestTimeout(r)
      PROVE  ConnTypeOK' /\ CallTypeOK' /\ FrameTypeOK'
  <2>0. retries' \in [Request -> Nat] /\ live' = live /\ budget' = budget
    BY <1>0, <1>2 DEF RequestTimeout
  <2>1. CASE GiveUp(r)
    <3>1. ConnTypeOK'
      BY <1>0, <1>2, <2>1, CancelledType DEF RequestTimeout, GiveUp
    <3>2. /\ owner' \in [Request -> Upstream \cup {None}]
          /\ timers' \subseteq Request
          /\ cbs' \in [Request -> Nat]
          /\ reqId' = reqId
      BY <1>0, <2>1 DEF GiveUp
    <3>4. CallTypeOK'
      BY <1>0, <2>0, <3>2
    <3>3. FrameTypeOK'
      BY <1>0, <1>2, <2>1 DEF RequestTimeout, GiveUp
    <3> QED
      BY <3>1, <3>3, <3>4
  <2>2. CASE Retry(r)
    <3>1. DispatchTypes'
      BY <1>0, <2>2, CancelledType, DispatchType DEF Retry
    <3>2. ConnTypeOK'
      BY <1>0, <1>2, <3>1 DEF RequestTimeout, DispatchTypes
    <3>3. CallTypeOK'
      BY <1>0, <2>0, <2>2, <3>1 DEF Retry, DispatchTypes
    <3>4. FrameTypeOK'
      BY <1>0, <1>2, <2>2, <3>1 DEF RequestTimeout, Retry, DispatchTypes
    <3> QED
      BY <3>2, <3>3, <3>4
  <2> QED
    BY <1>2, <2>1, <2>2 DEF RequestTimeout
<1>3. ASSUME NEW u \in Upstream, AddUpstream(u)
      PROVE  ConnTypeOK' /\ CallTypeOK' /\ FrameTypeOK'
  <2>1. upstreams' \in Seq(Upstream)
    BY <1>0, <1>3 DEF AddUpstream
  <2> QED
    BY <1>0, <1>3, <2>1, ConnectType DEF AddUpstream, reqVars, frameVars
<1>4. ASSUME NEW u \in Upstream, RemoveUpstream(u)
      PROVE  ConnTypeOK' /\ CallTypeOK' /\ FrameTypeOK'
  <2>1. upstreams' \in Seq(Upstream)
    <3>1. PICK k \in 1..Len(upstreams) : upstreams' = WithoutSlot(k)
      BY <1>4 DEF RemoveUpstream
    <3> DEFINE n == Len(upstreams) - 1
    <3>0. Len(upstreams) \in Nat /\ n \in Nat
      BY <1>0, <3>1, LenProperties
    <3>2. \A j \in 1..n : WithoutSlot(k)[j] \in Upstream
      <4> SUFFICES ASSUME NEW j \in 1..n PROVE WithoutSlot(k)[j] \in Upstream
        OBVIOUS
      <4>1. upstreams[j] \in Upstream /\ upstreams[Len(upstreams)] \in Upstream
        <5>1. upstreams \in Seq(Upstream)
          BY <1>0
        <5>2. j \in 1..Len(upstreams) /\ Len(upstreams) \in 1..Len(upstreams)
          BY <3>0, <5>1
        <5> QED
          BY <5>1, <5>2, ElementOfSeq
      <4> QED
        BY <4>1 DEF WithoutSlot
    <3>3. upstreams' \in [1..n -> Upstream]
      BY <3>1, <3>2 DEF WithoutSlot
    <3> QED
      BY <3>0, <3>3, SeqDef
  <2>2. delay' \in [Upstream -> Nat \ {0}] /\ age' \in [Upstream -> Nat]
    <3>1. delay' = [delay EXCEPT ![u] = 1] /\ age' = [age EXCEPT ![u] = 0]
      BY <1>4 DEF RemoveUpstream
    <3>2. delay \in [Upstream -> Nat \ {0}] /\ age \in [Upstream -> Nat]
      BY <1>0
    <3> HIDE <1>0, <1>4
    <3> QED
      BY <3>1, <3>2
  <2>3. /\ live' = live /\ timers' = timers /\ reqId' = reqId
        /\ retries' = retries /\ budget' = budget /\ cbs' = cbs /\ rr' = rr
    BY <1>4 DEF RemoveUpstream
  <2>4. FrameTypeOK'
    BY <1>0, <1>4 DEF RemoveUpstream, frameVars
  <2>5. CASE Disconnect(u, table, {})
    BY <1>0, <2>1, <2>2, <2>3, <2>4, <2>5, DisconnectType
  <2>6. CASE UNCHANGED <<stream, socks, nextId, table, wire, owner>>
    BY <1>0, <2>1, <2>2, <2>3, <2>4, <2>6
  <2> QED
    BY <1>4, <2>5, <2>6 DEF RemoveUpstream
<1>5. ASSUME NEW u \in Upstream, UpstreamTimer(u)
      PROVE  ConnTypeOK' /\ CallTypeOK' /\ FrameTypeOK'
  <2>0. /\ live' = live /\ timers' = timers /\ reqId' = reqId
        /\ retries' = retries /\ budget' = budget /\ cbs' = cbs /\ rr' = rr
        /\ upstreams' = upstreams /\ FrameTypeOK'
    BY <1>0, <1>5 DEF UpstreamTimer, frameVars
  <2>1. /\ Penalty(u) \in Nat \ {0}
        /\ Doubled(Penalty(u)) \in Nat \ {0}
    <3>1. Penalty(u) \in Nat \ {0}
      BY <1>0, DoubledType DEF Penalty
    <3> QED
      BY <3>1, DoubledType
  <2>2. CASE Reconnect(u)
    BY <1>0, <2>0, <2>2, ConnectType DEF Reconnect
  <2>3. CASE Reset(u, table, {})
    BY <1>0, <2>0, <2>1, <2>3, DisconnectType DEF Reset
  <2>4. CASE Replace(u)
    <3>1. Cleared(u, table, {}) /\ age' \in [Upstream -> Nat]
      BY <1>0, <2>4 DEF Replace
    <3>2. stream' \in [Upstream -> {"none", "connecting", "open"}]
      BY <1>0, <2>4 DEF Replace
    <3>3. socks' \in [Upstream -> Int]
      BY <1>0, <2>4 DEF Replace
    <3>4. delay' \in [Upstream -> Nat \ {0}]
      BY <1>0, <2>1, <2>4 DEF Replace
    <3> QED
      BY <1>0, <2>0, <3>1, <3>2, <3>3, <3>4, ClearedType
  <2> QED
    BY <1>5, <2>2, <2>3, <2>4 DEF UpstreamTimer, Overfull
<1>6. ASSUME NEW u \in Upstream, Connected(u)
      PROVE  ConnTypeOK' /\ CallTypeOK' /\ FrameTypeOK'
  BY <1>0, <1>6 DEF Connected, reqVars, frameVars
<1>7. ASSUME NEW u \in Upstream, Down(u)
      PROVE  ConnTypeOK' /\ CallTypeOK' /\ FrameTypeOK'
  <2>1. Penalty(u) \in Nat \ {0}
    BY <1>0, DoubledType DEF Penalty
  <2> QED
    BY <1>0, <1>7, <2>1, DisconnectType DEF Down, Reset, frameVars
<1>8. ASSUME NEW u \in Upstream, Data(u)
      PROVE  ConnTypeOK' /\ CallTypeOK' /\ FrameTypeOK'
  BY <1>0, <1>8 DEF Data, connVars, reqVars
<1>9. ASSUME NEW i, NEW s, Respond(i, s)
      PROVE  ConnTypeOK' /\ CallTypeOK' /\ FrameTypeOK'
  <2>1. Arrives(i, s) /\ curUp \in Upstream
    BY <1>9 DEF IInv, Respond, Answered, Mismatched, Late, Arrives, Handler
  <2>2. wire' \in [Upstream -> SUBSET (Ids \X Request)]
    BY <1>0, <2>1 DEF Arrives
  <2>3. CASE Answered(i, s)
    <3>1. PICK q \in Request :
            /\ table' = [table EXCEPT ![curUp] = {p \in @ : p[1] # i}]
            /\ cbs' = [cbs EXCEPT ![q] = @ + 1]
            /\ at' = "answer" /\ cur' = q
      BY <2>3 DEF Answered
    <3>2. table' \in [Upstream -> SUBSET (Ids \X Request)]
      BY <1>0, <2>1, <3>1
    <3>3. cbs' \in [Request -> Nat]
      BY <1>0, <3>1
    <3>4. owner' = owner
      BY <2>3 DEF Answered
    <3> QED
      BY <1>0, <2>1, <2>2, <3>1, <3>2, <3>3, <3>4 DEF Arrives
  <2>4. CASE Mismatched(i, s)
    <3>1. PICK q \in Request :
            /\ table' = [table EXCEPT ![curUp] = {p \in @ : p[1] # i}]
            /\ owner' = [owner EXCEPT ![q] = None]
      BY <2>4 DEF Mismatched
    <3>2. table' \in [Upstream -> SUBSET (Ids \X Request)]
      BY <1>0, <2>1, <3>1
    <3> QED
      BY <1>0, <2>1, <2>2, <2>4, <3>1, <3>2 DEF Arrives, Mismatched
  <2>5. CASE Late(i, s)
    BY <1>0, <2>1, <2>2, <2>5 DEF Arrives, Late
  <2> QED
    BY <1>9, <2>3, <2>4, <2>5 DEF Respond
<1>10. ASSUME ClientFree
       PROVE  ConnTypeOK' /\ CallTypeOK' /\ FrameTypeOK'
  <2>1. upstreams' \in Seq(Upstream)
    BY <1>10 DEF ClientFree
  <2>2. CallTypeOK' /\ FrameTypeOK'
    BY <1>0, <1>10 DEF ClientFree
  <2>3. socks' \in [Upstream -> Int]
    BY <1>0, <1>10 DEF ClientFree
  <2> QED
    BY <1>0, <1>10, <2>1, <2>2, <2>3 DEF ClientFree, Ids
<1>11. ASSUME TimeoutReturn \/ AnswerReturn \/ ParseEnd
       PROVE  ConnTypeOK' /\ CallTypeOK' /\ FrameTypeOK'
  BY <1>0, <1>11 DEF TimeoutReturn, AnswerReturn, ParseEnd, connVars, reqVars
<1>12. ASSUME ParseMalformed
       PROVE  ConnTypeOK' /\ CallTypeOK' /\ FrameTypeOK'
  <2>1. curUp \in Upstream
    BY <1>12 DEF ParseMalformed, Handler, IInv
  <2>2. Penalty(curUp) \in Nat \ {0}
    BY <1>0, <2>1, DoubledType DEF Penalty
  <2>3. /\ Disconnect(curUp, table, {}) /\ delay' = [delay EXCEPT ![curUp] = Penalty(curUp)]
        /\ at' = "idle" /\ curUp' = None
        /\ UNCHANGED <<age, upstreams, rr, live, timers, reqId, retries, budget, cbs, cur, closed>>
    BY <1>12 DEF ParseMalformed, Reset
  <2> QED
    BY <1>0, <2>1, <2>2, <2>3, DisconnectType
<1>13. ASSUME Tick
       PROVE  ConnTypeOK' /\ CallTypeOK' /\ FrameTypeOK'
  BY <1>0, <1>13, SMTT(30) DEF Tick, reqVars, frameVars
<1> QED
  BY <1>1, <1>2, <1>3, <1>4, <1>5, <1>6, <1>7, <1>8, <1>9, <1>10, <1>11, <1>12,
     <1>13 DEF Next

-----------------------------------------------------------------------------
(* The tables of the connections. *)

Tables == Ownership /\ FreshIds /\ AnswersMatch

\* tbl is the tables without the entries of r.
Trimmed(r, tbl) ==
  \A u \in Upstream : tbl[u] = {p \in table[u] : p[2] # r}

\* A call that is not live is in no table.
LEMMA NotLiveTrimmed ==
  ASSUME TypeOK, Ownership, NEW r \in Request \ live
  PROVE  Trimmed(r, table)
BY DEF TypeOK, ConnTypeOK, Ownership, Trimmed

\* Erasing by id erases the expired call and no other one.
LEMMA CancelledTrimmed ==
  ASSUME IInv, at = "idle", NEW r \in live
  PROVE  Trimmed(r, Cancelled(r))
<1> USE DEF IInv, TypeOK, ConnTypeOK, CallTypeOK
<1>1. CASE owner[r] = None
  <2>1. \A u \in Upstream : \A p \in table[u] : p[2] # r
    BY <1>1, ClientAssumption DEF Ownership
  <2> QED
    BY <1>1, <2>1 DEF Cancelled, Trimmed
<1>2. CASE owner[r] # None
  <2>1. owner[r] \in Upstream /\ <<reqId[r], r>> \in table[owner[r]]
    BY <1>2 DEF Ownership
  <2>2. ASSUME NEW p \in table[owner[r]]
        PROVE  p[1] # reqId[r] <=> p[2] # r
    <3>1. p[1] = reqId[r] => p = <<reqId[r], r>>
      BY <2>1, <2>2 DEF AnswersMatch
    <3>2. p[2] = r => reqId[r] = p[1]
      BY <2>1, <2>2 DEF Ownership
    <3> QED
      BY <3>1, <3>2
  <2>3. ASSUME NEW u \in Upstream, u # owner[r], NEW p \in table[u]
        PROVE  p[2] # r
    BY <2>3 DEF Ownership
  <2>4. Cancelled(r) = [table EXCEPT ![owner[r]] = {p \in @ : p[1] # reqId[r]}]
    BY <1>2 DEF Cancelled
  <2> QED
    BY <2>1, <2>2, <2>3, <2>4 DEF Trimmed
<1> QED
  BY <1>1, <1>2

\* Closing a connection keeps the tables consistent.
LEMMA ClearedTables ==
  ASSUME TypeOK, Tables, NEW u \in Upstream, NEW extra \in SUBSET Request,
         NEW tbl \in [Upstream -> SUBSET (Ids \X Request)],
         \A v \in Upstream : tbl[v] = {p \in table[v] : p[2] \notin extra},
         Cleared(u, tbl, extra),
         live \subseteq live', live' \subseteq live \cup extra,
         \A q \in Request \ extra : reqId'[q] = reqId[q],
         \A v \in Upstream \ {u} : stream'[v] = stream[v],
         at # "answer" \/ (at' = at /\ cur' = cur)
  PROVE  Tables'
<1> USE DEF TypeOK, ConnTypeOK, CallTypeOK
<1>1. \A v \in Upstream : /\ table'[v] = IF v = u THEN {} ELSE tbl[v]
                          /\ wire'[v] = IF v = u THEN {} ELSE wire[v]
                          /\ nextId'[v] = IF v = u THEN 0 ELSE nextId[v]
  BY DEF Cleared
<1>2. \A q \in Request : owner'[q] = IF q \in Waiting(u, tbl) \cup extra
                                       THEN None ELSE owner[q]
  BY DEF Cleared
<1>3. ASSUME NEW v \in Upstream, NEW p \in table'[v]
      PROVE  p[2] \in live' /\ owner'[p[2]] = v /\ reqId'[p[2]] = p[1]
  <2>1. v # u /\ p \in table[v] /\ p[2] \in Request \ extra
    BY <1>1, <1>3
  <2>2. p[2] \in live /\ owner[p[2]] = v /\ reqId[p[2]] = p[1]
    BY <2>1 DEF Tables, Ownership
  <2>3. ASSUME p[2] \in Waiting(u, tbl) PROVE FALSE
    <3>1. PICK w \in tbl[u] : w[2] = p[2]
      BY <2>3 DEF Waiting
    <3>2. w \in table[u]
      BY <3>1
    <3> QED
      BY <2>1, <2>2, <3>1, <3>2 DEF Tables, Ownership
  <2> QED
    BY <1>2, <2>1, <2>2, <2>3
<1>4. ASSUME NEW r \in live', owner'[r] # None
      PROVE  \/ <<reqId'[r], r>> \in table'[owner'[r]]
             \/ at' = "answer" /\ cur' = r
  <2>0. r \in Request
    OBVIOUS
  <2>1. r \notin extra /\ r \notin Waiting(u, tbl) /\ owner'[r] = owner[r]
    BY <1>2, <1>4, <2>0
  <2>2. r \in live /\ reqId'[r] = reqId[r] /\ owner[r] \in Upstream
    BY <1>4, <2>0, <2>1
  <2>3. CASE <<reqId[r], r>> \in table[owner[r]]
    <3>1. <<reqId[r], r>> \in tbl[owner[r]]
      BY <2>1, <2>2, <2>3
    <3>2. owner[r] # u
      BY <2>1, <3>1 DEF Waiting
    <3> QED
      BY <1>1, <2>1, <2>2, <3>1, <3>2
  <2>4. \/ <<reqId[r], r>> \in table[owner[r]]
        \/ at = "answer" /\ cur = r
    BY <1>4, <2>1, <2>2 DEF Tables, Ownership
  <2> QED
    BY <2>1, <2>2, <2>3, <2>4
<1>5. Ownership'
  BY <1>3, <1>4 DEF Ownership
<1>6. FreshIds'
  <2>1. ASSUME NEW v \in Upstream
        PROVE  /\ \A p \in table'[v] \cup wire'[v] : p[1] < nextId'[v]
               /\ stream'[v] = "none" =>
                    nextId'[v] = 0 /\ table'[v] = {} /\ wire'[v] = {}
    <3>1. /\ \A p \in table[v] \cup wire[v] : p[1] < nextId[v]
          /\ stream[v] = "none" =>
               nextId[v] = 0 /\ table[v] = {} /\ wire[v] = {}
      BY DEF Tables, FreshIds
    <3>2. CASE v = u
      BY <1>1, <3>2
    <3>3. CASE v # u
      <4>1. /\ table'[v] = tbl[v] /\ wire'[v] = wire[v]
            /\ nextId'[v] = nextId[v] /\ stream'[v] = stream[v]
        BY <1>1, <3>3
      <4>2. tbl[v] \subseteq table[v]
        OBVIOUS
      <4> QED
        BY <3>1, <4>1, <4>2
    <3> QED
      BY <3>2, <3>3
  <2> QED
    BY <2>1 DEF FreshIds
<1>7. AnswersMatch'
  <2>1. ASSUME NEW v \in Upstream
        PROVE  /\ table'[v] \subseteq wire'[v]
               /\ \A p \in wire'[v], q \in table'[v] : p[1] = q[1] => p = q
    <3>1. CASE v = u
      BY <1>1, <3>1
    <3>2. CASE v # u
      <4>1. table'[v] \subseteq table[v] /\ wire'[v] = wire[v]
        BY <1>1, <3>2
      <4> QED
        BY <4>1 DEF Tables, AnswersMatch
    <3> QED
      BY <3>1, <3>2
  <2> QED
    BY <2>1 DEF AnswersMatch
<1> QED
  BY <1>5, <1>6, <1>7 DEF Tables

\* Recording a call that is in no table keeps the tables consistent.
LEMMA TransmitTables ==
  ASSUME TypeOK, Tables, NEW u \in Upstream, NEW r \in Request,
         NEW tbl \in [Upstream -> SUBSET (Ids \X Request)],
         Trimmed(r, tbl), Transmit(u, r, tbl),
         live' = live \cup {r},
         stream'[u] # "none", \A v \in Upstream \ {u} : stream'[v] = stream[v],
         at' = at, cur' = cur
  PROVE  Tables'
<1> USE DEF TypeOK, ConnTypeOK, CallTypeOK
<1>a. <<nextId[u], r>> \in Ids \X Request
  OBVIOUS
<1>b. PICK new \in Ids \X Request : new = <<nextId[u], r>>
  BY <1>a
<1>0. new[1] = nextId[u] /\ new[2] = r
  BY <1>b
<1>1. /\ \A v \in Upstream \ {u} :
           table'[v] = tbl[v] /\ wire'[v] = wire[v] /\ nextId'[v] = nextId[v]
      /\ table'[u] = tbl[u] \cup {new}
      /\ wire'[u] = wire[u] \cup {new}
      /\ nextId'[u] = nextId[u] + 1
      /\ owner'[r] = u /\ reqId'[r] = nextId[u]
      /\ \A q \in Request \ {r} : owner'[q] = owner[q] /\ reqId'[q] = reqId[q]
  BY <1>b DEF Transmit
<1>2. \A v \in Upstream : \A p \in tbl[v] : p \in table[v] /\ p[2] # r /\ p[2] \in Request
  BY SMTT(30) DEF Trimmed
<1>3. ASSUME NEW v \in Upstream, NEW p \in table'[v]
      PROVE  p[2] \in live' /\ owner'[p[2]] = v /\ reqId'[p[2]] = p[1]
  <2>1. CASE p \in tbl[v]
    <3>1. p \in table[v] /\ p[2] \in Request \ {r}
      BY <1>2, <2>1
    <3>2. p[2] \in live /\ owner[p[2]] = v /\ reqId[p[2]] = p[1]
      BY <3>1 DEF Tables, Ownership
    <3> QED
      BY <1>1, <3>1, <3>2
  <2>2. CASE v = u /\ p = new
    BY <1>0, <1>1, <2>2
  <2> QED
    BY <1>1, <1>3, <2>1, <2>2
<1>4. ASSUME NEW q \in live', owner'[q] # None
      PROVE  \/ <<reqId'[q], q>> \in table'[owner'[q]]
             \/ at' = "answer" /\ cur' = q
  <2>1. CASE q = r
    BY <1>1, <1>b, <2>1
  <2>2. CASE q # r
    <3>1. q \in live /\ owner'[q] = owner[q] /\ reqId'[q] = reqId[q]
          /\ owner[q] \in Upstream
      BY <1>1, <1>4, <2>2, SMTT(30)
    <3>2. CASE <<reqId[q], q>> \in table[owner[q]]
      <4>1. <<reqId[q], q>> \in tbl[owner[q]]
        BY <2>2, <3>1, <3>2 DEF Trimmed
      <4>2. tbl[owner[q]] \subseteq table'[owner[q]]
        BY <1>1, <3>1
      <4> QED
        BY <3>1, <4>1, <4>2
    <3>3. \/ <<reqId[q], q>> \in table[owner[q]]
          \/ at = "answer" /\ cur = q
      BY <1>4, <3>1 DEF Tables, Ownership
    <3> QED
      BY <3>1, <3>2, <3>3
  <2> QED
    BY <2>1, <2>2
<1>5. Ownership'
  BY <1>3, <1>4 DEF Ownership
<1>6. ASSUME NEW v \in Upstream
      PROVE  \A p \in table'[v] \cup wire'[v] : p[1] < nextId'[v]
  <2>1. \A p \in table[v] \cup wire[v] : p[1] < nextId[v]
    BY DEF Tables, FreshIds
  <2>2. nextId[v] \in Nat /\ tbl[v] \subseteq table[v]
    BY <1>2 DEF Ids
  <2>3. CASE v # u
    BY <1>1, <2>1, <2>2, <2>3
  <2>4. CASE v = u
    <3>1. SUFFICES ASSUME NEW p \in table'[u] \cup wire'[u] PROVE p[1] < nextId[u] + 1
      BY <1>1, <2>4
    <3>2. CASE p = new
      BY <1>0, <2>2, <2>4, <3>2
    <3>3. CASE p # new
      <4>1. p \in table[u] \cup wire[u]
        BY <1>1, <2>2, <2>4, <3>1, <3>3
      <4>2. p[1] \in Nat
        <5>1. p \in Ids \X Request
          BY <4>1
        <5> QED
          BY <5>1 DEF Ids
      <4>3. p[1] < nextId[u] /\ nextId[u] \in Nat
        BY <2>1, <2>2, <2>4, <4>1
      <4> QED
        BY <4>2, <4>3, SMTT(30)
    <3> QED
      BY <3>2, <3>3
  <2> QED
    BY <2>3, <2>4
<1>7. FreshIds'
  <2>1. ASSUME NEW v \in Upstream, stream'[v] = "none"
        PROVE  nextId'[v] = 0 /\ table'[v] = {} /\ wire'[v] = {}
    <3>1. v # u /\ stream[v] = "none"
      BY <2>1
    <3>2. nextId[v] = 0 /\ table[v] = {} /\ wire[v] = {}
      BY <3>1 DEF Tables, FreshIds
    <3>3. tbl[v] = {}
      BY <1>2, <3>2
    <3> QED
      BY <1>1, <3>1, <3>2, <3>3
  <2> QED
    BY <1>6, <2>1 DEF FreshIds
<1>8. ASSUME NEW v \in Upstream
      PROVE  /\ table'[v] \subseteq wire'[v]
             /\ \A p \in wire'[v], q \in table'[v] : p[1] = q[1] => p = q
  <2>1. tbl[v] \subseteq wire[v]
    BY <1>2 DEF Tables, AnswersMatch
  <2>2. \A p \in wire[v], q \in tbl[v] : p[1] = q[1] => p = q
    <3>1. tbl[v] \subseteq table[v]
      BY <1>2
    <3> QED
      BY <3>1 DEF Tables, AnswersMatch
  <2>3. \A p \in wire[u] : p[1] # new[1]
    <3>1. \A p \in wire[u] : p[1] < nextId[u]
      BY DEF Tables, FreshIds
    <3>2. nextId[u] \in Nat
      BY DEF Ids
    <3>3. TAKE p \in wire[u]
    <3>4. p[1] < nextId[u] /\ p[1] \in Nat
      BY <3>1, SMTT(30) DEF Ids
    <3> QED
      BY <1>0, <3>2, <3>4
  <2>4. CASE v # u
    BY <1>1, <2>1, <2>2, <2>4
  <2>5. CASE v = u
    <3>1. /\ table'[v] = tbl[v] \cup {new}
          /\ wire'[v] = wire[v] \cup {new}
      BY <1>1, <2>5
    <3>2. \A p \in tbl[v] : p[1] # new[1]
      BY <2>1, <2>3, <2>5
    <3> QED
      BY <2>1, <2>2, <2>3, <2>5, <3>1, <3>2
  <2> QED
    BY <2>4, <2>5
<1>9. AnswersMatch'
  BY <1>8 DEF AnswersMatch
<1> QED
  BY <1>5, <1>7, <1>9 DEF Tables

\* So does giving up on sending.
LEMMA NotSentTables ==
  ASSUME TypeOK, Tables, NEW r \in Request,
         NEW tbl \in [Upstream -> SUBSET (Ids \X Request)],
         Trimmed(r, tbl), NotSent(r, tbl),
         live' = live \cup {r}, stream' = stream,
         at # "answer" \/ (at' = at /\ cur' = cur)
  PROVE  Tables'
<1> USE DEF TypeOK, ConnTypeOK, CallTypeOK
<1>1. /\ table' = tbl /\ reqId' = reqId /\ nextId' = nextId /\ wire' = wire
      /\ \A q \in Request : owner'[q] = IF q = r THEN None ELSE owner[q]
  BY DEF NotSent
<1>2. \A v \in Upstream : \A p \in tbl[v] : p \in table[v] /\ p[2] # r /\ p[2] \in Request
  BY DEF Trimmed
<1>3. ASSUME NEW v \in Upstream, NEW p \in table'[v]
      PROVE  p[2] \in live' /\ owner'[p[2]] = v /\ reqId'[p[2]] = p[1]
  BY <1>1, <1>2, <1>3 DEF Tables, Ownership
<1>4. ASSUME NEW q \in live', owner'[q] # None
      PROVE  \/ <<reqId'[q], q>> \in table'[owner'[q]]
             \/ at' = "answer" /\ cur' = q
  <2>1. q \in live /\ q # r /\ owner'[q] = owner[q] /\ owner[q] \in Upstream
    BY <1>1, <1>4
  <2> QED
    BY <1>1, <1>4, <2>1 DEF Tables, Ownership, Trimmed
<1>5. Ownership'
  BY <1>3, <1>4 DEF Ownership
<1>6. FreshIds'
  BY <1>1, <1>2 DEF Tables, FreshIds
<1>7. AnswersMatch'
  BY <1>1, <1>2 DEF Tables, AnswersMatch
<1> QED
  BY <1>5, <1>6, <1>7 DEF Tables

\* What a call or a retry leaves of the invariant.
LEMMA DispatchKeeps ==
  ASSUME IInv, UserRuns, NEW r \in Request,
         NEW tbl \in [Upstream -> SUBSET (Ids \X Request)],
         Trimmed(r, tbl), Dispatch(r, tbl), live' = live \cup {r},
         UNCHANGED <<upstreams, at, cur, curUp>>
  PROVE  /\ Tables' /\ OneSocket' /\ ArraySound'
         /\ at = "answer" => closed' \/ stream'[curUp] = "open"
         /\ \A q \in Request \ {r} : owner[q] = None => owner'[q] = None
         /\ \A u \in Upstream : \A p \in table'[u] : p \in table[u] \/ p[2] = r
<1> DEFINE Goal == /\ Tables' /\ OneSocket' /\ ArraySound'
                   /\ at = "answer" => closed' \/ stream'[curUp] = "open"
                   /\ \A q \in Request \ {r} : owner[q] = None => owner'[q] = None
                   /\ \A u \in Upstream : \A p \in table'[u] : p \in table[u] \/ p[2] = r
<1>0. /\ TypeOK /\ Tables /\ OneSocket /\ ArraySound /\ Handler
      /\ ConnTypeOK /\ CallTypeOK /\ FrameTypeOK
      /\ Listed' = Listed /\ at' = at /\ cur' = cur
      /\ at = "answer" => curUp \in Upstream
      /\ at = "answer" => closed \/ stream[curUp] = "open"
  BY DEF IInv, Tables, TypeOK, Listed, Handler
<1>t. \A u \in Upstream : \A p \in tbl[u] : p \in table[u]
  BY DEF Trimmed
<1>1. ASSUME NEW u \in Choice(tbl), Send(u, r, tbl)
      PROVE  Goal
  <2>1. u \in Upstream /\ stream[u] # "none"
    BY <1>0, ChoiceType
  <2>2. Tables'
    BY <1>0, <1>1, <2>1, TransmitTables DEF Send
  <2>3. OneSocket' /\ ArraySound'
    BY <1>0, <1>1 DEF Send, OneSocket, ArraySound
  <2>4. at = "answer" => closed' \/ stream'[curUp] = "open"
    BY <1>0, <1>1 DEF Send
  <2>5. \A q \in Request \ {r} : owner[q] = None => owner'[q] = None
    BY <1>0, <1>1 DEF Send, Transmit, CallTypeOK
  <2>6. \A v \in Upstream : \A p \in table'[v] : p \in tbl[v] \/ p[2] = r
    BY <1>1, <2>1 DEF Send, Transmit
  <2> QED
    BY <1>t, <2>2, <2>3, <2>4, <2>5, <2>6
<1>2. ASSUME NEW u \in Choice(tbl), SendFails(u, r, tbl)
      PROVE  Goal
  <2>1. /\ u \in Upstream /\ stream[u] # "none" /\ Cleared(u, tbl, {r})
        /\ stream' = [stream EXCEPT ![u] = "none"]
        /\ socks' = [socks EXCEPT ![u] = @ - 1]
        /\ reqId' = [reqId EXCEPT ![r] = nextId[u]]
        /\ closed' = (closed \/ (at = "answer" /\ curUp = u))
    BY <1>0, <1>2, ChoiceType DEF SendFails, Reset, Disconnect
  <2>2. \A v \in Upstream : tbl[v] = {p \in table[v] : p[2] \notin {r}}
    BY DEF Trimmed
  <2>3. /\ \A q \in Request \ {r} : reqId'[q] = reqId[q]
        /\ \A v \in Upstream \ {u} : stream'[v] = stream[v]
    BY <1>0, <2>1 DEF CallTypeOK, ConnTypeOK
  <2>4. Tables'
    BY <1>0, <2>1, <2>2, <2>3, ClearedTables
  <2>5. OneSocket' /\ ArraySound'
    BY <1>0, <2>1 DEF OneSocket, ArraySound, ConnTypeOK
  <2>6. at = "answer" => closed' \/ stream'[curUp] = "open"
    BY <1>0, <2>1, <2>3
  <2>7. \A q \in Request \ {r} : owner[q] = None => owner'[q] = None
    BY <2>1 DEF Cleared
  <2>8. \A v \in Upstream : \A p \in table'[v] : p \in tbl[v] \/ p[2] = r
    BY <2>1 DEF Cleared
  <2> QED
    BY <1>t, <2>4, <2>5, <2>6, <2>7, <2>8
<1>3. ASSUME Usable = {}, upstreams # <<>>
      PROVE  Slot(0) \in Upstream /\ Slot(0) \in Listed /\ stream[Slot(0)] = "none"
  <2>1. 0 \in 0..(Len(upstreams) - 1)
    BY <1>0, <1>3 DEF ConnTypeOK
  <2> QED
    BY <1>0, <1>3, <2>1, SlotType DEF Usable
<1>4. ASSUME NEW u \in Upstream, u \in Listed, stream[u] = "none",
             Connect(u), Transmit(u, r, tbl), UNCHANGED closed
      PROVE  Goal
  <2>1. /\ stream' = [stream EXCEPT ![u] = "connecting"]
        /\ socks' = [socks EXCEPT ![u] = @ + 1]
    BY <1>4 DEF Connect
  <2>2. stream'[u] # "none" /\ \A v \in Upstream \ {u} : stream'[v] = stream[v]
    BY <1>0, <2>1 DEF ConnTypeOK
  <2>3. Tables'
    BY <1>0, <1>4, <2>2, TransmitTables
  <2>4. OneSocket' /\ ArraySound'
    BY <1>0, <1>4, <2>1 DEF OneSocket, ArraySound, ConnTypeOK
  <2>5. at = "answer" => closed' \/ stream'[curUp] = "open"
    BY <1>0, <1>4, <2>2
  <2>6. \A q \in Request \ {r} : owner[q] = None => owner'[q] = None
    BY <1>0, <1>4 DEF Transmit, CallTypeOK
  <2>7. \A v \in Upstream : \A p \in table'[v] : p \in tbl[v] \/ p[2] = r
    BY <1>4 DEF Transmit
  <2> QED
    BY <1>t, <2>3, <2>4, <2>5, <2>6, <2>7
<1>5. ASSUME stream' = stream, socks' = socks, NotSent(r, tbl)
      PROVE  Goal
  <2>1. Tables'
    BY <1>0, <1>5, NotSentTables
  <2>2. OneSocket' /\ ArraySound'
    BY <1>0, <1>5 DEF OneSocket, ArraySound
  <2>3. \A q \in Request \ {r} : owner[q] = None => owner'[q] = None
    BY <1>0, <1>5 DEF NotSent, CallTypeOK
  <2>4. table' = tbl /\ closed' = closed
    BY <1>5 DEF NotSent
  <2> QED
    BY <1>0, <1>t, <1>5, <2>1, <2>2, <2>3, <2>4
<1> QED
  BY <1>1, <1>2, <1>3, <1>4, <1>5 DEF Dispatch, ConnectFails

-----------------------------------------------------------------------------
(* The invariant, action by action. *)

\* sio_rpc_call.
LEMMA CallStep ==
  ASSUME IInv, NEW r \in Request, Call(r), TypeOK'
  PROVE  IInv'
<1>0. /\ TypeOK /\ Tables /\ LiveCallsAreTimed /\ Handler
      /\ table \in [Upstream -> SUBSET (Ids \X Request)]
  BY DEF IInv, Tables, TypeOK, ConnTypeOK
<1>1. /\ UserRuns /\ r \notin live /\ cbs[r] = 0 /\ Dispatch(r, table)
      /\ live' = live \cup {r} /\ timers' = timers \cup {r} /\ cbs' = cbs
      /\ UNCHANGED <<upstreams, at, cur, curUp>>
  BY DEF Call
<1>2. Trimmed(r, table)
  BY <1>0, <1>1, NotLiveTrimmed DEF Tables
<1>3. /\ Tables' /\ OneSocket' /\ ArraySound'
      /\ at = "answer" => closed' \/ stream'[curUp] = "open"
      /\ \A q \in Request \ {r} : owner[q] = None => owner'[q] = None
      /\ \A u \in Upstream : \A p \in table'[u] : p \in table[u] \/ p[2] = r
  BY <1>0, <1>1, <1>2, DispatchKeeps
<1>4. LiveCallsAreTimed'
  BY <1>0, <1>1 DEF LiveCallsAreTimed
<1>5. InCallback => cur \in live /\ cur # r /\ cur \in Request
  BY <1>0, <1>1 DEF Handler, InCallback, TypeOK, CallTypeOK
<1>6. at = "answer" => \A u \in Upstream : \A p \in table'[u] : p[2] # cur
  BY <1>0, <1>3, <1>5 DEF Handler, InCallback
<1>7. at = "timeout" => cur \notin timers' /\ owner'[cur] = None
  BY <1>0, <1>1, <1>3, <1>5 DEF Handler, InCallback
<1>8. Handler'
  BY <1>0, <1>1, <1>3, <1>5, <1>6, <1>7 DEF Handler, InCallback, UserRuns
<1> QED
  BY <1>3, <1>4, <1>8 DEF IInv, Tables

\* _sio_rpc_call_timer.
LEMMA RequestTimeoutStep ==
  ASSUME IInv, NEW r \in Request, RequestTimeout(r), TypeOK'
  PROVE  IInv'
<1>0. /\ TypeOK /\ Tables /\ LiveCallsAreTimed /\ OneSocket /\ ArraySound /\ Handler
      /\ at = "idle" /\ r \in timers /\ r \in live /\ live' = live
      /\ UNCHANGED <<upstreams, curUp>>
      /\ Cancelled(r) \in [Upstream -> SUBSET (Ids \X Request)]
  BY CancelledType DEF IInv, Tables, LiveCallsAreTimed, RequestTimeout
<1>1. Trimmed(r, Cancelled(r))
  BY <1>0, CancelledTrimmed
<1>2. CASE GiveUp(r)
  <2>1. NotSent(r, Cancelled(r)) /\ stream' = stream /\ socks' = socks
    BY <1>2 DEF GiveUp, NotSent
  <2>2. Tables'
    BY <1>0, <1>1, <2>1, NotSentTables
  <2>3. OneSocket' /\ ArraySound'
    BY <1>0, <2>1 DEF OneSocket, ArraySound, Listed
  <2>4. LiveCallsAreTimed'
    BY <1>0, <1>2 DEF LiveCallsAreTimed, GiveUp
  <2>5. Handler'
    BY <1>0, <1>2 DEF Handler, GiveUp, InCallback, TypeOK, CallTypeOK
  <2> QED
    BY <2>2, <2>3, <2>4, <2>5 DEF IInv, Tables
<1>3. CASE Retry(r)
  <2>1. /\ Dispatch(r, Cancelled(r)) /\ timers' = timers /\ cbs' = cbs
        /\ at' = at /\ cur' = cur
    BY <1>3 DEF Retry
  <2>2. /\ Tables' /\ OneSocket' /\ ArraySound'
    BY <1>0, <1>1, <2>1, DispatchKeeps DEF UserRuns
  <2>3. LiveCallsAreTimed' /\ Handler'
    BY <1>0, <2>1 DEF LiveCallsAreTimed, Handler, InCallback
  <2> QED
    BY <2>2, <2>3 DEF IInv, Tables
<1> QED
  BY <1>2, <1>3 DEF RequestTimeout

\* The calls do not change when connections only open.
LEMMA OpenTables ==
  ASSUME Tables, TypeOK, UNCHANGED <<table, wire, nextId, owner, reqId, live>>,
         \A u \in Upstream : stream'[u] = "none" => stream[u] = "none",
         at # "answer" \/ (at' = at /\ cur' = cur)
  PROVE  Tables'
<1>1. Ownership'
  BY DEF Tables, Ownership
<1>2. FreshIds'
  BY DEF Tables, FreshIds
<1>3. AnswersMatch'
  BY DEF Tables, AnswersMatch
<1> QED
  BY <1>1, <1>2, <1>3 DEF Tables

\* Handlers that run to their end from "idle" keep Handler and the timers.
LEMMA IdleStep ==
  ASSUME Handler, LiveCallsAreTimed, at = "idle",
         UNCHANGED <<live, timers, cbs, at>>
  PROVE  Handler' /\ LiveCallsAreTimed'
BY DEF Handler, LiveCallsAreTimed, InCallback

\* sio_rpc_add_upstream.
LEMMA AddUpstreamStep ==
  ASSUME IInv, NEW u \in Upstream, AddUpstream(u), TypeOK'
  PROVE  IInv'
<1>0. /\ TypeOK /\ Tables /\ LiveCallsAreTimed /\ OneSocket /\ ArraySound /\ Handler
      /\ upstreams \in Seq(Upstream)
      /\ u \notin Listed /\ stream[u] = "none"
      /\ UserRuns /\ upstreams' = Append(upstreams, u)
      /\ UNCHANGED <<table, wire, nextId, owner, reqId, live, timers, cbs,
                     at, cur, curUp, closed>>
      /\ stream \in [Upstream -> {"none", "connecting", "open"}]
      /\ socks \in [Upstream -> Int]
  BY DEF IInv, Tables, TypeOK, ConnTypeOK, AddUpstream, ArraySound, reqVars, frameVars
<1>1. /\ \A v \in Upstream \ {u} : stream'[v] = stream[v] /\ socks'[v] = socks[v]
      /\ \/ stream'[u] = "none" /\ socks'[u] = socks[u]
         \/ stream'[u] = "connecting" /\ socks'[u] = socks[u] + 1
  BY <1>0 DEF AddUpstream, Connect, ConnectFails
<1>2. Tables'
  BY <1>0, <1>1, OpenTables
<1>3. OneSocket'
  BY <1>0, <1>1 DEF OneSocket
<1>4. \A j, k \in 1..Len(upstreams') : upstreams'[j] = upstreams'[k] => j = k
  BY <1>0 DEF ArraySound, Listed
<1>5. Listed' = Listed \cup {u}
  BY <1>0 DEF Listed
<1>6. ArraySound'
  BY <1>0, <1>1, <1>4, <1>5 DEF ArraySound
<1>7. LiveCallsAreTimed'
  BY <1>0 DEF LiveCallsAreTimed
<1>8. at = "answer" => closed' \/ stream'[curUp'] = "open"
  BY <1>0, <1>1 DEF Handler
<1>9. Handler'
  BY <1>0, <1>8 DEF Handler, InCallback, UserRuns
<1> QED
  BY <1>2, <1>3, <1>6, <1>7, <1>9 DEF IInv, Tables

\* The array after a removal has the other upstreams, once each.
LEMMA WithoutSlotSound ==
  ASSUME ConnTypeOK, ArraySound, NEW k \in 1..Len(upstreams),
         upstreams' = WithoutSlot(k)
  PROVE  /\ \A i, j \in 1..Len(upstreams') : upstreams'[i] = upstreams'[j] => i = j
         /\ Listed' = Listed \ {upstreams[k]}
<1> DEFINE n == Len(upstreams)
<1>1. n \in Nat /\ n - 1 \in Nat /\ k \in 1..n
  BY LenProperties DEF ConnTypeOK
<1>2. Len(upstreams') = n - 1
  BY <1>1 DEF WithoutSlot
<1>3. \A j \in 1..(n - 1) :
        upstreams'[j] = IF j = k THEN upstreams[n] ELSE upstreams[j]
  BY <1>1 DEF WithoutSlot
<1>4. \A i, j \in 1..n : upstreams[i] = upstreams[j] => i = j
  BY DEF ArraySound
<1> HIDE DEF n
<1>5. ASSUME NEW i \in 1..(n - 1), NEW j \in 1..(n - 1), upstreams'[i] = upstreams'[j]
      PROVE  i = j
  BY <1>1, <1>3, <1>4, <1>5
<1>6. Listed' = {upstreams'[j] : j \in 1..(n - 1)} /\ Listed = {upstreams[j] : j \in 1..n}
  BY <1>2 DEF Listed, n
<1>7. ASSUME NEW j \in 1..(n - 1)
      PROVE  \E i \in 1..n : upstreams'[j] = upstreams[i] /\ i # k
  BY <1>1, <1>3
<1>8. ASSUME NEW i \in 1..n, i # k
      PROVE  \E j \in 1..(n - 1) : upstreams[i] = upstreams'[j]
  <2>1. CASE i = n
    BY <1>1, <1>3, <1>8, <2>1
  <2>2. CASE i # n
    BY <1>1, <1>3, <1>8, <2>2
  <2> QED
    BY <2>1, <2>2
<1>9. Listed' = Listed \ {upstreams[k]}
  <2>1. ASSUME NEW x \in Listed' PROVE x \in Listed /\ x # upstreams[k]
    <3>1. PICK j \in 1..(n - 1) : x = upstreams'[j]
      BY <1>6, <2>1
    <3>2. PICK i \in 1..n : x = upstreams[i] /\ i # k
      BY <1>7, <3>1
    <3> QED
      BY <1>1, <1>4, <1>6, <3>2
  <2>2. ASSUME NEW x \in Listed, x # upstreams[k] PROVE x \in Listed'
    <3>1. PICK i \in 1..n : x = upstreams[i] /\ i # k
      BY <1>6, <2>2
    <3> QED
      BY <1>6, <1>8, <3>1
  <2> QED
    BY <2>1, <2>2
<1> QED
  BY <1>2, <1>5, <1>9

\* sio_rpc_remove_upstream.
LEMMA RemoveUpstreamStep ==
  ASSUME IInv, NEW u \in Upstream, RemoveUpstream(u), TypeOK'
  PROVE  IInv'
<1>0. /\ TypeOK /\ Tables /\ LiveCallsAreTimed /\ OneSocket /\ ArraySound /\ Handler
      /\ ConnTypeOK /\ at = "idle"
      /\ table \in [Upstream -> SUBSET (Ids \X Request)]
      /\ stream \in [Upstream -> {"none", "connecting", "open"}]
      /\ socks \in [Upstream -> Int]
      /\ UNCHANGED <<live, timers, reqId, cbs, at, cur>>
  BY DEF IInv, Tables, TypeOK, ConnTypeOK, RemoveUpstream, frameVars
<1>1. PICK k \in 1..Len(upstreams) : upstreams[k] = u /\ upstreams' = WithoutSlot(k)
  BY DEF RemoveUpstream
<1>2. /\ \A i, j \in 1..Len(upstreams') : upstreams'[i] = upstreams'[j] => i = j
      /\ Listed' = Listed \ {u}
  BY <1>0, <1>1, WithoutSlotSound
<1>3. LiveCallsAreTimed' /\ Handler'
  BY <1>0, IdleStep
<1>4. CASE stream[u] # "none"
  <2>1. /\ Cleared(u, table, {})
        /\ stream' = [stream EXCEPT ![u] = "none"]
        /\ socks' = [socks EXCEPT ![u] = @ - 1]
    BY <1>4 DEF RemoveUpstream, Disconnect
  <2>2. Tables'
    BY <1>0, <2>1, ClearedTables
  <2>3. OneSocket' /\ ArraySound'
    BY <1>0, <1>2, <1>4, <2>1 DEF OneSocket, ArraySound
  <2> QED
    BY <1>3, <2>2, <2>3 DEF IInv, Tables
<1>5. CASE stream[u] = "none"
  <2>1. UNCHANGED <<stream, socks, nextId, table, wire, owner>>
    BY <1>5 DEF RemoveUpstream
  <2>2. Tables'
    BY <1>0, <2>1, OpenTables
  <2>3. OneSocket' /\ ArraySound'
    BY <1>0, <1>2, <1>5, <2>1 DEF OneSocket, ArraySound
  <2> QED
    BY <1>3, <2>2, <2>3 DEF IInv, Tables
<1> QED
  BY <1>4, <1>5

\* A connection is closed by an event, a timer or a malformed message.
LEMMA ResetStep ==
  ASSUME IInv, NEW u \in Upstream, stream[u] # "none", Reset(u, table, {}),
         UNCHANGED <<upstreams, live, timers, reqId, cbs, cur>>,
         at = "idle" \/ at = "parse", at' = "idle", TypeOK'
  PROVE  IInv'
<1>0. /\ TypeOK /\ Tables /\ LiveCallsAreTimed /\ OneSocket /\ ArraySound /\ Handler
      /\ table \in [Upstream -> SUBSET (Ids \X Request)]
      /\ stream \in [Upstream -> {"none", "connecting", "open"}]
      /\ socks \in [Upstream -> Int]
      /\ Listed' = Listed
  BY DEF IInv, Tables, TypeOK, ConnTypeOK, Listed
<1>1. /\ Cleared(u, table, {})
      /\ stream' = [stream EXCEPT ![u] = "none"]
      /\ socks' = [socks EXCEPT ![u] = @ - 1]
  BY DEF Reset, Disconnect
<1>2. Tables'
  BY <1>0, <1>1, ClearedTables
<1>3. OneSocket' /\ ArraySound'
  BY <1>0, <1>1 DEF OneSocket, ArraySound
<1>4. LiveCallsAreTimed' /\ Handler'
  BY <1>0 DEF LiveCallsAreTimed, Handler, InCallback
<1> QED
  BY <1>2, <1>3, <1>4 DEF IInv, Tables

\* _sio_rpc_upstream_timer.
LEMMA UpstreamTimerStep ==
  ASSUME IInv, NEW u \in Upstream, UpstreamTimer(u), TypeOK'
  PROVE  IInv'
<1>0. /\ TypeOK /\ Tables /\ LiveCallsAreTimed /\ OneSocket /\ ArraySound /\ Handler
      /\ at = "idle" /\ u \in Listed /\ Listed' = Listed
      /\ UNCHANGED <<upstreams, live, timers, reqId, cbs, at, cur, curUp>>
      /\ table \in [Upstream -> SUBSET (Ids \X Request)]
      /\ stream \in [Upstream -> {"none", "connecting", "open"}]
      /\ socks \in [Upstream -> Int]
  BY DEF IInv, Tables, TypeOK, ConnTypeOK, Listed, UpstreamTimer, frameVars
<1>1. LiveCallsAreTimed' /\ Handler'
  BY <1>0, IdleStep
<1>2. CASE Reconnect(u)
  <2>1. /\ stream[u] = "none" /\ UNCHANGED <<nextId, table, wire, owner>>
        /\ \A v \in Upstream \ {u} : stream'[v] = stream[v] /\ socks'[v] = socks[v]
        /\ \/ stream'[u] = "none" /\ socks'[u] = socks[u]
           \/ stream'[u] = "connecting" /\ socks'[u] = socks[u] + 1
    BY <1>0, <1>2 DEF Reconnect, Connect, ConnectFails
  <2>2. Tables'
    BY <1>0, <2>1, OpenTables
  <2>3. OneSocket' /\ ArraySound'
    BY <1>0, <2>1 DEF OneSocket, ArraySound
  <2> QED
    BY <1>1, <2>2, <2>3 DEF IInv, Tables
<1>3. CASE Overfull(u)
  <2>0. stream[u] # "none"
    BY <1>3 DEF Overfull
  <2>1. CASE Reset(u, table, {})
    BY <1>0, <2>0, <2>1, ResetStep
  <2>2. CASE Replace(u)
    <3>1. /\ Cleared(u, table, {})
          /\ \A v \in Upstream \ {u} : stream'[v] = stream[v] /\ socks'[v] = socks[v]
          /\ \/ stream'[u] = "connecting" /\ socks'[u] = socks[u]
             \/ stream'[u] = "none" /\ socks'[u] = socks[u] - 1
      BY <1>0, <2>2 DEF Replace
    <3>2. Tables'
      BY <1>0, <3>1, ClearedTables
    <3>3. OneSocket' /\ ArraySound'
      BY <1>0, <2>0, <3>1 DEF OneSocket, ArraySound
    <3> QED
      BY <1>1, <3>2, <3>3 DEF IInv, Tables
  <2> QED
    BY <1>3, <2>1, <2>2 DEF Overfull
<1> QED
  BY <1>2, <1>3 DEF UpstreamTimer

\* The connection is up, input arrives, a second passes.
LEMMA EventStep ==
  ASSUME IInv, TypeOK', Tick \/ \E u \in Upstream : Connected(u) \/ Data(u)
  PROVE  IInv'
<1>0. /\ TypeOK /\ Tables /\ LiveCallsAreTimed /\ OneSocket /\ ArraySound /\ Handler
      /\ stream \in [Upstream -> {"none", "connecting", "open"}]
  BY DEF IInv, Tables, TypeOK, ConnTypeOK
<1>1. /\ at = "idle" /\ Listed' = Listed
      /\ UNCHANGED <<upstreams, table, wire, nextId, owner, reqId, live, socks,
                     timers, cbs>>
  BY DEF Tick, Connected, Data, connVars, reqVars, frameVars, Listed
<1>2. \A u \in Upstream : stream'[u] = "none" <=> stream[u] = "none"
  BY <1>0 DEF Tick, Connected, Data, connVars
<1>3. Tables'
  BY <1>0, <1>1, <1>2, OpenTables
<1>4. OneSocket' /\ ArraySound'
  BY <1>0, <1>1, <1>2 DEF OneSocket, ArraySound
<1>5. LiveCallsAreTimed'
  BY <1>0, <1>1 DEF LiveCallsAreTimed, Data, Connected, Tick
<1>6. CASE at' = "idle"
  BY <1>0, <1>1, <1>3, <1>4, <1>6, IdleStep DEF IInv, Tables
<1>7. CASE \E u \in Upstream : Data(u)
  <2>1. at' = "parse" /\ curUp' \in Upstream /\ stream'[curUp'] = "open"
    BY <1>7 DEF Data, connVars
  <2>2. Handler'
    BY <1>0, <1>1, <2>1 DEF Handler, InCallback
  <2> QED
    BY <1>3, <1>4, <1>5, <2>2 DEF IInv, Tables
<1> QED
  BY <1>1, <1>6, <1>7 DEF Tick, Connected, frameVars

\* An answer is parsed: it belongs to the call the table has for its id.
LEMMA RespondStep ==
  ASSUME IInv, NEW i, NEW s, Respond(i, s), TypeOK'
  PROVE  IInv'
<1>0. /\ TypeOK /\ Tables /\ LiveCallsAreTimed /\ OneSocket /\ ArraySound /\ Handler
      /\ table \in [Upstream -> SUBSET (Ids \X Request)]
      /\ wire \in [Upstream -> SUBSET (Ids \X Request)]
      /\ cbs \in [Request -> Nat]
      /\ owner \in [Request -> Upstream \cup {None}]
  BY DEF IInv, Tables, TypeOK, ConnTypeOK, CallTypeOK
<1>1. /\ at = "parse" /\ curUp \in Upstream /\ stream[curUp] = "open"
      /\ <<i, s>> \in wire[curUp]
      /\ wire' = [wire EXCEPT ![curUp] = @ \ {<<i, s>>}]
      /\ UNCHANGED <<upstreams, stream, socks, nextId, live, timers, reqId, curUp, closed>>
      /\ Listed' = Listed
  BY <1>0 DEF Respond, Answered, Mismatched, Late, Arrives, Handler, Listed
<1>2. OneSocket' /\ ArraySound' /\ timers' \subseteq live' /\ live' \subseteq timers'
  BY <1>0, <1>1 DEF OneSocket, ArraySound, LiveCallsAreTimed
<1>3. LiveCallsAreTimed'
  BY <1>2 DEF LiveCallsAreTimed
<1>r. \/ table' = [table EXCEPT ![curUp] = {p \in @ : p[1] # i}]
      \/ table' = table /\ \A p \in table[curUp] : p[1] # i
  BY DEF Respond, Answered, Mismatched, Late
<1>4. \A v \in Upstream : /\ table'[v] \subseteq table[v]
                          /\ v # curUp => table'[v] = table[v]
  BY <1>0, <1>1, <1>r
<1>5. \A p \in table'[curUp] : p[1] # i
  BY <1>0, <1>1, <1>r
<1>6. FreshIds'
  BY <1>0, <1>1, <1>4 DEF Tables, FreshIds
<1>7. AnswersMatch'
  <2>1. ASSUME NEW v \in Upstream PROVE table'[v] \subseteq wire'[v]
    <3>1. table[v] \subseteq wire[v] /\ table'[v] \subseteq table[v]
      BY <1>0, <1>4 DEF Tables, AnswersMatch
    <3>2. CASE v = curUp
      BY <1>0, <1>1, <1>5, <3>1, <3>2
    <3>3. CASE v # curUp
      BY <1>0, <1>1, <3>1, <3>3
    <3> QED
      BY <3>2, <3>3
  <2>2. \A v \in Upstream : wire'[v] \subseteq wire[v]
    BY <1>0, <1>1
  <2> QED
    BY <1>0, <1>4, <2>1, <2>2 DEF Tables, AnswersMatch
<1>8. CASE Late(i, s)
  <2>1. UNCHANGED <<table, owner, cbs, at, cur>>
    BY <1>8 DEF Late
  <2>2. Ownership' /\ Handler'
    BY <1>0, <1>1, <2>1 DEF Tables, Ownership, Handler, InCallback
  <2> QED
    BY <1>2, <1>3, <1>6, <1>7, <2>2 DEF IInv
<1>9. ASSUME NEW q \in Request, <<i, q>> \in table[curUp],
             table' = [table EXCEPT ![curUp] = {p \in @ : p[1] # i}]
      PROVE  /\ q \in live /\ owner[q] = curUp /\ reqId[q] = i
             /\ \A v \in Upstream : \A p \in table'[v] : p[2] # q
             /\ \A v \in Upstream : \A p \in table[v] : p \in table'[v] \/ p = <<i, q>>
  <2>1. q \in live /\ owner[q] = curUp /\ reqId[q] = i
    BY <1>0, <1>1, <1>9 DEF Tables, Ownership
  <2>2. ASSUME NEW v \in Upstream, NEW p \in table'[v], p[2] = q PROVE FALSE
    <3>1. p \in table[v]
      BY <1>4, <2>2
    <3>2. owner[p[2]] = v /\ reqId[p[2]] = p[1]
      BY <1>0, <3>1 DEF Tables, Ownership
    <3>3. v = curUp /\ p[1] = i
      BY <2>1, <2>2, <3>2
    <3> QED
      BY <1>5, <2>2, <3>3
  <2>3. ASSUME NEW v \in Upstream, NEW p \in table[v], p \notin table'[v]
        PROVE  p = <<i, q>>
    <3>1. v = curUp /\ p[1] = i
      BY <1>0, <1>1, <1>9, <2>3
    <3>2. p \in wire[curUp]
      BY <1>0, <1>1, <2>3, <3>1 DEF Tables, AnswersMatch
    <3> QED
      BY <1>0, <1>1, <1>9, <3>1, <3>2 DEF Tables, AnswersMatch
  <2> QED
    BY <2>1, <2>2, <2>3
<1>10. CASE Answered(i, s)
  <2>1. PICK q \in Request :
          /\ <<i, q>> \in table[curUp]
          /\ table' = [table EXCEPT ![curUp] = {p \in @ : p[1] # i}]
          /\ cbs' = [cbs EXCEPT ![q] = @ + 1]
          /\ at' = "answer" /\ cur' = q
    BY <1>10 DEF Answered
  <2>2. owner' = owner
    BY <1>10 DEF Answered
  <2>3. /\ q \in live /\ owner[q] = curUp /\ reqId[q] = i
        /\ \A v \in Upstream : \A p \in table'[v] : p[2] # q
        /\ \A v \in Upstream : \A p \in table[v] : p \in table'[v] \/ p = <<i, q>>
    BY <1>9, <2>1
  <2>4. \A v \in Upstream : \A p \in table'[v] :
          p[2] \in live' /\ owner'[p[2]] = v /\ reqId'[p[2]] = p[1]
    BY <1>0, <1>1, <1>4, <2>2 DEF Tables, Ownership
  <2>5. ASSUME NEW r \in live', owner'[r] # None, r # q
        PROVE  <<reqId'[r], r>> \in table'[owner'[r]]
    <3>1. r \in live /\ r \in Request /\ owner[r] \in Upstream
      BY <1>0, <1>1, <2>2, <2>5 DEF TypeOK, CallTypeOK
    <3>2. <<reqId[r], r>> \in table[owner[r]]
      BY <1>0, <1>1, <2>2, <2>5, <3>1 DEF Tables, Ownership
    <3>3. <<reqId[r], r>> # <<i, q>>
      BY <2>5
    <3> QED
      BY <1>1, <2>2, <2>3, <3>1, <3>2, <3>3
  <2>6. Ownership'
    BY <2>1, <2>4, <2>5 DEF Ownership
  <2>7. \A r \in live : cbs[r] = 0
    BY <1>0, <1>1 DEF Handler, InCallback
  <2>8. \A r \in live' : cbs'[r] = IF r = q THEN 1 ELSE 0
    BY <1>0, <1>1, <2>1, <2>3, <2>7 DEF TypeOK, CallTypeOK
  <2>9. Handler'
    BY <1>1, <2>1, <2>3, <2>8 DEF Handler, InCallback
  <2> QED
    BY <1>2, <1>3, <1>6, <1>7, <2>6, <2>9 DEF IInv
<1>11. CASE Mismatched(i, s)
  <2>1. PICK q \in Request :
          /\ <<i, q>> \in table[curUp]
          /\ table' = [table EXCEPT ![curUp] = {p \in @ : p[1] # i}]
          /\ owner' = [owner EXCEPT ![q] = None]
    BY <1>11 DEF Mismatched
  <2>2. UNCHANGED <<cbs, at, cur>>
    BY <1>11 DEF Mismatched
  <2>3. /\ q \in live /\ owner[q] = curUp /\ reqId[q] = i
        /\ \A v \in Upstream : \A p \in table'[v] : p[2] # q
        /\ \A v \in Upstream : \A p \in table[v] : p \in table'[v] \/ p = <<i, q>>
    BY <1>9, <2>1
  <2>4. \A r \in Request : owner'[r] = IF r = q THEN None ELSE owner[r]
    BY <1>0, <2>1
  <2>5. ASSUME NEW v \in Upstream, NEW p \in table'[v]
        PROVE  p[2] \in live' /\ owner'[p[2]] = v /\ reqId'[p[2]] = p[1]
    <3>1. p \in table[v] /\ p[2] # q /\ p[2] \in Request
      BY <1>0, <1>4, <2>3, <2>5
    <3> QED
      BY <1>0, <1>1, <2>4, <3>1 DEF Tables, Ownership
  <2>6. ASSUME NEW r \in live', owner'[r] # None
        PROVE  <<reqId'[r], r>> \in table'[owner'[r]]
    <3>1. r \in live /\ r \in Request /\ r # q /\ owner'[r] = owner[r]
          /\ owner[r] \in Upstream
      BY <1>0, <1>1, <2>4, <2>6 DEF TypeOK, CallTypeOK
    <3>2. <<reqId[r], r>> \in table[owner[r]]
      BY <1>0, <1>1, <2>6, <3>1 DEF Tables, Ownership
    <3>3. <<reqId[r], r>> # <<i, q>>
      BY <3>1
    <3> QED
      BY <1>1, <2>3, <3>1, <3>2, <3>3
  <2>7. Ownership'
    BY <2>5, <2>6 DEF Ownership
  <2>8. Handler'
    BY <1>0, <1>1, <2>2 DEF Handler, InCallback
  <2> QED
    BY <1>2, <1>3, <1>6, <1>7, <2>7, <2>8 DEF IInv
<1> QED
  BY <1>8, <1>10, <1>11 DEF Respond

\* The user returns from a callback: nothing points to the freed call.
LEMMA ReturnStep ==
  ASSUME IInv, TimeoutReturn \/ AnswerReturn, TypeOK'
  PROVE  IInv'
<1>0. /\ TypeOK /\ Tables /\ LiveCallsAreTimed /\ OneSocket /\ ArraySound /\ Handler
      /\ \A q \in live : q \in Request
      /\ owner \in [Request -> Upstream \cup {None}]
  BY DEF IInv, Tables, TypeOK, CallTypeOK
<1>1. /\ UNCHANGED <<upstreams, stream, socks, nextId, table, wire, owner, reqId, cbs, curUp, closed>>
      /\ live' = live \ {cur} /\ Listed' = Listed /\ InCallback /\ cur \in live
  BY <1>0 DEF TimeoutReturn, AnswerReturn, connVars, Listed, InCallback, Handler
<1>2. OneSocket' /\ ArraySound'
  BY <1>0, <1>1 DEF OneSocket, ArraySound
<1>3. \A u \in Upstream : \A p \in table[u] : p[2] # cur
  <2>1. CASE at = "answer"
    BY <1>0, <2>1 DEF Handler
  <2>2. CASE at = "timeout"
    BY <1>0, <2>2, ClientAssumption DEF Handler, Tables, Ownership
  <2> QED
    BY <1>1, <2>1, <2>2 DEF InCallback
<1>4. \A u \in Upstream : \A p \in table'[u] :
        p[2] \in live' /\ owner'[p[2]] = u /\ reqId'[p[2]] = p[1]
  BY <1>0, <1>1, <1>3 DEF Tables, Ownership
<1>5. \A r \in live' : owner'[r] # None => <<reqId'[r], r>> \in table'[owner'[r]]
  BY <1>0, <1>1 DEF Tables, Ownership
<1>6. Ownership'
  BY <1>4, <1>5 DEF Ownership
<1>7. FreshIds' /\ AnswersMatch'
  BY <1>0, <1>1 DEF Tables, FreshIds, AnswersMatch
<1>8. LiveCallsAreTimed'
  BY <1>0, <1>1 DEF LiveCallsAreTimed, TimeoutReturn, AnswerReturn, Handler
<1>9. at' \in {"idle", "parse", "undefined"}
  BY DEF TimeoutReturn, AnswerReturn
<1>10. at' = "parse" => curUp' \in Upstream /\ stream'[curUp'] = "open"
  BY <1>0, <1>1 DEF TimeoutReturn, AnswerReturn, Handler
<1>11. \A r \in live' : cbs'[r] = 0
  BY <1>0, <1>1 DEF Handler
<1>12. Handler'
  BY <1>9, <1>10, <1>11 DEF Handler, InCallback
<1> QED
  BY <1>2, <1>6, <1>7, <1>8, <1>12 DEF IInv

\* sio_rpc_client_free leaves no call and no connection.
LEMMA ClientFreeStep ==
  ASSUME IInv, ClientFree, TypeOK'
  PROVE  IInv'
<1>0. /\ TypeOK /\ LiveCallsAreTimed /\ OneSocket
      /\ socks \in [Upstream -> Int]
  BY DEF IInv, TypeOK, ConnTypeOK
<1>1. /\ Ownership' /\ FreshIds' /\ AnswersMatch'
  BY DEF ClientFree, Ownership, FreshIds, AnswersMatch
<1>2. LiveCallsAreTimed' /\ Handler'
  BY <1>0 DEF ClientFree, LiveCallsAreTimed, Handler, InCallback
<1>3. OneSocket'
  BY <1>0 DEF ClientFree, OneSocket
<1>4. ArraySound'
  BY DEF ClientFree, ArraySound
<1> QED
  BY <1>1, <1>2, <1>3, <1>4 DEF IInv

\* The parse loop ends.
LEMMA ParseEndStep ==
  ASSUME IInv, ParseEnd, TypeOK'
  PROVE  IInv'
<1>0. /\ TypeOK /\ Tables /\ LiveCallsAreTimed /\ OneSocket /\ ArraySound /\ Handler
  BY DEF IInv, Tables
<1>1. /\ at = "parse" /\ at' = "idle" /\ Listed' = Listed
      /\ UNCHANGED <<upstreams, stream, socks, nextId, table, wire, owner, reqId,
                     live, timers, cbs, cur>>
  BY DEF ParseEnd, connVars, reqVars, Listed
<1>2. Tables'
  BY <1>0, <1>1, OpenTables
<1>3. OneSocket' /\ ArraySound' /\ LiveCallsAreTimed'
  BY <1>0, <1>1 DEF OneSocket, ArraySound, LiveCallsAreTimed
<1>4. Handler'
  BY <1>0, <1>1 DEF Handler, InCallback
<1> QED
  BY <1>2, <1>3, <1>4 DEF IInv, Tables

-----------------------------------------------------------------------------
LEMMA InitIInv == Init => IInv
<1> SUFFICES ASSUME Init PROVE IInv
  OBVIOUS
<1>1. ConnTypeOK
  BY ClientAssumption DEF Init, ConnTypeOK, Ids
<1>2. CallTypeOK
  BY DEF Init, CallTypeOK, Ids
<1>3. FrameTypeOK
  BY DEF Init, FrameTypeOK
<1>4. Ownership /\ FreshIds /\ AnswersMatch /\ LiveCallsAreTimed
  BY DEF Init, Ownership, FreshIds, AnswersMatch, LiveCallsAreTimed
<1>5. OneSocket /\ ArraySound /\ Handler
  BY DEF Init, OneSocket, ArraySound, Handler, InCallback
<1> QED
  BY <1>1, <1>2, <1>3, <1>4, <1>5 DEF IInv, TypeOK

LEMMA NextIInv == IInv /\ Next => IInv'
<1> SUFFICES ASSUME IInv, Next PROVE IInv'
  OBVIOUS
<1>0. TypeOK'
  BY TypeStep
<1>1. ASSUME NEW r \in Request, Call(r) \/ RequestTimeout(r) PROVE IInv'
  BY <1>0, <1>1, CallStep, RequestTimeoutStep
<1>2. ASSUME NEW u \in Upstream, AddUpstream(u) \/ RemoveUpstream(u) \/ UpstreamTimer(u)
      PROVE  IInv'
  BY <1>0, <1>2, AddUpstreamStep, RemoveUpstreamStep, UpstreamTimerStep
<1>3. ASSUME Tick \/ \E u \in Upstream : Connected(u) \/ Data(u) PROVE IInv'
  BY <1>0, <1>3, EventStep
<1>4. ASSUME NEW u \in Upstream, Down(u) PROVE IInv'
  <2>1. /\ at = "idle" /\ stream[u] # "none" /\ Reset(u, table, {})
        /\ UNCHANGED <<upstreams, live, timers, reqId, cbs, at, cur>>
    BY <1>4 DEF Down, frameVars
  <2> QED
    BY <1>0, <2>1, ResetStep
<1>5. ASSUME ParseMalformed PROVE IInv'
  <2>1. /\ curUp \in Upstream /\ stream[curUp] # "none"
        /\ Reset(curUp, table, {}) /\ at = "parse" /\ at' = "idle"
        /\ UNCHANGED <<upstreams, live, timers, reqId, cbs, cur>>
    BY <1>5 DEF ParseMalformed, IInv, Handler
  <2> QED
    BY <1>0, <2>1, ResetStep
<1>6. ASSUME NEW i, NEW s, Respond(i, s) PROVE IInv'
  BY <1>0, <1>6, RespondStep
<1>7. ASSUME ClientFree \/ TimeoutReturn \/ AnswerReturn \/ ParseEnd PROVE IInv'
  BY <1>0, <1>7, ClientFreeStep, ReturnStep, ParseEndStep
<1> QED
  BY <1>1, <1>2, <1>3, <1>4, <1>5, <1>6, <1>7 DEF Next

LEMMA StutterIInv == IInv /\ UNCHANGED vars => IInv'
BY SMTT(30) DEF vars, connVars, reqVars, frameVars, IInv, TypeOK, ConnTypeOK, CallTypeOK,
       FrameTypeOK, Ownership, FreshIds, AnswersMatch, LiveCallsAreTimed,
       OneSocket, ArraySound, Listed, Handler, InCallback

\* The inductive invariant holds in every reachable state.
THEOREM Invariance == Spec => []IInv
<1>1. IInv /\ [Next]_vars => IInv'
  <2>1. IInv /\ Next => IInv'
    BY NextIInv
  <2>2. IInv /\ UNCHANGED vars => IInv'
    BY StutterIInv
  <2> QED
    BY ONLY <2>1, <2>2
<1> QED
  BY InitIInv, <1>1, PTL DEF Spec

\* The variables keep their types.
THEOREM TypeCorrect == Spec => []TypeOK
<1>1. IInv => TypeOK
  BY DEF IInv
<1> QED
  BY <1>1, Invariance, PTL

\* A connection's table and the calls waiting on it always agree, so the
\* assert in _sio_rpc_call_timer and in the reset never fails.
THEOREM OwnershipHolds == Spec => []Ownership
<1>1. IInv => Ownership
  BY DEF IInv
<1> QED
  BY <1>1, Invariance, PTL

\* An answer reaches the call it answers, whatever was retried or reset.
THEOREM AnswersMatchHolds == Spec => []AnswersMatch
<1>1. IInv => AnswersMatch
  BY DEF IInv
<1> QED
  BY <1>1, Invariance, PTL

\* The next id of a connection is never one that a call or an unanswered
\* message still has.
THEOREM FreshIdsHolds == Spec => []FreshIds
<1>1. IInv => FreshIds
  BY DEF IInv
<1> QED
  BY <1>1, Invariance, PTL

\* Every live call will be woken by its timer.
THEOREM CallsAreTimed == Spec => []LiveCallsAreTimed
<1>1. IInv => LiveCallsAreTimed
  BY DEF IInv
<1> QED
  BY <1>1, Invariance, PTL

\* No socket is leaked or closed twice.
THEOREM SocketsSound == Spec => []OneSocket
<1>1. IInv => OneSocket
  BY DEF IInv
<1> QED
  BY <1>1, Invariance, PTL

\* Whatever is added and removed, the array has no upstream twice and has every
\* one with a connection.
THEOREM ArraySoundHolds == Spec => []ArraySound
<1>1. IInv => ArraySound
  BY DEF IInv
<1> QED
  BY <1>1, Invariance, PTL

-----------------------------------------------------------------------------
(* The client implements RpcContract: every step completes one call, issues *)
(* one, completes all of them, or changes nothing the user sees.            *)

LEMMA PhaseUnchanged ==
  ASSUME IInv, cbs' = cbs, \A q \in Request : cbs[q] = 0 => (q \in live' <=> q \in live)
  PROVE  phase' = phase
BY DEF phase

\* A pending call is called back for the first time.
LEMMA CompleteStep ==
  ASSUME IInv, NEW q \in live, ~InCallback,
         cbs' = [cbs EXCEPT ![q] = @ + 1], live' = live
  PROVE  Contract!Complete(q)
<1>1. /\ q \in Request /\ cbs[q] = 0 /\ cbs \in [Request -> Nat]
  BY DEF IInv, TypeOK, CallTypeOK, Handler
<1>2. phase[q] = "pending"
  BY <1>1 DEF phase
<1>3. \A r \in Request : cbs'[r] = IF r = q THEN 1 ELSE cbs[r]
  BY <1>1
<1>4. phase' = [phase EXCEPT ![q] = "done"]
  <2>1. ASSUME NEW r \in Request
        PROVE  phase'[r] = IF r = q THEN "done" ELSE phase[r]
    <3>1. CASE r = q
      BY <1>1, <1>3, <3>1 DEF phase
    <3>2. CASE r # q
      BY <1>3, <3>2 DEF phase
    <3> QED
      BY <3>1, <3>2
  <2>2. /\ phase' = [r \in Request |-> phase'[r]]
        /\ phase = [r \in Request |-> phase[r]]
    BY DEF phase
  <2> QED
    BY <1>1, <2>1, <2>2
<1> QED
  BY <1>2, <1>4 DEF Contract!Complete

LEMMA ContractStep ==
  ASSUME IInv, Next PROVE Contract!Next \/ UNCHANGED phase
<1>0. /\ cbs \in [Request -> Nat] /\ live \subseteq Request /\ timers \subseteq live
  BY DEF IInv, TypeOK, CallTypeOK, LiveCallsAreTimed
<1>1. ASSUME NEW r \in Request, Call(r) PROVE Contract!Issue(r)
  <2>1. r \notin live /\ cbs[r] = 0 /\ cbs' = cbs /\ live' = live \cup {r}
    BY <1>1 DEF Call
  <2>2. phase[r] = "new" /\ phase' = [phase EXCEPT ![r] = "pending"]
    BY <2>1 DEF phase
  <2> QED
    BY <2>2 DEF Contract!Issue
<1>2. ASSUME NEW r \in Request, RequestTimeout(r)
      PROVE  Contract!Complete(r) \/ UNCHANGED phase
  <2>1. CASE GiveUp(r)
    BY <1>0, <1>2, <2>1, CompleteStep DEF RequestTimeout, GiveUp, InCallback
  <2>2. CASE Retry(r)
    BY <1>2, <2>2, PhaseUnchanged DEF RequestTimeout, Retry
  <2> QED
    BY <1>2, <2>1, <2>2 DEF RequestTimeout
<1>3. ASSUME NEW i, NEW s, Respond(i, s)
      PROVE  (\E q \in Request : Contract!Complete(q)) \/ UNCHANGED phase
  <2>1. live' = live /\ ~InCallback
    BY <1>3 DEF Respond, Answered, Mismatched, Late, Arrives, InCallback
  <2>2. CASE Answered(i, s)
    <3>1. PICK q \in Request : /\ <<i, q>> \in table[curUp]
                               /\ cbs' = [cbs EXCEPT ![q] = @ + 1]
      BY <2>2 DEF Answered
    <3>2. q \in live
      BY <2>2, <3>1 DEF IInv, Ownership, Handler, Answered, Arrives
    <3> QED
      BY <2>1, <3>1, <3>2, CompleteStep
  <2>3. CASE Mismatched(i, s) \/ Late(i, s)
    BY <2>1, <2>3, PhaseUnchanged DEF Mismatched, Late
  <2> QED
    BY <1>3, <2>2, <2>3 DEF Respond
<1>4. ASSUME TimeoutReturn \/ AnswerReturn PROVE UNCHANGED phase
  <2>1. live' = live \ {cur} /\ cbs' = cbs /\ cur \in live /\ InCallback
    BY <1>4 DEF TimeoutReturn, AnswerReturn, InCallback, IInv, Handler
  <2>2. cbs[cur] = 1
    BY <2>1 DEF IInv, Handler
  <2> QED
    BY <2>1, <2>2, PhaseUnchanged
<1>5. ASSUME ClientFree PROVE Contract!Shutdown
  <2>1. /\ live' = {} /\ \A r \in live : cbs[r] = 0
        /\ cbs' = [r \in Request |-> IF r \in live THEN cbs[r] + 1 ELSE cbs[r]]
    BY <1>5 DEF ClientFree, IInv, Handler, InCallback
  <2> QED
    BY <1>0, <2>1 DEF Contract!Shutdown, phase
<1>6. ASSUME UNCHANGED <<live, cbs>> PROVE UNCHANGED phase
  BY <1>6, PhaseUnchanged
<1>7. ASSUME NEW u \in Upstream,
             \/ AddUpstream(u) \/ RemoveUpstream(u) \/ UpstreamTimer(u)
             \/ Connected(u) \/ Down(u) \/ Data(u)
      PROVE  UNCHANGED phase
  BY <1>6, <1>7 DEF AddUpstream, RemoveUpstream, UpstreamTimer, Connected, Down,
                    Data, reqVars
<1>8. ASSUME Tick \/ ParseEnd \/ ParseMalformed PROVE UNCHANGED phase
  BY <1>6, <1>8 DEF Tick, ParseEnd, ParseMalformed, reqVars
<1> QED
  BY <1>1, <1>2, <1>3, <1>4, <1>5, <1>7, <1>8 DEF Next, Contract!Next

\* Every call is called back at most once and never dropped silently:
\* the client implements RpcContract.
THEOREM ContractHolds == Spec => KeepsContract
<1>1. Init => Contract!Init
  BY DEF Init, Contract!Init, phase
<1>2. IInv /\ [Next]_vars => [Contract!Next]_phase
  <2>1. CASE IInv /\ UNCHANGED vars
    BY <2>1, PhaseUnchanged DEF vars, reqVars
  <2>2. CASE IInv /\ Next
    BY <2>2, ContractStep
  <2> QED
    BY <2>1, <2>2
<1> QED
  BY <1>1, <1>2, Invariance, PTL DEF Spec, KeepsContract, Contract!Spec
=============================================================================
