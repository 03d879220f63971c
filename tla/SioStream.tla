----------------------------- MODULE SioStream -----------------------------
(***************************************************************************)
(* struct sio_stream (simple_io/sio_stream.c) on the loop of SioLoop:      *)
(* listening, connecting and connected sockets, writes buffered while the  *)
(* socket takes no more, and users that close, detach, attach and write    *)
(* from any callback.                                                      *)
(*                                                                         *)
(* A stream stands for its socket.  Bytes are numbered in the order the    *)
(* user writes them.  Outside the module: the kernel, which takes as much  *)
(* of a write as it likes, or fails it, and the peer.                      *)
(***************************************************************************)
EXTENDS SioLoop, Sequences

CONSTANT MaxByte   \* bound: bytes written to a stream

ASSUME StreamAssumption == MaxByte \in Nat /\ None \notin Fd /\ None \notin Sfd

Stream == Fd

VARIABLES
  type,          \* stream->type, "none" before it is created and after it is closed
  sfd,           \* stream->sfd
  outbuf,        \* stream->outbuf
  sent,          \* bytes the kernel took
  accepted,      \* bytes sio_stream_write took
  at             \* "run" in the loop or outside, "callback" while the user runs,
                 \* "crashed" after a write to address 0

streamVars == <<type, sfd, outbuf, sent, accepted>>
vars == <<loopVars, streamVars, at>>

TypeOK ==
  /\ LoopTypeOK
  /\ type \in [Stream -> {"none", "listen", "connect", "normal"}]
  /\ sfd \in [Stream -> Sfd \cup {None}]
  /\ outbuf \in [Stream -> Seq(1..MaxByte)]
  /\ sent \in [Stream -> Seq(1..MaxByte)]
  /\ accepted \in [Stream -> 0..MaxByte]
  /\ at \in {"run", "callback", "crashed"}

Init ==
  /\ LoopInit
  /\ type = [s \in Stream |-> "none"]
  /\ sfd = [s \in Stream |-> None]
  /\ outbuf = [s \in Stream |-> <<>>]
  /\ sent = [s \in Stream |-> <<>>]
  /\ accepted = [s \in Stream |-> 0]
  /\ at = "run"

-----------------------------------------------------------------------------
(* The user, between two runs of the loop or in a callback. *)

UserRuns == at = "callback" \/ (at = "run" /\ ~is_in_loop)

\* Wrong: output that waits is not watched.
WrongFirstWatch(s, t) == IF t = "connect" THEN {"write"} ELSE {"read"}

\* What sio_stream_listen, _connect, _attach and the accept callback watch.
FirstWatch(s, t) ==
  IF t = "connect" THEN {"write"}
  ELSE {"read"} \cup (IF outbuf[s] # <<>> THEN {"write"} ELSE {})

Register(s, t) ==
  \E x \in Sfd : Add(x, s, FirstWatch(s, t)) /\ sfd' = [sfd EXCEPT ![s] = x]

\* sio_stream_listen, sio_stream_connect.
Open(s, t) ==
  /\ UserRuns
  /\ type[s] = "none"
  /\ type' = [type EXCEPT ![s] = t]
  /\ Register(s, t)
  /\ UNCHANGED <<outbuf, sent, accepted, at>>

\* sio_stream_close.
Close(s) ==
  /\ UserRuns
  /\ type[s] # "none"
  /\ IF sfd[s] # None THEN Del(sfd[s]) ELSE UNCHANGED loopVars
  /\ type' = [type EXCEPT ![s] = "none"]
  /\ sfd' = [sfd EXCEPT ![s] = None]
  /\ outbuf' = [outbuf EXCEPT ![s] = <<>>]
  /\ sent' = [sent EXCEPT ![s] = <<>>]
  /\ accepted' = [accepted EXCEPT ![s] = 0]
  /\ UNCHANGED at

\* Wrong: the stream keeps the address of what it deleted.
WrongDetach(s) ==
  /\ UserRuns
  /\ sfd[s] # None
  /\ Del(sfd[s])
  /\ UNCHANGED <<streamVars, at>>

\* sio_stream_detach.
Detach(s) ==
  /\ UserRuns
  /\ sfd[s] # None
  /\ Del(sfd[s])
  /\ sfd' = [sfd EXCEPT ![s] = None]
  /\ UNCHANGED <<type, outbuf, sent, accepted, at>>

\* sio_stream_attach.
Attach(s) ==
  /\ UserRuns
  /\ type[s] # "none" /\ sfd[s] = None
  /\ Register(s, type[s])
  /\ UNCHANGED <<type, outbuf, sent, accepted, at>>

Chunk(s, n) == [i \in 1..n |-> accepted[s] + i]

\* Wrong: waiting output is overtaken.
WrongMustWait(s) == type[s] = "connect"

\* sio_stream_write only buffers.
MustWait(s) == outbuf[s] # <<>> \/ type[s] = "connect"

\* sio_stream_write of n bytes.
Write(s, n) ==
  /\ UserRuns
  /\ type[s] \in {"connect", "normal"}
  /\ accepted[s] + n <= MaxByte
  /\ accepted' = [accepted EXCEPT ![s] = @ + n]
  /\ \/ /\ MustWait(s)
        /\ outbuf' = [outbuf EXCEPT ![s] = @ \o Chunk(s, n)]
        /\ UNCHANGED <<loopVars, sent, at>>
     \/ /\ ~MustWait(s)
        /\ \E k \in 0..n :
             /\ sent' = [sent EXCEPT ![s] = @ \o SubSeq(Chunk(s, n), 1, k)]
             /\ outbuf' = [outbuf EXCEPT ![s] = @ \o SubSeq(Chunk(s, n), k + 1, n)]
             /\ IF k = n THEN UNCHANGED <<loopVars, at>>
                ELSE IF sfd[s] = None THEN at' = "crashed" /\ UNCHANGED loopVars
                ELSE Watches(sfd[s], watch[sfd[s]] \cup {"write"}) /\ UNCHANGED at
  /\ UNCHANGED <<type, sfd>>

Return ==
  /\ at = "callback" /\ at' = "run"
  /\ UNCHANGED <<loopVars, streamVars>>

-----------------------------------------------------------------------------
(* The callbacks of the loop. *)

Is(t) == at = "run" /\ entry # None /\ type[entry.fd] = t

\* _sio_accept_callback: any event accepts one connection, if there is one.
Accept ==
  /\ Is("listen")
  /\ \E ev \in {"read", "error"} : HandOut(ev)
  /\ \/ UNCHANGED <<mem, fdOf, watch, streamVars, at>>
     \/ \E s \in Stream, x \in Sfd :
          /\ type[s] = "none" /\ mem[x] = "free"
          /\ type' = [type EXCEPT ![s] = "normal"]
          /\ mem' = [mem EXCEPT ![x] = "live"]
          /\ fdOf' = [fdOf EXCEPT ![x] = s]
          /\ watch' = [watch EXCEPT ![x] = {"read"}]
          /\ sfd' = [sfd EXCEPT ![s] = x]
          /\ at' = "callback"
          /\ UNCHANGED <<outbuf, sent, accepted>>

\* Reads start; the write watch stays for what was written meanwhile.
ConnectedWatch(s) == {"read"} \cup (IF outbuf[s] = <<>> THEN {} ELSE {"write"})

\* _sio_connect_callback: SIO_STREAM_CONNECTED, or SIO_STREAM_ERROR.
Connected ==
  /\ Is("connect")
  /\ \/ /\ HandOut("write")
        /\ type' = [type EXCEPT ![entry.fd] = "normal"]
        /\ watch' = [watch EXCEPT ![entry.sfd] = ConnectedWatch(entry.fd)]
     \/ /\ HandOut("write") \/ HandOut("error")
        /\ UNCHANGED <<type, watch>>
  /\ at' = "callback"
  /\ UNCHANGED <<mem, fdOf, sfd, outbuf, sent, accepted>>

\* _sio_stream_read: nothing to read, or data, an error or the end for the user.
Read ==
  /\ Is("normal")
  /\ HandOut("read")
  /\ at' \in {"run", "callback"}
  /\ UNCHANGED <<mem, fdOf, watch, streamVars>>

\* _sio_stream_write: the kernel takes k bytes.
FlushTakes(k) ==
  LET s == entry.fd IN
  /\ sent' = [sent EXCEPT ![s] = @ \o SubSeq(outbuf[s], 1, k)]
  /\ outbuf' = [outbuf EXCEPT ![s] = SubSeq(@, k + 1, Len(@))]
  /\ watch' = [watch EXCEPT ![entry.sfd] =
                 IF k = Len(outbuf[s]) THEN @ \ {"write"} ELSE @]

Flush ==
  /\ Is("normal")
  /\ HandOut("write")
  /\ \/ \E k \in 0..Len(outbuf[entry.fd]) : FlushTakes(k) /\ UNCHANGED at
     \/ at' = "callback" /\ UNCHANGED <<sent, outbuf, watch>>
  /\ UNCHANGED <<mem, fdOf, type, sfd, accepted>>

\* SIO_ERROR becomes SIO_STREAM_ERROR.
Failed ==
  /\ Is("normal")
  /\ HandOut("error")
  /\ at' = "callback"
  /\ UNCHANGED <<mem, fdOf, watch, streamVars>>

-----------------------------------------------------------------------------
Loop == at = "run" /\ (Poll \/ Pick \/ Skip \/ Leave \/ LoopEnd)
          /\ UNCHANGED <<streamVars, at>>

Next ==
  \/ \E s \in Stream : \/ Open(s, "listen") \/ Open(s, "connect") \/ Close(s)
                       \/ Detach(s) \/ Attach(s)
                       \/ \E n \in 1..MaxByte : Write(s, n)
  \/ Return \/ Accept \/ Connected \/ Read \/ Flush \/ Failed
  \/ Loop

Spec == Init /\ [][Next]_vars

-----------------------------------------------------------------------------
(* Properties. *)

\* An event reaches the stream it was polled for, or nobody: no callback runs
\* for a descriptor that was deleted, though its address and its number may be
\* in use again before the loop is over.
EventsReachTheirStream ==
  Due => type[entry.fd] # "none" /\ sfd[entry.fd] = entry.sfd

\* The registrations of the loop and the streams agree: a stream's sfd is its
\* own and in memory, and every sfd in the loop belongs to a stream.
RegistrationsAgree ==
  /\ \A s \in Stream : sfd[s] # None =>
       type[s] # "none" /\ mem[sfd[s]] = "live" /\ fdOf[sfd[s]] = s
  /\ \A x \in Live : sfd[fdOf[x]] = x

\* The kernel takes the bytes in the order they were written, whether they
\* went straight to it, waited for the connection or for the socket.
InOrder ==
  \A s \in Stream : sent[s] \o outbuf[s] = [i \in 1..accepted[s] |-> i]

\* A stream watches for writing exactly while it connects or output waits: it
\* neither stalls with a connection or with output nor spins without, whatever
\* happened before.
WatchesOutput ==
  \A s \in Stream : type[s] \in {"connect", "normal"} /\ sfd[s] # None /\ at # "crashed" =>
    (("write" \in watch[sfd[s]]) <=> (type[s] = "connect" \/ outbuf[s] # <<>>))
=============================================================================
