------------------------------ MODULE SioDgram ------------------------------
(***************************************************************************)
(* struct sio_dgram (simple_io/sio_dgram.c) on the loop of SioLoop: UDP    *)
(* sockets whose callback gets one datagram at a time and may close,       *)
(* detach, attach or open any of them.                                     *)
(*                                                                         *)
(* A socket stands for its descriptor.  Outside the module: the network,   *)
(* which delivers, drops, repeats or reorders what is sent, and the kernel,*)
(* which reports a socket as long as it holds a datagram.  What becomes of *)
(* a datagram that is sent is the kernel's affair: sio_dgram_write and     *)
(* sio_dgram_response change no state of the program.                      *)
(***************************************************************************)
EXTENDS SioLoop, Sequences

CONSTANT MaxHeld   \* bound: datagrams a socket holds

DgramAssumption == MaxHeld \in Nat /\ None \notin Fd /\ None \notin Sfd

Dgram == Fd

\* Of size 0 or not.
Datagram == {"empty", "data"}

VARIABLES
  open,          \* sockets with a struct sio_dgram
  sfd,           \* sdgram->sfd
  held,          \* datagrams in the socket
  at             \* "run" in the loop or outside, "callback" while the user runs

dgramVars == <<open, sfd, held>>
vars == <<loopVars, dgramVars, at>>

TypeOK ==
  /\ LoopTypeOK
  /\ open \subseteq Dgram
  /\ sfd \in [Dgram -> Sfd \cup {None}]
  /\ held \in [Dgram -> Seq(Datagram)]
  /\ at \in {"run", "callback"}

Init ==
  /\ LoopInit
  /\ open = {} /\ sfd = [d \in Dgram |-> None] /\ held = [d \in Dgram |-> <<>>]
  /\ at = "run"

-----------------------------------------------------------------------------
(* The user, between two runs of the loop or in a callback. *)

UserRuns == at = "callback" \/ (at = "run" /\ ~is_in_loop)

\* Wrong: nothing is watched.
WrongRegister(d) == \E x \in Sfd : Add(x, d, {}) /\ sfd' = [sfd EXCEPT ![d] = x]

\* sio_add and sio_watch_read.
Register(d) == \E x \in Sfd : Add(x, d, {"read"}) /\ sfd' = [sfd EXCEPT ![d] = x]

\* sio_dgram_open; when socket(2), bind(2) or sio_add fails, nothing is left.
Open(d) ==
  /\ UserRuns
  /\ d \notin open /\ open' = open \cup {d}
  /\ Register(d)
  /\ UNCHANGED <<held, at>>

\* sio_dgram_close.
Close(d) ==
  /\ UserRuns
  /\ d \in open /\ open' = open \ {d}
  /\ IF sfd[d] # None THEN Del(sfd[d]) ELSE UNCHANGED loopVars
  /\ sfd' = [sfd EXCEPT ![d] = None]
  /\ held' = [held EXCEPT ![d] = <<>>]
  /\ UNCHANGED at

\* Wrong: the socket keeps the address of what it deleted.
WrongDetach(d) ==
  /\ UserRuns
  /\ sfd[d] # None
  /\ Del(sfd[d])
  /\ UNCHANGED <<dgramVars, at>>

\* sio_dgram_detach.
Detach(d) ==
  /\ UserRuns
  /\ sfd[d] # None
  /\ Del(sfd[d]) /\ sfd' = [sfd EXCEPT ![d] = None]
  /\ UNCHANGED <<open, held, at>>

\* sio_dgram_attach; when sio_add fails the socket stays detached.
Attach(d) ==
  /\ UserRuns
  /\ d \in open /\ sfd[d] = None
  /\ Register(d)
  /\ UNCHANGED <<open, held, at>>

Return ==
  /\ at = "callback" /\ at' = "run"
  /\ UNCHANGED <<loopVars, dgramVars>>

-----------------------------------------------------------------------------
(* _sio_dgram_callback. *)

Handled(ev) == at = "run" /\ HandOut(ev) /\ UNCHANGED <<mem, fdOf, watch, open, sfd>>

\* _sio_dgram_read: a datagram for the callback, unless it is empty.
Read ==
  /\ Handled("read")
  /\ LET d == entry.fd IN
     IF held[d] = <<>> THEN UNCHANGED <<held, at>>
     ELSE /\ held' = [held EXCEPT ![d] = Tail(@)]
          /\ at' = IF Head(held[d]) = "data" THEN "callback" ELSE "run"

Ignore == (Handled("write") \/ Handled("error")) /\ UNCHANGED <<held, at>>

-----------------------------------------------------------------------------
(* Outside. *)

Arrives(d) ==
  /\ d \in open /\ Len(held[d]) < MaxHeld
  /\ \E m \in Datagram : held' = [held EXCEPT ![d] = Append(@, m)]
  /\ UNCHANGED <<loopVars, open, sfd, at>>

\* epoll is level triggered: a poll returns every socket that holds a datagram.
PollReady ==
  /\ Poll
  /\ \A x \in Live : "read" \in watch[x] /\ held[fdOf[x]] # <<>> =>
       \E e \in polled' : e.sfd = x /\ "read" \in e.events

Loop == at = "run" /\ (PollReady \/ Pick \/ Skip \/ Leave \/ LoopEnd)
          /\ UNCHANGED <<dgramVars, at>>

-----------------------------------------------------------------------------
Run == Loop \/ Read \/ Ignore \/ Return

Next ==
  \/ Run
  \/ \E d \in Dgram : Open(d) \/ Close(d) \/ Detach(d) \/ Attach(d) \/ Arrives(d)

\* The thread of the loop is scheduled and callbacks return.
Spec == Init /\ [][Next]_vars /\ WF_vars(Run)

-----------------------------------------------------------------------------
(* Properties. *)

\* An event reaches the socket it was polled for, or nobody: no datagram is
\* read into memory that a callback before it has freed.
EventsReachTheirDgram ==
  Due => entry.fd \in open /\ sfd[entry.fd] = entry.sfd

\* A socket's registration is its own and in memory, and every registration
\* belongs to a socket, whatever was closed and opened under a poll.
RegistrationsAgree ==
  /\ \A d \in Dgram : sfd[d] # None =>
       d \in open /\ mem[sfd[d]] = "live" /\ fdOf[sfd[d]] = d
  /\ \A x \in Live : sfd[fdOf[x]] = x

\* A socket that stays attached and holds datagrams is read again and again,
\* though a poll reads one of them and others are closed or opened under it.
ReadOf(d) == Read /\ entry.fd = d
DatagramsRead ==
  \A d \in Dgram :
    <>[](held[d] # <<>> /\ sfd[d] # None) => []<><<ReadOf(d)>>_vars
=============================================================================
