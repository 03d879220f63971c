------------------------------ MODULE SioLoop ------------------------------
(***************************************************************************)
(* struct sio on epoll (simple_io/sio_epoll.c): registered descriptors,    *)
(* one poll at a time, and the deferred release of what callbacks delete   *)
(* while the events of a poll are handed out.  The loop of sio_select.c    *)
(* implements LoopSpec (module SioSelect).                                 *)
(*                                                                         *)
(* The module has the state and the steps of the loop; a module that       *)
(* extends it says what callbacks do.  An Sfd is an address: once it is    *)
(* free it may be allocated again for another descriptor.                  *)
(***************************************************************************)
EXTENDS Integers, FiniteSets

CONSTANTS
  Fd,            \* file descriptors
  Sfd,           \* addresses of struct sio_fd
  None           \* the null pointer

VARIABLES
  mem,           \* what is at an address: "free", "live" or "deleted" (is_del)
  fdOf,          \* sfd->fd
  watch,         \* sfd->watch_events
  is_in_loop,
  polled,        \* events of the poll not looked at yet: [sfd, fd, events]
  entry          \* the one being looked at, with the events left; None

loopVars == <<mem, fdOf, watch, is_in_loop, polled, entry>>

Entries == [sfd : Sfd, fd : Fd, events : SUBSET {"read", "write", "error"}]

LoopTypeOK ==
  /\ mem \in [Sfd -> {"free", "live", "deleted"}]
  /\ fdOf \in [Sfd -> Fd \cup {None}]
  /\ watch \in [Sfd -> SUBSET {"read", "write"}]
  /\ is_in_loop \in BOOLEAN
  /\ polled \subseteq Entries
  /\ entry \in Entries \cup {None}
  /\ ~is_in_loop => polled = {} /\ entry = None

LoopInit ==
  /\ mem = [x \in Sfd |-> "free"]
  /\ fdOf = [x \in Sfd |-> None]
  /\ watch = [x \in Sfd |-> {}]
  /\ is_in_loop = FALSE /\ polled = {} /\ entry = None

-----------------------------------------------------------------------------
(* What callbacks and the user call. *)

\* sio_add and the watches its callers set.
Add(x, f, w) ==
  /\ mem[x] = "free"
  /\ mem' = [mem EXCEPT ![x] = "live"]
  /\ fdOf' = [fdOf EXCEPT ![x] = f]
  /\ watch' = [watch EXCEPT ![x] = w]
  /\ UNCHANGED <<is_in_loop, polled, entry>>

\* Wrong: the memory is free at once.
WrongDel(x) ==
  /\ mem' = [mem EXCEPT ![x] = "free"]
  /\ fdOf' = [fdOf EXCEPT ![x] = None]
  /\ watch' = [watch EXCEPT ![x] = {}]
  /\ UNCHANGED <<is_in_loop, polled, entry>>

\* sio_del.
Del(x) ==
  /\ mem' = [mem EXCEPT ![x] = IF is_in_loop THEN "deleted" ELSE "free"]
  /\ fdOf' = [fdOf EXCEPT ![x] = None]
  /\ watch' = [watch EXCEPT ![x] = {}]
  /\ UNCHANGED <<is_in_loop, polled, entry>>

\* sio_watch_read, sio_unwatch_read, sio_watch_write, sio_unwatch_write.
Watches(x, w) ==
  /\ watch' = [watch EXCEPT ![x] = w]
  /\ UNCHANGED <<mem, fdOf, is_in_loop, polled, entry>>

-----------------------------------------------------------------------------
(* sio_run. *)

Live == {x \in Sfd : mem[x] = "live"}

\* epoll_wait returns some of the registered descriptors, each with some of
\* the events it watches, or an error, which needs no watch.
Poll ==
  /\ ~is_in_loop
  /\ is_in_loop' = TRUE
  /\ \E R \in (SUBSET Live) \ {{}} :
     \E evs \in [R -> (SUBSET {"read", "write", "error"}) \ {{}}] :
       /\ \A x \in R : evs[x] \subseteq watch[x] \cup {"error"}
       /\ polled' = {[sfd |-> x, fd |-> fdOf[x], events |-> evs[x]] : x \in R}
  /\ UNCHANGED <<mem, fdOf, watch, entry>>

\* The loop takes the next entry.
Pick ==
  /\ is_in_loop /\ entry = None
  /\ \E e \in polled : entry' = e /\ polled' = polled \ {e}
  /\ UNCHANGED <<mem, fdOf, watch, is_in_loop>>

\* What the loop does next with the entry: read before write before error.
Upcoming ==
  IF entry = None \/ entry.events = {} THEN None
  ELSE CHOOSE ev \in entry.events :
         \/ ev = "read"
         \/ ev = "write" /\ "read" \notin entry.events
         \/ entry.events = {"error"}

\* The upcoming event still concerns its descriptor.
Due ==
  /\ Upcoming # None
  /\ mem[entry.sfd] = "live"
  /\ Upcoming \in watch[entry.sfd] \cup {"error"}

Consume == entry' = [entry EXCEPT !.events = @ \ {Upcoming}]

\* The event is handed to the callback of its descriptor.
HandOut(ev) == Upcoming = ev /\ Due /\ Consume /\ UNCHANGED <<is_in_loop, polled>>

Skip ==
  /\ Upcoming # None /\ ~Due
  /\ Consume
  /\ UNCHANGED <<mem, fdOf, watch, is_in_loop, polled>>

Leave ==
  /\ entry # None /\ Upcoming = None
  /\ entry' = None
  /\ UNCHANGED <<mem, fdOf, watch, is_in_loop, polled>>

\* The loop is over: what was deleted in it is freed.
LoopEnd ==
  /\ is_in_loop /\ entry = None /\ polled = {}
  /\ is_in_loop' = FALSE
  /\ mem' = [x \in Sfd |-> IF mem[x] = "deleted" THEN "free" ELSE mem[x]]
  /\ UNCHANGED <<fdOf, watch, polled, entry>>

-----------------------------------------------------------------------------
(* The loop with any user, who registers a descriptor at most once and calls *)
(* from callbacks or between runs.                                           *)

User ==
  \E x \in Sfd, w \in SUBSET {"read", "write"} :
    \/ \E f \in Fd : (\A y \in Live : fdOf[y] # f) /\ Add(x, f, w)
    \/ x \in Live /\ (Del(x) \/ Watches(x, w))

Callback ==
  \E ev \in {"read", "write", "error"} :
    HandOut(ev) /\ UNCHANGED <<mem, fdOf, watch>>

LoopNext == User \/ Poll \/ Pick \/ Callback \/ Skip \/ Leave \/ LoopEnd

LoopSpec == LoopInit /\ [][LoopNext]_loopVars
=============================================================================
