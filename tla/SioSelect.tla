----------------------------- MODULE SioSelect -----------------------------
(***************************************************************************)
(* struct sio on select (simple_io/sio_select.c).  What epoll keeps in the *)
(* kernel is here kept twice: in the registrations and in descriptor sets; *)
(* and the events of a poll are written into the registrations before any  *)
(* of them is handed out.  It implements the loop of SioLoop, which is     *)
(* that of sio_epoll.c.                                                    *)
(***************************************************************************)
EXTENDS Integers, FiniteSets, SequencesExt

CONSTANTS
  Fd,            \* file descriptors
  FD_SETSIZE,    \* those that a descriptor set has room for are below
  Sfd,           \* addresses of struct sio_fd
  None           \* the null pointer

Slot == {f \in Fd : f < FD_SETSIZE}
Event == {"read", "write", "error"}

SelectAssumption ==
  /\ Fd \subseteq Nat /\ FD_SETSIZE \in Nat
  /\ None \notin Fd /\ None \notin Sfd /\ None \notin Event
  /\ None \notin [sfd : Sfd, fd : Fd, events : SUBSET Event]

VARIABLES
  mem,           \* what is at an address: "free", "live" or "deleted" (is_del)
  fd, watch_events,                \* sfd->fd, sfd->watch_events
  revents,       \* sfd->revents until it is looked at: the next select(2)
                 \* overwrites it
  rset, wset, eset, fds,
  rfds,          \* what this poll returned and is not looked at yet
  entry,         \* the registration being looked at, None between two
  events,        \* its events left to hand out
  is_in_loop,
  deferred_to_close,
  at             \* "callback" while the user runs in one, else "run"

memory == <<mem, fd, watch_events, revents>>
sets == <<rset, wset, eset, fds>>
loop == <<rfds, entry, events, is_in_loop>>
vars == <<memory, sets, loop, deferred_to_close, at>>

TypeOK ==
  /\ mem \in [Sfd -> {"free", "live", "deleted"}]
  /\ fd \in [Sfd -> Slot \cup {None}]
  /\ watch_events \in [Sfd -> SUBSET Event] /\ revents \in [Sfd -> SUBSET Event]
  /\ {rset, wset, eset} \subseteq SUBSET Slot
  /\ fds \in [Slot -> Sfd \cup {None}]
  /\ rfds \in Seq(Sfd) /\ entry \in Sfd \cup {None} /\ events \subseteq Event
  /\ is_in_loop \in BOOLEAN
  /\ deferred_to_close \in Seq(Sfd)
  /\ at \in {"run", "callback"}

Init ==
  /\ mem = [x \in Sfd |-> "free"]
  /\ fd = [x \in Sfd |-> None]
  /\ watch_events = [x \in Sfd |-> {}] /\ revents = [x \in Sfd |-> {}]
  /\ rset = {} /\ wset = {} /\ eset = {}
  /\ fds = [f \in Slot |-> None]
  /\ rfds = <<>> /\ entry = None /\ events = {} /\ is_in_loop = FALSE
  /\ deferred_to_close = <<>>
  /\ at = "run"

-----------------------------------------------------------------------------
(* The user, in a callback or between two runs, registers a descriptor once. *)

UserRuns == at = "callback" \/ ~is_in_loop

Fits(f) == f < FD_SETSIZE

\* sio_add, which refuses a descriptor that no set has room for.
Add(x, f) ==
  /\ UserRuns
  /\ mem[x] = "free" /\ \A y \in Sfd : mem[y] = "live" => fd[y] # f
  /\ Fits(f)
  /\ mem' = [mem EXCEPT ![x] = "live"]
  /\ fd' = [fd EXCEPT ![x] = f]
  /\ watch_events' = [watch_events EXCEPT ![x] = {"error"}]
  /\ revents' = [revents EXCEPT ![x] = {}]
  /\ fds' = [fds EXCEPT ![f] = x]
  /\ eset' = eset \cup {f}
  /\ UNCHANGED <<rset, wset, loop, deferred_to_close, at>>

Cleared(set, x) == set \ {fd[x]}

\* Wrong: the memory of a registration whose events are being handed out is
\* kept, that of others is freed.
WrongDeferred(x) == is_in_loop /\ x = entry

\* The memory may be looked at again in this loop.
Deferred(x) == is_in_loop

\* What was at the addresses X is no more.
Free(X) ==
  /\ fd' = [x \in Sfd |-> IF x \in X THEN None ELSE fd[x]]
  /\ watch_events' = [x \in Sfd |-> IF x \in X THEN {} ELSE watch_events[x]]
  /\ mem' = [x \in Sfd |-> IF x \in X THEN "free" ELSE mem[x]]

\* sio_del.
Del(x) ==
  /\ UserRuns
  /\ mem[x] = "live"
  /\ rset' = Cleared(rset, x) /\ wset' = Cleared(wset, x) /\ eset' = Cleared(eset, x)
  /\ fds' = [fds EXCEPT ![fd[x]] = None]
  /\ \/ /\ Deferred(x)
        /\ mem' = [mem EXCEPT ![x] = "deleted"]
        /\ deferred_to_close' = Append(deferred_to_close, x)
        /\ UNCHANGED <<fd, watch_events>>
     \/ ~Deferred(x) /\ Free({x}) /\ UNCHANGED deferred_to_close
  /\ UNCHANGED <<revents, loop, at>>

\* sio_watch_read, sio_watch_write, sio_unwatch_read, sio_unwatch_write.
Watch(x, ev) ==
  /\ UserRuns
  /\ mem[x] = "live"
  /\ watch_events' = [watch_events EXCEPT ![x] = @ \cup {ev}]
  /\ rset' = IF ev = "read" THEN rset \cup {fd[x]} ELSE rset
  /\ wset' = IF ev = "write" THEN wset \cup {fd[x]} ELSE wset
  /\ UNCHANGED <<mem, fd, revents, eset, fds, loop, deferred_to_close, at>>

Unwatch(x, ev) ==
  /\ UserRuns
  /\ mem[x] = "live"
  /\ watch_events' = [watch_events EXCEPT ![x] = @ \ {ev}]
  /\ rset' = IF ev = "read" THEN rset \ {fd[x]} ELSE rset
  /\ wset' = IF ev = "write" THEN wset \ {fd[x]} ELSE wset
  /\ UNCHANGED <<mem, fd, revents, eset, fds, loop, deferred_to_close, at>>

Return == at = "callback" /\ at' = "run" /\ UNCHANGED <<memory, sets, loop, deferred_to_close>>

-----------------------------------------------------------------------------
(* sio_run, from select(2) on. *)

\* The registrations with events, of the events r that the kernel found.
Returned(r) == {fds[f] : f \in {g \in Slot : fds[g] # None /\ r[g] # {}}}

\* select(2) finds some of the events in the sets, and they are written down,
\* from the lowest descriptor up.
Select ==
  /\ at = "run" /\ ~is_in_loop
  /\ \E r \in [Slot -> SUBSET Event] :
       /\ \A f \in Slot : /\ "read" \in r[f] => f \in rset
                          /\ "write" \in r[f] => f \in wset
                          /\ "error" \in r[f] => f \in eset
       /\ \E f \in Slot : r[f] # {}
       /\ rfds' \in BoundedSeq(Returned(r), FD_SETSIZE) /\ ToSet(rfds') = Returned(r)
       /\ \A i, j \in DOMAIN rfds' : i < j => fd[rfds'[i]] < fd[rfds'[j]]
       /\ revents' = [x \in Sfd |-> IF mem[x] = "live" THEN r[fd[x]] ELSE {}]
  /\ is_in_loop' = TRUE
  /\ UNCHANGED <<mem, fd, watch_events, sets, entry, events, deferred_to_close, at>>

Pick ==
  /\ at = "run" /\ entry = None /\ rfds # <<>>
  /\ entry' = rfds[1] /\ rfds' = Tail(rfds)
  /\ events' = revents[rfds[1]]
  /\ revents' = [revents EXCEPT ![rfds[1]] = {}]
  /\ UNCHANGED <<mem, fd, watch_events, sets, is_in_loop, deferred_to_close, at>>

\* The event looked at next: read before write before error.
Upcoming ==
  IF "read" \in events THEN "read" ELSE IF "write" \in events THEN "write" ELSE "error"

\* It is handed out unless the registration is deleted or no longer watches
\* for it.
Due == mem[entry] = "live" /\ Upcoming \in watch_events[entry] \cup {"error"}

Dispatch ==
  /\ at = "run" /\ entry # None /\ events # {}
  /\ events' = events \ {Upcoming}
  /\ at' = IF Due THEN "callback" ELSE "run"
  /\ UNCHANGED <<memory, sets, rfds, entry, is_in_loop, deferred_to_close>>

Leave ==
  /\ at = "run" /\ entry # None /\ events = {}
  /\ entry' = None
  /\ UNCHANGED <<memory, sets, rfds, events, is_in_loop, deferred_to_close, at>>

LoopEnd ==
  /\ at = "run" /\ is_in_loop /\ entry = None /\ rfds = <<>>
  /\ is_in_loop' = FALSE
  /\ Free(ToSet(deferred_to_close)) /\ deferred_to_close' = <<>>
  /\ UNCHANGED <<revents, sets, rfds, entry, events, at>>

Next ==
  \/ \E x \in Sfd : \/ \E f \in Fd : Add(x, f)
                    \/ Del(x)
                    \/ \E ev \in {"read", "write"} : Watch(x, ev) \/ Unwatch(x, ev)
  \/ Return \/ Select \/ Pick \/ Dispatch \/ Leave \/ LoopEnd

Spec == Init /\ [][Next]_vars

-----------------------------------------------------------------------------
(* Properties. *)

\* The descriptor sets, the table of descriptors and the registrations agree:
\* select(2) is asked for what is watched and nothing else, and what a callback
\* deletes waits for its release exactly once.
SetsAgree ==
  LET live == {x \in Sfd : mem[x] = "live"}
      Watching(ev) == {fd[x] : x \in {y \in live : ev \in watch_events[y]}}
  IN /\ rset = Watching("read") /\ wset = Watching("write") /\ eset = Watching("error")
     /\ \A x \in live : fds[fd[x]] = x
     /\ \A f \in Slot : fds[f] # None => fds[f] \in live /\ fd[fds[f]] = f
     /\ ToSet(deferred_to_close) = {x \in Sfd : mem[x] = "deleted"}
     /\ IsInjective(deferred_to_close)

PolledEntry(x, evs) == [sfd |-> x, fd |-> fd[x], events |-> evs]

Contract == INSTANCE SioLoop WITH
  fdOf <- [x \in Sfd |-> IF mem[x] = "live" THEN fd[x] ELSE None],
  watch <- [x \in Sfd |-> IF mem[x] = "live" THEN watch_events[x] \ {"error"} ELSE {}],
  polled <- {PolledEntry(x, revents[x]) : x \in ToSet(rfds)},
  entry <- IF entry = None THEN None ELSE PolledEntry(entry, events)

\* The loop on select takes no step that the loop on epoll does not: it hands
\* out the events of one poll, each at most once, to registrations that were
\* polled for and still watch, and frees what was deleted when it is over.
KeepsContract == Contract!LoopSpec
=============================================================================
