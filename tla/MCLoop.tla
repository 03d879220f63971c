------------------------------- MODULE MCLoop -------------------------------
(* SioStream, on the loop of epoll, and SioSelect for TLC.  They share no      *)
(* state: a behaviour is one of either.                                        *)
(*                                                                             *)
(* Streams: with two descriptors and three addresses a callback can replace    *)
(* both streams, or detach and attach one, under a poll that returned both of  *)
(* them.  Select: two descriptors that fit into a set and one that does not,   *)
(* and three addresses, so that both registrations of a poll can be deleted    *)
(* and one of them registered again before the loop is over.                   *)
EXTENDS SioStream, TLC

CONSTANTS Number, FD_SETSIZE

VARIABLES
  component,
  memory, fd, watch_events, revents, rset, wset, eset, fds,
  rfds, current, events, looping, deferred_to_close, runs

selectVars == <<memory, fd, watch_events, revents, rset, wset, eset, fds,
                rfds, current, events, looping, deferred_to_close, runs>>

S == INSTANCE SioSelect WITH
       Fd <- Number, mem <- memory, entry <- current, is_in_loop <- looping, at <- runs

SelectAssumption == S!SelectAssumption
ASSUME SelectAssumption

SystemInit == component \in {"streams", "select"} /\ Init /\ S!Init

StreamStep == component = "streams" /\ Next /\ UNCHANGED <<component, selectVars>>
SelectStep == component = "select" /\ S!Next /\ UNCHANGED <<component, vars>>

SystemNext == StreamStep \/ SelectStep

SystemSpec == SystemInit /\ [][SystemNext]_<<component, vars, selectVars>>

Interchangeable == Permutations(Fd) \cup Permutations(Sfd)

-----------------------------------------------------------------------------
\* The loop on select keeps its sets and its table of descriptors in step with
\* its registrations, and implements the loop on epoll.
SelectSound == [](S!TypeOK /\ S!SetsAgree) /\ S!KeepsContract
=============================================================================
