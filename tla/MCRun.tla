------------------------------- MODULE MCRun -------------------------------
(* SioRun and SioDgram for TLC.  They share no state: a behaviour is one of    *)
(* either.  No symmetry: the run checks liveness.                              *)
(*                                                                             *)
(* Rounds: two timers that can be restarted with 0 by turns, a timeout below   *)
(* and one above the longest wait, and two threads with a pipe that one of     *)
(* them fills.  Datagrams: two sockets and three addresses, so that a callback *)
(* can replace a socket under a poll that returned both.                       *)
EXTENDS SioRun

CONSTANTS Fd, Sfd, None, MaxHeld

VARIABLES
  component,
  mem, fdOf, watch, is_in_loop, polled, entry, open, sfd, held, runs

dgramVars == <<mem, fdOf, watch, is_in_loop, polled, entry, open, sfd, held, runs>>

D == INSTANCE SioDgram WITH at <- runs

DgramAssumption == D!DgramAssumption
ASSUME DgramAssumption

SystemInit == component \in {"rounds", "datagrams"} /\ Init /\ D!Init

RoundStep == component = "rounds" /\ Next /\ UNCHANGED <<component, dgramVars>>
DgramStep == component = "datagrams" /\ D!Next /\ UNCHANGED <<component, vars>>

SystemNext == RoundStep \/ DgramStep

SystemSpec ==
  /\ SystemInit /\ [][SystemNext]_<<component, vars, dgramVars>>
  /\ WF_vars(component = "rounds" /\ Run)
  /\ WF_dgramVars(component = "datagrams" /\ D!Run)

-----------------------------------------------------------------------------
\* No datagram event reaches a socket that it was not polled for, and sockets
\* and registrations are each other's.
DgramEvents == D!TypeOK /\ D!EventsReachTheirDgram /\ D!RegistrationsAgree

\* A socket that stays attached and holds datagrams is read again and again.
DatagramsRead == D!DatagramsRead
=============================================================================
