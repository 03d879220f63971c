------------------------------ MODULE MCFiles ------------------------------
(* Slog, Sconfig and SconfigLine for TLC.  They share no state: a behaviour is *)
(* one of one of them.                                                         *)
(*                                                                             *)
(* Log: two threads in the process that opened it, one in a child that any of  *)
(* them may fork at any time, and an open(2) that fails.  Configuration: files *)
(* of up to two lines, so that a name can be repeated, a line can fail after   *)
(* one that was read, and the last can lack its newline.  Of the three values  *)
(* one is negative, one fits only without a sign, and one does not fit at all. *)
(* Lines: all of up to six characters, which is enough for a name, a value, a  *)
(* blank and a note.                                                           *)
EXTENDS Slog, TLC

CONSTANTS t1, t2, t3, parent, child, Name, Value, MaxLines, IntHalf, LongHalf, MaxLen

VARIABLES component, disk, items, iterator, loaded, handed, line

configVars == <<disk, items, iterator, loaded, handed>>

Owner == [t \in Thread |-> IF t = t3 THEN child ELSE parent]
Interchangeable == Permutations({t1, t2})
Numbers == {-3, 7, 20}

C == INSTANCE Sconfig
P == INSTANCE SconfigLine

ConfigAssumption == C!ConfigAssumption
ASSUME ConfigAssumption

SystemInit ==
  /\ component \in {"log", "config", "line"}
  /\ Init /\ C!Init /\ P!Init
  /\ component # "config" => disk = None

LogStep == component = "log" /\ Next /\ UNCHANGED <<component, configVars, line>>
ConfigStep == component = "config" /\ C!Next /\ UNCHANGED <<component, vars, line>>
LineStep == component = "line" /\ P!Next /\ UNCHANGED <<component, vars, configVars>>

SystemNext == LogStep \/ ConfigStep \/ LineStep

SystemSpec == SystemInit /\ [][SystemNext]_<<component, vars, configVars, line>>

-----------------------------------------------------------------------------
\* A configuration is that of one file, an iteration stays in it, and numbers
\* that fit are read as they were written.
ConfigSound ==
  component = "config" =>
    C!TypeOK /\ C!LoadedWhole /\ C!IterationOfOne /\ C!NumbersRead

\* A line is read as sconfig.h documents it.
ReadAsDocumented == component = "line" => P!ReadAsDocumented
=============================================================================
