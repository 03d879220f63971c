---------------------------- MODULE FilesProofs ----------------------------
(***************************************************************************)
(* The log and the configuration.                                          *)
(*                                                                         *)
(* Slog for every number of processes, threads, calls and forks: rotations *)
(* exclude each other, a lock that is taken is released by its holder,     *)
(* no line goes to a file that had been replaced when its thread checked,  *)
(* and a file has room for the lines that may still come.                  *)
(*                                                                         *)
(* Exclusion follows from the two kinds of locks only together with the    *)
(* life of a process: one that is ready has its own description of the     *)
(* lock file, one that is forked has its parent's, but no thread that      *)
(* could use it.                                                           *)
(*                                                                         *)
(* The bound of a file's size is not inductive: while one thread looks at  *)
(* the file others have lines in hand, and a file can change places under  *)
(* them.  So it is the size with those lines that is bounded, for all late *)
(* threads as long as the file has its name.                               *)
(*                                                                         *)
(* SconfigLine for lines of any length: the places where the code's loops  *)
(* stop are the only ones at which the rules can be met.  Sconfig for      *)
(* files of any length, any names, values and widths of numbers.           *)
(***************************************************************************)
EXTENDS MCFiles, Sequences, FiniteSetTheorems, WellFoundedInduction, TLAPS

\* What the proof needs of the types: no bound of Inode or Stamps.
Types ==
  /\ state \in [Process -> {"none", "forked", "ready"}]
  /\ mutex \in [Process -> Thread \cup {None}]
  /\ lockfd \in [Process -> Process] /\ flock \in Process \cup {None}
  /\ fd \in [Process -> Nat] /\ created \in Nat
  /\ pc \in [Thread -> Steps] /\ call \in [Thread -> {"write", "rotate"}]
  /\ floor \in [Thread -> Nat]

\* Threads run in processes that are ready, which have their own description.
Ready ==
  /\ \A t \in Thread : pc[t] # "idle" => state[ProcessOf[t]] = "ready"
  /\ \A p \in Process : state[p] = "ready" => lockfd[p] = p

MutexSound ==
  /\ \A t \in Thread : Holding(t) => mutex[ProcessOf[t]] = t
  /\ \A p \in Process : mutex[p] # None => ProcessOf[mutex[p]] = p /\ Holding(mutex[p])

FlockSound ==
  /\ \A t \in Thread : Critical(t) => flock = ProcessOf[t]
  /\ flock # None => \E t \in Thread : Critical(t) /\ ProcessOf[t] = flock

\* Inodes are numbered as they come, and the log file is the last one; a thread
\* that is about to unlock has that one open.
Fresh ==
  /\ current \in {0, created}
  /\ \A p \in Process : fd[p] <= created
  /\ \A t \in Thread : pc[t] = "funlock" => current \in {0, fd[ProcessOf[t]]}
  /\ \A t \in Thread : pc[t] \in {"unlock", "append"} => floor[t] <= fd[ProcessOf[t]]

Locks == Types /\ Ready /\ MutexSound /\ FlockSound
IInv == Locks /\ Fresh

\* Threads that have checked the file and not written yet, and those of them
\* that write to inode i.
Late == {t \in Thread : pc[t] \in {"unlock", "append"}}
Pending(i) == {t \in Late : fd[ProcessOf[t]] = i}

Room == RotateSize - 1 + Cardinality(Thread)

\* What a thread that looks at the file knows of the lines to come.
Waits(t) ==
  /\ pc[t] = "refresh" /\ current \in Inode =>
       /\ st[t].inode = current /\ st[t].size \in Nat
       /\ size[current] + Cardinality(Late) < st[t].size + Cardinality(Thread)
  /\ pc[t] = "open" => current = 0
  /\ pc[t] = "funlock" => \A i \in Inode :
       fd[ProcessOf[t]] = i => size[i] + Cardinality(Late) < Room
  /\ pc[t] = "failed" => \A i \in Inode :
       /\ fd[ProcessOf[t]] = i => size[i] + Cardinality(Pending(i)) < Room + fails
       /\ current = i => size[i] + Cardinality(Late) < Room

\* Every file has room for the lines that threads are about to write to it; the
\* log file has room for those of all threads that may write.
Counts ==
  \A i \in Inode :
    /\ size[i] + Cardinality(Pending(i)) <= Room + fails
    /\ current = i => size[i] + Cardinality(Late) <= Room

SizeTypes ==
  /\ size \in [Inode -> Nat] /\ fails \in Nat /\ DOMAIN st = Thread
  /\ \A i \in Inode : i > created => size[i] = 0

Bounded == SizeTypes /\ Counts /\ \A t \in Thread : Waits(t)

\* A step of a thread that is not at "idle", and what it leaves alone.
Moves(t, b) == pc' = [pc EXCEPT ![t] = b] /\ UNCHANGED <<state, lockfd>>

-----------------------------------------------------------------------------
LEMMA Alone ==
  ASSUME Locks
  PROVE  Exclusive
BY DEF Locks, MutexSound, FlockSound, Exclusive, Holding

\* Where the steps of Step lead.
LEMMA StepMoves ==
  ASSUME Types, NEW t \in Thread, Step(t)
  PROVE  \E b \in Steps :
           /\ Moves(t, b) /\ pc[t] # "idle"
           /\ Holding(t) /\ ~Unlock(t) => b \in {"stat", "refresh", "rename", "open",
                                                 "funlock", "failed", "unlock"}
           /\ Critical(t) /\ ~Funlock(t) => b \in {"stat", "refresh", "rename", "open",
                                                   "funlock", "failed"}
<1> USE DEF Moves, Goes, Steps, Types
<1>1. CASE Lock(t)
  BY <1>1 DEF Lock, Holding, Critical
<1>2. CASE Flock(t)
  BY <1>2 DEF Flock, Holding, Critical
<1>3. CASE Stat(t)
  BY <1>3 DEF Stat, Holding, Critical, lockVars
<1>4. CASE Refresh(t)
  BY <1>4 DEF Refresh, Holding, Critical, lockVars
<1>5. CASE Rename(t)
  BY <1>5 DEF Rename, Holding, Critical, lockVars
<1>6. CASE Open(t)
  BY <1>6 DEF Open, Holding, Critical, lockVars
<1>7. CASE Funlock(t)
  BY <1>7 DEF Funlock, Holding, Critical
<1>8. CASE Unlock(t)
  BY <1>8 DEF Unlock, Holding, Critical
<1>9. CASE AppendLine(t)
  BY <1>9 DEF AppendLine, Holding, Critical, lockVars
<1> QED
  BY <1>1, <1>2, <1>3, <1>4, <1>5, <1>6, <1>7, <1>8, <1>9 DEF Step

\* A step that neither takes nor releases the mutex.
LEMMA MutexStays ==
  ASSUME Types, MutexSound, NEW t \in Thread, NEW b, pc' = [pc EXCEPT ![t] = b],
         mutex' = mutex, Holding(t) <=> Holding(t)'
  PROVE  MutexSound'
<1>1. \A u \in Thread : Holding(u)' <=> Holding(u)
  BY DEF Types, Holding, Critical
<1> QED
  BY <1>1 DEF MutexSound, Types

LEMMA FlockStays ==
  ASSUME Types, FlockSound, NEW t \in Thread, NEW b, pc' = [pc EXCEPT ![t] = b],
         flock' = flock, Critical(t) <=> Critical(t)'
  PROVE  FlockSound'
<1>1. \A u \in Thread : Critical(u)' <=> Critical(u)
  BY DEF Types, Critical
<1> QED
  BY <1>1 DEF FlockSound

-----------------------------------------------------------------------------
(* Each conjunct is kept. *)

LEMMA TypesNext ==
  ASSUME IInv, Next
  PROVE  Types'
<1> USE SlogAssumption DEF IInv, Locks, Types
<1>1. ASSUME NEW t \in Thread, NEW c \in {"write", "rotate"}, Begin(t, c) PROVE Types'
  BY <1>1 DEF Begin, Goes, Steps, lockVars, fileVars
<1>2. ASSUME NEW t \in Thread, Step(t) PROVE Types'
  <2>1. pc' \in [Thread -> Steps] /\ state' = state /\ lockfd' = lockfd
    BY <1>2, StepMoves DEF Moves
  <2>2. mutex' \in [Process -> Thread \cup {None}] /\ flock' \in Process \cup {None}
    BY <1>2 DEF Step, Lock, Flock, Stat, Refresh, Rename, Open, Funlock, Unlock, AppendLine,
                lockVars
  <2>3. call' = call
    BY <1>2 DEF Step, Lock, Flock, Stat, Refresh, Rename, Open, Funlock, Unlock, AppendLine
  <2>4. current \in Nat /\ ProcessOf[t] \in Process
    BY DEF Fresh
  <2>5. floor' \in [Thread -> Nat]
    BY <1>2, <2>4 DEF Step, Lock, Flock, Stat, Refresh, Rename, Open, Funlock, Unlock, AppendLine
  <2>6. fd' \in [Process -> Nat] /\ created' \in Nat
    <3>1. CASE Opens(ProcessOf[t])
      BY <2>4, <3>1 DEF Opens
    <3>2. CASE fd' = fd /\ created' = created
      BY <3>2
    <3> QED
      BY <1>2, <3>1, <3>2 DEF Step, Lock, Flock, Stat, Refresh, Rename, Open, Funlock, Unlock,
                              AppendLine, fileVars, OpenFails
  <2> QED
    BY <2>1, <2>2, <2>3, <2>5, <2>6
<1>3. ASSUME NEW t \in Thread, NEW p \in Process, Fork(t, p) PROVE Types'
  BY <1>3 DEF Fork, ChildMutex, threadVars
<1>4. ASSUME NEW p \in Process, Reopen(p) PROVE Types'
  BY <1>4 DEF Reopen, Reopened, threadVars, fileVars
<1>5. ASSUME MoveAway PROVE Types'
  BY <1>5 DEF MoveAway, threadVars, lockVars
<1> QED
  BY <1>1, <1>2, <1>3, <1>4, <1>5 DEF Next

LEMMA ReadyNext ==
  ASSUME IInv, Next
  PROVE  Ready'
<1> USE SlogAssumption DEF IInv, Locks, Types
<1>1. ASSUME NEW t \in Thread, NEW c \in {"write", "rotate"}, Begin(t, c) PROVE Ready'
  BY <1>1 DEF Begin, Goes, lockVars, Ready
<1>2. ASSUME NEW t \in Thread, Step(t) PROVE Ready'
  BY <1>2, StepMoves DEF Moves, Ready
<1>3. ASSUME NEW t \in Thread, NEW p \in Process, Fork(t, p) PROVE Ready'
  BY <1>3 DEF Fork, threadVars, Ready
<1>4. ASSUME NEW p \in Process, Reopen(p) PROVE Ready'
  BY <1>4 DEF Reopen, Reopened, threadVars, Ready
<1>5. ASSUME MoveAway PROVE Ready'
  BY <1>5 DEF MoveAway, threadVars, lockVars, Ready
<1> QED
  BY <1>1, <1>2, <1>3, <1>4, <1>5 DEF Next

LEMMA MutexNext ==
  ASSUME IInv, Next
  PROVE  MutexSound'
<1> USE SlogAssumption DEF IInv, Locks, Types
<1>1. ASSUME NEW t \in Thread, NEW c \in {"write", "rotate"}, Begin(t, c) PROVE MutexSound'
  <2>1. pc' = [pc EXCEPT ![t] = "lock"] /\ mutex' = mutex /\ ~Holding(t) /\ ~Holding(t)'
    BY <1>1 DEF Begin, Goes, Holding, Critical, lockVars
  <2> QED
    BY <2>1, MutexStays
<1>2. ASSUME NEW t \in Thread, Lock(t) PROVE MutexSound'
  BY <1>2 DEF Lock, Goes, MutexSound, Holding, Critical
<1>3. ASSUME NEW t \in Thread, Unlock(t) PROVE MutexSound'
  BY <1>3 DEF Unlock, Goes, MutexSound, Holding, Critical
<1>4. ASSUME NEW t \in Thread, Step(t), ~Lock(t), ~Unlock(t) PROVE MutexSound'
  <2>1. PICK b \in Steps :
          /\ pc' = [pc EXCEPT ![t] = b]
          /\ Holding(t) => b \in {"stat", "refresh", "rename", "open", "funlock", "failed",
                                  "unlock"}
    BY <1>4, StepMoves DEF Moves
  <2>2. mutex' = mutex /\ (~Holding(t) => b = "idle")
    BY <1>4, <2>1 DEF Step, Flock, Stat, Refresh, Rename, Open, Funlock, AppendLine, Goes,
                      Holding, Critical, lockVars
  <2>3. Holding(t) <=> Holding(t)'
    BY <2>1, <2>2 DEF Holding, Critical
  <2> QED
    BY <2>1, <2>2, <2>3, MutexStays
<1>5. ASSUME NEW t \in Thread, NEW p \in Process, Fork(t, p) PROVE MutexSound'
  BY <1>5 DEF Fork, ChildMutex, threadVars, MutexSound, Ready, Holding, Critical
<1>6. ASSUME NEW p \in Process, Reopen(p) PROVE MutexSound'
  BY <1>6 DEF Reopen, threadVars, MutexSound, Holding, Critical
<1>7. ASSUME MoveAway PROVE MutexSound'
  BY <1>7 DEF MoveAway, threadVars, lockVars, MutexSound, Holding, Critical
<1> QED
  BY <1>1, <1>2, <1>3, <1>4, <1>5, <1>6, <1>7 DEF Next, Step

LEMMA FlockNext ==
  ASSUME IInv, Next
  PROVE  FlockSound'
<1> USE SlogAssumption DEF IInv, Locks, Types
<1>1. ASSUME NEW t \in Thread, NEW c \in {"write", "rotate"}, Begin(t, c) PROVE FlockSound'
  <2>1. pc' = [pc EXCEPT ![t] = "lock"] /\ flock' = flock /\ ~Critical(t) /\ ~Critical(t)'
    BY <1>1 DEF Begin, Goes, Critical, lockVars
  <2> QED
    BY <2>1, FlockStays
<1>2. ASSUME NEW t \in Thread, Flock(t) PROVE FlockSound'
  <2>1. /\ pc[t] = "flock" /\ Holding(t) /\ ~Critical(t) /\ Critical(t)'
        /\ \A u \in Thread \ {t} : Critical(u)' <=> Critical(u)
    BY <1>2 DEF Flock, Goes, Holding, Critical
  <2>2. lockfd[ProcessOf[t]] = ProcessOf[t] /\ mutex[ProcessOf[t]] = t
    BY <2>1 DEF Ready, MutexSound
  <2>3. flock = None
    <3> SUFFICES ASSUME flock = ProcessOf[t] PROVE FALSE
      BY <1>2, <2>2 DEF Flock
    <3>1. PICK u \in Thread : Critical(u) /\ ProcessOf[u] = ProcessOf[t]
      BY DEF FlockSound
    <3>2. mutex[ProcessOf[u]] = u
      BY <3>1 DEF MutexSound, Holding
    <3> QED
      BY <2>1, <2>2, <3>1, <3>2
  <2>4. flock' = ProcessOf[t] /\ \A u \in Thread : ~Critical(u)
    BY <1>2, <2>2, <2>3 DEF Flock, FlockSound
  <2> QED
    BY <2>1, <2>4 DEF FlockSound
<1>3. ASSUME NEW t \in Thread, Funlock(t) PROVE FlockSound'
  <2>1. /\ Critical(t) /\ ~Critical(t)' /\ \A u \in Thread \ {t} : Critical(u)' <=> Critical(u)
    BY <1>3 DEF Funlock, Goes, Critical
  <2>2. \A u \in Thread : ~Critical(u)'
    BY <2>1, Alone DEF Exclusive
  <2>3. lockfd[ProcessOf[t]] = ProcessOf[t] /\ flock = ProcessOf[t]
    BY <2>1 DEF Ready, FlockSound, Critical
  <2>4. flock' = None
    BY <1>3, <2>3 DEF Funlock
  <2> QED
    BY <2>2, <2>4 DEF FlockSound
<1>4. ASSUME NEW t \in Thread, Step(t), ~Flock(t), ~Funlock(t) PROVE FlockSound'
  <2>1. PICK b \in Steps :
          /\ pc' = [pc EXCEPT ![t] = b]
          /\ Critical(t) => b \in {"stat", "refresh", "rename", "open", "funlock", "failed"}
    BY <1>4, StepMoves DEF Moves
  <2>2. flock' = flock /\ (~Critical(t) => b \in {"flock", "append", "idle"})
    BY <1>4, <2>1 DEF Step, Lock, Stat, Refresh, Rename, Open, Unlock, AppendLine, Goes,
                      Critical, lockVars
  <2>3. Critical(t) <=> Critical(t)'
    BY <2>1, <2>2 DEF Critical
  <2> QED
    BY <2>1, <2>2, <2>3, FlockStays
<1>5. ASSUME NEW t \in Thread, NEW p \in Process, Fork(t, p) PROVE FlockSound'
  BY <1>5 DEF Fork, threadVars, FlockSound, Critical
<1>6. ASSUME NEW p \in Process, Reopen(p) PROVE FlockSound'
  BY <1>6 DEF Reopen, threadVars, FlockSound, Critical
<1>7. ASSUME MoveAway PROVE FlockSound'
  BY <1>7 DEF MoveAway, threadVars, lockVars, FlockSound, Critical
<1> QED
  BY <1>1, <1>2, <1>3, <1>4, <1>5, <1>6, <1>7 DEF Next, Step

LEMMA FreshNext ==
  ASSUME IInv, Next
  PROVE  Fresh'
<1> USE SlogAssumption DEF IInv, Locks, Types
<1>1. ASSUME NEW t \in Thread, NEW c \in {"write", "rotate"}, Begin(t, c) PROVE Fresh'
  BY <1>1 DEF Begin, Goes, fileVars, Fresh
\* Another thread cannot be about to unlock: it would be alone.
<1>2. ASSUME NEW t \in Thread, Opens(ProcessOf[t]), Critical(t), floor' = floor,
             NEW b \in Steps, pc' = [pc EXCEPT ![t] = b], b \notin {"unlock", "append"}
      PROVE  Fresh'
  <2> DEFINE p == ProcessOf[t]
  <2>1. p \in Process /\ \A u \in Thread : ProcessOf[u] \in Process
    OBVIOUS
  <2> DEFINE i == IF current = 0 THEN created + 1 ELSE current
  <2>2. /\ fd' = [fd EXCEPT ![p] = i] /\ current' = i
        /\ created' = IF i > created THEN i ELSE created
    BY <1>2 DEF Opens
  <2>3. i \in Nat /\ (i = created \/ i = created + 1)
    BY DEF Fresh
  <2>4. created' = i /\ created <= i
    <3>1. \A c, n \in Nat : n = c \/ n = c + 1 =>
            (IF n > c THEN n ELSE c) = n /\ c <= n
      OBVIOUS
    <3> HIDE DEF i
    <3> QED
      BY <2>2, <2>3, <3>1
  <2> HIDE DEF i
  <2>5. \A q \in Process : fd'[q] \in Nat /\ fd[q] <= fd'[q] /\ fd'[q] <= i
    <3> TAKE q \in Process
    <3>1. fd[q] \in Nat /\ fd[q] <= created
      BY DEF Fresh
    <3>2. fd[q] <= i
      BY <2>3, <3>1
    <3>3. fd'[q] = i \/ fd'[q] = fd[q]
      BY <2>2
    <3>4. fd[q] \in Nat /\ i \in Nat /\ fd[q] <= fd[q] /\ i <= i
      BY <2>3, <3>1
    <3> QED
      BY <3>2, <3>3, <3>4, Zenon
  <2>6. ASSUME NEW u \in Thread, pc'[u] = "funlock" PROVE fd'[ProcessOf[u]] = i
    <3>1. u = t
      BY <1>2, <2>6, Alone DEF Exclusive, Critical
    <3> QED
      BY <2>1, <2>2, <3>1
  <2>7. ASSUME NEW u \in Thread, pc'[u] \in {"unlock", "append"}
        PROVE  floor'[u] <= fd'[ProcessOf[u]]
    <3>1. u # t /\ pc'[u] = pc[u]
      BY <1>2, <2>7
    <3>2. floor[u] <= fd[ProcessOf[u]] /\ floor[u] \in Nat /\ fd[ProcessOf[u]] \in Nat
      BY <2>1, <2>7, <3>1 DEF Fresh
    <3>3. fd[ProcessOf[u]] <= fd'[ProcessOf[u]] /\ fd'[ProcessOf[u]] \in Nat
      BY <2>1, <2>5
    <3> QED
      BY <1>2, <3>2, <3>3
  <2> QED
    BY <2>2, <2>4, <2>5, <2>6, <2>7 DEF Fresh
\* Steps that open nothing.
<1>3. ASSUME NEW t \in Thread, NEW b \in Steps, pc' = [pc EXCEPT ![t] = b], floor' = floor,
             fd' = fd, created' = created, current' \in {0, current},
             b = "funlock" => current \in {0, fd[ProcessOf[t]]},
             b \in {"unlock", "append"} => pc[t] \in {"unlock", "append"}
      PROVE  Fresh'
  BY <1>3 DEF Fresh
<1>4. ASSUME NEW t \in Thread, Lock(t) \/ Flock(t) \/ Unlock(t) \/ AppendLine(t) PROVE Fresh'
  <2>1. PICK b \in {"flock", "stat", "rename", "append", "idle"} : 
          /\ pc' = [pc EXCEPT ![t] = b]
          /\ b = "append" => pc[t] = "unlock"
    BY <1>4 DEF Lock, Flock, Unlock, AppendLine, Goes
  <2>2. floor' = floor /\ fd' = fd /\ created' = created /\ current' = current
    BY <1>4 DEF Lock, Flock, Unlock, AppendLine, fileVars
  <2> QED
    BY <1>3, <2>1, <2>2 DEF Steps
<1>5. ASSUME NEW t \in Thread, Stat(t) PROVE Fresh'
  <2>1. PICK b \in {"refresh", "rename", "funlock"} :
          pc' = [pc EXCEPT ![t] = b] /\ (b = "funlock" => ~Changed(t))
    BY <1>5 DEF Stat, Goes
  <2>2. floor' = floor /\ fd' = fd /\ created' = created /\ current' = current
    BY <1>5 DEF Stat, fileVars
  <2> QED
    BY <1>3, <2>1, <2>2 DEF Steps, Changed
<1>6. ASSUME NEW t \in Thread, Refresh(t) \/ Open(t) PROVE Fresh'
  <2>1. PICK b \in {"rename", "funlock", "failed"} :
          /\ pc' = [pc EXCEPT ![t] = b] /\ floor' = floor /\ Critical(t)
          /\ Opens(ProcessOf[t]) \/ (b # "funlock" /\ UNCHANGED fileVars)
    BY <1>6 DEF Refresh, Open, Goes, OpenFails, Critical
  <2>2. CASE Opens(ProcessOf[t])
    BY <1>2, <2>1, <2>2 DEF Steps
  <2>3. CASE b # "funlock" /\ UNCHANGED fileVars
    BY <1>3, <2>1, <2>3 DEF Steps, fileVars
  <2> QED
    BY <2>1, <2>2, <2>3
<1>7. ASSUME NEW t \in Thread, Rename(t) PROVE Fresh'
  BY <1>3, <1>7 DEF Rename, Goes, Steps
<1>8. ASSUME NEW t \in Thread, Funlock(t) PROVE Fresh'
  <2>1. /\ pc' = [pc EXCEPT ![t] = "unlock"] /\ pc[t] \in {"funlock", "failed"}
        /\ floor' = [floor EXCEPT ![t] = IF pc[t] = "failed" THEN 0 ELSE current]
        /\ fd' = fd /\ created' = created /\ current' = current
    BY <1>8 DEF Funlock, Goes, fileVars
  <2>2. floor'[t] <= fd[ProcessOf[t]]
    BY <2>1 DEF Fresh
  <2> QED
    BY <2>1, <2>2 DEF Fresh
<1>9. ASSUME NEW t \in Thread, NEW p \in Process, Fork(t, p) PROVE Fresh'
  <2>1. /\ fd' = [fd EXCEPT ![p] = fd[ProcessOf[t]]] /\ current' = current
        /\ created' = created /\ pc' = pc /\ floor' = floor /\ state[p] = "none"
    BY <1>9 DEF Fork, threadVars
  <2>2. \A u \in Thread : pc[u] # "idle" => ProcessOf[u] # p
    BY <2>1 DEF Ready
  <2> QED
    BY <2>1, <2>2 DEF Fresh
<1>10. ASSUME NEW p \in Process, Reopen(p) PROVE Fresh'
  BY <1>10 DEF Reopen, threadVars, fileVars, Fresh
<1>11. ASSUME MoveAway PROVE Fresh'
  BY <1>11 DEF MoveAway, threadVars, Fresh
<1> QED
  BY <1>1, <1>4, <1>5, <1>6, <1>7, <1>8, <1>9, <1>10, <1>11 DEF Next, Step

LEMMA InitIInv == Init => IInv
<1> SUFFICES ASSUME Init PROVE IInv
  OBVIOUS
<1> USE SlogAssumption DEF Init
<1>1. Types
  BY DEF Types, Steps
<1>2. Ready /\ MutexSound /\ FlockSound
  BY DEF Ready, MutexSound, FlockSound, Holding, Critical
<1>3. Fresh
  BY DEF Fresh
<1> QED
  BY <1>1, <1>2, <1>3 DEF IInv, Locks

LEMMA NextIInv == IInv /\ [Next]_vars => IInv'
<1> SUFFICES ASSUME IInv, [Next]_vars PROVE IInv'
  OBVIOUS
<1>1. CASE Next
  BY <1>1, TypesNext, ReadyNext, MutexNext, FlockNext, FreshNext DEF IInv, Locks
<1>2. CASE UNCHANGED vars
  BY <1>2 DEF IInv, Locks, Types, Ready, MutexSound, FlockSound, Fresh, Holding, Critical,
              vars, lockVars, fileVars, threadVars
<1> QED
  BY <1>1, <1>2

-----------------------------------------------------------------------------
(* Lines. *)

LEMMA Finite ==
  /\ Cardinality(Thread) \in Nat /\ RotateSize \in Nat \ {0}
  /\ Room \in Nat /\ Cardinality(Thread) <= Room
  /\ \A S \in SUBSET Thread :
       IsFiniteSet(S) /\ Cardinality(S) \in Nat /\ Cardinality(S) <= Cardinality(Thread)
<1>1. Cardinality(Thread) \in Nat /\ RotateSize \in Nat \ {0}
  BY SlogAssumption, FS_CardinalityType
<1>2. ASSUME NEW S \in SUBSET Thread
      PROVE  IsFiniteSet(S) /\ Cardinality(S) \in Nat /\ Cardinality(S) <= Cardinality(Thread)
  BY SlogAssumption, FS_Subset, FS_CardinalityType
<1> QED
  BY <1>1, <1>2 DEF Room

LEMMA Fewer ==
  ASSUME NEW S \in SUBSET Thread, NEW T \in SUBSET S
  PROVE  Cardinality(T) <= Cardinality(S)
BY Finite, FS_Subset

\* A thread that is not in S is missing in its count.
LEMMA Missing ==
  ASSUME NEW S \in SUBSET Thread, NEW t \in Thread, t \notin S
  PROVE  Cardinality(S) < Cardinality(Thread)
<1>1. S \cup {t} \in SUBSET Thread /\ IsFiniteSet(S)
  BY Finite
<1>2. Cardinality(S \cup {t}) = Cardinality(S) + 1
  BY <1>1, FS_AddElement
<1> QED
  BY <1>1, <1>2, Finite

\* A step after which no more lines may come than before keeps all bounds, and
\* what threads know that it does not move.
LEMMA Shrinks ==
  ASSUME Bounded, SizeTypes', current' \in {0, current}, fails <= fails',
         \A i \in Inode :
           /\ size'[i] + Cardinality(Pending(i)') <= size[i] + Cardinality(Pending(i))
           /\ size'[i] + Cardinality(Late') <= size[i] + Cardinality(Late)
  PROVE  /\ Counts'
         /\ \A u \in Thread :
              pc'[u] = pc[u] /\ fd'[ProcessOf[u]] = fd[ProcessOf[u]] /\ st'[u] = st[u]
                => Waits(u)'
<1>1. /\ Cardinality(Late) \in Nat /\ Cardinality(Late') \in Nat
      /\ \A i : Cardinality(Pending(i)) \in Nat /\ Cardinality(Pending(i)') \in Nat
  <2>1. /\ Late \in SUBSET Thread /\ Late' \in SUBSET Thread
        /\ \A i : Pending(i) \in SUBSET Thread /\ Pending(i)' \in SUBSET Thread
    BY DEF Late, Pending
  <2> QED
    BY <2>1, Finite
<1>2. /\ Room \in Nat /\ Cardinality(Thread) \in Nat /\ Inode \subseteq Nat \ {0}
      /\ fails \in Nat /\ fails' \in Nat
      /\ \A i \in Inode : size[i] \in Nat /\ size'[i] \in Nat
  BY Finite, SlogAssumption DEF Bounded, SizeTypes, Inode
<1>3. Counts'
  BY <1>1, <1>2 DEF Bounded, Counts
<1>4. ASSUME NEW u \in Thread,
             pc'[u] = pc[u], fd'[ProcessOf[u]] = fd[ProcessOf[u]], st'[u] = st[u]
      PROVE  Waits(u)'
  <2>1. Waits(u)
    BY DEF Bounded
  <2>2. CASE pc[u] = "refresh"
    BY <1>1, <1>2, <1>4, <2>1, <2>2 DEF Waits
  <2>3. CASE pc[u] = "open"
    BY <1>4, <2>1, <2>3 DEF Waits
  <2>4. CASE pc[u] = "funlock"
    BY <1>1, <1>2, <1>4, <2>1, <2>4 DEF Waits
  <2>5. CASE pc[u] = "failed"
    BY <1>1, <1>2, <1>4, <2>1, <2>5 DEF Waits
  <2> QED
    BY <1>4, <2>2, <2>3, <2>4, <2>5 DEF Waits
<1> QED
  BY <1>3, <1>4

\* A step that leaves the files' sizes and lets no thread be late that was not.
LEMMA NoMore ==
  ASSUME Bounded, SizeTypes', current' \in {0, current}, fails <= fails', size' = size,
         Late' \subseteq Late, \A t \in Late' : fd'[ProcessOf[t]] = fd[ProcessOf[t]]
  PROVE  /\ Counts'
         /\ \A u \in Thread :
              pc'[u] = pc[u] /\ fd'[ProcessOf[u]] = fd[ProcessOf[u]] /\ st'[u] = st[u]
                => Waits(u)'
<1>1. Late \in SUBSET Thread /\ \A i : Pending(i) \in SUBSET Thread
  BY DEF Late, Pending
<1>2. \A i : Pending(i)' \subseteq Pending(i)
  BY DEF Pending
<1>3. Cardinality(Late') <= Cardinality(Late)
  BY <1>1, Fewer
<1>4. \A i : Cardinality(Pending(i)') <= Cardinality(Pending(i))
  BY <1>1, <1>2, Fewer
<1>5. /\ Cardinality(Late) \in Nat /\ Cardinality(Late') \in Nat
      /\ \A i : Cardinality(Pending(i)) \in Nat /\ Cardinality(Pending(i)') \in Nat
  BY <1>1, <1>2, Finite
<1>6. \A i \in Inode : size[i] \in Nat
  BY DEF Bounded, SizeTypes
<1>7. \A i \in Inode :
        /\ size'[i] + Cardinality(Pending(i)') <= size[i] + Cardinality(Pending(i))
        /\ size'[i] + Cardinality(Late') <= size[i] + Cardinality(Late)
  BY <1>3, <1>4, <1>5, <1>6
<1> QED
  BY <1>7, Shrinks

\* A step of t opens the log file for the process of t, and finds room in it.
LEMMA OpenStep ==
  ASSUME IInv, Bounded, SizeTypes', NEW t \in Thread, Critical(t), Opens(ProcessOf[t]),
         size' = size, fails' = fails, Late' = Late
  PROVE  /\ Counts'
         /\ (current \in Inode => size[current] + Cardinality(Late) < Room) =>
              \A i \in Inode : fd'[ProcessOf[t]] = i => size[i] + Cardinality(Late) < Room
<1> USE SlogAssumption
<1> DEFINE p == ProcessOf[t]
           new == IF current = 0 THEN created + 1 ELSE current
<1>1. fd' = [fd EXCEPT ![p] = new] /\ current' = new
  BY DEF Opens
<1>2. /\ Late \in SUBSET Thread /\ \A i : Pending(i) \in SUBSET Late
      /\ \A i : Pending(i)' \in SUBSET Late /\ t \notin Late
  BY DEF Late, Pending, Critical
<1>3. /\ Cardinality(Late) \in Nat /\ Cardinality(Late) < Cardinality(Thread)
      /\ \A i : Cardinality(Pending(i)) \in Nat /\ Cardinality(Pending(i)') \in Nat
      /\ \A i : Cardinality(Pending(i)') <= Cardinality(Late)
  BY <1>2, Finite, Missing, Fewer
<1>4. /\ Room \in Nat /\ Cardinality(Thread) \in Nat /\ Cardinality(Thread) <= Room
      /\ \A i \in Inode : i \in Nat /\ i # 0 /\ size[i] \in Nat
      /\ fails \in Nat /\ created \in Nat
  BY Finite DEF Bounded, SizeTypes, Inode, IInv, Locks, Types
<1>5. /\ new \in Inode => size[new] + Cardinality(Late) <= Room
      /\ (current \in Inode => size[current] + Cardinality(Late) < Room) =>
           (new \in Inode => size[new] + Cardinality(Late) < Room)
  <2>1. CASE current = 0
    BY <1>3, <1>4, <2>1 DEF Bounded, SizeTypes
  <2>2. CASE current # 0
    BY <2>2 DEF Bounded, Counts
  <2> QED
    BY <2>1, <2>2
<1> HIDE DEF new
<1>6. fd'[p] = new
  BY <1>1 DEF IInv, Locks, Types
<1>7. ASSUME NEW i \in Inode, i # new
      PROVE  Cardinality(Pending(i)') <= Cardinality(Pending(i))
  <2>1. Pending(i)' \subseteq Pending(i)
    BY <1>1, <1>6, <1>7 DEF Pending, IInv, Locks, Types, Late
  <2> QED
    BY <1>2, <2>1, Fewer
<1>8. Counts'
  <2> SUFFICES ASSUME NEW i \in Inode
               PROVE  /\ size'[i] + Cardinality(Pending(i)') <= Room + fails'
                      /\ current' = i => size'[i] + Cardinality(Late') <= Room
    BY DEF Counts
  <2>1. CASE i = new
    BY <1>1, <1>3, <1>4, <1>5, <2>1
  <2>2. CASE i # new
    <3>1. size[i] + Cardinality(Pending(i)) <= Room + fails
      BY DEF Bounded, Counts
    <3>2. Cardinality(Pending(i)') <= Cardinality(Pending(i))
      BY <1>7, <2>2
    <3> QED
      BY <1>1, <1>3, <1>4, <2>2, <3>1, <3>2
  <2> QED
    BY <2>1, <2>2
<1> QED
  BY <1>5, <1>6, <1>8

\* A thread that looks at the file is the only one that does.
LEMMA Others ==
  ASSUME IInv, NEW t \in Thread, Critical(t), NEW b \in Steps, pc' = [pc EXCEPT ![t] = b]
  PROVE  \A u \in Thread \ {t} : Waits(u)'
<1>1. \A u \in Thread \ {t} : pc'[u] \notin {"refresh", "open", "funlock", "failed"}
  BY Alone DEF Exclusive, Critical, IInv, Locks, Types
<1> QED
  BY <1>1 DEF Waits

LEMMA SizeTypesNext ==
  ASSUME IInv, Bounded, Next
  PROVE  SizeTypes'
<1> USE SlogAssumption DEF IInv, Bounded, SizeTypes
<1>1. fails' \in Nat
  BY DEF Next, Step, Begin, Lock, Flock, Stat, Refresh, Rename, Open, Funlock, Unlock, AppendLine,
         Fork, Reopen, MoveAway, threadVars, OpenFails
<1>2. DOMAIN st' = Thread
  BY DEF Next, Step, Begin, Lock, Flock, Stat, Refresh, Rename, Open, Funlock, Unlock, AppendLine,
         Fork, Reopen, MoveAway, threadVars
<1>3. CASE size' = size
  <2>1. created' \in Nat /\ created <= created'
    <3>1. ASSUME NEW p, Opens(p) PROVE created' \in Nat /\ created <= created'
      BY <3>1 DEF Opens, Locks, Types, Fresh
    <3>2. CASE created' = created
      BY <3>2 DEF Locks, Types
    <3> QED
      BY <3>1, <3>2 DEF Next, Step, Begin, Lock, Flock, Stat, Refresh, Rename, Open, Funlock,
                        Unlock, AppendLine, Fork, Reopen, MoveAway, fileVars, OpenFails
  <2> QED
    BY <1>1, <1>2, <1>3, <2>1 DEF Locks, Types, Inode
<1>4. ASSUME NEW t \in Thread, AppendLine(t), size' # size PROVE SizeTypes'
  <2> DEFINE i == fd[ProcessOf[t]]
  <2>1. size' = [size EXCEPT ![i] = @ + 1] /\ created' = created /\ i \in Nat /\ i <= created
    BY <1>4 DEF AppendLine, Locks, Types, Fresh
  <2> HIDE DEF i
  <2>2. \A j \in Inode : size'[j] = IF j = i THEN size[j] + 1 ELSE size[j]
    BY <2>1 DEF Inode
  <2>3. size' \in [Inode -> Nat]
    <3>1. size' = [j \in Inode |-> IF j = i THEN size[j] + 1 ELSE size[j]]
      BY <2>1
    <3>2. \A j \in Inode : size[j] \in Nat /\ size[j] + 1 \in Nat
      OBVIOUS
    <3> QED
      BY <3>1, <3>2
  <2>4. ASSUME NEW j \in Inode, j > created PROVE size'[j] = 0
    BY <2>1, <2>2, <2>4 DEF Locks, Types, Inode
  <2> QED
    BY <1>1, <1>2, <2>1, <2>3, <2>4
<1> QED
  BY <1>3, <1>4 DEF Next, Step, Begin, Lock, Flock, Stat, Refresh, Rename, Open, Funlock,
                    Unlock, AppendLine, Fork, Reopen, MoveAway, fileVars, OpenFails, Opens

LEMMA BoundedNext ==
  ASSUME IInv, Bounded, Next
  PROVE  Bounded'
<1> USE SlogAssumption
<1>1. SizeTypes'
  BY SizeTypesNext
<1>2. /\ Room \in Nat /\ Cardinality(Thread) \in Nat /\ RotateSize \in Nat \ {0}
      /\ fails \in Nat /\ 0 \notin Inode /\ \A i \in Inode : size[i] \in Nat
      /\ \A t \in Thread : ProcessOf[t] \in Process
  BY Finite DEF Bounded, SizeTypes, Inode
<1>3. /\ Late \in SUBSET Thread /\ Cardinality(Late) \in Nat
      /\ \A i : Pending(i) \in SUBSET Late /\ Cardinality(Pending(i)) \in Nat
      /\ \A i : Cardinality(Pending(i)) <= Cardinality(Late)
  <2>1. Late \in SUBSET Thread /\ \A i : Pending(i) \in SUBSET Late
    BY DEF Late, Pending
  <2> QED
    BY <2>1, Finite, Fewer
<1>4. current \in Nat /\ pc \in [Thread -> Steps] /\ fd \in [Process -> Nat]
  BY DEF IInv, Locks, Types, Fresh
\* What a thread that steps with no effect on the files learns is its own matter.
<1>5. ASSUME NEW t \in Thread,
             pc'[t] \notin {"unlock", "append"} \/ pc[t] \in {"unlock", "append"},
             \A u \in Thread \ {t} : pc'[u] = pc[u] /\ st'[u] = st[u],
             current' \in {0, current}, size' = size, fd' = fd, fails <= fails', Waits(t)'
      PROVE  Bounded'
  <2>1. Late' \subseteq Late
    BY <1>4, <1>5 DEF Late
  <2>2. Counts' /\ \A u \in Thread \ {t} : Waits(u)'
    BY <1>1, <1>4, <1>5, <2>1, NoMore
  <2> QED
    BY <1>1, <1>5, <2>2 DEF Bounded
<1>6. ASSUME NEW t \in Thread, NEW c \in {"write", "rotate"}, Begin(t, c) PROVE Bounded'
  <2>1. Waits(t)'
    BY <1>4, <1>6 DEF Begin, Goes, Waits
  <2> QED
    BY <1>2, <1>5, <1>6, <2>1 DEF Begin, Goes, fileVars, Steps
<1>7. ASSUME NEW t \in Thread, Lock(t) \/ Flock(t) \/ Unlock(t) PROVE Bounded'
  <2>1. PICK b \in {"flock", "stat", "rename", "append", "idle"} :
          pc' = [pc EXCEPT ![t] = b] /\ (b = "append" => pc[t] = "unlock")
    BY <1>7 DEF Lock, Flock, Unlock, Goes
  <2>2. UNCHANGED <<current, size, fd, fails, st>>
    BY <1>7 DEF Lock, Flock, Unlock, fileVars
  <2>3. Waits(t)'
    BY <1>4, <2>1 DEF Waits
  <2> QED
    BY <1>2, <1>5, <2>1, <2>2, <2>3 DEF Steps
<1>8. ASSUME NEW t \in Thread, Stat(t) PROVE Bounded'
  <2> DEFINE n == IF current = 0 THEN 0 ELSE size[current]
  <2>1. /\ pc[t] = "stat" /\ UNCHANGED <<current, size, fd, fails>>
        /\ st' = [st EXCEPT ![t] = [inode |-> current, size |-> n]]
    BY <1>8 DEF Stat, Goes, fileVars
  <2>2. PICK b \in {"refresh", "rename", "funlock"} :
          /\ pc' = [pc EXCEPT ![t] = b]
          /\ b = "funlock" => ~Changed(t) /\ ~Full(current, n)
    BY <1>8 DEF Stat, Goes
  <2>3. Late' = Late /\ t \notin Late
    BY <1>4, <2>1, <2>2 DEF Late
  <2>4. Cardinality(Late) < Cardinality(Thread)
    BY <1>3, <2>3, Missing
  <2>5. CASE b = "refresh"
    <3>1. /\ current \in Inode =>
                /\ st'[t].inode = current /\ st'[t].size = size[current]
      BY <1>2, <2>1 DEF Bounded, SizeTypes
    <3>2. pc'[t] = "refresh"
      BY <1>4, <2>2, <2>5
    <3>3. Waits(t)'
      BY <1>2, <1>3, <2>1, <2>3, <2>4, <3>1, <3>2 DEF Waits
    <3> QED
      BY <1>2, <1>5, <2>1, <2>2, <2>5, <3>3 DEF Steps, Bounded, SizeTypes
  <2>6. CASE b = "rename"
    <3>1. Waits(t)'
      BY <1>4, <2>2, <2>6 DEF Waits
    <3> QED
      BY <1>2, <1>5, <2>1, <2>2, <2>6, <3>1 DEF Steps, Bounded, SizeTypes
  <2>7. CASE b = "funlock"
    <3>1. fd[ProcessOf[t]] = current /\ ~Full(current, n)
      BY <2>2, <2>7 DEF Changed
    <3>2. current \in Inode => size[current] < RotateSize
      BY <1>2, <3>1 DEF Full
    <3>3. current \in Inode => size[current] + Cardinality(Late) < Room
      BY <1>2, <1>3, <2>4, <3>2 DEF Room
    <3>4. pc'[t] = "funlock"
      BY <1>4, <2>2, <2>7
    <3>5. Waits(t)'
      BY <2>1, <2>3, <3>1, <3>3, <3>4 DEF Waits
    <3> QED
      BY <1>2, <1>5, <2>1, <2>2, <2>7, <3>5 DEF Steps, Bounded, SizeTypes
  <2> QED
    BY <2>2, <2>5, <2>6, <2>7
\* The file that refresh finds, when it is not full, has room.
<1>9. ASSUME NEW t \in Thread, pc[t] = "refresh", ~Full(st[t].inode, st[t].size),
             current \in Inode
      PROVE  size[current] + Cardinality(Late) < Room
  <2>1. /\ st[t].inode = current /\ st[t].size \in Nat
        /\ size[current] + Cardinality(Late) < st[t].size + Cardinality(Thread)
    BY <1>9 DEF Bounded, Waits
  <2>2. st[t].size < RotateSize
    BY <1>2, <1>9, <2>1 DEF Full
  <2> QED
    BY <1>2, <1>3, <1>9, <2>1, <2>2 DEF Room
<1>10. ASSUME NEW t \in Thread, Critical(t), NEW b \in Steps, pc' = [pc EXCEPT ![t] = b],
             b \notin {"unlock", "append"}, Opens(ProcessOf[t]), fails' = fails,
             Late' = Late => Waits(t)'
      PROVE  Bounded'
  <2>1. Late' = Late /\ size' = size
    BY <1>4, <1>10 DEF Late, Critical, Opens
  <2>2. Counts' /\ \A u \in Thread \ {t} : Waits(u)'
    BY <1>1, <1>10, <2>1, OpenStep, Others
  <2> QED
    BY <1>1, <1>10, <2>1, <2>2 DEF Bounded
\* When open(2) fails the file that is open may take a line too many.
<1>11. ASSUME NEW t \in Thread, Critical(t), pc' = [pc EXCEPT ![t] = "failed"], OpenFails,
             st' = st, current \in Inode => size[current] + Cardinality(Late) < Room
      PROVE  Bounded'
  <2>1. fails' = fails + 1 /\ UNCHANGED <<current, size, fd>> /\ pc'[t] = "failed"
    BY <1>4, <1>11 DEF OpenFails, fileVars
  <2>2. Late' = Late /\ \A i : Pending(i)' = Pending(i)
    <3>1. Late' = Late
      BY <1>4, <1>11 DEF Late, Critical
    <3> QED
      BY <2>1, <3>1 DEF Pending
  <2>3. \A i \in Inode : size[i] + Cardinality(Pending(i)) <= Room + fails
    BY DEF Bounded, Counts
  <2>4. \A i \in Inode : size[i] + Cardinality(Pending(i)) < Room + fails'
    BY <1>2, <1>3, <2>1, <2>3
  <2>5. Waits(t)'
    BY <1>11, <2>1, <2>2, <2>4 DEF Waits
  <2> QED
    BY <1>2, <1>5, <1>11, <2>1, <2>5 DEF Steps
<1>12. ASSUME NEW t \in Thread, Refresh(t) PROVE Bounded'
  <2>1. PICK b \in {"rename", "funlock", "failed"} :
          /\ pc[t] = "refresh" /\ pc' = [pc EXCEPT ![t] = b] /\ st' = st /\ Critical(t)
          /\ \/ Opens(ProcessOf[t]) /\ UNCHANGED fails /\ b # "failed"
             \/ OpenFails /\ b # "funlock"
          /\ b # "rename" => ~Full(st[t].inode, st[t].size)
    BY <1>12 DEF Refresh, Goes, Critical
  <2>2. b \in Steps /\ pc'[t] = b
    BY <1>4, <2>1 DEF Steps
  <2>3. CASE b = "rename"
    <3>1. Waits(t)'
      BY <2>2, <2>3 DEF Waits
    <3>2. CASE Opens(ProcessOf[t]) /\ UNCHANGED fails
      BY <1>10, <2>1, <2>2, <2>3, <3>1, <3>2
    <3>3. CASE OpenFails
      BY <1>2, <1>5, <2>1, <2>2, <2>3, <3>1, <3>3 DEF OpenFails, fileVars
    <3> QED
      BY <2>1, <3>2, <3>3
  <2>4. CASE b = "funlock"
    <3>1. current \in Inode => size[current] + Cardinality(Late) < Room
      BY <1>9, <2>1, <2>4
    <3>2. Opens(ProcessOf[t]) /\ fails' = fails /\ size' = size
      BY <2>1, <2>4 DEF Opens
    <3>3. ASSUME Late' = Late PROVE Waits(t)'
      <4>1. \A i \in Inode : fd'[ProcessOf[t]] = i => size[i] + Cardinality(Late) < Room
        BY <1>1, <2>1, <3>1, <3>2, <3>3, OpenStep
      <4> QED
        BY <2>2, <2>4, <3>2, <3>3, <4>1 DEF Waits
    <3> QED
      BY <1>10, <2>1, <2>2, <2>4, <3>2, <3>3
  <2>5. CASE b = "failed"
    <3>1. current \in Inode => size[current] + Cardinality(Late) < Room
      BY <1>9, <2>1, <2>5
    <3> QED
      BY <1>11, <2>1, <2>2, <2>5, <3>1
  <2> QED
    BY <2>1, <2>3, <2>4, <2>5
<1>13. ASSUME NEW t \in Thread, Open(t) PROVE Bounded'
  <2>1. /\ pc[t] = "open" /\ st' = st /\ Critical(t)
        /\ \/ /\ pc' = [pc EXCEPT ![t] = "funlock"]
              /\ Opens(ProcessOf[t]) /\ UNCHANGED fails
           \/ pc' = [pc EXCEPT ![t] = "failed"] /\ OpenFails
    BY <1>13 DEF Open, Goes, Critical
  <2>2. current = 0 /\ current \notin Inode
    BY <1>2, <2>1 DEF Bounded, Waits
  <2>3. CASE /\ pc' = [pc EXCEPT ![t] = "funlock"]
             /\ Opens(ProcessOf[t]) /\ UNCHANGED fails
    <3>1. pc'[t] = "funlock" /\ size' = size
      BY <1>4, <2>3 DEF Opens
    <3>2. ASSUME Late' = Late PROVE Waits(t)'
      <4>1. \A i \in Inode : fd'[ProcessOf[t]] = i => size[i] + Cardinality(Late) < Room
        BY <1>1, <2>1, <2>2, <2>3, <3>1, <3>2, OpenStep
      <4> QED
        BY <3>1, <3>2, <4>1 DEF Waits
    <3> QED
      BY <1>10, <2>1, <2>3, <3>2 DEF Steps
  <2>4. CASE pc' = [pc EXCEPT ![t] = "failed"] /\ OpenFails
    BY <1>11, <2>1, <2>2, <2>4
  <2> QED
    BY <2>1, <2>3, <2>4
<1>14. ASSUME NEW t \in Thread, Rename(t) PROVE Bounded'
  <2>1. /\ pc' = [pc EXCEPT ![t] = "open"] /\ current' = 0
        /\ UNCHANGED <<size, fd, fails, st>>
    BY <1>14 DEF Rename, Goes
  <2>2. Waits(t)'
    BY <1>4, <2>1 DEF Waits
  <2> QED
    BY <1>2, <1>5, <2>1, <2>2 DEF Steps
<1>15. ASSUME NEW t \in Thread, Funlock(t) PROVE Bounded'
  <2> DEFINE p == ProcessOf[t]
  <2>1. /\ pc' = [pc EXCEPT ![t] = "unlock"] /\ pc[t] \in {"funlock", "failed"}
        /\ UNCHANGED <<current, size, fd, fails>>
    BY <1>15 DEF Funlock, Goes, fileVars
  <2>2. /\ Late' = Late \cup {t} /\ t \notin Late
        /\ \A i : Pending(i)' = IF fd[p] = i THEN Pending(i) \cup {t} ELSE Pending(i)
    <3>1. Late' = Late \cup {t} /\ t \notin Late
      BY <1>4, <2>1 DEF Late
    <3> QED
      BY <2>1, <3>1 DEF Pending
  <2>3. /\ IsFiniteSet(Late) /\ \A i : IsFiniteSet(Pending(i)) /\ t \notin Pending(i)
    BY <1>3, <2>2, Finite
  <2>4. Cardinality(Late') = Cardinality(Late) + 1
    BY <2>2, <2>3, FS_AddElement
  <2>5. ASSUME NEW i
        PROVE  Cardinality(Pending(i)') = IF fd[p] = i THEN Cardinality(Pending(i)) + 1
                                          ELSE Cardinality(Pending(i))
    BY <2>2, <2>3, FS_AddElement
  <2>6. ASSUME NEW i \in Inode, fd[p] = i
        PROVE  size[i] + Cardinality(Pending(i)) < Room + fails
    <3>1. CASE pc[t] = "funlock"
      <4>1. size[i] + Cardinality(Late) < Room
        BY <2>6, <3>1 DEF Bounded, Waits
      <4> QED
        BY <1>2, <1>3, <4>1
    <3>2. CASE pc[t] = "failed"
      BY <2>6, <3>2 DEF Bounded, Waits
    <3> QED
      BY <2>1, <3>1, <3>2
  <2>7. ASSUME NEW i \in Inode, current = i PROVE size[i] + Cardinality(Late) < Room
    <3>1. CASE pc[t] = "funlock"
      <4>1. fd[p] = current
        BY <1>2, <2>7, <3>1 DEF IInv, Fresh
      <4> QED
        BY <2>7, <3>1, <4>1 DEF Bounded, Waits
    <3>2. CASE pc[t] = "failed"
      BY <2>7, <3>2 DEF Bounded, Waits
    <3> QED
      BY <2>1, <3>1, <3>2
  <2>8. \A i \in Inode : size[i] + Cardinality(Pending(i)) <= Room + fails
    BY DEF Bounded, Counts
  <2>9. Counts'
    <3> SUFFICES ASSUME NEW i \in Inode
                 PROVE  /\ size'[i] + Cardinality(Pending(i)') <= Room + fails'
                        /\ current' = i => size'[i] + Cardinality(Late') <= Room
      BY DEF Counts
    <3>1. size'[i] + Cardinality(Pending(i)') <= Room + fails'
      BY <1>2, <1>3, <2>1, <2>5, <2>6, <2>8
    <3>2. current' = i => size'[i] + Cardinality(Late') <= Room
      BY <1>2, <1>3, <2>1, <2>4, <2>7
    <3> QED
      BY <3>1, <3>2
  <2>10. \A u \in Thread \ {t} : Waits(u)'
    <3>1. Critical(t)
      BY <2>1 DEF Critical
    <3> QED
      BY <2>1, <3>1, Others DEF Steps
  <2>11. Waits(t)'
    BY <1>4, <2>1 DEF Waits
  <2> QED
    BY <1>1, <2>9, <2>10, <2>11 DEF Bounded
<1>16. ASSUME NEW t \in Thread, AppendLine(t) PROVE Bounded'
  <2> DEFINE p == ProcessOf[t]
  <2>1. /\ pc' = [pc EXCEPT ![t] = "idle"] /\ pc[t] = "append"
        /\ size' = size \/ size' = [size EXCEPT ![fd[p]] = @ + 1]
        /\ UNCHANGED <<current, fd, fails, st>>
    BY <1>16 DEF AppendLine, Goes
  <2>2. /\ Late' = Late \ {t} /\ t \in Late
        /\ \A i : Pending(i)' = Pending(i) \ {t} /\ (t \in Pending(i) <=> fd[p] = i)
    <3>1. Late' = Late \ {t} /\ t \in Late
      BY <1>4, <2>1 DEF Late
    <3> QED
      BY <2>1, <3>1 DEF Pending
  <2>3. /\ IsFiniteSet(Late) /\ \A i : IsFiniteSet(Pending(i))
    BY <1>3, Finite
  <2>4. Cardinality(Late') = Cardinality(Late) - 1
    BY <2>2, <2>3, FS_RemoveElement
  <2>5. ASSUME NEW i
        PROVE  Cardinality(Pending(i)') = IF fd[p] = i THEN Cardinality(Pending(i)) - 1
                                          ELSE Cardinality(Pending(i))
    BY <2>2, <2>3, FS_RemoveElement
  <2>6. \A i \in Inode : size'[i] = size[i] \/ (fd[p] = i /\ size'[i] = size[i] + 1)
    BY <2>1 DEF Bounded, SizeTypes
  <2>7. \A i \in Inode :
          /\ size'[i] + Cardinality(Pending(i)') <= size[i] + Cardinality(Pending(i))
          /\ size'[i] + Cardinality(Late') <= size[i] + Cardinality(Late)
    BY <1>2, <1>3, <2>4, <2>5, <2>6
  <2>8. Counts' /\ \A u \in Thread \ {t} : Waits(u)'
    BY <1>1, <1>2, <1>4, <2>1, <2>7, Shrinks
  <2>9. Waits(t)'
    BY <1>4, <2>1 DEF Waits
  <2> QED
    BY <1>1, <2>8, <2>9 DEF Bounded
\* A process that is forked has no thread that writes.
<1>17. ASSUME NEW t \in Thread, NEW p \in Process, Fork(t, p) PROVE Bounded'
  <2>1. /\ fd' = [fd EXCEPT ![p] = fd[ProcessOf[t]]] /\ state[p] = "none"
        /\ UNCHANGED <<current, size, pc, fails, st>>
    BY <1>17 DEF Fork, threadVars
  <2>2. \A u \in Thread : pc[u] # "idle" => fd'[ProcessOf[u]] = fd[ProcessOf[u]]
    BY <1>2, <1>4, <2>1 DEF IInv, Locks, Ready
  <2>3. Late' = Late /\ \A u \in Late' : fd'[ProcessOf[u]] = fd[ProcessOf[u]]
    BY <2>1, <2>2 DEF Late
  <2>4. Counts' /\ \A u \in Thread : pc[u] # "idle" => Waits(u)'
    BY <1>1, <1>2, <2>1, <2>2, <2>3, NoMore
  <2>5. \A u \in Thread : pc[u] = "idle" => Waits(u)'
    BY <2>1 DEF Waits
  <2> QED
    BY <1>1, <2>4, <2>5 DEF Bounded
<1>18. ASSUME (\E p \in Process : Reopen(p)) \/ MoveAway PROVE Bounded'
  <2>1. current' \in {0, current} /\ UNCHANGED <<size, fd, pc, fails, st>>
    BY <1>18 DEF Reopen, MoveAway, fileVars, threadVars
  <2>2. Late' = Late
    BY <2>1 DEF Late
  <2>3. Counts' /\ \A u \in Thread : Waits(u)'
    BY <1>1, <1>2, <2>1, <2>2, NoMore
  <2> QED
    BY <1>1, <2>3 DEF Bounded
<1> QED
  BY <1>6, <1>7, <1>8, <1>12, <1>13, <1>14, <1>15, <1>16, <1>17, <1>18 DEF Next, Step

LEMMA InitBounded == Init => Bounded
<1> SUFFICES ASSUME Init PROVE Bounded
  OBVIOUS
<1>1. Late = {} /\ \A i : Pending(i) = {}
  BY DEF Init, Late, Pending
<1>2. Cardinality({}) = 0 /\ Room \in Nat
  BY Finite, FS_EmptySet
<1>3. SizeTypes
  BY DEF Init, SizeTypes
<1>4. Counts
  <2>1. fails = 0 /\ \A i \in Inode : size[i] = 0
    BY DEF Init
  <2> QED
    BY <1>1, <1>2, <2>1 DEF Counts
<1>5. \A t \in Thread : Waits(t)
  BY DEF Init, Waits
<1> QED
  BY <1>3, <1>4, <1>5 DEF Bounded

-----------------------------------------------------------------------------
(* Theorems. *)

\* Processes, mutexes, the flock and the newest file are always as IInv relates
\* them.
THEOREM SlogInvariance == Spec => []IInv
BY InitIInv, NextIInv, PTL DEF Spec

\* One thread of all processes at a time looks at the file and rotates it.
THEOREM ExclusiveHolds == Spec => []Exclusive
<1>1. IInv => Exclusive
  BY Alone DEF IInv
<1> QED
  BY <1>1, SlogInvariance, PTL

\* A lock that is taken has a holder that will release it.
THEOREM LocksAreHeldHolds == Spec => []LocksAreHeld
<1>1. IInv => LocksAreHeld
  <2> SUFFICES ASSUME IInv PROVE LocksAreHeld
    OBVIOUS
  <2>1. \A t \in Thread : Critical(t) => lockfd[ProcessOf[t]] = ProcessOf[t]
    BY SlogAssumption DEF IInv, Locks, Ready, Critical
  <2> QED
    BY <2>1 DEF IInv, Locks, MutexSound, FlockSound, LocksAreHeld
<1> QED
  BY <1>1, SlogInvariance, PTL

\* No line goes to a file that had been replaced when its thread checked.
THEOREM WritesNotStaleHolds == Spec => []WritesNotStale
<1>1. IInv => WritesNotStale
  <2> SUFFICES ASSUME IInv, NEW t \in Thread, pc[t] = "append"
               PROVE  fd[ProcessOf[t]] >= floor[t]
    BY DEF WritesNotStale
  <2> QED
    BY SlogAssumption DEF IInv, Locks, Types, Fresh
<1> QED
  BY <1>1, SlogInvariance, PTL

\* A file exceeds rotate_size by a line for each thread at most, and by one for
\* each open(2) that failed.
THEOREM SizeBoundedHolds == Spec => []SizeBounded
<1>1. IInv /\ Bounded /\ [Next]_vars => Bounded'
  <2> SUFFICES ASSUME IInv, Bounded, [Next]_vars PROVE Bounded'
    OBVIOUS
  <2>1. CASE UNCHANGED vars
    <3>1. Late' = Late /\ \A i : Pending(i)' = Pending(i)
      BY <2>1 DEF vars, fileVars, threadVars, Late, Pending
    <3>2. SizeTypes' /\ Counts'
      BY <2>1, <3>1 DEF Bounded, SizeTypes, Counts, vars, fileVars, threadVars
    <3>3. \A t \in Thread : Waits(t)'
      BY <2>1, <3>1 DEF Bounded, Waits, vars, fileVars, threadVars
    <3> QED
      BY <3>2, <3>3 DEF Bounded
  <2> QED
    BY <2>1, BoundedNext
<1>2. Bounded => SizeBounded
  <2> SUFFICES ASSUME Bounded, NEW i \in Inode
               PROVE  size[i] <= RotateSize - 1 + Cardinality(Thread) + fails
    BY DEF SizeBounded
  <2>1. Pending(i) \in SUBSET Thread
    BY DEF Pending, Late
  <2>2. Cardinality(Pending(i)) \in Nat
    BY <2>1, Finite
  <2>3. size[i] \in Nat /\ fails \in Nat /\ Room \in Nat
    BY Finite DEF Bounded, SizeTypes
  <2>4. size[i] + Cardinality(Pending(i)) <= Room + fails
    BY DEF Bounded, Counts
  <2>5. size[i] <= Room + fails
    BY <2>2, <2>3, <2>4
  <2> QED
    BY <2>5 DEF Room
<1> QED
  BY <1>1, <1>2, InitBounded, SlogInvariance, PTL DEF Spec

-----------------------------------------------------------------------------
(* The line parser. *)

\* Every set of numbers has a least one, and a greatest one if it is bounded.
LEMMA Lowest ==
  ASSUME NEW A \in SUBSET Nat, A # {}
  PROVE  \E x \in A : \A y \in A : x <= y
<1>1. PICK x \in A : \A y \in A : ~(<<y, x>> \in OpToRel(<, Nat))
  BY NatLessThanWellFounded, WFMin
<1>2. \A y \in A : ~(y < x)
  BY <1>1 DEF OpToRel
<1> QED
  BY <1>2

LEMMA Highest ==
  ASSUME NEW A \in SUBSET Nat, A # {}, NEW n \in Nat, \A x \in A : x <= n
  PROVE  \E x \in A : \A y \in A : y <= x
<1> DEFINE B == {n - x : x \in A}
<1>1. B \in SUBSET Nat /\ B # {}
  <2>1. \A x \in A : n - x \in Nat
    OBVIOUS
  <2> QED
    BY <2>1
<1>2. PICK b \in B : \A y \in B : b <= y
  BY <1>1, Lowest
<1>3. PICK x \in A : b = n - x
  BY <1>2
<1>4. \A y \in A : n - x <= n - y
  BY <1>2, <1>3
<1>5. \A y \in A : y \in Nat /\ x \in Nat
  OBVIOUS
<1>6. \A y \in A : y <= x
  BY <1>4, <1>5
<1> QED
  BY <1>6

LEMMA LineMin ==
  ASSUME NEW A \in SUBSET Nat, A # {}
  PROVE  P!Min(A) \in A /\ \A y \in A : P!Min(A) <= y
<1>1. \E x \in A : \A y \in A : x <= y
  BY Lowest
<1> QED
  BY <1>1 DEF P!Min

LEMMA LineMax ==
  ASSUME NEW A \in SUBSET Nat, A # {}, NEW n \in Nat, \A x \in A : x <= n
  PROVE  P!Max(A) \in A /\ \A y \in A : y <= P!Max(A)
<1>1. \E x \in A : \A y \in A : x >= y
  <2>1. PICK x \in A : \A y \in A : y <= x
    BY Highest
  <2>2. \A y \in A : x >= y
    BY <2>1
  <2> QED
    BY <2>2
<1>2. P!Max(A) \in A /\ \A y \in A : P!Max(A) >= y
  BY <1>1 DEF P!Max
<1> QED
  BY <1>2

\* A place of the line, or nowhere if there is none of that kind.
IsFirst(n, A) == IF A = {} THEN n = 0 ELSE n \in A /\ \A j \in A : n <= j

LEMMA FirstPlace ==
  ASSUME NEW A \in SUBSET Nat
  PROVE  IsFirst(IF A = {} THEN P!Nowhere ELSE P!Min(A), A)
BY LineMin DEF IsFirst, P!Nowhere

LEMMA NameBeginIs ==
  ASSUME NEW s \in Seq(P!Char)
  PROVE  IsFirst(P!NameBegin(s), {j \in 1..Len(s) : s[j] # "blank"})
<1> DEFINE A == {j \in 1..Len(s) : s[j] # "blank"}
<1>1. A \in SUBSET Nat
  OBVIOUS
<1>2. P!NameBegin(s) = IF A = {} THEN P!Nowhere ELSE P!Min(A)
  BY DEF P!NameBegin, P!First
<1> HIDE DEF A
<1>3. IsFirst(P!NameBegin(s), A)
  BY <1>1, <1>2, FirstPlace
<1> QED
  BY <1>3 DEF A

LEMMA NameEndIs ==
  ASSUME NEW s \in Seq(P!Char), NEW i \in Nat
  PROVE  IsFirst(P!NameEnd(s, i), {j \in i..Len(s) : s[j] \notin {"letter", "digit", "underscore"}})
<1> DEFINE A == {j \in i..Len(s) : s[j] \notin {"letter", "digit", "underscore"}}
<1>1. A \in SUBSET Nat
  OBVIOUS
<1>2. P!NameEnd(s, i) = IF A = {} THEN P!Nowhere ELSE P!Min(A)
  BY DEF P!NameEnd, P!First
<1> HIDE DEF A
<1>3. IsFirst(P!NameEnd(s, i), A)
  BY <1>1, <1>2, FirstPlace
<1> QED
  BY <1>3 DEF A

LEMMA NoteIs ==
  ASSUME NEW s \in Seq(P!Char), NEW i \in Nat
  PROVE  IsFirst(P!Note(s, i), {j \in i..Len(s) : s[j] = "hash" /\ j # i /\ s[j - 1] = "blank"})
<1> DEFINE A == {j \in i..Len(s) : s[j] = "hash" /\ j # i /\ s[j - 1] = "blank"}
<1>1. A \in SUBSET Nat
  OBVIOUS
<1>2. P!Note(s, i) = IF A = {} THEN P!Nowhere ELSE P!Min(A)
  BY DEF P!Note, P!First
<1> HIDE DEF A
<1>3. IsFirst(P!Note(s, i), A)
  BY <1>1, <1>2, FirstPlace
<1> QED
  BY <1>3 DEF A

\* Where the value that begins at i ends for the code: before the note, if there
\* is one, which is at end + 1, at the last character l that is not blank.
ValueEnds(s, i, l, end) ==
  /\ end <= Len(s)
  /\ \A j \in i + 1..end : ~(s[j] = "hash" /\ s[j - 1] = "blank")
  /\ \/ end = Len(s)
     \/ end + 1 \in i + 1..Len(s) /\ s[end + 1] = "hash" /\ s[end] = "blank"
  /\ \/ l = 0 /\ \A j \in i..end : s[j] = "blank"
     \/ /\ l \in i..end /\ s[l] # "blank"
        /\ \A j \in i..end : j > l => s[j] = "blank"

LEMMA LastCharIs ==
  ASSUME NEW s \in Seq(P!Char), NEW i \in Nat \ {0}, i <= Len(s) + 1
  PROVE  \E end \in Nat : ValueEnds(s, i, P!LastChar(s, i), end)
<1> DEFINE n == P!Note(s, i)
           H == {j \in i..Len(s) : s[j] = "hash" /\ j # i /\ s[j - 1] = "blank"}
           e == IF n = 0 THEN Len(s) ELSE n - 1
           I == {j \in i..e : s[j] # "blank"}
<1>1. IF H = {} THEN n = 0 ELSE n \in H /\ \A j \in H : n <= j
  BY NoteIs DEF IsFirst
<1>2. P!LastChar(s, i) = IF I = {} THEN 0 ELSE P!Max(I)
  BY DEF P!LastChar, P!Nowhere
<1>3. Len(s) \in Nat /\ \A j \in H : j \in i + 1..Len(s)
  OBVIOUS
<1>4. n \in 0..Len(s) /\ (n # 0 => n \in H)
  BY <1>1, <1>3
<1> HIDE DEF n
<1>5. /\ e \in Nat /\ e <= Len(s)
      /\ \/ e = Len(s)
         \/ e + 1 \in i + 1..Len(s) /\ s[e + 1] = "hash" /\ s[e] = "blank"
  BY <1>3, <1>4
<1>6. \A j \in i + 1..e : ~(s[j] = "hash" /\ s[j - 1] = "blank")
  <2> SUFFICES ASSUME NEW j \in i + 1..e, s[j] = "hash", s[j - 1] = "blank" PROVE FALSE
    OBVIOUS
  <2>1. j \in H /\ j <= e
    BY <1>5
  <2> QED
    BY <1>1, <1>3, <1>4, <2>1
<1> HIDE DEF e
<1>7. I \in SUBSET Nat /\ \A j \in I : j <= e
  BY <1>5
<1>8. \A j \in i..e : j \in I <=> s[j] # "blank"
  OBVIOUS
<1>9. I \subseteq i..e
  OBVIOUS
<1> HIDE DEF I
<1>10. \/ P!LastChar(s, i) = 0 /\ \A j \in i..e : s[j] = "blank"
       \/ /\ P!LastChar(s, i) \in i..e /\ s[P!LastChar(s, i)] # "blank"
          /\ \A j \in i..e : j > P!LastChar(s, i) => s[j] = "blank"
  <2>1. CASE I = {}
    BY <1>2, <1>8, <2>1
  <2>2. CASE I # {}
    <3>1. P!LastChar(s, i) \in I /\ \A j \in I : j <= P!LastChar(s, i)
      BY <1>2, <1>5, <1>7, <2>2, LineMax
    <3>2. P!LastChar(s, i) \in i..e /\ s[P!LastChar(s, i)] # "blank"
      BY <1>8, <1>9, <3>1
    <3>3. \A j \in i..e : j > P!LastChar(s, i) => s[j] = "blank"
      BY <1>8, <3>1, <3>2
    <3> QED
      BY <3>2, <3>3
  <2> QED
    BY <2>1, <2>2
<1> QED
  BY <1>5, <1>6, <1>10 DEF ValueEnds

LEMMA SkippedIs ==
  ASSUME NEW s \in Seq(P!Char)
  PROVE  LET b == P!NameBegin(s) IN P!Skipped(s) <=> b = 0 \/ s[b] = "hash"
<1> DEFINE b == P!NameBegin(s)
<1>1. /\ Len(s) \in Nat
      /\ \/ b = 0 /\ \A j \in 1..Len(s) : s[j] = "blank"
         \/ b \in 1..Len(s) /\ s[b] # "blank" /\ \A j \in 1..Len(s) : s[j] # "blank" => b <= j
  BY NameBeginIs DEF IsFirst
<1> HIDE DEF b
<1>2. CASE b = 0
  <2>1. P!Skipped(s)
    BY <1>1, <1>2 DEF P!Skipped, P!Blank
  <2> QED
    BY <1>2, <2>1 DEF b
<1>3. CASE b # 0
  <2>1. /\ b \in 1..Len(s) /\ s[b] # "blank" /\ \A j \in 1..Len(s) : s[j] # "blank" => b <= j
    BY <1>1, <1>3
  <2>2. ~P!Blank(s, 1, Len(s)) /\ P!Blank(s, 1, b - 1)
    BY <1>1, <2>1 DEF P!Blank
  <2>3. \A i \in 1..Len(s) : s[i] = "hash" /\ P!Blank(s, 1, i - 1) => i = b
    BY <1>1, <2>1 DEF P!Blank
  <2>4. P!Skipped(s) <=> s[b] = "hash"
    BY <2>1, <2>2, <2>3 DEF P!Skipped
  <2> QED
    BY <1>3, <2>4 DEF b
<1> QED
  BY <1>2, <1>3

\* What the code takes for a name, =, and a value.
Parses(s, b, e, l) ==
  /\ b # 0 /\ s[b] \notin {"equals", "underscore", "digit", "hash"}
  /\ e # 0 /\ s[e] = "equals" /\ ~\A j \in b..e - 1 : s[j] # "letter"
  /\ l # 0 => s[e + 1] # "blank"

Item(s, b, e, v) == [name |-> SubSeq(s, b, e - 1), value |-> SubSeq(s, e + 1, v)]

LEMMA ParsedIs ==
  ASSUME NEW s
  PROVE  LET b == P!NameBegin(s)
             e == P!NameEnd(s, b)
             l == P!LastChar(s, e + 1)
             p == P!_sconfig_parse_line(s)
         IN IF b = 0 \/ s[b] = "hash" THEN p = P!NoToken
            ELSE IF ~Parses(s, b, e, l) THEN p = P!Failed
            ELSE p = [ret |-> IF l = 0 THEN 1 ELSE 2, name |-> SubSeq(s, b, e - 1),
                      value |-> IF l = 0 THEN <<>> ELSE SubSeq(s, e + 1, l)]
BY DEF P!_sconfig_parse_line, P!ParseValue, P!Nowhere, Parses

\* The rules leave no choice, and agree with the code.
LEMMA ReadsIs ==
  ASSUME NEW s \in Seq(P!Char), NEW x \in 1..Len(s), NEW y \in 1..Len(s), NEW z \in 1..Len(s),
         P!Reads(s, x, y, z)
  PROVE  LET b == P!NameBegin(s)
             e == P!NameEnd(s, b)
             l == P!LastChar(s, e + 1)
         IN Parses(s, b, e, l) /\ x = b /\ y = e /\ z = IF l = 0 THEN e ELSE l
<1> DEFINE b == P!NameBegin(s)
           e == P!NameEnd(s, b)
           l == P!LastChar(s, e + 1)
<1>1. /\ Len(s) \in Nat /\ x < y /\ y <= z
      /\ \A j \in 1..x - 1 : s[j] = "blank"
      /\ s[x] = "letter" /\ \A j \in x..y - 1 : s[j] \in {"letter", "digit", "underscore"}
      /\ s[y] = "equals"
      /\ z > y => /\ s[y + 1] # "blank" /\ s[z] # "blank"
                  /\ \A j \in y + 2..z : s[j] = "hash" => s[j - 1] # "blank"
      /\ \/ \A j \in z + 1..Len(s) : s[j] = "blank"
         \/ \E n \in z + 2..Len(s) : s[n] = "hash" /\ \A j \in z + 1..n - 1 : s[j] = "blank"
  BY DEF P!Reads, P!Blank
<1>2. b = x
  <2>1. IsFirst(b, {j \in 1..Len(s) : s[j] # "blank"})
    BY NameBeginIs
  <2>2. x \in {j \in 1..Len(s) : s[j] # "blank"}
    BY <1>1
  <2>3. b \in 1..Len(s) /\ s[b] # "blank" /\ b <= x
    BY <2>1, <2>2 DEF IsFirst
  <2> QED
    BY <1>1, <2>3
<1> HIDE DEF b
<1>3. e = y
  <2> DEFINE A == {j \in b..Len(s) : s[j] \notin {"letter", "digit", "underscore"}}
  <2>1. IsFirst(e, A)
    BY <1>2, NameEndIs
  <2>2. y \in A
    BY <1>1, <1>2
  <2>3. e \in b..Len(s) /\ s[e] \notin {"letter", "digit", "underscore"} /\ e <= y
    BY <2>1, <2>2 DEF IsFirst
  <2> QED
    BY <1>1, <1>2, <2>3
<1> HIDE DEF e
<1>4. PICK end \in Nat :
        /\ end <= Len(s)
        /\ \A j \in y + 2..end : ~(s[j] = "hash" /\ s[j - 1] = "blank")
        /\ \/ end = Len(s)
           \/ end + 1 \in y + 2..Len(s) /\ s[end + 1] = "hash" /\ s[end] = "blank"
        /\ \/ l = 0 /\ \A j \in y + 1..end : s[j] = "blank"
           \/ /\ l \in y + 1..end /\ s[l] # "blank"
              /\ \A j \in y + 1..end : j > l => s[j] = "blank"
  <2>1. y + 1 \in Nat \ {0} /\ y + 1 <= Len(s) + 1 /\ (y + 1) + 1 = y + 2
    BY <1>1
  <2>2. l = P!LastChar(s, y + 1)
    BY <1>3
  <2> HIDE DEF l
  <2>3. PICK end \in Nat : ValueEnds(s, y + 1, l, end)
    BY <2>1, <2>2, LastCharIs
  <2> QED
    BY <2>1, <2>3 DEF ValueEnds
<1> HIDE DEF l
\* A note begins behind the value and before anything that is not blank.
<1>5. /\ z <= end
      /\ \A j \in z + 1..end : s[j] = "blank"
  <2>1. CASE end = Len(s) /\ \A j \in z + 1..Len(s) : s[j] = "blank"
    BY <1>1, <2>1
  <2>2. ASSUME end = Len(s), NEW n \in z + 2..Len(s), s[n] = "hash",
               \A j \in z + 1..n - 1 : s[j] = "blank"
        PROVE  FALSE
    <3>1. n \in y + 2..end /\ n - 1 \in z + 1..n - 1
      BY <1>1, <2>2
    <3> QED
      BY <1>4, <2>2, <3>1
  <2>3. ASSUME end + 1 \in y + 2..Len(s), s[end + 1] = "hash", s[end] = "blank"
        PROVE  z <= end
    <3>1. CASE end + 1 <= z
      <4>1. z > y /\ end + 1 \in y + 2..z /\ (end + 1) - 1 = end
        BY <1>1, <2>3, <3>1
      <4> QED
        BY <1>1, <2>3, <4>1
    <3> QED
      BY <1>1, <1>4, <3>1
  <2>4. ASSUME end + 1 \in y + 2..Len(s), s[end + 1] = "hash", s[end] = "blank",
               \A j \in z + 1..Len(s) : s[j] = "blank"
        PROVE  FALSE
    <3>1. end + 1 \in z + 1..Len(s)
      BY <1>1, <1>4, <2>3, <2>4
    <3> QED
      BY <2>4, <3>1
  <2>5. ASSUME end + 1 \in y + 2..Len(s), s[end + 1] = "hash", s[end] = "blank",
               NEW n \in z + 2..Len(s), s[n] = "hash",
               \A j \in z + 1..n - 1 : s[j] = "blank"
        PROVE  \A j \in z + 1..end : s[j] = "blank"
    <3>1. z <= end /\ n \in Nat
      BY <1>1, <2>3, <2>5
    <3>2. end + 1 <= n
      <4>1. CASE n <= end
        <5>1. n \in y + 2..end /\ n - 1 \in z + 1..n - 1
          BY <1>1, <2>5, <4>1
        <5> QED
          BY <1>4, <2>5, <5>1
      <4> QED
        BY <3>1, <4>1
    <3> QED
      BY <1>1, <2>5, <3>1, <3>2
  <2>6. z <= end
    BY <1>1, <1>4, <2>3
  <2> QED
    BY <1>1, <1>4, <2>1, <2>2, <2>4, <2>5, <2>6
<1>6. z = IF l = 0 THEN y ELSE l
  <2>1. CASE z = y
    <3>1. \A j \in y + 1..end : s[j] = "blank"
      BY <1>5, <2>1
    <3> QED
      BY <1>4, <2>1, <3>1
  <2>2. CASE z > y
    <3>1. z \in y + 1..end /\ s[z] # "blank"
      BY <1>1, <1>5, <2>2
    <3>2. l \in y + 1..end /\ s[l] # "blank" /\ ~(z > l)
      BY <1>4, <3>1
    <3>3. ~(l > z)
      BY <1>1, <1>5, <3>1, <3>2
    <3>4. l # 0 /\ l = z
      BY <1>1, <3>1, <3>2, <3>3
    <3> QED
      BY <3>4
  <2> QED
    BY <1>1, <2>1, <2>2
<1>7. Parses(s, b, e, l)
  <2>1. x \in b..e - 1 /\ s[x] = "letter"
    BY <1>1, <1>2, <1>3
  <2>2. l # 0 => s[e + 1] # "blank"
    <3>1. l # 0 => z > y
      BY <1>1, <1>4, <1>6
    <3> QED
      BY <1>1, <1>3, <3>1
  <2> QED
    BY <1>1, <1>2, <1>3, <2>1, <2>2 DEF Parses
<1> QED
  BY <1>2, <1>3, <1>6, <1>7 DEF b, e, l

LEMMA ParsesReads ==
  ASSUME NEW s \in Seq(P!Char)
  PROVE  LET b == P!NameBegin(s)
             e == P!NameEnd(s, b)
             l == P!LastChar(s, e + 1)
             v == IF l = 0 THEN e ELSE l
         IN Parses(s, b, e, l) =>
              /\ b \in 1..Len(s) /\ e \in 1..Len(s) /\ v \in 1..Len(s) /\ v >= e
              /\ l # 0 => v > e
              /\ P!Reads(s, b, e, v)
<1> DEFINE b == P!NameBegin(s)
           e == P!NameEnd(s, b)
           l == P!LastChar(s, e + 1)
           v == IF l = 0 THEN e ELSE l
<1> SUFFICES ASSUME Parses(s, b, e, l)
             PROVE  /\ b \in 1..Len(s) /\ e \in 1..Len(s) /\ v \in 1..Len(s) /\ v >= e
                    /\ l # 0 => v > e
                    /\ P!Reads(s, b, e, v)
  OBVIOUS
<1>1. Len(s) \in Nat /\ \A j \in 1..Len(s) : s[j] \in P!Char
  OBVIOUS
<1>2. b \in 1..Len(s) /\ s[b] # "blank" /\ \A j \in 1..b - 1 : s[j] = "blank"
  <2> DEFINE A == {j \in 1..Len(s) : s[j] # "blank"}
  <2>1. IsFirst(b, A) /\ b # 0
    BY NameBeginIs DEF Parses
  <2>2. b \in A /\ \A j \in A : b <= j
    BY <2>1 DEF IsFirst
  <2>3. b \in 1..Len(s) /\ s[b] # "blank" /\ \A j \in 1..Len(s) : s[j] # "blank" => b <= j
    BY <2>2
  <2> HIDE DEF b
  <2> QED
    BY <1>1, <2>3
<1> HIDE DEF b
<1>3. /\ e \in b..Len(s) /\ \A j \in b..e - 1 : s[j] \in {"letter", "digit", "underscore"}
  <2> DEFINE A == {j \in b..Len(s) : s[j] \notin {"letter", "digit", "underscore"}}
  <2>1. IsFirst(e, A) /\ e # 0
    BY <1>2, NameEndIs DEF Parses
  <2>2. e \in A /\ \A j \in A : e <= j
    BY <2>1 DEF IsFirst
  <2>3. e \in b..Len(s) /\ \A j \in b..Len(s) : s[j] \notin {"letter", "digit", "underscore"} => e <= j
    BY <2>2
  <2> HIDE DEF e
  <2> QED
    BY <1>1, <1>2, <2>3
<1> HIDE DEF e
<1>4. PICK end \in Nat :
        /\ end <= Len(s)
        /\ \A j \in e + 2..end : ~(s[j] = "hash" /\ s[j - 1] = "blank")
        /\ \/ end = Len(s)
           \/ end + 1 \in e + 2..Len(s) /\ s[end + 1] = "hash" /\ s[end] = "blank"
        /\ \/ l = 0 /\ \A j \in e + 1..end : s[j] = "blank"
           \/ /\ l \in e + 1..end /\ s[l] # "blank"
              /\ \A j \in e + 1..end : j > l => s[j] = "blank"
  <2>1. e + 1 \in Nat \ {0} /\ e + 1 <= Len(s) + 1 /\ (e + 1) + 1 = e + 2
    BY <1>1, <1>2, <1>3
  <2>2. l = P!LastChar(s, e + 1)
    OBVIOUS
  <2> HIDE DEF l
  <2>3. PICK end \in Nat : ValueEnds(s, e + 1, l, end)
    BY <2>1, <2>2, LastCharIs
  <2> QED
    BY <2>1, <2>3 DEF ValueEnds
<1> HIDE DEF l
<1>5. /\ s[b] \notin {"equals", "underscore", "digit", "hash"} /\ s[e] = "equals"
      /\ l # 0 => s[e + 1] # "blank"
  BY DEF Parses
<1>6. b < e /\ s[b] = "letter" /\ b \in Nat /\ e \in Nat
  <2>1. b # e
    BY <1>5
  <2>2. b \in b..e - 1
    BY <1>1, <1>2, <1>3, <2>1
  <2> QED
    BY <1>1, <1>2, <1>3, <1>5, <2>1, <2>2
<1>7. e <= v /\ v \in 1..Len(s) /\ e \in 1..Len(s) /\ (v > e => l = v /\ l # 0) /\ (l # 0 => v > e)
  BY <1>1, <1>2, <1>3, <1>4, <1>6
<1>8. ASSUME v > e
      PROVE  /\ s[e + 1] # "blank" /\ s[v] # "blank"
             /\ \A j \in e + 2..v : s[j] = "hash" => s[j - 1] # "blank"
  <2>1. l = v /\ l # 0 /\ l \in e + 1..end /\ s[l] # "blank"
    BY <1>4, <1>7, <1>8
  <2>2. \A j \in e + 2..v : j \in e + 2..end
    BY <1>6, <2>1
  <2> QED
    BY <1>4, <1>5, <2>1, <2>2
<1>9. v <= end \/ l = 0
  BY <1>4
<1>10. \A j \in v + 1..end : s[j] = "blank"
  <2>1. CASE l = 0
    BY <1>4, <1>6, <2>1
  <2>2. CASE l # 0
    <3>1. l \in e + 1..end /\ \A j \in e + 1..end : j > l => s[j] = "blank"
      BY <1>4, <2>2
    <3> QED
      BY <1>6, <2>2, <3>1
  <2> QED
    BY <2>1, <2>2
<1>11. \/ P!Blank(s, v + 1, Len(s))
       \/ \E j \in v + 2..Len(s) : s[j] = "hash" /\ P!Blank(s, v + 1, j - 1)
  <2>1. CASE end = Len(s)
    BY <1>10, <2>1 DEF P!Blank
  <2>2. CASE end + 1 \in e + 2..Len(s) /\ s[end + 1] = "hash" /\ s[end] = "blank"
    <3>1. v < end \/ v = e
      <4>1. CASE l # 0
        <5>1. v = l /\ l \in e + 1..end /\ s[l] # "blank"
          BY <1>4, <4>1
        <5>2. l # end
          BY <2>2, <5>1
        <5> QED
          BY <1>6, <5>1, <5>2
      <4>2. CASE l = 0
        BY <4>2
      <4> QED
        BY <4>1, <4>2
    <3>2. end + 1 \in v + 2..Len(s) /\ (end + 1) - 1 = end
      BY <1>1, <1>6, <1>7, <2>2, <3>1
    <3>3. P!Blank(s, v + 1, end)
      BY <1>10 DEF P!Blank
    <3> QED
      BY <2>2, <3>2, <3>3
  <2> QED
    BY <1>4, <2>1, <2>2
<1>12. P!Blank(s, 1, b - 1)
  BY <1>2 DEF P!Blank
<1> HIDE DEF v
<1>13. P!Reads(s, b, e, v)
  BY <1>3, <1>5, <1>6, <1>7, <1>8, <1>11, <1>12 DEF P!Reads
<1> QED
  BY <1>1, <1>2, <1>6, <1>7, <1>13

LEMMA LineRead ==
  ASSUME NEW s \in Seq(P!Char)
  PROVE  LET p == P!_sconfig_parse_line(s) IN
         /\ p.ret = 0 <=> P!Skipped(s)
         /\ P!Readings(s) = IF p.ret <= 0 THEN {} ELSE {[name |-> p.name, value |-> p.value]}
         /\ p.ret = 2 <=> p.value # <<>>
<1> DEFINE b == P!NameBegin(s)
           e == P!NameEnd(s, b)
           l == P!LastChar(s, e + 1)
           v == IF l = 0 THEN e ELSE l
           p == P!_sconfig_parse_line(s)
<1>1. P!Skipped(s) <=> b = 0 \/ s[b] = "hash"
  BY SkippedIs
<1>2. IF b = 0 \/ s[b] = "hash" THEN p = P!NoToken
      ELSE IF ~Parses(s, b, e, l) THEN p = P!Failed
      ELSE p = [ret |-> IF l = 0 THEN 1 ELSE 2, name |-> SubSeq(s, b, e - 1),
                value |-> IF l = 0 THEN <<>> ELSE SubSeq(s, e + 1, l)]
  BY ParsedIs
<1>3. Parses(s, b, e, l) =>
        /\ b \in 1..Len(s) /\ e \in 1..Len(s) /\ v \in 1..Len(s) /\ v >= e
        /\ l # 0 => v > e
        /\ P!Reads(s, b, e, v)
  BY ParsesReads
<1>4. \A x, y, z \in 1..Len(s) : P!Reads(s, x, y, z) =>
        Parses(s, b, e, l) /\ x = b /\ y = e /\ z = v
  BY ReadsIs
<1>5. Parses(s, b, e, l) => ~(b = 0 \/ s[b] = "hash")
  BY DEF Parses
<1>6. \A r : r \in P!Readings(s) <=>
        \E x, y, z \in 1..Len(s) : P!Reads(s, x, y, z) /\ r = Item(s, x, y, z)
  <2> DEFINE N == 1..Len(s)
             T == {t \in N \X N \X N : P!Reads(s, t[1], t[2], t[3])}
  <2>1. P!Readings(s) = {Item(s, t[1], t[2], t[3]) : t \in T}
    BY DEF P!Readings, Item
  <2>2. \A t : t \in T <=> \E x, y, z \in N : t = <<x, y, z>> /\ P!Reads(s, x, y, z)
    OBVIOUS
  <2> HIDE DEF N, T
  <2>3. \A r : r \in P!Readings(s) <=> \E t \in T : r = Item(s, t[1], t[2], t[3])
    BY <2>1
  <2>4. \A r : r \in P!Readings(s) <=>
          \E x, y, z \in N : P!Reads(s, x, y, z) /\ r = Item(s, x, y, z)
    <3>1. ASSUME NEW r \in P!Readings(s)
          PROVE  \E x, y, z \in N : P!Reads(s, x, y, z) /\ r = Item(s, x, y, z)
      <4>1. PICK t \in T : r = Item(s, t[1], t[2], t[3])
        BY <2>3, <3>1
      <4>2. PICK x \in N, y \in N, z \in N : t = <<x, y, z>> /\ P!Reads(s, x, y, z)
        BY <2>2, <4>1
      <4>3. t[1] = x /\ t[2] = y /\ t[3] = z
        BY <4>2
      <4> QED
        BY <4>1, <4>2, <4>3
    <3>2. ASSUME NEW x \in N, NEW y \in N, NEW z \in N, P!Reads(s, x, y, z)
          PROVE  Item(s, x, y, z) \in P!Readings(s)
      <4>1. PICK t : t = <<x, y, z>>
        OBVIOUS
      <4>2. t \in T /\ t[1] = x /\ t[2] = y /\ t[3] = z
        BY <2>2, <3>2, <4>1
      <4> QED
        BY <2>3, <4>2
    <3> QED
      BY <3>1, <3>2
  <2> QED
    BY <2>4 DEF N
<1> HIDE DEF b, e, l, p
<1>7. P!Readings(s) = IF Parses(s, b, e, l) THEN {Item(s, b, e, v)} ELSE {}
  <2> HIDE DEF v
  <2> QED
    BY <1>3, <1>4, <1>6
<1>8. CASE ~Parses(s, b, e, l)
  <2>1. p = P!NoToken \/ p = P!Failed
    BY <1>2, <1>8
  <2>2. p.ret <= 0 /\ p.ret # 2 /\ p.value = <<>> /\ (p.ret = 0 <=> p = P!NoToken)
    BY <2>1 DEF P!NoToken, P!Failed
  <2>3. p = P!NoToken <=> b = 0 \/ s[b] = "hash"
    BY <1>2, <1>8 DEF P!NoToken, P!Failed
  <2> QED
    BY <1>1, <1>7, <1>8, <2>2, <2>3 DEF p
<1>9. CASE Parses(s, b, e, l)
  <2>1. /\ p.ret = (IF l = 0 THEN 1 ELSE 2) /\ p.name = SubSeq(s, b, e - 1)
        /\ p.value = IF l = 0 THEN <<>> ELSE SubSeq(s, e + 1, l)
    BY <1>2, <1>5, <1>9
  <2>2. SubSeq(s, e + 1, v) = p.value /\ (l # 0 <=> p.value # <<>>)
    <3>1. CASE l = 0
      BY <1>3, <1>9, <2>1, <3>1
    <3>2. CASE l # 0
      <4>1. e + 1 <= l /\ l \in Nat /\ e \in Nat /\ l <= Len(s)
        BY <1>3, <1>9, <3>2
      <4>2. Len(SubSeq(s, e + 1, l)) # 0
        BY <4>1
      <4>3. SubSeq(s, e + 1, l) # <<>>
        <5>1. PICK value : value = SubSeq(s, e + 1, l)
          OBVIOUS
        <5>2. Len(value) # 0
          BY <4>2, <5>1
        <5>3. Len(<<>>) = 0
          OBVIOUS
        <5>4. value # <<>>
          BY <5>2, <5>3
        <5> QED
          BY <5>1, <5>4
      <4> QED
        BY <2>1, <3>2, <4>3 DEF v
    <3> QED
      BY <3>1, <3>2
  <2>3. Item(s, b, e, v) = [name |-> p.name, value |-> p.value]
    BY <2>1, <2>2 DEF Item
  <2>4. ~(p.ret <= 0) /\ p.ret # 0 /\ (p.ret = 2 <=> p.value # <<>>)
    BY <2>1, <2>2
  <2> QED
    BY <1>1, <1>5, <1>7, <1>9, <2>3, <2>4 DEF p
<1> QED
  BY <1>8, <1>9

LEMMA SystemLine == SystemSpec => [](line \in Seq(P!Char))
<1>1. SystemInit => line \in Seq(P!Char)
  BY DEF SystemInit, P!Init
<1>2. line \in Seq(P!Char) /\ [SystemNext]_<<component, vars, configVars, line>> =>
        (line \in Seq(P!Char))'
  <2> SUFFICES ASSUME line \in Seq(P!Char),
                      [SystemNext]_<<component, vars, configVars, line>>
               PROVE  line' \in Seq(P!Char)
    OBVIOUS
  <2>1. CASE line' = line
    BY <2>1
  <2>2. CASE P!Next
    <3>1. PICK c \in P!Char : line' = Append(line, c)
      BY <2>2 DEF P!Next
    <3> QED
      BY <3>1
  <2> QED
    BY <2>1, <2>2 DEF SystemNext, LogStep, ConfigStep, LineStep
<1> QED
  BY <1>1, <1>2, PTL DEF SystemSpec

\* A line is skipped, read as its one reading, or refused, as sconfig.h says:
\* for lines of any length.
THEOREM ReadAsDocumentedHolds == SystemSpec => []ReadAsDocumented
<1>1. line \in Seq(P!Char) => ReadAsDocumented
  BY LineRead DEF ReadAsDocumented, P!ReadAsDocumented
<1> QED
  BY <1>1, SystemLine, PTL

-----------------------------------------------------------------------------
(* Reading numbers. *)

\* Multiples of the modulus fall off.
LEMMA Falls ==
  ASSUME NEW m \in Nat \ {0}, NEW x \in 0..m - 1, NEW d \in Int
  PROVE  (x + d * m) % m = x
<1>1. PICK a : a = d * m
  OBVIOUS
<1>2. a \in Int /\ x + a \in Int
  BY <1>1
<1>3. PICK q \in Int, r \in 0..m - 1 : x + a = q * m + r /\ r = (x + a) % m
  <2>1. PICK z : z = x + a
    OBVIOUS
  <2>2. z \in Int
    BY <1>2, <2>1
  <2>3. z = (z \div m) * m + (z % m) /\ z \div m \in Int /\ z % m \in 0..m - 1
    BY <2>2
  <2> QED
    BY <2>1, <2>3
<1>4. (q - d) * m = x - r
  BY <1>1, <1>3
<1>5. PICK t : t = q - d
  OBVIOUS
<1>6. t \in Int /\ t * m = x - r
  BY <1>4, <1>5
<1>7. ~(t >= 1)
  <2> SUFFICES ASSUME t >= 1 PROVE FALSE
    OBVIOUS
  <2>1. t * m >= m
    BY <1>6
  <2> QED
    BY <1>6, <2>1
<1>8. ~(t <= -1)
  <2> SUFFICES ASSUME t <= -1 PROVE FALSE
    OBVIOUS
  <2>1. t * m <= -m
    BY <1>6
  <2> QED
    BY <1>6, <2>1
<1>9. t = 0
  BY <1>6, <1>7, <1>8
<1>10. t * m = 0
  BY <1>9
<1>11. x = r
  BY <1>6, <1>10
<1> QED
  BY <1>1, <1>3, <1>11

\* A number and its two's complement.
LEMMA CutIs ==
  ASSUME NEW half \in Nat \ {0}, NEW v \in Int
  PROVE  /\ v \in 0..2 * half - 1 => C!Truncated(v, half) = v
         /\ v < 0 /\ v >= -(2 * half) => C!Truncated(v, half) = v + 2 * half
<1>1. PICK m : m = 2 * half
  OBVIOUS
<1>2. m \in Nat \ {0} /\ C!Truncated(v, half) = v % m
  BY <1>1 DEF C!Truncated
<1>3. v \in 0..m - 1 => v % m = v
  BY <1>2
<1>4. ASSUME v < 0, v >= -m PROVE v % m = v + m
  <2>1. v + m \in 0..m - 1 /\ (v + m) + (-1) * m = v
    BY <1>2, <1>4
  <2>2. ((v + m) + (-1) * m) % m = v + m
    BY <1>2, <2>1, Falls
  <2> QED
    BY <2>1, <2>2
<1> QED
  BY <1>1, <1>2, <1>3, <1>4

\* The lowest bits of the wide two's complement are the narrow one.
LEMMA CutAgain ==
  ASSUME NEW v \in Int, v < 0, v >= -IntHalf
  PROVE  C!Truncated(v + 2 * LongHalf, IntHalf) = v + 2 * IntHalf
<1>1. /\ IntHalf \in Nat \ {0} /\ LongHalf \in Nat \ {0}
      /\ \E c \in 1..LongHalf : LongHalf = c * IntHalf
  BY ConfigAssumption DEF ConfigAssumption, C!ConfigAssumption
<1>2. PICK c \in 1..LongHalf : LongHalf = c * IntHalf
  BY <1>1
<1>3. PICK m : m = 2 * IntHalf
  OBVIOUS
<1>4. m \in Nat \ {0} /\ v + m \in 0..m - 1 /\ c - 1 \in Int
  BY <1>1, <1>2, <1>3
<1>5. v + 2 * LongHalf = (v + m) + (c - 1) * m
  <2>1. 2 * LongHalf = c * m
    BY <1>1, <1>2, <1>3
  <2>2. c * m = m + (c - 1) * m
    BY <1>4
  <2> QED
    BY <1>1, <1>4, <2>1, <2>2
<1>6. ((v + m) + (c - 1) * m) % m = v + m
  BY <1>4, Falls
<1> QED
  BY <1>3, <1>5, <1>6 DEF C!Truncated

LEMMA NumberRead ==
  ASSUME NEW v \in Int
  PROVE  /\ v \in -IntHalf..IntHalf - 1 =>
              /\ C!sconfig_read_int32(v) = v
              /\ C!sconfig_read_uint32(v) = IF v < 0 THEN v + 2 * IntHalf ELSE v
         /\ v \in 0..2 * IntHalf - 1 => C!sconfig_read_uint32(v) = v
         /\ v \in -LongHalf..LongHalf - 1 =>
              /\ C!sconfig_read_int64(v) = v
              /\ C!sconfig_read_uint64(v) = IF v < 0 THEN v + 2 * LongHalf ELSE v
         /\ v \in 0..2 * LongHalf - 1 => C!sconfig_read_uint64(v) = v
<1>1. /\ IntHalf \in Nat \ {0} /\ LongHalf \in Nat \ {0} /\ IntHalf <= LongHalf
  <2>1. /\ IntHalf \in Nat \ {0} /\ LongHalf \in Nat \ {0}
        /\ \E c \in 1..LongHalf : LongHalf = c * IntHalf
    BY ConfigAssumption DEF ConfigAssumption, C!ConfigAssumption
  <2>2. PICK c \in 1..LongHalf : LongHalf = c * IntHalf
    BY <2>1
  <2>3. c * IntHalf >= IntHalf
    BY <2>1
  <2> QED
    BY <2>1, <2>2, <2>3
<1>2. v \in 0..2 * LongHalf - 1 => C!Strtoul(v) = v
  BY <1>1, CutIs DEF C!Strtoul
<1>3. v < 0 /\ v >= -LongHalf => C!Strtoul(v) = v + 2 * LongHalf
  BY <1>1, CutIs DEF C!Strtoul
<1>4. v \in -LongHalf..LongHalf - 1 => C!Strtol(v) = v
  BY <1>1 DEF C!Strtol, C!Clamped
<1>5. v \in 0..2 * IntHalf - 1 => C!sconfig_read_uint32(v) = v
  <2> SUFFICES ASSUME v \in 0..2 * IntHalf - 1 PROVE C!sconfig_read_uint32(v) = v
    OBVIOUS
  <2>1. C!Strtoul(v) = v
    BY <1>1, <1>2
  <2>2. C!Truncated(v, IntHalf) = v
    BY <1>1, CutIs
  <2> QED
    BY <2>1, <2>2 DEF C!sconfig_read_uint32
<1>6. v < 0 /\ v >= -IntHalf => C!sconfig_read_uint32(v) = v + 2 * IntHalf
  <2> SUFFICES ASSUME v < 0, v >= -IntHalf PROVE C!sconfig_read_uint32(v) = v + 2 * IntHalf
    OBVIOUS
  <2>1. C!Strtoul(v) = v + 2 * LongHalf
    BY <1>1, <1>3
  <2> QED
    BY <2>1, CutAgain DEF C!sconfig_read_uint32
<1>7. v \in -IntHalf..IntHalf - 1 => C!sconfig_read_int32(v) = v
  <2> SUFFICES ASSUME v \in -IntHalf..IntHalf - 1 PROVE C!sconfig_read_int32(v) = v
    OBVIOUS
  <2>1. C!Strtol(v) = v
    BY <1>1, <1>4
  <2>2. C!Truncated(v, IntHalf) = IF v < 0 THEN v + 2 * IntHalf ELSE v
    BY <1>1, CutIs
  <2>3. C!Signed(IF v < 0 THEN v + 2 * IntHalf ELSE v, IntHalf) = v
    BY <1>1 DEF C!Signed
  <2> QED
    BY <2>1, <2>2, <2>3 DEF C!sconfig_read_int32
<1> QED
  BY <1>1, <1>2, <1>3, <1>4, <1>5, <1>6, <1>7 DEF C!sconfig_read_int64, C!sconfig_read_uint64

-----------------------------------------------------------------------------
(* The configuration. *)

\* What is loaded is what the loop inserted from one file of which it met the
\* end; an iterator is on a name, and behind it is what was handed out.
Contents ==
  items # None =>
    /\ loaded \in C!File /\ C!Eof(loaded)
    /\ items = C!Table(C!Inserted(loaded))

ConfigIInv ==
  /\ C!TypeOK /\ Contents /\ C!IterationOfOne
  /\ items = None => iterator = None /\ handed = {}
  /\ iterator # None => iterator \in DOMAIN items

LEMMA ConfigConstants == Name \subseteq Nat /\ None \notin Int /\ None \notin Name
<1>1. Name \subseteq Nat /\ None \notin Int
  BY ConfigAssumption DEF ConfigAssumption, C!ConfigAssumption
<1>2. None \notin Nat
  BY <1>1
<1> QED
  BY <1>1, <1>2

LEMMA ConfigMin ==
  ASSUME NEW A \in SUBSET Nat, A # {}
  PROVE  C!Min(A) \in A /\ \A y \in A : C!Min(A) <= y
<1>1. \E x \in A : \A y \in A : x <= y
  BY Lowest
<1> QED
  BY <1>1 DEF C!Min

LEMMA TableType ==
  ASSUME NEW S \in SUBSET C!Item
  PROVE  C!Table(S) \in UNION {[N -> Value] : N \in SUBSET Name}
<1> DEFINE N == {p[1] : p \in S}
<1>1. N \in SUBSET Name
  BY DEF C!Item
<1>2. \A n \in N : (CHOOSE p \in S : p[1] = n)[2] \in Value
  <2> SUFFICES ASSUME NEW n \in N PROVE (CHOOSE p \in S : p[1] = n)[2] \in Value
    OBVIOUS
  <2>1. \E p \in S : p[1] = n
    OBVIOUS
  <2>2. (CHOOSE p \in S : p[1] = n) \in S
    BY <2>1
  <2>3. \A p \in C!Item : p[2] \in Value
    BY DEF C!Item
  <2> QED
    BY <2>2, <2>3
<1>3. C!Table(S) \in [N -> Value]
  BY <1>2 DEF C!Table
<1> QED
  BY <1>1, <1>3

\* The pairs of a table.
LEMMA PairsAre ==
  \A q : q \in C!Pairs <=> \E n \in DOMAIN items : q = <<n, items[n]>>
BY DEF C!Pairs

LEMMA PairsType ==
  ASSUME items \in UNION {[N -> Value] : N \in SUBSET Name}
  PROVE  DOMAIN items \subseteq Name /\ C!Pairs \subseteq C!Item
<1>1. PICK N \in SUBSET Name : items \in [N -> Value]
  OBVIOUS
<1>2. \A n \in DOMAIN items : <<n, items[n]>> \in C!Item
  BY <1>1 DEF C!Item
<1> QED
  BY <1>1, <1>2, PairsAre

\* A table of which each name is there once has the pairs it was made of.
LEMMA TablePairs ==
  ASSUME NEW S \in SUBSET C!Item, items = C!Table(S),
         \A p, q \in S : p[1] = q[1] => p = q
  PROVE  C!Pairs = S
<1>1. \A p \in S : p = <<p[1], p[2]>>
  BY DEF C!Item
<1>2. DOMAIN items = {p[1] : p \in S}
  BY DEF C!Table
<1>3. \A p \in S : items[p[1]] = p[2]
  <2> SUFFICES ASSUME NEW p \in S PROVE items[p[1]] = p[2]
    OBVIOUS
  <2>1. items[p[1]] = (CHOOSE q \in S : q[1] = p[1])[2]
    BY DEF C!Table
  <2>2. (CHOOSE q \in S : q[1] = p[1]) = p
    OBVIOUS
  <2> QED
    BY <2>1, <2>2
<1>4. \A q : q \in C!Pairs <=> \E p \in S : q = <<p[1], items[p[1]]>>
  BY <1>2, PairsAre
<1>5. \A q : q \in C!Pairs <=> \E p \in S : q = p
  BY <1>1, <1>3, <1>4
<1> QED
  BY <1>5

\* A file that ends with a newline is read without a break.
LEMMA WholeIsLoaded ==
  ASSUME ConfigIInv
  PROVE  C!LoadedWhole
<1> SUFFICES ASSUME items # None, loaded.terminated
             PROVE  /\ C!Pairs = C!Read(loaded) \cap C!Item
                    /\ C!Read(loaded) \subseteq C!Item \cup {<<"blank">>}
                    /\ \A i, j \in 1..Len(loaded.lines) :
                         i # j /\ {loaded.lines[i], loaded.lines[j]} \subseteq C!Item =>
                           loaded.lines[i][1] # loaded.lines[j][1]
  BY DEF C!LoadedWhole
<1> DEFINE D == 1..Len(loaded.lines)
           S == C!Read(loaded) \cap C!Item
<1>1. /\ loaded \in C!File /\ C!Eof(loaded)
      /\ items = C!Table(C!Inserted(loaded))
  BY DEF ConfigIInv, Contents
<1>2. Len(loaded.lines) \in Nat /\ \A i \in D : loaded.lines[i] \in C!Line
  <2>1. PICK n \in 0..MaxLines : loaded.lines \in [1..n -> C!Line]
    BY <1>1 DEF C!File, C!Lines
  <2>2. n \in Nat /\ loaded.lines \in Seq(C!Line)
    BY <2>1
  <2> QED
    BY <2>2
<1>3. C!Breaks(loaded) = {}
  BY <1>1 DEF C!Eof, C!Cut
<1>4. \A i \in D : /\ loaded.lines[i] \notin {<<"bad">>, <<"long">>}
                   /\ ~C!Repeats(loaded, i)
  BY <1>3 DEF C!Breaks
<1>5. C!Inserted(loaded) = S
  BY <1>3 DEF C!Inserted, C!Upto, C!Read
<1>6. C!Read(loaded) \subseteq C!Item \cup {<<"blank">>}
  BY <1>2, <1>4 DEF C!Read, C!Line
<1>7. ASSUME NEW i \in D, NEW j \in D, i # j, loaded.lines[i] \in C!Item,
             loaded.lines[j] \in C!Item
      PROVE  loaded.lines[i][1] # loaded.lines[j][1]
  <2>1. i \in Nat /\ j \in Nat
    BY <1>2
  <2>2. CASE i < j
    <3>1. i \in 1..j - 1
      BY <1>2, <2>1, <2>2
    <3> QED
      BY <1>4, <1>7, <3>1 DEF C!Repeats
  <2>3. CASE j < i
    <3>1. j \in 1..i - 1
      BY <1>2, <2>1, <2>3
    <3> QED
      BY <1>4, <1>7, <3>1 DEF C!Repeats
  <2> QED
    BY <1>7, <2>1, <2>2, <2>3
<1>8. \A p, q \in S : p[1] = q[1] => p = q
  BY <1>7 DEF C!Read
<1>9. C!Pairs = S
  <2>1. S \in SUBSET C!Item
    OBVIOUS
  <2> HIDE DEF S
  <2> QED
    BY <1>1, <1>5, <1>8, <2>1, TablePairs
<1> QED
  BY <1>6, <1>7, <1>9

LEMMA ConfigInit == C!Init => ConfigIInv
BY DEF C!Init, ConfigIInv, C!TypeOK, Contents, C!IterationOfOne

\* A list takes the place of another, or of none.
LEMMA LoadIs ==
  ASSUME ConfigIInv, C!Loads, items' = C!Table(C!Inserted(disk)), loaded' = disk,
         disk' = disk, iterator' = None, handed' = {}
  PROVE  ConfigIInv'
<1>1. disk \in C!File /\ C!Eof(disk)
  BY DEF ConfigIInv, C!TypeOK, C!Loads
<1>2. C!Inserted(disk) \in SUBSET C!Item
  BY DEF C!Inserted
<1>3. items' \in UNION {[N -> Value] : N \in SUBSET Name}
  BY <1>2, TableType
<1>4. C!TypeOK'
  BY <1>1, <1>3 DEF C!TypeOK
<1>5. Contents'
  BY <1>1 DEF Contents
<1> QED
  BY <1>4, <1>5 DEF ConfigIInv, C!IterationOfOne

\* The iterator moves on a list that stays.
LEMMA StepIs ==
  ASSUME ConfigIInv, items # None, UNCHANGED <<disk, items, loaded>>,
         NEW seen \in SUBSET Name, handed' = {p \in C!Pairs : p[1] \in seen},
         iterator' = C!Following(seen),
         \A m \in seen, n \in DOMAIN items : n <= m => n \in seen
  PROVE  ConfigIInv'
<1>1. /\ items \in UNION {[N -> Value] : N \in SUBSET Name}
      /\ C!Pairs' = C!Pairs
  BY DEF ConfigIInv, C!TypeOK, C!Pairs
<1>2. DOMAIN items \subseteq Name /\ C!Pairs \subseteq C!Item /\ Name \subseteq Nat
  BY <1>1, PairsType, ConfigConstants
<1> DEFINE rest == DOMAIN items \ seen
<1>3. \A q \in C!Pairs : q[1] \in DOMAIN items
  BY PairsAre
<1>4. CASE rest = {}
  <2>1. iterator' = None
    BY <1>4 DEF C!Following
  <2>2. handed' = C!Pairs
    BY <1>3, <1>4
  <2>3. C!TypeOK' /\ Contents'
    BY <1>1, <1>2, <2>1, <2>2 DEF ConfigIInv, C!TypeOK, Contents
  <2> QED
    BY <1>1, <2>1, <2>2, <2>3 DEF ConfigIInv, C!IterationOfOne
<1>5. CASE rest # {}
  <2>1. iterator' = C!Min(rest)
    BY <1>5 DEF C!Following
  <2>2. iterator' \in rest /\ \A n \in rest : iterator' <= n
    BY <1>2, <1>5, <2>1, ConfigMin
  <2>3. iterator' \in DOMAIN items /\ iterator' \in Name /\ iterator' # None
    BY <1>2, <2>2, ConfigConstants
  <2>4. \A n \in DOMAIN items : n < iterator' <=> n \in seen
    <3> SUFFICES ASSUME NEW n \in DOMAIN items PROVE n < iterator' <=> n \in seen
      OBVIOUS
    <3>1. n \in Nat /\ iterator' \in Nat /\ iterator' \notin seen
      BY <1>2, <2>2, <2>3
    <3>2. n \notin seen => iterator' <= n
      BY <2>2
    <3>3. n \in seen => ~(iterator' <= n)
      BY <2>3, <3>1
    <3> QED
      BY <3>1, <3>2, <3>3
  <2>5. handed' = {p \in C!Pairs : p[1] < iterator'}
    BY <1>3, <2>4
  <2>6. C!TypeOK' /\ Contents'
    BY <1>1, <1>2, <2>3, <2>5 DEF ConfigIInv, C!TypeOK, Contents
  <2> QED
    BY <1>1, <2>3, <2>5, <2>6 DEF ConfigIInv, C!IterationOfOne
<1> QED
  BY <1>4, <1>5

LEMMA ConfigNext == ConfigIInv /\ [C!Next]_(C!vars) => ConfigIInv'
<1> SUFFICES ASSUME ConfigIInv, [C!Next]_(C!vars) PROVE ConfigIInv'
  OBVIOUS
<1>1. CASE C!Edit
  <2>1. disk' \in C!File \cup {None} /\ UNCHANGED <<items, iterator, loaded, handed>>
    BY <1>1 DEF C!Edit
  <2>2. C!TypeOK' /\ Contents' /\ C!IterationOfOne'
    BY <2>1 DEF ConfigIInv, C!TypeOK, Contents, C!IterationOfOne, C!Pairs
  <2> QED
    BY <2>1, <2>2 DEF ConfigIInv
<1>2. CASE C!New
  BY <1>2, LoadIs DEF C!New, ConfigIInv
<1>3. CASE C!Reload
  BY <1>3, LoadIs DEF C!Reload
<1>4. CASE C!Free
  BY <1>4 DEF C!Free, ConfigIInv, C!TypeOK, Contents, C!IterationOfOne
<1>5. CASE C!BeginIterate
  <2>1. /\ items # None /\ iterator' = C!Following({}) /\ handed' = {}
        /\ UNCHANGED <<disk, items, loaded>>
    BY <1>5 DEF C!BeginIterate
  <2>2. handed' = {p \in C!Pairs : p[1] \in {}}
    BY <2>1
  <2> QED
    BY <2>1, <2>2, StepIs
<1>6. CASE C!Iterate
  <2>1. /\ iterator # None /\ handed' = handed \cup {<<iterator, items[iterator]>>}
        /\ iterator' = C!Following({n \in DOMAIN items : n <= iterator})
        /\ UNCHANGED <<disk, items, loaded>>
    BY <1>6 DEF C!Iterate
  <2> DEFINE seen == {n \in DOMAIN items : n <= iterator}
  <2>2. /\ items # None /\ iterator \in DOMAIN items
        /\ handed = {p \in C!Pairs : p[1] < iterator}
        /\ items \in UNION {[N -> Value] : N \in SUBSET Name}
    BY <2>1 DEF ConfigIInv, C!IterationOfOne, C!TypeOK
  <2>3. DOMAIN items \subseteq Name /\ Name \subseteq Nat
    BY <2>2, PairsType, ConfigConstants
  <2>4. handed' = {p \in C!Pairs : p[1] \in seen}
    <3>1. \A n \in DOMAIN items : n \in seen <=> n < iterator \/ n = iterator
      <4>1. \A n \in DOMAIN items : n \in Nat
        BY <2>3
      <4>2. \A n \in DOMAIN items : n \in seen <=> n <= iterator
        OBVIOUS
      <4> HIDE DEF seen
      <4> QED
        BY <2>2, <4>1, <4>2
    <3>2. \A q \in C!Pairs : /\ q[1] \in DOMAIN items
                             /\ q = <<iterator, items[iterator]>> <=> q[1] = iterator
      BY PairsAre
    <3>3. <<iterator, items[iterator]>> \in C!Pairs
      BY <2>2, PairsAre
    <3> HIDE DEF seen
    <3> QED
      BY <2>1, <2>2, <3>1, <3>2, <3>3
  <2>5. seen \in SUBSET Name /\ \A m \in seen, n \in DOMAIN items : n <= m => n \in seen
    <3>1. \A n \in DOMAIN items : n \in Nat
      BY <2>3
    <3>2. seen \subseteq DOMAIN items /\ \A n \in DOMAIN items : n \in seen <=> n <= iterator
      OBVIOUS
    <3> HIDE DEF seen
    <3> QED
      BY <2>2, <2>3, <3>1, <3>2
  <2>6. iterator' = C!Following(seen)
    BY <2>1
  <2> HIDE DEF seen
  <2> QED
    BY <2>1, <2>2, <2>4, <2>5, <2>6, StepIs
<1>7. CASE C!EndIterate
  BY <1>7 DEF C!EndIterate, ConfigIInv, C!TypeOK, Contents, C!IterationOfOne, C!Pairs
<1>8. CASE UNCHANGED C!vars
  <2>1. UNCHANGED <<disk, items, iterator, loaded, handed>>
    BY <1>8 DEF C!vars
  <2>2. C!TypeOK' /\ Contents' /\ C!IterationOfOne'
    BY <2>1 DEF ConfigIInv, C!TypeOK, Contents, C!IterationOfOne, C!Pairs
  <2> QED
    BY <2>1, <2>2 DEF ConfigIInv
<1> QED
  BY <1>1, <1>2, <1>3, <1>4, <1>5, <1>6, <1>7, <1>8 DEF C!Next

LEMMA NumbersAreRead == ConfigIInv => C!NumbersRead
<1> SUFFICES ASSUME ConfigIInv, items # None, NEW n \in DOMAIN items
             PROVE  LET v == items[n]
                        Same(half, a, u) ==
                          /\ v \in -half..half - 1 => a = v /\ u = IF v < 0 THEN v + 2 * half ELSE v
                          /\ v \in 0..2 * half - 1 => u = v
                    IN /\ Same(IntHalf, C!sconfig_read_int32(v), C!sconfig_read_uint32(v))
                       /\ Same(LongHalf, C!sconfig_read_int64(v), C!sconfig_read_uint64(v))
  BY DEF C!NumbersRead
<1>1. items[n] \in Int
  <2>1. PICK N \in SUBSET Name : items \in [N -> Value]
    BY DEF ConfigIInv, C!TypeOK
  <2>2. items[n] \in Value
    BY <2>1
  <2> QED
    BY <2>2, ConfigAssumption DEF ConfigAssumption, C!ConfigAssumption
<1> QED
  BY <1>1, NumberRead

LEMMA ConfigProperties ==
  ConfigIInv => C!TypeOK /\ C!LoadedWhole /\ C!IterationOfOne /\ C!NumbersRead
BY WholeIsLoaded, NumbersAreRead DEF ConfigIInv

\* A configuration by itself is that of one file, its iteration hands out that
\* file's items in order, and numbers that fit are read as written: for files of
\* any length, any names and values and any widths of which one is a multiple of
\* the other.
THEOREM ConfigHolds ==
  C!Spec => [](C!TypeOK /\ C!LoadedWhole /\ C!IterationOfOne /\ C!NumbersRead)
<1>1. ConfigIInv /\ [C!Next]_(C!vars) => ConfigIInv'
  BY ConfigNext
<1> QED
  BY <1>1, ConfigInit, ConfigProperties, PTL DEF C!Spec

\* The same of the configuration beside the log and the lines, as TLC checks it.
THEOREM ConfigSoundHolds == SystemSpec => []ConfigSound
<1>1. SystemInit => ConfigIInv
  BY ConfigInit DEF SystemInit
<1>2. ConfigIInv /\ [SystemNext]_<<component, vars, configVars, line>> => ConfigIInv'
  <2>1. [SystemNext]_<<component, vars, configVars, line>> => [C!Next]_(C!vars)
    BY DEF SystemNext, LogStep, ConfigStep, LineStep, configVars, C!vars
  <2> QED
    BY <2>1, ConfigNext
<1>3. ConfigIInv => ConfigSound
  BY ConfigProperties DEF ConfigSound
<1> QED
  BY <1>1, <1>2, <1>3, PTL DEF SystemSpec
=============================================================================
