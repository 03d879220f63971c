-------------------------------- MODULE Slog --------------------------------
(***************************************************************************)
(* struct slog (simple_log/slog.c): threads of several processes write     *)
(* lines to one log file and rotate it.  A mutex orders the threads of a   *)
(* process, an flock on a lock file the processes; the line itself is      *)
(* written outside both.                                                   *)
(*                                                                         *)
(* Files are inodes, numbered as they are created; a line has size 1.  A   *)
(* lock belongs to an open file description, named after the process that  *)
(* opened it: a forked child shares its parent's until slog_reopen.        *)
(* open(2) on the log file may fail; on the lock file it succeeds, as does *)
(* rename(2) of a log file that is there, and stat(2) fails only when      *)
(* there is none.                                                          *)
(***************************************************************************)
EXTENDS Integers, FiniteSets

CONSTANTS
  Process, Thread,
  Root,          \* the process that called slog_open
  ProcessOf,     \* the process of a thread
  RotateSize,    \* logger->rotate_size
  Stamps,        \* bound: readings of the clock, 0..Stamps-1 microseconds
  MaxCall,       \* bound: calls of all threads, and open(2) that fail
  None

ASSUME SlogAssumption ==
  /\ Root \in Process /\ ProcessOf \in [Thread -> Process]
  /\ RotateSize \in Nat \ {0} /\ Stamps \in Nat \ {0} /\ MaxCall \in Nat
  /\ None \notin Process \cup Thread /\ IsFiniteSet(Thread)

VARIABLES
  state,         \* of a process: "none", "forked" until slog_reopen, "ready"
  mutex,         \* logger->mutex of a process: its holder
  lockfd,        \* logger->lockfd: an open file description
  flock,         \* the description that holds the flock
  fd,            \* logger->fd, which logger->fdstat describes: an inode, 0 for none
  created,       \* how many inodes there have been
  current,       \* the inode called filename, 0 if there is none
  archive,       \* the inode archived under a time stamp, 0 if there is none
  linked,        \* inodes that still have a name
  size,          \* lines in an inode
  clock,
  pc,            \* the next step of a thread
  call,          \* "write" or "rotate"
  tv,            \* the time stamp the thread read
  st,            \* the inode and size that stat returned, inode 0 for ENOENT
  floor,         \* the log file when the thread left _slog_check_file, 0 when it
                 \* could not open it
  calls,         \* calls begun
  fails          \* open(2) that failed

fileVars == <<fd, created, current, archive, linked, size>>
lockVars == <<mutex, lockfd, flock>>
threadVars == <<pc, call, tv, st, floor, calls, fails>>
vars == <<state, lockVars, fileVars, clock, threadVars>>

\* A call creates two files at most: in Refresh and in Open.
Inode == 1..(2 * MaxCall + 1)
Steps == {"idle", "lock", "flock", "stat", "refresh", "rename", "open",
          "funlock", "failed", "unlock", "append"}

Nothing == [inode |-> 0, size |-> 0]

TypeOK ==
  /\ state \in [Process -> {"none", "forked", "ready"}]
  /\ mutex \in [Process -> Thread \cup {None}]
  /\ lockfd \in [Process -> Process] /\ flock \in Process \cup {None}
  /\ fd \in [Process -> Inode \cup {0}]
  /\ \A p \in Process : state[p] # "none" => fd[p] # 0
  /\ created \in Inode
  /\ current \in Inode \cup {0} /\ archive \in [0..(Stamps - 1) -> Inode \cup {0}]
  /\ linked \subseteq Inode /\ size \in [Inode -> Nat]
  /\ clock \in 0..(Stamps - 1)
  /\ pc \in [Thread -> Steps] /\ call \in [Thread -> {"write", "rotate"}]
  /\ tv \in [Thread -> 0..(Stamps - 1)]
  /\ st \in [Thread -> [inode : Inode \cup {0}, size : Nat]]
  /\ floor \in [Thread -> Inode \cup {0}] /\ calls \in 0..MaxCall
  /\ fails \in 0..MaxCall

\* slog_open in Root; no other process exists.
Init ==
  /\ state = [p \in Process |-> IF p = Root THEN "ready" ELSE "none"]
  /\ mutex = [p \in Process |-> None]
  /\ lockfd = [p \in Process |-> Root] /\ flock = None
  /\ fd = [p \in Process |-> IF p = Root THEN 1 ELSE 0]
  /\ created = 1 /\ current = 1 /\ archive = [s \in 0..(Stamps - 1) |-> 0]
  /\ linked = {1} /\ size = [i \in Inode |-> 0]
  /\ clock = 0
  /\ pc = [t \in Thread |-> "idle"] /\ call = [t \in Thread |-> "write"]
  /\ tv = [t \in Thread |-> 0]
  /\ st = [t \in Thread |-> Nothing]
  /\ floor = [t \in Thread |-> 0] /\ calls = 0 /\ fails = 0

-----------------------------------------------------------------------------
(* slog_write and slog_rotate; what a thread remembers is forgotten when it *)
(* is of no more use.                                                       *)

Goes(t, from, to) == pc[t] = from /\ pc' = [pc EXCEPT ![t] = to]

\* The thread reads the clock, which may have advanced.
Begin(t, c) ==
  /\ state[ProcessOf[t]] = "ready" /\ calls + fails < MaxCall
  /\ Goes(t, "idle", "lock")
  /\ calls' = calls + 1
  /\ call' = [call EXCEPT ![t] = c]
  /\ clock' \in clock..(Stamps - 1)
  /\ tv' = [tv EXCEPT ![t] = clock']
  /\ UNCHANGED <<state, lockVars, fileVars, st, floor, fails>>

Lock(t) ==
  /\ Goes(t, "lock", "flock")
  /\ mutex[ProcessOf[t]] = None
  /\ mutex' = [mutex EXCEPT ![ProcessOf[t]] = t]
  /\ UNCHANGED <<state, lockfd, flock, fileVars, clock, call, tv, st, floor, calls, fails>>

\* flock(LOCK_EX): no conflict between users of one description.
Flock(t) ==
  /\ Goes(t, "flock", IF call[t] = "write" THEN "stat" ELSE "rename")
  /\ flock \in {None, lockfd[ProcessOf[t]]}
  /\ flock' = lockfd[ProcessOf[t]]
  /\ UNCHANGED <<state, mutex, lockfd, fileVars, clock, call, tv, st, floor, calls, fails>>

\* Wrong: a file that another process has replaced is not noticed.
WrongChanged(t) == FALSE

\* The file called filename is not the one that is open, or does not exist.
Changed(t) == current # fd[ProcessOf[t]]

Full(i, n) == i # 0 /\ n >= RotateSize

\* _slog_check_file looks at the file.
Stat(t) ==
  LET n == IF current = 0 THEN 0 ELSE size[current] IN
  /\ st' = [st EXCEPT ![t] = [inode |-> current, size |-> n]]
  /\ Goes(t, "stat", IF Changed(t) THEN "refresh"
                     ELSE IF Full(current, n) THEN "rename" ELSE "funlock")
  /\ UNCHANGED <<state, lockVars, fileVars, clock, call, tv, floor, calls, fails>>

\* open(O_CREAT), dup2 and fstat.
Opens(p) ==
  LET i == IF current = 0 THEN created + 1 ELSE current IN
  /\ fd' = [fd EXCEPT ![p] = i]
  /\ current' = i
  /\ created' = IF i > created THEN i ELSE created
  /\ linked' = linked \cup {i}
  /\ UNCHANGED <<archive, size>>

\* open(2) fails, for want of descriptors say, and the file stays as it is.
OpenFails ==
  /\ calls + fails < MaxCall /\ fails' = fails + 1
  /\ UNCHANGED fileVars

\* _slog_check_file opens the file that has the name now; the size is the one
\* that stat returned.
Refresh(t) ==
  LET full == Full(st[t].inode, st[t].size) IN
  /\ \/ /\ Goes(t, "refresh", IF full THEN "rename" ELSE "funlock")
        /\ Opens(ProcessOf[t]) /\ UNCHANGED fails
     \/ /\ Goes(t, "refresh", IF full THEN "rename" ELSE "failed")
        /\ OpenFails
  /\ UNCHANGED <<state, lockVars, clock, call, tv, st, floor, calls>>

\* rename(2), in _slog_check_file and _slog_force_rotate: an archive with the
\* same time stamp loses its name.  Without a file it fails, and nothing looks.
Rename(t) ==
  /\ Goes(t, "rename", "open")
  /\ \/ /\ current # 0
        /\ archive' = [archive EXCEPT ![tv[t]] = current]
        /\ linked' = linked \ {archive[tv[t]]}
        /\ current' = 0
     \/ current = 0 /\ UNCHANGED <<archive, linked, current>>
  /\ UNCHANGED <<state, lockVars, fd, created, size, clock, call, tv, st, floor, calls, fails>>

Open(t) ==
  /\ \/ Goes(t, "open", "funlock") /\ Opens(ProcessOf[t]) /\ UNCHANGED fails
     \/ Goes(t, "open", "failed") /\ OpenFails
  /\ UNCHANGED <<state, lockVars, clock, call, tv, st, floor, calls>>

\* flock(LOCK_UN).
Funlock(t) ==
  /\ Goes(t, "funlock", "unlock") \/ Goes(t, "failed", "unlock")
  /\ flock' = IF flock = lockfd[ProcessOf[t]] THEN None ELSE flock
  /\ floor' = [floor EXCEPT ![t] = IF pc[t] = "failed" THEN 0 ELSE current]
  /\ st' = [st EXCEPT ![t] = Nothing] /\ tv' = [tv EXCEPT ![t] = 0]
  /\ UNCHANGED <<state, mutex, lockfd, fileVars, clock, call, calls, fails>>

Unlock(t) ==
  /\ Goes(t, "unlock", IF call[t] = "write" THEN "append" ELSE "idle")
  /\ mutex' = [mutex EXCEPT ![ProcessOf[t]] = None]
  /\ UNCHANGED <<state, lockfd, flock, fileVars, clock, call, tv, st, floor, calls, fails>>

\* writev: O_APPEND makes it one step; an empty body writes nothing.
AppendLine(t) ==
  /\ Goes(t, "append", "idle")
  /\ \/ size' = [size EXCEPT ![fd[ProcessOf[t]]] = @ + 1]
     \/ UNCHANGED size
  /\ UNCHANGED <<state, lockVars, fd, current, created, archive, linked, clock,
                 call, tv, st, floor, calls, fails>>

-----------------------------------------------------------------------------
(* Processes, and what happens outside. *)

\* Wrong: the child keeps the mutex that its parent took for the fork.
WrongChildMutex(t) == t

\* _slog_atfork_child releases it.
ChildMutex(t) == None

\* fork() by t, which holds the mutex meanwhile.
Fork(t, p) ==
  /\ pc[t] = "idle" /\ state[ProcessOf[t]] = "ready" /\ state[p] = "none"
  /\ mutex[ProcessOf[t]] = None
  /\ state' = [state EXCEPT ![p] = "forked"]
  /\ mutex' = [mutex EXCEPT ![p] = ChildMutex(t)]
  /\ fd' = [fd EXCEPT ![p] = fd[ProcessOf[t]]]
  /\ lockfd' = [lockfd EXCEPT ![p] = lockfd[ProcessOf[t]]]
  /\ UNCHANGED <<flock, current, created, archive, linked, size, clock, threadVars>>

\* Wrong: the description stays the parent's.
WrongReopened(p) == lockfd

Reopened(p) == [lockfd EXCEPT ![p] = p]

\* slog_reopen, which a child must call before it logs (slog.h:57).
Reopen(p) ==
  /\ state[p] = "forked"
  /\ state' = [state EXCEPT ![p] = "ready"]
  /\ lockfd' = Reopened(p)
  /\ UNCHANGED <<mutex, flock, fileVars, clock, threadVars>>

\* Somebody else renames the log file.
MoveAway ==
  /\ current # 0
  /\ current' = 0
  /\ UNCHANGED <<state, lockVars, fd, created, archive, linked, size, clock, threadVars>>

-----------------------------------------------------------------------------
Step(t) ==
  \/ Lock(t) \/ Flock(t) \/ Stat(t) \/ Refresh(t) \/ Rename(t) \/ Open(t)
  \/ Funlock(t) \/ Unlock(t) \/ AppendLine(t)

Next ==
  \/ \E t \in Thread : \/ \E c \in {"write", "rotate"} : Begin(t, c)
                       \/ Step(t)
                       \/ \E p \in Process : Fork(t, p)
  \/ \E p \in Process : Reopen(p)
  \/ MoveAway

Spec == Init /\ [][Next]_vars

-----------------------------------------------------------------------------
(* Properties. *)

Critical(t) == pc[t] \in {"stat", "refresh", "rename", "open", "funlock", "failed"}

\* Whatever fork copied, one thread of all processes at a time looks at the
\* file and rotates it.
Exclusive == \A t, u \in Thread : Critical(t) /\ Critical(u) => t = u

\* A line goes to no file that had been replaced when its thread checked, by
\* whatever process: rotations never leave a process behind.  When open(2) failed
\* the process falls behind for that line and no longer: the next check tries
\* again.
WritesNotStale ==
  \A t \in Thread : pc[t] = "append" => fd[ProcessOf[t]] >= floor[t]

\* rotate_size limits a file: lines are written outside the locks, so each
\* thread may exceed it by the one line it had checked for, and a failing open(2)
\* by one more.
SizeBounded == \A i \in Inode : size[i] <= RotateSize - 1 + Cardinality(Thread) + fails

\* A lock that is taken has a holder that will release it, also in a child
\* that was forked while another thread of its parent held it: threads that
\* wait never wait for nobody.
Holding(t) == Critical(t) \/ pc[t] \in {"flock", "unlock"}

LocksAreHeld ==
  /\ \A p \in Process : mutex[p] # None => ProcessOf[mutex[p]] = p /\ Holding(mutex[p])
  /\ flock # None => \E t \in Thread : Critical(t) /\ lockfd[ProcessOf[t]] = flock

\* slog.h:57: when every child reopens the lock file no log file is
\* overwritten, so each line stays in a file that has a name.
NothingOverwritten == \A i \in Inode : size[i] > 0 => i \in linked
=============================================================================
