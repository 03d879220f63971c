------------------------------- MODULE SioRun -------------------------------
(***************************************************************************)
(* sio_run (simple_io/sio_epoll.c) in the time it takes: timers, the wait  *)
(* and the events of one round after another, and threads that hand        *)
(* requests to the one that runs the loop and wake it through the pipe.    *)
(*                                                                         *)
(* The thread of the loop takes the requests before each sio_run, as the   *)
(* programs of the library do.  Timers are kept in the order in which the  *)
(* heap serves them (modules TimerQueue and SioTimer), with the time left  *)
(* until each expires; one descriptor stands for all but the pipe.         *)
(***************************************************************************)
EXTENDS Integers, FiniteSets, SequencesExt

CONSTANTS
  Timer,
  Timeout,       \* the timeouts timers are started with
  MaxWait,       \* the longest wait, 1000 ms in the code
  Producer,      \* threads that hand over one request at a time
  PipeSize,      \* what the pipe holds
  ReadSize,      \* what a read of it takes, 1024 in the code
  MaxElapsed     \* bound: ticks while the timers of one round are served; a
                 \* timer is not told to be later than that

ASSUME RunAssumption ==
  /\ Timeout \subseteq Nat /\ MaxWait \in Nat \ {0}
  /\ PipeSize \in Nat \ {0} /\ ReadSize \in Nat \ {0}
  /\ MaxElapsed \in Nat \ {0}

VARIABLES
  at,            \* "fetch", "timers", "timer" (in the callback of one), "wait",
                 \* "events" or "event" (in the callback of one)
  heap,          \* the timers started, first to expire first
  left,          \* [Timer -> time until it expires, negative when late]
  elapsed,       \* time since _sio_timer_run read the clock
  times,         \* max_times - cur_times
  waitLeft,      \* what is left of the wait
  got,           \* descriptors with events that are not handed out yet
  ready,         \* whether the descriptor has something to read
  pipe,          \* bytes in wake_pipe
  queue,         \* threads whose request waits to be taken
  pushed         \* threads between their push and sio_wakeup

timers == <<heap, left>>
round == <<elapsed, times, waitLeft, got>>
others == <<ready, pipe, queue, pushed>>
vars == <<at, timers, round, others>>

Started(t) == t \in ToSet(heap)
Largest == CHOOSE n \in Timeout : \A m \in Timeout : m <= n

TypeOK ==
  /\ at \in {"fetch", "timers", "timer", "wait", "events", "event"}
  /\ heap \in Seq(Timer) /\ IsInjective(heap)
  /\ left \in [Timer -> (-MaxElapsed)..Largest]
  /\ \A i, j \in DOMAIN heap : i < j => left[heap[i]] <= left[heap[j]]
  /\ elapsed \in 0..MaxElapsed
  /\ times \in 0..Cardinality(Timer)
  /\ waitLeft \in 0..MaxWait
  /\ got \subseteq {"wake", "fd"}
  /\ ready \in BOOLEAN
  /\ pipe \in 0..PipeSize
  /\ queue \subseteq Producer /\ pushed \subseteq Producer

Init ==
  /\ at = "fetch"
  /\ heap = <<>> /\ left = [t \in Timer |-> 0]
  /\ elapsed = 0 /\ times = 0 /\ waitLeft = 0 /\ got = {}
  /\ ready = FALSE /\ pipe = 0 /\ queue = {} /\ pushed = {}

-----------------------------------------------------------------------------
(* Time. *)

Later(d) == IF d > -MaxElapsed THEN d - 1 ELSE d

InRun == at \in {"timers", "timer"}

Tick ==
  /\ InRun => elapsed < MaxElapsed
  /\ left' = [t \in Timer |-> IF Started(t) THEN Later(left[t]) ELSE 0]
  /\ elapsed' = IF InRun THEN elapsed + 1 ELSE 0
  /\ waitLeft' = IF waitLeft > 0 THEN waitLeft - 1 ELSE 0
  /\ UNCHANGED <<at, heap, times, got, others>>

-----------------------------------------------------------------------------
(* The user, in a callback. *)

UserRuns == at \in {"timer", "event"}

\* sio_start_timer: after the timers that expire before it, anywhere among
\* those that expire with it.
Start(t, d) ==
  /\ UserRuns /\ ~Started(t)
  /\ \E i \in 1..Len(heap) + 1 :
       /\ \A j \in DOMAIN heap : IF j < i THEN left[heap[j]] <= d ELSE d <= left[heap[j]]
       /\ heap' = InsertAt(heap, i, t)
  /\ left' = [left EXCEPT ![t] = d]
  /\ UNCHANGED <<at, round, others>>

\* sio_stop_timer.
Stop(t) ==
  /\ UserRuns
  /\ \E i \in DOMAIN heap : heap[i] = t /\ heap' = RemoveAt(heap, i)
  /\ left' = [left EXCEPT ![t] = 0]
  /\ UNCHANGED <<at, round, others>>

Return ==
  /\ UserRuns
  /\ at' = IF at = "timer" THEN "timers" ELSE "events"
  /\ UNCHANGED <<timers, round, others>>

-----------------------------------------------------------------------------
(* The thread of the loop. *)

\* It takes the requests and calls sio_run, which reads the clock.
Fetch ==
  /\ at = "fetch" /\ at' = "timers"
  /\ queue' = {} /\ pushed' = pushed
  /\ times' = Len(heap) /\ elapsed' = 0
  /\ UNCHANGED <<timers, waitLeft, got, ready, pipe>>

\* Wrong: ++cur_times < max_times.
WrongBudget == heap # <<>> /\ times > 1 /\ left[heap[1]] + elapsed <= 0

\* _sio_timer_run goes on: not more often than there were timers, and only for
\* those due when the clock was read.
Serves == heap # <<>> /\ times > 0 /\ left[heap[1]] + elapsed <= 0

\* Wrong: as often as a timer is due.
WrongTimerFires ==
  /\ at = "timers" /\ heap # <<>> /\ left[heap[1]] + elapsed <= 0
  /\ at' = "timer"
  /\ heap' = Tail(heap) /\ left' = [left EXCEPT ![heap[1]] = 0]
  /\ UNCHANGED <<elapsed, times, waitLeft, got, others>>

TimerFires ==
  /\ at = "timers" /\ Serves
  /\ at' = "timer"
  /\ heap' = Tail(heap) /\ left' = [left EXCEPT ![heap[1]] = 0]
  /\ times' = times - 1
  /\ UNCHANGED <<elapsed, waitLeft, got, others>>

\* Wrong: reckoned from the time at which _sio_timer_run read the clock.
WrongCalcTimeout ==
  IF heap = <<>> THEN MaxWait
  ELSE IF left[heap[1]] + elapsed <= 0 THEN 0
  ELSE IF left[heap[1]] + elapsed >= MaxWait THEN MaxWait ELSE left[heap[1]] + elapsed

\* _sio_calc_timeout.
CalcTimeout ==
  IF heap = <<>> THEN MaxWait
  ELSE IF left[heap[1]] <= 0 THEN 0
  ELSE IF left[heap[1]] >= MaxWait THEN MaxWait ELSE left[heap[1]]

TimersOver ==
  /\ at = "timers" /\ ~Serves
  /\ at' = "wait" /\ waitLeft' = CalcTimeout
  /\ elapsed' = 0 /\ times' = 0
  /\ UNCHANGED <<timers, got, others>>

Readable == {d \in {"wake", "fd"} : IF d = "wake" THEN pipe > 0 ELSE ready}

\* epoll_wait returns what is ready, or nothing once the time is over ...
WaitOver ==
  /\ at = "wait" /\ (Readable # {} \/ waitLeft = 0)
  /\ got' = Readable
  /\ at' = IF Readable = {} THEN "fetch" ELSE "events"
  /\ waitLeft' = 0
  /\ UNCHANGED <<timers, elapsed, times, others>>

\* ... or a signal comes.
Interrupted ==
  /\ at = "wait" /\ Readable = {}
  /\ at' = "fetch" /\ waitLeft' = 0
  /\ UNCHANGED <<timers, elapsed, times, got, others>>

\* _sio_wakeup_callback.
Drain ==
  /\ at = "events" /\ "wake" \in got
  /\ got' = got \ {"wake"}
  /\ pipe' = IF pipe > ReadSize THEN pipe - ReadSize ELSE 0
  /\ UNCHANGED <<at, timers, elapsed, times, waitLeft, ready, queue, pushed>>

\* The descriptor's callback reads it.
Event ==
  /\ at = "events" /\ "fd" \in got
  /\ got' = got \ {"fd"} /\ ready' = FALSE
  /\ at' = "event"
  /\ UNCHANGED <<timers, elapsed, times, waitLeft, pipe, queue, pushed>>

EventsOver ==
  /\ at = "events" /\ got = {} /\ at' = "fetch"
  /\ UNCHANGED <<timers, round, others>>

-----------------------------------------------------------------------------
(* Outside the thread of the loop. *)

Arrives ==
  /\ ~ready /\ ready' = TRUE
  /\ UNCHANGED <<at, timers, round, pipe, queue, pushed>>

\* A thread puts its request into the queue ...
Push(p) ==
  /\ p \notin queue /\ p \notin pushed
  /\ queue' = queue \cup {p} /\ pushed' = pushed \cup {p}
  /\ UNCHANGED <<at, timers, round, ready, pipe>>

\* Wrong: a loop that is not waiting needs no byte.
WrongWritten == IF at = "wait" /\ pipe < PipeSize THEN pipe + 1 ELSE pipe

\* The pipe takes the byte, or is full and write(2) fails: it is nonblocking.
Written == IF pipe < PipeSize THEN pipe + 1 ELSE pipe

\* ... and calls sio_wakeup.
Wakeup(p) ==
  /\ p \in pushed /\ pushed' = pushed \ {p}
  /\ pipe' = Written
  /\ UNCHANGED <<at, timers, round, ready, queue>>

-----------------------------------------------------------------------------
Run == Fetch \/ TimerFires \/ TimersOver \/ WaitOver \/ Drain \/ Event \/ EventsOver \/ Return

Next ==
  \/ Run \/ Interrupted \/ Tick \/ Arrives
  \/ \E t \in Timer : Stop(t) \/ \E d \in Timeout : Start(t, d)
  \/ \E p \in Producer : Push(p) \/ Wakeup(p)

Spec == Init /\ [][Next]_vars

\* The thread of the loop is scheduled and callbacks return.
FairSpec == Spec /\ WF_vars(Run)

-----------------------------------------------------------------------------
(* Properties. *)

\* The loop never waits for more than a poll while a request is in the queue
\* whose thread has called sio_wakeup: the byte written before the wait, while
\* events were handed out or into a full pipe is still there.
NoLostWakeup == at = "wait" /\ queue \ pushed # {} => pipe > 0

\* The loop does not sleep past the expiry of a timer, whichever was started,
\* stopped or restarted in the callbacks since the clock was read.
WakesInTime ==
  at = "wait" => \A t \in ToSet(heap) : left[t] >= 0 => waitLeft <= left[t]

\* A descriptor with something to read gets its turn though timers are
\* restarted with 0 from their own callbacks, and though the clock stands still.
DescriptorsServed == ready ~> ~ready

\* A timer that is due is served or stopped, though others are started with 0
\* all the time, provided that the clock goes on.
Overdue(t) == Started(t) /\ left[t] <= 0
TimersServed == WF_vars(Tick) => \A t \in Timer : Overdue(t) ~> ~Overdue(t)
=============================================================================
