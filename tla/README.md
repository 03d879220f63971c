# A TLA+ verification of simple_kit

simple_kit is a set of C libraries for network programs: an event loop with TCP
streams, datagrams and timers, an RPC client and server on top of it, a log for
threads and processes, and the containers they use. This directory holds TLA+
models of all of it, the TLC runs that check them, and theorems about the models
that TLAPS checks. `PROJECT.json` lists components, runs, the lines
every definition stands for, hazards, findings and theorems.

Run a check with `tlc -workers 2 -config Maps_all.cfg MCMaps.tla` (the table of
runs below names both files of each), a proof with `tlapm MapsProofs.tla`.

## The system

| Component | State | Operations | Hard part | Correct when |
|---|---|---|---|---|
| RPC client (`simple_io/sio_rpc.c:45-355`) | array of upstreams; per upstream a stream, an id counter, a table id → call, a back-off; per call a timer, an upstream, an id, a retry count | add and remove an upstream, call, release; timers of calls and upstreams; stream events | answers race with timeouts and retries, resets restart ids, users call again from callbacks | one callback per call, by its own answer or its last timeout; no socket leaks |
| RPC server (`sio_rpc.c:357-552`) | table of connections by id, table of methods, responses in users' hands | accept, parse, finish, add and remove a method, release | responses outlive connections; methods finish inside the parse loop | answers go to the connection that asked, once; no request is stranded |
| RPC messages and header (`sio_rpc.c`, `simple_head/shead.c`) | bytes on the way and in the input | encode, decode, cut messages out of a byte stream | pieces of any size, byte orders, half-written messages | messages are parsed whole, in order, none is stranded |
| event loop (`sio_epoll.c`, `sio_select.c`) | registrations, watched events, what to free after the poll; on select also descriptor sets and a table | add, del, watch, run | callbacks delete and add registrations whose events are still to be handed out | an event reaches the stream it was polled for or nobody; select does what epoll does |
| rounds of the loop (`sio_epoll.c:187-258`) | timers, the wait, the wake-up pipe | serve timers, wait, hand out events, wake up | callbacks restart timers, threads wake the loop at any time | nothing starves, no wake-up is lost, no timer is slept past |
| TCP stream (`sio_stream.c`) | type, registration, input and output buffers | listen, connect, accept, read, write, close, detach, attach | writes before the connection stands, partial writes, moving between loops | bytes leave in order; the write watch follows the output |
| datagrams (`sio_dgram.c`) | registration of a socket | open, close, read, attach, detach | callbacks close and open sockets of the same poll | events reach their socket, datagrams are read |
| byte buffer (`sio_buffer.c`) | allocation, start, end | append, reserve, erase, grow, shrink | unsigned differences at boundaries | a queue of bytes within its allocation |
| timer heap (`sio_timer.c`) | array heap, each timer with its slot | insert, remove anywhere, modify, pop | the timer that fills a freed slot may rise or sink | pops come in order of expiry |
| hash table (`simple_hash/shash.c`) | two bucket arrays, a rehash cursor, an iterator | insert, find, erase, iterate | buckets move during operations; erasing under the iterator | behaves as a set; an iteration sees each key once |
| skip list (`simple_skiplist/slist.c`) | levels of links with spans, two iterators | insert, find, erase, pop, ranks, iterate | spans across levels, erasing under iterators | a sorted set with right ranks |
| deque (`simple_deque/sdeque.c`) | doubly linked nodes | push and pop at both ends | the last node leaves by either end | a sequence |
| log (`simple_log/slog.c`) | file and lock descriptors, mutex | write, rotate, reopen, fork | two kinds of locks, fork copies both, lines are written outside both | rotations exclude each other; nobody stays on an old file |
| configuration (`simple_config/sconfig.c`) | a sorted list of items, an iterator | load, reload, read, iterate | a reload that fails, lines of any shape, 64 bits cut to 32 | one file's items, whole; lines read as documented |

The components call each other downwards only: the RPC client and server use
streams and timers, which use the loop; tables of calls, connections and methods
are hash tables, a configuration is a skip list. Upwards everything is a
callback, and a callback may call anything. That is where most hazards are: state
is read before a callback and used after it, and what was polled, parsed or
iterated over may be gone. The loop is single threaded; other threads touch it
through the pipe only. The log is the one part with threads and processes.

## Modules

`X.tla` is the model and its properties, `MCX.tla` gives TLC its constants or
puts several components into one run, a `.cfg` is one run, `XProofs.tla` has the
theorems about X. Definitions carry the names of the source where they can;
operators named `Wrong...` are plausible bugs that show each property can fail
and are used by nothing else.

* **RpcContract** is what a caller of `sio_rpc_call` is promised: a callback at
  most once, for a call that was issued, and no call dropped without it.
  **RpcClient** models `sio_rpc_client` and implements it through the mapping
  `phase`. A handler is one action up to its user callback; `at`, `cur`, `curUp`
  and `closed` are what waits on the C stack meanwhile. `Dispatch` is the choice
  of an upstream with its reconnection and the writes that may fail. `wire` is
  the other side: messages sent on the current connection that the peer has not
  answered. In `undefined` the code has used freed memory and the model stops.
* **RpcServer** models `sio_rpc_server`. The input of a connection is a sequence
  of complete requests, of which each read event moves some to the buffer; the
  partial request at the end of a buffer is left in `input`. `held` are responses
  in the hands of users. Messages are numbered so that answers can be told apart.
* **RpcWire** is one direction of a connection byte by byte, with **Shead** for
  the headers on hosts of either byte order. It is why RpcClient and RpcServer
  may take whole messages for granted, and where they may not: after a response
  of which one of the two writes failed.
* **SioLoop** is the loop: `mem`, `fdOf` and `watch` are registrations by their
  addresses, which are used again once free; `Poll`, `Pick`, `Skip`, `HandOut`,
  `LoopEnd` are the steps of `sio_run` from the poll on. **SioStream** extends it
  with streams as callbacks and users, **SioDgram** with datagram sockets; the
  `Next` of each composes both. **SioSelect** is the loop on select(2), with its
  sets and its table, and implements SioLoop.
* **SioRun** is `sio_run` as a whole in the time it takes: the timers served on
  one reading of the clock, the wait, the events, and threads that push a request
  and then write a byte to the wake-up pipe.
* **TimerQueue** is a queue that pops a timer which expires first. **SioTimer**
  is the heap with each loop iteration as a step, and implements it.
* **ByteQueue** is a queue of bytes. **SioBuffer** is the buffer with its
  allocation cell by cell, and implements it.
* **KeySet** is a set with lookups and an iteration that repeats nothing.
  **Shash** is the table and implements it. **SortedSet** adds an order and an
  iteration in each direction; **Slist** is the skip list and implements it.
  **Deque** is a sequence; **Sdeque** is the linked list and implements it.
* **Slog** has one action per system call or lock operation of a thread.
  Processes fork at any time; inodes are numbered, so a stale file has a smaller
  number. open(2) of the log file may fail at any time. Of the other calls it is
  assumed that stat(2) fails only with ENOENT and that rename(2) of a log file
  that is there succeeds: `slog.c:145` tells ENOENT from other errors and then
  looks at nothing, and `slog.c:160` and `232` do not look at what rename(2)
  returned. `WritesNotStale` and `SizeBounded` rest on this assumption: a process
  whose stat(2) fails otherwise keeps the file it has, and a file that cannot be
  renamed goes on growing.
* **Sconfig** is a configuration over its life, **SconfigLine** what one line
  says, against the rules that `sconfig.h:6-21` states. A load is one step: that
  a file is changed in place while it is being read is outside the model.

## Runs

Components that share no state share a run: `MCServer`, `MCQueues`, `MCMaps`,
`MCLoop`, `MCRun` and `MCFiles` extend one model, instantiate the others beside
it, and let each behaviour be one of one component (`component`, chosen in the
initial state). The states of a run are then the sum, not the product, of its
parts; the properties of the instantiated parts are taken together under names
of the MC module.

| Run | Shows | Bounds |
|---|---|---|
| `RpcClient_safety` (`MCRpcClient`) | tables, ids, timers, sockets and the array agree at every control point, and RpcContract is kept | 2 upstreams, 2 calls, 1 retry, rotation modulo 2, largest delay 2, penalty below 1 |
| `RpcServer_all` (`MCServer`) | answers go home, once; parsed input is never stranded; messages are parsed whole from any pieces; every call is called back and freed | server: 2 connections, 2 requests each, 2 types; wire: 2 messages, bodies of 0, 2 and 24 bytes, any byte orders; client: 1 upstream, 2 calls |
| `Queues_all` (`MCQueues`) | the buffer stays in its allocation and is a queue; the heap's indices and order hold at every step and pops are in order; the deque has no stale link | capacities from 2, shrinking at 4, 6 byte values, demands up to 5; 6 interchangeable timers, 4 expiries; 3 nodes, 2 values |
| `Maps_all` (`MCMaps`) | keys are where lookups search them while buckets move; nothing is missed or repeated; levels nest, spans and ranks are exact | 5 keys, 2 → 4 → 8 buckets; 3 keys on 3 levels |
| `Loop_all` (`MCLoop`) | events reach their stream, registrations agree, bytes are in order, the write watch follows connections and output; select keeps its sets in step and implements SioLoop | 2 descriptors, 3 addresses, 3 bytes; on select one descriptor above `FD_SETSIZE` |
| `SioRun_all` (`MCRun`) | no wake-up is lost, no timer slept past; descriptors, timers and datagrams are served | 2 timers, timeouts 0, 1 and 3, a longest wait of 2, 2 threads, a pipe of 1 byte; 2 sockets, 3 addresses, 2 datagrams |
| `Files_all` (`MCFiles`) | rotations exclude each other, locks have holders, no stale writes, files are bounded; configurations are whole, lines read as documented | 3 threads in 2 processes, 4 calls, 1 line per file; files of 2 lines, integers of 3 bits from 4; lines of up to 6 characters |

Why the bounds are enough. Two upstreams are the fewest with a choice, a rotation
and a slot to refill; two calls collide on ids, and one can be issued from the
callback of the other; a retry separates late answers from lost ones. A body of
24 bytes is as long as a header, so a body without its header is taken for one.
Six timers are the fewest where the last leaf, put into the slot of a removed
timer in the other subtree, has to rise; with four expiry times a parent and two
different children that both expire before it occur below the top. Four appends
of a byte double a buffer of two cells twice and reach the capacity at which it
shrinks; five bytes at once grow it by more than twice. Five keys start two
rehashes, the second with keys that collided in the first. In a skip list of
three levels a link can jump over two nodes of different heights. With three
addresses for two descriptors a closed stream's address or descriptor is in use
again within one poll. A pipe of one byte is filled by one thread of two;
timeouts lie below and above the longest wait. Four log calls let a thread of
each process check a file before any of them writes, and one more follow; six
characters are a name, a `=`, a value, a blank and a note. Ids of a connection
count up to the number of attempts that fit between resets, which calls and
retries bound; `age` and `conn_delay` stop at their largest values as in the code.

Deadlock is checked in `Queues_all`, `Maps_all` and `SioRun_all`, whose parts
never stop. The others stop rightly: calls, connections, messages and log calls
are used up, a client or server is released, or the model is at a use of freed
memory (RPC) or of a null pointer (a write to a detached stream).

Fairness. `CallCompletes`: handlers end, because user callbacks return and an
input is finite (weak fairness of the steps that end one); and a call's timer is
served when due (strong fairness, because handlers in between disable it), which
`TimersServed` shows of the loop. Nothing is assumed of the kernel or the peer.
`RequestsParsed`: handlers end, and a stream with input has its event again,
since both loops poll level-triggered. Nothing is assumed of users who hold
responses. `DescriptorsServed`, `TimersServed`, `DatagramsRead`: the thread of
the loop is scheduled and callbacks return (weak fairness of `Run`);
`TimersServed` also needs that the clock goes on, stated in the property.

### Disagreements

Five runs expect a violation; each checks a sentence of the repository.

* `RpcClient_close`: the client demo calls again from the callback; when that
  write fails, the parse loop around the callback goes on in freed memory.
* `RpcServer_remove`: a removed method stays in the table.
* `Shash_iteration`: an iteration begun during a rehash misses keys in the upper
  half of the new table. `NothingMissed` shows that any other iteration is complete.
* `Slist_ranks`: a node of the greatest height has no room for its rank.
* `Slog_overwritten`: two rotations within a microsecond overwrite an archive.

The third has a consequence for RpcClient and RpcServer: their resets
and releases iterate over tables. The models take an iteration to be complete,
which holds while a table has fewer entries than its 512 initial buckets and, by
`NothingMissed`, whenever no rehash is under way as it begins.

Met while modelling and without a run of their own:

* `sio_rpc.h:176` bounds a call by timeout × retry_times; the code allows one
  period more (`sio_rpc.c:265`): a call of RpcClient is retried `budget` times,
  that is retry_times, and waits budget + 1 periods.
* `sio_stream.h:102` lets a detached stream be written; when the socket does not
  take everything, `sio_stream.c:267` watches through a null registration. In
  SioStream `Write` then ends in `crashed`, which `Loop_all` reaches.
* A server keeps a connection of which one of the two writes of a response failed
  (`sio_rpc.c:406`); the peer is then out of step. `WireSound` holds of responses
  only with the exception `half`.
* A last line without a newline is not read (`sconfig.c:101`).

Some hazards are not on the list of `PROJECT.json`, because no property here
would catch them: `rr_stream` wraps at 2^32 and then favours an upstream once
when their number does not divide it (`sio_rpc.c:227`); a call without a usable
connection reconnects at once, whatever `conn_delay` says (241); a body length is
cut to 32 bits (108); a method that finishes on a failing connection frees the
stream whose input the parse loop reads (435), which RpcServer models by `closed`;
`test_slog.c:59` calls `slog_rotate` in a signal handler, which blocks when the
signal interrupts `slog_write`; and a clock that is set back lengthens the wait
that `sio_epoll.c:254` computes.

## What is proved

A proof module proves of each of its models `Spec => []IInv` for an inductive
invariant (`IInv`, or `SelectIInv`, `ListIInv`, `ConfigIInv`, `WireIInv` where a
module holds several), then the properties from it, for all values of the constants that satisfy the
named assumption of the model (positive sizes, `None` in no set, finiteness
where something is counted). TLC checks the same properties on the instances
above.

* **RpcClientProofs**: `TypeCorrect`, `OwnershipHolds`, `AnswersMatchHolds`,
  `FreshIdsHolds`, `CallsAreTimed`, `SocketsSound`, `ArraySoundHolds`, and
  `ContractHolds`, which is the refinement of RpcContract. `IInv` is the conjunction of the properties the safety run
  checks and of `Handler`, which ties the control point to the rest: in a parse
  loop the stream is open unless `closed`, in a callback `cur` is live, has had
  its one callback and is in no table. The others need each other. `Ownership`
  makes an entry found by an id the entry of the call that was sent with it;
  `FreshIds` keeps `Ownership` and `AnswersMatch` when a new id is given;
  `AnswersMatch` is why an answer that finds an entry finds its own. `Ownership`
  in turn bounds what a reset touches: exactly the calls that name the upstream.
  `LiveCallsAreTimed` and `Handler` give the contract: who is called back was
  live and had no callback.
* **RpcServerProofs**: `AnswersGoHomeHolds`, `OncePerRequestHolds` of the server and
  `WireSoundHolds` of RpcWire. The server's invariant adds that ids are given out in the order of the connections, so that an id
  never means another connection; that a parse loop that goes on has a stream;
  and that the numbers of a connection's requests, unparsed, held or answered,
  are different and below the count of what it received.
  On the wire, `WireIInv` says that what the reader has and what is under way are
  the messages it has not parsed, one after the other (`Laid`: `Offsets`, `Row`),
  and at most a head or a body whose other half was not written (`Rest`), and that
  the reader waits for more. The parser is a recursive function: `ParseIs` shows that
  it exists, `Found` that where a message is it is decoded as it was encoded,
  whatever the hosts' byte orders, and `ParsesAll`, from the last message
  backwards by a least counterexample, that messages one after the other are
  parsed one after the other; `Partial` and `StopsAtRest` that it stops behind
  them. The assumption of RpcWire bounds numbers and lengths of messages by a
  byte.
* **QueuesProofs**: `InBoundsHolds`, `MemoryFollowsHolds`,
  `BufferKeepsContract` of the buffer, and `QueuesSoundHolds`,
  `KeepsContractsHolds` of the three queues of `MCQueues` together. Of the buffer
  what the run checks is inductive; the work is in making room, which `Keeps`
  describes: each way of it leaves the data where the offsets say. The deque's
  invariant is the list itself: there is a sequence of distinct allocated nodes,
  as many as `num_nodes`, that runs from `front` to `back`, of which each names
  its neighbours (`Chain`). Every operation makes such a sequence from such a
  sequence, and the contents of the abstract deque are its values, although the
  model reads them off by following links (`ValuesAre`).
* **SioTimerProofs**: `IndexSoundHolds`, `HeapOrderHolds`, `HeapKeepsContract`,
  each from `TimerAssumption`. While a loop runs the order has a hole: `UpHole`
  and `DownHole` say where it may fail, and that the children of the slot follow
  its parent, which is what both ways of closing it need. The lemmas about holes
  are about expiry times by slot (`Swapped`, `Refilled`), so that timers and
  indices (`Sound`) are a matter of their own.
* **MapsProofs**: `LocatedHolds`, `SizeCountsHolds`, `TableSoundHolds`,
  `NothingMissedHolds`, `TableKeepsContract` of the table, `ListSoundHolds` and
  `ListKeepsContractHolds` of the skip list. For the table nothing is assumed of the hash function, and nothing but
  positive of the sizes. `Located` needs that the cursor stays below
  the number of buckets: a moved bucket is exactly the one whose keys `Place`
  sends to the other table from then on. For the iteration, `Iterating` says that
  what was handed out is behind the iterator and, outside a rehash, everything
  still to come is ahead; an iterator stops the rehash, so places do not change
  under it.
  For the list, `SlistAssumption` says that keys are finitely many positive
  numbers, fewer than where spans wrap. `ListIInv` adds to what the run checks
  that nodes have no links above their height (`Bare`), that the tail is the last
  key and that the iterators are on keys. A span that leads somewhere is a
  difference of positions (`Exact`), so it is the right number again after the
  wrapping of what it was computed from. The walk along a level and the search
  through the levels are recursive functions: `WalkIs` and `BeforeIs` exhibit the
  function that gives the last node before the key and its position, and show
  that no other solves the equations, because a last difference would need a
  later one. `InsertedLink` and `ErasedLink` then say which link changes on which
  level, above the height of the node included, where only spans do.
* **LoopProofs**: `EventsReachTheirStreamHolds`, `RegistrationsAgreeHolds`,
  `InOrderHolds`, `WatchesOutputHolds` of streams on the loop of epoll. The
  addition is `Polled`: an address that the poll returned is not free before the
  loop is over, so whatever is live at it is still what was polled.
  `SelectSoundHolds` is the refinement of SioLoop by SioSelect, step by step. A
  poll of select returns descriptors and finds registrations through the table,
  so that `SetsAgree` alone makes it a poll of SioLoop; the rest is that the queue
  keeps its meaning while callbacks delete and add: `Kept` says that what waits
  is not free and that only a running loop has something deleted or waiting. It
  assumes that `None` is no event, descriptor, address or entry.
* **RunProofs**: `NoLostWakeupHolds`, `WakesInTimeHolds`, `DgramEventsHolds`. `Order` (the first
  timer of the heap expires first, each is there once) survives starts, stops and
  the clock; `Announced` says that after the requests were taken nothing is read
  from the pipe before the wait is over. For datagram sockets the addition is
  that an address the poll returned is not given to another registration before
  the loop is over (`Polled`).
* **FilesProofs**: `ExclusiveHolds`, `LocksAreHeldHolds`, `WritesNotStaleHolds`,
  `SizeBoundedHolds` of the log, `ConfigHolds` (of Sconfig by itself),
  `ConfigSoundHolds` and `ReadAsDocumentedHolds` of the configuration.
  Exclusion follows from the two kinds of locks only together with the life of a
  process (`Ready`): one that is ready has its own description of the lock file,
  one that was forked has its parent's, but no thread that could use it. That a
  file is bounded is not inductive: between a thread's look at the file and its
  line others write, and a file that a process opens receives the lines that its
  threads had meant for another. `Bounded` counts, with the size, the threads that
  write to the file (`Pending`), for the file that has the name all threads that
  write at all (`Late`), and adds what a thread that looks at the file knows of
  this sum until it lets the others look (`Waits`).
  Of the configuration, the invariant says that the items are what one whole file
  inserted (`Contents`) and the iterator is on one of them. Reading a number
  assumes only that the wider type's range is a multiple of the narrower one's:
  what the two casts cut off is then a multiple of the narrower (`CutAgain`). For
  a line, the documentation's rules allow readings anywhere; `ReadsIs` shows that
  they can only be met where the loops of the parser stop (`NameBegin`, `NameEnd`,
  `LastChar`), and `ParsesReads` that there they are met.

Each proof has a lemma per action, or per group of actions that disturb the same
conjuncts. Induction over sequences is avoided: a least counterexample
(`LeastSound` in MapsProofs, `TopIsLeast` in SioTimerProofs) or a description
of every position (`Inserted`, `Removed` in RunProofs) takes its place.

Every invariant that a passing run checks has its theorem. Model-checked only:
liveness and whatever rests on fairness, which the prover does not reach, and the
five disagreements.

## Not modelled

* Contents: values, message bodies beyond their place, log texts.
* stat(2) of a log file failing other than with ENOENT, and rename(2) of one that
  is there failing (see Slog above); a configuration file edited in place during
  a load.
* Allocation failure; `sio_add` failing; `sio_stream_set` and `sio_dgram_set`;
  `slog_close` and levels; `sconfig_read_double`; objects after their `_free`.
* The times of timers in RpcClient: a timer of a live call may fire at any time.
* The network under datagrams, beyond their coming and going; what
  `sio_dgram_write` sends changes no state of the program.
* The rounds of `sio_select.c`: its timers and pipe are the code of `sio_epoll.c`,
  which SioRun models; its registrations and events are SioSelect.
* The tests and demonstration programs, which were read for what they expect.

## Plan

Every component is modelled. What is left, in order of weight:

1. `Rpc`: client and server composed over RpcWire, with lossy connections.
2. `slog_close` and the level of a log, racing with the writers.
