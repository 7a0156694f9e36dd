# Verification of EventStreamCore

TLA+ specifications of EventStreamCore (`../src`), a server that takes events
over TCP, ranks them by topic and priority, and appends them to a file. TLC
checks small instances of them; TLAPS proves some of the results for every
instance. Paths below are relative to the repository.

## 1. The system

    clients --TCP--> TcpIngestServer --tryPush--> Dispatcher --push--> EventBusMulti
                     (1 + n threads)              (1 thread)           (3 lanes)
                                                                           | pop
    file <--storeEvent-- StorageEngine <--task-- ThreadPool <--submit-- RealtimeProcessor
                                                 (n threads)            (1 thread)

`src/app/main.cpp` constructs the components, starts dispatcher, processor and
server, polls a flag that the signal handler clears, and leaves the block that
owns the components; their destructors stop them in reverse order.

| component | state | operations | what makes it correct | modelled |
|---|---|---|---|---|
| `TcpIngestServer` | flag, listening socket, accept thread, connection threads with a buffer each | `start`, `stop`, `acceptConnections`, `handleClient` | a bad frame costs only itself, or what is buffered behind it; the loop stays in step with the stream; `stop` ends every thread | by frame, and one connection by byte |
| `tcp_parser` | - | `parseFrame`, `parseTCPFrame` | inverse of the sender's format, refuses the rest | yes |
| `EventFactory` | id counter, CRC table | `createEvent` | ids repeat only after 2^32 events; a checksum that its thread can rely on | yes |
| `Dispatcher` | bounded inbound queue, flag, worker thread | `start`, `stop`, `tryPush`, `tryPop`, `Route`, `DispatchLoop` | order kept, rank respected, every accepted event settled once | yes |
| `TopicTable` | map from topic to priority | `LoadFileConfig`, `FoundTopic` | the table is what the file says; a topic caps the priority | yes |
| `EventBusMulti` | three bounded queues | `push`, `pop`, `size` | bounded, first in first out | yes |
| `RealtimeProcessor` | flag, thread, the event in hand | `start`, `stop`, `processLoop` | priority, no event lost in hand | yes |
| `ThreadPool` | task queue, mutex, condition variable, flag, threads | `submit`, `shutdown`, the worker loop | no lost wakeup, ordered queue, `shutdown` returns | yes, at two levels |
| `StorageEngine` | stream with its buffer, mutex, the file | constructor, `storeEvent`, destructor | whole records in order, at most one torn one at the end | yes, at two levels |
| `main` | flag, order of construction | construction, start, signal, destructors | the threads get what the files say, nothing used after it is destroyed, a signal ends the program | yes |
| `ConfigLoader` | - | `loadConfig` | refuses values that the rest of the program cannot use | yes |
| `EventBus` | subscribers | `subscribe`, `publishEvent` | - | no (nothing calls it) |

Shared state: the inbound queue (client threads, dispatcher), the lanes
(dispatcher, processor), the task queue (processor, workers), the file
(workers), the running flags (main, each thread), and the header of an event,
which `Route` rewrites in place.

What is hard here: a flag test and the wait that follows are not one step, every
queue can be full or be abandoned at shutdown, the processor's timed pops look
at the lanes one after the other, the pool notifies without its mutex, and
destruction runs while the threads of later stages still work. `PROJECT.json`
lists each hazard with its line and the properties aimed at it.

## 2. The modules

| module | models | atomicity |
|---|---|---|
| `Events` | `Event.hpp`: events are identities, priorities are ordered numbers | - |
| `EventBusMulti` | the lanes | each method runs under the lane's mutex: one step per outcome |
| `Dispatcher` | queue, thread, `Route`, topic lookup | one step per loop test, pop, route, push attempt |
| `EventRouting` | abstract: an ordered backlog whose head is delivered or lost | - |
| `DispatcherService` | `Dispatcher` with clients, a restarting owner and a free consumer | - |
| `TaskPool` | the pool as a queue and workers | no mutex |
| `ThreadPool` | the pool with mutex and condition variable | predicate, sleep, notify and flag are separate steps |
| `StorageEngine` | abstract: `storeEvent` writes or throws, and throws ever after | one step |
| `StorageFile` | the mutex, the stream's buffer, the file | each group of writes, the flush and the return are steps; a write may spill the buffer, and may get a part of it out, down to a piece of a group, and fail |
| `Recorder` | `StorageFile` over several processes that stop or are killed | - |
| `ConfigLoader` | `loadConfig`, as a function of what the file says | - |
| `TopicTable` | one turn of the loop that reads the topic file: what a line says, and its entry | - |
| `EventFactory` | event numbers; the CRC table and its flag as other threads see them | each store of a thread reaches the others by a step of its own |
| `Startup` | main before the threads of the pipeline start, then the first calls of `createEvent` | one step per construction, one per line of the topic file, one per thread of the pool |
| `RealtimeProcessor` | `processLoop`: each of the three pops is a step | - |
| `ProcessorService` | processor, pool workers and store with a producer and a restarting owner | - |
| `TcpIngestServer` | accept thread, connection threads, clients | recv, and each frame, is a step |
| `FrameChannel` | abstract: a connection that takes whole messages in order | - |
| `TcpFraming` | one connection thread on bytes, and the parser | recv, and each turn of the inner loop, is a step |
| `EventStreamCore` | everything, with main's phases from the first `start()` on | main's steps up to and including each join |
| `MC*` | the instances for TLC | |
| `*Proofs` | the proofs | |

An action is named after the method or the statement it stands for; a component's
program counter (`dpc`, `ppc`, `wpc[w]`, `apc`, `cpc[c]`, `mpc`) says where its
thread is. Variables keep the source's names where two components do not share
one (`isRunning` is `running`, `procRunning`, `poolRunning`, `tcpRunning`).
Sets that only record an outcome (`rejected`, `dropped`, `unparsed`, `failed`,
`discarded`) and the history variables (`overtaken`, `late`, `consumed`,
`history`, `found`, `filled`) exist for the properties; no guard reads them.

Abstractions worth knowing:

- Time: a timed wait may give up at any moment at which its predicate is false.
- The lanes' and the dispatcher's condition variables are left out, because all
  their waits have a timeout: a lost notification costs at most 100 ms there.
  The pool's wait has none, so `ThreadPool` models it in full, and
  `Implementation` shows that `TaskPool` is what it amounts to.
- A worker's `wait` reads `isRunning` without an order relative to `shutdown`'s
  store; `PredFalse` and `Block` are two steps so that the store and the
  notification can fall between them. Spurious wakeups are allowed.
- A connection is a sequence of frames; `recv` completes any number of them.
  Unread frames of a connection that is gone remain in `unsent`.
- `TcpFraming` looks at the same thread through a lens of its own: the format that a
  sender writes (`MakeFrame`, after `make_frame` in `src/test.py`) and the parser
  are separate definitions, and a body is any byte string, so most bodies that
  the constants allow are not legal ones. `Meaning` says what a body stands for from
  the sender's side alone: the event that encodes to it. The history variables
  `written`, `ends` and `taken` say which frames the stream consists of and where
  each ends; no guard but the bound on `Write` reads them. Every step of the
  thread that reads `isRunning` or the socket can also end the connection. A
  client that breaks off within a frame is not modelled: that frame is never
  complete, and the connection ends with it.
- `start` of the server can fail at `socket` (no thread) or at `bind` and
  `listen` (the thread runs and its `accept` fails for ever): both are in
  `TcpStart`.
- Exceptions: a task's and the processor's exceptions are caught. If a thread
  cannot be created, `start` throws (`DispatcherStartThrows`, `ProcStartThrows`,
  `TcpStartThrows`) and main leaves the block by the same destructors as after a
  signal; behind the block the flag is cleared. In `acceptConnections` nobody
  catches; that end of the program is left out. So is what becomes of the program when
  the system refuses a later thread of the pool: the constructor destroys running threads,
  `std::terminate` ends it, and there is nothing to state of what follows (`Startup`
  has the step to "aborted").
- `accept` may fail at any time (a connection that was aborted, no descriptor left),
  which leads back to the flag.
- `StorageFile` counts in three groups of writes per record (`Fields`). A write that
  fails may end inside one: then a piece of it (`Cut`) is in the file and stays
  there, and since the file is opened to append, what later processes write stands
  behind the piece and out of step. How long the piece is does not matter to a reader,
  who cannot find the next record by it. What a stream does that could write only a
  part of its buffer is not promised by anyone: the model lets it keep the buffer, write
  it again at a later flush or at the end, in part or whole. A killed process loses
  its buffer, but for what earlier writes have spilled of it, which may end inside a
  group, too; what the operating system has taken stays (there is no `fsync` in the
  code, and power failures are not modelled).
- `Recorder` numbers the events of a process in the order in which its threads take
  them up, so two that differ only in their names are not told apart.
- A configuration file is a function of the keys that the loader looks up; a value
  is missing, of the wrong type, or a value. The loader reads `storage.path` from
  the key `sqlite_path` and never looks at the key `path`; it reads the `enable`
  keys, and main uses none of them.
- In `EventFactory` memory is weaker than the atomics of the language but stronger
  than what a data race is allowed to do: a store is seen late and in any order,
  but it is not torn.
- `Startup` ends at "ready", which is `Init` of `EventStreamCore`. What the other
  modules assume there about the topic table and the number of workers
  (`DispatcherAssumption`, `PoolAssumption`) is what `TableIsTheFile`, `TypeOK` and
  `ReadyIsUsable` say of "ready". A signal that comes before it leaves the flag
  cleared, as one that comes right after it would.
- A variant of a definition that is marked "Variant for mutation" is not part of
  a specification. It is what `PROJECT.json` substitutes to show that a property
  can fail.

## 3. What TLC checks

| run | instance | properties |
|---|---|---|
| `dispatcher` | 3 events, every assignment of 4 kinds of frame, lanes of 1, inbound queue of 2, 2 attempts; start and stop for ever | `TypeOK`, `RoutedWithinLimits`, `RoutesInOrder` (refines `EventRouting`), `StopReturns`, `AcceptedIsSettled` |
| `thread_pool` | 2 workers, 3 tasks | `TypeOK`, `NoLostWakeup`, `AtMostOneLate`, `ImplementsTaskPool`, `SubmittedIsRun` |
| `thread_pool_shutdown` | the same | `ShutdownReturns` is violated |
| `recorder` | 2 processes, of one event and of 2, 2 threads that store; writes that fail anywhere | `TypeOK`, `TornOnlyAtEnd`, `ReadBack`, `AppendOnly`, `ImplementsEngine` (refines `StorageEngine`), `CallEnds` |
| `startup` | 119 configuration files, 18 topic files, pools of 1 to 3 threads; 3 events by 2 threads, identifiers of one bit | `TypeOK`, `ReadyIsUsable`, `TableIsTheFile`, `IdsApart`, `FillersAreRight` |
| `processor` | 4 events on 3 lanes of 2, a pool of one worker or none, restarts, failing writes | `TypeOK`, `BoundedOvertaking`, `StoredInOrder`, `RealtimeIsServed` |
| `core_one_client` | 1 client, 3 frames that ask for more than their topic allows, lanes of 1, inbound queue of 2, 2 workers | `TypeOK`, `OnePlace`, `LanesHoldTheirRank`, `LaneOrder` |
| `core_two_clients` | 2 clients, one with a frame, the other with a malformed one, a good one, an oversized one and one behind it; 1 worker | `OnePlace`, `NeighboursAreKept`, `NoUseAfterDestroy` |
| `core_liveness` | 1 client, 2 frames of any of two ranks, lanes and inbound queue of 1, 1 worker; clients leave | `AcceptedIsSettled`, `SignalReachesPool` |
| `framing` | 3 frames of 8 kinds, bodies of 0 to 8 bytes of which 6 are accepted, recv of 1 to 7 bytes | `TypeOK`, `InStep`, `BufferBounded`, `ImplementsChannel` (refines `FrameChannel`), `WrittenIsTaken` |
| `core_idle_client` | 1 client, 1 frame | `SignalStopsServer` is violated |
| `core_tasks` | 1 client, 2 frames | `TaskRunsWithProcessor` is violated |

Bounds. Queues of one or two places are full, empty and in between within a few
steps; two attempts distinguish a retry from a drop; three frames overflow every
queue on the way while the thread behind it holds one. Two workers are the
least that can sleep, run and race for a task at once. `Event` bounds the number
of frames; nothing else is bounded: restarts and retries go on for ever, and the
counters `overtaken` and `late` are finite only because the properties hold.
`CHECK_DEADLOCK FALSE` stands where the system really stops: after `exit`, or
after a shutdown.

For `framing`, three frames are the least of which one can be in front of, one
across and one behind the cut of a recv(), which reaches over a frame's end and
into the next one's length; the kinds are one per branch of the loop and of the
parser, at its boundary. `ParserAgrees`, an assumption of `MCTcpFraming` that TLC
evaluates, compares the parser with the format for all bodies of up to six bytes
with the values at which it branches, at which each topic length from none to
past the end of the body occurs.

For `core_two_clients`, five frames are the least at which each kind stands before
another one of its connection: `recv` may bring them one by one or together, so the frame
behind the oversized one is in the buffer with it or still on the way.

For `recorder`, two processes are the least of which one finds what the other left,
a torn record or a piece of one among it; one event is enough for that, two in the
second process the least of which one comes behind a failure, and two threads the
least that can mix their writes. For `startup`, the configuration files differ from
the one in the repository in one key, or in two that are validated together, at
each boundary of a test in `loadConfig`; three events are one more than there are
identifiers. `LineAgrees`, an assumption of `MCStartup` that TLC evaluates, compares the loader's
reading of a line (`EntryOf`) with the format that `topics.conf` gives (`Says`), for all
lines of up to five tokens; `LineIsRead` (section 4) is the same for every line.

`StoredInOrder` is about at most one worker, which is the hypothesis of its theorem
as well (`SingleWorker`). With two the code does not keep the order of a lane in the
file; `LaneOrder` therefore ends at the task queue.

### Fairness

Weak fairness of each thread's own steps: the operating system runs a thread
that can run, and a timed wait ends. A join is owed once the thread has returned.
`accept` is owed an end if there is a connection to return or no socket to wait on
(`AcceptOwed`), and not for a failure that may come but need not.
Nothing is owed by clients, by the owner's calls, by whoever sends a signal, or
by a consumer outside the model. `TcpFraming` adds that the network delivers what has
been written while the thread asks for it (`Delivery`). `ClientsLeave` adds, for `core_liveness` only,
that a client closes its connection sooner or later. In `EventStreamCore` a
worker that waits while the pool stops is not owed its return (`Returning`),
since its wakeup can be lost; `SignalReachesPool` therefore ends at the pool.

### Disagreements with what the code says of itself

1. `ThreadPool::shutdown` ("Stop all threads and clear the task queue") stores
   the flag and notifies without the mutex. A worker that has just found the
   queue empty and the flag set goes to sleep afterwards and is never woken;
   `join` hangs (`thread_pool_shutdown`). Taking the mutex around the store
   closes the gap.
2. "Press Ctrl+C to shutdown": `TcpIngestServer::stop` joins connection threads
   that sit in `recv`, and nothing closes their sockets. The server runs, main polls,
   a client has connected, the signal comes, and main waits for the client's thread for
   good: one silent client suffices (`core_idle_client`; `SignalStopsServer` asks only
   about a signal that meets main in its polling loop). If clients leave, the
   program gets past it (`core_liveness`).
3. A task captures the processor (`[evtPtr, this]`), and main destroys the
   processor before the pool. A task that is queued or running at that moment
   uses a destroyed object (`core_tasks`). `NoUseAfterDestroy` is about the
   other uses, those by a component's own threads.

Three more that the properties state as they are in the code:

- `processLoop` says REALTIME > TRANSACTIONAL > BATCH, but an event that comes in
  while the thread waits in a lower lane's pop is overtaken, by one event and no
  more (`BoundedOvertaking`).
- After a torn record, even if only a few bytes of its first number got out, the file
  goes on with whole ones, written by the next process, whose `storeEvent` returns; but
  they are shifted, and a record has no mark to find it by, so a reader stops at the
  torn one. `ReadBack` ends there.
- A thread that finds the CRC table's flag set by another may read entries that
  are not there yet; `FillersAreRight` is about the other threads only. Nothing
  in the program reads the checksum.

## 4. What is proved

For every value of the constants that satisfies the named assumptions
(`EventAssumption`, `BusAssumption`, `DispatcherAssumption`, `TcpAssumption`,
`RankAssumption`, `PoolAssumption`, `FramingAssumption`, `StorerAssumption`,
`RecorderAssumption`, `FactoryAssumption`, `TopicFileAssumption`, `StartupAssumption`).
What `Dispatcher` and `RealtimeProcessor` are shown to keep, whatever they are
composed with, and what is shown of the order of events in a row of queues, is in
`PipelineProofs`. It extends both components, so the three modules that extend it
carry the constants of both, and their assumptions where a lemma needs them.

`ThreadPoolProofs`
- `TypeCorrect`.
- `WakeupsAreNotLost`, `ShutdownBoundsWork`. Neither property is inductive. `IInv`
  adds that the mutex is held exactly by a worker that evaluates the predicate
  or is about to sleep (`MutualExclusion`), that the queue is empty when a
  worker is about to sleep (`SleepsOnEmptyQueue`: so a task that comes in
  after the sleep has a submitter that will notify), and that a worker that has
  run a task after the flag was cleared does not come back to the queue
  (`LateDoesNotReturn`).
- `Implementation`: under the mapping of `Abstract` each step of `ThreadPool` is a
  step of `TaskPool` or a stutter. It needs type correctness only.

`ProcessorServiceProofs` (with `PipelineProofs`)
- `TypeCorrect`.
- `OvertakingIsBounded`. The strengthening says where the thread is when a lane
  has been overtaken: after an overtaking it goes back to the first pop, so a
  lane that is occupied is served, or an even higher one is, before a lower one
  is looked at.
- `FileKeepsOrder`, for a pool of one worker or none. From the lanes to the file the
  events stand in a row of queues; `Ahead(s, x, y)` says that x stands before y
  somewhere in the row s, which survives an event's going to the next queue, and its
  leaving the row from the middle when its task fails (`OneInTheMiddle`). `OrderKept`
  adds that nothing is produced twice, and that a processor without a pool has
  nothing between its hand and the file; `LanesHoldRank` that a pop takes the first
  event of its own lane. With two workers the row has no single next queue.

`DispatcherServiceProofs` (with `PipelineProofs`)
- `TypeCorrect`.
- `LimitsHold`. The strengthening says of the header what `RanksHold` needs (below),
  and of the consumed events what `LanesHoldTheirRank` says of the lanes.
- `Implementation`: the dispatcher implements `EventRouting`. The backlog is the
  inbound queue behind the event in the thread's hand (`Waiting`), so taking from
  the queue is a stutter and only a push or a drop is a step; a lane is what the
  consumer has taken followed by what is still there (`Delivered`). It rests on
  two invariants: the header of the event in hand names the lane that its frame
  has earned, and an event nobody has offered is nowhere (`FreshIsNowhere`).

`EventStreamCoreProofs` (with `PipelineProofs`)
- `TypeCorrect`.
- `NothingUsedAfterDestroy`, from `Lives`: for each place of main, which components
  are gone, which threads have been joined, and that a joined thread does not
  come back.
- `RanksHold`, from the dispatcher's invariant that the header of an event keeps
  the client's priority until it is routed, and holds the final one from then on
  (`Route` is idempotent).
- `EventsInOnePlace`. Every step that touches a place is a `Moves(S, p, r)`: it takes a set
  of events from one place to another and leaves the other places as they are, which
  keeps the partition (`MoveKeepsOnePlace`). What is left to show for each of these
  steps is that it is such a move. That an event is appended to a
  queue only where it is not yet follows from the partition itself (`NotElsewhere`), so the
  two halves of `OnePlace` need each other.
- `NeighboursKept`. `Fates` says how many frames have left each connection, that what
  is in the buffer and still to come is what follows them in the script (`Follows`), and
  that among the frames gone the bad ones, and no others, became no event. A frame
  that is taken moves the border by one (`TakenFates`), a connection that is closed by
  all of its buffer (`ClosedFates`), `recv` not at all. That no other client's frames
  are touched is what the disjoint scripts are for.
- `LanesKeepOrder`. The way of a client's events for one lane is a row of seven queues,
  from what it has not sent to the task queue. A step lets two neighbours exchange
  events, or drops some, and it is enough to look at the two (`NeighboursExchange`):
  whatever is ahead in the row afterwards was ahead before (`Within`). It needs
  `FromScript`, that a client sends only what it has to send, and `LanesHoldTheirRank`:
  an event is pushed into its own lane, so the row of another lane loses it there.

`RecorderProofs`
- `TypeCorrect`, with the lock: the thread that holds it is the one inside
  `storeEvent`, and a closed store is as new (`OpenOK`).
- `OnlyAppended`: a step either leaves the file alone, or starts a process, or adds at
  the end of what this process has (`StoreStepAdds`).
- `Implementation`: the store of the other modules is implemented by buffer, file
  and lock, because a stream that is good has failed no caller (`GoodIsClean`).
- `TornRecordsAreLast`. `TornOnlyAtEnd` says what a reader gets; the induction is about
  what is written. `Cur` says of the running process that its file has the records of
  the events stored, and then, while the stream is good, the first fields of the
  holder's event with the next ones in the buffer (`Exact`); once the stream has failed,
  fields of one event that is not stored and pieces of them, any number of times over,
  with nothing after a payload (`Loose`). The last part is what makes a retried flush harmless:
  the buffer may go out again and again, but only its last write ends with the
  payload, so at most one more record is whole and it is the last one. `Left` keeps the
  same for the processes that have ended. That the event is not a stored one
  needs `TaskInv`: each task has its own event. `ShapeReads` goes from there to the
  reader, who stops at the first record that is not whole (`ReadableIs`).
- `StoredIsReadBack`, about the whole file, which several processes have written. The
  history variable `found` keeps what was in the file when each of them opened it. Three
  invariants lead from the part of one process to the whole: the fields a process wrote
  are of its own events (`Owned`); its part lies behind what it found, with only earlier
  processes' fields before it and later ones' behind (`InPlace`); and it found
  whole records and nothing else if no earlier process left a torn one (`FoundWhole`).
  The last is an induction over the processes, so it had to be an invariant. Where the
  reader's position in a file has to be found for any length of it, the least
  number with a property takes the place of an induction (`LeastNumber`).

`TcpFramingProofs`
- `ParserInvertsFormat`: for each byte string, `parseFrame` returns an event exactly
  if a sender could have written it for that event, and then that one. The
  proof shows that topic and payload are determined by the bytes (`TakenApart`), so
  there is at most one reading, and that the parser's tests fail when there is none.
- `TypeCorrect`.
- `BufferStaysBounded`. The strengthening is that before each recv() less than a
  longest frame with its length is in the buffer (`RestIsShort`).
- `ConnectionInStep`. `InStep` becomes inductive with the history added (`InPlace`):
  the offsets `ends` are those of the frames written (`Offsets`), and the unread bytes,
  cut at these offsets, give the pending frames one by one (`Cuts`). A write adds one
  at the end (`CutsWrite`), recv() moves bytes across the middle, which does not
  change the concatenation, and taking a frame cuts the first one off (`CutsTake`),
  because its length is what the loop reads at the front of the buffer, even if
  the rest of it is still on the wire (`FrontOfBuffer`).
- `Implementation`: from that invariant and `ParserInvertsFormat`, each step is one of
  `FrameChannel` or a stutter. The numbers of bytes are those of `uint8_t`,
  `uint16_t` and `uint32_t`: `FramingAssumption` asks that a body's length fits into the
  32 bits of its field and that `4 + frame_len` does not wrap, which holds for the
  code's 10 MiB.

`StartupProofs`
- `LineIsRead`: for each line, the loader takes an entry from it exactly if `topics.conf`'s
  own description of a line says something with it, and then that entry. `Layout` says at
  which places colon, topic, name and comment stand; the searches of the code find
  these places, and there are no others.
- `Invariance` of `IInv`. What it adds to type correctness: the configuration is the one
  that the file holds (`ConfigLoaded`), which of main's things exist at each place
  (`Constructed`), the table says what the lines read so far say, the last one about a
  topic counting (`TableSoFar`), numbers are not drawn twice (`NumbersDrawn`), and a thread
  that has filled the CRC table sees it filled (`FillersSeeTable`).
- From it `TypeCorrect`; `ReadyUsable`, with what the conversions do to the port and to the
  number of threads; `TableSaysTheFile`, from `TableSoFar` at
  the last line and `LineIsRead`; `IdentifiersApart`, because numbers closer than the
  modulus have different remainders (`Apart`); and `FillersCompute`, the action property.
  `StartupAssumption` says of the files what YAML and `as<int>()` make of them: a number is
  an integer within the `size_t` that it is converted to, unless it is negative.

All invariants and action properties of the runs that pass are proved. Only
model-checked is what is temporal under fairness (`StopReturns`, `AcceptedIsSettled`,
`SubmittedIsRun`, `RealtimeIsServed`, `SignalReachesPool`, `WrittenIsTaken`, `CallEnds`):
liveness and `ENABLED` are out of the prover's reach.

## 5. Not modelled

- That a connection of `TcpIngestServer`, frame by frame, is what `TcpFraming` amounts to:
  the two are read side by side, and the mapping between them is not stated yet.
- The legacy `EventBus`: nothing in the repository calls it, so there is no behaviour
  of the program to state a property of.
- YAML itself: which text has which keys and values.
- A power failure, and disks that lose what they have acknowledged.
- The unsynchronised accesses to `server_fd` (the accept thread reads the old
  descriptor or -1, and `accept` fails on either), and the lock that the signal
  handler may take when it logs.
- `size`, `getPendingTasks` (they change nothing), `retrieveEvent` (declared, never
  defined), the Windows branches, the benchmark and the tests.

## 6. Plan

1. Done: the pipeline from client to file, main from its first statement to its
   last, the pool at lock level, the framing loop on bytes, the file over several
   processes, configuration and topic table, event numbers and checksums.
2. Left: that `TcpFraming` implements a connection of the frame-granular
   `TcpIngestServer`; `EventBusMulti` at lock level, implementing the atomic lanes.
3. Proofs done: every invariant and action property of the runs, and the four
   refinements. What is left of the proofs is what item 2 would add.
