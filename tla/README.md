# FakeMuduo: a TLA+ verification project

FakeMuduo is a C++17 network library in the one-loop-per-thread style: an
`EventLoop` per thread, connections spread over the loops by a `TcpServer`,
timers on a timerfd, a worker `ThreadPool`, an HTTP server on top, and an
asynchronous logger. This directory holds TLA+ models of the parts whose
correctness depends on interleavings, lifetimes and boundaries, the TLC
configurations that check small instances of them, and TLAPS proofs.
`PROJECT.json` lists the components, runs, mutants, findings, hazards and
theorems, and maps every definition to the lines of source it stands for.

    tlc -workers 2 -config MCEventLoop.cfg MCEventLoop
    tlapm EventLoopProofs.tla

## 1. Inventory

### The parts and how they interact

| Component | State it keeps | Operations | Talks to |
|---|---|---|---|
| `EventLoop` | `looping_`, `quit_`, `calling_pending_functors_`, `pending_functors_` (mutex), eventfd, active channels | `loop`, `quit`, `runInLoop`, `queueInLoop`, `wakeup`, `doPendingFunctors` | every component: all cross-thread calls become functors of its queue |
| `EventLoopThread` | `loop_`, thread, mutex and condition variable | `startLoop`, `threadFunc`, destructor | owns an `EventLoop` on its thread's stack |
| `EventLoopThreadPool` | vector of loops, `next_` | `start`, `getNextLoop`, `getLoopForHash` | `TcpServer` picks a loop |
| `Channel`, `Epoller` | events asked for, epoll index (`kNew`, `kAdded`, `kDeleted`) | `update`, `remove`, `poll`, `handleEvent` | `EventLoop` dispatches, owners set callbacks |
| `Buffer` | vector, `read_index_`, `write_index_` | append, prepend, retrieve, `makeSpace`, `readFd`, integers | input and output of a connection |
| `TcpConnection` | `state_` (unlocked, written by any thread), `reading_`, output buffer | send, shutdown, force close, start/stop reading; the event handlers | its loop's queue, `TcpServer`, user callbacks |
| `TcpServer` | `connections_`, the pool, the Acceptor | `start`, `newConnection`, `removeConnection`, destructor | base loop and I/O loops |
| `TimerQueue` | `timer_tree_`, `active_timers_`, `deleted_timers_`, timerfd | `addTimer`, `delTimer`, `handleRead`, `resetTimer` | `EventLoop::runAt`, `runAfter`, `runEvery`, `cancel` |
| `ThreadPool` | task queue, two condition variables, `running_` | `submit`, `take`, `start`, `stop` | `HttpServer` runs requests on it |
| `LogBufferQueue` | linked LogBuffers with a flag per slot, ring of spare ones, atomics | `push` (many threads), `pop` (one) | `AsyncLogger` |
| `AsyncLogger` | `state_`, background thread | constructor, `add`, `popThread`, destructor | `LogBufferQueue`, `LogFile` |
| `LogLine`, `Log`, `StdLogger` | level, encoded arguments in a stack or heap buffer | `operator<<`, `stringify`, `setLogLevel` | every log statement; `add()` of a logger |
| `LogFile` | file stream, bytes and lines written, times | `write`, `rollFile`, `flush` | the background thread |
| `Acceptor` | listening channel, spare descriptor | `listen`, `handleRead` | `TcpServer::newConnection` |
| `Connector`, `TcpClient` | connecting channel, retry delay, connection | connect, retry, restart, stop | `TcpConnection`, timers |
| HTTP (`HttpContext`, `HttpServer`, ...) | parser state, request, response | `parseRequest`, `onMessage`, `onRequest`, `appendToBuffer` | `TcpConnection`, `ThreadPool` |
| sockets, addresses, time stamps | - | system calls, formatting | - |

### What is hard, and what makes each part correct

* **EventLoop.** Other threads push, set `quit_` and write the eventfd while
  the loop tests, polls and swaps. Correct: it never sleeps on work or on a
  quit without a wakeup on its way; what it is given it runs once, in order.
* **EventLoopThread, EventLoopThreadPool.** The pointer is published before
  `loop()` begins and the destructor reads it without the mutex. Correct: the
  loop exists while its pointer is used, the destructor returns.
* **TcpServer with several loops, Acceptor.** Establishing, closing, removal
  and destruction are functors on two loops, and the destructor stops loops
  whose queues are not empty. Correct: a connection is established and removed
  once, each step on its own loop, and ends closed and out of epoll; a client
  that waits is accepted or turned away, even without a descriptor.
* **Buffer.** Boundaries of moving and growing. Correct: the readable bytes
  are those put in and not taken out, the indices stay inside the vector.
* **ThreadPool.** Two condition variables. Correct: a submitted task is run
  once; idle workers block; `stop()` returns.
* **LogBufferQueue, AsyncLogger, LogLine, LogFile.** Lock-free reservation of
  slots, hand-over from one buffer to the next, recycling; arguments stored in
  a buffer that grows and read by another thread; files that are rolled.
  Correct: a slot has one owner, lines come out once and in order, what is on
  disk in the end is every line, with the text that was logged.
* **HTTP.** Requests cut and joined by reads, a parser that keeps its state
  between them, answers made by worker threads. Correct: the requests are those
  of the stream, each is answered once, in order and framed so that the client
  can tell where it ends.
* **TcpConnection with TcpServer, Channel and Epoller.** `state_` tested and
  set from several threads, functors that outlive what they captured, several
  ways to end. Correct: no assert fails, the byte stream is in order, output
  that waits is watched for and precedes the shutdown, the user sees one UP
  and one DOWN, a closed connection leaves the map and the epoll set.
* **Connector, TcpClient.** Attempts that fail, retries on a timer, restarts,
  and calls of other threads. Correct: one attempt at a time, no descriptor is
  lost, it goes on until it is stopped, and then it ends.
* **TimerQueue.** Callbacks that add and cancel, cancellation of a timer of
  the batch that is running, addresses reused, a clock that is set. Correct: the two indices agree,
  no Timer is freed twice, the timerfd is set for the first timer, a
  cancellation sticks and hits its own timer only.

`PROJECT.json` "hazards" lists these at their lines, those no property covers
yet with the reason.

## 2. Modules

| Module | Models | Composes |
|---|---|---|
| `TaskQueue` | the promise of a loop's functor queue: FIFO, each functor once | abstract specification |
| `EventLoop` | `src/net/EventLoop.cpp`: loop, queue, quit, eventfd | implements `TaskQueue` |
| `EventLoopThreadPool` | `src/net/EventLoopThreadPool.cpp`, `src/net/EventLoopThread.cpp` | loops in the sense of `TaskQueue` |
| `Acceptor` | `src/net/Acceptor.cpp` | |
| `TcpServer` | `src/net/TcpServer.cpp` over several loops | extends `EventLoopThreadPool` and `Acceptor` |
| `Buffer` | `src/net/Buffer.cpp`, `Buffer.h` | |
| `ThreadPool` | `src/util/ThreadPool.cpp` | |
| `LogBufferQueue` | `src/util/LogBufferQueue.cpp` | |
| `LogLine` | `src/util/LogLine.cpp`: encoding and decoding, as operators | |
| `LogFile` | `src/util/LogFile.cpp` | |
| `AsyncLogger` | `src/util/AsyncLogger.cpp`, `src/util/Log.cpp` | extends `LogBufferQueue`, `LogFile` and `LogLine` |
| `HttpServer` | `src/net/http/*`: parser, server, request, response | extends `ThreadPool` |
| `TcpConnection` | `src/net/TcpConnection.cpp`, with `TcpServer`, `Channel` and `Epoller` as far as one connection uses them | its functor queue is the one of `TaskQueue` |
| `TimerQueue` | `src/net/TimerQueue.cpp`, `Timer`, `TimerId` | |
| `Connector` | `src/net/Connector.cpp`: the handlers, as operators | |
| `TcpClient` | `src/net/TcpClient.cpp`, and the loop's iterations | extends `Connector` |
| `EventLoopProofs`, `BufferProofs`, `TcpServerProofs`, `TcpConnectionProofs`, `TimerQueueProofs`, `TcpClientProofs`, `HttpServerProofs` | theorems about the module of that name | |
| `AsyncLoggerProofs` | theorems about `LogBufferQueue` and `AsyncLogger` | |
| `MC*` | instances for TLC | |

### How state and actions correspond to the code

**EventLoop.** `pc` is the position of the loop thread; `pending` and
`functors` are `pending_functors_` and the batch of `doPendingFunctors()`;
`wakeupFd` says whether the eventfd's counter is nonzero. A critical section
is one action; the `wakeup()` after `queueInLoop()` and `quit()` of another
thread is a step of its own (`wpc`), so the loop can be anywhere between the
two. What the loop's own thread does (channel callbacks, functors, calls
before `loop()`) are the `Loop...` actions, enabled inside user code only.
Each functor is handed over at most once, which bounds the queue.

**EventLoopThreadPool and TcpServer.** `owner` is where the base loop's thread
is in `start()`, in its loop or in the destructor, `at` which EventLoopThread it
works on, `tpc` where each `threadFunc()` and its `loop()` is. A loop here is
its queue, its batch and `quit_`: that it does not sleep on either is what
`EventLoop` shows. Functors record what they call and the `shared_ptr` they
hold, so `Referenced` says when a connection is destroyed; of the connection
itself only `state_` and its membership in epoll are kept; a callback may call
`shutdown()`, so `~TcpServer()` and `handleClose()` meet `kDisconnecting` too.
`failed` holds the asserts that failed and of which connection, and the program
goes on as it does without asserts. After the destructor
the base loop goes on and runs what is left, except a removal with a dangling
`this` (`LeftBehind` says when there is one).

**Acceptor.** Clients and descriptors are counted; the branch for `EMFILE` is
four steps, since other threads of the process open and close files between
them. `logger` says who writes a `LOG_ERROR` line: `StdLogger` does it in the
calling thread and sets `errno` to 0, so the test after `LOG_ERROR` fails;
"none" is no logger or a level that drops the line, as the default `kINFO` does.

**Buffer** is a set of operators on a record `[buffer, r, w]`, one per member
function, and one action per operation; `content` is a history variable, the
bytes put in and not taken out. `Overrun` says whether `readv()` may return
more than the writable bytes. The integer variants are the operations with a
fixed length.

**ThreadPool.** `notFull` and `notEmpty` are the sets of threads asleep on the
condition variables. The two predicates are `SubmitPred` and `TakePred`, as
written in the code.

**LogBufferQueue.** Each atomic access of a writer is an action
(`Reserve`, `LoadBuffer`, `WriteItem`, `SetFlag`, `CountLine`, `ResetCount`,
`NextBuffer`, `Publish`), as is each of the reader's. Memory is sequentially
consistent: the code's relaxed read-modify-writes and stores compile to x86
instructions that keep the order these properties need; weaker machines are
not modelled. `reserved` and `popped` are histories.

**LogLine, LogFile, AsyncLogger.** `Encoded` puts the header and the arguments
of a statement into a buffer of 104 bytes that moves to the heap and doubles
there, `stringify` reads them back (an empty string leaves no trace, so
`TextAsLogged` compares with the `Visible` arguments); a `string_view` is read when the line is
written, when its object may be gone. `disk` maps seconds to files, `stream` is
what `ofstream` holds; `write` counts, rolls and flushes like the code, and two
files of the same second are the same file. A line that was popped is written
in the step that pops it: nobody else touches the file. `Discard` is a line
above the log level, a fatal line ends the program when it is written.

**HttpServer.** A stream is a sequence of lines, a read delivers any number of
half lines, and a line is what the parser makes of it. `context` is
HttpContext, `asked` the request each task carries, `sent` the responses. Every
connection is a client of the `ThreadPool`, so `submit()`, `take()` and `stop()`
are the pool's own steps. Of a response the model has the status, the version
and how its end is told; `callback` chooses between the default callback and
one like that of the example server.

**TcpConnection.** `ioQueue` and `mainQueue` are the functor queues of the
connection's loop and the server's; a functor records what it captured (a
shared pointer or the raw `this`, and whose message). A handler is one action
up to the user callback; while `upcall` is set the user's calls follow. A
worker's call is the test of `state_`, the store, the push and the return, as
separate steps; its message is gone after the return. `abort` names the first
assert that fails. The kernel is a choice of how much a `write()` takes, and
`peer`. `LoopCalls` and `WorkerCalls` say which members the user calls where.
User code on the loop's thread leaves a connection alone once it was told that
it is closed. `singleLoop`, chosen from `Deployments`, says whether the server
has I/O threads; only without them is its destructor modelled here (`TcpServer`
has it with them), between handlers and inside the handler of another channel
(`DestroyServerInEvent`). `causes` is a
history of the five ways in which the code itself puts `state_` or the channel
out of step; the properties of the connection's life hold as long as it is
empty, and `AssertsHold` says that nothing else makes an assert fail.

**TimerQueue.** `heap` maps addresses to Timers, so that an address can be
reused; a `TimerId` is an address and a number. `functors` holds the additions
and cancellations that other threads have queued. `HandleRead`, `RunTimer` and
`ResetTimer` are the three phases of `handleRead()`. Expirations are times of
the system's clock (`now`), which may be set once, ahead or back (`SetClock`);
the timerfd runs on `mono`, and `Deadline` is the conversion of
`timespecFromNow()`. `DestroyQueue` is the destructor.

**Connector and TcpClient.** The channel of an attempt leaves epoll in the
handler and is freed by a functor, and a retry is a timer, so the model has
the parts of an iteration (`phase`): a poll, the handlers of what it reported
(`active`, in any order), and the batch of functors queued until then. A
handler of `Connector` is an operator on `c`, the values it finds; a restart
passes those it has just stored. A worker's `connect()` or `stop()` is the
store of the client's flag, the store of the Connector's and the push.
`open` is the set of descriptors in use, and an attempt takes a free one: a
`socket()` that fails is fatal. `causes` is again the history of what makes an
assert fail; `fresh` counts the retry timers that were set with a channel
still to be freed, since the functors were last taken. A connection is only up or closed here: its life is that
of `TcpConnection`.

## 3. Runs

Every passing run finishes in less than two minutes. Each property has a mutant,
an operator kept next to the definition it replaces (the names with a suffix,
such as `Swap_Torn`), under which TLC finds the property violated.

| Run | Instance | Shows |
|---|---|---|
| `event_loop` | two workers, three functors | no lost wakeup, no lost quit, refinement of `TaskQueue`; work that is handed over is run and `quit()` ends `loop()`, without the poll timeout |
| `tcp_server` | up to two I/O threads, two clients, three descriptors | loops are used while they exist; connections end closed and out of epoll unless their loop quit first or `~TcpServer()` met them after `shutdown()`; what the destructor leaves behind; it hangs only if `quit()` was erased by the first line of `loop()`; a waiting client is accepted or turned away, with the two exceptions |
| `buffer` | sizes below | content and indices over every sequence of operations up to the bounds |
| `http_server` | two connections, pipelined and ill-formed streams cut anywhere, up to two worker threads, both callbacks | requests are those of the stream, answers in order, in their version and framed; a complete request is answered unless a named reason holds; `stop()` returns, or a worker sleeps in `take()` for ever |
| `async_logger` | two writers, four lines of four levels, buffers of two, files rolled by size and day | exclusive slots; until a buffer is recycled, no line written to a freed buffer and lines in order; files hold every line with its text; the destructor returns |
| `tcp_connection` | one worker, one message, all six calls from the worker and from callbacks, one loop and two | asserts and their causes, what holds at destruction, output watched, shutdown after output, callbacks paired |
| `tcp_stream` | two messages of two bytes, sent by a worker and by callbacks | the bytes in order and whole; output goes out, shutdown happens, a closed connection is removed |
| `timer_queue` | three timers on two addresses, the clock set once | indices, lifetimes up to the destructor, timerfd, cancellation; a due timer is taken |
| `tcp_client` | one worker, two calls of `connect()`, three descriptors | asserts and their causes, descriptors neither leaked nor closed under their owner, never idle while it is to connect, `stop()` ends the attempts |

### Disagreements found while modelling

Each of these runs states what a comment, an assert or the design document
says, TLC refutes it, and a finding quotes the line.

| Run | What the code does |
|---|---|
| `buffer_readfd` | `readFd()` compares `writable` with itself: `write_index_` passes the end of the vector |
| `thread_pool_submit` | `submit()` waits for a full queue: a task that finds room is never queued |
| `tcp_send_scope` | the functor of `send()` captures the message by reference |

Other behaviours that the models have and that a reader of the code should
know of; the passing properties are stated around them:

* `TcpConnection`, the five `causes`: a worker's `shutdown()` or `forceClose()`
  tests and stores `state_` in two steps and can overwrite a `kDisconnected`
  ("torn"); `startRead()` and `stopRead()` do not look at `state_` and can be
  applied after the close ("late"); after `stopRead()` the channel is
  `kDeleted`, and the `disableAll()` of `handleClose()` adds it to epoll again,
  where a hang-up needs no subscription ("readded"); `connectDestroyed()` does
  not disable the channel of a `kDisconnecting` connection, which
  `~TcpServer()` can find ("closing"); a server that is destroyed in the handler
  of another channel removes a channel of the same `epoll_wait()`, which
  `EventLoop::removeChannel()` asserts against ("active").
* `TcpServer`: a `connectDestroyed` that is queued when its loop is past the
  swap is not run if the destructor's `quit()` comes first, and the connection
  is destroyed in the epoll set (`late`). A connection that is `kDisconnecting`
  when its `connectDestroyed()` runs is removed with its events enabled, which
  `Channel::remove()` asserts against, and `state_` stays `kDisconnecting`.
* `Acceptor`: `sockets::accept()` restores `errno`, but the `LOG_ERROR` before
  the test `errno == EMFILE` sets it to 0 with `StdLogger` and a level that lets
  it pass (not the default); the spare
  descriptor is then never used and the loop spins on the listening socket.
* `HttpContext`: a request line that does not parse leaves the `while` loop
  running for ever, so the `400` branch of `onMessage()` is not reached. With
  at least one worker thread no request is answered (`submit()`). The default
  callback sets no version, on which `versionToStr()` asserts. A read handles
  one request; a second one waits for more input.
* `LogFile`: two files of the same second share a name, and the second is opened
  with `trunc`. `LogLine`: a `string_view` argument, such as `conn->name()`, is
  read by the background thread. The default level `kINFO` drops `WARN` and
  `ERROR` lines, which are numbered above it, and `kCLOSE` drops fatal lines
  too, so the program goes on after them.
* `TimerQueue`: after the system's clock was set ahead the timerfd fires late by
  as much, until something sets it again.
* `send()` then `shutdown()` from another thread drops the message, because the
  queued `send()` tests `state_` again (`dropped`).
* `TcpClient`, the four `causes`: `connect()` is called a second time or after
  `stop()` ("again"); `restart()` stores `connect_` over a `stop()` of another
  thread that came after the test in `removeConnection()`, and the client
  connects again ("overruled"); the retry delay is kept in milliseconds and
  given to the timer as microseconds, so a retry can fire before the functor
  that frees the channel: in the iteration that set it, or, when a
  `stopInLoop()` set it because `connect()` of another thread had stored
  `connect_` again, in the next one ("hasty");
  `~TcpClient()` lets go of a Connector that still has a channel, its delayed
  release being commented out ("destroyed").
* `LogBuffer::push()` clears only the count of a buffer that is to be used
  again: its flags stay set, and the reader of a recycled buffer pops lines
  that are not written yet. Hence `FifoUntilReuse`.
* Functors with a raw `this` can be at the head of the queue when the
  connection is gone; the model stops there.
* `take()` returns at once on the empty queue of a running pool (idle workers
  spin), and waits for ever once the pool is stopped: hence the second outcome
  in `StopReturnsUnlessAsleep`.
* A LogBuffer that finds the ring full is freed before its last writers have
  counted their lines in it; their lines and flags are there by then. Once a
  buffer has been recycled not even that is true: on its old flags the reader
  runs ahead of the writers and can free the buffer they write to. Hence the
  condition of the last conjunct of `SlotOwnership`.
* Seen while reading and outside the models: `TcpServer` passes
  `option == kNoReusePort` where `Acceptor` takes `reusePort`;
  `setTcpNoDelay()` passes `on_off` as the length of the option;
  `~LogBuffer()` destroys `count` items, none after a reset; `peekInt16()`
  copies four bytes.

### Bounds

* Two workers (or writers, clients) are enough for two callers to race; the
  third is the loop (or the reader). Three functors allow one in the batch
  and two behind it.
* `kSize = 2`, `MaxBuf = 3`: a LogBuffer is filled, followed by another and
  recycled; `RingSize = 1` makes the ring full. Files are rolled after six bytes
  or two seconds (`MaxSize`, `kRollPerSeconds`, `MaxTime`), and the lines of
  `MCAsyncLogger` stay on the stack, move to the heap and grow there. The clock
  of the log files never goes back.
* `tcp_server`: two threads and two connections, so that connections are on the
  same loop, on two, or on the base loop; three descriptors are one fewer than
  the spare, the connections and the file of another thread need.
* `http_server`: streams of up to three requests, with a close in the middle, a
  body and headers without a colon; task queues of size 0 and 1 (`Sizes`).
* `Buffer` starts with three bytes behind a reserve of two, takes pieces of at
  most three and is explored up to eight: it moves, grows and shrinks.
* `tcp_stream`: messages of two bytes can be written in part, and the second
  can find the first in the output buffer. `tcp_connection`: one message of
  one byte is written or waits, which is all its properties tell apart, and
  leaves room for all calls from both sides. `HighWater` is crossed in both;
  `MaxQueue = 2` bounds the functors that wait when a call is made.
* Three timers on two addresses: an address is reused while its old `TimerId`
  is known. `MaxTime` ends the clock; one setting of it by one unit is enough
  for the timerfd to be early or late.
* `tcp_client`: three descriptors are those of an attempt, a connection and
  one that is being destroyed; the delay doubles once (`MaxDelay`); a second
  `connect()` (`MaxConnects`) shows what it breaks.

`CHECK_DEADLOCK FALSE` is used where the model ends: all messages sent,
connection gone, tasks or lines used up, clock at its end.

### Fairness

* `EventLoop`: weak fairness of the loop thread and of a `wakeup()` that has
  begun (threads are scheduled). In `poll()` only a readable eventfd forces a
  return: the ten-second timeout and I/O are never assumed.
* `TcpServer`, `AsyncLogger`, `ThreadPool`, `HttpServer`: weak fairness of every
  thread that is not asleep; nobody is forced to call anything. The base loop
  handles the listening socket as long as a client waits (level-triggered
  epoll) and its functors in every iteration. Reads need not come.
* `TcpConnection`: events that were reported are handled and callbacks
  return. Strong fairness for running functors, since each iteration of the
  loop ends with them however many events come; and for `POLLOUT` and a
  `write()` that takes a byte, since the kernel drains a socket whose peer
  reads, and the level-triggered epoll reports it.
* `TimerQueue`: the clock goes on; strong fairness of `HandleRead`, which
  competes with user code for the loop's thread but is reported again by the
  next `poll()`.
* `TcpClient`: the loop and a worker inside a call go on, and a timer that is
  set is due in the end (strong fairness of the poll that reports the timerfd
  and of the handler that takes all timers, since user code comes between).
  An attempt may stay in progress for ever.

## 4. Proofs

All theorems hold for every value of the constants.

**EventLoopProofs.** `NoLostWakeup` speaks of `poll` only and is not
inductive. `WakeupCovered` extends it to the phases after which
`pending_functors_` is not looked at before the loop may sleep: from the swap
to the next `poll`. A push there by another thread leaves its `wakeup()` on
the way (`Waking`); one by a functor of the batch writes the eventfd, because
`FlagCoversBatch` says that `calling_pending_functors_` is set there; reading
the eventfd happens in `dispatch`, before the swap. `IInv` is the conjunction
of `TypeOK`, `FlagCoversBatch`, `WakeupCovered` and `NoLostQuit`. From it
follow `TypeCorrect`, `NoWakeupIsLost` and `NoQuitIsLost`. `Implementation`
proves the refinement of `TaskQueue` with `queue <- functors \o pending`:
a push is `HandOver`, `RunFunctor` is `Execute`, `Swap` is a stutter because
the batch is empty when it happens (`FlagCoversBatch` again).

**BufferProofs.** `BInv` says that the buffer holds the history: indices in
order inside a vector no shorter than the reserve, and byte `i` of `content`
at `read_index_ + i`. There is one lemma per member function, from which
`BufferInBounds`, `BufferContent` and `BufferAsserts` follow. The theorems
assume `Overrun = FALSE`, reads that fit the writable space; without it
`InBounds` is false (`buffer_readfd`).

**TcpServerProofs.** `LoopAliveWhenUsed` is not inductive: a loop that exists
may be on its way out of `loop()`. `PoolInv` adds, besides types, how far the
owner has come with every thread (`Progress`): those before `at` in `start()`
are up (published, inside `loop()`, `quit_` not set), the one at `at` is
starting, those behind it are untouched; in the destructor those from `at` on
are still up, because only the destructor sets `quit_` and it goes through them
in order. A step of a thread keeps an up thread up (`ThreadMoves`), every other
step of the server leaves `tpc`, `loopPtr` and `quit` alone. `LoopsAlive`
follows for any number of threads, clients and descriptors.

The connections have an invariant of their own, `ConnInv`, which uses
`PoolInv`: `ConnectionsEndClosed` speaks of the moment the last `shared_ptr` is
gone, and to be preserved it needs where every functor of the connection is.
`Loops` keeps connections and functors on loops that are not unwound; `Queues`
says that no functor is queued twice and `connectEstablished` is ahead of
`connectDestroyed`; `SortedAt` says what a queued functor implies about its
connection, `PhaseAt` the converse, which functor a connection in each state
still has to come; `InTimeAt` that a `connectDestroyed` which is not `late` is in
front of the next look at `quit_`. `Cut` are the connections that were removed
while `kDisconnecting`: `Phases` ties each to its state, and `Loops` says that
there is none before the destructor, since only `~TcpServer()` ends a connection
that is not closed. From them follow `EndsClosed` and `OnlyClosedLeftBehind`.

**TcpConnectionProofs.** The six invariants of the runs follow from one
inductive invariant. `Beginning`: until `connectEstablished()` nothing has
happened, and it is the first functor. `Shutting`: a `shutdown()` whose functor is
queued or about to be has left `kConnected`, so the socket of a `kConnected`
connection is not shut down, and `sendInLoop()` fails only on a reset. `Watched`,
for every state before the close: output waits exactly when the channel writes;
with it `shutdownInLoop()` and `handleWrite()` shut down after the last byte.
`Stream`: wire and output make up what was accepted, or the peer has reset the
connection, a message was given up and nothing is written any more. `Life`, as
long as none of the five causes has occurred: what the channel, `connections_`
and the queues hold while the connection is open, and where its removal is once
it is closed (`Ending`). The proof has one lemma per handler and per action;
`LaterStep`, `StreamKept`, `OutputKept` and `LifeKept` say what a step must leave
alone to keep a part. The theorems are about `Spec` and so hold for `FairSpec`.

**TimerQueueProofs.** `SameTimers` and `NoDangling` need each other: `Indexed`
(the entries of the tree and of the batch, and the TimerIds on their way, are
those of live Timers) and `Placed` (each Timer is in exactly one place) carry both.
`Numbered` makes sequence numbers unique, so that a TimerId whose address is
used again is not taken for the new timer; `CancelInv` remembers what was
cancelled inside a batch until `resetTimer()`; `ArmedInv` is `ArmedForFirst` for
every timer and not only the earliest. `CancelHitsItsOwn` is the action property
`OnlyOwnCancel`.

**AsyncLoggerProofs.** `SlotOwnership` rests on counting:
the counter of a LogBuffer and the writers between reservation and count add up
to the slots that are taken (`Counting`, with the cardinality of the set of
busy writers), so one writer alone counts to `kSize` and it comes after all
others. `Positions` and `Contents` place every line that was reserved and not
popped: `FifoUntilReuse` follows, with the arithmetic of consecutive
LogBuffers. Every step of the logger is one of the queue's or leaves it alone,
which carries the two theorems over to the logger and proves
`DestructorTakesAll`: when the background thread is joined every reserved line
was popped, unless a buffer was recycled.

`FilesHoldLines` speaks of the end only. `Filed` is what holds all the time: the
files in the order of their names, followed by what `ofstream` holds, are the
lines that were popped, except the one that `pop()` has taken and not returned
yet; files later than the open one are empty. Rolling and flushing then move
lines between two neighbours in a concatenation (`FlattenedAppend`).
`TextAsLogged` rests on `Holds`: after each argument the bytes in use are a
header and the encoded arguments, each where the one before it ends
(`PutAtEnd`, `Resized` for the move to the heap and for doubling), and
`Decoded` reads them back in that order.

**TcpClientProofs.** None of the three invariants is inductive. `Sound`, as long
as no assert has failed, says where everything is: what belongs to each phase of
an iteration, that a channel is watched exactly while an attempt is in progress
and is otherwise about to be freed, once, in which order the functors of a
connection are queued, and whose every open descriptor is; `SocketsAlwaysOwned`
follows. `Busy` is `NeverIdle` over positions of the queues, and needs `Sound` where
an attempt ends. `Calm`, as long as none of
the four causes has occurred, adds that a single `connect()` is on its way or
under way (`Token`), that a retry is not due before its channel is freed
(`Retry`, `Release`), and what is left when the client is gone (`Outlived`);
with it no assert can fail. The proof is for any number of workers. It first
failed with two of them, where the run has one: a `connect()` that races a
`stop()` lets `stopInLoop()` set a retry timer, which `hasty` did not count.

**HttpServerProofs.** The requests of a stream are a chain of positions: `b[i]` is
where the request after the first `i` begins, and `Chain` says that each is a
request line, headers, and the first line without a colon. It does not depend
on how much has been read, so that it is kept when more comes; `ChainRequests`
shows that the requests of a chain are the first ones of the reference
`Requests`, from the last one backwards. `Parsed` is the loop invariant of
`parseRequest()`: the parser is before the request that begins at `b[k]`, in its
headers with the values seen so far, behind its end, or stuck before a line
that is no request line. `Asking` says that exactly the first `k` tasks of a
connection have been submitted, with the requests of the chain, and where the
parser is; `Answering` that what was sent answers the first tasks, and all that
were submitted as long as the connection is open and there are no workers.
With worker threads nothing is ever sent (`WorkersAnswerNothing`), because
`take()` waits for an empty queue: `InOrder` then says what is asked, and that
no wrong answer is given.

Induction. TLAPS cannot instantiate the induction rules of its library, whose
hypothesis is an operator. `Induction` is the rule for a set of natural
numbers, from the least element of its complement (`WFMin`); with it
recursively defined functions are shown to exist and unfolded (`Flattened`,
`RequestsFunction`, `ParseFunction`), which is how the theorems about
concatenation, encoding and parsing cover data of any length.

Assumptions: the ASSUMEs of `EventLoop` (Boolean parameters), `Buffer` (sizes
are naturals, 0 is a byte), `EventLoopThreadPool` (`MaxThreads` is a natural),
`TcpConnection` and `TimerQueue` (sizes and bounds are naturals, call sets are
sets of calls), `LogBufferQueue` and `LogFile` (sizes), `AsyncLogger` (levels
are levels, a statement's arguments have a type and a length), `Connector` and
`TcpClient` (descriptors, delays and bounds are naturals), `ThreadPool` and `HttpServer` (sizes
and bounds are naturals, a stream is a sequence of lines, the requests of the
connections are among the tasks), which TLC evaluates in the runs.

Each inductive invariant was checked by TLC, on the instance of the run or a
larger one, before or while it was proved.

Only model-checked: the liveness properties (TLAPS 1.4.5 does not handle
fairness and ENABLED). Every invariant and action property of the passing runs
is a theorem.

## 5. Not modelled

* What a functor does that holds the raw `this` of a destroyed server,
  connection or Connector: undefined, so the models stop before it
  (`LeftBehind`, `AtHead`). `~TcpClient()` queues such a functor itself: the
  `stopInLoop()` of `connector_->stop()` (`TcpClient.cpp:49`, `Connector.cpp:46`),
  unless a retry timer holds the Connector; the client's loop ends there.
* The end of a connection that outlives its `TcpClient` (`TcpClient.cpp:42-47`):
  the close callback set there queues a functor with a reference (`[&cn]`) to a
  `shared_ptr` on the stack of `handleClose()`, so what closing it does is
  undefined; `DestroyClient` leaves the connection open, with or without the
  `forceClose()` of a unique one.
* The `wakeup()` after the store of `quit_` in `~EventLoopThread()`
  (`EventLoop.cpp:112`), which may meet a loop that is gone.
* A report of the timerfd that another handler of the same poll has made stale
  by setting it again: `read()` gives `EAGAIN` and `handleRead()` goes on.
* Local time and a clock that goes back in `LogFile`: a file's name is its local
  time, which repeats when daylight saving ends, and the model takes the names
  in the order of time. Two equal names, within a second, are modelled.
* A logger destroyed while a thread is inside `add()`, an `HttpServer` whose
  pool and callbacks are destroyed while its I/O threads run, calls on an
  `EventLoop` that is gone: outside the callers' contract.
* `errno` as the logger leaves it, except in `Acceptor`; a failed write is a
  free choice.
* Errors that are `LOG_FATAL` (`ENFILE` in `accept()`, a failing `socket()`,
  `epoll_create()` or `timerfd_create()`): the program ends.
* `StdLogger`'s output, the event vector of `Epoller` and how it grows.
* Text: how arguments, responses, times and addresses are printed; byte order,
  socket options, examples, and the superseded `docs/oldfiles`.

## 6. Plan

Done: `EventLoop` with `TaskQueue`; `EventLoopThreadPool`, `Acceptor` and
`TcpServer`; `Buffer`; `ThreadPool` and `HttpServer`; `LogBufferQueue`,
`LogLine`, `LogFile` and `AsyncLogger`; `TcpConnection` with its server, channel
and poller; `TimerQueue`; `Connector` and `TcpClient`; the proofs of section 4.

What is left: proofs of the liveness properties, with a prover that handles
fairness; and what a read of a destroyed object returns (the two hazards without
a property), for which the models have no memory.
