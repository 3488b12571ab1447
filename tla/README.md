# A TLA+ verification of yxAlpha

yxAlpha is a C++ network library in the reactor style: event loops on epoll,
one per thread, TCP connections spread over them, a thread pool, an
asynchronous log and a small HTTP server. What makes it hard is that almost
every object is shared by several threads and that the correctness of each
part rests on the order of a few unlocked accesses. This directory models
those parts in TLA+, checks them with TLC on small instances, and proves their
safety with TLAPS for every size.

## 1. Inventory

| Component (source) | State | Operations | Meets other parts through |
|---|---|---|---|
| Dispatcher, Selector (`reactor/dispatcher`, `selector`) | `looping_`, `quit_`, `in_calling_pending_funcs_`, `pending_funcs_`, the eventfd, `e_events_` | `Loop`, `Quit`, `RunInLoop`, `QueueInLoop`, `Wakeup` | functors from any thread; callbacks of handlers |
| EventHandler (`reactor/eventhandler`) | `events_`, `revents_`, four callbacks | `HandleEvent`, `set_care_*`, `set_stop_care_*` | the epoll set of its Dispatcher |
| DispatchThread (`reactor/dispatchthread`) | `dispatcher_`, a thread, mutex and condition | `Start`, `ThreadFunc`, destructor | owns the thread of a Dispatcher on that thread's stack |
| DispatcherPool (`reactor/dispatcherpool`) | `threads_`, `dispatchers_`, `next_` | `set_thread_num`, `Start`, `get_next_dispatcher` | the base loop of a TcpServer |
| ThreadPool (`thread/threadpool`) | `running_`, `queue_`, `worker_threads_`, two conditions | `Start`, `Stop`, `PushTask`, `PopTask`, `RunTask` | producers, workers, a controller |
| Thread, Condition, MutexLock, CountDownLatch (`thread/`) | `started_`, `joined_`, `count_` | start, join, wait, notify | everything above |
| AsyncLogging, Logger (`logger/`) | two front buffers, full buffers, two spares, `running_` | `Append`, `ThreadFunc`, `Start`, `Stop` | every thread that logs; started by `pthread_once` |
| TcpServer (`net/tcpserver`) | `connections_`, `conn_id_`, `started_` | `Start`, `NewConnection`, `RemoveConnection` | base loop, I/O loops, connections |
| TcpConnection (`net/tcpconnection`) | `state_`, `output_buf_`, `input_buf_`, watched events | `Send`, `ShutDown`, `FlushOutputBuf`, handlers, established, destroyed | its loop, the server, user threads |
| LogFile, AppendFile (`logger/logfile`, `fileutil`) | `count_`, the stdio buffer | `Append`, `Flush` | the back end of the log |
| Acceptor, Socket, InetAddr (`net/`) | the listening socket, `idle_fd_`, `listenning_` | `Listen`, `EventHandlerCallBack`, destructors | the kernel's table of descriptors, TcpServer |
| Buffer (`utility/buffer`) | a vector and two indices | `Append`, `Resize`, `readFd`, `findCRLF`, `move_read_index*` | TcpConnection, HTTP |
| HTTP (`http/`) | the parser state and the request, per connection | `ParseRequest`, `OnConnection`, `OnMessage`, `OnRequest`, `AppendToBuffer` | message callback of a connection |

Hard behaviours, and the properties that make each part correct:

* **Dispatcher.** A task is pushed while the loop swaps, runs or is about to
  block. Right means: each task runs once, in push order, without waiting for
  the epoll timeout; `Quit` ends a blocked loop; every ready descriptor is
  served.
* **DispatchThread.** The Dispatcher is a local variable of another thread.
  Right means: `Start` returns a usable pointer, the destructor returns, and
  nobody uses the Dispatcher afterwards.
* **ThreadPool.** Single notifies on two conditions, unlocked tests of
  `running_`. Right means: nobody sleeps over work or room, order is kept,
  `Stop` returns.
* **AsyncLogging.** Buffers change hands between threads and are recycled.
  Right means: the file is the accepted messages in order and is flushed,
  logging does not block, `Stop` returns.
* **TcpServer.** Closing a connection hops over three loops while users hold
  pointers. Right means: no dangling handler, paired callbacks, no leak.
* **TcpConnection.** Direct and buffered writes mix, and `ShutDown` races with
  both. Right means: bytes in order, FIN after the data and in the end.
* **Acceptor.** The process runs out of descriptors, and other threads open and
  close files between any two system calls. Right means: no leak, no close of a
  descriptor of someone else, every waiting client is accepted or turned away.
* **Buffer and HTTP.** A client's requests come in reads cut anywhere, several at
  once or in pieces. Right means: no byte is lost, the callback sees the same
  requests however they were cut, the answers go out once and in order.

The full list of hazards, each at its line, is in `PROJECT.json`.

## 2. Modules

| Module | Models | Granularity of a step |
|---|---|---|
| `Mailbox` | what a Dispatcher and a ThreadPool promise: a FIFO, each task once | one submission or execution |
| `Dispatcher` | one event loop and all threads that call it | one critical section, eventfd access, load or store of `quit_`, or `epoll_wait` |
| `DispatchThread` | extends `Dispatcher` with the life of the I/O thread and of the Dispatcher on its stack | the same |
| `ThreadPool` | producers, workers, controller | one critical section, one unlocked test |
| `AsyncLogging` | logging threads, back end with its log file, stopper | one critical section, one unlocked access |
| `TcpServer` | life of connections over base loop, I/O loops, users | one handler or functor; user calls are split at the unlocked test of `state_` |
| `TcpConnection` | the sending side of one connection | one handler or functor; `ShutDown` is split into test, store and queueing |
| `Acceptor` | listening socket, spare descriptor and the process's table of descriptors | one system call |
| `Buffer` | the operations on a buffer, as operators on its vector and indices | |
| `HttpServer` | extends `Buffer` with one HTTP connection: parser, request, response, callbacks | one event of the connection, one turn of the parse loop |
| `DispatcherProofs`, `ThreadPoolProofs`, `AsyncLoggingProofs`, `TcpServerProofs`, `TcpConnectionProofs`, `AcceptorProofs`, `HttpServerProofs` | theorems about the module of that name; `DispatcherProofs` is also about `DispatchThread`, `DispatcherProofs` and `ThreadPoolProofs` about `Mailbox`, `HttpServerProofs` about `Buffer` | |
| `DataLemmas` | facts about numbers and sequences that several proofs use | |
| `MCDispatcher`, `MCDispatchThread` | give each thread its number for TLC | |
| `MCHttpServer` | lists what the clients may send | |

Variables and actions carry the names of the source. A failed `assert` sets
`aborted`, after which nobody moves. Variables marked *history* exist for the
properties only. Definitions called *faulty variant* are plausible bugs; no
specification uses them, they show that the properties can fail.

Modules build on one another by what was established below: `TcpServer` and
`TcpConnection` use a loop as a FIFO of functors that is swapped out and run
after the event handlers, which is the `Mailbox` that `Dispatcher` is proved
to implement. `HttpServer` runs on one such loop and uses `Send` and `ShutDown`
through what `TcpConnection` shows: bytes go out in order and the FIN follows
them.

### What the models abstract

* A mutex makes its critical section one step. `in_calling_pending_funcs_` is
  set in the same step as the swap: only the owner reads it.
* A plain `bool` or `enum` shared without a lock (`running_`, `state_`) is read
  and written in steps of its own.
* `pthread_cond_wait` may return for no reason; `pthread_cond_signal` wakes any
  one waiter.
* `epoll` is level triggered and reports any subset of the ready handlers that
  fills the array, or all of them.
* Log messages are numbers and a buffer holds a number of them; the bytes of a
  message on a connection are numbered units.
* `TcpServer`: `SetThreadNum` comes before `Start`, as in every program of the
  repository (the code does not check it). A user callback may keep the pointer
  it is given and may call `ShutDown`.
* The log file takes every line; a full disk is not modelled. The optional mutex
  of `LogFile` is absent, as in the only use the code makes of it.
* `Acceptor`: the kernel gives the lowest free descriptor and looks for one before
  it looks at the queue of clients, so a full table gives `EMFILE` even when
  nobody waits. Descriptor 0 is standard input and is never free: the loop
  condition `> 0` of the code would stop at it. `errno` survives from `Accept` to
  its test because the log macros are empty unless `ENABLE_LOG` is defined. The
  branch for `LONGCONN` is not compiled.
* `HttpServer`: a line is one unit of text with CR and LF after it, and a read
  may end after any unit, between CR and LF too. The parser's own rules are kept:
  `DELETE` is stored as `GET`; the version is judged by its length and last
  character; a line without a colon ends the headers; a body is not skipped and
  is taken for the next request line; a refused request line stays in the buffer;
  one request is handled per message callback; `Reset` keeps the headers. A turn
  of the loop without a CRLF among the headers changes nothing, so in the model
  it is a stuttering step that repeats for ever.
* `TcpConnection`: callers keep the bytes of a `Send` until they were sent. The
  code holds only a pointer to them, so this is a duty of every caller on
  another thread. `FlushOutputBuf`, which the header calls dangerous, is left
  out.

## 3. Runs

| Run | Bounds | Shows |
|---|---|---|
| `dispatcher` | owner, 2 other threads, 2 tasks, 1 I/O handler, an event array of 1, eventfd limit 3 with a write of 2, 1 `Quit` once the loop has begun | types and the flags of the loop, `NoLostWakeup`, `FifoExactlyOnce`, refinement of `Mailbox`, progress of tasks, quit and I/O |
| `dispatch_thread` | the same threads and tasks; the destructor may come as soon as `Start` has returned | `Start` returns, the destructor too unless its `quit_` is stored before `Loop` has reset it; nothing runs after the join |
| `thread_pool` | 2 producers, 2 workers, queue of 1, 3 tasks, 2 rounds | refinement of `Mailbox`, no sleep over work or room, asserts, progress |
| `async_logging` | 2 threads, buffers of 2, drop above 3, 8 messages, a flush at every third append | recycling asserts, file order, flushing, progress |
| `tcp_server` | 2 connections, up to 2 I/O threads, 1 concurrent user call | life cycle and freeing of connections |
| `tcp_connection` | 2 users, 2 messages of 2 units, kernel room 1, mark 3 | byte order, FIN, release of a throttled user |
| `http_server` | 98 scripts of one, two or three requests, both callbacks, every way to cut the reads; a vector of 1 + 4 units, an `extrabuf` of 8 | `PayloadKept`, `RequestsInOrder`, `WireIsAnswers`, `ParseEnds` |
| `acceptor` | 4 descriptors, 3 clients, 2 descriptors of other threads | ownership of descriptors, `OnlyOwnClosed`, `ClientsAnswered` |

Why the bounds are enough to be interesting: the eventfd limit lets one write
fit and a second fail; the event array is smaller than the set of handlers, so
it must grow; a queue of one with two producers and two workers makes both
conditions have several waiters; eight messages in buffers of two fill more
buffers than the drop limit; two connections on zero, one or two I/O loops take
both the inline and the queued path of every hop; a kernel room of one makes
every message split between the socket and the buffer, and two of them pass the
high-water mark; a vector of four units is smaller than a request, so it grows,
moves its payload and overflows into `extrabuf`, and three requests are what a
header needs to pass from the first to the last; four descriptors are the
listening socket, the spare and two that two connections or two other threads
use up. `CHECK_DEADLOCK FALSE` is given because these systems may
stop: a loop returns, a pool is stopped, all bounded work is done. Progress is
stated by the liveness properties instead.

Four runs end in a violation, and each is a place where the code does not do
what its comment says:

| Run | Counterexample |
|---|---|
| `early_quit` | `Quit` between the asserts of `Loop` and `quit_ = false` is erased (`dispatcher.cc:99`) |
| `pool_stop_twice` | a second `Stop` fails `assert(!joined_)` (`threadpool.cc:43` says it is harmless) |
| `send_raw_this` | the functor of a `Send` from another thread runs on a freed connection (`tcpconnection.cc:70`) |
| `shutdown_overtakes` | a thread calls `Send` and then `ShutDown`; `HandleWrite` sends the FIN before the queued data (`tcpconnection.cc:201`) |

Six more weaknesses are part of the models, and the properties say exactly how
far they reach:

* `Start` of a `DispatchThread` returns before `Loop` has begun, and nothing keeps
  `~DispatchThread` from calling `Quit` then. If `quit_` is stored before `Loop` has
  reset it, the assert of `dispatcher.cc:97` fails or line 99 takes the store back
  and the join never ends. `ThreadCallsReturn` has `[]~QuitTooEarly` as its condition:
  in every other behaviour, an early call whose store comes late among them, the
  destructor returns.
* `Reset` (`httpcontext.h:31`) builds a new request and throws it away, although
  `httpserver.cc:65` says that the context is reset for long connections. A later
  request of a connection still shows headers of earlier ones where it sent none,
  and a stale `Connection` decides whether the connection is closed.
  `RequestsInOrder` claims the headers a request sent itself, and that any other it
  shows was sent by an earlier request of the same connection; `WireIsAnswers` is
  about the request as the callback saw it.
* `~DispatchThread` may be between the store and the `Wakeup` of its `Quit` when
  the loop returns and the Dispatcher on its stack is destroyed
  (`dispatcher.cc:66`). `ThreadTypeOK`: nothing else uses a dead Dispatcher.
* `Stop` of the log returns with the messages in `current_buffer_` unwritten
  (`asynclogging.cc:53`). `FileInOrder` counts them as its last part, and
  `MessagesWritten` is about a log that runs.
* A read that ends among the headers makes `ParseRequest` loop for ever and takes
  its I/O thread with it (`httpcontext.cc:77`). `ParseEnds`: nothing else does.
* Another thread that takes the number of the spare descriptor while it is given
  up leaves the acceptor without one (`acceptor.cc:93`). `ClientsAnswered` and
  `AcceptorTypeOK` hold until then and again once the spare is back.

Two limits of the HTTP properties: a request that arrived together with another
waits until more bytes come (`httpserver.cc:63` handles one per message), and no
property says that it is ever answered; and `HttpTypeOK` has the parser before a
request line between messages only because it never returns from cut headers, so a
repair of `httpcontext.cc:77` has to change that clause too.

### Fairness

Threads are scheduled (weak fairness of each thread's own steps) and a call that
was begun is finished; a client need not send anything, so only the turns of the
parser have fairness in `HttpServer`. Strong fairness is used in five places. A callback of a
loop returns, although it may call the Dispatcher before. `epoll_wait` is not
interrupted by signals for ever when something is ready. A watched socket that
stays ready is served although the loop is in its other phase in between: epoll
is level triggered and the array grows, which run `dispatcher` shows as
`IoServed`. A user does not keep the pointer of a destroyed connection for ever,
which only `ConnectionFreed` needs. `accept` is not interrupted each time it is
called (`EINTR` ends the callback, and the listening socket is reported again).
The epoll timeout has no fairness: no
property may rest on it. The log's flush interval does end the wait of the back
end, because `waitForSeconds` is how that code flushes.

## 4. Proofs

TLAPS checks the theorems below for every value of the constants allowed by the
`ASSUME`s of the modules. Every safety invariant and every action property that
a passing run checks is proved, and both refinements of `Mailbox`. Three of the four
claims that fail in a run are proved under the condition the code leaves out, and
the fourth (`pool_stop_twice`) is `AssertsHold`, which has that condition as a
hypothesis.

**Dispatcher** (`DispatcherProofs`). `NoLostWakeup` is not inductive: it speaks of
the moment before `epoll_wait`, and what makes it true there was done earlier.
The types include `LoopFlags`: `looping_`, `in_calling_pending_funcs_`, the reported
handlers and the swapped functions agree with the place of the loop. The inductive
invariant `IInv` adds to them that an unwoken pending task can
exist only while the loop has still to swap the queue: outside those places a
pending task not queued before the loop has a readable eventfd or a caller about
to write it. A write that does not fit fails only because the counter is already
positive. From `IInv` follow `TypeCorrect`, `WakeupNeverLost` and `FifoOrder`;
`DispatcherImplementsMailbox` shows step by step that the loop refines
`Mailbox` with `queue <- local \o pending`: a push is a submission, running a
functor is an execution, the swap and everything else is a stutter.
`LateQuitSticks` has the hypothesis `~EarlyQuit`: when nobody calls `Quit` before
`Loop` has reset `quit_`, no step takes a stored `quit_` back. So the window of run
`early_quit` is the only one.

**DispatchThread** (`DispatcherProofs`). `TInv` is `IInv` with `LifeInv`, which ties
the life of the Dispatcher on the I/O thread's stack to the places of `Start`,
`ThreadFunc` and the destructor. It gives `ThreadTypeCorrect`, the promises of the
Dispatcher again in this setting (`ThreadKeepsPromises`), and
`QuietAfterDestructor`: once the join is over the loop thread has exited, so no
step can run a task.

**ThreadPool** (`ThreadPoolProofs`). The invariant `PInv` joins the types, the
order of the queue and `NoSleepOverTasks`, which is inductive given that a notify
turns a sleeping worker into one that will enter the queue's critical section.
For producers the same idea is not enough, because several pops may make room
before any woken producer comes back. `RoomInv` counts: while a producer sleeps,
the queue and the producers on their way together reach the limit. Hence
`ProducersNeverSleepOverRoom`. `AssertsHold` rests on `JoinInv` (the threads still
to be joined are not joined) and has two hypotheses that the code needs: a
positive limit, because a limit of 0 means "none" to the wait and "nothing fits" to
the asserts (`threadpool.cc:63`), and no repeated `Stop`, which run
`pool_stop_twice` shows to fail. `PoolKeepsPromise` is the refinement of `Mailbox`,
with `queue <- queue_`, `done <- taken`, `direct <- inline`. A task enters the
abstract queue long after the test that it is a new one, so the step needs
`PendingInv`: what a producer is pushing is in no queue and was not run inline, and no
two producers push the same task, however long they wait for room.

**AsyncLogging** (`AsyncLoggingProofs`). `LInv` says which of the buffers are where:
the front end is without `next_buffer_` only when it has filled a buffer, both
spares are there outside the writing part of a round, and for every spare given
away there is a buffer in hand. This makes the asserts on recycling hold
(`RecyclingSuffices`), also after the drop of an overload, which keeps two. The
same invariant carries `SleepsOverNothing`. `LogFileInOrder` follows a message
along `Pipeline` (file, buffers of the back end, full buffers, current buffer):
every step leaves the pipeline as it is, appends the newest message, or cuts out
the dropped ones, and so it stays increasing and complete.

**TcpServer** (`TcpServerProofs`). `SInv` gives every connection one of six phases
(absent, connecting, up, closing, closed, gone) and says of each functor waiting
on a loop which phase its connection is in: `established` only while connecting,
`remove` only while closing, `destroyed` only while closed, each at most once. A
closed connection, which has left the map and is still in the epoll set, has its
`destroyed` functor waiting, and that functor holds the pointer. From these follow
`LifeCycleAssertsHold`, `EpollHoldsNoDead` and `CallbacksComeInPairs`. `EvenInv` is
the round robin: the loops before `next_` have one connection more.

`Send` and `ShutDown` from another thread bind a raw `this`, and run `send_raw_this`
shows the functor on a freed connection. `HeldIsNeverFreed` names what a user has to
do about it: `ServerSpec /\ [][DropsSettled]_serverVars => []NoUseAfterFree`, where
`DropsSettled` says that a step that lets go of a `TcpConnectionPtr` finds no functor of
`Send` or `ShutDown` of that connection waiting. Then every such functor has a
pointer of the user behind it (`HeldInv`). The discipline is about the last pointer
only: the connection may be closed and destroyed meanwhile.

**TcpConnection** (`TcpConnectionProofs`). `CInv` joins the types of the byte
sequences, the bound of the kernel buffer (so that `write` never takes a
negative number), `StreamInOrder` and the link between `careWrite` and a non-empty
buffer. The link is what makes both conclusions true: `SendInLoop` writes past
the buffer only when it is empty, and `ShutDownInLoop` tests only the watched
event and still never cuts off buffered data (`FinWaitsForData`).

`SettledFinAfterData` is the counterpart of run `shutdown_overtakes`:
`ConnSpec /\ [][ShutDownSettled]_connVars => []FinAfterData`, where `ShutDownSettled`
says that a thread stores `DISCONNECTING` only when none of its own messages waits in
the queue of the loop. `FInv` follows a message from the queue to `SendInLoop` to
the kernel; it also needs that no FIN, no `ShutDown` functor and no caller about to
queue one exists while `state_` is `CONNECTED`, so that the promise is not made
after the FIN. Messages of other threads may still come after it, as in the
code.

**Acceptor** (`AcceptorProofs`). `AInv` says for each place of the callback which
descriptors are the acceptor's own: the spare while it is settled, none while it
is given up, the refused client's in between. The rule that makes
`ClosesOnlyItsOwn` true is that `idle_fd_` is closed only at places where it is
the acceptor's or `NoFd`; `RacedInv` adds that the spare is missing only when
another thread took its number. `ClientsAssumption` says that a client is not one
of the words for the other owners of a descriptor.

**Buffer and HTTP** (`HttpServerProofs`). Lemmas say of `Resize`, `BufferAppend`,
`readFd`, `findCRLF` and `move_read_index` what they do to the payload, for any
indices and sizes: in particular that `readFd` splits its data between vector and
`extrabuf` without a loss, and that the search for CRLF finds the first one.
With them `ReadInv` is inductive, and gives `HttpTypeCorrect` and
`BufferKeepsPayload`. `WireInv` adds what was sent: while nothing has closed, the
answers of all handled requests; then those up to the closing one; or those and
one 400, in which case the refused line is still at the front of the buffer, so
that every later message is refused again and nothing more is handled. Hence
`AnswersInOrder`. The answer itself is what `AppendToBuffer` leaves after any
number of pieces (`AppendToBufferIs`). `ScriptsAssumption` says that a client's
requests, header lines and bodies are sequences.

`CallbackSeesRequests` (`RequestsInOrder`) needs the position of the parser in the
client's stream. `ParseInv` says what starts at `consumed` when `n` requests have been
handled: between messages, the encodings of the requests after `n`, or something
that does not begin with a request line and is refused for ever (`Stuck`: a body, or
what follows a header line without a colon); among the headers, the header lines of
request `n + 1` that are left, its body and the later requests. It also says that
`request_.headers_` is the map of all header lines passed on the connection so far,
that the handled requests are the ones of the script, and that each of them was
accepted. Of two runs of header lines the later decides on its own fields
(`HeaderMapConcat`), so a request shows its own headers whatever came before it. The bytes received are only a prefix of the
stream, and a cut may lie between CR and LF, so each step of the parser is first shown to
find in the buffer the line that starts at `consumed` in the stream.
`UnitsAssumption` says that a header line has a colon or is text without one, and that
no body begins with a request line: the parser does not skip a body, so such a line
is the next request to it, and a script lists it as one.

**Data** (`DataLemmas`). The provers cannot instantiate an induction theorem that
takes an operator, so induction is stated over a set of numbers
(`NatSetInduction`), and a recursive function is first shown to exist
(`FlattensExists`) and to be unique. This gives the laws of `FlattenSeq`, on which
the log's order and the HTTP answers rest.

Only model-checked: liveness (`LoopProgress`, `IoServed`, `ThreadCallsReturn`,
`TasksTaken`, `PoolCallsReturn`, `MessagesWritten`, `LogCallsReturn`, `ConnectionFreed`,
`ShutDownSendsFin`, `ThrottleReleased`, `ParseEnds`, `ClientsAnswered`), because the
provers here have neither ENABLED nor fairness, and the four counterexamples, which
are behaviours and not theorems.

## 5. Not modelled, and the plan

Every part with state of its own is modelled as far as the list below, and what the provers can reach of the
properties is proved. Whoever changes the code starts from the module of the part,
runs its configuration and then its proofs.

Not modelled:

* `~TcpServer` (`tcpserver.cc:30`): its body is a TODO, "close all Connection". A
  server destroyed while its connections live would leave their handlers in the
  epoll sets of loops that go on, so `RegisteredIsAlive` and the other properties of
  `TcpServer` are about a server that lives as long as its base loop runs, as in
  the programs of the repository.
* `InetAddr`, `Timestamp`, the number formatting of `LogStream`: conversions to text
  without state, which no other part looks at.
* `FlushOutputBuf`, `GetCharStr`, `GetString`, `response_503` and `max_conn_`, the
  `disable_*` options of `Socket`: nothing but commented-out code or test programs
  calls them.
* The registration of a handler before its callbacks are set
  (`eventhandler.cc:23`): an event in between reaches `HandleWrite`, which does
  nothing then, and the race on the `std::function` itself has no outcome these
  properties could tell apart.
* Failures of `pthread_create` (the process exits) and of stdio (reported on
  standard error).
* `Timer` and `Singleton`, which nothing uses, and the programs under `test/`.
