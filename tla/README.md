# A TLA+ model of netLibary-muduo

This directory is a formal model of the network library in `src/`: a reactor
(`net/EventLoop`), the classes built on it (connections, timers, server, client)
and the threads, queues and logging of `base/`. Each module follows the code of
one component; TLC checks it on small instances, and TLAPS proves what is stated
for every instance. `PROJECT.json` lists runs, mutants, the code behind each
definition, the hazards and the theorems.

Paths below are relative to `src/`.

## Inventory

The library is "one loop per thread": objects belong to a loop, handlers run on
its thread, and other threads only queue functors. What is hard is what crosses
that line, and what happens to an object while functors or events for it are on
their way.

| component | state | operations | talks to | hard behaviour | what makes it correct |
|---|---|---|---|---|---|
| `EventLoop` | `pendingFunctors_` under `mutex_`, `callingPendingFunctors_`, `quit_`, eventfd | `loop`, `runInLoop`, `queueInLoop`, `doPendingFunctors`, `quit`, `wakeup` | every other class queues functors in it; poller, timers | push, test and wakeup race with swap and `poll()`; functors that queue functors; `quit()` at any point | no functor waits under a blocked `poll()`; FIFO, once each; batches end; `quit()` ends the loop |
| `EventLoopThread`, `Thread`, `CountDownLatch`, `MutexLock`, `Condition` | `loop_` under `mutex_`/`cond_`, latch, `holder_` | `startLoop`, `threadFunc`, destructor | `EventLoop` | notify before wait, spurious wake-ups, a destructor at any time, `loop_` read unlocked | the returned loop is alive; start and destructor return; a mutex names its holder |
| `TcpConnection`, `Channel` | `state_`, `outputBuffer_`, interest, poller index, `reading_` | `send`, `shutdown`, `forceClose`, `startRead`, handlers of events, `connectEstablished`, `connectDestroyed` | its loop, its server, the kernel, the application's callbacks | sends of several threads, four ways to close, events dispatched after a close, a server that dies first | bytes in order; write interest iff data; FIN after data; one up, one down, silence after; destroyed in the end |
| `Poller`, `EPollPoller`, `PollPoller` | `channels_`, `pollfds_` or the epoll set, the array of results | `updateChannel`, `removeChannel`, `poll` | `Channel`, kernel | swap-with-last removal, negated descriptors, descriptors that go from one channel to the next, more events than results | the kernel watches what the channels ask for and what is ready is reported |
| `TimerQueue`, `Timer` | two ordered sets, timerfd, `cancelingTimers_` | `addTimer`, `cancel`, `handleRead`, `reset` | `EventLoop` | cancel from inside callbacks, reused addresses, times in the past | sets agree; nothing dangling; armed for the earliest; no cancel lost or misdirected |
| `TcpServer`, `Acceptor`, `EventLoopThreadPool` | `connections_`, `nextConnId_`, `idleFd_`, `next_` | `start`, accept, `newConnection`, `removeConnection`, destructor | loops of the pool, connections | removal over two loops, EMFILE, destruction in any state | removed once, freed after removal, descriptors not shared, clients answered, destructor returns |
| `Connector`, `TcpClient` | `connect_`, `state_`, `channel_`, `retryDelayMs_`; `connection_`, `retry_` | `connect`, `retry`, `restart`, `stop`, `disconnect`, destructor | loop, its timers, kernel | timers that outlive a stop, bare pointers in functors, stop against restart | sockets owned, one connection at a time, targets alive, retry goes on until stopped |
| `Buffer`, `Endian` | indices over a vector | append, retrieve, prepend, unwrite, shrink, integers, `readFd` | connection, HTTP | `makeSpace` moving data, two-part reads | it is a byte queue, integers come back |
| HTTP (`HttpContext`, `HttpServer`, ...) | parse state, request | `parseRequest`, `onMessage`, `onRequest` | connection, `Buffer` | requests in fragments, several in one read, input after a bad line | the result does not depend on how input is cut |
| `ThreadPool` | `queue_`, `running_`, two conditions | `start`, `run`, `take`, `stop` | worker threads | lost and misdirected notifies, stop against waits | each task once; queued tasks run; callers and `stop()` return |
| `BlockingQueue`, `BoundedBlockingQueue` | queue, conditions | `put`, `take` | threads | the same | a bounded FIFO |
| `AsyncLogging` | four buffers going round, `running_` | `append`, `threadFunc`, `stop` | `LogFile` | swap against appends, drop rule, timed wait | no line lost, doubled or overtaken but by the drop rule; spare buffers always return |
| `LogFile`, `AppendFile` | `writtenBytes_`, `count_`, last roll and flush | `append`, `flush`, `rollFile` | files | roll by size against by period within one second | a file overruns its size only where the code cannot roll |
| `Logging`, `LogStream` | a line's buffer, each thread's last second, the global level, zone and output | the macros, `formatTime`, `finish`, `setLogLevel`, `setTimeZone`, `abort` | `AsyncLogging` or stdout, `TimeZone` | a cached second against clock, zone and other threads; lines longer than the buffer | a line has its parts, whole and in order, and shows its time; FATAL lines are out before `abort()` |
| `Timestamp`, `Date`, `TimeZone` | a zone's transitions | calendar arithmetic, searches of a transition | `Logging` | negative seconds, leap years, the hour that comes twice | each equals a day-by-day reference, and conversions return |
| sockets, addresses, `ProcessInfo`, small base classes | none | wrappers of system calls, helpers | kernel | - | - |

`base/Logger.*`, `net/TcpServer .cpp` and `.h` (with a blank in the name) and
`base/test/TimeZone.cpp` are older copies; `net/test.*`, `net/test/Poller.*` stubs.

CMake sets no build type for the library, so `assert()` is compiled in unless a
user adds `NDEBUG`; the models have the assertions where they matter.

## Modules

`EventLoop` is the base. The other modules use what it shows: a loop's queue is a
FIFO whose functors run on the loop's thread, one at a time, and run in the end.
They therefore treat a handler or functor of a loop as one step and keep a queue
per loop; steps of other threads are cut wherever the code touches shared state.

| module | models | correspondence |
|---|---|---|
| `TaskQueue` | what `queueInLoop()` promises | abstract FIFO: `Accept`, `Run` |
| `EventLoop` | `net/EventLoop.cpp` | `phase` is where `loop()` is (test, poll, events, the start of `doPendingFunctors`, swap, run); a call of another thread is push, then the test and `wakeup()`; functors may queue functors and quit |
| `EventLoopProofs` | - | theorems about `EventLoop` |
| `Mutex` | `base/Mutex.h`, `base/Condition.h` | `stage` is where each thread is in `lock()`, `unlock()` or `wait()`: the pthread mutex and `holder_` are written in steps of their own |
| `EventLoopThread` | `net/EventLoopThread.cpp`, `base/Thread.cpp`, `base/CountDownlatch.cpp` | extends `Mutex`, with `latch_`'s mutex and `mutex_`; `owner` and `child` are program counters, one step per access to shared state |
| `EventLoopThreadProofs` | - | theorems about `EventLoopThread`, and lemmas about `Mutex` |
| `TcpConnection` | `net/TcpConnection.cpp`, `net/Channel.cpp`, update and removal of `EPollPoller` | one action per functor and per event callback; `revents` are the callbacks of one dispatch that are still to come; a foreign `send()`, `startRead()` or `stopRead()` is test, then queue; bytes are numbered per sender; `app` is what the application does, one of `Apps` |
| `TcpConnectionProofs` | - | theorems about `TcpConnection`, and about `Buffer`, through which its bytes go |
| `TimerQueue` | `net/TimerQueue.cpp`, `net/Timer*` | `heap` is the allocator, which reuses addresses; `handleRead()` is `BeginExpired`, one `RunTimer` per callback with the calls it makes, `Reset` |
| `BoundedBlockingQueue` | `base/BoundedBlockingQueue.h` | `Put`, `Take`, waits and spurious wake-ups; used as an abstract specification |
| `ThreadPool` | `base/ThreadPool.cpp` | a critical section between two waits is a step; `notify` picks any waiter |
| `ThreadPoolProofs` | - | theorems about `ThreadPool` |
| `TcpServer` | `net/TcpServer.cpp`, `net/Acceptor.cpp`, `net/EventLoopThreadPool.cpp`, and of `TcpConnection` the start and end | loop 0 is the base loop; `batch`, `ran`, `pending` per loop, since the references that functors hold decide when a connection is freed |
| `TcpServerProofs` | - | theorems about `TcpServer` |
| `Connector` | `net/Connector.cpp` | its handlers as operators |
| `TcpClient` | `net/TcpClient.cpp` | extends `Connector`; `removing` is the point between the test of `connect_` and `restart()` |
| `TcpClientProofs` | - | theorems about `TcpClient` with `Connector` |
| `FileUtil` | `base/FileUtil.cpp` | the loops over writes and reads that do a part, as functions of what each call returns |
| `LogFile` | `base/LogFile.cpp` | extends `FileUtil`; operators: append, roll, flush; a second of time is the unit, and a write takes all |
| `AsyncLogging` | `base/AsyncLogging.cpp` | extends `LogFile`; `back` is the program counter of `threadFunc()` |
| `AsyncLoggingProofs` | - | theorems about `AsyncLogging` with `LogFile` |
| `Calendar` | `base/Date.*`, `base/TimeZone.cpp`, `base/Timestamp.*` | functions; C++'s division is `Quotient` and `Remainder` |
| `LogStream` | `base/LogStream.*` | extends `Calendar`; a buffer is the sequence of its pieces with their lengths; the digits of numbers |
| `Logging` | `base/Logging.*` | extends `AsyncLogging` and `LogStream`; a thread's Logger goes from the level test (`BeginLine`) over `FormatTime` to `EndLine`; what the lines are given to is chosen at the start |
| `Buffer` | `net/Buffer.*`, `net/Endian.h` | operators on a record of the vector and two indices; a byte is a value of `0..Base-1` where numbers matter |
| `HttpContext` | `net/http/HttpContext.*`, `HttpRequest.h`, `HttpResponse.*` | extends `Buffer`; a line is a token and the two bytes that end it |
| `HttpServer` | `net/http/HttpServer.cpp`, with `handleRead()`, `send()`, `shutdown()` of its connection | a read of n bytes of what the client sent is one action, with `onMessage()` |
| `Poller` | what the class `Poller` promises | abstract: what each channel is watched for, what `poll()` returned and the loop has yet to handle |
| `DefaultPoller` | `net/poller/*`, the parts of `Channel` and `EventLoop` that reach it | `kind` is the environment's choice of poller; `phase` is where `loop()` is, and channels are made, changed and destroyed where user code runs |
| `EventSourcesProofs` | - | theorems about what a loop waits for: `TimerQueue` and `DefaultPoller` |

Operators named `Mut...` are plausible mistakes in the definition that follows
them; no specification uses them. Each is listed in `PROJECT.json` with the property that it
breaks: they show that the property depends on that piece of code.

Constants that restrict the environment (`WhileConnected`, `DestroyUnderLoop`,
`CarefulOwner`, `CallbackMayQuit`, the records in `Apps`) mark preconditions of the
code. See "Where the code and its promises part".

## Runs

`tlc -config <cfg> <module>` for each:

| run | instance | shows |
|---|---|---|
| `loop` | 2 callers and the loop's thread, 3 functors, 1 `quit()` | `NoLostWakeup`, `BatchClosed`, the refinement `ImplementsTaskQueue`; live: `PostedRuns`, `QuitStops` |
| `thread` | owner and child | `LoopOutlivesUse`; live: `OwnerReturns` |
| `thread_dtor` | the same | *violated*: `DtorReturns` |
| `conn` | three applications: every close on the loop against sends of 2 bytes by the loop and a thread; sends only, 2 bytes each, a server that may die; or close and reading switched by either thread, 1 byte each, 1 call, a server that may die | `BytesThenFin`, `UpThenDown`, `NoAssertionFails`, `NothingSentAfterDown`; live: `BufferDrains`, `PeerCloseDestroys` |
| `conn_fin` | loop only, 2 bytes | *violated*: `ShutdownSendsFin` |
| `timer` | 2 addresses, 3 timers, times 0..2, delays -1 and 2, interval 1 | `SetsConsistent`, `AlarmCoversEarliest`, `CancelledStaysCancelled`, `NoTimerLost` |
| `pool` | 2 workers, 2 callers, 4 tasks, bound 2 | `TasksAccounted`, the refinement `ImplementsBoundedQueue`; live: `QueuedTaskRuns`, `CallsReturn` |
| `server` | base loop and 0 to 2 loops, 4 clients, 3 descriptors | `ConnectionsSafe`; live: `ClientsAnswered`, `ClosedIsFreed`, `ServerGoes` |
| `client` | 5 attempts, with and without retry | `PointersGood`, `OneConnection`, `StopEnds`; live: `KeepsTrying` |
| `logging` | to a file by `AsyncLogging`: 6 lines, buffers of 1, drop above 3 buffers, times to 4, files of 2 lines; to stdout: 2 threads, `LOG_DEBUG` and `LOG_SYSFATAL`, texts of 5, 3900 and 3937 bytes, 2 seconds round a leap day, 2 zones | `LinesInOrder`, `BuffersGoRound`, `OverrunsOnlyAtFirst`, `LinesWhole`, `TimesRight`; live: `LinesWritten` |
| `http` | lines of weight 6, cut anywhere; prepend area 1, first size 2; all buffers of up to 5 cells | `AnswersRight`, `BufferIsDeque` |
| `poller` | both pollers, 3 channels, descriptors 0 to 2, a result array of 1 | `WatchedAsAsked`, the refinement `ImplementsPoller`; live: `ReadyIsHandled` |

Deadlock is not checked where a system may stop: a loop that was left, a connection
that is destroyed, bounds that are used up.

Why these bounds reach the interesting cases:

* `loop`: three functors fill a batch, the queue behind it and a push on its way at
  once. A second caller is needed for a wakeup that is another thread's.
* `conn`: one run has all three applications, since the state of a connection is the same.
  Two bytes are one sent directly, or partly, and one that finds the buffer in use; two calls let every pair of ways to close meet. High-water marks are
  crossed.
* `timer`: with three timers and two addresses, an address is reused while the
  TimerId of the first timer is still around, and while another timer runs. Delay -1
  is a time that has passed.
* `pool`: four tasks against a bound of two put both callers on `notFull_` with two
  workers on the way. Two waiters on one condition are needed to misdirect a notify.
* `server`: two free descriptors make the third client meet EMFILE; a fourth reuses a
  descriptor after a removal, over two pool loops. The threads of the pool call `loop()`
  at any time after `start()`, also after the destructor has told them to quit.
* `client`: five attempts have a failure before, between and after connections; the
  last one succeeds, or the retries would only be cut off by the bound.
* `logging`: buffers of a line make every second line fill one; above three buffers
  are dropped (25 in the code; the rule needs only more than two kept). The threads
  that log to stdout begin two seconds before the end of the 29th of February 2000. Texts
  of 3900 and 3937 bytes bring a line to where the buffer takes the text and not the
  rest, or all but its end. What a thread does before `g_output` does not depend on what
  that is, so the threads run with stdout, and `append()`'s callers are `AsyncLogging`'s.
  `MicroSecondsPerSecond` is 1 there: which microsecond it is changes nothing.
  The calendar is looked through from 1900 to 2500, at both ends of 32-bit seconds, round
  each transition of a zone with two summers; the numerals at the powers of ten and of
  sixteen and at the steps of `formatSI()` and `formatIEC()` below 999.5M and 1023.5Mi,
  what TLC's integers hold.
  `FileUtil`'s loops take texts of up to four bytes through five calls, each of which does
  none, a part or all, or fails.
* `http`: the two lines of the shortest request weigh one each, those of another version or
  with a header two, odd ones three. So there are three requests in any number of reads,
  the third behind one that waits; or two with another version or a header; or a bad line at any place
  of a request. A read may end between the bytes of a line's end. Two
  bytes of first size make every request grow or move the buffer, and six bytes of
  `readFd()`'s second part let a read be longer than the buffer. `BufferIsDeque` takes
  each buffer of up to five cells through each call, and each call after that, reachable
  or not.
* `poller`: three entries make a removal from the middle of `pollfds_`; descriptor 0 has
  a negative of its own only because the code subtracts one; two channels take turns at a
  descriptor; with room for one result, three ready descriptors need two growths.
  One kind of event is enough: the books do not tell kinds apart.

### Fairness

Weak fairness of a thread says that it is scheduled, and that callbacks and functors
of the application return. Nothing is assumed of users: nobody has to call, connect,
close or quit.

* `thread`: strong fairness for the thread's `lock()`: the owner may wake up for nothing
  again and again, and takes the mutex each time, but gives it back.
* `loop`, `thread`: `poll()` returns when the eventfd is readable. There is no
  fairness for its ten-second time-out, so nothing that is shown depends on it.
* `conn`: strong fairness for a poll that reports all that is ready. The poller
  is level-triggered, and what it leaves out now it reports later.
  `forceCloseWithDelay()`'s timer expires.
* `server`: the listening channel and each loop are served, and a thread that was started
  calls `loop()`. The destructor goes on.
* `pool`: each thread runs. A wait has to end only after a notify.
* `client`: timers expire and the kernel ends every attempt, one way or another.
* `logging`: the back end's wait has a time-out, as in the code.
* `poller`: the loop goes on, and callbacks and functors return. `poll()` may report
  any of the ready descriptors when there are more than it has room for.

## Proofs

`EventLoopProofs` holds for any set of callers and functors and any number of
`quit()` calls. It assumes only that the loop's thread is not one of the callers
(`EventLoop`'s named assumptions).

* `TypeCorrect`: `Spec => []TypeOK`.
* `Inductive`: `IInv == TypeOK /\ PhaseInv /\ WakeInv /\ QueueOrder` is inductive.
  `NoLostWakeup` alone is not: it speaks of the loop about to poll, and to keep it
  one has to know what holds while the batch runs. A functor pushed by another
  thread at that time brings a wakeup because `callingPendingFunctors_` is set
  (`PhaseInv` ties that flag to the phase); one pushed by the running functor has
  its own wakeup still to come (`WakeInv`'s third disjunct); one pushed before the
  swap needs none, as the swap takes it.
* `WakeupNeverLost`, `OrderKept`, `BatchOnlyShrinks` follow.
* `Refinement`: `Spec => Abstract!Spec`, with the abstract queue mapped to the batch
  followed by the pending functors. `QueueOrder` gives the freshness that `Accept`
  demands: `posted` holds every functor ever pushed, and the code that is modelled
  pushes a functor object once.

The theorems of `Buffer`, at the end of `TcpConnectionProofs`, hold for every buffer whose indices are in order (`reader <= writer`,
both within the vector, the prepend area whatever it is), of any contents and any
length. `BufferParts` says that the vector is what is before the readable bytes, they,
and what is behind; the lemmas `CopiedCells` and `ConcatCells` say what a copy leaves at
each index, and the theorems compare sequences index by index with `ReadableIsSeq`.

* `RetrieveDrops`, `UnwriteCuts`: exactly the bytes at one end go.
* `MakeSpaceKeeps`: growing or moving, the readable bytes stay, the room asked for is
  there, and the indices stay in order; `EnsureWritableKeeps` has the test in front.
* `AppendAddsBehind`, `ReadFdAddsBehind` (in its three cases, by the size of what was
  read), `PrependAddsBefore`: the readable bytes become those and the new, in order.
* `ShrinkKeeps`: the new vector has the same readable bytes and the room asked for.

`BufferIsDeque` checks the same laws, and those of integers and of strings, on small
buffers.

`ThreadPoolProofs` holds for any workers, callers, tasks and `maxQueueSize_`. When that is
0, no bound, `UnboundedAssumption` has finitely many tasks: the queue is compared with a
bounded one that has room for all of them.

* `TypeCorrect`: types, and the queue within its bound.
* `EachTaskInOnePlace`: `TasksAccounted`. The run's property says that a task is somewhere;
  to keep it one needs that it is nowhere else (`OnceInv` within callers, queue and
  workers, `ApartInv` between them): a `take()` would otherwise leave a second copy
  behind. `HandsInv` says who has a task in its hands at which point of its code.
* `Refinement`: `Spec => ImplementsBoundedQueue`, with waiting workers mapped to waiting
  takers and `stop()` to nothing.

`EventLoopThreadProofs` is about the one owner and the one thread of the class. The lemmas
about `Mutex` (`LockKeeps`, ...) hold for any threads and mutexes.

* `HolderIsRight`: `holder_` is the thread inside the mutex, at every point between the
  steps of `lock()`, `unlock()` and `wait()`, and nobody else ever finds itself in it.
  `MutexInv` ties both variables to the threads' stages.
* `HandOverIsSafe`: `LoopOutlivesUse`. `OwnerInv` says how far the thread must be
  given where the owner is. What makes it inductive is `AskedInv`: a loop that was handed
  out is left only after someone asked it to quit. `EventfdInv` bounds what is written to
  the eventfd.

`AsyncLoggingProofs` holds for any number of lines, any size of a buffer and a file, any
limit of the drop rule above one and any period (`AsyncLoggingAssumption`,
`LogFileAssumption`).

* `LinesStayInOrder`: `LinesInOrder`. Lines are in up to five places: the file, buffers
  being written, buffers that are full, the current one, and those that were dropped. The
  proof turns these into one sequence of parts and shows of any such sequence that moving a
  boundary between parts, or taking a part out, keeps the order (`OrderInv`).
* `BuffersAlwaysGoRound`: `BuffersGoRound`. `FrontInv` says that a missing `nextBuffer_`
  means a full buffer, so that at the swap what `newBuffer2` is used up for leaves a second
  buffer to get back (`BackInv`).
* `FilesOverrunOnlyAtFirst`: `OverrunsOnlyAtFirst`, which needs only that the clock does
  not go back (`ClockInv`).

`TcpConnectionProofs` holds for any threads, any applications and any high-water mark.

* `BytesInOrder`: `BytesThenFin`, for every application, on any thread. That the wire and
  `outputBuffer_` hold the first bytes of each sender is not inductive, as a foreign
  `send()` leaves its bytes in a functor. `BytesInv` follows the whole pipe (`Piped`): wire,
  buffer and then the queued `sendInLoop()`s, front to back, hold each byte that was sent,
  those of one sender in order, until the connection is down or broken. The loop's own
  bytes are never in a functor (`CargoInv`), so `sendInLoop()` on the loop overtakes nobody's.
* `ToldOnce`: `UpThenDown`; `SilentAfterDown`: `NothingSentAfterDown`;
  `SendersMeetNoAssertion`: `NoAssertionFails`.
* `Destroy` waits only for the functors that hold a reference. That no other functor than
  a `sendInLoop()` is left in the queue, and of each thread at most one after a close, is
  shown and not assumed: `connectDestroyed()` is the last functor that the
  loop's own calls queue, and a thread that finds the connection down queues nothing more.
* The invariant follows the life of a connection. `BeforeInv` fixes everything before
  `connectEstablished()`, the first functor of the queue. `UpInv` and `DownInv` tie
  callbacks, `state_`, interest, the channel's index and the epoll set to each other.
  `DownInv` says that what is left of a dispatch in which the connection went down is at
  most a write event, and that a channel still in the epoll set has its
  `connectDestroyed()` to come; `OwnerInv` says that there is one of these. They hold as
  long as every close is on the loop, or nothing but `send()` was called (`Orderly`):
  other applications may break them, as the next section says.

The first part of `EventSourcesProofs` is about `TimerQueue`. It holds for any addresses, threads, delays, past and future, and bounds.

* `SetsStayConsistent`: `SetsConsistent`; `EarliestIsCovered`: `AlarmCoversEarliest`;
  `CancelTakesEffect`: `CancelledStaysCancelled`; `TimersAreNotLost`: `NoTimerLost`.
* They are proved together, as `IInv`: whether an address in a set is alive depends on the
  batch of `handleRead()` and the queued `addTimerInLoop()` not having it too (`BatchInv`,
  `PendingInv`), and whether a cancel meets its own timer depends on sequence numbers never
  being used before their time (`SeqsInv`). `CancelInv` is what `reset()` relies on: the
  cancelled timers of the batch are those in `cancelingTimers_`, so that it deletes no
  repeated timer that nobody cancelled. `AlarmCoversEarliest` uses that a
  finite set of times has a least one.

Its second part is about `DefaultPoller`, for any channels, descriptors, events and size
of the first result array (`EventsAssumption`, `FdsAssumption`, `ListSizeAssumption`).

* `BooksAgree`: `WatchedAsAsked`. `PollerIInv` has an invariant for each poller under the
  owners' common one (`OwnersInv`: the map has each added channel under a descriptor that
  no other added channel has). `PollInv`: every entry of `pollfds_` is some channel's, and the array
  is as long as the map, so that the last entry has a channel to be moved with; an entry
  may be negative only when its channel asks for nothing. `EpollInv`: `index_` tells
  whether the kernel's set has the channel, with the events it asks for. The lemma
  `WatchIsAsked` turns both into one statement about what the kernel watches
  (`WatchFacts`).
* `PollersArePollers`: `PollerSpec => ImplementsPoller`, the refinement of `Poller` by both
  pollers. An update and a removal change what is watched of their own channel only
  (`Asked`, `OthersKept`), also where the last entry moves; a channel that stops asking is no
  longer watched; what `poll()` hands out is different channels of the loop (`Polled`),
  and a channel is not removed while it waits to be handled. A failing assertion, and a
  channel made or destroyed, is a stutter.

`TcpClientProofs` holds for any number of attempts (`MaxAttemptsAssumption`). Two of its
theorems are about an owner with `CarefulOwner`, who connects once and destroys the client
with none of the Connector's functors queued; without that the code does fail its
assertions (next section). Timers may come at any time: the history variable `stalled` is set when one
comes before the loop got round to what was queued when it was set, and an assertion or a bare pointer then depends on it.
The two theorems say what holds until then.

* `PointersAreGood`: `PointersGood`; `ConnectsOnce`: `OneConnection`. `IInv` says of each
  functor what it will find: `startInLoop()` is queued once and before every attempt
  (`BeginInv`, `StartOnce`), `resetChannel()` runs when the channel has left the poller,
  `connectDestroyed()` of a connection that is down (`QueueInv`). A timer and an attempt
  exclude each other (`ConnectorInv`). A connection whose close callback is the client's is the
  client's connection; of a client that is gone only the attempt that `stopInLoop()` is
  about to end is left (`ClientInv`). `RoundsInv` shows that two rounds of functors in the
  destructor's second are enough: `stopInLoop()` runs in the first, the `resetChannel()`
  that it queues in the second.
* `StopIsFinal`: `StopEnds`, for every owner and every timer. Every way into kConnecting
  reads `connect_` in the step that takes it, so only a `restart()` brings it back; and only
  one whose caller read the client's `connect_` before `stop()` cleared it does, of which there is one.

`TcpServerProofs` holds for any number of pool loops, clients and descriptors
(`BoundsAssumption`, `FdsAssumption`), and for a destructor that may come while loops run
or not (`DestroyAssumption`).

* `Invariance`: `IInv` is inductive. `ConnectionsStaySafe`: `ConnectionsSafe` follows.
* A removal goes over two loops, so the invariant speaks of what each loop has still to
  run, in order: the rest of its batch, then its pending functors (`ToDo`). A functor is
  in the loop where it belongs (`PlaceInv`); `connectEstablished()` is the first functor of
  its connection and finds it in kConnecting, unregistered (`EstablishInv`);
  `removeConnectionInLoop()` is queued once, for a channel that was disabled, and under a
  live server finds the connection in the map (`RemovalInv`); while the server lives
  `connectDestroyed()` comes only after a close, so that it finds the channel disabled
  whether the application had called `shutdown()` or not; a connection is in the map,
  or its `connectDestroyed()` is to come, ran, or was dropped by a loop that exited
  (`LifeInv`). Descriptors of connections that somebody refers to differ (`FdsInv`).

Only model-checked, and why:

* All liveness: fairness and ENABLED are beyond the prover.
* What folds and recursive functions compute over data: `LinesWhole` and `TimesRight`
  (`Logging`, `Calendar`, `FileUtil`), `AnswersRight` (`HttpServer`, whose parser is
  recursive), and of `Buffer` the laws of integers and strings (`BufferIsDeque`).

## Where the code and its promises part

Shown by violated runs:

* **A destructor can hang** (`thread_dtor`). `loop()` stores `quit_ = false` after
  `startLoop()` has handed the loop out; `quit()` of a destructor that comes first is
  overwritten and `join()` waits for ever.
* **`shutdown()` may send no FIN** (`conn_fin`). With data in the buffer
  `shutdownInLoop()` does nothing, and `handleWrite()` has no second call.

Reached by the models, outside what the passing runs promise:

* `send()`, `shutdown()`, `startRead()` and `stopRead()` bind the bare `this` (FIXMEs at
  `net/TcpConnection.cpp:201` and 303): a functor of theirs holds no reference, and one that is queued by a
  thread while the connection goes down runs on a freed object. `Destroy` lets that happen;
  `OnlyLateSendsLeft` says which functors it can be when every close is on the loop. The
  model ends with the connection, so what such a functor does is not in it.
* `connectDestroyed()` disables the channel of a kConnected connection only
  (`net/TcpConnection.cpp:175`). One that the application shut down, as `HttpServer`
  does, and whose peer has not closed when the server dies, is removed with its channel enabled, and
  `Channel::remove()` asserts. `TcpServer` notes these connections in `unclean`.
* A `stop()` of another thread within `restart()` and a loop that then stalls for 0.5 s: the
  retry timer begins an attempt before the `resetChannel()` that is queued, and
  `connecting()` asserts that there is no channel (`net/Connector.cpp:105`). The same holds for the
  destructor's second (`net/TcpClient.cpp:74`) and two rounds of functors. `TcpClient` has both (`stalled`).
* `handleClose()`'s assertion demands kConnected or kDisconnected where kDisconnecting is
  what `forceClose()` and `shutdown()` leave (`HandleClose` with `NDEBUG` FALSE).
  `TcpClient` and `TcpServer` let a close in kDisconnecting go on; `conn` has the
  assertions off.
* `queueInLoop()` on the loop's own thread before `loop()`: no wakeup, so the functor
  waits for the first event or time-out (`early` in `EventLoop`).
* A caller between the push and `wakeup()` while the loop is destroyed
  (`EventLoopThread`). The destructor also reads `loop_` without its mutex: when the loop
  has ended on its own it may destroy `mutex_` while the thread still holds it, against
  the assertion in `~MutexLock()`. If the
  init callback quits the loop, `startLoop()` may wait for ever for a `loop_` that has come
  and gone (`CallbackMayQuit`).
* `startRead()` after a close, or `stopRead()` after the removal, re-registers a
  channel that is on its way out and fails its assertions (`WhileConnected`); a second
  close may follow from it.
* A server destroyed before a connection has closed: the close callback is bound to
  the dead server (`ownerMayDie` in `Apps`, `DestroyUnderLoop`). The code says FIXME.
* `shutdown()` or `forceClose()` of another thread races with the close and may
  overwrite kDisconnected, after which a second close, or the destructor's assertion, may
  follow. The header says that `shutdown()` is not thread safe. `conn` leaves both to
  the loop in its first application; the third has them on both threads and shows that data
  still leaves and connections still go.
* `addTimer()` on another thread reads the sequence number of a timer that may have
  run and been deleted. `cancel()` on the loop's thread overtakes an
  `addTimerInLoop()` that is still queued.
* `ThreadPool::stop()` does not notify `notFull_`: a waiting `run()` waits for ever.
  Tasks still queued are dropped.
* A loop of the pool that is told to quit while it runs functors drops those queued meanwhile:
  a `connectDestroyed()` may be among them, and its connection is freed as it is. One that is
  told to quit before its thread has called `loop()` does not leave, and `~TcpServer()`
  joins it for ever: the hang of `thread_dtor`, which `ServerGoes` leaves out (`QuitWasLost`).
* `connect()` after `stop()` may fail the Connector's assertions, and a
  `TcpClient::stop()` between the test of `connect_` and `restart()` is undone
  (`CarefulOwner`; `StopEnds` says that this happens at most once for a `stop()`). A client destroyed on
  another thread is not modelled: the code says that it is not safe.
* Lines appended after the logging thread's last swap are not written by `stop()`, and a
  FATAL line given to `AsyncLogging` is lost at `abort()`: `g_flush` is `fflush(stdout)`, and
  `AsyncLogging` has no flush to set it to.
* `setTimeZone()` leaves each thread's cached second: lines of that second show the old
  zone's time, with or without the Z of the new one. It also writes a
  `shared_ptr` that other threads read (`SetTimeZone`'s guard).
* A line longer than the buffer loses its later pieces, and its end of line when a single
  byte is left (`LinesWhole`).
* `readTimeZoneFile()` returns true whatever it met, so a `TimeZone` of a missing file is
  `valid()` and has no local time to point to; leap seconds are read by an empty loop.
* `HttpContext` takes any line without a colon for the end of the headers ("empty line, end
  of header", `net/http/HttpContext.cpp:42`). A line that is no request stays in the buffer
  with its method in the request: on more input before the close,
  `setMethod()` asserts that there was none (`net/http/HttpRequest.h:29`). One request is
  parsed per read: the next of a pipeline waits for more input. `defaultHttpCallback()` is not
  installed by anything, so a server without `setHttpCallback()` calls an empty function.
* `readInt64()` requires eight readable bytes; its comment says `sizeof(int32_t)`
  (`net/Buffer.h:222`).
* With `MUDUO_USE_POLL`, a channel that never asked for anything, such as an Acceptor's
  before `listen()`, fails an assertion of `PollPoller::removeChannel()`
  when it is disabled and removed (line 119), and an update of a channel that was removed
  fails one of `updateChannel()`. `EPollPoller` takes both. It also registers a channel
  that is disabled twice again, without events, so that its hang-ups are reported;
  `PollPoller` ignores it.

Abstracted: `retryDelayMs_` (its initial value is the maximum, 30 s, until
`restart()`), the texts of messages, names and addresses, `TCP_NODELAY` and other
options. Clocks do not go back: timerfd uses CLOCK_MONOTONIC and the expirations the
wall clock, and the model has one clock. Short `fwrite()`s are in `FileUtil` only; a full disk, and
another thread that takes the descriptor between `close(idleFd_)` and `accept()`,
are left out.

## Plan

Done: `EventLoop` and its proofs; `Mutex` and `EventLoopThread`; `TcpConnection`; `TimerQueue`;
`ThreadPool`; `TcpServer`; `Connector` and `TcpClient`; `FileUtil`, `LogFile`, `AsyncLogging`,
`Logging` with `LogStream` and `Calendar`; `Buffer` and its proofs, `HttpContext` and
`HttpServer`; `Poller` and `DefaultPoller`.

Proved: the safety properties that the runs check of `EventLoop`, `EventLoopThread`,
`TcpConnection`, `TimerQueue`, `ThreadPool`, `TcpServer`, `TcpClient` with `Connector`,
`AsyncLogging` with `LogFile`, and both pollers; the three refinements, of two queues and of
`Poller`; the laws of `Buffer`.

Next:

1. Proofs: the control of `HttpServer` apart from its recursive parser.
2. The loop's start: functors queued by the loop's own thread before `loop()`, and the
   destruction of a loop under a caller, as claims of their own when there is a run
   for them.

## Not modelled, and why

Socket wrappers, addresses, `ProcessInfo` and the sizes and times that `ReadSmallFile` asks for are system calls
with no state of their own; what callers do with their results is in the callers'
modules. `StringPiece`, `Exception` and the small base classes compute text
or hold a value. Of `LogStream`, floating point, `Fmt` and the text of names
are left out; of `TimeZone`, the bytes of the file and the abbreviations; of HTTP, queries, bodies, and
headers that nothing in the library reads. The copies of files that the build does not
compile (`base/Logger.*` among them) are left aside.
