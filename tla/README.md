# Verification of my_new_muduo

A TLA+ development kept beside the C++ network library in `src/`: modules that
model its components, TLC runs that check them on small instances, and theorems
that TLAPS proves for every instance. The repository has no documentation and
no tests; the reference is the code, its asserts and its comments.
Line numbers refer to files under `src/`.

## 1. The system

The library is a reactor in the style of muduo, with a coroutine front end, an
io_uring back end, and a collection of thread pools and memory pools.

| Component | Sources | State | Operations | Correct when |
|---|---|---|---|---|
| EventLoop | `net/EventLoop.h`, `net/Eventloop.cpp`, `coro/CoroScheduler.*` | `quit_`, `looping_`, `callingPendingFunctors_`, `pendingFunctors_` (under `mutex_`), the eventfd, the resume queue | `loop`, `quit`, `runInLoop`, `queueInLoop`, `wakeup`, `handleRead`, `doPendingFunctors`, `scheduleResume`, `processPendingResumes` | no wakeup is lost; functors run once, in order; `quit` ends the loop |
| Channel, EPollPoller | `net/Channel.*`, `net/EpollPoller.*`, `net/Poller.*` | `events_`, `index_`, `addedToLoop_`; `channels_`; epoll's registrations and ready list | `enable*`, `disable*`, `remove`, `updateChannel`, `removeChannel`, `poll`, `handleEvent` | the four views of a descriptor agree; the asserts hold |
| TcpConnection | `net/TcpConnection.*` | `state_`, `reading_`, `outputBuffer_`, the channel, the socket | `send`, `shutdown`, `forceClose`, `forceCloseWithDelay`, `startRead`, `stopRead`, `connectEstablished`, `connectDestroyed`, `handleRead/Write/Close/Error` | one close, one callback, FIN after the data, nothing heard afterwards |
| TcpServer, Acceptor, EventLoopThreadPool | `net/TcpServer.*`, `net/Acceptor.*`, `net/Socket.*` | `connections_`, `loops_`, `next_`, the backlog, the shared_ptrs in queues | `start`, `newConnection`, `removeConnection`, `removeConnectionInLoop`, the destructors, `getNextLoop`, `handleRead` of the listening socket | objects live as long as they are used and no longer |
| TimerQueue | `net/TimerQueue.*`, `net/Timer.*`, `net/Timerld.h` | `timers_`, `activeTimers_`, `cancelingTimers_`, `callingExpiredTimers_`, the timerfd, `s_numCreated_` | `addTimer`, `cancel`, their `InLoop` halves, `handleRead`, `getExpired`, `reset` | the two sets agree; the timerfd is armed for the first timer; a cancel is exact |
| Buffer | `net/Buffer.*` | `buffer_`, `readerIndex_`, `writerIndex_` | `append`, `prepend`, `retrieve*`, `unwrite`, `ensureWritableBytes`, `makeSpace`, `shrink`, `readFd` | a queue of bytes in bounded memory |
| MPMCQueue | `base/MPMCQueue.h` | cells with `sequence` and `data`, two cursors | `enqueue`, `dequeue` | a bounded FIFO |
| LockFreeThreadPool | `base/LockFreeThreadPool.h` | the queue, `slotsSem_`, `itemsSem_`, `running_` | `run`, `runInThread`, `stop` | tasks run; `stop` joins |
| ThreadPool | `base/ThreadPool.*` | `queue_`, `batchSize_`, two condition variables, thread-local caches | `start`, `run`, `fillLocalCache`, `runInThread`, `stop` | tasks run once; no waiter is forgotten |
| DynamicThreadPool | `base/DynamicThreadPool.h` | `tasks_`, `threads_`, `stop_` | `submit`, `tryExpand`, `workerLoop`, `tryShrink`, `stopAll` | `threads_` is the number of threads and within its limits; tasks run; the destructor returns |
| LFMemoryPool | `base/LFMemoryPool.h` | tagged list heads, `FreeNode::next`, thread caches | `allocate`, `deallocate`, `push`, `pop`, `cleanup` | a block has one holder |
| CoroTcpServer | `coro/CoroTcpServer.*`, `coro/CoroTcpConnection.*`, `coro/CoroChannel.*` | `connections_`, `connected_`, `writing_`, the CoroChannel's flags, coroutine frames | `start`, `onAccept`, `send`, `shutdown`, `onReadable`, `onWritable`, `handleClose`, `connectionLoop` | a connected connection is served and drains |
| EventLoopThread, Thread | `net/TcpServer.cpp`, `io_uring/UringEventLoopThread.h`, `base/Thread.*` | `loop_` (under `mutex_`), the thread | `startLoop`, `threadFunc`, the destructor | the loop is handed over; the destructor's `join` returns |
| MPMCQueueV2, HazardPointer, TaggedPointer, LFStack | `base/` | tagged cursors, hazard slots, a stack | | as their plain forms; nothing is freed while read |
| Coroutine runtime | `coro/Task.h`, `Generator.h`, `Awaitables.*`, `CoroEventLoop.*` | frames and continuations | `co_await`, `resume`, `destroy` | every suspended frame is resumed or destroyed once |
| io_uring back end | `io_uring/` | the submission and completion queue of a ring, `pending_sqes_`, `active_cqes_`, `connections_`, `state_`, coroutine frames, functors | `poll`, `submitRead/Write/Accept`, `handleWakeup`, `read`, `send`, `shutdown`, `forceclose`, `handleClose`, `connectionLoop`, the accept loop | a coroutine that waits has one operation in its ring and is resumed; closes are noticed; connections are freed, and not too early |
| Object pools | `pool/` | free lists | | a block has one holder |
| Logging, Timestamp, InetAddress | | | | formatting and conversions |
| Examples | `examples/` | two echo servers | | |

Interactions. An `EventLoop` owns a poller, a `TimerQueue` and a functor queue;
other threads reach it through `queueInLoop` and the eventfd only. `TcpServer`
accepts in the base loop and hands each `TcpConnection` to an I/O loop by a
functor; the connection's channel calls back into it, its close callback posts a
removal to the base loop, which posts the destruction back. What keeps the
connection alive in between is a `shared_ptr` in the server's map, in a functor,
in a timer or with the application. `LockFreeThreadPool` is `MPMCQueue` between
two semaphores. A coroutine connection owns the frame of `connectionLoop()`,
which owns the frame of the handler, which owns the connection. The io_uring
server has the same shape, on loops whose poller submits the operations that
coroutines wait for and resumes each one from its completion.

The hard parts are the ones a unit test hardly reaches, and `PROJECT.json` lists
them with their lines: wakeups posted between a test and a sleep; functors that
outlive the object they capture; channels reported by `epoll_wait` and handled
after they were closed; calls to `disableAll()` and `remove()` in orders that
bring `index_`, the map and the kernel apart; edge-triggered descriptors read
once; timers cancelled from their own batch and addresses that are used again;
cells of a lock-free queue a round apart; tokens of a semaphore taken for nothing;
counters decremented twice; tags that wrap; completions read from entries that
the kernel may already use again.

## 2. The modules

| Module | Models | Lines it stands on |
|---|---|---|
| `SerialExecutor` | abstract: work is started once, in the order in which it was posted | |
| `EventLoop` | the loop, its posters, the eventfd on an edge-triggered epoll, the resume queue | one action per place of `loop()` where it can be interrupted |
| `EventLoopProofs` | theorems on `EventLoop`, on the loop of an `EventLoopThread`, and on `CoroTcpServer` | |
| `EventLoopThread` | extends `EventLoop` by the thread that runs it and the thread that starts and destroys it | `TcpServer.cpp`, `Thread.cc` |
| `Channel` | one channel with the poller's and the kernel's view of it, as functions on a record | `Channel.cpp`, `EpollPoller.cpp` |
| `EPollPoller` | the channels of a loop under every owner: with `Pauses`, with `Redundant` calls, `ET` or not | `Channel.cpp`, `EpollPoller.cpp` |
| `TcpConnection` | one connection, as functions on a record that holds its `Channel` | `TcpConnection.cpp` |
| `TcpServer` | composes connections, loops, the acceptor, application threads, peers and shared_ptrs | `TcpServer.cpp`, `Acceptor.cpp` |
| `TcpServerProofs` | theorems on `EPollPoller` under any owner, and on `TcpServer` and the connections in it | |
| `TimerQueue` | timers by address, the timerfd, the system clock, other threads | `TimerQueue.cpp`, `Timer.*` |
| `TimerQueueProofs` | theorems on `TimerQueue` | |
| `FifoQueue` | abstract: a bounded queue | |
| `MPMCQueue` | the two operations, one shared access per step | `MPMCQueue.h` |
| `LockFreeThreadPool` | composes `MPMCQueue` with semaphores, workers and `stop()` | `LockFreeThreadPool.h` |
| `LockFreeThreadPoolProofs` | theorems on `MPMCQueue`, alone and inside the pool | |
| `ThreadPool` | both models, with waits on condition variables cut in two | `ThreadPool.cc` |
| `ThreadPoolProofs` | theorems on `ThreadPool` | |
| `DynamicThreadPool` | submitters, detached workers, the destructor | `DynamicThreadPool.h` |
| `DynamicThreadPoolProofs` | theorems on `DynamicThreadPool` | |
| `ByteQueue` | abstract: a sequence of bytes with two ends | |
| `Buffer` | the vector with its indices and bytes, as functions on a record | `Buffer.h`, `Buffer.cpp` |
| `LFMemoryPool` | free lists, caches, users who write into their blocks | `LFMemoryPool.h` |
| `MemoryProofs` | theorems on `Buffer` and `LFMemoryPool` | |
| `CoroTcpConnection`, `CoroTcpServer` | coroutine connections over `Channel`, and what keeps them alive | `CoroTcp*.cpp`, `CoroChannel.cpp` |
| `UringPoller` | the two queues of a ring, as functions on a record | `uring_poller.cpp`, the awaiters |
| `UringTcpConnection` | one connection with its socket and coroutines, as functions on a record | `UringCoroTcpConnection.cpp` |
| `UringTcpServer` | composes rings, loops, connections, the accept loop, peers and shared_ptrs | `UringCoroTcpServer.cpp`, `UringEventLoop.cpp` |
| `UringTcpServerProofs` | theorems on `UringTcpServer` | |
| `MC...` | the instances TLC checks | |

Conventions. Variables and operators have the names of the members and methods
they model; an operator in lower case is a method as a function on the object's
record, an action is in upper case. A method that runs in one thread between two
points where others can see its effects is one action, with everything it calls.
Asserts do not stop a model: an assert that fails adds its file and line to
`failed`, as a build with `NDEBUG` goes on, and properties speak about the set.
Objects that are destroyed leave a set `alive`; a step that would touch one of
them records it. Definitions whose comment begins with `Mutant:` are deliberate
mistakes: each is a plausible bug, and replacing the definition after it by the
mutant makes TLC report the property that `PROJECT.json` pairs it with.

Correspondence, where it is not one to one:

* **EventLoop.** `pc` is the owner thread's place in `loop()`. `queueInLoop` of
  another thread is two steps, the push under `mutex_` and the `wakeup()`, since
  anything can happen in between; the owner's is one. The eventfd is a Boolean
  (zero or not) and a place on epoll's ready list: `Channel.cpp:20` makes every
  channel edge-triggered, and `handleRead` reads the counter once. `early`
  remembers functors pushed by the owner outside `loop()`, for which
  `Eventloop.cpp:206` makes no wakeup.
* **EventLoopThread.** `tth` is where the object's thread is around `loop()`,
  `upc` where the thread that owns the object is, its destructor cut at the test
  of `loop_`, the store of `quit_`, the `wakeup()` and the `join()`. `inTime` says
  whether the destructor's `quit()` came after `loop()` had stored
  `quit_ = false`. Other threads use the loop as long as its thread lives.
* **Channel.** `epoll` is what the kernel was told, `Absent` when nothing;
  `edge` whether the descriptor is on the ready list. `EPOLL_CTL_DEL` failures
  are logged and ignored by the code and by the model, those of `ADD` and `MOD`
  are fatal and recorded.
* **TcpConnection.** Output is counted in messages: a write takes all, a part or
  nothing of the buffer, or fails. `inbox` is what a read would find. What a
  method posts with `queueInLoop` is in `posts`, and `TcpServer` moves it to the
  loop's queue in the same step. A reset stays in `inbox` as "rst", with "err"
  while `SO_ERROR` is pending: epoll reports it with EPOLLERR and EPOLLHUP, and
  `handleError`, a read or a write takes the error.
* **TcpServer.** A loop is a functor queue, used as `SerialExecutor` promises,
  and the set of channels still to be handled in this pass. A pass is not kept
  apart from the next one: a loop may stop between any two functors, while the
  code finishes the batch it has swapped; every behaviour of the code is one of
  the model. `Reap`, the last conjunct of every step, destroys the connections
  that no `shared_ptr` reaches any more. Calls of application threads that test
  `state_` and store it later are two steps. What the application does is a
  `profile`, one of `Profiles`, chosen when the system starts: which methods its
  other threads and its callbacks call, which of them of a closed connection,
  whether it keeps its `TcpConnectionPtr` until what it asked for was done, and
  whether it destroys the server.
* **TimerQueue.** A timer is its address; `new` may give out an address again as
  soon as it was deleted. Time is a counter of ticks; the timerfd counts them
  down on the monotonic clock while `SetClock` sets the system clock that
  expirations are compared with.
* **MPMCQueue.** Cursors are naturals: 64-bit cursors do not come round. Loads
  and stores are acquire and release where data depends on them, so the model is
  sequentially consistent.
* **LockFreeThreadPool.** A semaphore is a number. `counting_semaphore<Capacity>`
  also has a maximum, which `stop()` passes when more workers than `Capacity`
  are to be woken, or tasks are queued as well (`LockFreeThreadPool.h:62`); the
  standard leaves that undefined, libstdc++ counts on, and so does the model.
* **ThreadPool.** A wait on a condition variable is "predicate found false",
  with the mutex held, and then "joined the waiters". `stop()` takes no mutex and
  so comes between the two. `queueLength_` is never written, so `maybeAdjust`
  never adds a thread.
* **DynamicThreadPool.** Time is left open: the average wait, the cool-downs and
  the timeout of `wait_for` may be over at any time; only a thread's idle time
  has a history. `threads_` is a `size_t` with modulus `SizeMax`.
* **Buffer.** Arguments the code asserts about its caller are guards. `peak` is
  the most the users have asked the buffer to hold since `shrink()`.
* **LFMemoryPool.** `next` is the first word of a block: once the block is with a
  user it is `Junk`. `freeLists_` is the list the links stand for, kept beside
  them; `PoolIsSound` ties the two together. There is one pool in the model. A
  thread's cache is `thread_local` in a static method (`LFMemoryPool.h:236`), so
  that two pools would share it and blocks would wander between them.
* **CoroTcpServer.** One thread. A handler may call `send` and `shutdown`, suspend
  or return at any time it runs. A `Channel` is destroyed by `CoroChannel::remove`,
  also inside its own `handleEvent`; what the code then reads of it is a free
  choice (`stale`). How the write of an event ends is chosen at the beginning of
  the step, before the read callback's operation; the choice covers every end
  that write can have.
* **UringPoller.** An operation has the name of whoever waits for it. `sq` is what
  was prepared, `kernel` what was submitted, `cq` the completion queue, `active`
  the entries of `active_cqes_` that are still to be handled. `poll()` has given
  these back to the kernel before it reads them, so a completion may be written
  over one of them (`complete`). `io_uring_submit` takes all of `sq` or, as
  often as `faults` allows, a part of it or nothing, each call for itself:
  `await_suspend` makes up to two of them. `refused` has the operations for which
  `getSqe` found no entry: the code drops them (`uring_poller.cpp:85`), nobody
  looks at the `false` (`awaiter.cpp:9`), and their coroutine sleeps for good.
  They are in no place of the ring (`Occurrences`); `whole` says that no
  submission has fallen short.
* **UringTcpServer.** A loop is in one of three places: at its functors, in
  `io_uring_wait_cqe_timeout`, or handling completions one at a time. The end of
  `doPendingFunctors` and the submission at the head of `poll()` are one step. A
  handler may do anything at each point it runs: call `shutdown` or `forceclose`,
  wait for a `read` or a `send`, or return. `polite` marks the connections whose
  handler returns once they are closed and that nobody closes while the handler
  is suspended, `half` those that were shut down. Other functors of the loop may
  call the same methods (`LoopCall`). `Setups` gives the I/O loops and how often
  `io_uring_submit` may fall short in each ring. The listening socket is
  non-blocking (`UringCoroTcpServer.cpp:16`), so `accept` may fail at any time and
  any number of times. `onNewConnection`, in the base loop, pushes the `start` and
  writes the eventfd of the I/O loop in one step: in between that loop would find
  the functor without the wakeup, and sleep until the write that is under way, as
  `EventLoop` has it in two steps. At this commit the classes of
  `io_uring/` override members that `net/EventLoop.h` does not declare virtual,
  and use others it does not declare; they are modelled as the overrides they are
  written to be.

External behaviour (the kernel's epoll, eventfd, timerfd and sockets, the peers,
`malloc`, `std::vector`) is modelled from how the code uses it and marked so in
`PROJECT.json`.

## 3. The runs

Each `<name>.cfg` is a run; all but the last two pass.

| Run | Properties | Instance | States |
|---|---|---|---|
| `EventLoop` | `NoLostWakeup`, `ImplementsSerialExecutor`, `PostsTakeEffect`, `ResumesRun`, `JoinReturns` | an EventLoopThread, its user and another thread, four functors, two resumes | 42 145 |
| `TcpServer` | `NoUseAfterFree`, `DownOnce`, `EpollAgrees`, `FinIsLast`, `FreedIsClosed`, `ClosedIsFreed`, `PeerCloseIsNoticed`, `ShutdownFinishes`, `TeardownFrees` | one connection, edge-triggered, with and without an I/O loop, under two applications: one shuts down and closes with a delay while a thread sends, one sends, shuts down, stops and starts reading and destroys the server | 28 933 |
| `TimerQueue` | `TimersAgree`, `ArmedForFirst`, `CancelIsExact`, `TimersFire` | two addresses, another thread, one-shot and repeating timers, one setting of the clock | 131 756 |
| `LockFreePool` | `CellsAreOwned`, `ImplementsFifo`, `StopJoins` | two producers, two workers, three tasks, two cells, `stop()` | 191 949 |
| `ThreadPool` | `WorkIsNoticed`, `TasksRun`, `StopJoins` | two producers, two workers, three tasks, a queue of two, both models, `stop()` | 32 138 |
| `DynamicThreadPool` | `ThreadLimits`, `TasksRun`, `DtorReturns` | two producers, three threads to come and go between 1 and 2, three tasks, the destructor | 20 262 |
| `Buffer` | `AssertsHold`, `MemoryBounded`, `ImplementsByteQueue` | two byte values, strings up to 2, up to four readable bytes | 98 545 |
| `LFMemoryPool` | `PoolIsSound`, `LockFree` | two threads, three blocks, two classes and a large size, three tags | 551 138 |
| `CoroTcpServer` | `ConnectedIsServed`, `OutputDrains` | one connection, three sends, `~CoroTcpServer` | 3 404 |
| `UringTcpServer` | `OpsAreInRing`, `NoUseAfterFree`, `NoLostWakeup`, `PeerCloseIsNoticed`, `EndedIsFreed` | one connection, with no I/O loop and two submissions that fall short, and with an I/O loop and none; rings of two and three entries | 821 036 |
| `LockFreePool_lost` | `TasksRun`, violated | two producers, one worker, two tasks | |
| `DynamicThreadPool_count` | `CountIsExact`, violated | as `DynamicThreadPool` | |

What they show, in order:

* **EventLoop.** In `epoll_wait` a pending functor or `quit_` always has its
  wakeup made or about to be made, whatever read of the eventfd took earlier
  ones. The functors of all threads form one queue (a refinement of
  `SerialExecutor` with the swapped vector followed by `pendingFunctors_`).
  Functors and `quit()` take effect without the poll timeout; coroutines
  scheduled in a functor, and functors the owner pushed before `loop()`, need it.
  The loop is that of an `EventLoopThread`, whose destructor's `join` returns
  unless its `quit()` came before `loop()` had begun.
* **TcpServer.** Over all orders of peers, callbacks, timers, functors of two
  loops, a sending thread and the server's destructor, no destroyed object is used
  while the server lives, a connection goes up and down once and is removed once,
  is destroyed only when closed and out of its poller, and sends its FIN after its
  data. At every step what epoll watches is what the connection asked for
  (`EpollAgrees`, which includes that a closed connection is deaf). And it ends: a
  shutdown with buffered data is finished, a closed connection is freed, and after
  `~TcpServer` every connection is, whatever an I/O loop that quits leaves in its
  queue. The channel is edge-triggered, as every channel of the code is
  (`Channel.cpp:20`; nothing calls `disableET`). `PeerCloseIsNoticed` is therefore
  about an end of the stream that epoll has still to report and that comes without
  data. `handleRead` reads once: an end reported together with data is not noticed
  until something else changes the socket, and no property of a system with this
  `handleRead` could say otherwise. `ShutdownFinishes` holds with edge-triggered
  events because a write that stops short leaves the socket full, and the peer that
  reads makes a new edge. One connection is what liveness can be checked with in
  minutes. What couples connections is `next_` and the order of shared queues; that
  the safety properties hold for any number of them is proved (section 4).
  `MaxQueue` only keeps *users* from posting into a long queue, the library's own
  functors are not bounded.
* **TimerQueue.** `ArmedForFirst` is about a clock nobody has set, the others
  about any clock. Two timers are enough for a batch of two, for one added
  while another runs, and for an address that is used again.
* **LockFreePool.** The queue is checked inside its user, so that every order the
  pool can produce is covered: the refinement orders items by their claims.
  Two cells and three positions make the cursors come round.
* **ThreadPool.** `TasksRun` is about the FIXED model while it runs and includes
  that a producer waiting for room goes on, `StopJoins` is about the CACHE model,
  whose waits time out.
* **DynamicThreadPool.** Until `stopAll()`, `threads_` is between the limits and
  counts no thread that has gone (`ThreadLimits`). That it is the number of
  threads, as its comment says, is false: see the last run. Tasks run once, with
  and without a destructor, also those taken by threads that were counted out.
  `stopAll()` returns unless `tryShrink` counted a thread out.
* **Buffer.** All sequences of calls in the instance. `kCheapPrepend`,
  `kInitialSize` and the stack buffer of `readFd` are 2 instead of 8, 1024 and
  65536: every comparison of `makeSpace`, `readFd` and `retrieve` is met on both
  sides and at equality.
* **LFMemoryPool.** Pops overtaken by up to two others, with three tags: the tag
  protects as long as fewer pops overtake one than there are tags
  (`MaxOvertakes < TagSize`, 65536 in the code).
* **CoroTcpServer.** While a connection is connected, map, poller, epoll, the two
  `writing_` flags and the output buffer agree, and edge-triggered write events
  drain the output. Connections of this server share nothing but the loop.
* **UringTcpServer.** A waiting coroutine, the accept loop and the eventfd's poll
  have one operation each in their ring, although `io_uring_submit` may take a part
  or nothing and although completions are read from entries given back to the
  kernel: the completion queue of the instance has just one entry for each
  operation, the tightest case in which none can be overwritten. The exception is
  what the code itself drops. When the submission queue is full and cannot be
  submitted, the operation is in no place of the ring and whoever waits for it is
  never resumed: `OpsAreInRing` says that this happens only after a submission fell
  short, and `PeerCloseIsNoticed` and `NoLostWakeup` except it by name, so that a
  connection that was reset can stay open with its coroutine asleep. Functors that
  captured `this` find their connection, the functor that `handleClose` queues
  keeps it to the end of the pass, and a connection whose handler returned is
  freed across two loops. Two submissions that fall short are what it takes
  to fill the submission queue and have an operation refused; the theorems are
  about any number.
* **LockFreePool_lost.** The comment at `LockFreeThreadPool.h:113` takes a failed
  `dequeue` for a harmless false wakeup. Its token of `itemsSem_` is gone: when it
  failed because the producer in front had claimed its cell and not yet
  published, one task stays in the queue for good. The run exhibits it with two
  producers and one worker.
* **DynamicThreadPool_count.** The comments at `DynamicThreadPool.h:427-429` have
  the thread that passes `tryShrink` leave, and `:462` calls `threads_` the current
  number of threads. `workerLoop` goes round its loop with that thread
  (`:396-398`), so that the count is one too low, a further thread may be started
  above `maxThreads`, and the thread is counted out again when it leaves. The run
  exhibits it with two workers.

Deadlock is checked where the system has no final state (`Buffer`,
`LFMemoryPool`, `UringTcpServer`); the other servers, the loops and the thread
pools may end.

### Fairness

* **EventLoop**: the owner's steps, the write to the eventfd by a thread that is
  about to make it, and `epoll_wait`'s return when the eventfd is ready are
  weakly fair: the scheduler runs threads and the kernel reports. So are the
  steps of the `EventLoopThread`'s thread around `loop()` and, once its owner is
  in `startLoop()` or in the destructor, those of the owner. Posting, quitting,
  destroying and the other descriptors are not fair. The poll timeout is fair
  only where a property says so (`PollTimesOut`; `kPollTimeMs`). `ResumesSettle`
  excludes coroutines that reschedule each other for ever, for which
  `processPendingResumes` does not end.
* **TcpServer, CoroTcpServer**: loops run what is queued and report what is
  ready; a peer reads what it is sent in the end, so that a write that is
  repeated finds room; the application drops a pointer to a closed connection.
  Nothing makes a peer or a callback act. Strong fairness is used where other
  work of the same loop disables an action again and again.
* **TimerQueue**: time passes and the loop's thread runs.
* **UringTcpServer**: every loop moves on, which it always can since `poll()`
  waits at most 1000 ms, and the kernel completes an operation that it can
  complete. Nothing makes a peer or a handler act.
* **Pools**: threads are scheduled; strong fairness for those that wait for a
  mutex or a semaphore that is freed again and again. `wait_for` times out.
* **LFMemoryPool**: a thread in a call is scheduled; lock-freedom promises that
  *some* call returns.

## 4. What is proved

`tlapm` checks the proofs of eight modules. The constants are arbitrary, so every
theorem is about any number of threads, connections, channels, timers, tasks and
bytes, up to the named assumption of each module (`BoundsAssumption`,
`ServerAssumption`, `TimerAssumption`, `QueueAssumption`, two `PoolAssumption`s,
`ConfigAssumption`, `BufferAssumption`, `LFPoolAssumption`, `PowersAssumption`,
`CoroAssumption`, `RingAssumption`, `UringAssumption`) and the hypotheses that are
mentioned here. The assumptions say that constants are
numbers, sequences and Booleans, that different kinds of threads are different
threads, that tasks are numbered as they are submitted, and for `DynamicThreadPool`
that the limits are in order.
They are checked by TLC in every run.

All the safety invariants that the passing runs check are proved, and all three refinements.

* **`EventLoopProofs`** - `TypeCorrect`, `NoWakeupIsLost` (`NoLostWakeup`) and
  `LoopIsSerial` (`ImplementsSerialExecutor`).
  The inductive invariant is `TypeOK /\ Flagged /\ Awake`. `NoLostWakeup` is about
  `epoll_wait` only and not inductive: a functor pushed while the swapped vector
  is run must be signalled long before the loop sleeps, which is `Awake` (from the
  swap to the next one), and that the owner signals exactly then rests on
  `callingPendingFunctors_` being up exactly while the vector is run (`Flagged`).
  The refinement maps every step to a post, a start or a stutter. `ThreadRunsLoop`
  shows that the loop of an `EventLoopThread` is such a loop, whatever its owner's
  destructor does, so `ThreadLosesNoWakeup` and `ThreadIsSerial` follow.
* **`TcpServerProofs`**, channels - `PollerAgrees` (`EpollAgrees`) and
  `PollerFailsTwoAsserts` for `EPollPoller` itself, with
  whatever owners that make no redundant call (`Redundant = FALSE`, and
  `ET \in BOOLEAN`). The invariant `Agrees`
  adds to `EpollAgrees` that the map has an entry exactly while `addedToLoop_` is
  set, and that only the asserts of lines 72 and 97 have failed. Those two do fail
  (section 5); `OnlyTwoAssertsFail` is the bound on what does, and no run presents
  it as a property of correct code. Each operation on
  one channel's record is a lemma; the step of the system only places it.
* **`TcpServerProofs`** - `NothingDeadIsUsed` (`NoUseAfterFree`), `EndsAtMostOnce`
  (`DownOnce`), `ConnectionsAgreeWithEpoll` (`EpollAgrees`),
  `ConnectionsFailTwoAsserts` (`OnlyTwoAssertsFail`), `FinComesLast` (`FinIsLast`)
  and the action property `FreedAfterClose` (`FreedIsClosed`), for any pools of I/O
  loops, any number of connections, level- or edge-triggered. The hypothesis is
  `Careful`, which speaks about the application of a behaviour: it
  keeps its pointer until what it asked for was done, its other threads only
  `send`, callbacks do not `stopRead`, nor `startRead` a closed connection, and the
  server is not destroyed. Section 5 says what happens without each of these;
  `Careful` lets callbacks do everything else, also what the run leaves out. Of
  the run's applications the first is careful, the second is not: what is checked
  of it, with `stopRead` and the destructor, is not proved.
  The invariant follows a connection through its life. `Phase`: its record is new,
  `Up` or `Down`; an `Up` one reads, is writing while it has output, has sent its
  FIN only after that, and is in `connections_`; a `Down` one is deaf. `Leaving`: one that
  was removed has its `connectDestroyed` queued until it is out of the poller.
  `Queued`: every functor is in the right loop and finds its connection in the
  phase it was made for, and there is one `connectEstablished`, one removal and
  one `connectDestroyed` of it at most. `Reported`: a channel that `epoll_wait`
  reported stays open until it is handled, once. `Known`: the application has
  pointers to established connections only, and the clients in the backlog have
  no connection yet. `Turn` keeps `next_` inside the pool, `Living` says that what
  exists is what a `shared_ptr` reaches. The operations of `TcpConnection` are
  lemmas about one record (`SendIsUp`, `WriteIsUp`, `CloseIsDown`, ...), which use
  those about its channel; `ApplyKeeps` and `Frame` place
  them in the system; then there is one lemma for each action. That a connection
  is closed when it is destroyed takes two steps of the argument: what a
  `shared_ptr` reaches was made (`HeldIsBorn`), and what was made and is not
  reached any more is `Down` and out of its poller (`UnheldIsClosed`).
* **`TimerQueueProofs`** - `TimersAlwaysAgree` (`TimersAgree`), `TimerfdIsArmed`
  (`ArmedForFirst`) and `CancelIsAlwaysExact` (`CancelIsExact`). `Agree` is
  `TimersAgree` by address, with two facts that make it inductive: an address is in
  one functor at most, and there is a batch during `handleRead` only. `Armed` is
  `ArmedForFirst` with types. `Exact` says that the sequence numbers of the timers
  that exist differ, that none that is over is given out again, and that a timer
  that exists and is over is in the batch, behind its turn, and is not restarted.
* **`LockFreeThreadPoolProofs`** - `QueueCellsAreOwned`, `PoolCellsAreOwned`
  (`CellsAreOwned`), `QueueImplementsFifo` and `PoolImplementsFifo`
  (`ImplementsFifo`), for the queue with any users and for the one inside the
  pool, under the hypothesis `Capacity >= 2`. The invariant `QueueInv` speaks about
  positions: the two cursors are at most `Capacity` apart (`Window`), a position
  between them is published or its producer is at work (`Filled`), the ones up to
  `Capacity` after are free or being emptied (`Vacant`), no two threads have claimed
  the same one (`Claims`), and `Knows` is what a thread may rely on at each step of
  `enqueue` and `dequeue`. The refinement takes the claim of a position as the
  moment of the operation.
* **`ThreadPoolProofs`** - `QueuedWorkIsNoticed` (`WorkIsNoticed`), for both models.
  A worker that goes to sleep must do so on an empty queue: it found the queue
  empty with `mutex_` held and joins the waiters before it gives `mutex_` up. So
  the invariant has that a thread between the two holds `mutex_` (`Blocking`), a
  worker there has an empty queue (`Emptied`), and only workers that wait are
  notified (`Sleeping`).
* **`DynamicThreadPoolProofs`** - `LimitsHold` (`ThreadLimits`),
  `OnlyTryShrinkMiscounts` (`CountIsExact` as long as `tryShrink` counted no thread
  out: that decrement is the only wrong one) and `StopOutlastsWorkers` (the
  destructor returns after the last worker has left, under the same condition).
  The invariant has how far `threads_` is off, `shrunk`. `tryExpand` compares
  `threads_` itself, so the invariant has its limits before `stopAll()`
  (`Counted`); afterwards `threads_` may pass 0, so it says that no producer is left
  that could expand (`Stopping`), and `Congruent` replaces the modulus by the number
  of times `threads_` passed 0.
* **`MemoryProofs`** - `IndicesInOrder` (`TypeOK`), `BufferAssertsHold`
  (`AssertsHold`), `BufferIsBounded` (`MemoryBounded`) and `BufferIsByteQueue`
  (`ImplementsByteQueue`). The invariant is `Sound(b)`, the indices in
  order inside a vector that has at least the headroom and no failed assert, with
  the bound on its length by `peak`. There is one lemma per method, about the
  indices and about the bytes that can be read; `MakeSpaceIsSound`
  is the heart: it makes the room it was asked for, keeps the readable bytes, and
  when it grows it grows to no more than the headroom, the readable bytes and
  twice the request.
* **`MemoryProofs`**, second part - `PoolKeepsBlocks` (`PoolIsSound`), for any
  threads, blocks, sizes, classes and cache capacity: no block is lost or given to
  two users, the words of the blocks link the free lists, a block is as large as its
  user asked for. Two things are assumed of the constants. `LFPoolAssumption` has
  fewer pops overtaking one pop than there are tags (`MaxOvertakes < TagSize`):
  with a full turn of the tag the code's compare-and-swap can succeed on a head
  that went and came back. `PowersAssumption` states the facts about powers of two
  that `sizeClass()` rests on; they are true of all numbers, but need an induction.
  `PoolIsSound` counts the holders of each block; the invariant `PoolInv` has instead
  a place and an owner for each block (`Where`), which the steps move one at a time.
  `Sized` keeps the class of a user's block what `deallocate()` will compute. `Pops`
  is the argument about the tags: the head's tag is the one that was loaded plus the
  pops that overtook, modulo the tags, so an equal tag means that none did; as long
  as none did the loaded block is in the list and the word that was read of it is
  its link, whatever was pushed meanwhile. `Pushes` has the block in a thread's hands
  linked to the head it loaded and the cache large enough for the rest of the batch.

* **`UringTcpServerProofs`** - `UringOps` (`OpsAreInRing`), `UringLifetimes`
  (`NoUseAfterFree`) and `UringWakeups` (`NoLostWakeup`), for any connections and
  I/O loops, any submissions that fall short, any failures of `accept`, and
  handlers that are polite or not. The hypothesis is `[]Fits`: at no time do more
  coroutines wait in a ring than its completion queue has entries beside the
  accept and the eventfd's poll. It bounds what waits at once, not the connections
  ever accepted. The code does not see to it, and section 5 says what happens
  otherwise.
  The invariant `IInv` begins with where every operation is: `RingsKnow` has it in
  exactly one of the four places of its loop's ring while its coroutine waits,
  unless the ring has dropped it, and nowhere otherwise, which also counts the
  completions, so that none is written
  over one that `active_cqes_` still points to. `Passes` says what a loop has left
  over at each place of its pass, and `Woken` that its eventfd is readable once a
  functor was queued behind the ones it took; the two with `RingsKnow` give
  `NoLostWakeup`. `Alive` is what keeps a connection, and `Lives` is what a queued
  functor will find: a `start` is alone with a new connection, and one that has
  captured `this` of a closed connection has the guard of `handleClose()` in the
  queue behind it, which is why it may run. `Arrivals` says that a client in the
  backlog, or in a completion of the accept, has left no trace in the server, so
  that the connection made for it is new. There are lemmas about one ring, about
  the record of one connection and about lists of functors; then one for each
  action.

* **`EventLoopProofs`**, second part - `CoroServes` (`ConnectedIsServed`), for any
  connections and sends, whatever handlers and callbacks call, whenever they return
  and the server is destroyed. The invariant `CoroInv` adds to the property what makes
  it last: `index_` says that the channel is registered, so that the next change of
  events is a MOD (`Registered`); the handler of a connected connection is suspended,
  so that its frame keeps the object when the map does not (`Served`); no
  `closeCallback_` is pending between steps and a connected connection exists
  (`Kept`); and a client in the backlog has left no trace (`Fresh`). `Follows` is what
  every method does to one record, also when it destroys the Channel under
  `handleEvent`: it keeps the record `Sane`, opens nothing that is closed, and calls
  `closeCallback_` only as it closes.

Type correctness of `EventLoop` and `Buffer` is proved and not a run of its own.
The inductive invariants were checked by TLC on instances like the runs', that of
`TcpServer` with more callbacks, before they were proved.

Every safety invariant, action property and refinement that a passing run checks is
stated by a theorem. Only model-checked: all liveness, since the provers have neither
fairness nor `ENABLED`; and the powers of two of `PowersAssumption`, which TLC evaluates
for the sizes of the run.

## 5. What the models show and no passing run states

The code behaves as follows in the models; the passing runs are set up so that
their properties are about the rest. Some of it contradicts what the repository
says of itself. Two of these disagreements have a run that exhibits them, the
comments at `LockFreeThreadPool.h:113` (`LockFreePool_lost`) and at
`DynamicThreadPool.h:427-429` and `:462` (`DynamicThreadPool_count`). The others
are read off the models and have no run of their own:

| The repository says | The models have |
|---|---|
| assert `EpollPoller.cpp:97`, `index_` is 1 or 2 in `removeChannel` | it fails at every `disableAll()` and `remove()`, since `updateChannel` has already set `index_` to -1: whenever a connection closes |
| assert `EpollPoller.cpp:72`, a channel with `index_` -1 is not in the map | it fails when a channel that was paused is enabled again, since its map entry was kept |
| assert `EpollPoller.cpp:58`, what epoll reports is in the map | it fails after a redundant `disableAll()` (below) |
| assert `TcpServer.cpp:189`, one entry is erased | it fails when a connection is closed twice (below) |
| asserts `TcpConnection.cpp:48` and `Channel.cpp:43` | they fail when `~TcpServer` destroys a connection that is connecting or half closed |
| assert `LockFreeThreadPool.h:87`, with a comment that a free slot means that `enqueue` succeeds | it fails behind a thread that has claimed its cell and not finished |
| comment `Timerld.h:35`, the sequence number prevents ABA | not when it is read after the address was used again (`TimerQueue.cpp:77`) |

The list in full:

* A redundant `disableAll()` registers a descriptor again and `remove()` leaves it
  with epoll (`EpollPoller.cpp:71-75`, `:102`); `epoll_wait` may then report a
  channel the poller forgot (`Redundant = TRUE`).
* `forceClose()` from another thread between `handleClose`'s test and store of
  `state_` closes a connection twice (`TcpConnection.cpp:148`, the assert at
  `TcpServer.cpp:189`); `startRead()` after a close, or `stopRead()` before one,
  lets events reach a closed connection (`TcpConnection.cpp:260`).
* The functor of a `send()` from another thread captures `this`: when the
  application drops its pointer before the functor has run, it may find the
  connection gone (`TcpConnection.cpp:61`; a profile without `keepsRef`).
* `~TcpServer` can destroy a connection that is still connecting or half closed
  (asserts at `TcpConnection.cpp:48` and `Channel.cpp:43`), and with I/O loops a
  queued `removeConnectionInLoop` uses the dead server (`TcpServer.cpp:181`).
* With edge-triggered channels one `read` or `accept` per event leaves what came
  in together with it: data, a FIN, further clients (`Channel.cpp:20`,
  `Acceptor.cpp:35-55`, `CoroTcpConnection.cpp:60`, `CoroTcpServer.cpp:60`).
* `addTimer` from another thread reads the sequence number after handing the
  timer over (`TimerQueue.cpp:77`): its TimerId may name a later timer.
* `enqueue` can fail with a free cell and `dequeue` with an item in the queue,
  behind a thread that has claimed its cell and not finished; so a producer with a
  slot may find no room (`LockFreeThreadPool.h:87`).
* The `static_assert` at `MPMCQueue.h:17` lets a capacity of 1 pass. The sequence
  of a filled cell is then that of the next free position, and the queue alone
  would write over an item that nobody took. In `LockFreeThreadPool` the semaphore
  `slotsSem_` keeps the second producer away. The theorems on the queue assume two
  cells or more.
* `ThreadPool::stop()` of the FIXED model can miss a worker between its test and
  its wait; in the CACHE model all workers above zero leave in the end, since
  `activeThreads_` is never decremented (`ThreadPool.cc:57`, `:100`).
* `DynamicThreadPool::tryShrink` decrements `threads_` for a thread that goes on
  (`DynamicThreadPool.h:425`), so there may be more than `maxThreads` threads, and
  `stopAll` may return under live workers, which then use the pool after its
  destructor, or wait for a counter that has wrapped.
* In the coroutine server, a handler that returns after a suspension destroys the
  frame that is running (`CoroTcpConnection.cpp:56`), a suspended handler keeps its
  connection for ever, `shutdown()` sends the FIN before the output and makes a
  later close go unnoticed (`:110`), and a `Channel` is destroyed inside its own
  `handleEvent`.
* `loop()` forgets a `quit()` that came before it (`Eventloop.cpp:73`), and
  `~EventLoopThread` then waits for a thread that does not end. The destructor
  reads `loop_` without the mutex, and its `quit()` and `wakeup()` may find the
  `EventLoop` gone (`TcpServer.cpp:28`).
* In the io_uring server: with more operations than the completion queue has
  entries, a completion can be written over one that is still to be handled
  (`uring_poller.cpp:74`); an operation that finds no entry of the submission
  queue is dropped and its coroutine never resumed; after a failure `read` and
  `send` look at an `errno` that io_uring does not set, and `send` on a broken
  connection may repeat for ever (`UringCoroTcpConnection.cpp:79`, `:113`); a
  `forceclose()` while the handler is suspended can let the handler's return
  destroy the frame that is running (`:151`); after `shutdown()` the handler's end
  closes nothing and the connection stays in the map (`:50`).

## 6. What is not modelled, and the plan

Not modelled: logging, formatting, addresses and socket options; the two
examples; memory orders weaker than the ones used; resource exhaustion other than
descriptors (`bad_alloc`, thread creation); relaxed monitoring counters.

* `MPMCQueueV2` has no user and takes `MPMCQueue`'s steps with cursors that carry
  a tag, which every exchange writes back as 0.
* `HazardPointer`: `LFMemoryPool::pop` announces a block and nothing retires one,
  so no scan ever reads an announcement; `retire` and `scan` have no caller.
* `TaggedPointer`, `LFStack` have no user, and `push` and `pop` of `LFStack` cannot
  be instantiated, since they assign an object with a `std::atomic` member.
* The pools of `pool/` are free lists in one thread, without a user.
* `AsyncRead`, `AsyncWrite`, `AsyncSleep`, `Generator` and the waiting halves of
  `CoroChannel` are not called by anything; `CoroTimerQueue` is empty. `Task` is
  modelled where connections use it.
* `~UringTcpServer`, the end of an io_uring loop, and calls to an io_uring
  connection from other threads; `~TimerQueue`.

Order of the work. The reactor came first (loop, poller, connection, server,
timers), since everything else runs on it; then the pools, where the concurrency
is; then buffer, memory pool and coroutine server; then the thread around a loop
and the io_uring back end.

Next, in this order:

1. Proofs: a theorem on `TcpServer` with a destructor that runs only
   when nothing is queued for the server any more.
2. Compositions: a `TcpServer` whose loops keep the pass structure of
   `EventLoop`; timers in the loop of a server.
