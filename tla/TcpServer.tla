------------------------------ MODULE TcpServer ------------------------------
(***************************************************************************)
(* net/TcpServer.cpp, net/Acceptor.cpp and the life of TcpConnection       *)
(* objects: the base loop that accepts, the I/O loops that own the         *)
(* connections, the threads of the application that call a connection, and *)
(* the shared_ptrs that keep it alive.  A loop's task queue is used as     *)
(* SerialExecutor promises; within a pass a loop handles the channels that *)
(* epoll_wait reported before it runs functors.                            *)
(***************************************************************************)
EXTENDS TcpConnection, FiniteSets, SequencesExt

CONSTANTS Conns,      \* the connections ever accepted
          Pools,      \* the sequences of I/O loops setThreadNum may ask for
          App,        \* threads of the application
          Profiles,   \* the applications to be tried
          ET,         \* Channel::et_
          MaxSends,   \* bound: calls of send
          MaxQueue    \* bound: functors a user call may find in a queue

\* An application is what it does with a server:
\*   appOps    what its threads call
\*   userOps   what callbacks call in the loop's thread
\*   downOps   what the connection callback calls on the way down
\*   keepsRef  it keeps its TcpConnectionPtr until what it asked for is done
\*   destroys  ~TcpServer may run
ASSUME ServerAssumption ==
    /\ ET \in BOOLEAN
    /\ \A p \in Profiles :
          /\ {p.keepsRef, p.destroys} \subseteq BOOLEAN
          /\ p.appOps \cup p.userOps \cup p.downOps \subseteq Ops
    /\ {MaxSends, MaxQueue, HighWaterMark} \subseteq Nat
    /\ \A p \in Pools : p \in Seq(Range(p))

VARIABLES conn,          \* the record of each connection
          loop,          \* TcpConnection::loop_
          loops_, next_, \* of EventLoopThreadPool, next_ counted from 1
          connections_,
          server,        \* the TcpServer object exists
          listening_, backlog, acceptEdge,   \* the listening socket
          queue,         \* the functors of each loop
          active,        \* activeChannels_ not yet handled, with revents_
          stopped,       \* the loops whose thread has ended
          tpc,           \* a thread between its test of state_ and its store
          userRef,       \* the TcpConnectionPtrs the application keeps
          alive,         \* the TcpConnection objects that exist
          failed,        \* the asserts of TcpServer that did not hold, and
                         \* the uses of an object that is gone
          sends,
          profile        \* the application: one of Profiles

accepting == <<listening_, backlog, acceptEdge>>
pool == <<loops_, next_, profile>>
vars == <<conn, loop, pool, connections_, server, accepting, queue, active,
          stopped, tpc, userRef, alive, failed, sends>>

AppOps == profile.appOps
UserOps == profile.userOps
DownOps == profile.downOps
KeepsRef == profile.keepsRef
Destroys == profile.destroys

Base == "base"
Loops == {Base} \cup UNION {Range(p) : p \in Pools}

\* A thread that is not between its test and its store.
idle == <<>>

InCall(t, c) == tpc[t] # idle /\ tpc[t][2] = c

Functor(kind, c) == [kind |-> kind, c |-> c]

\* Mutant: the functor that destroys a connection captures this.
StrongNotDestroyed == {"established", "removeInLoop", "forceClose",
                       "writeComplete", "highWaterMark"}

\* The functors that capture a TcpConnectionPtr.  The others capture this.
Strong == {"established", "removeInLoop", "destroyed", "forceClose",
           "writeComplete", "highWaterMark"}

\* The connection is reachable from a shared_ptr.
Held(c) ==
    \/ c \in connections_ \/ c \in userRef \/ conn[c].timer
    \/ \E t \in App : InCall(t, c)
    \/ \E l \in Loops : \E i \in DOMAIN queue[l] :
           queue[l][i].c = c /\ queue[l][i].kind \in Strong

\* The last conjunct of every step: a connection whose last shared_ptr went
\* away in the step is destroyed.
Reap == alive' = {c \in Conns : Held(c)'}

Init ==
    /\ conn = [c \in Conns |-> NewConn]
    /\ loop = [c \in Conns |-> Base]
    /\ loops_ = <<>> /\ next_ = 1
    /\ connections_ = {} /\ server = TRUE
    /\ listening_ = FALSE /\ backlog = {} /\ acceptEdge = FALSE
    /\ queue = [l \in Loops |-> <<>>]
    /\ active = [l \in Loops |-> {}]
    /\ stopped = {}
    /\ tpc = [t \in App |-> idle]
    /\ userRef = {} /\ alive = {} /\ failed = {}
    /\ sends = 0 /\ profile \in Profiles
-----------------------------------------------------------------------------
(* What a connection's operation does outside the connection.              *)

\* removeConnectionInLoop queues connectDestroyed to the connection's loop.
destroyIn(c) == loop[c]

\* TcpServer::removeConnectionInLoop, with the queues as they are in q.
removeConnectionInLoop(c, q) ==
    IF server
    THEN /\ connections_' = connections_ \ {c}
         /\ failed' = failed \cup Assert_(c \in connections_,
                                          "TcpServer.cpp:189")
         /\ queue' = [q EXCEPT ![destroyIn(c)] =
                          Append(@, Functor("destroyed", c))]
    ELSE /\ failed' = failed \cup {"use of a dead TcpServer"}
         /\ queue' = q
         /\ UNCHANGED connections_

\* What the callbacks of an open connection call.
inCallback(op) == IF op \in UserOps THEN op ELSE "nothing"

\* The connection callback of a closed connection may call op.
afterDown(c, k, op, w) ==
    IF k.downs > conn[c].downs /\ op \in DownOps THEN call(op, k, w) ELSE k

\* The operation of c left the record k: its functors are queued, and
\* closeCallback_, TcpServer::removeConnection, runs.
apply(c, k, q) ==
    LET posted == [i \in DOMAIN k.posts |-> Functor(k.posts[i], c)]
        q1 == [q EXCEPT ![loop[c]] = @ \o posted]
    IN  /\ conn' = [conn EXCEPT ![c] =
                        [k EXCEPT !.posts = <<>>, !.closes = 0]]
        /\ CASE k.closes = 0 ->
                    queue' = q1 /\ UNCHANGED <<connections_, failed>>
             [] k.closes > 0 /\ loop[c] # Base ->
                    /\ queue' = [q1 EXCEPT ![Base] =
                                     Append(@, Functor("removeInLoop", c))]
                    /\ UNCHANGED <<connections_, failed>>
             [] k.closes > 0 /\ loop[c] = Base ->
                    removeConnectionInLoop(c, q1)

\* The bounds: send() is counted, and a queue is not filled without end.
count(op) == sends' = sends + (IF op = "send" THEN 1 ELSE 0)
mayCall(l, op) == /\ op = "send" => sends < MaxSends
                  /\ op # "nothing" => Len(queue[l]) < MaxQueue
-----------------------------------------------------------------------------
(* Accepting.                                                              *)

\* TcpServer::start: the threads of the I/O loops are started and the
\* acceptor listens.
Start ==
    /\ server /\ ~listening_
    /\ loops_' \in Pools
    /\ listening_' = TRUE
    /\ acceptEdge' = TRUE
    /\ UNCHANGED <<conn, loop, next_, profile, connections_, server, backlog,
                   queue, active, stopped, tpc, userRef, failed, sends>>
    /\ Reap

\* A client connects.
Connect(c) ==
    /\ listening_
    /\ c \notin backlog /\ c \notin alive /\ conn[c] = NewConn
    /\ backlog' = backlog \cup {c}
    /\ acceptEdge' = TRUE
    /\ UNCHANGED <<conn, loop, pool, connections_, server, listening_, queue,
                   active, stopped, tpc, userRef, failed, sends>>
    /\ Reap

\* The listening socket is reported, in the same way as another channel.
AcceptReported ==
    /\ server /\ listening_ /\ acceptEdge /\ backlog # {}
    /\ active[Base] = {}
    /\ acceptEdge' = ~ET

\* EventLoopThreadPool::getNextLoop.
getNextLoop == IF loops_ = <<>> THEN Base ELSE loops_[next_]

\* Acceptor::handleRead accepts one connection; TcpServer::newConnection.
NewConnection(c, op, w) ==
    /\ AcceptReported
    /\ c \in backlog
    /\ backlog' = backlog \ {c}
    /\ connections_' = connections_ \cup {c}
    /\ loop' = [loop EXCEPT ![c] = getNextLoop]
    /\ next_' = IF loops_ = <<>> THEN 1 ELSE (next_ % Len(loops_)) + 1
    /\ IF getNextLoop = Base
       THEN LET k == connectEstablished(conn[c])
                k1 == IF inCallback(op) \in Ops THEN call(op, k, w) ELSE k
            IN  /\ mayCall(Base, op) /\ count(op) /\ mayEnd(k, w)
                /\ conn' = [conn EXCEPT ![c] = [k1 EXCEPT !.posts = <<>>]]
                /\ queue' = [queue EXCEPT ![Base] = @ \o
                       [i \in DOMAIN k1.posts |-> Functor(k1.posts[i], c)]]
                /\ userRef' = userRef \cup {c}
       ELSE /\ op = "nothing" /\ w = "all"
            /\ queue' = [queue EXCEPT ![getNextLoop] =
                             Append(@, Functor("established", c))]
            /\ UNCHANGED <<conn, userRef, sends>>
    /\ UNCHANGED <<loops_, profile, server, listening_, active, stopped, tpc,
                   failed>>
    /\ Reap

\* Acceptor::handleRead when the process is out of descriptors: the idle
\* descriptor is given up to accept and close one connection.
AcceptEmfile(c) ==
    /\ AcceptReported
    /\ c \in backlog
    /\ backlog' = backlog \ {c}
    /\ UNCHANGED <<conn, loop, pool, connections_, server, listening_, queue,
                   active, stopped, tpc, userRef, failed, sends>>
    /\ Reap
-----------------------------------------------------------------------------
(* The loops.                                                              *)

\* ~TcpServer is over: ~EventLoopThreadPool joined the threads of the loops.
Joined == server \/ Range(loops_) \subseteq stopped

\* The loop's thread is not in the middle of a callback or a destructor.
Idle(l) == l \notin stopped /\ active[l] = {} /\ (l = Base => Joined)

\* epoll_wait returns with the channels of S.
Poll(l, S) ==
    /\ Idle(l)
    /\ S # {}
    /\ \A c \in S : /\ c \in alive /\ loop[c] = l
                    /\ conn[c].ch.epoll # Absent
                    /\ conn[c].ch.edge
                    /\ revents(conn[c]) # {}
    /\ active' = [active EXCEPT ![l] =
                      {[c |-> c, revents |-> revents(conn[c])] : c \in S}]
    /\ conn' = [c \in Conns |->
                   IF c \in S THEN [conn[c] EXCEPT !.ch = reported(@, ET)]
                              ELSE conn[c]]
    /\ UNCHANGED <<loop, pool, connections_, server, accepting, queue,
                   stopped, tpc, userRef, failed, sends>>
    /\ Reap

\* Channel::handleEvent of a reported channel.  tie_ keeps the connection
\* alive during the call; a channel that is gone cannot be asked for tie_.
HandleEvent(l, a, op, w) ==
    /\ a \in active[l]
    /\ active' = [active EXCEPT ![l] = @ \ {a}]
    /\ mayCall(l, op) /\ count(op)
    /\ IF a.c \in alive
       THEN LET k == conn[a.c] IN
            /\ mayEnd(k, w)
            /\ apply(a.c, afterDown(a.c,
                              handleEvent(k, a.revents, inCallback(op), w),
                              op, w), queue)
       ELSE /\ failed' = failed \cup {"use of a dead Channel"}
            /\ UNCHANGED <<conn, connections_, queue>>
    /\ UNCHANGED <<loop, pool, server, accepting, stopped, tpc, userRef>>
    /\ Reap

\* The effect of a functor on its connection's record.
run(kind, k, op, w) ==
    CASE kind = "established" ->
             LET k1 == connectEstablished(k)
             IN  IF inCallback(op) \in Ops THEN call(op, k1, w) ELSE k1
      [] kind = "destroyed" -> connectDestroyed(k)
      [] kind \in {"writeComplete", "highWaterMark"} -> k
      [] kind \in Ops -> inLoop(kind, k, w)

\* doPendingFunctors runs the functor at the head of the queue.
RunFunctor(l, op, w) ==
    /\ Idle(l)
    /\ queue[l] # <<>>
    /\ LET f == Head(queue[l])
           c == f.c
           q == [queue EXCEPT ![l] = Tail(@)]
       IN  /\ f.kind # "established" => op \in DownOps \cup {"nothing"}
           /\ mayCall(l, op) /\ count(op) /\ mayEnd(conn[c], w)
           /\ userRef' = IF f.kind = "established" THEN userRef \cup {c}
                                                   ELSE userRef
           /\ CASE f.kind = "removeInLoop" ->
                       removeConnectionInLoop(c, q) /\ UNCHANGED conn
                [] f.kind # "removeInLoop" /\ c \in alive ->
                       apply(c, afterDown(c, run(f.kind, conn[c], op, w),
                                          op, w), q)
                [] OTHER ->
                       /\ failed' = failed \cup {"use of a dead TcpConnection"}
                       /\ queue' = q
                       /\ UNCHANGED <<conn, connections_>>
    /\ UNCHANGED <<loop, pool, server, accepting, active, stopped, tpc>>
    /\ Reap

\* The timer of forceCloseWithDelay fires.
TimerFires(c, op, w) ==
    /\ Idle(loop[c])
    /\ conn[c].timer
    /\ op \in DownOps \cup {"nothing"} /\ mayCall(loop[c], op) /\ count(op)
    /\ mayEnd(conn[c], w)
    /\ apply(c, afterDown(c,
                    forceCloseInLoop([conn[c] EXCEPT !.timer = FALSE]),
                    op, w), queue)
    /\ UNCHANGED <<loop, pool, server, accepting, active, stopped, tpc,
                   userRef>>
    /\ Reap
-----------------------------------------------------------------------------
(* The application.                                                        *)

\* Other code of the application in the loop's thread (a timer, a functor)
\* calls the connection.
LoopCall(c, op, w) ==
    /\ c \in userRef
    /\ Idle(loop[c])
    /\ op \in UserOps /\ admits(op, conn[c].state)
    /\ conn[c].state # "kDisconnected" \/ op \in DownOps
    /\ mayCall(loop[c], op) /\ count(op) /\ mayEnd(conn[c], w)
    /\ apply(c, call(op, conn[c], w), queue)
    /\ UNCHANGED <<loop, pool, server, accepting, active, stopped, tpc,
                   userRef>>
    /\ Reap

\* A call from another thread: it tests state_ ...
AppCall(t, c, op) ==
    /\ tpc[t] = idle
    /\ c \in userRef
    /\ op \in AppOps /\ admits(op, conn[c].state)
    /\ mayCall(loop[c], op) /\ count(op)
    /\ tpc' = [tpc EXCEPT ![t] = <<op, c>>]
    /\ UNCHANGED <<conn, loop, pool, connections_, server, accepting, queue,
                   active, stopped, userRef, failed>>
    /\ Reap

\* ... and then stores it and hands the rest to the loop.
AppCommit(t) ==
    /\ tpc[t] # idle
    /\ LET op == tpc[t][1]
           c == tpc[t][2]
           k == [conn[c] EXCEPT !.state = stored(op, @)]
           delayed == op = "forceCloseWithDelay"
       IN  /\ conn' = [conn EXCEPT ![c] =
                          IF delayed THEN [k EXCEPT !.timer = TRUE] ELSE k]
           /\ queue' = IF delayed THEN queue
                       ELSE [queue EXCEPT ![loop[c]] =
                                 Append(@, Functor(op, c))]
           /\ failed' = failed \cup Assert_(loop[c] \notin stopped,
                                            "use of a dead EventLoop")
    /\ tpc' = [tpc EXCEPT ![t] = idle]
    /\ UNCHANGED <<loop, pool, connections_, server, accepting, active,
                   stopped, userRef, sends>>
    /\ Reap

\* The application forgets the connection.
Drop(c) ==
    /\ c \in userRef
    /\ KeepsRef =>
          /\ \A t \in App : ~InCall(t, c)
          /\ \A i \in DOMAIN queue[loop[c]] :
                 queue[loop[c]][i].c = c => queue[loop[c]][i].kind \in Strong
    /\ userRef' = userRef \ {c}
    /\ UNCHANGED <<conn, loop, pool, connections_, server, accepting, queue,
                   active, stopped, tpc, failed, sends>>
    /\ Reap

\* TcpServer::~TcpServer in the base loop's thread.  Its threadPool_ asks
\* the I/O loops to quit and joins their threads.
DestroyServer ==
    /\ Destroys /\ server
    /\ Idle(Base)
    /\ server' = FALSE /\ connections_' = {}
    /\ listening_' = FALSE /\ backlog' = {} /\ acceptEdge' = FALSE
    /\ conn' = [c \in Conns |-> IF c \in connections_ /\ loop[c] = Base
                                THEN connectDestroyed(conn[c]) ELSE conn[c]]
    /\ queue' = [l \in Loops |->
                    LET mine == {c \in connections_ : loop[c] = l /\ l # Base}
                    IN  queue[l] \o SetToSeq({Functor("destroyed", c) :
                                                  c \in mine})]
    /\ UNCHANGED <<loop, pool, active, stopped, tpc, userRef, failed, sends>>
    /\ Reap

\* Mutant: the functors are not destroyed with the EventLoop.
dropFunctorsNever(l) == queue

\* ~EventLoop destroys pendingFunctors_.
dropFunctors(l) == [queue EXCEPT ![l] = <<>>]

\* An I/O loop sees quit_ at the end of a pass and its EventLoop is
\* destroyed, with the functors that were pushed during that pass.
StopLoop(l) ==
    /\ ~server
    /\ l \in Range(loops_) /\ Idle(l)
    /\ stopped' = stopped \cup {l}
    /\ queue' = dropFunctors(l)
    /\ conn' = [c \in Conns |-> IF loop[c] = l
                                THEN [conn[c] EXCEPT !.timer = FALSE]
                                ELSE conn[c]]
    /\ UNCHANGED <<loop, pool, connections_, server, accepting, active, tpc,
                   userRef, failed, sends>>
    /\ Reap
-----------------------------------------------------------------------------
(* The peers (external).                                                   *)

\* The socket's state changes and epoll looks at it.
touch(k) == [k EXCEPT !.ch.edge = (k.ch.epoll # Absent)]

Peer(c, k) ==
    /\ c \in alive /\ conn[c].state # "kConnecting"
    /\ conn' = [conn EXCEPT ![c] = touch(k)]
    /\ UNCHANGED <<loop, pool, connections_, server, accepting, queue,
                   active, stopped, tpc, userRef, failed, sends>>
    /\ Reap

PeerSends(c) == /\ conn[c].inbox = {}
                /\ Peer(c, [conn[c] EXCEPT !.inbox = {"data"}])
PeerCloses(c) == /\ conn[c].inbox \cap {"fin", "rst"} = {}
                 /\ Peer(c, [conn[c] EXCEPT !.inbox = @ \cup {"fin"}])
PeerResets(c) == /\ conn[c].inbox \cap {"fin", "rst"} = {}
                 /\ Peer(c, [conn[c] EXCEPT !.inbox = @ \cup {"rst", "err"}])
PeerReads(c) == /\ conn[c].full
                /\ Peer(c, [conn[c] EXCEPT !.full = FALSE])
-----------------------------------------------------------------------------
Calls == Ops \cup {"nothing"}

Handle(l) == \E a \in active[l], op \in UserOps \cup DownOps \cup {"nothing"},
                w \in WriteResults : HandleEvent(l, a, op, w)
Run(l) == \E op \in UserOps \cup DownOps \cup {"nothing"}, w \in WriteResults :
              RunFunctor(l, op, w)
Timer(c) == \E op \in Calls, w \in WriteResults : TimerFires(c, op, w)

Next ==
    \/ Start \/ DestroyServer
    \/ \E l \in Loops : \/ Handle(l) \/ Run(l) \/ StopLoop(l)
                        \/ \E S \in SUBSET Conns : Poll(l, S)
    \/ \E c \in Conns :
          \/ Connect(c) \/ AcceptEmfile(c) \/ Drop(c)
          \/ PeerSends(c) \/ PeerCloses(c) \/ PeerResets(c) \/ PeerReads(c)
          \/ \E op \in Calls, w \in WriteResults :
                NewConnection(c, op, w) \/ LoopCall(c, op, w)
          \/ Timer(c)
          \/ \E t \in App, op \in AppOps : AppCall(t, c, op)
    \/ \E t \in App : AppCommit(t)

Spec == Init /\ [][Next]_vars

\* The threads of the loops run, each pass runs its functors and timers and
\* reports what is ready, a peer reads what it is sent and a write that is
\* repeated ends with all of the bytes.  The application drops what is closed.
Fairness ==
    /\ \A l \in Loops :
          /\ SF_vars(Run(l))
          /\ WF_vars(Handle(l))
          /\ WF_vars(StopLoop(l))
          /\ SF_vars(\E a \in active[l] : /\ "out" \in a.revents
                                       /\ HandleEvent(l, a, "nothing", "all"))
    /\ \A c \in Conns :
          /\ SF_vars(\E S \in SUBSET Conns : c \in S /\ Poll(loop[c], S))
          /\ SF_vars(Timer(c))
          /\ WF_vars(PeerReads(c))
          /\ WF_vars(conn[c].state = "kDisconnected" /\ Drop(c))
    /\ SF_vars(\E c \in Conns : NewConnection(c, "nothing", "all"))
    /\ \A t \in App : WF_vars(AppCommit(t))

FairSpec == Spec /\ Fairness
-----------------------------------------------------------------------------
(* Properties.                                                             *)

\* While the server lives, no functor, event or call uses a TcpConnection,
\* Channel, TcpServer or EventLoop that has been destroyed.
NoUseAfterFree ==
    server => failed \cap {"use of a dead TcpServer", "use of a dead Channel",
                         "use of a dead TcpConnection",
                         "use of a dead EventLoop"} = {}

\* While the server lives, the connection callback announces a connection once
\* and then, at most once, its end; TcpServer removes it once
\* (TcpServer.cpp:189).
DownOnce ==
    server => /\ \A c \in Conns : /\ conn[c].downs <= conn[c].ups
                                 /\ conn[c].ups <= 1
              /\ "TcpServer.cpp:189" \notin failed

\* The connections own their channels as module EPollPoller allows an owner
\* to, and what it promises holds of them: index_, events_, channels_ and the
\* kernel agree while the server lives, so that a connection that disabled its
\* events is not heard of again.
Poller == INSTANCE EPollPoller WITH Chans <- Conns,
                                    chan <- [c \in Conns |-> conn[c].ch],
                                    Pauses <- TRUE, Redundant <- FALSE
EpollAgrees == server => Poller!EpollAgrees
OnlyTwoAssertsFail == Poller!OnlyTwoAssertsFail

\* TcpConnection.cpp:48, assert(state_ == kDisconnected), and Channel.cpp:29,
\* assert(!addedToLoop_): while the server lives, a connection is closed and
\* removed from its poller before its last shared_ptr goes away.
FreedIsClosed ==
    [][server' => \A c \in alive \ alive' :
           conn'[c].state = "kDisconnected" /\ ~conn'[c].ch.addedToLoop]_vars

\* The half-close waits for the data: no FIN is sent while outputBuffer_
\* holds some, and after it none is buffered.
FinIsLast == \A c \in Conns : conn[c].finSent => conn[c].out = 0

\* A closed connection's object is destroyed.
ClosedIsFreed ==
    \A c \in Conns : (conn[c].state = "kDisconnected") ~> (c \notin alive)

\* While the server lives, a connection whose peer closed or reset it is
\* closed, unless the application stopped reading (handleRead, and Channel's
\* closeCallback_).  Channels are edge-triggered (Channel.cpp:20) and
\* handleRead reads once: this holds of an end that epoll has still to report
\* and that no data comes before.  An end reported together with data is not
\* noticed until something else changes the socket.
PeerCloseIsNoticed ==
    \A c \in Conns :
        (/\ conn[c].inbox \cap {"fin", "rst"} # {} /\ "data" \notin conn[c].inbox
         /\ conn[c].ch.edge /\ isReading(conn[c].ch) /\ server)
            ~> \/ conn[c].state = "kDisconnected"
               \/ ~isReading(conn[c].ch) \/ ~server

\* While the server lives, shutdown() with data still buffered ends with a
\* FIN, a close or a reset (handleWrite calls shutdownInLoop again).
ShutdownFinishes ==
    \A c \in Conns :
        (conn[c].state = "kDisconnecting" /\ server)
            ~> \/ conn[c].finSent \/ "rst" \in conn[c].inbox
               \/ conn[c].state = "kDisconnected" \/ ~server

\* After ~TcpServer every connection the application does not keep is
\* destroyed, whatever was queued for it.
TeardownFrees == ~server ~> (alive \subseteq userRef)

=============================================================================
