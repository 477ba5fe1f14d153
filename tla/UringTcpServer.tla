---------------------------- MODULE UringTcpServer ---------------------------
(***************************************************************************)
(* io_uring/UringCoroTcpServer.cpp over the loops of UringEventLoop.cpp:   *)
(* the accept loop, the connections with what keeps them alive, and each   *)
(* loop's poll(), completions and functors.                                *)
(*                                                                         *)
(* A connection owns the frame of connectionLoop(), which owns the frame   *)
(* of its handler, which owns a shared_ptr to the connection.  Functors    *)
(* are queued as module SerialExecutor promises.                           *)
(***************************************************************************)
EXTENDS UringTcpConnection

CONSTANTS Conns,       \* the connections ever accepted
          Setups       \* the systems to be tried: the I/O loops, and how
                       \* often (a bound) io_uring_submit falls short in
                       \* the ring of each loop

Base == "base"
Accept == <<"accept">>

ASSUME UringAssumption ==
    /\ IsFiniteSet(Conns) /\ Conns \cap {Wakeup, Accept, -1} = {}
    /\ MaxLen \in Nat \ {0}
    /\ \A s \in Setups :
          /\ s.faults \in Nat
          /\ s.loops \in Seq({s.loops[i] : i \in DOMAIN s.loops})

VARIABLES conn,           \* the record of each connection
          loop,           \* its loop_
          loops_,
          connections_,
          alive,          \* the UringTcpConnection objects that exist
          backlog,        \* clients of the listening socket
          ring,           \* the UringPoller of each loop
          wakeupFd,       \* whether its eventfd is readable
          lp,             \* its place in loop()
          queue, todo,    \* pendingFunctors_, and those being run
          failed          \* uses of what is gone

server == <<loop, loops_, backlog>>
conns == <<conn, connections_, alive, failed>>
queues == <<queue, todo>>
vars == <<conns, server, ring, wakeupFd, lp, queues>>

Loops == {Base} \cup {loops_[i] : i \in DOMAIN loops_}

\* The rings with which loop l may begin: the poll of the eventfd is
\* registered, and UringTcpServer::start has come to its first co_await.
FirstRings(l, faults) ==
    LET polled == registerWakeupPoll(NewRing(faults))
    IN  IF l = Base THEN UNION {await_suspend(r, Accept) : r \in polled}
                    ELSE polled

Init ==
    /\ \E s \in Setups :
          /\ loops_ = s.loops
          /\ ring \in [Loops -> UNION {FirstRings(l, s.faults) : l \in Loops}]
          /\ \A l \in Loops : ring[l] \in FirstRings(l, s.faults)
    /\ conn = [c \in Conns |-> NewConn]
    /\ loop = [c \in Conns |-> Base]
    /\ connections_ = {} /\ alive = {} /\ backlog = {} /\ failed = {}
    /\ wakeupFd = [l \in Loops |-> FALSE]
    /\ lp = [l \in Loops |-> "functors"]
    /\ queue = [l \in Loops |-> <<>>]
    /\ todo = [l \in Loops |-> <<>>]

\* The ring of loop l becomes one of those in R.
rings(l, R) == \E r \in R : ring' = [ring EXCEPT ![l] = r]
-----------------------------------------------------------------------------
(* Lifetime.                                                               *)

\* The functors that own a shared_ptr; the others have captured this.
Strong == {"start", "removeConnectionInLoop", "guard"}

Queued(q, c, kinds) ==
    \E l \in DOMAIN q : \E i \in DOMAIN q[l] :
        q[l][i].c = c /\ q[l][i].kind \in kinds

\* The records, the map and the functors at the end of a step.  A connection
\* to which there is no shared_ptr is destroyed; when its connectionLoop()
\* has just ended, that is with the frame that is running.
settle(co, map, q, t) ==
    LET held == {c \in Conns : \/ c \in map
                               \/ co[c].handler = "suspended"
                               \/ Queued(q, c, Strong) \/ Queued(t, c, Strong)}
        gone == alive \ held
    IN  /\ conn' = [c \in Conns |-> IF c \in gone THEN destroyed ELSE co[c]]
        /\ alive' = held
        /\ connections_' = map /\ queue' = q /\ todo' = t
        /\ failed' = failed \cup
              {"running frame" : c \in {d \in gone :
                    /\ conn[d].handler = "suspended" /\ co[d].polite}}

\* Mutant: a functor posted by a functor is left for the next wakeup.
ownerMustWakeNever(l) == FALSE

\* queueInLoop in the loop's own thread: callingPendingFunctors_.
ownerMustWake(l) == lp[l] = "functors"

\* A step of c in loop l left the record k and the functors t to be run: what
\* it posted is queued, and closeCallback_ is removeConnection().
apply(c, l, k, map, t) ==
    LET own == [i \in DOMAIN k.posts |-> [kind |-> k.posts[i], c |-> c]]
        remote == k.closes /\ l # Base
        removal == IF remote
                   THEN <<[kind |-> "removeConnectionInLoop", c |-> c]>>
                   ELSE <<>>
    IN  /\ settle([conn EXCEPT ![c] = [k EXCEPT !.posts = <<>>,
                                                !.closes = FALSE]],
                  IF k.closes /\ l = Base THEN map \ {c} ELSE map,
                  [[queue EXCEPT ![l] = @ \o own] EXCEPT ![Base] = @ \o removal],
                  t)
        /\ wakeupFd' = [[wakeupFd EXCEPT
                            ![l] = @ \/ (own # <<>> /\ ownerMustWake(l))]
                         EXCEPT ![Base] = @ \/ remote]

\* The rings after a step in which c has come to wait or has ended.
waiting(r, c, k) ==
    IF k.handler = "suspended" THEN await_suspend(r, c) ELSE {r}
-----------------------------------------------------------------------------
(* poll().                                                                 *)

\* doPendingFunctors() has ended, and poll() submits what is pending.
Submit(l) ==
    /\ lp[l] = "functors" /\ todo[l] = <<>>
    /\ rings(l, submitPendingSqes(ring[l]))
    /\ lp' = [lp EXCEPT ![l] = "wait"]
    /\ UNCHANGED <<conns, server, wakeupFd, queues>>

\* io_uring_wait_cqe_timeout returns with completions.
Collect(l) ==
    /\ lp[l] = "wait" /\ ring[l].cq # <<>>
    /\ ring' = [ring EXCEPT ![l] = collect(@)]
    /\ lp' = [lp EXCEPT ![l] = "handle"]
    /\ UNCHANGED <<conns, server, wakeupFd, queues>>

\* It returns after 1000 ms, or is interrupted.
PollTimesOut(l) ==
    /\ lp[l] = "wait" /\ ring[l].cq = <<>>
    /\ lp' = [lp EXCEPT ![l] = "handle"]
    /\ UNCHANGED <<conns, server, ring, wakeupFd, queues>>

Next_(l, op) == /\ lp[l] = "handle" /\ ring[l].active # <<>>
                /\ Head(ring[l].active).op = op
cqeRes(l) == Head(ring[l].active).res

HandleWakeup(l) ==
    /\ Next_(l, Wakeup)
    /\ wakeupFd' = [wakeupFd EXCEPT ![l] = FALSE]
    /\ rings(l, registerWakeupPoll(handled(ring[l])))
    /\ UNCHANGED <<conns, server, lp, queues>>

\* read() or send() of c is resumed and waits again.
HandleRepeat(c, again) ==
    /\ Next_(loop[c], c)
    /\ again => cqeRes(loop[c]) < 0
    /\ repeats(conn[c], cqeRes(loop[c]), again)
    /\ conn' = [conn EXCEPT ![c] = remaining(@, cqeRes(loop[c]))]
    /\ rings(loop[c], await_suspend(handled(ring[loop[c]]), c))
    /\ UNCHANGED <<server, connections_, alive, failed, wakeupFd, lp, queues>>

\* It returns to the handler, which goes on.
HandleResult(c, again, op, then) ==
    LET res == cqeRes(loop[c])
        k == finished(conn[c], res)
        k1 == handle(k, op, then)
    IN  /\ Next_(loop[c], c)
        /\ again => res < 0
        /\ ~repeats(conn[c], res, again)
        /\ admits(op, k)
        /\ rings(loop[c], waiting(handled(ring[loop[c]]), c, k1))
        /\ apply(c, loop[c], k1, connections_, todo)
        /\ UNCHANGED <<server, lp>>

AcceptFails ==
    /\ Next_(Base, Accept) /\ cqeRes(Base) = -1
    /\ rings(Base, await_suspend(handled(ring[Base]), Accept))
    /\ UNCHANGED <<conns, server, wakeupFd, lp, queues>>

\* getNextLoop.
getNextLoop == IF loops_ = <<>> THEN Base ELSE Head(loops_)
rotated == IF loops_ = <<>> THEN loops_ ELSE Append(Tail(loops_), Head(loops_))

\* onNewConnection in the base loop, which starts the connection at once.
NewConnectionHere(c, op, then) ==
    LET k == handle(start(conn[c]), op, then)
    IN  /\ Next_(Base, Accept) /\ cqeRes(Base) = c
        /\ getNextLoop = Base
        /\ rings(Base, UNION {await_suspend(r, Accept) :
                              r \in waiting(handled(ring[Base]), c, k)})
        /\ apply(c, Base, k, connections_ \cup {c}, todo)
        /\ UNCHANGED <<server, lp>>

\* onNewConnection with an I/O loop, which is to start the connection.
NewConnectionThere(c) ==
    LET l == getNextLoop
    IN  /\ Next_(Base, Accept) /\ cqeRes(Base) = c
        /\ l # Base
        /\ loop' = [loop EXCEPT ![c] = l] /\ loops_' = rotated
        /\ settle(conn, connections_ \cup {c},
                  [queue EXCEPT ![l] = Append(@, [kind |-> "start", c |-> c])],
                  todo)
        /\ wakeupFd' = [wakeupFd EXCEPT ![l] = TRUE]
        /\ rings(Base, await_suspend(handled(ring[Base]), Accept))
        /\ UNCHANGED <<backlog, lp>>
-----------------------------------------------------------------------------
(* doPendingFunctors().                                                    *)

BeginFunctors(l) ==
    /\ lp[l] = "handle" /\ ring[l].active = <<>>
    /\ lp' = [lp EXCEPT ![l] = "functors"]
    /\ todo' = [todo EXCEPT ![l] = queue[l]]
    /\ queue' = [queue EXCEPT ![l] = <<>>]
    /\ UNCHANGED <<conns, server, ring, wakeupFd>>

NextFunctor(l, kind, c) ==
    /\ lp[l] = "functors" /\ todo[l] # <<>>
    /\ Head(todo[l]) = [kind |-> kind, c |-> c]
rest(l) == [todo EXCEPT ![l] = Tail(@)]

RunStart(l, c, op, then) ==
    LET k == handle(start(conn[c]), op, then)
    IN  /\ NextFunctor(l, "start", c)
        /\ rings(l, waiting(ring[l], c, k))
        /\ apply(c, l, k, connections_, rest(l))
        /\ UNCHANGED <<server, lp>>

RunRemoval(l, c) ==
    /\ NextFunctor(l, "removeConnectionInLoop", c)
    /\ settle(conn, connections_ \ {c}, queue, rest(l))
    /\ UNCHANGED <<server, ring, wakeupFd, lp>>

RunGuard(l, c) ==
    /\ NextFunctor(l, "guard", c)
    /\ settle(conn, connections_, queue, rest(l))
    /\ UNCHANGED <<server, ring, wakeupFd, lp>>

\* forcecloseInLoop or shutdownInLoop of a connection that may be gone.
RunRaw(l, c, kind) ==
    /\ NextFunctor(l, kind, c)
    /\ IF c \in alive
       THEN apply(c, l, IF kind = "forceclose" THEN forcecloseInLoop(conn[c])
                                               ELSE shutdownInLoop(conn[c]),
                  connections_, rest(l))
       ELSE /\ failed' = failed \cup {"dead connection"}
            /\ todo' = rest(l)
            /\ UNCHANGED <<conn, connections_, alive, wakeupFd, queue>>
    /\ UNCHANGED <<server, ring, lp>>

\* Another functor, or a timer of the application, calls a method of c.
LoopCall(c, op) ==
    /\ c \in alive /\ conn[c].handler # "none"
    /\ lp[loop[c]] = "functors"
    /\ admits(op, conn[c]) /\ call(op, conn[c]) # conn[c]
    /\ apply(c, loop[c], call(op, conn[c]), connections_, todo)
    /\ UNCHANGED <<server, ring, lp>>
-----------------------------------------------------------------------------
(* The kernel and the peers (external).                                    *)

completes(l, op, res) ==
    /\ op \in ring[l].kernel /\ Len(ring[l].cq) < CqEntries
    /\ ring' = [ring EXCEPT ![l] = complete(@, op, res)]
    /\ UNCHANGED <<connections_, alive, failed, loop, loops_, wakeupFd, lp,
                   queues>>

CompleteWakeup(l) ==
    /\ wakeupFd[l]
    /\ completes(l, Wakeup, 0)
    /\ UNCHANGED <<conn, backlog>>

CompleteAccept(c) ==
    /\ c \in backlog
    /\ completes(Base, Accept, c)
    /\ backlog' = backlog \ {c}
    /\ UNCHANGED <<conn>>

\* listen_fd_ is non-blocking: accept finds nobody, again and again.
CompleteAcceptError ==
    /\ completes(Base, Accept, -1)
    /\ UNCHANGED <<conn, backlog>>

CompleteConn(c, res) ==
    /\ res \in results(conn[c])
    /\ completes(loop[c], c, res)
    /\ conn' = [conn EXCEPT ![c] = socketAfter(@, res)]
    /\ UNCHANGED <<backlog>>

Connect(c) ==
    /\ c \notin backlog \cup alive /\ conn[c] = NewConn
    /\ ~\E l \in Loops : \E i \in DOMAIN ring[l].cq : ring[l].cq[i].res = c
    /\ ~\E l \in Loops : \E i \in DOMAIN ring[l].active :
            ring[l].active[i].res = c
    /\ backlog' = backlog \cup {c}
    /\ UNCHANGED <<conns, loop, loops_, ring, wakeupFd, lp, queues>>

Peer(c, k) ==
    /\ c \in alive /\ conn[c].handler # "none"
    /\ conn' = [conn EXCEPT ![c] = k]
    /\ UNCHANGED <<connections_, alive, failed, server, ring, wakeupFd, lp,
                   queues>>

Open(k) == ~k.fin /\ ~k.rst

\* Bound: one byte at a time.
PeerSends(c) == /\ Open(conn[c]) /\ conn[c].inbox = 0
                /\ Peer(c, [conn[c] EXCEPT !.inbox = 1])
PeerCloses(c) == /\ Open(conn[c])
                 /\ Peer(c, [conn[c] EXCEPT !.fin = TRUE])
PeerResets(c) == /\ Open(conn[c])
                 /\ Peer(c, [conn[c] EXCEPT !.rst = TRUE])
PeerReads(c) == /\ conn[c].full
                /\ Peer(c, [conn[c] EXCEPT !.full = FALSE])
-----------------------------------------------------------------------------
Calls == Ops \cup {"nothing"}
Thens == {"read", "write", "return"}

HandleAccept ==
    \/ AcceptFails
    \/ \E c \in Conns :
          \/ NewConnectionThere(c)
          \/ \E op \in Calls, then \in Thens : NewConnectionHere(c, op, then)

HandleConn(c) ==
    \E again \in BOOLEAN :
        \/ HandleRepeat(c, again)
        \/ \E op \in Calls, then \in Thens : HandleResult(c, again, op, then)

Handle(l) ==
    \/ HandleWakeup(l)
    \/ Next_(l, Accept) /\ HandleAccept
    \/ \E c \in Conns : Next_(l, c) /\ HandleConn(c)

RunFunctor(l) ==
    \E c \in Conns :
        \/ RunRemoval(l, c) \/ RunGuard(l, c)
        \/ \E kind \in Ops : RunRaw(l, c, kind)
        \/ /\ NextFunctor(l, "start", c)
           /\ \E op \in Calls, then \in Thens : RunStart(l, c, op, then)

Step(l) ==
    \/ Collect(l) \/ PollTimesOut(l) \/ BeginFunctors(l) \/ Submit(l)
    \/ Handle(l) \/ RunFunctor(l)

Next ==
    \/ \E l \in Loops : Step(l) \/ CompleteWakeup(l)
    \/ CompleteAcceptError
    \/ \E c \in Conns :
          \/ CompleteAccept(c) \/ Connect(c)
          \/ \E res \in -1 .. MaxLen : CompleteConn(c, res)
          \/ \E op \in Ops : LoopCall(c, op)
          \/ PeerSends(c) \/ PeerCloses(c) \/ PeerResets(c) \/ PeerReads(c)

Spec == Init /\ [][Next]_vars

\* Where the thread of a loop is: it always has a next step, since poll()
\* times out, and each of its steps changes this.
place(l) == <<lp[l], Len(ring[l].active), todo[l]>>

\* The threads run, and the kernel completes what can be completed.
FairSpec ==
    /\ Spec
    /\ \A l \in {Base} \cup UNION {{s.loops[i] : i \in DOMAIN s.loops} :
                                   s \in Setups} :
          []<><<l \in Loops => place(l)' # place(l)>>_vars
    /\ \A c \in Conns :
          WF_vars(\E res \in -1 .. MaxLen : CompleteConn(c, res))
-----------------------------------------------------------------------------
(* Properties.                                                             *)

\* The connections whose coroutine waits in the ring of loop l.
Waiting(l) == {c \in Conns : loop[c] = l /\ conn[c].handler = "suspended"}

\* The operations of a ring, the poll of the eventfd and the accept among
\* them, are no more than its completion queue has entries.  The code does
\* not see to this (uring_poller.cpp:74): it is what the theorems assume of
\* a behaviour, and true of an instance with few connections.
Fits == \A l \in Loops :
            Cardinality(Waiting(l)) + (IF l = Base THEN 2 ELSE 1) <= CqEntries

\* Operation op is in ring r once, or r dropped it, which happens only after
\* io_uring_submit fell short (awaiter.cpp:9 does not look at the false of
\* wait_read).
Pending(r, op) ==
    IF op \in r.refused THEN Occurrences(r, op) = 0 /\ ~r.whole
                        ELSE Occurrences(r, op) = 1

\* Every coroutine that waits has its operation in its loop's ring, exactly
\* once, and so have the accept loop and the poll of the eventfd, also while
\* completions are read from entries that the kernel may use again and when
\* io_uring_submit takes a part of the operations or none; a coroutine that
\* does not wait has none.  What a ring dropped is not in it any more, and as
\* long as io_uring_submit takes everything it drops nothing.
OpsAreInRing ==
    /\ \A l \in Loops : Pending(ring[l], Wakeup)
    /\ Pending(ring[Base], Accept)
    /\ \A c \in Conns, l \in Loops :
          IF c \in Waiting(l) THEN Pending(ring[l], c)
          ELSE Occurrences(ring[l], c) = 0 /\ c \notin ring[l].refused

\* A functor that captured this runs before its connection is destroyed, and
\* a polite handler's connection outlives connectionLoop().
NoUseAfterFree == failed = {}

\* A loop that waits for completions while a functor is queued is woken: its
\* eventfd is readable and polled, or the completion is there already,
\* unless io_uring_submit fell short of the poll, or the ring dropped it.
NoLostWakeup ==
    \A l \in Loops : (lp[l] = "wait" /\ queue[l] # <<>>) =>
        \/ wakeupFd[l] /\ Wakeup \in ring[l].kernel
        \/ \E i \in DOMAIN ring[l].cq : ring[l].cq[i].op = Wakeup
        \/ Wakeup \in ring[l].sq \cup ring[l].refused

\* A read() that waits at the end of the stream, or for a connection that
\* was reset, closes the connection, unless the ring drops its operation
\* when it is repeated, after a reset with an errno of an earlier call: then
\* nobody is resumed and the connection is never closed.
PeerCloseIsNoticed ==
    \A c \in Conns :
        (/\ conn[c].does = "read" /\ conn[c].inbox = 0
         /\ conn[c].fin \/ conn[c].rst
         /\ c \in ring[loop[c]].kernel \cup ring[loop[c]].sq)
            ~> (conn[c].state = "KDisconnected" \/ c \in ring[loop[c]].refused)

\* The connection of a handler that has returned is closed, removed and
\* destroyed, unless the handler had called shutdown().
EndedIsFreed ==
    \A c \in Conns :
        (conn[c].handler = "done" /\ ~conn[c].half) ~> c \notin alive

=============================================================================
