--------------------------- MODULE EventLoopProofs ---------------------------
(***************************************************************************)
(* Theorems about EventLoop, for any set of threads and any bounds: the    *)
(* type invariant, that no wakeup is lost, and that the batches of         *)
(* doPendingFunctors implement SerialExecutor; and that the loop inside an *)
(* EventLoopThread, from startLoop() to the destructor, is such a loop.    *)
(*                                                                         *)
(* And about the coroutine server, which runs in one such loop: for any    *)
(* set of connections, one that is connected is served.                    *)
(***************************************************************************)
EXTENDS EventLoopThread, CoroTcpServer, SequenceTheorems, TLAPS

\* The part of a pass between epoll_wait's return and the swap: functors
\* pushed there are in the vector the swap takes.
BeforeSwap == {"dispatch", "handler", "resume", "coroutine"}
AfterSwap == {"functors", "functor"}

\* callingPendingFunctors_ tells exactly when the vector is being run, and
\* the vector is empty otherwise.
Flagged == /\ callingPendingFunctors_ <=> pc \in AfterSwap
           /\ functors # <<>> => pc \in AfterSwap

\* NoLostWakeup is not inductive: a functor that is pushed while the swapped
\* vector is run must have its wakeup long before the loop sleeps again.
Awake == /\ pc \notin BeforeSwap /\ pendingFunctors_ # <<>> =>
                Signalled \/ early
         /\ pc = "poll" /\ quit_ => Signalled

IInv == TypeOK /\ Flagged /\ Awake

\* The conjuncts of TypeOK and Flagged hold in the initial state, and no
\* step of the loop or of another thread breaks them.
LEMMA TypeInductive ==
    /\ Init => TypeOK /\ Flagged
    /\ TypeOK /\ Flagged /\ [Next]_vars => TypeOK' /\ Flagged'
<1>1. Init => TypeOK /\ Flagged
  <2>1. <<>> \in Seq(Nat) /\ 0 \in Nat /\ "stopped" \in PC
    BY DEF PC
  <2>2. Init => tpc \in [Others -> {"idle", "wakeup"}]
    BY DEF Init
  <2>3. Init => TypeOK
    BY <2>1, <2>2 DEF Init, TypeOK
  <2>4. Init => pc \notin AfterSwap
    BY DEF Init, AfterSwap
  <2>5. QED
    BY <2>3, <2>4 DEF Init, Flagged
<1>2. ASSUME TypeOK, Flagged, [Next]_vars PROVE TypeOK' /\ Flagged'
  <2> USE <1>2 DEF TypeOK, Flagged, PC, UserCode, AfterSwap, Channels,
                   flags, work, kernel
  <2>0. NextId \in Nat
    BY LenProperties DEF NextId
  <2>1. CASE OwnerQueueInLoop
    BY <2>0, <2>1, AppendProperties
       DEF OwnerQueueInLoop, pushBack, wakeup
  <2>2. CASE OwnerQuit
    BY <2>2 DEF OwnerQuit
  <2>3. CASE ScheduleResume
    BY <2>3 DEF ScheduleResume
  <2>4. CASE Loop
    BY <2>4 DEF Loop
  <2>5. CASE TestQuit
    BY <2>5 DEF TestQuit
  <2>6. CASE HandleRead
    BY <2>6 DEF HandleRead
  <2>7. CASE HandleEvent
    BY <2>7 DEF HandleEvent
  <2>8. CASE EndDispatch
    BY <2>8 DEF EndDispatch
  <2>9. CASE ProcessPendingResume
    BY <2>9 DEF ProcessPendingResume, moreResumes
  <2>10. CASE BeginFunctors
    BY <2>10 DEF BeginFunctors
  <2>11. CASE RunFunctor
    BY <2>11, HeadTailProperties, AppendProperties DEF RunFunctor
  <2>12. CASE EndFunctors
    BY <2>12 DEF EndFunctors
  <2>13. CASE Return
    BY <2>13 DEF Return, Caller
  <2>14. ASSUME NEW chs \in SUBSET Channels, PollReturn(chs)
         PROVE  TypeOK' /\ Flagged'
    BY <2>14 DEF PollReturn
  <2>15. ASSUME NEW t \in Others, QueueInLoop(t)
         PROVE  TypeOK' /\ Flagged'
    BY <2>0, <2>15, AppendProperties DEF QueueInLoop, pushBack
  <2>16. ASSUME NEW t \in Others, Quit(t)
         PROVE  TypeOK' /\ Flagged'
    BY <2>16 DEF Quit
  <2>17. ASSUME NEW t \in Others, Wakeup(t)
         PROVE  TypeOK' /\ Flagged'
    BY <2>17 DEF Wakeup, wakeup
  <2>18. CASE UNCHANGED vars
    BY <2>18 DEF vars
  <2>19. QED
    BY <2>1, <2>2, <2>3, <2>4, <2>5, <2>6, <2>7, <2>8, <2>9, <2>10, <2>11,
       <2>12, <2>13, <2>14, <2>15, <2>16, <2>17, <2>18 DEF Next, OwnerStep
<1>3. QED
  BY <1>1, <1>2

\* The members of EventLoop and CoroScheduler keep their types in every run.
THEOREM TypeCorrect == Spec => []TypeOK
<1>1. Spec => [](TypeOK /\ Flagged)
  BY TypeInductive, PTL DEF Spec
<1>2. QED
  BY <1>1, PTL

\* In every state but the ones between epoll_wait's return and the swap, a
\* waiting functor has its wakeup: one case per action that can push, swap,
\* write to the eventfd or take it off the ready list.
LEMMA AwakeInductive ==
    /\ Init => Awake
    /\ TypeOK /\ Flagged /\ Awake /\ [Next]_vars => Awake'
<1>1. Init => Awake
  BY DEF Init, Awake
<1>2. ASSUME TypeOK, Flagged, Awake, [Next]_vars PROVE Awake'
  <2> USE <1>2 DEF Awake, BeforeSwap, Signalled, Ready, flags, work, kernel
  <2>1. CASE OwnerQueueInLoop
    BY <2>1 DEF OwnerQueueInLoop, ownerMustWake, wakeup, Flagged, AfterSwap,
                UserCode
  <2>2. CASE OwnerQuit
    BY <2>2 DEF OwnerQuit, UserCode
  <2>3. CASE ScheduleResume
    BY <2>3 DEF ScheduleResume
  <2>4. CASE Loop
    BY <2>4 DEF Loop
  <2>5. CASE TestQuit
    BY <2>5 DEF TestQuit
  <2>6. CASE HandleRead
    BY <2>6 DEF HandleRead
  <2>7. CASE HandleEvent
    BY <2>7 DEF HandleEvent
  <2>8. CASE EndDispatch
    BY <2>8 DEF EndDispatch
  <2>9. CASE ProcessPendingResume
    BY <2>9 DEF ProcessPendingResume
  <2>10. CASE BeginFunctors
    BY <2>10 DEF BeginFunctors
  <2>11. CASE RunFunctor
    BY <2>11 DEF RunFunctor
  <2>12. CASE EndFunctors
    BY <2>12 DEF EndFunctors
  <2>13. CASE Return
    BY <2>13 DEF Return, Caller, UserCode
  <2>14. ASSUME NEW chs \in SUBSET Channels, PollReturn(chs) PROVE Awake'
    BY <2>14 DEF PollReturn
  <2>15. ASSUME NEW t \in Others, QueueInLoop(t) PROVE Awake'
    BY <2>15 DEF QueueInLoop, TypeOK
  <2>16. ASSUME NEW t \in Others, Quit(t) PROVE Awake'
    BY <2>16 DEF Quit, TypeOK
  <2>17. ASSUME NEW t \in Others, Wakeup(t) PROVE Awake'
    BY <2>17 DEF Wakeup, wakeup
  <2>18. CASE UNCHANGED vars
    BY <2>18 DEF vars
  <2>19. QED
    BY <2>1, <2>2, <2>3, <2>4, <2>5, <2>6, <2>7, <2>8, <2>9, <2>10, <2>11,
       <2>12, <2>13, <2>14, <2>15, <2>16, <2>17, <2>18 DEF Next, OwnerStep
<1>3. QED
  BY <1>1, <1>2

\* IInv holds in every reachable state.
LEMMA Invariance == Spec => []IInv
<1>1. Init => IInv
  BY TypeInductive, AwakeInductive DEF IInv
<1>2. IInv /\ [Next]_vars => IInv'
  BY TypeInductive, AwakeInductive DEF IInv
<1>3. QED
  BY <1>1, <1>2, PTL DEF Spec

\* EventLoop::loop() never sleeps in epoll_wait on a functor or a quit
\* request whose wakeup has been consumed or was never made.
THEOREM NoWakeupIsLost == Spec => []NoLostWakeup
<1>1. IInv => NoLostWakeup
  BY DEF IInv, Awake, NoLostWakeup, BeforeSwap
<1>2. QED
  BY <1>1, Invariance, PTL

\* What a push, a swap and a call do to the queue the refinement maps to.
LEMMA QueueAppend ==
    ASSUME NEW f \in Seq(Nat), NEW p \in Seq(Nat), NEW n \in Nat
    PROVE  f \o Append(p, n) = Append(f \o p, n)
  BY AppendProperties, ConcatProperties

\* A call takes the head of both.
LEMMA QueueHead ==
    ASSUME NEW f \in Seq(Nat), NEW p \in Seq(Nat), f # <<>>
    PROVE  /\ f \o p # <<>>
           /\ Head(f \o p) = Head(f)
           /\ Tail(f \o p) = Tail(f) \o p
  BY HeadTailProperties, ConcatProperties, EmptySeq

\* Every step of the loop or of another thread is a step of SerialExecutor
\* on the concatenation of the two vectors, or leaves it alone.
THEOREM LoopIsSerial == Spec => ImplementsSerialExecutor
<1>1. Init => SE!Init
  BY ConcatEmptySeq, EmptySeq DEF Init, SE!Init
<1>2. IInv /\ [Next]_vars => [SE!Next]_(SE!vars)
  <2> SUFFICES ASSUME IInv, [Next]_vars PROVE [SE!Next]_(SE!vars)
    OBVIOUS
  <2> USE DEF IInv, TypeOK
  <2>1. ASSUME pushBack PROVE SE!Post
    <3>1. NextId \in Nat /\ SE!NextId = NextId
      BY LenProperties, ConcatProperties DEF NextId, SE!NextId
    <3>2. QED
      BY <2>1, <3>1, QueueAppend DEF pushBack, SE!Post
  <2>2. ASSUME RunFunctor PROVE SE!Start
    BY <2>2, QueueHead DEF RunFunctor, SE!Start
  <2>3. ASSUME BeginFunctors PROVE UNCHANGED SE!vars
    <3>1. functors = <<>>
      BY <2>3 DEF BeginFunctors, Flagged, AfterSwap
    <3>2. QED
      BY <2>3, <3>1, ConcatEmptySeq, EmptySeq DEF BeginFunctors, SE!vars
  <2>4. ASSUME UNCHANGED work PROVE UNCHANGED SE!vars
    BY <2>4 DEF work, SE!vars
  <2>5. CASE OwnerQueueInLoop
    BY <2>1, <2>5 DEF OwnerQueueInLoop, SE!Next
  <2>6. ASSUME NEW t \in Others, QueueInLoop(t) PROVE SE!Next
    BY <2>1, <2>6 DEF QueueInLoop, SE!Next
  <2>7. CASE OwnerStep
    BY <2>2, <2>3, <2>4, <2>7
       DEF OwnerStep, SE!Next, TestQuit, HandleRead, HandleEvent,
           EndDispatch, ProcessPendingResume, EndFunctors, Return
  <2>8. CASE Loop \/ OwnerQuit \/ ScheduleResume
    BY <2>4, <2>8 DEF Loop, OwnerQuit, ScheduleResume
  <2>9. ASSUME NEW chs \in SUBSET Channels, PollReturn(chs)
        PROVE  UNCHANGED SE!vars
    BY <2>4, <2>9 DEF PollReturn
  <2>10. ASSUME NEW t \in Others, Quit(t) \/ Wakeup(t)
         PROVE  UNCHANGED SE!vars
    BY <2>4, <2>10 DEF Quit, Wakeup
  <2>11. CASE UNCHANGED vars
    BY <2>4, <2>11 DEF vars
  <2>12. QED
    BY <2>5, <2>6, <2>7, <2>8, <2>9, <2>10, <2>11 DEF Next
<1>3. QED
  BY <1>1, <1>2, Invariance, PTL DEF Spec, SE!Spec, ImplementsSerialExecutor
-----------------------------------------------------------------------------
(* The loop of an EventLoopThread.                                         *)

\* Whatever startLoop(), the thread function and the destructor do, the loop
\* itself takes its own steps only.
THEOREM ThreadRunsLoop == ThreadSpec => Spec
<1>1. ThreadInit => Init
  BY DEF ThreadInit
<1>2. [ThreadNext]_threadVars => [Next]_vars
  <2> SUFFICES ASSUME [ThreadNext]_threadVars PROVE [Next]_vars
    OBVIOUS
  <2>1. CASE InitCallback \/ Publish \/ EnterLoop \/ LeaveLoop \/ EndThread
    BY <2>1 DEF InitCallback, Publish, EnterLoop, LeaveLoop, EndThread, Next
  <2>2. CASE InLoop
    BY <2>2 DEF InLoop, Next
  <2>3. ASSUME NEW t \in Others, Post(t) \/ WakeLoop(t) PROVE Next
    BY <2>3 DEF Post, WakeLoop, Next
  <2>4. CASE StartLoop \/ Destroy \/ StartReturns \/ Join
    BY <2>4 DEF StartLoop, Destroy, StartReturns, Join
  <2>5. CASE DestroyQuits \/ DestroyWakes
    BY <2>5, UserAssumption DEF DestroyQuits, DestroyWakes, Next
  <2>6. CASE UNCHANGED threadVars
    BY <2>6 DEF threadVars
  <2>7. QED
    BY <2>1, <2>2, <2>3, <2>4, <2>5, <2>6 DEF ThreadNext, UserStep
<1>3. QED
  BY <1>1, <1>2, PTL DEF ThreadSpec, Spec

\* The loop of an EventLoopThread never sleeps on a functor or a quit request
\* of its owner, of another thread or of the destructor whose wakeup is not
\* on the way.
THEOREM ThreadLosesNoWakeup == ThreadSpec => []NoLostWakeup
BY ThreadRunsLoop, NoWakeupIsLost, PTL

\* The functors posted to an EventLoopThread are started in the order in
\* which they were pushed, each once.
THEOREM ThreadIsSerial == ThreadSpec => ImplementsSerialExecutor
BY ThreadRunsLoop, LoopIsSerial, PTL

-----------------------------------------------------------------------------
(* CoroTcpServer.                                                          *)

\* The asserts that can fail in a Channel, and what can go wrong in a
\* connection.
Labels == {"Channel.cpp:43", "EpollPoller.cpp:58", "EpollPoller.cpp:72",
           "EpollPoller.cpp:77", "EpollPoller.cpp:93", "EpollPoller.cpp:95",
           "EpollPoller.cpp:97", "epoll_ctl ADD", "epoll_ctl MOD"}
Faults == {"Channel.cpp:28", "dead Channel", "running frame"}

\* The record of a Channel, of whatever the poller and epoll keep for its
\* descriptor, and of a connection.
Chan == [events : SUBSET Events, index : {-1, 1, 2}, addedToLoop : BOOLEAN,
         inMap : BOOLEAN, epoll : (SUBSET Events) \cup {Absent},
         edge : BOOLEAN, failed : SUBSET Labels]

Conn == [connected : BOOLEAN, writing : BOOLEAN, out : Nat,
         attached : BOOLEAN, waits : BOOLEAN, ch : Chan, handling : BOOLEAN,
         handler : {"none", "suspended", "done"}, closes : Nat,
         failed : SUBSET Faults, inbox : SUBSET {"data", "rst", "fin"},
         full : BOOLEAN, finSent : BOOLEAN]

\* The Channel is registered for what its owner asked for.
Registered(ch) == ch.inMap /\ ch.epoll = ch.events /\ ch.index \in {1, 2}

\* What ConnectedIsServed says of one connection.  It is not inductive: the
\* next event modifies the registration only if index_ says that there is
\* one, and closeCallback_ keeps the object only if the handler's frame does.
Served(k) == /\ k.attached /\ Registered(k.ch) /\ isReading(k.ch)
             /\ k.writing = k.waits /\ k.waits = isWriting(k.ch)
             /\ k.writing <=> k.out > 0
             /\ k.handler = "suspended"

\* A connection of its type, served if it is connected.
Sane(k) == k \in Conn /\ (k.connected => Served(k))

\* The type invariant of the server.
CoroTypes == /\ conn \in [Conns -> Conn]
             /\ connections_ \subseteq Conns /\ alive \subseteq Conns
             /\ backlog \subseteq Conns /\ server \in BOOLEAN
             /\ \A a \in active : a.c \in Conns

\* A connection that is connected is served, exists and is in the map.
Kept == \A c \in Conns :
           /\ Sane(conn[c]) /\ conn[c].closes = 0
           /\ conn[c].connected =>
                 c \in alive /\ (server => c \in connections_)

\* A client in the backlog has left no trace, and a connection that exists
\* has had its start().
Fresh == \A c \in Conns :
            /\ c \in backlog => conn[c] = NewConn
            /\ c \in alive => conn[c].handler # "none"

\* The inductive invariant.
CoroInv == CoroTypes /\ Kept /\ Fresh

-----------------------------------------------------------------------------
\* What epoll watches for is never confused with a descriptor that is not
\* registered.
LEMMA AbsentIsNoInterest ==
    Events = {"read", "write"} /\ \A S \in SUBSET Events : S # Absent
  BY DEF Events, kReadEvent, kWriteEvent, Absent

\* An assert that fails leaves its label.
LEMMA LabelIsKnown ==
    ASSUME NEW F \in SUBSET Labels, NEW x \in Labels, NEW p
    PROVE  F \cup Assert_(p, x) \in SUBSET Labels
  BY DEF Assert_

\* The registration an epoll_ctl leaves.
Result(ch, ev, in, i) ==
    /\ ch \in Chan /\ ch.events = ev /\ ch.inMap = in /\ ch.index = i
    /\ ch.epoll = (IF i = -1 THEN Absent ELSE ev)

\* epoll_ctl.
LEMMA UpdateIs ==
    ASSUME NEW ch \in Chan
    PROVE  /\ Result(update("ADD", ch), ch.events, ch.inMap, 1)
           /\ Result(update("MOD", ch), ch.events, ch.inMap, 2)
           /\ Result(update("DEL", ch), ch.events, ch.inMap, -1)
<1> DEFINE F(op) == ch.failed
             \cup Assert_(op = "ADD" => ~(ch.epoll # Absent), "epoll_ctl ADD")
             \cup Assert_(op = "MOD" => ch.epoll # Absent, "epoll_ctl MOD")
<1>1. \A op : F(op) \in SUBSET Labels
  <2> TAKE op
  <2>1. ch.failed \in SUBSET Labels
    BY DEF Chan
  <2>2. QED
    BY <2>1 DEF Assert_, Labels
<1> DEFINE W(f, e, i, g) == [[ch EXCEPT !.failed = f] EXCEPT
                               !.epoll = e, !.index = i, !.edge = g]
           Is(y, e, i) == /\ y \in Chan /\ y.events = ch.events
                          /\ y.inMap = ch.inMap /\ y.index = i /\ y.epoll = e
<1>2. ASSUME NEW f \in SUBSET Labels, NEW e \in (SUBSET Events) \cup {Absent},
             NEW i \in {-1, 1, 2}
      PROVE  Is(W(f, e, i, TRUE), e, i) /\ Is(W(f, e, i, FALSE), e, i)
  BY DEF Chan
<1>3. ch.events \in (SUBSET Events) \cup {Absent}
  BY DEF Chan
<1>4. /\ update("ADD", ch) = W(F("ADD"), ch.events, 1, TRUE)
      /\ update("MOD", ch) = W(F("MOD"), ch.events, 2, TRUE)
      /\ update("DEL", ch) = W(F("DEL"), Absent, -1, FALSE)
  BY DEF update
<1>0. Absent \in (SUBSET Events) \cup {Absent} /\ 1 \in {-1, 1, 2}
      /\ 2 \in {-1, 1, 2} /\ -1 \in {-1, 1, 2}
  OBVIOUS
<1> HIDE DEF F, W, Is
<1>5. /\ Is(W(F("ADD"), ch.events, 1, TRUE), ch.events, 1)
      /\ Is(W(F("MOD"), ch.events, 2, TRUE), ch.events, 2)
      /\ Is(W(F("DEL"), Absent, -1, FALSE), Absent, -1)
  BY <1>0, <1>1, <1>2, <1>3, Zenon
<1>6. /\ Is(update("ADD", ch), ch.events, 1)
      /\ Is(update("MOD", ch), ch.events, 2)
      /\ Is(update("DEL", ch), Absent, -1)
  BY <1>4, <1>5, Zenon
<1>7. QED
  BY <1>6 DEF Is, Result

\* Channel::update, with the events the owner asks for.
LEMMA SetEventsIs ==
    ASSUME NEW ch \in Chan, NEW ev \in SUBSET Events
    PROVE  /\ setEvents(ch, ev) \in Chan /\ setEvents(ch, ev).events = ev
           /\ ch.index = -1 => Registered(setEvents(ch, ev))
           /\ Registered(ch) /\ ev # {} => Registered(setEvents(ch, ev))
<1> DEFINE set == [ch EXCEPT !.events = ev, !.addedToLoop = TRUE]
           F == ch.failed \cup Assert_(~ch.inMap, "EpollPoller.cpp:72")
           G == ch.failed \cup Assert_(ch.inMap, "EpollPoller.cpp:77")
           new == [set EXCEPT !.inMap = TRUE, !.failed = F]
           old == [set EXCEPT !.failed = G]
<1>1. F \in SUBSET Labels /\ G \in SUBSET Labels
  BY LabelIsKnown DEF Labels, Chan
<1>2. /\ set.index = ch.index /\ set.events = ev
      /\ set.inMap = ch.inMap /\ set.failed = ch.failed
  BY DEF Chan
<1>3. setEvents(ch, ev) = IF ch.index < 0 THEN update("ADD", new)
                          ELSE update(IF ev = {} THEN "DEL" ELSE "MOD", old)
  BY <1>2 DEF setEvents, updateChannel, isNoneEvent
<1> HIDE DEF F, G
<1>4. /\ new \in Chan /\ new.events = ev /\ new.inMap = TRUE
      /\ old \in Chan /\ old.events = ev /\ old.inMap = ch.inMap
  BY <1>1 DEF Chan
<1> HIDE DEF new, old, set
<1>5. /\ Result(update("ADD", new), ev, TRUE, 1)
      /\ Result(update("MOD", old), ev, ch.inMap, 2)
      /\ Result(update("DEL", old), ev, ch.inMap, -1)
  BY <1>4, UpdateIs
<1>6. ch.index \in {-1, 1, 2}
  BY DEF Chan
<1>7. QED
  BY <1>3, <1>5, <1>6 DEF Result, Registered

\* Channel::remove.
LEMMA RemoveIs ==
    ASSUME NEW ch \in Chan
    PROVE  remove(ch) \in Chan
<1> DEFINE F == ch.failed \cup Assert_(isNoneEvent(ch), "Channel.cpp:43")
           G == F \cup Assert_(ch.inMap, "EpollPoller.cpp:93")
                  \cup Assert_(isNoneEvent(ch), "EpollPoller.cpp:95")
                  \cup Assert_(ch.index \in {1, 2}, "EpollPoller.cpp:97")
           gone == [ch EXCEPT !.addedToLoop = FALSE, !.failed = F]
           erased == [gone EXCEPT !.inMap = FALSE, !.failed = G]
<1>1. F \in SUBSET Labels
  BY LabelIsKnown DEF Labels, Chan, isNoneEvent
<1>2. G \in SUBSET Labels
  <2> HIDE DEF F
  <2>1. QED
    BY <1>1 DEF Assert_, Labels
<1>3. /\ gone.index = ch.index /\ gone.inMap = ch.inMap
      /\ gone.events = ch.events /\ gone.failed = F
  BY DEF Chan
<1>4. remove(ch) = IF ch.index = 2 THEN update("DEL", erased)
                                   ELSE [erased EXCEPT !.index = -1]
  BY <1>3 DEF remove, removeChannel, isNoneEvent
<1> HIDE DEF F, G
<1>5. erased \in Chan
  BY <1>1, <1>2 DEF Chan
<1> HIDE DEF erased
<1>6. update("DEL", erased) \in Chan
  BY <1>5, UpdateIs DEF Result
<1>7. [erased EXCEPT !.index = -1] \in Chan
  BY <1>5 DEF Chan
<1>8. QED
  BY <1>4, <1>6, <1>7

-----------------------------------------------------------------------------
\* k2 is a connection, in the hands of the same handler, as open as k.
Same(k, k2) == /\ k2 \in Conn /\ k2.handler = k.handler
               /\ k2.connected = k.connected /\ k2.closes = k.closes

\* What every operation does: it keeps a connection Sane, opens none that is
\* closed, and calls closeCallback_ only when it closes.
Follows(k, k2) == /\ Sane(k2) /\ k2.handler = k.handler
                  /\ k2.connected => k.connected /\ k2.closes = k.closes

\* One operation after another.
LEMMA FollowsTwice ==
    \A k, k1, k2 : Follows(k, k1) /\ Follows(k1, k2) => Follows(k, k2)
  BY DEF Follows

\* Channel::disableAll and remove, which leave a connection that is not
\* connected anyway.
LEMMA DisableAllIs ==
    ASSUME NEW k \in Conn
    PROVE  Same(k, chDisableAll(k))
<1>1. disableAll(k.ch) \in Chan
  BY SetEventsIs DEF disableAll, Conn
<1> DEFINE z == disableAll(k.ch)
<1>2. \/ chDisableAll(k) = [k EXCEPT !.waits = FALSE, !.ch = z]
      \/ chDisableAll(k) = [k EXCEPT !.waits = FALSE]
  BY DEF chDisableAll, Conn
<1> HIDE DEF z
<1>3. [k EXCEPT !.waits = FALSE, !.ch = z] \in Conn
  BY <1>1 DEF z, Conn
<1>4. [k EXCEPT !.waits = FALSE] \in Conn
  BY DEF Conn
<1>5. QED
  BY <1>2, <1>3, <1>4 DEF Same, Conn

\* CoroChannel::remove, which destroys the Channel.
LEMMA ChRemoveIs ==
    ASSUME NEW k \in Conn
    PROVE  Same(k, chRemove(k)) /\ ~chRemove(k).attached
<1> DEFINE n == chDisableAll(k)
           z == remove(n.ch)
           F == n.failed \cup Assert_(~k.handling, "Channel.cpp:28")
<1>1. Same(k, n)
  BY DisableAllIs
<1>2. chRemove(k) = IF n.attached THEN [n EXCEPT !.ch = z, !.attached = FALSE,
                                         !.handling = FALSE, !.failed = F]
                                  ELSE n
  BY DEF chRemove
<1> HIDE DEF n
<1>3. n \in Conn /\ z \in Chan
  BY <1>1, RemoveIs DEF Same, Conn
<1>4. F \in SUBSET Faults
  BY <1>3 DEF Conn, Faults, Assert_
<1> HIDE DEF z, F
<1>5. [n EXCEPT !.ch = z, !.attached = FALSE, !.handling = FALSE, !.failed = F]
         \in Conn
  BY <1>3, <1>4 DEF Conn
<1>6. QED
  BY <1>1, <1>2, <1>3, <1>5 DEF Same, Conn

\* CoroTcpConnection::handleClose.
LEMMA HandleCloseIs ==
    ASSUME NEW k, Sane(k)
    PROVE  Follows(k, handleClose(k)) /\ ~handleClose(k).connected
<1>0. k \in Conn
  BY DEF Sane
<1>1. CASE ~k.connected
  BY <1>0, <1>1 DEF handleClose, Follows
<1>2. CASE k.connected
  <2> DEFINE k1 == [k EXCEPT !.connected = FALSE]
             k2 == chDisableAll(k1)
             k3 == chRemove(k2)
  <2>1. k1 \in Conn /\ k1.connected = FALSE /\ k1.handler = k.handler
    BY <1>0 DEF Conn
  <2>2. handleClose(k) = [k3 EXCEPT !.closes = @ + 1]
    BY <1>2 DEF handleClose
  <2> HIDE DEF k1
  <2>3. Same(k1, k2)
    BY <2>1, DisableAllIs
  <2> HIDE DEF k2
  <2>4. Same(k2, k3)
    BY <2>3, ChRemoveIs DEF Same
  <2> HIDE DEF k3
  <2>5. k3 \in Conn /\ k3.connected = FALSE /\ k3.handler = k.handler
    BY <2>1, <2>3, <2>4 DEF Same
  <2>6. PICK n \in Nat : n = k3.closes + 1
    BY <2>5 DEF Conn
  <2>7. [k3 EXCEPT !.closes = n] \in Conn
    BY <2>5, <2>6 DEF Conn
  <2>8. handleClose(k) = [k3 EXCEPT !.closes = n]
    BY <2>2, <2>5, <2>6 DEF Conn
  <2>9. QED
    BY <2>5, <2>7, <2>8 DEF Follows, Sane, Conn
<1>3. QED
  BY <1>0, <1>1, <1>2 DEF Conn

\* An operation on the events of a Channel that is registered for reading.
LEMMA WritingIs ==
    ASSUME NEW ch \in Chan, Registered(ch), isReading(ch)
    PROVE  /\ enableWriting(ch) \in Chan /\ Registered(enableWriting(ch))
           /\ isReading(enableWriting(ch)) /\ isWriting(enableWriting(ch))
           /\ disableWriting(ch) \in Chan /\ Registered(disableWriting(ch))
           /\ isReading(disableWriting(ch)) /\ ~isWriting(disableWriting(ch))
<1>1. /\ ch.events \in SUBSET Events /\ kReadEvent \in ch.events
      /\ kReadEvent # kWriteEvent
  BY DEF Chan, isReading, kReadEvent, kWriteEvent
<1>2. /\ ch.events \cup {kWriteEvent} \in SUBSET Events
      /\ ch.events \ {kWriteEvent} \in SUBSET Events
  BY <1>1 DEF Events
<1>3. /\ ch.events \cup {kWriteEvent} # {} /\ ch.events \ {kWriteEvent} # {}
  BY <1>1
<1>4. QED
  BY <1>1, <1>2, <1>3, SetEventsIs
     DEF enableWriting, disableWriting, isReading, isWriting

\* CoroTcpConnection::send: the event for writing is asked for when there is
\* output and the flag says that it was not.
LEMMA SendIs ==
    ASSUME NEW k, Sane(k)
    PROVE  Follows(k, send(k))
<1>0. k \in Conn
  BY DEF Sane
<1>1. CASE ~k.connected
  BY <1>0, <1>1 DEF send, Follows
<1>2. CASE k.connected
  <2>1. PICK n \in Nat : n = k.out + 1
    BY <1>0 DEF Conn
  <2>2. n > 0 /\ [k EXCEPT !.out = @ + 1] = [k EXCEPT !.out = n]
    BY <1>0, <2>1 DEF Conn
  <2>3. Served(k)
    BY <1>2 DEF Sane
  <2>4. CASE k.writing
    <3>1. send(k) = [k EXCEPT !.out = n]
      BY <1>2, <2>2, <2>4 DEF send
    <3>2. [k EXCEPT !.out = n] \in Conn
      BY <1>0, <2>1 DEF Conn
    <3>3. QED
      BY <1>0, <1>2, <2>2, <2>3, <2>4, <3>1, <3>2
         DEF Follows, Sane, Served, Conn
  <2>5. CASE ~k.writing
    <3> DEFINE z == enableWriting(k.ch)
               k1 == [[k EXCEPT !.out = n] EXCEPT !.writing = TRUE]
    <3>1. z \in Chan /\ Registered(z) /\ isReading(z) /\ isWriting(z)
      BY <1>0, <2>3, WritingIs DEF Served, Conn
    <3>2. k1.attached /\ k1.ch = k.ch
      BY <1>0, <2>3 DEF Served, Conn
    <3>3. send(k) = [k1 EXCEPT !.waits = TRUE, !.ch = z]
      BY <1>2, <2>2, <2>5, <3>2 DEF send, chEnableWriting, attach
    <3> HIDE DEF z
    <3>4. [k1 EXCEPT !.waits = TRUE, !.ch = z] \in Conn
      BY <1>0, <2>1, <3>1 DEF Conn
    <3>5. QED
      BY <1>0, <1>2, <2>2, <2>3, <3>1, <3>3, <3>4
         DEF Follows, Sane, Served, Conn
  <2>6. QED
    BY <1>0, <2>4, <2>5 DEF Conn
<1>3. QED
  BY <1>0, <1>1, <1>2 DEF Conn

\* What the handler or a callback calls.
LEMMA CallIs ==
    ASSUME NEW k, Sane(k), NEW op
    PROVE  Follows(k, call(op, k))
<1>0. k \in Conn
  BY DEF Sane
<1>1. CASE op = "send"
  BY <1>1, SendIs DEF call
<1>2. CASE op = "shutdown"
  <2>1. [k EXCEPT !.connected = FALSE, !.finSent = TRUE] \in Conn
    BY <1>0 DEF Conn
  <2>2. QED
    BY <1>0, <1>2, <2>1 DEF call, shutdown, Follows, Sane, Conn
<1>3. CASE op \notin {"send", "shutdown"}
  BY <1>0, <1>3 DEF call, Follows
<1>4. QED
  BY <1>1, <1>2, <1>3

\* What is no part of Sane or Follows may change.
LEMMA OtherFields ==
    ASSUME NEW k, Sane(k)
    PROVE  /\ \A b \in BOOLEAN : Follows(k, [k EXCEPT !.handling = b])
           /\ \A b \in BOOLEAN : Follows(k, [k EXCEPT !.full = b])
           /\ \A S \in SUBSET {"data", "rst", "fin"} :
                 Follows(k, [k EXCEPT !.inbox = S])
           /\ \A F \in SUBSET Faults : Follows(k, [k EXCEPT !.failed = F])
<1>0. k \in Conn
  BY DEF Sane
<1>1. ASSUME NEW b \in BOOLEAN PROVE Follows(k, [k EXCEPT !.handling = b])
  <2>1. [k EXCEPT !.handling = b] \in Conn
    BY <1>0 DEF Conn
  <2>2. QED
    BY <1>0, <2>1 DEF Follows, Sane, Served, Conn
<1>2. ASSUME NEW b \in BOOLEAN PROVE Follows(k, [k EXCEPT !.full = b])
  <2>1. [k EXCEPT !.full = b] \in Conn
    BY <1>0 DEF Conn
  <2>2. QED
    BY <1>0, <2>1 DEF Follows, Sane, Served, Conn
<1>3. ASSUME NEW S \in SUBSET {"data", "rst", "fin"}
      PROVE  Follows(k, [k EXCEPT !.inbox = S])
  <2>1. [k EXCEPT !.inbox = S] \in Conn
    BY <1>0 DEF Conn
  <2>2. QED
    BY <1>0, <2>1 DEF Follows, Sane, Served, Conn
<1>4. ASSUME NEW F \in SUBSET Faults PROVE Follows(k, [k EXCEPT !.failed = F])
  <2>1. [k EXCEPT !.failed = F] \in Conn
    BY <1>0 DEF Conn
  <2>2. QED
    BY <1>0, <2>1 DEF Follows, Sane, Served, Conn
<1>5. QED
  BY <1>1, <1>2, <1>3, <1>4

\* CoroTcpConnection::onReadable.
LEMMA OnReadableIs ==
    ASSUME NEW k, Sane(k), NEW op
    PROVE  Follows(k, onReadable(k, op))
<1>0. k.inbox \in SUBSET {"data", "rst", "fin"} /\ Follows(k, k)
  BY DEF Sane, Conn, Follows
<1>1. CASE "rst" \in k.inbox
  <2>1. PICK S \in SUBSET {"data", "rst", "fin"} : S = {"fin"}
    OBVIOUS
  <2>2. onReadable(k, op) = [k EXCEPT !.inbox = S]
    BY <1>1, <2>1 DEF onReadable
  <2>3. QED
    BY <2>1, <2>2, OtherFields
<1>2. CASE "data" \in k.inbox /\ "rst" \notin k.inbox
  <2> DEFINE k1 == [k EXCEPT !.inbox = k.inbox \ {"data"}]
  <2>1. onReadable(k, op) = call(op, k1)
    BY <1>2 DEF onReadable
  <2>2. Follows(k, k1)
    BY <1>0, OtherFields
  <2> HIDE DEF k1
  <2>3. Follows(k1, call(op, k1))
    BY <2>2, CallIs DEF Follows
  <2>4. QED
    BY <2>1, <2>2, <2>3, FollowsTwice
<1>3. CASE "data" \notin k.inbox /\ "rst" \notin k.inbox
  <2>1. onReadable(k, op) \in {handleClose(k), k}
    BY <1>3 DEF onReadable
  <2>2. QED
    BY <1>0, <2>1, HandleCloseIs
<1>4. QED
  BY <1>1, <1>2, <1>3

\* The output is written: the event for writing is given up with the flags.
LEMMA DrainedIs ==
    ASSUME NEW k, Sane(k)
    PROVE  Follows(k, drained(k))
<1>0. k \in Conn /\ k.ch \in Chan
  BY DEF Sane, Conn
<1>1. PICK n \in Nat : n = 0
  OBVIOUS
<1> DEFINE k1 == [k EXCEPT !.out = n, !.writing = FALSE]
           z == disableWriting(k.ch)
<1>2. k1 \in Conn
  BY <1>0, <1>1 DEF Conn
<1>3. z \in Chan
  <2>1. k.ch.events \ {kWriteEvent} \in SUBSET Events
    BY <1>0 DEF Chan
  <2>2. QED
    BY <1>0, <2>1, SetEventsIs DEF disableWriting
<1>4. drained(k) = IF k.attached THEN [k1 EXCEPT !.waits = FALSE, !.ch = z]
                                 ELSE [k1 EXCEPT !.waits = FALSE]
  BY <1>0, <1>1 DEF drained, chDisableWriting, Conn
<1>5. k.connected => /\ k.attached /\ Registered(z) /\ isReading(z)
                     /\ ~isWriting(z) /\ k.handler = "suspended"
  BY <1>0, WritingIs DEF Sane, Served
<1>6. /\ k1.handler = k.handler /\ k1.closes = k.closes
      /\ k1.connected = k.connected /\ k1.attached = k.attached
      /\ k1.out = n /\ k1.writing = FALSE
  BY <1>0 DEF Conn
<1> HIDE DEF k1, z
<1>7. /\ [k1 EXCEPT !.waits = FALSE, !.ch = z] \in Conn
      /\ [k1 EXCEPT !.waits = FALSE] \in Conn
  BY <1>2, <1>3 DEF Conn
<1>8. CASE k.attached
  <2>1. PICK r : r = [k1 EXCEPT !.waits = FALSE, !.ch = z]
    OBVIOUS
  <2>2. /\ r \in Conn /\ r.handler = k.handler /\ r.closes = k.closes
        /\ r.connected = k.connected /\ r.attached = k.attached /\ r.out = n
        /\ r.writing = FALSE /\ r.waits = FALSE /\ r.ch = z
    BY <1>2, <1>6, <1>7, <2>1 DEF Conn
  <2>3. ~(n > 0)
    BY <1>1
  <2>4. drained(k) = r
    BY <1>4, <1>8, <2>1
  <2>5. ASSUME k.connected PROVE Served(r)
    <3>1. r.attached /\ Registered(r.ch) /\ isReading(r.ch)
      BY <1>5, <2>2, <2>5
    <3>2. r.handler = "suspended"
      BY <1>5, <2>2, <2>5
    <3>3. r.waits = isWriting(r.ch) /\ r.writing = r.waits
      <4>1. r.ch = z /\ ~isWriting(z)
        BY <1>5, <2>2, <2>5
      <4>2. isWriting(r.ch) = FALSE
        BY <4>1 DEF isWriting
      <4>3. QED
        BY <2>2, <4>2
    <3>4. r.writing <=> r.out > 0
      BY <2>2, <2>3
    <3>5. QED
      BY <3>1, <3>2, <3>3, <3>4 DEF Served
  <2>6. QED
    BY <2>2, <2>4, <2>5 DEF Follows, Sane
<1>9. CASE ~k.attached
  BY <1>1, <1>2, <1>4, <1>5, <1>6, <1>7, <1>9 DEF Follows, Sane, Conn
<1>10. QED
  BY <1>8, <1>9

\* CoroTcpConnection::onWritable.
LEMMA OnWritableIs ==
    ASSUME NEW k, Sane(k), NEW w \in WriteResults
    PROVE  Follows(k, onWritable(k, w))
<1>1. CASE k.out = 0 \/ w = "all"
  BY <1>1, DrainedIs DEF onWritable
<1>2. CASE k.out # 0 /\ w = "part"
  BY <1>2, OtherFields DEF onWritable, leftOver
<1>3. CASE k.out # 0 /\ w = "none"
  BY <1>3 DEF onWritable, Follows
<1>4. CASE k.out # 0 /\ w = "fault"
  BY <1>4, HandleCloseIs DEF onWritable
<1>5. QED
  BY <1>1, <1>2, <1>3, <1>4 DEF WriteResults

\* Channel::handleEvent, whatever the callbacks call and whether or not they
\* destroy the Channel.
LEMMA HandleEventIs ==
    ASSUME NEW k, Sane(k), NEW ev, NEW op, NEW w \in WriteResults, NEW stale
    PROVE  Follows(k, handleEvent(k, ev, op, w, stale))
<1> DEFINE dead(x) == IF x.attached THEN x
                      ELSE [x EXCEPT !.failed = @ \cup {"dead Channel"}]
           k0 == [k EXCEPT !.handling = TRUE]
           k1 == IF "hup" \in ev /\ "in" \notin ev THEN handleClose(k0) ELSE k0
           k2 == IF "in" \in ev THEN onReadable(k1, op) ELSE dead(k1)
           k3 == IF "out" \in ev /\ (k2.attached \/ stale)
                 THEN onWritable(dead(k2), w) ELSE dead(k2)
<1>1. handleEvent(k, ev, op, w, stale) = [dead(k3) EXCEPT !.handling = FALSE]
  BY DEF handleEvent
<1>2. ASSUME NEW x, Follows(k, x) PROVE Follows(k, dead(x))
  <2>1. Sane(x) /\ x.failed \cup {"dead Channel"} \in SUBSET Faults
    BY <1>2 DEF Follows, Sane, Conn, Faults
  <2>2. Follows(x, [x EXCEPT !.failed = x.failed \cup {"dead Channel"}])
    BY <2>1, OtherFields
  <2>3. QED
    BY <1>2, <2>2, FollowsTwice
<1> HIDE DEF dead
<1>3. Follows(k, k0)
  BY OtherFields
<1> HIDE DEF k0
<1>4. Follows(k, k1)
  <2>1. Follows(k0, handleClose(k0))
    BY <1>3, HandleCloseIs DEF Follows
  <2>2. QED
    BY <1>3, <2>1, FollowsTwice
<1> HIDE DEF k1
<1>5. Follows(k, k2)
  <2>1. Follows(k1, onReadable(k1, op))
    BY <1>4, OnReadableIs DEF Follows
  <2>2. QED
    BY <1>2, <1>4, <2>1, FollowsTwice
<1> HIDE DEF k2
<1>6. Follows(k, k3)
  <2>1. Follows(k, dead(k2))
    BY <1>2, <1>5
  <2>2. Follows(dead(k2), onWritable(dead(k2), w))
    BY <2>1, OnWritableIs DEF Follows
  <2>3. QED
    BY <2>1, <2>2, FollowsTwice
<1> HIDE DEF k3
<1>7. Follows(k, dead(k3))
  BY <1>2, <1>6
<1>8. Follows(dead(k3), [dead(k3) EXCEPT !.handling = FALSE])
  BY <1>7, OtherFields DEF Follows
<1>9. QED
  BY <1>1, <1>7, <1>8, FollowsTwice

\* connectionLoop() ends: the connection is closed and says so.
LEMMA EndLoopIs ==
    ASSUME NEW k, Sane(k)
    PROVE  /\ Sane(endLoop(k)) /\ ~endLoop(k).connected
           /\ endLoop(k).handler = "done"
<1>0. k \in Conn
  BY DEF Sane
<1>1. PICK n \in Nat : n = k.closes + 1
  BY <1>0 DEF Conn
<1>2. endLoop(k) = [k EXCEPT !.connected = FALSE, !.handler = "done",
                             !.closes = n]
  BY <1>0, <1>1 DEF endLoop, Conn
<1>3. [k EXCEPT !.connected = FALSE, !.handler = "done", !.closes = n] \in Conn
  BY <1>0, <1>1 DEF Conn
<1>4. QED
  BY <1>0, <1>2, <1>3 DEF Sane, Conn

\* What a run of the handler leaves.
Ran(k) == /\ Sane(k) /\ k.handler # "none"
          /\ k.connected => k.closes = 0

\* The handler is resumed.
LEMMA ResumeIs ==
    ASSUME NEW k, Sane(k), k.handler = "suspended", k.closes = 0, NEW op,
           NEW returns \in BOOLEAN
    PROVE  /\ Ran(resume(k, op, returns))
           /\ resume(k, op, returns).connected => k.connected
<1>1. Follows(k, call(op, k))
  BY CallIs
<1>2. Sane(call(op, k))
  BY <1>1 DEF Follows
<1>3. CASE returns
  BY <1>2, <1>3, EndLoopIs DEF resume, Ran
<1>4. CASE ~returns
  BY <1>1, <1>4 DEF resume, Ran, Follows
<1>5. QED
  BY <1>3, <1>4

\* A new connection.
LEMMA NewConnIs ==
    /\ NewChannel \in Chan /\ NewChannel.index = -1 /\ NewChannel.events = {}
    /\ NewConn \in Conn /\ NewConn.closes = 0 /\ NewConn.attached = FALSE
    /\ NewConn.writing = FALSE /\ NewConn.waits = FALSE
    /\ NewConn.connected = FALSE
    /\ NewConn.ch = NewChannel /\ NewConn.out = 0
<1>1. PICK n \in Nat : n = 0
  OBVIOUS
<1>2. PICK m \in {-1, 1, 2} : m = -1
  OBVIOUS
<1>3. NewChannel = [events |-> {}, index |-> m, addedToLoop |-> FALSE,
               inMap |-> FALSE, epoll |-> Absent, edge |-> FALSE,
               failed |-> {}]
  BY <1>2 DEF NewChannel
<1>4. NewChannel \in Chan /\ NewChannel.index = -1 /\ NewChannel.events = {}
      /\ NewChannel.epoll = Absent /\ NewChannel.inMap = FALSE
      /\ NewChannel.failed = {}
  BY <1>2, <1>3 DEF Chan
<1>5. NewConn = [connected |-> FALSE, writing |-> FALSE, out |-> n,
            attached |-> FALSE, waits |-> FALSE, ch |-> NewChannel,
            handling |-> FALSE, handler |-> "none", closes |-> n,
            failed |-> {}, inbox |-> {}, full |-> FALSE, finSent |-> FALSE]
  BY <1>1 DEF NewConn
<1>6. /\ NewConn \in Conn /\ NewConn.closes = 0 /\ NewConn.attached = FALSE
      /\ NewConn.connected = FALSE
      /\ NewConn.writing = FALSE /\ NewConn.waits = FALSE
      /\ NewConn.ch = NewChannel /\ NewConn.out = 0
  BY <1>1, <1>4, <1>5 DEF Conn
<1>7. QED
  BY <1>4, <1>6

\* A connection is started: it is registered for reading, the handler runs.
LEMMA StartIs ==
    ASSUME NEW op, NEW returns \in BOOLEAN
    PROVE  Ran(start(NewConn, op, returns))
<1>1. PICK n \in Nat : n = 0
  OBVIOUS
<1>2. NewConn.out = n
  BY <1>1, NewConnIs
<1> DEFINE c0 == [NewChannel EXCEPT !.inMap = NewChannel.inMap,
                    !.epoll = NewChannel.epoll, !.failed = NewChannel.failed]
           z == enableReading(c0)
           a == [NewConn EXCEPT !.connected = TRUE]
           k1 == [chEnableReading(a) EXCEPT !.handler = "suspended"]
<1>3. /\ z \in Chan /\ Registered(z) /\ isReading(z) /\ ~isWriting(z)
  <2>1. {kReadEvent} \in SUBSET Events /\ kReadEvent # kWriteEvent
    BY DEF Events, kReadEvent, kWriteEvent
  <2>2. c0 \in Chan /\ c0.index = -1 /\ c0.events = {}
    BY NewConnIs DEF Chan
  <2>3. z = setEvents(c0, {kReadEvent})
    BY <2>2 DEF enableReading
  <2> HIDE DEF c0, z
  <2>4. QED
    BY <2>1, <2>2, <2>3, SetEventsIs DEF isReading, isWriting
<1>4. k1 = [[[a EXCEPT !.attached = TRUE, !.ch = c0] EXCEPT !.ch = z]
               EXCEPT !.handler = "suspended"]
  <2>1. a \in Conn /\ a.attached = FALSE /\ a.ch = NewChannel
    BY NewConnIs DEF Conn
  <2>2. attach(a) = [a EXCEPT !.attached = TRUE, !.ch = c0]
    BY <2>1 DEF attach
  <2>3. QED
    BY <2>1, <2>2 DEF chEnableReading, Conn
<1>5. Sane(k1) /\ k1.closes = 0 /\ k1.handler = "suspended"
  <2> HIDE DEF c0, z, k1
  <2>1. k1 \in Conn /\ k1.closes = 0 /\ k1.handler = "suspended" /\ k1.ch = z
        /\ k1.attached = TRUE /\ k1.writing = FALSE /\ k1.waits = FALSE
        /\ k1.out = n
    BY <1>2, <1>3, <1>4, NewConnIs DEF Conn
  <2>2. isWriting(z) = FALSE /\ ~(n > 0)
    BY <1>1, <1>3 DEF isWriting
  <2>3. QED
    BY <1>1, <1>3, <2>1, <2>2 DEF Sane, Served
<1>6. start(NewConn, op, returns) =
          IF returns THEN endLoop(call(op, k1)) ELSE call(op, k1)
  BY DEF start
<1> HIDE DEF k1
<1>7. QED
  BY <1>5, <1>6, ResumeIs DEF resume

\* ~CoroTcpConnection.
LEMMA DestroyIs ==
    ASSUME NEW k \in Conn
    PROVE  Same(k, destroy(k))
<1> DEFINE g == chRemove(k)
<1>1. Same(k, g)
  BY ChRemoveIs
<1>2. destroy(k) = [g EXCEPT !.ch.epoll = Absent, !.ch.edge = FALSE]
  BY DEF destroy
<1> HIDE DEF g
<1>3. g \in Conn /\ g.ch \in Chan
  BY <1>1 DEF Same, Conn
<1> DEFINE z == [g.ch EXCEPT !.epoll = Absent, !.edge = FALSE]
<1>4. z \in Chan
  BY <1>3 DEF Chan
<1>5. destroy(k) = [g EXCEPT !.ch = z]
  BY <1>2, <1>3 DEF Conn, Chan
<1> HIDE DEF z
<1>6. [g EXCEPT !.ch = z] \in Conn
  BY <1>3, <1>4 DEF Conn
<1>7. QED
  BY <1>1, <1>3, <1>5, <1>6 DEF Same, Conn

-----------------------------------------------------------------------------
\* The step is about connection c, which it leaves in the record k.
About(c, k) ==
    /\ conn' = [conn EXCEPT ![c] = k] /\ server' = server
    /\ connections_' \ {c} = connections_ \ {c}
    /\ alive' \ {c} = alive \ {c}
    /\ backlog' \subseteq backlog
    /\ active' \subseteq active

\* That record is right.
Right(c, k) ==
    /\ Sane(k) /\ k.closes = 0
    /\ k.connected => c \in alive' /\ (server => c \in connections_')
    /\ c \notin backlog'
    /\ c \in alive' => k.handler # "none"

\* A step that is about one connection.
LEMMA AboutOne ==
    ASSUME CoroInv, NEW c \in Conns, NEW k, About(c, k), Right(c, k)
    PROVE  CoroInv'
<1> USE DEF CoroInv
<1>1. k \in Conn
  BY DEF Right, Sane
<1>2. /\ conn'[c] = k
      /\ \A d \in Conns : d # c => conn'[d] = conn[d]
      /\ conn' \in [Conns -> Conn]
  BY <1>1 DEF About, CoroTypes
<1>3. \A d : d # c => /\ d \in connections_' <=> d \in connections_
                      /\ d \in alive' <=> d \in alive
                      /\ d \in backlog' => d \in backlog
  BY DEF About
<1>4. CoroTypes'
  BY <1>2, <1>3 DEF CoroTypes, About
<1>5. Kept'
  <2> SUFFICES ASSUME NEW d \in Conns
               PROVE  /\ Sane(conn'[d]) /\ conn'[d].closes = 0
                      /\ conn'[d].connected =>
                            d \in alive' /\ (server' => d \in connections_')
    BY DEF Kept
  <2>1. server' = server
    BY DEF About
  <2>2. CASE d = c
    BY <1>2, <2>1, <2>2 DEF Right
  <2>3. CASE d # c
    BY <1>2, <1>3, <2>1, <2>3 DEF Kept
  <2>4. QED
    BY <2>2, <2>3
<1>6. Fresh'
  <2> SUFFICES ASSUME NEW d \in Conns
               PROVE  /\ d \in backlog' => conn'[d] = NewConn
                      /\ d \in alive' => conn'[d].handler # "none"
    BY DEF Fresh
  <2>1. CASE d = c
    BY <1>2, <2>1 DEF Right
  <2>2. CASE d # c
    BY <1>2, <1>3, <2>2 DEF Fresh
  <2>3. QED
    BY <2>1, <2>2
<1>7. QED
  BY <1>4, <1>5, <1>6

\* A connection that exists is not in the backlog.
LEMMA AliveIsAccepted ==
    ASSUME CoroInv, NEW c \in alive
    PROVE  /\ c \in Conns /\ c \notin backlog /\ Sane(conn[c])
           /\ conn[c].closes = 0 /\ conn[c].handler # "none"
<1>1. c \in Conns
  BY DEF CoroInv, CoroTypes
<1>2. NewConn.handler = "none"
  BY DEF NewConn
<1>3. QED
  BY <1>1, <1>2 DEF CoroInv, Kept, Fresh

\* closes, once it is answered.
LEMMA AnsweredIs ==
    ASSUME NEW k, Sane(k)
    PROVE  /\ Sane([k EXCEPT !.closes = 0])
           /\ [k EXCEPT !.closes = 0].closes = 0
           /\ [k EXCEPT !.closes = 0].connected = k.connected
           /\ [k EXCEPT !.closes = 0].handler = k.handler
<1>1. PICK n \in Nat : n = 0
  OBVIOUS
<1>2. k \in Conn
  BY DEF Sane
<1>3. [k EXCEPT !.closes = n] \in Conn
  BY <1>2 DEF Conn
<1>4. QED
  BY <1>1, <1>2, <1>3 DEF Sane, Served, Conn

\* What an operation leaves of a connection is settled.
LEMMA SettleKeeps ==
    ASSUME CoroInv, NEW c \in alive, NEW k, Ran(k),
           k.connected => conn[c].connected, settle(c, k),
           UNCHANGED <<accepting, server>>, active' \subseteq active
    PROVE  CoroInv'
<1> DEFINE map == IF k.closes > 0 THEN connections_ \ {c} ELSE connections_
           kept == c \in map \/ k.handler = "suspended"
           r == IF kept THEN k ELSE destroy(k)
           a == [r EXCEPT !.closes = 0]
<1>1. /\ connections_' = map
      /\ alive' = IF kept THEN alive \cup {c} ELSE alive \ {c}
      /\ conn' = [conn EXCEPT ![c] = a]
  BY DEF settle
<1>2. c \in Conns /\ c \notin backlog /\ backlog' = backlog /\ server' = server
  BY AliveIsAccepted DEF accepting
<1>3. Sane(r) /\ r.connected = k.connected /\ r.handler = k.handler
  <2>1. CASE kept
    BY <2>1 DEF Ran
  <2>2. CASE ~kept
    <3>1. ~k.connected /\ k \in Conn
      BY <2>2 DEF Ran, Sane, Served
    <3>2. Same(k, destroy(k))
      BY <3>1, DestroyIs
    <3>3. QED
      BY <2>2, <3>1, <3>2 DEF Same, Sane
  <2>3. QED
    BY <2>1, <2>2
<1>4. k.connected => /\ kept /\ (server => c \in connections_)
                     /\ map = connections_
  BY <1>2 DEF Ran, Sane, Served, CoroInv, Kept
<1>5. k.handler # "none"
  BY DEF Ran
<1> HIDE DEF r
<1>6. /\ Sane(a) /\ a.closes = 0 /\ a.connected = k.connected
      /\ a.handler = k.handler
  BY <1>3, AnsweredIs
<1> HIDE DEF a
<1>7. About(c, a)
  BY <1>1, <1>2 DEF About
<1>8. Right(c, a)
  BY <1>1, <1>2, <1>4, <1>5, <1>6 DEF Right
<1>9. QED
  BY <1>2, <1>7, <1>8, AboutOne

\* onAccept.
LEMMA OnAcceptKeeps ==
    ASSUME CoroInv, NEW c \in Conns, NEW op, NEW returns \in BOOLEAN,
           OnAccept(c, op, returns)
    PROVE  CoroInv'
<1> DEFINE k == start(conn[c], op, returns)
           a == [destroy(k) EXCEPT !.closes = 0]
<1>1. /\ c \in backlog /\ backlog' = backlog \ {c}
      /\ server /\ server' = server /\ active' = active
      /\ IF k.closes > 0
         THEN /\ conn' = [conn EXCEPT ![c] = a]
              /\ UNCHANGED <<connections_, alive>>
         ELSE /\ conn' = [conn EXCEPT ![c] = k]
              /\ connections_' = connections_ \cup {c}
              /\ alive' = alive \cup {c}
  BY DEF OnAccept
<1>2. conn[c] = NewConn /\ c \notin alive
  BY <1>1, AliveIsAccepted DEF CoroInv, Fresh
<1>3. Ran(k)
  BY <1>2, StartIs
<1> HIDE DEF k
<1>4. CASE k.closes > 0
  <2>1. ~k.connected /\ k \in Conn
    BY <1>3, <1>4 DEF Ran, Sane
  <2>2. Same(k, destroy(k))
    BY <2>1, DestroyIs
  <2>3. Sane(destroy(k)) /\ ~destroy(k).connected
    BY <2>1, <2>2 DEF Same, Sane
  <2>4. Sane(a) /\ a.closes = 0 /\ ~a.connected
    BY <2>3, AnsweredIs
  <2> HIDE DEF a
  <2>5. About(c, a) /\ Right(c, a)
    BY <1>1, <1>2, <1>4, <2>4 DEF About, Right
  <2>6. QED
    BY <2>5, AboutOne
<1>5. CASE ~(k.closes > 0)
  <2>1. k.closes = 0
    BY <1>3, <1>5 DEF Ran, Sane, Conn
  <2>2. About(c, k) /\ Right(c, k)
    BY <1>1, <1>3, <1>5, <2>1 DEF About, Right, Ran
  <2>3. QED
    BY <2>2, AboutOne
<1>6. QED
  BY <1>4, <1>5

\* Channel::handleEvent of a reported channel.
LEMMA HandleKeeps ==
    ASSUME CoroInv, NEW a \in active, NEW op, NEW w \in WriteResults,
           NEW stale, HandleReported(a, op, w, stale)
    PROVE  CoroInv'
<1>1. active' \subseteq active /\ UNCHANGED <<accepting, server>>
  BY DEF HandleReported
<1>2. CASE a.c \in alive /\ conn[a.c].attached
  <2> DEFINE k == handleEvent(conn[a.c], a.revents, op, w, stale)
  <2>1. settle(a.c, k)
    BY <1>2 DEF HandleReported
  <2>2. /\ Sane(conn[a.c]) /\ conn[a.c].closes = 0
        /\ conn[a.c].handler # "none"
    BY <1>2, AliveIsAccepted
  <2>3. Follows(conn[a.c], k)
    BY <2>2, HandleEventIs
  <2> HIDE DEF k
  <2>4. Ran(k) /\ (k.connected => conn[a.c].connected)
    BY <2>2, <2>3 DEF Ran, Follows
  <2>5. QED
    BY <1>1, <1>2, <2>1, <2>4, SettleKeeps
<1>3. CASE ~(a.c \in alive /\ conn[a.c].attached)
  <2>1. UNCHANGED <<conn, connections_, alive, backlog, server>>
    BY <1>3 DEF HandleReported, accepting
  <2>2. CoroTypes' /\ Kept' /\ Fresh'
    BY <1>1, <2>1 DEF CoroInv, CoroTypes, Kept, Fresh
  <2>3. QED
    BY <2>2 DEF CoroInv
<1>4. QED
  BY <1>2, <1>3

\* The handler is resumed.
LEMMA ResumeKeeps ==
    ASSUME CoroInv, NEW c \in Conns, NEW op, NEW returns \in BOOLEAN,
           Resume(c, op, returns)
    PROVE  CoroInv'
<1> DEFINE k == resume(conn[c], op, returns)
           j == [k EXCEPT !.failed = @ \cup {"running frame"}]
           r == IF returns THEN j ELSE k
<1>1. /\ c \in alive /\ conn[c].handler = "suspended" /\ settle(c, r)
      /\ UNCHANGED <<accepting, server>> /\ active' \subseteq active
  BY DEF Resume
<1>2. Sane(conn[c]) /\ conn[c].closes = 0
  BY <1>1, AliveIsAccepted
<1>3. Ran(k) /\ (k.connected => conn[c].connected)
  BY <1>1, <1>2, ResumeIs
<1> HIDE DEF k
<1>4. Ran(j) /\ (j.connected => conn[c].connected)
  <2>1. Sane(k) /\ k.failed \cup {"running frame"} \in SUBSET Faults
    BY <1>3 DEF Ran, Sane, Conn, Faults
  <2>2. Follows(k, [k EXCEPT !.failed = k.failed \cup {"running frame"}])
    BY <2>1, OtherFields
  <2>3. Follows(k, j)
    BY <2>2
  <2> HIDE DEF j
  <2>4. QED
    BY <1>3, <2>3 DEF Ran, Follows
<1> HIDE DEF j
<1>5. Ran(r) /\ (r.connected => conn[c].connected)
  BY <1>3, <1>4
<1> HIDE DEF r
<1>6. QED
  BY <1>1, <1>5, SettleKeeps

\* What epoll keeps of its looks at the descriptor is no part of Sane.
LEMMA EdgeIs ==
    ASSUME NEW k, Sane(k), NEW e \in BOOLEAN, NEW F \in SUBSET Labels
    PROVE  Follows(k, [k EXCEPT !.ch = [k.ch EXCEPT !.edge = e, !.failed = F]])
<1> DEFINE z == [k.ch EXCEPT !.edge = e, !.failed = F]
<1>1. k \in Conn /\ k.ch \in Chan
  BY DEF Sane, Conn
<1>2. /\ z \in Chan /\ z.events = k.ch.events /\ z.epoll = k.ch.epoll
      /\ z.index = k.ch.index /\ z.inMap = k.ch.inMap
  BY <1>1 DEF Chan
<1> HIDE DEF z
<1>3. PICK r : r = [k EXCEPT !.ch = z]
  OBVIOUS
<1>4. /\ r \in Conn /\ r.ch = z /\ r.handler = k.handler
      /\ r.closes = k.closes /\ r.connected = k.connected
      /\ r.attached = k.attached /\ r.waits = k.waits
      /\ r.writing = k.writing /\ r.out = k.out
  BY <1>1, <1>2, <1>3 DEF Conn
<1>5. /\ isReading(z) = isReading(k.ch) /\ isWriting(z) = isWriting(k.ch)
      /\ Registered(k.ch) => Registered(z)
  BY <1>2 DEF isReading, isWriting, Registered
<1>6. Served(k) => Served(r)
  BY <1>4, <1>5 DEF Served
<1>7. Follows(k, r)
  BY <1>4, <1>6 DEF Follows, Sane
<1>8. QED
  BY <1>3, <1>7 DEF z

\* The connections a step leaves as they are but for what epoll and the
\* kernel know of them.
LEMMA AllFollow ==
    ASSUME CoroInv, conn' \in [Conns -> Conn],
           \A c \in Conns : /\ Follows(conn[c], conn'[c])
                            /\ conn'[c].closes = 0
                            /\ c \notin alive => conn'[c] = conn[c],
           UNCHANGED <<connections_, alive, accepting, server>>,
           \A a \in active' : a.c \in Conns
    PROVE  CoroInv'
<1>1. backlog' = backlog
  BY DEF accepting
<1>2. CoroTypes'
  BY <1>1 DEF CoroInv, CoroTypes
<1>3. Kept'
  BY DEF CoroInv, Kept, Follows
<1>4. Fresh'
  BY <1>1, AliveIsAccepted DEF CoroInv, Fresh, Follows
<1>5. QED
  BY <1>2, <1>3, <1>4 DEF CoroInv

\* epoll_wait.
LEMMA PollKeeps ==
    ASSUME CoroInv, NEW S \in SUBSET Conns, Poll(S)
    PROVE  CoroInv'
<1>1. /\ \A c \in S : c \in alive
      /\ conn' = [c \in Conns |-> IF c \in S
                     THEN [conn[c] EXCEPT !.ch = reported(@, TRUE)]
                     ELSE conn[c]]
      /\ active' = {[c |-> c, revents |-> revents(conn[c])] : c \in S}
      /\ UNCHANGED <<connections_, alive, accepting, server>>
  BY DEF Poll
<1>2. ASSUME NEW c \in Conns
      PROVE  /\ Follows(conn[c], conn'[c]) /\ conn'[c].closes = 0
             /\ c \notin alive => conn'[c] = conn[c]
             /\ conn'[c] \in Conn
  <2>1. Sane(conn[c]) /\ conn[c].closes = 0 /\ conn[c] \in Conn
    BY DEF CoroInv, Kept, Sane
  <2>2. CASE c \notin S
    BY <1>1, <2>1, <2>2 DEF Follows
  <2>3. CASE c \in S
    <3> DEFINE x == conn[c]
               F == x.ch.failed \cup Assert_(x.ch.inMap, "EpollPoller.cpp:58")
               k == [x EXCEPT !.ch = [x.ch EXCEPT !.edge = FALSE, !.failed = F]]
    <3>1. F \in SUBSET Labels
      BY <2>1, LabelIsKnown DEF Conn, Chan, Labels
    <3>2. conn'[c] = k
      BY <1>1, <2>3 DEF reported
    <3> HIDE DEF F
    <3>3. Follows(x, k)
      BY <2>1, <3>1, EdgeIs
    <3>4. k.closes = 0
      BY <2>1 DEF Conn
    <3> HIDE DEF k
    <3>5. QED
      BY <1>1, <2>3, <3>2, <3>3, <3>4 DEF Follows, Sane
  <2>4. QED
    BY <2>2, <2>3
<1>3. conn' \in [Conns -> Conn]
  BY <1>1, <1>2
<1>4. \A a \in active' : a.c \in Conns
  BY <1>1
<1>5. QED
  BY <1>1, <1>2, <1>3, <1>4, AllFollow

\* A peer.
LEMMA PeerKeeps ==
    ASSUME CoroInv, NEW c \in Conns, NEW k, Peer(c, k), Follows(conn[c], k),
           k.closes = 0
    PROVE  CoroInv'
<1> DEFINE e == k.ch.epoll # Absent
           j == [k EXCEPT !.ch = [k.ch EXCEPT !.edge = e]]
<1>1. /\ c \in alive /\ conn' = [conn EXCEPT ![c] =
                   [k EXCEPT !.ch.edge = (k.ch.epoll # Absent)]]
      /\ UNCHANGED <<connections_, alive, accepting, server, active>>
  BY DEF Peer
<1>2. Sane(k) /\ k \in Conn /\ k.ch \in Chan /\ e \in BOOLEAN
  BY DEF Follows, Sane, Conn
<1>3. conn' = [conn EXCEPT ![c] = j]
  BY <1>1, <1>2 DEF Conn, Chan
<1>4. Follows(k, j)
  <2>1. k.ch.failed \in SUBSET Labels
    BY <1>2 DEF Chan
  <2>2. [k.ch EXCEPT !.edge = e, !.failed = k.ch.failed] =
           [k.ch EXCEPT !.edge = e]
    BY <1>2 DEF Chan
  <2>3. QED
    BY <1>2, <2>1, <2>2, EdgeIs
<1>5. j.closes = 0
  BY <1>2 DEF Conn
<1> HIDE DEF j, e
<1>6. Follows(conn[c], j)
  BY <1>4, FollowsTwice
<1>7. /\ \A d \in Conns : Sane(conn[d]) /\ conn[d].closes = 0
      /\ conn \in [Conns -> Conn] /\ \A a \in active : a.c \in Conns
  BY DEF CoroInv, Kept, CoroTypes
<1>8. conn' \in [Conns -> Conn]
  BY <1>3, <1>6, <1>7 DEF Follows, Sane
<1>9. ASSUME NEW d \in Conns
      PROVE  /\ Follows(conn[d], conn'[d]) /\ conn'[d].closes = 0
             /\ d \notin alive => conn'[d] = conn[d]
  <2>1. CASE d = c
    BY <1>1, <1>3, <1>5, <1>6, <1>7, <2>1
  <2>2. CASE d # c
    BY <1>3, <1>7, <2>2 DEF Follows
  <2>3. QED
    BY <2>1, <2>2
<1>10. QED
  BY <1>1, <1>7, <1>8, <1>9, AllFollow

\* What the peers do.
LEMMA PeersKeep ==
    ASSUME CoroInv, NEW c \in Conns,
           PeerSends(c) \/ PeerCloses(c) \/ PeerResets(c) \/ PeerReads(c)
    PROVE  CoroInv'
<1>1. /\ Sane(conn[c]) /\ conn[c].closes = 0 /\ conn[c] \in Conn
      /\ conn[c].inbox \in SUBSET {"data", "rst", "fin"}
  BY DEF CoroInv, Kept, Sane, Conn
<1>2. ASSUME NEW S \in SUBSET {"data", "rst", "fin"},
             Peer(c, [conn[c] EXCEPT !.inbox = S])
      PROVE  CoroInv'
  <2>1. [conn[c] EXCEPT !.inbox = S].closes = 0
    BY <1>1 DEF Conn
  <2>2. QED
    BY <1>1, <1>2, <2>1, OtherFields, PeerKeeps
<1>3. CASE PeerSends(c)
  <2>1. PICK S \in SUBSET {"data", "rst", "fin"} : S = {"data"}
    OBVIOUS
  <2>2. QED
    BY <1>2, <1>3, <2>1 DEF PeerSends
<1>4. CASE PeerCloses(c)
  <2>1. PICK S \in SUBSET {"data", "rst", "fin"} :
            S = conn[c].inbox \cup {"fin"}
    BY <1>1
  <2>2. QED
    BY <1>2, <1>4, <2>1 DEF PeerCloses
<1>5. CASE PeerResets(c)
  <2>1. PICK S \in SUBSET {"data", "rst", "fin"} : S = {"rst"}
    OBVIOUS
  <2>2. QED
    BY <1>2, <1>5, <2>1 DEF PeerResets
<1>6. CASE PeerReads(c)
  <2>1. [conn[c] EXCEPT !.full = FALSE].closes = 0
    BY <1>1 DEF Conn
  <2>2. QED
    BY <1>1, <1>6, <2>1, OtherFields, PeerKeeps DEF PeerReads
<1>7. QED
  BY <1>3, <1>4, <1>5, <1>6

\* ~CoroTcpServer: a connection whose handler is not suspended is not
\* connected, so that none is dropped that is.
LEMMA DestroyServerKeeps ==
    ASSUME CoroInv, DestroyServer
    PROVE  CoroInv'
<1>1. /\ server' = FALSE /\ backlog' = {} /\ connections_' = {}
      /\ active' = active
      /\ alive' = {c \in alive : conn[c].handler = "suspended"}
      /\ conn' = [c \in Conns |-> IF c \in alive \ alive' THEN destroy(conn[c])
                                                          ELSE conn[c]]
  BY DEF DestroyServer
<1>2. ASSUME NEW c \in Conns
      PROVE  /\ Sane(conn'[c]) /\ conn'[c].closes = 0 /\ conn'[c] \in Conn
             /\ conn'[c].connected => c \in alive'
             /\ conn'[c].handler = conn[c].handler
  <2>1. /\ Sane(conn[c]) /\ conn[c].closes = 0 /\ conn[c] \in Conn
        /\ conn[c].connected => c \in alive /\ conn[c].handler = "suspended"
    BY DEF CoroInv, Kept, Sane, Served
  <2>2. CASE c \in alive \ alive'
    <3>1. conn'[c] = destroy(conn[c]) /\ ~conn[c].connected
      BY <1>1, <2>1, <2>2
    <3>2. Same(conn[c], destroy(conn[c]))
      BY <2>1, DestroyIs
    <3>3. QED
      BY <2>1, <3>1, <3>2 DEF Same, Sane
  <2>3. CASE c \notin alive \ alive'
    BY <1>1, <2>1, <2>3
  <2>4. QED
    BY <2>2, <2>3
<1>3. CoroTypes'
  <2>1. conn' \in [Conns -> Conn]
    BY <1>1, <1>2
  <2>2. QED
    BY <1>1, <2>1 DEF CoroInv, CoroTypes
<1>4. Kept' /\ Fresh'
  BY <1>1, <1>2 DEF CoroInv, Kept, Fresh
<1>5. QED
  BY <1>3, <1>4 DEF CoroInv

\* Every step keeps the invariant.
LEMMA CoroSteps == CoroInv /\ [CoroNext]_coroVars => CoroInv'
<1> SUFFICES ASSUME CoroInv, [CoroNext]_coroVars PROVE CoroInv'
  OBVIOUS
<1>1. CASE UNCHANGED coroVars
  BY <1>1 DEF coroVars, accepting, CoroInv, CoroTypes, Kept, Fresh
<1>2. CASE Start
  BY <1>2 DEF Start, CoroInv, CoroTypes, Kept, Fresh
<1>3. CASE DestroyServer
  BY <1>3, DestroyServerKeeps
<1>4. CASE Handle
  BY <1>4, HandleKeeps DEF Handle
<1>5. ASSUME NEW S \in SUBSET Conns, Poll(S) PROVE CoroInv'
  BY <1>5, PollKeeps
<1>6. ASSUME NEW c \in Conns, Connect(c) PROVE CoroInv'
  BY <1>6 DEF Connect, CoroInv, CoroTypes, Kept, Fresh
<1>7. ASSUME NEW c \in Conns,
             PeerSends(c) \/ PeerCloses(c) \/ PeerResets(c) \/ PeerReads(c)
      PROVE  CoroInv'
  BY <1>7, PeersKeep
<1>8. ASSUME NEW c \in Conns, NEW op \in Calls, NEW returns \in BOOLEAN,
             OnAccept(c, op, returns) \/ Resume(c, op, returns)
      PROVE  CoroInv'
  BY <1>8, OnAcceptKeeps, ResumeKeeps
<1>9. QED
  BY <1>1, <1>2, <1>3, <1>4, <1>5, <1>6, <1>7, <1>8 DEF CoroNext

\* It holds before the first connection.
LEMMA CoroStarts == CoroInit => CoroInv
<1> SUFFICES ASSUME CoroInit PROVE CoroInv
  OBVIOUS
<1>1. NewConn \in Conn /\ NewConn.connected = FALSE /\ NewConn.closes = 0
  BY NewConnIs
<1>2. QED
  BY <1>1 DEF CoroInit, CoroInv, CoroTypes, Kept, Fresh, Sane

\* A connection that is connected is in the server's map, and its Channel is
\* registered for reading and, exactly when there is output, for writing:
\* for any connections, whatever handlers and callbacks call and whenever
\* they return, the peers close, and the server is destroyed.
THEOREM CoroServes == CoroSpec => []ConnectedIsServed
<1>1. CoroInv => ConnectedIsServed
  BY DEF CoroInv, Kept, Sane, Served, Registered, ConnectedIsServed
<1>2. QED
  BY <1>1, CoroStarts, CoroSteps, PTL DEF CoroSpec

=============================================================================
