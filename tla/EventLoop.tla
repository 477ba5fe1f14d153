------------------------------ MODULE EventLoop ------------------------------
(***************************************************************************)
(* net/Eventloop.cpp, net/EventLoop.h and the resume queue of              *)
(* coro/CoroScheduler.cpp: the thread that owns the loop, the threads that *)
(* post functors to it or ask it to quit, and the eventfd that wakes it.   *)
(*                                                                         *)
(* pc is the place of the owner thread in EventLoop::loop():               *)
(*   "stopped"   outside loop()                                            *)
(*   "test"      at while (!quit_)                                         *)
(*   "poll"      inside epoll_wait                                         *)
(*   "dispatch"  iterating over activeChannels_                            *)
(*   "resume"    in CoroScheduler::processPendingResumes                   *)
(*   "functors"  iterating over the swapped vector in doPendingFunctors    *)
(*   "handler", "coroutine", "functor"   in code the three loops call      *)
(* tpc[t] is "wakeup" when another thread t has pushed a functor or set    *)
(* quit_ and has not yet written to the eventfd.                           *)
(*                                                                         *)
(* The kernel side is the eventfd counter (zero or not) and the place of   *)
(* the eventfd on epoll's ready list: the channel is edge triggered        *)
(* (Channel.cpp:20), so a write puts it there and epoll_wait takes it off. *)
(***************************************************************************)
EXTENDS Naturals, Sequences

CONSTANTS Others,      \* the threads other than the one that owns the loop
          MaxPosts,    \* bound: functors ever pushed
          MaxResumes   \* bound: coroutines waiting to be resumed

ASSUME BoundsAssumption == MaxPosts \in Nat /\ MaxResumes \in Nat

VARIABLES pc,
          quit_, looping_, callingPendingFunctors_,
          pendingFunctors_,     \* guarded by mutex_
          functors,             \* the local vector of doPendingFunctors
          activeChannels_,
          pendingCoroutines_,   \* how many handles CoroScheduler holds
          wakeupFd,             \* the eventfd counter is not zero
          epollReady,           \* the eventfd is on epoll's ready list
          tpc,                  \* the other threads
          executed,             \* functors started so far, in order
          early                 \* pendingFunctors_ holds a functor that the
                                \* owner pushed while it was outside loop()

flags == <<quit_, looping_>>
work == <<pendingFunctors_, functors, executed, early>>
kernel == <<wakeupFd, epollReady>>
vars == <<pc, flags, callingPendingFunctors_, work, activeChannels_,
          pendingCoroutines_, kernel, tpc>>

UserCode == {"handler", "coroutine", "functor"}
PC == UserCode \cup
      {"stopped", "test", "poll", "dispatch", "resume", "functors"}
Channels == {"wakeup", "io"}

\* The members hold what their C++ types allow; in particular the resume
\* queue is never popped when it is empty (CoroScheduler.cpp:19-21).
TypeOK ==
    /\ pc \in PC
    /\ quit_ \in BOOLEAN /\ looping_ \in BOOLEAN
    /\ callingPendingFunctors_ \in BOOLEAN
    /\ pendingFunctors_ \in Seq(Nat) /\ functors \in Seq(Nat)
    /\ activeChannels_ \subseteq Channels
    /\ pendingCoroutines_ \in Nat
    /\ wakeupFd \in BOOLEAN /\ epollReady \in BOOLEAN
    /\ tpc \in [Others -> {"idle", "wakeup"}]
    /\ executed \in Seq(Nat)
    /\ early \in BOOLEAN

Init ==
    /\ pc = "stopped"
    /\ quit_ = FALSE /\ looping_ = FALSE /\ callingPendingFunctors_ = FALSE
    /\ pendingFunctors_ = <<>> /\ functors = <<>>
    /\ activeChannels_ = {}
    /\ pendingCoroutines_ = 0
    /\ wakeupFd = FALSE /\ epollReady = FALSE
    /\ tpc = [t \in Others |-> "idle"]
    /\ executed = <<>>
    /\ early = FALSE
-----------------------------------------------------------------------------
(* Waking the loop.                                                        *)

\* ::write(wakeupFd_): every write to an eventfd is an edge for epoll.
wakeup == wakeupFd' = TRUE /\ epollReady' = TRUE

\* A functor's name is the number of functors pushed before it, plus one.
NextId == Len(executed) + Len(functors) + Len(pendingFunctors_) + 1

pushBack == /\ NextId <= MaxPosts
            /\ pendingFunctors_' = Append(pendingFunctors_, NextId)
            /\ UNCHANGED <<functors, executed>>

\* Mutant: the owner never wakes itself.
ownerMustWakeNever == FALSE

\* The condition of queueInLoop's wakeup, for the thread that owns the loop.
ownerMustWake == callingPendingFunctors_

\* queueInLoop by the owner: in a callback the loop runs, or before it
\* enters loop() or after it left it.  (runInLoop in the owner thread calls
\* the functor on the spot: it is part of the callback.)
OwnerQueueInLoop ==
    /\ pc \in UserCode \cup {"stopped"}
    /\ pushBack
    /\ IF ownerMustWake THEN wakeup ELSE UNCHANGED kernel
    /\ early' = (early \/ pc = "stopped")
    /\ UNCHANGED <<pc, flags, callingPendingFunctors_, activeChannels_,
                   pendingCoroutines_, tpc>>

\* runInLoop and queueInLoop in another thread: push under the mutex ...
QueueInLoop(t) ==
    /\ tpc[t] = "idle"
    /\ pushBack
    /\ tpc' = [tpc EXCEPT ![t] = "wakeup"]
    /\ UNCHANGED <<pc, flags, callingPendingFunctors_, activeChannels_,
                   pendingCoroutines_, kernel, early>>

\* Mutant: quit() without its wakeup().
QuitNoWakeup(t) ==
    /\ tpc[t] = "idle"
    /\ quit_' = TRUE
    /\ UNCHANGED <<pc, looping_, callingPendingFunctors_, work,
                   activeChannels_, pendingCoroutines_, kernel, tpc>>

\* ... or quit() in another thread ...
Quit(t) ==
    /\ tpc[t] = "idle"
    /\ quit_' = TRUE
    /\ tpc' = [tpc EXCEPT ![t] = "wakeup"]
    /\ UNCHANGED <<pc, looping_, callingPendingFunctors_, work,
                   activeChannels_, pendingCoroutines_, kernel>>

\* ... and then, outside the mutex, the write to the eventfd.
Wakeup(t) ==
    /\ tpc[t] = "wakeup"
    /\ wakeup
    /\ tpc' = [tpc EXCEPT ![t] = "idle"]
    /\ UNCHANGED <<pc, flags, callingPendingFunctors_, work, activeChannels_,
                   pendingCoroutines_>>

\* quit() in a callback: no write is needed, the loop tests quit_ next.
OwnerQuit ==
    /\ pc \in UserCode
    /\ quit_' = TRUE
    /\ UNCHANGED <<pc, looping_, callingPendingFunctors_, work,
                   activeChannels_, pendingCoroutines_, kernel, tpc>>

\* CoroScheduler::scheduleResume in a callback: it never wakes the loop.
ScheduleResume ==
    /\ pc \in UserCode
    /\ pendingCoroutines_ < MaxResumes
    /\ pendingCoroutines_' = pendingCoroutines_ + 1
    /\ UNCHANGED <<pc, flags, callingPendingFunctors_, work, activeChannels_,
                   kernel, tpc>>
-----------------------------------------------------------------------------
(* EventLoop::loop().                                                      *)

Loop ==
    /\ pc = "stopped"
    /\ pc' = "test"
    /\ looping_' = TRUE /\ quit_' = FALSE
    /\ UNCHANGED <<callingPendingFunctors_, work, activeChannels_,
                   pendingCoroutines_, kernel, tpc>>

TestQuit ==
    /\ pc = "test"
    /\ IF quit_
       THEN pc' = "stopped" /\ looping_' = FALSE /\ UNCHANGED activeChannels_
       ELSE pc' = "poll" /\ activeChannels_' = {} /\ UNCHANGED looping_
    /\ UNCHANGED <<quit_, callingPendingFunctors_, work, pendingCoroutines_,
                   kernel, tpc>>

\* The eventfd is on the ready list and still readable.
Ready == epollReady /\ wakeupFd

\* epoll_wait returns the channels chs.  It may report other channels and
\* not the eventfd (its array was full); nothing is reported when kPollTimeMs
\* ran out or a signal arrived.
PollReturn(chs) ==
    /\ pc = "poll"
    /\ "wakeup" \in chs => Ready
    /\ activeChannels_' = chs
    /\ epollReady' = (epollReady /\ "wakeup" \notin chs)
    /\ pc' = "dispatch"
    /\ UNCHANGED <<flags, callingPendingFunctors_, work, pendingCoroutines_,
                   wakeupFd, tpc>>

\* EventLoop::handleRead, the read callback of wakeupChannel_.
HandleRead ==
    /\ pc = "dispatch"
    /\ "wakeup" \in activeChannels_
    /\ activeChannels_' = activeChannels_ \ {"wakeup"}
    /\ wakeupFd' = FALSE
    /\ UNCHANGED <<pc, flags, callingPendingFunctors_, work,
                   pendingCoroutines_, epollReady, tpc>>

\* Any other channel's handleEvent calls into user code.
HandleEvent ==
    /\ pc = "dispatch"
    /\ "io" \in activeChannels_
    /\ activeChannels_' = activeChannels_ \ {"io"}
    /\ pc' = "handler"
    /\ UNCHANGED <<flags, callingPendingFunctors_, work, pendingCoroutines_,
                   kernel, tpc>>

EndDispatch ==
    /\ pc = "dispatch"
    /\ activeChannels_ = {}
    /\ pc' = "resume"
    /\ UNCHANGED <<flags, callingPendingFunctors_, work, activeChannels_,
                   pendingCoroutines_, kernel, tpc>>

\* Mutant: the scheduler was never attached to the loop.
moreResumesNever == FALSE

\* The test of processPendingResumes.
moreResumes == pendingCoroutines_ > 0

ProcessPendingResume ==
    /\ pc = "resume"
    /\ moreResumes
    /\ pendingCoroutines_' = pendingCoroutines_ - 1
    /\ pc' = "coroutine"
    /\ UNCHANGED <<flags, callingPendingFunctors_, work, activeChannels_,
                   kernel, tpc>>

\* doPendingFunctors: raise the flag, swap the vectors under the mutex ...
BeginFunctors ==
    /\ pc = "resume"
    /\ ~moreResumes
    /\ callingPendingFunctors_' = TRUE
    /\ functors' = pendingFunctors_ /\ pendingFunctors_' = <<>>
    /\ early' = FALSE
    /\ pc' = "functors"
    /\ UNCHANGED <<flags, executed, activeChannels_, pendingCoroutines_,
                   kernel, tpc>>

\* Mutant: the vector is run from its back.
RunFunctorLast ==
    /\ pc = "functors"
    /\ functors # <<>>
    /\ executed' = Append(executed, functors[Len(functors)])
    /\ functors' = SubSeq(functors, 1, Len(functors) - 1)
    /\ pc' = "functor"
    /\ UNCHANGED <<flags, callingPendingFunctors_, pendingFunctors_, early,
                   activeChannels_, pendingCoroutines_, kernel, tpc>>

\* ... call them in order ...
RunFunctor ==
    /\ pc = "functors"
    /\ functors # <<>>
    /\ executed' = Append(executed, Head(functors))
    /\ functors' = Tail(functors)
    /\ pc' = "functor"
    /\ UNCHANGED <<flags, callingPendingFunctors_, pendingFunctors_, early,
                   activeChannels_, pendingCoroutines_, kernel, tpc>>

\* ... and lower the flag.
EndFunctors ==
    /\ pc = "functors"
    /\ functors = <<>>
    /\ callingPendingFunctors_' = FALSE
    /\ pc' = "test"
    /\ UNCHANGED <<flags, work, activeChannels_, pendingCoroutines_, kernel,
                   tpc>>

\* Where each of the three loops goes on when the code it called returns.
Caller == [handler |-> "dispatch", coroutine |-> "resume",
           functor |-> "functors"]

Return ==
    /\ pc \in UserCode
    /\ pc' = Caller[pc]
    /\ UNCHANGED <<flags, callingPendingFunctors_, work, activeChannels_,
                   pendingCoroutines_, kernel, tpc>>
-----------------------------------------------------------------------------
OwnerStep == \/ TestQuit \/ HandleRead \/ HandleEvent \/ EndDispatch
             \/ ProcessPendingResume \/ BeginFunctors \/ RunFunctor
             \/ EndFunctors \/ Return

Next == \/ OwnerStep
        \/ Loop
        \/ OwnerQueueInLoop \/ OwnerQuit \/ ScheduleResume
        \/ \E chs \in SUBSET Channels : PollReturn(chs)
        \/ \E t \in Others : QueueInLoop(t) \/ Quit(t) \/ Wakeup(t)

Spec == Init /\ [][Next]_vars

\* The owner thread keeps running and its callbacks return; a thread that is
\* about to write to the eventfd writes; epoll_wait returns when the eventfd
\* is ready.  Nothing makes the owner enter loop(), post or quit.
Fairness ==
    /\ WF_vars(OwnerStep)
    /\ WF_vars(PollReturn({"wakeup"}))
    /\ \A t \in Others : WF_vars(Wakeup(t))

\* Under PromptSpec epoll_wait never need time out.
PromptSpec == Spec /\ Fairness

\* epoll_wait returns after kPollTimeMs at the latest.
PollTimesOut == WF_vars(PollReturn({}))
-----------------------------------------------------------------------------
(* Properties.                                                             *)

\* A write to the eventfd that epoll_wait will report was made, or some
\* thread is about to make one.
Signalled == Ready \/ \E t \in Others : tpc[t] = "wakeup"

\* The loop never sleeps on work: in epoll_wait, a functor that waits in
\* pendingFunctors_ or a pending quit_ has its wakeup on the way.  The one
\* exception is a functor that the owner pushed outside loop(), for which
\* queueInLoop's condition (Eventloop.cpp:206) makes no wakeup.
NoLostWakeup ==
    pc = "poll" => /\ pendingFunctors_ # <<>> => Signalled \/ early
                   /\ quit_ => Signalled

\* The functors of all threads are started in the order in which they were
\* pushed, each once, whatever batches doPendingFunctors cuts them into.
SE == INSTANCE SerialExecutor WITH queue <- functors \o pendingFunctors_,
                                   done <- executed
ImplementsSerialExecutor == SE!Spec

Running == pc # "stopped"

\* Coroutines do not reschedule for ever: processPendingResumes runs until
\* its queue is empty and never ends otherwise.
ResumesSettle == <>[][~ScheduleResume]_vars

\* A functor that is pushed while the loop runs is started or the loop
\* stops, and quit() from any thread makes it stop, both without the help of
\* epoll_wait's timeout.
PostsTakeEffect ==
    ResumesSettle =>
        /\ \A n \in 1..MaxPosts :
              (NextId > n /\ Running /\ ~early) ~>
                  (Len(executed) >= n \/ ~Running)
        /\ (quit_ /\ Running) ~> ~Running

\* A coroutine handed to scheduleResume, also by a functor of the pass that
\* follows processPendingResumes, is resumed or the loop stops; and so is a
\* functor that was pushed outside loop().  Both need the poll timeout.
ResumesRun ==
    PollTimesOut /\ ResumesSettle =>
        /\ (pendingCoroutines_ > 0 /\ Running) ~>
               (pendingCoroutines_ = 0 \/ ~Running)
        /\ (early /\ Running) ~> (pendingFunctors_ = <<>> \/ ~Running)

=============================================================================
