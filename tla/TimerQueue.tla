----------------------------- MODULE TimerQueue -----------------------------
(***************************************************************************)
(* net/TimerQueue.cpp, net/Timer.h, net/Timer.cpp and net/Timerld.h: the   *)
(* timers of one loop, the timerfd that wakes it and the Timer objects     *)
(* their addresses stand for.  An address is given out again once its      *)
(* object is deleted, as new does, so a TimerId is an address and the      *)
(* sequence number of the timer that was there.                            *)
(*                                                                         *)
(* handleRead is cut where it calls out: HandleRead takes the expired      *)
(* timers, RunTimer calls one of them and Reset is the rest.  What a       *)
(* callback calls, addTimer and cancel in the loop's thread, are steps     *)
(* between a RunTimer and the next one.  Other threads reach addTimerInLoop*)
(* and cancelInLoop through the loop's functors.                           *)
(***************************************************************************)
EXTENDS Integers, Sequences, FiniteSets, FiniteSetsExt

CONSTANTS Addrs,       \* addresses of Timer objects
          Threads,     \* threads other than the loop's
          Intervals,   \* the intervals asked for; 0 is a one-shot timer
          MaxTimers,   \* bound: Timer objects ever made
          MaxTime,     \* bound: the end of time
          MaxSteps     \* bound: how often the system clock is set

ASSUME TimerAssumption ==
    /\ Intervals \subseteq Nat
    /\ {MaxTimers, MaxTime, MaxSteps} \subseteq Nat

VARIABLES heap,                    \* the Timer at each address
          numCreated,              \* s_numCreated_
          timers_, activeTimers_, cancelingTimers_, callingExpiredTimers_,
          expired,                 \* the local vector of handleRead
          todo,                    \* the part of it not yet run
          timerfd,                 \* ticks to go; 0 readable, -1 disarmed
          reported,                \* epoll_wait has returned the timerfd
          now, steps,              \* the system clock, how often it was set
          queue,                   \* the loop's functors
          tpc,                     \* a thread that has queued its timer
          ids,                     \* the TimerIds given out
          over,                    \* timers that must not run any more
          late,                    \* those of them that did
          astray                   \* timers deleted by the cancel of another
                                   \* one's TimerId

clock == <<now, steps>>
sets == <<timers_, activeTimers_, cancelingTimers_>>
ghosts == <<over, late, astray>>
vars == <<heap, numCreated, sets, callingExpiredTimers_, expired, todo,
          timerfd, reported, clock, queue, tpc, ids, ghosts>>

Free == [sequence |-> -1]
Times == 1 .. MaxTime
idle == <<>>

Init ==
    /\ heap = [a \in Addrs |-> Free]
    /\ numCreated = 0
    /\ timers_ = {} /\ activeTimers_ = {} /\ cancelingTimers_ = {}
    /\ callingExpiredTimers_ = FALSE /\ expired = {} /\ todo = {}
    /\ timerfd = -1 /\ reported = FALSE
    /\ now = 1 /\ steps = 0
    /\ queue = <<>>
    /\ tpc = [t \in Threads |-> idle]
    /\ ids = {}
    /\ over = {} /\ late = {} /\ astray = {}

\* An Entry of timers_ and of expired, and its timer.
Entry(when, a) == <<when, a>>
When(e) == e[1]
TimerOf(h, e) == h[e[2]]
Key(h, e) == <<e[2], TimerOf(h, e).sequence>>

First(S) == Min({When(e) : e \in S})
-----------------------------------------------------------------------------
(* The timerfd.                                                            *)

\* resetTimerfd: howMuchTimeFromNow is never less than a tick (100 us).
resetTimerfd(when) == timerfd' = IF when - now < 1 THEN 1 ELSE when - now

\* Time passes.  The end of time is for the system clock only.
Tick ==
    /\ now' = IF now < MaxTime THEN now + 1 ELSE now
    /\ timerfd' = IF timerfd > 0 THEN timerfd - 1 ELSE timerfd
    /\ UNCHANGED <<heap, numCreated, sets, callingExpiredTimers_, expired,
                   todo, reported, steps, queue, tpc, ids, ghosts>>

\* The system clock is set.  The timerfd counts on CLOCK_MONOTONIC.
SetClock(t) ==
    /\ steps < MaxSteps
    /\ now' = t /\ steps' = steps + 1
    /\ UNCHANGED <<heap, numCreated, sets, callingExpiredTimers_, expired,
                   todo, timerfd, reported, queue, tpc, ids, ghosts>>

\* epoll_wait returns the timerfd.
Poll ==
    /\ ~callingExpiredTimers_ /\ ~reported
    /\ timerfd = 0
    /\ reported' = TRUE
    /\ UNCHANGED <<heap, numCreated, sets, callingExpiredTimers_, expired,
                   todo, timerfd, clock, queue, tpc, ids, ghosts>>
-----------------------------------------------------------------------------
(* Adding and cancelling, in the loop's thread.                            *)

\* Mutant: only the first of all timers arms the timerfd.
isChangeWhenEmpty(when) == timers_ = {}

\* What TimerQueue::insert returns.
isChange(when) == timers_ = {} \/ when < First(timers_)

\* TimerQueue::addTimerInLoop of the timer at a.
addTimerInLoop(a, timer) ==
    /\ timers_' = timers_ \cup {Entry(timer.expiration, a)}
    /\ activeTimers_' = activeTimers_ \cup {<<a, timer.sequence>>}
    /\ IF isChange(timer.expiration) THEN resetTimerfd(timer.expiration)
                                     ELSE UNCHANGED timerfd
    /\ UNCHANGED cancelingTimers_

\* Whether activeTimers_ holds the TimerId.
isActive(id) == <<id.timer, id.sequence>> \in activeTimers_

\* Mutant: a timer is not cancelled while it runs.
cancelRunningNever(id) ==
    /\ over' = over \cup {s \in {id.sequence} : \E e \in expired \ todo :
                              Key(heap, e) = <<id.timer, s>>}
    /\ UNCHANGED cancelingTimers_

\* cancelInLoop of a timer that is not active, during handleRead: the timer
\* is over once it has been run.
cancelRunning(id) ==
    /\ cancelingTimers_' = cancelingTimers_ \cup {<<id.timer, id.sequence>>}
    /\ over' = over \cup {s \in {id.sequence} : \E e \in expired \ todo :
                              Key(heap, e) = <<id.timer, s>>}

\* TimerQueue::cancelInLoop.
cancelInLoop(id) ==
    /\ IF isActive(id)
       THEN LET timer == heap[id.timer] IN
            /\ timers_' = timers_ \ {Entry(timer.expiration, id.timer)}
            /\ activeTimers_' = activeTimers_ \ {<<id.timer, timer.sequence>>}
            /\ heap' = [heap EXCEPT ![id.timer] = Free]
            /\ over' = over \cup {timer.sequence}
            /\ astray' = IF id.sequence = id.of
                         THEN astray \cup ({timer.sequence} \ {id.of})
                         ELSE astray
            /\ UNCHANGED cancelingTimers_
       ELSE /\ IF callingExpiredTimers_
               THEN cancelRunning(id)
               ELSE UNCHANGED <<cancelingTimers_, over>>
            /\ UNCHANGED <<timers_, activeTimers_, heap, astray>>
    /\ UNCHANGED <<timerfd, late>>

\* new Timer(cb, when, interval).
newTimer(when, interval) ==
    [sequence |-> numCreated, expiration |-> when, interval |-> interval]

makes(a, timer) ==
    /\ numCreated < MaxTimers
    /\ heap[a] = Free
    /\ heap' = [heap EXCEPT ![a] = timer]
    /\ numCreated' = numCreated + 1

\* The loop's thread is in code that may call the queue: not in handleRead
\* before its first callback.
InUserCode == callingExpiredTimers_ => todo # expired

\* addTimer and cancel in the loop's thread.
AddTimer(a, when, interval) ==
    LET timer == newTimer(when, interval) IN
    /\ InUserCode
    /\ makes(a, timer)
    /\ addTimerInLoop(a, timer)
    /\ ids' = ids \cup {[timer |-> a, sequence |-> timer.sequence,
                         of |-> timer.sequence]}
    /\ UNCHANGED <<callingExpiredTimers_, expired, todo, reported, clock,
                   queue, tpc, ghosts>>

Cancel(id) ==
    /\ InUserCode
    /\ cancelInLoop(id)
    /\ UNCHANGED <<numCreated, callingExpiredTimers_, expired, todo, reported,
                   clock, queue, tpc, ids>>
-----------------------------------------------------------------------------
(* Other threads.                                                          *)

\* addTimer in another thread: the timer is made and handed to the loop ...
QueueAdd(t, a, when, interval) ==
    /\ tpc[t] = idle
    /\ makes(a, newTimer(when, interval))
    /\ queue' = Append(queue, [kind |-> "add", timer |-> a])
    /\ tpc' = [tpc EXCEPT ![t] = <<a, numCreated>>]
    /\ UNCHANGED <<sets, callingExpiredTimers_, expired, todo, timerfd,
                   reported, clock, ids, ghosts>>

\* ... and then timer->sequence() is read for the TimerId, from whatever is
\* at the address by then.
QueueAddReturns(t) ==
    /\ tpc[t] # idle
    /\ \E s \in 0 .. numCreated :
          LET a == tpc[t][1] IN
          /\ heap[a] # Free => s = heap[a].sequence
          /\ ids' = ids \cup {[timer |-> a, sequence |-> s, of |-> tpc[t][2]]}
    /\ tpc' = [tpc EXCEPT ![t] = idle]
    /\ UNCHANGED <<heap, numCreated, sets, callingExpiredTimers_, expired,
                   todo, timerfd, reported, clock, queue, ghosts>>

\* cancel in another thread.  One such functor is queued at a time.
QueueCancel(t, id) ==
    /\ tpc[t] = idle
    /\ \A i \in DOMAIN queue : queue[i].kind # "cancel"
    /\ queue' = Append(queue, [kind |-> "cancel", id |-> id])
    /\ UNCHANGED <<heap, numCreated, sets, callingExpiredTimers_, expired,
                   todo, timerfd, reported, clock, tpc, ids, ghosts>>

\* The loop runs the first of its functors.
RunFunctor ==
    /\ ~callingExpiredTimers_
    /\ queue # <<>>
    /\ queue' = Tail(queue)
    /\ LET f == Head(queue) IN
          IF f.kind = "add"
          THEN addTimerInLoop(f.timer, heap[f.timer])
               /\ UNCHANGED <<heap, ghosts>>
          ELSE cancelInLoop(f.id)
    /\ UNCHANGED <<numCreated, callingExpiredTimers_, expired, todo, reported,
                   clock, tpc, ids>>
-----------------------------------------------------------------------------
(* Expiry.                                                                 *)

\* Mutant: expired timers stay active.
stillActiveAll(S) == activeTimers_

\* What getExpired leaves of activeTimers_ when it takes the entries of S.
stillActive(S) == activeTimers_ \ {Key(heap, e) : e \in S}

\* handleRead up to the first callback: readTimerfd and getExpired.
HandleRead ==
    LET S == {e \in timers_ : When(e) <= now} IN
    /\ reported /\ ~callingExpiredTimers_
    /\ timerfd' = IF timerfd = 0 THEN -1 ELSE timerfd
    /\ timers_' = timers_ \ S
    /\ activeTimers_' = stillActive(S)
    /\ cancelingTimers_' = {}
    /\ callingExpiredTimers_' = TRUE
    /\ expired' = S /\ todo' = S
    /\ UNCHANGED <<heap, numCreated, reported, clock, queue, tpc, ids, ghosts>>

\* cur->run() of the next entry, in the order of expiry.
RunTimer(e) ==
    /\ e \in todo /\ When(e) = First(todo)
    /\ todo' = todo \ {e}
    /\ LET timer == TimerOf(heap, e)
           n == timer.sequence
       IN  /\ late' = late \cup ({n} \cap over)
           /\ over' = IF \/ timer.interval = 0
                         \/ Key(heap, e) \in cancelingTimers_
                      THEN over \cup {n} ELSE over
    /\ UNCHANGED <<heap, numCreated, sets, callingExpiredTimers_, expired,
                   timerfd, reported, clock, queue, tpc, ids, astray>>

\* Mutant: the timerfd is not armed again.
rearmNever(T) == timerfd' = timerfd

\* The tail of TimerQueue::reset, with T for timers_.
rearm(T) == IF T # {} THEN resetTimerfd(First(T)) ELSE UNCHANGED timerfd

\* Timer::restart of a repeating timer, which counts from the last expiration
\* and not from now.
restart(timer) == [timer EXCEPT !.expiration = @ + timer.interval]

\* The rest of handleRead: TimerQueue::reset.
Reset ==
    /\ callingExpiredTimers_ /\ todo = {}
    /\ LET again == {e \in expired : TimerOf(heap, e).interval > 0
                                     /\ Key(heap, e) \notin cancelingTimers_}
           next(e) == restart(TimerOf(heap, e)).expiration
           dead == {e[2] : e \in expired \ again}
       IN  /\ timers_' = timers_ \cup {Entry(next(e), e[2]) : e \in again}
           /\ activeTimers_' = activeTimers_ \cup {Key(heap, e) : e \in again}
           /\ heap' = [a \in Addrs |->
                 IF a \in dead THEN Free
                 ELSE IF \E e \in again : e[2] = a
                 THEN restart(heap[a])
                 ELSE heap[a]]
    /\ rearm(timers_')
    /\ callingExpiredTimers_' = FALSE /\ expired' = {} /\ reported' = FALSE
    /\ UNCHANGED <<numCreated, cancelingTimers_, todo, clock, queue, tpc, ids,
                   ghosts>>
-----------------------------------------------------------------------------
Next ==
    \/ Tick \/ Poll \/ HandleRead \/ Reset \/ RunFunctor
    \/ \E t \in Times : SetClock(t)
    \/ \E e \in todo : RunTimer(e)
    \/ \E id \in ids : Cancel(id) \/ \E t \in Threads : QueueCancel(t, id)
    \/ \E a \in Addrs, when \in Times, i \in Intervals :
          AddTimer(a, when, i) \/ \E t \in Threads : QueueAdd(t, a, when, i)
    \/ \E t \in Threads : QueueAddReturns(t)

Spec == Init /\ [][Next]_vars

\* Time passes and the loop's thread runs.
FairSpec ==
    /\ Spec
    /\ WF_vars(Tick) /\ WF_vars(Poll) /\ WF_vars(HandleRead)
    /\ WF_vars(\E e \in todo : RunTimer(e)) /\ WF_vars(Reset)
-----------------------------------------------------------------------------
(* Properties.                                                             *)

Queued == {queue[i].timer : i \in {j \in DOMAIN queue : queue[j].kind = "add"}}

\* timers_ and activeTimers_ hold the same timers, each once, at the time
\* its object says; the timers being run are in neither; every object that
\* exists is in one of the three places, or is on its way to the loop, and
\* there is no entry for an object that was deleted.
TimersAgree ==
    /\ activeTimers_ = {Key(heap, e) : e \in timers_}
    /\ \A e \in timers_ \cup expired : /\ TimerOf(heap, e) # Free
                                       /\ TimerOf(heap, e).expiration = When(e)
    /\ LET kept == {e[2] : e \in timers_}
           held == {e[2] : e \in expired}
       IN  /\ kept \cap held = {} /\ Queued \cap (kept \cup held) = {}
           /\ {a \in Addrs : heap[a] # Free} = kept \cup held \cup Queued

\* The timerfd is armed (addTimerInLoop, reset) no later than the first timer
\* is due, or its report is about to be handled, as long as nobody sets the
\* clock.
ArmedForFirst ==
    timers_ # {} =>
        \/ reported
        \/ /\ timerfd >= 0
           /\ \A e \in timers_ :
                 steps > 0 \/ timerfd <= 1 \/ timerfd <= When(e) - now

\* A one-shot timer runs once and a cancelled timer does not run again; one
\* that a callback of its own batch cancels (cancelingTimers_) has at most
\* its turn in that batch and is not restarted.  And since the sequence
\* number of a TimerId keeps addresses that are used again apart
\* (cancelInLoop), a cancel deletes the timer its TimerId names, or none.
\* TimerIds that addTimer() gave another timer's number are left out.
CancelIsExact == late = {} /\ astray = {}

\* A timer due before the end of time is run or cancelled.
TimersFire ==
    \A a \in Addrs, t \in Times :
        (Entry(t, a) \in timers_) ~> (Entry(t, a) \notin timers_)

=============================================================================
