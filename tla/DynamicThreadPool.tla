-------------------------- MODULE DynamicThreadPool --------------------------
(***************************************************************************)
(* base/DynamicThreadPool.h: producers in submit(), detached workers in    *)
(* workerLoop() and the thread in ~DynamicThreadPool.  What is done with   *)
(* queueMutex_ held is one step.  (The header names config_.minThreads_,   *)
(* which Config does not have: minThreads is meant.)                       *)
(*                                                                         *)
(* Time is left open: the average wait, the cool-downs and the timeout of  *)
(* wait_for may be short or over at any time.  Only a thread's idle time   *)
(* has a history, its last task: idle[w] says that it reached idleTimeout. *)
(*                                                                         *)
(* pc of a worker: none, take (at the lock), wait, woken, task, shrink,    *)
(* exit; of a producer: idle, notify, expand.  dtor: the destructor's      *)
(* place, or "no" before it and "done" after.                              *)
(***************************************************************************)
EXTENDS Integers, Sequences, FiniteSets

CONSTANTS Workers, Producers, Tasks,
          minThreads, maxThreads, initialThreads,
          SizeMax    \* the modulus of size_t

ASSUME ConfigAssumption ==
    /\ {minThreads, maxThreads, initialThreads, SizeMax} \subseteq Nat
    /\ minThreads <= initialThreads /\ initialThreads <= maxThreads
    /\ maxThreads < SizeMax
    /\ Workers \cap Producers = {}
    /\ Tasks = 1 .. Cardinality(Tasks)   \* in the order of submit()

VARIABLES pc, tasks_, threads_, stop_,
          waiting,    \* the threads waiting on cv_
          idle, taken,
          shrunk,     \* how often tryShrink decremented threads_
          dtor, submitted, ran

vars == <<pc, tasks_, threads_, stop_, waiting, idle, taken, shrunk, dtor,
          submitted, ran>>

goto(t, place) == pc' = [pc EXCEPT ![t] = place]

\* Mutant: a thread that leaves is still counted.
decrementedNever == threads_

\* threads_--, of a size_t.
decremented == (threads_ + SizeMax - 1) % SizeMax

Live == {w \in Workers : pc[w] \notin {"none", "exit"}}

\* The constructor's resize(initialThreads).
Init ==
    /\ \E S \in SUBSET Workers :
          /\ IsFiniteSet(S) /\ Cardinality(S) = initialThreads
          /\ pc = [t \in Workers \cup Producers |->
                      CASE t \in S -> "take" [] t \in Producers -> "idle"
                        [] OTHER -> "none"]
    /\ tasks_ = <<>> /\ threads_ = initialThreads /\ stop_ = FALSE
    /\ waiting = {}
    /\ idle = [w \in Workers |-> FALSE]
    /\ taken = [t \in Workers \cup Producers |-> <<>>]
    /\ shrunk = 0 /\ dtor = "no"
    /\ submitted = {} /\ ran = [v \in Tasks |-> 0]
-----------------------------------------------------------------------------
(* submit().                                                               *)

Submit(p, v) ==
    /\ pc[p] = "idle" /\ v = Cardinality(submitted) + 1
    /\ dtor = "no"
    /\ submitted' = submitted \cup {v}
    /\ tasks_' = Append(tasks_, v)
    /\ goto(p, "notify")
    /\ UNCHANGED <<threads_, stop_, waiting, idle, taken, shrunk, dtor, ran>>

\* cv_.notify_one().
Notify(p) ==
    /\ pc[p] = "notify"
    /\ IF waiting = {} THEN UNCHANGED waiting
                       ELSE \E w \in waiting : waiting' = waiting \ {w}
    /\ goto(p, "expand")
    /\ UNCHANGED <<tasks_, threads_, stop_, idle, taken, shrunk, dtor,
                   submitted, ran>>

\* The conditions of tryExpand that do not depend on time.
mayExpand == threads_ < maxThreads /\ Len(tasks_) > threads_ * 2

\* tryExpand, and spawnOne when its conditions hold.
TryExpand(p) ==
    /\ pc[p] = "expand"
    /\ \/ /\ goto(p, "idle")
          /\ UNCHANGED threads_
       \/ /\ mayExpand
          /\ \E w \in Workers :
                /\ pc[w] = "none"
                /\ pc' = [pc EXCEPT ![p] = "idle", ![w] = "take"]
          /\ threads_' = threads_ + 1
    /\ UNCHANGED <<tasks_, stop_, waiting, idle, taken, shrunk, dtor,
                   submitted, ran>>
-----------------------------------------------------------------------------
(* workerLoop().                                                           *)

\* tasks_.pop_front().
popFront == Tail(tasks_)

takeFront(w) ==
    /\ taken' = [taken EXCEPT ![w] = <<Head(tasks_)>>]
    /\ tasks_' = popFront
    /\ goto(w, "task")

\* The worker takes the first task, or waits, also when it is to stop.
Take(w) ==
    /\ pc[w] = "take"
    /\ IF tasks_ = <<>> \/ stop_
       THEN /\ waiting' = waiting \cup {w} /\ goto(w, "wait")
            /\ UNCHANGED <<tasks_, taken>>
       ELSE takeFront(w) /\ UNCHANGED waiting
    /\ UNCHANGED <<threads_, stop_, idle, shrunk, dtor, submitted, ran>>

\* wait_for returns: notified, after its timeout or for no reason.
Wake(w) ==
    /\ pc[w] = "wait"
    /\ waiting' = waiting \ {w} /\ goto(w, "woken")
    /\ UNCHANGED <<tasks_, threads_, stop_, idle, taken, shrunk, dtor,
                   submitted, ran>>

\* Mutant: a worker leaves as soon as it is told to stop.
mayLeaveEarly(w) == stop_

\* The two ways out of workerLoop.
mayLeave(w) ==
    \/ stop_ /\ tasks_ = <<>>
    \/ ~stop_ /\ tasks_ = <<>> /\ threads_ > minThreads /\ idle[w]

\* The rest of the step that waited.
Woken(w) ==
    /\ pc[w] = "woken"
    /\ CASE mayLeave(w) -> /\ threads_' = decremented /\ goto(w, "exit")
                           /\ UNCHANGED <<tasks_, taken>>
         [] ~mayLeave(w) /\ tasks_ # <<>> -> takeFront(w) /\ UNCHANGED threads_
         [] ~mayLeave(w) /\ tasks_ = <<>> ->
                goto(w, "shrink") /\ UNCHANGED <<threads_, tasks_, taken>>
    /\ UNCHANGED <<stop_, waiting, idle, shrunk, dtor, submitted, ran>>

CallTask(w) ==
    /\ pc[w] = "task"
    /\ ran' = [ran EXCEPT ![Head(taken[w])] = @ + 1]
    /\ taken' = [taken EXCEPT ![w] = <<>>]
    /\ idle' = [idle EXCEPT ![w] = FALSE]
    /\ goto(w, "shrink")
    /\ UNCHANGED <<tasks_, threads_, stop_, waiting, shrunk, dtor, submitted>>

\* tryShrink: the thread counts itself out and goes on.
TryShrink(w) ==
    /\ pc[w] = "shrink"
    /\ \/ UNCHANGED <<threads_, shrunk>>
       \/ /\ threads_ > minThreads /\ Len(tasks_) <= threads_ \div 2 /\ idle[w]
          /\ threads_' = decremented /\ shrunk' = shrunk + 1
    /\ goto(w, "take")
    /\ UNCHANGED <<tasks_, stop_, waiting, idle, taken, dtor, submitted, ran>>

\* Time passes: the worker's last task is idleTimeout ago.
BecomesIdle(w) ==
    /\ w \in Live /\ ~idle[w] /\ pc[w] # "task"
    /\ idle' = [idle EXCEPT ![w] = TRUE]
    /\ UNCHANGED <<pc, tasks_, threads_, stop_, waiting, taken, shrunk, dtor,
                   submitted, ran>>
-----------------------------------------------------------------------------
(* stopAll().                                                              *)

\* The owner destroys the pool when its producers are done with it.
StopAll ==
    /\ dtor = "no" /\ \A p \in Producers : pc[p] = "idle"
    /\ stop_' = TRUE /\ dtor' = "notify"
    /\ UNCHANGED <<pc, tasks_, threads_, waiting, idle, taken, shrunk,
                   submitted, ran>>

StopNotify ==
    /\ dtor = "notify"
    /\ waiting' = {} /\ dtor' = "poll"
    /\ UNCHANGED <<pc, tasks_, threads_, stop_, idle, taken, shrunk, submitted,
                   ran>>

\* The condition stopAll polls for.
allLeft == threads_ = 0

StopPoll ==
    /\ dtor = "poll" /\ allLeft
    /\ dtor' = "done"
    /\ UNCHANGED <<pc, tasks_, threads_, stop_, waiting, idle, taken, shrunk,
                   submitted, ran>>
-----------------------------------------------------------------------------
WorkerStep(w) == Take(w) \/ Wake(w) \/ Woken(w) \/ CallTask(w) \/ TryShrink(w)

Next ==
    \/ StopAll \/ StopNotify \/ StopPoll
    \/ \E p \in Producers : \/ Notify(p) \/ TryExpand(p)
                            \/ \E v \in Tasks : Submit(p, v)
    \/ \E w \in Workers : WorkerStep(w) \/ BecomesIdle(w)

Spec == Init /\ [][Next]_vars

\* Threads are scheduled, and a wait_for that is not notified times out.
FairSpec ==
    /\ Spec
    /\ WF_vars(StopNotify) /\ WF_vars(StopPoll)
    /\ \A p \in Producers : WF_vars(Notify(p)) /\ WF_vars(TryExpand(p))
    /\ \A w \in Workers : WF_vars(WorkerStep(w))
-----------------------------------------------------------------------------
(* Properties.                                                             *)

\* Before stopAll() threads_ stays within the limits of :188-189, and it never
\* counts a worker that has left: tryExpand, tryShrink and the two exits of
\* workerLoop may race, and minThreads workers are always there.
ThreadLimits ==
    ~stop_ => /\ minThreads <= threads_ /\ threads_ <= maxThreads
              /\ threads_ <= Cardinality(Live)

\* What DynamicThreadPool.h:462 says of threads_, the current number of
\* threads.  It is false: :427-429 has the thread that passed tryShrink leave,
\* and the code has it go on, counted out.
CountIsExact == ~stop_ => threads_ = Cardinality(Live)

\* stopAll returns, as long as tryShrink counted no thread out.
DtorReturns == (dtor = "notify") ~> (dtor = "done" \/ shrunk > 0)

\* Every task that was submitted is called exactly once, whether the pool is
\* stopped or not: workerLoop drains the queue before it leaves.
TasksRun == \A v \in Tasks : (v \in submitted) ~> [](ran[v] = 1)

=============================================================================
