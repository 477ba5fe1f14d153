-------------------------- MODULE LockFreeThreadPool -------------------------
(***************************************************************************)
(* base/LockFreeThreadPool.h: producers that call run(), workers in        *)
(* runInThread() and the thread that calls stop(), over the steps of the   *)
(* queue (module MPMCQueue).  Further values of pc:                        *)
(*   prodSlot    in slotsSem_.acquire()       prodTest   at the second     *)
(*   workLoop    at while (running_)                     test of running_  *)
(*   workItem    in itemsSem_.acquire()       workTest   at the test after *)
(*   workTask    in task()                    workExit   returned          *)
(* enqDone and deqDone are the places after the calls of the queue.  An    *)
(* enqueue that fails goes on as a build with NDEBUG does.                 *)
(***************************************************************************)
EXTENDS MPMCQueue, FiniteSets

CONSTANTS Producers, Workers,
          Stops     \* stop() may be called

\* Tasks are numbered in the order in which run() is called with them.
ASSUME PoolAssumption ==
    /\ Threads = Producers \cup Workers /\ Stops \in BOOLEAN
    /\ Values = 1 .. Cardinality(Values)

VARIABLES running_,
          slotsSem_, itemsSem_,   \* the counts of the semaphores
          release,                \* release() calls stop() still makes
          submitted,              \* tasks run() was called with
          ran                     \* how often each task was called

sems == <<slotsSem_, itemsSem_>>
pool == <<running_, sems, release, submitted, ran>>
poolVars == <<vars, pool>>

\* start() has been called: its threads are at the top of their loop.
PoolInit ==
    /\ sequence = [i \in Cells |-> i]
    /\ data = [i \in Cells |-> NoItem]
    /\ enqueuePos_ = 0 /\ dequeuePos_ = 0 /\ begun = 0
    /\ th = [t \in Threads |-> IF t \in Workers
                               THEN [Idle EXCEPT !.pc = "workLoop"] ELSE Idle]
    /\ running_ = TRUE
    /\ slotsSem_ = Capacity /\ itemsSem_ = 0 /\ release = 0
    /\ submitted = {}
    /\ ran = [v \in Values |-> 0]
-----------------------------------------------------------------------------
(* run().                                                                  *)

\* run() is called with a task.  A producer sees running_ for the first time.
Run(t, v) ==
    /\ at(t, "idle")
    /\ v = Cardinality(submitted) + 1
    /\ running_
    /\ submitted' = submitted \cup {v}
    /\ th' = [th EXCEPT ![t] = [Idle EXCEPT !.pc = "prodSlot", !.item = v]]
    /\ UNCHANGED <<queue, begun, running_, sems, release, ran>>

\* slotsSem_.acquire().
AcquireSlot(t) ==
    /\ at(t, "prodSlot")
    /\ slotsSem_ > 0
    /\ slotsSem_' = slotsSem_ - 1
    /\ goto(t, "prodTest")
    /\ UNCHANGED <<queue, begun, running_, itemsSem_, release, submitted, ran>>

\* The second test of running_: the task is refused, or enqueued.
ProdTest(t) ==
    /\ at(t, "prodTest")
    /\ IF running_ THEN Enqueue(t, th[t].item)
                   ELSE /\ th' = [th EXCEPT ![t] = Idle]
                        /\ UNCHANGED <<queue, begun>>
    /\ UNCHANGED pool

\* itemsSem_.release().
notify == itemsSem_' = itemsSem_ + 1

RunReturns(t) ==
    /\ at(t, "enqDone")
    /\ notify
    /\ th' = [th EXCEPT ![t] = Idle]
    /\ UNCHANGED <<queue, begun, running_, slotsSem_, release, submitted, ran>>
-----------------------------------------------------------------------------
(* runInThread().                                                          *)

WorkLoop(t) ==
    /\ at(t, "workLoop")
    /\ goto(t, IF running_ THEN "workItem" ELSE "workExit")
    /\ UNCHANGED <<queue, begun, pool>>

AcquireItem(t) ==
    /\ at(t, "workItem")
    /\ itemsSem_ > 0
    /\ itemsSem_' = itemsSem_ - 1
    /\ goto(t, "workTest")
    /\ UNCHANGED <<queue, begun, running_, slotsSem_, release, submitted, ran>>

WorkTest(t) ==
    /\ at(t, "workTest")
    /\ IF running_ THEN Dequeue(t)
                   ELSE goto(t, "workExit") /\ UNCHANGED <<queue, begun>>
    /\ UNCHANGED pool

\* After dequeue: the slot is given back, or the worker waits again.
ReleaseSlot(t) ==
    /\ at(t, "deqDone")
    /\ IF th[t].ok THEN goto(t, "workTask") /\ slotsSem_' = slotsSem_ + 1
                   ELSE goto(t, "workLoop") /\ UNCHANGED slotsSem_
    /\ UNCHANGED <<queue, begun, running_, itemsSem_, release, submitted, ran>>

\* task().
WorkTask(t) ==
    /\ at(t, "workTask")
    /\ ran' = [ran EXCEPT ![th[t].item] = @ + 1]
    /\ th' = [th EXCEPT ![t] = [Idle EXCEPT !.pc = "workLoop"]]
    /\ UNCHANGED <<queue, begun, running_, sems, release, submitted>>
-----------------------------------------------------------------------------
(* stop().                                                                 *)

\* Mutant: one worker is not woken.
wakeUpsOneLess == Cardinality(Workers) - 1

\* numThreads_.
wakeUps == Cardinality(Workers)

Stop ==
    /\ Stops /\ running_
    /\ running_' = FALSE
    /\ release' = wakeUps
    /\ UNCHANGED <<queue, begun, th, sems, submitted, ran>>

StopReleases ==
    /\ release > 0
    /\ release' = release - 1
    /\ itemsSem_' = itemsSem_ + 1
    /\ UNCHANGED <<queue, begun, th, running_, slotsSem_, submitted, ran>>
-----------------------------------------------------------------------------
PoolStep(t) ==
    \/ AcquireSlot(t) \/ ProdTest(t) \/ RunReturns(t)
    \/ WorkLoop(t) \/ AcquireItem(t) \/ WorkTest(t) \/ ReleaseSlot(t)
    \/ WorkTask(t)
    \/ QueueStep(t) /\ UNCHANGED pool

PoolNext ==
    \/ \E t \in Producers, v \in Values : Run(t, v)
    \/ \E t \in Threads : PoolStep(t)
    \/ Stop \/ StopReleases

PoolSpec == PoolInit /\ [][PoolNext]_poolVars

\* Threads are scheduled, and a worker that waits for a semaphore that is
\* released again and again gets it.
PoolFairSpec ==
    /\ PoolSpec
    /\ WF_poolVars(StopReleases)
    /\ \A t \in Workers : SF_poolVars(PoolStep(t))
    /\ \A t \in Producers : WF_poolVars(PoolStep(t))
-----------------------------------------------------------------------------
(* Properties.                                                             *)

\* LockFreeThreadPool.h:113: "false wakeup: dequeue fails (possible under
\* extreme races), go on with the loop": a failed dequeue loses nothing, a
\* task that was submitted to a running pool is called.
TasksRun == \A v \in Values : (v \in submitted) ~> (ran[v] = 1)

\* After stop() every worker returns, so that its join() does.
StopJoins == (~running_) ~> (\A t \in Workers : at(t, "workExit"))

=============================================================================
