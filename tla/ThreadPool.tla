----------------------------- MODULE ThreadPool -----------------------------
(***************************************************************************)
(* base/ThreadPool.cc and base/ThreadPool.h: producers in run(), workers   *)
(* in runInThread() and the thread that calls stop().                      *)
(*                                                                         *)
(* What a thread does with mutex_ held is one step, except that a wait on  *)
(* a condition variable is two: the predicate is found false with the      *)
(* mutex held ("block"), and then the thread joins the waiters and the     *)
(* mutex is free ("wait").  stop() takes no mutex, so it can come between. *)
(*                                                                         *)
(* pc of a worker: none (not started), begin, loop, fill, block, wait,     *)
(* timeout, tasks, exit; of a producer: idle, run, block, wait.            *)
(* queueLength_ is never written, so maybeAdjust() never adds a thread and *)
(* queueSize() is always 0.                                                *)
(***************************************************************************)
EXTENDS Integers, Sequences, FiniteSets

CONSTANTS Workers, Producers, Tasks,
          Models,            \* what setModel may choose: "FIXED", "CACHE"
          Stops,             \* stop() may be called
          kMaxQueueSize, kMinBatchSize, kMaxBatchSize, minThreads_

Free == "free"   \* no thread has mutex_

ASSUME PoolAssumption ==
    /\ Models \subseteq {"FIXED", "CACHE"} /\ Stops \in BOOLEAN
    /\ Workers \cap Producers = {} /\ Free \notin Workers \cup Producers
    /\ Tasks = 1 .. Cardinality(Tasks)   \* in the order of run()
    /\ {kMaxQueueSize, kMinBatchSize, kMaxBatchSize} \subseteq Nat \ {0}
    /\ minThreads_ \in Nat

VARIABLES model_,              \* fixed before start()
          pc, running_, mutex_,
          queue_, batchSize_,
          cache,               \* ThreadLocalCache, the tasks from index on
          activeThreads_,
          notEmpty_, notFull_, \* the threads waiting on them
          notifying,           \* stop() has still to call notify_all
          task,                \* the task a producer is in run() with
          submitted, ran

conds == <<notEmpty_, notFull_>>
counts == <<submitted, ran>>
vars == <<model_, pc, running_, mutex_, queue_, batchSize_, cache,
          activeThreads_, conds, notifying, task, counts>>

Init ==
    /\ model_ \in Models
    /\ pc = [t \in Workers \cup Producers |->
                IF t \in Workers THEN "none" ELSE "idle"]
    /\ running_ = FALSE /\ mutex_ = Free
    /\ queue_ = <<>> /\ batchSize_ = kMinBatchSize
    /\ cache = [w \in Workers |-> <<>>]
    /\ activeThreads_ = 0
    /\ notEmpty_ = {} /\ notFull_ = {} /\ notifying = FALSE
    /\ task = [p \in Producers |-> <<>>]
    /\ submitted = {} /\ ran = [v \in Tasks |-> 0]

goto(t, place) == pc' = [pc EXCEPT ![t] = place]

\* threads_.empty().
NoThreads == \A w \in Workers : pc[w] = "none"

Start ==
    /\ NoThreads
    /\ running_' = TRUE
    /\ pc' = [t \in DOMAIN pc |-> IF t \in Workers THEN "begin" ELSE pc[t]]
    /\ UNCHANGED <<model_, mutex_, queue_, batchSize_, cache, activeThreads_,
                   conds, notifying, task, counts>>

\* notify_one on the waiters of S, which leaves the waiters T.
notifyOne(S, T) == T = S \/ \E t \in S : T = S \ {t}
woken(S, T) == notifyOne(S, T) /\ (S # {} => T # S)
-----------------------------------------------------------------------------
(* run().                                                                  *)

\* run() when there are no threads calls the task.
RunInline(v) ==
    /\ NoThreads /\ v = Cardinality(submitted) + 1
    /\ submitted' = submitted \cup {v}
    /\ ran' = [ran EXCEPT ![v] = @ + 1]
    /\ UNCHANGED <<model_, pc, running_, mutex_, queue_, batchSize_, cache,
                   activeThreads_, conds, notifying, task>>

Run(p, v) ==
    /\ ~NoThreads /\ pc[p] = "idle" /\ v = Cardinality(submitted) + 1
    /\ submitted' = submitted \cup {v}
    /\ task' = [task EXCEPT ![p] = <<v>>]
    /\ goto(p, "run")
    /\ UNCHANGED <<model_, running_, mutex_, queue_, batchSize_, cache,
                   activeThreads_, conds, notifying, ran>>

\* The predicate of notFull_.wait.
room == ~running_ \/ Len(queue_) < kMaxQueueSize

\* Mutant: run() does not notify.
notifyWorkerNever == UNCHANGED notEmpty_

\* notEmpty_.notify_one().
notifyWorker == woken(notEmpty_, notEmpty_')

\* The mutex is free and the predicate holds: the task is queued, or
\* dropped when the pool was stopped.
Push(p) ==
    /\ pc[p] = "run" /\ mutex_ = Free
    /\ room
    /\ IF running_ THEN queue_' = queue_ \o task[p] /\ notifyWorker
                   ELSE UNCHANGED <<queue_, notEmpty_>>
    /\ goto(p, "idle") /\ task' = [task EXCEPT ![p] = <<>>]
    /\ UNCHANGED <<model_, running_, mutex_, batchSize_, cache, activeThreads_,
                   notFull_, notifying, counts>>

\* The predicate does not hold ...
PushFull(p) ==
    /\ pc[p] = "run" /\ mutex_ = Free
    /\ ~room
    /\ mutex_' = p /\ goto(p, "block")
    /\ UNCHANGED <<model_, running_, queue_, batchSize_, cache,
                   activeThreads_, conds, notifying, task, counts>>

\* ... and the producer waits, until it is notified or wakes for no reason.
PushBlock(p) ==
    /\ pc[p] = "block"
    /\ mutex_' = Free /\ notFull_' = notFull_ \cup {p} /\ goto(p, "wait")
    /\ UNCHANGED <<model_, running_, queue_, batchSize_, cache, activeThreads_,
                   notEmpty_, notifying, task, counts>>

PushWake(p) ==
    /\ pc[p] = "wait"
    /\ notFull_' = notFull_ \ {p} /\ goto(p, "run")
    /\ UNCHANGED <<model_, running_, mutex_, queue_, batchSize_, cache,
                   activeThreads_, notEmpty_, notifying, task, counts>>
-----------------------------------------------------------------------------
(* runInThread() and fillLocalCache().                                     *)

Begin(w) ==
    /\ pc[w] = "begin"
    /\ activeThreads_' = activeThreads_ + 1
    /\ goto(w, "loop")
    /\ UNCHANGED <<model_, running_, mutex_, queue_, batchSize_, cache, conds,
                   notifying, task, counts>>

\* while (running_).
Loop(w) ==
    /\ pc[w] = "loop"
    /\ goto(w, IF running_ THEN "fill" ELSE "exit")
    /\ UNCHANGED <<model_, running_, mutex_, queue_, batchSize_, cache,
                   activeThreads_, conds, notifying, task, counts>>

\* The predicate of notEmpty_.wait and wait_for.
ready == ~running_ \/ queue_ # <<>>

\* The adaptive size of a batch.
min(a, b) == IF a < b THEN a ELSE b
max(a, b) == IF a > b THEN a ELSE b
adapted ==
    CASE Len(queue_) > batchSize_ * 2 -> min(batchSize_ * 2, kMaxBatchSize)
      [] Len(queue_) < batchSize_ \div 2 ->
            max(batchSize_ \div 2, kMinBatchSize)
      [] OTHER -> batchSize_

\* The queue without the batch of n tasks.
left(n) == SubSeq(queue_, n + 1, Len(queue_))

\* Mutant: producers are not notified.
lowWaterNever(q) == FALSE

\* Whether producers are notified, with q for the queue.
lowWater(q) == Len(q) < (kMaxQueueSize * 3) \div 4

TakeBatch(w) ==
    LET n == min(adapted, Len(queue_)) IN
    /\ batchSize_' = adapted
    /\ cache' = [cache EXCEPT ![w] = SubSeq(queue_, 1, n)]
    /\ queue_' = left(n)
    /\ IF queue_' # <<>> THEN woken(notEmpty_ \ {w}, notEmpty_')
                         ELSE notEmpty_' = notEmpty_ \ {w}
    /\ notFull_' = IF lowWater(queue_') THEN {} ELSE notFull_
    /\ goto(w, "tasks")

\* The queue is empty: exit, or in the CACHE model go round again.
TakeNone(w) ==
    /\ goto(w, IF ~running_ \/ activeThreads_ > minThreads_ THEN "exit"
                                                            ELSE "loop")
    /\ UNCHANGED <<queue_, batchSize_, cache, conds>>

\* The worker has the mutex and the wait is over.
Fill(w) ==
    /\ mutex_ = Free
    /\ \/ pc[w] = "fill" /\ ready
       \/ pc[w] = "timeout"
    /\ IF queue_ = <<>> THEN TakeNone(w) ELSE TakeBatch(w)
    /\ UNCHANGED <<model_, running_, mutex_, activeThreads_, notifying, task,
                   counts>>

\* The predicate does not hold ...
FillEmpty(w) ==
    /\ pc[w] = "fill" /\ mutex_ = Free
    /\ ~ready
    /\ mutex_' = w /\ goto(w, "block")
    /\ UNCHANGED <<model_, running_, queue_, batchSize_, cache,
                   activeThreads_, conds, notifying, task, counts>>

\* ... and the worker waits.
FillBlock(w) ==
    /\ pc[w] = "block"
    /\ mutex_' = Free /\ notEmpty_' = notEmpty_ \cup {w} /\ goto(w, "wait")
    /\ UNCHANGED <<model_, running_, queue_, batchSize_, cache, activeThreads_,
                   notFull_, notifying, task, counts>>

FillWake(w) ==
    /\ pc[w] = "wait"
    /\ notEmpty_' = notEmpty_ \ {w} /\ goto(w, "fill")
    /\ UNCHANGED <<model_, running_, mutex_, queue_, batchSize_, cache,
                   activeThreads_, notFull_, notifying, task, counts>>

\* Mutant: a worker of the CACHE model waits without a timeout.
TimeoutNever(w) == FALSE /\ UNCHANGED vars

\* idleTimeout_ of wait_for, in the CACHE model.
Timeout(w) ==
    /\ model_ = "CACHE" /\ pc[w] = "wait"
    /\ notEmpty_' = notEmpty_ \ {w} /\ goto(w, "timeout")
    /\ UNCHANGED <<model_, running_, mutex_, queue_, batchSize_, cache,
                   activeThreads_, notFull_, notifying, task, counts>>

\* The tasks of the batch are called one after the other.
CallTask(w) ==
    /\ pc[w] = "tasks"
    /\ ran' = [ran EXCEPT ![Head(cache[w])] = @ + 1]
    /\ cache' = [cache EXCEPT ![w] = Tail(@)]
    /\ goto(w, IF Len(cache[w]) = 1 THEN "loop" ELSE "tasks")
    /\ UNCHANGED <<model_, running_, mutex_, queue_, batchSize_,
                   activeThreads_, conds, notifying, task, submitted>>
-----------------------------------------------------------------------------
(* stop(), which takes no mutex.                                           *)

Stop ==
    /\ Stops /\ running_
    /\ running_' = FALSE /\ notifying' = TRUE
    /\ UNCHANGED <<model_, pc, mutex_, queue_, batchSize_, cache,
                   activeThreads_, conds, task, counts>>

StopNotify ==
    /\ notifying
    /\ notifying' = FALSE /\ notEmpty_' = {}
    /\ UNCHANGED <<model_, pc, running_, mutex_, queue_, batchSize_, cache,
                   activeThreads_, notFull_, task, counts>>
-----------------------------------------------------------------------------
\* A notified thread, as opposed to one that wakes for no reason.
Notified(t) == t \notin notEmpty_ \cup notFull_

WorkerStep(w) == \/ Begin(w) \/ Loop(w) \/ Fill(w) \/ FillEmpty(w)
                 \/ FillBlock(w) \/ CallTask(w) \/ Timeout(w)
                 \/ Notified(w) /\ FillWake(w)
ProducerStep(p) == \/ Push(p) \/ PushFull(p) \/ PushBlock(p)
                   \/ Notified(p) /\ PushWake(p)

Next ==
    \/ Start \/ Stop \/ StopNotify
    \/ \E v \in Tasks : RunInline(v) \/ \E p \in Producers : Run(p, v)
    \/ \E w \in Workers : WorkerStep(w) \/ FillWake(w)
    \/ \E p \in Producers : ProducerStep(p) \/ PushWake(p)

Spec == Init /\ [][Next]_vars

\* Threads are scheduled and the mutex is not unfair forever.
FairSpec ==
    /\ Spec
    /\ WF_vars(StopNotify)
    /\ \A w \in Workers : SF_vars(WorkerStep(w))
    /\ \A p \in Producers : SF_vars(ProducerStep(p))
-----------------------------------------------------------------------------
(* Properties.                                                             *)

\* While the pool runs and has a task queued, a worker is on its way to it
\* unless all of them are busy: no notify_one of run() or fillLocalCache is
\* lost on sleeping workers.
WorkIsNoticed ==
    (running_ /\ queue_ # <<>> /\ notEmpty_ # {}) =>
        \E w \in Workers : \/ pc[w] \in {"begin", "loop", "fill", "timeout"}
                           \/ pc[w] = "wait" /\ w \notin notEmpty_

\* In the FIXED model, run() keeps its promise while the pool runs: a task
\* that is handed in is called exactly once, also when its producer has to
\* wait for room, of which it is told below three quarters only.
TasksRun ==
    \A v \in Tasks : (v \in submitted /\ running_ /\ model_ = "FIXED")
                        ~> ([](ran[v] = 1) \/ ~running_)

\* In the CACHE model, whose wait has a timeout, every worker returns after
\* stop(), so that its join() does.
StopJoins ==
    (notifying /\ model_ = "CACHE") ~> (\A w \in Workers : pc[w] = "exit")

=============================================================================
