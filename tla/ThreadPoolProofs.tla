-------------------------- MODULE ThreadPoolProofs --------------------------
(***************************************************************************)
(* ThreadPool, for every number of workers and producers, both models and  *)
(* every size of the queue and of a batch: no notification is lost on      *)
(* workers that sleep while a task is queued.                              *)
(*                                                                         *)
(* WorkIsNoticed is not inductive: a worker that goes to sleep must do so  *)
(* on an empty queue.  It found the queue empty with mutex_ held and joins *)
(* the waiters before it gives mutex_ up, so the invariant has that a      *)
(* thread between the two has mutex_, and a worker an empty queue; it also *)
(* has that only workers that wait are notified.                           *)
(***************************************************************************)
EXTENDS ThreadPool, TLAPS

Threads == Workers \cup Producers
Places == {"none", "begin", "loop", "fill", "block", "wait", "timeout",
           "tasks", "exit", "idle", "run"}
Types == pc \in [Threads -> Places]

\* A thread that found its predicate false has mutex_ ...
Blocking == \A t \in Threads : pc[t] = "block" => mutex_ = t

\* ... and a worker an empty queue, since run() needs mutex_ to fill it.
Emptied == \A w \in Workers : pc[w] = "block" => queue_ = <<>>

\* notEmpty_ has workers that wait.
Sleeping == \A w \in notEmpty_ : w \in Workers /\ pc[w] = "wait"

IInv == Types /\ Blocking /\ Emptied /\ Sleeping /\ WorkIsNoticed
-----------------------------------------------------------------------------
\* No thread runs and nobody waits.
LEMMA InitNotices == Init => IInv
<1> SUFFICES ASSUME Init PROVE IInv
  OBVIOUS
<1>1. \A t \in Threads : pc[t] = IF t \in Workers THEN "none" ELSE "idle"
  BY DEF Init, Threads
<1>2. Types
  BY <1>1 DEF Init, Types, Threads, Places
<1> QED
  BY <1>1, <1>2
     DEF Init, IInv, Blocking, Emptied, Sleeping, WorkIsNoticed, Threads

\* What goto does.
LEMMA GotoIs ==
    ASSUME Types, NEW t \in Threads, NEW place \in Places, goto(t, place)
    PROVE  /\ Types' /\ pc'[t] = place
           /\ \A x \in Threads \ {t} : pc'[x] = pc[x]
BY DEF Types, goto

\* A step of one thread that does not block keeps all but WorkIsNoticed.
LEMMA MovesOn ==
    ASSUME IInv, NEW t \in Threads, pc'[t] # "block", Types',
           \A x \in Threads \ {t} : pc'[x] = pc[x],
           \/ UNCHANGED mutex_
           \/ mutex_ = t,
           \/ UNCHANGED queue_
           \/ mutex_ \notin Threads,
           notEmpty_' \subseteq notEmpty_ \ {t}
    PROVE  Blocking' /\ Emptied' /\ Sleeping'
<1>1. Blocking'
  BY DEF IInv, Blocking
<1>2. Emptied'
  BY DEF IInv, Blocking, Emptied, Threads
<1>3. Sleeping'
  BY DEF IInv, Sleeping, Threads
<1> QED  BY <1>1, <1>2, <1>3

\* notify_one takes a waiter that then comes.
LEMMA WokenComes ==
    ASSUME IInv, NEW w \in Threads, NEW S, S \subseteq notEmpty_ \ {w},
           woken(S, notEmpty_'), notEmpty_' # {},
           \A x \in Threads \ {w} : pc'[x] = pc[x]
    PROVE  WorkIsNoticed'
<1>1. PICK t \in S : notEmpty_' = S \ {t}
  BY DEF woken, notifyOne
<1>2. t \in Workers /\ t # w /\ pc[t] = "wait" /\ t \in Threads
  BY <1>1 DEF IInv, Sleeping, Threads
<1> QED  BY <1>1, <1>2 DEF WorkIsNoticed
-----------------------------------------------------------------------------
\* run().
LEMMA ProducerNotices ==
    ASSUME IInv, NEW p \in Producers,
           ProducerStep(p) \/ PushWake(p) \/ \E v \in Tasks : Run(p, v)
    PROVE  IInv'
<1>0. /\ p \in Threads /\ p \notin Workers /\ p \notin notEmpty_ /\ Types
      /\ Free \notin Threads
  BY PoolAssumption DEF IInv, Sleeping, Threads
<1>1. CASE \E v \in Tasks : Run(p, v)
  <2>1. /\ Types' /\ pc'[p] = "run" /\ UNCHANGED <<running_, mutex_, queue_>>
        /\ notEmpty_' = notEmpty_
        /\ \A x \in Threads \ {p} : pc'[x] = pc[x]
    BY <1>0, <1>1, GotoIs DEF Run, conds, Places
  <2>2. Blocking' /\ Emptied' /\ Sleeping'
    BY <1>0, <2>1, MovesOn
  <2>3. WorkIsNoticed'
    BY <1>0, <2>1 DEF IInv, WorkIsNoticed, Threads
  <2> QED  BY <2>1, <2>2, <2>3 DEF IInv
<1>2. CASE Push(p)
  <2>1. /\ Types' /\ pc'[p] = "idle" /\ UNCHANGED <<running_, mutex_>>
        /\ mutex_ \notin Threads
        /\ \A x \in Threads \ {p} : pc'[x] = pc[x]
    BY <1>0, <1>2, GotoIs DEF Push, Places
  <2>2. CASE running_
    <3>1. woken(notEmpty_, notEmpty_')
      BY <1>2, <2>2 DEF Push, notifyWorker
    <3>2. /\ notEmpty_' \subseteq notEmpty_ \ {p}
          /\ notEmpty_ \subseteq notEmpty_ \ {p}
      BY <1>0, <3>1 DEF woken, notifyOne
    <3>3. Blocking' /\ Emptied' /\ Sleeping'
      BY <1>0, <2>1, <3>2, MovesOn
    <3>4. WorkIsNoticed'
      <4>1. CASE notEmpty_' = {}
        BY <4>1 DEF WorkIsNoticed
      <4>2. CASE notEmpty_' # {}
        BY <1>0, <2>1, <3>1, <3>2, <4>2, WokenComes
      <4> QED  BY <4>1, <4>2
    <3> QED  BY <2>1, <3>3, <3>4 DEF IInv
  <2>3. CASE ~running_
    <3>1. UNCHANGED <<queue_, notEmpty_>>
      BY <1>2, <2>3 DEF Push
    <3>2. Blocking' /\ Emptied' /\ Sleeping'
      BY <1>0, <2>1, <3>1, MovesOn
    <3>3. WorkIsNoticed'
      BY <2>1, <2>3 DEF WorkIsNoticed
    <3> QED  BY <2>1, <3>2, <3>3 DEF IInv
  <2> QED  BY <2>2, <2>3
<1>3. CASE PushFull(p)
  <2>1. /\ Types' /\ pc'[p] = "block" /\ UNCHANGED <<running_, queue_>>
        /\ notEmpty_' = notEmpty_ /\ mutex_ \notin Threads /\ mutex_' = p
        /\ \A x \in Threads \ {p} : pc'[x] = pc[x]
    BY <1>0, <1>3, GotoIs DEF PushFull, conds, Places
  <2>2. Blocking' /\ Emptied' /\ Sleeping'
    BY <1>0, <2>1 DEF IInv, Blocking, Emptied, Sleeping, Threads
  <2>3. WorkIsNoticed'
    BY <1>0, <2>1 DEF IInv, WorkIsNoticed, Threads
  <2> QED  BY <2>1, <2>2, <2>3 DEF IInv
<1>4. CASE PushBlock(p) \/ PushWake(p)
  <2>1. /\ Types' /\ pc'[p] \in {"wait", "run"}
        /\ UNCHANGED <<running_, queue_>> /\ notEmpty_' = notEmpty_
        /\ \A x \in Threads \ {p} : pc'[x] = pc[x]
    BY <1>0, <1>4, GotoIs DEF PushBlock, PushWake, Places
  <2>2. UNCHANGED mutex_ \/ mutex_ = p
    BY <1>0, <1>4 DEF PushBlock, PushWake, IInv, Blocking
  <2>3. Blocking' /\ Emptied' /\ Sleeping'
    BY <1>0, <2>1, <2>2, MovesOn
  <2>4. WorkIsNoticed'
    BY <1>0, <2>1 DEF IInv, WorkIsNoticed, Threads
  <2> QED  BY <2>1, <2>3, <2>4 DEF IInv
<1> QED  BY <1>1, <1>2, <1>3, <1>4 DEF ProducerStep

\* A worker takes a batch and passes the notification on.
LEMMA TakeBatchNotices ==
    ASSUME IInv, NEW w \in Workers, TakeBatch(w), mutex_ = Free,
           UNCHANGED <<running_, mutex_>>, pc[w] # "wait"
    PROVE  IInv'
<1>0. w \in Threads /\ w \notin notEmpty_ /\ Types /\ mutex_ \notin Threads
  BY PoolAssumption DEF IInv, Sleeping, Threads
<1>1. /\ Types' /\ pc'[w] = "tasks"
      /\ \A x \in Threads \ {w} : pc'[x] = pc[x]
  BY <1>0, GotoIs DEF TakeBatch, Places
<1>2. IF queue_' # <<>> THEN woken(notEmpty_ \ {w}, notEmpty_')
                        ELSE notEmpty_' = notEmpty_ \ {w}
  BY DEF TakeBatch
<1>3. notEmpty_' \subseteq notEmpty_ \ {w}
  BY <1>2 DEF woken, notifyOne
<1>4. Blocking' /\ Emptied' /\ Sleeping'
  BY <1>0, <1>1, <1>3, MovesOn
<1>5. WorkIsNoticed'
  <2>1. CASE queue_' = <<>> \/ notEmpty_' = {}
    BY <2>1 DEF WorkIsNoticed
  <2>2. CASE queue_' # <<>> /\ notEmpty_' # {}
    BY <1>0, <1>1, <1>2, <2>2, WokenComes
  <2> QED  BY <2>1, <2>2
<1> QED  BY <1>1, <1>4, <1>5 DEF IInv

\* runInThread().
LEMMA WorkerNotices ==
    ASSUME IInv, NEW w \in Workers, WorkerStep(w) \/ FillWake(w)
    PROVE  IInv'
<1>0. w \in Threads /\ Types /\ Free \notin Threads
  BY PoolAssumption DEF IInv, Threads
<1>1. CASE Begin(w) \/ FillWake(w) \/ Timeout(w) \/ Loop(w)
  <2>1. /\ Types' /\ pc'[w] \in {"loop", "fill", "timeout", "exit"}
        /\ UNCHANGED <<running_, queue_, mutex_>>
        /\ pc'[w] = "exit" => ~running_
        /\ \A x \in Threads \ {w} : pc'[x] = pc[x]
    <3>1. CASE Loop(w)
      BY <1>0, <3>1, GotoIs DEF Loop, Places
    <3>2. CASE Begin(w) \/ FillWake(w) \/ Timeout(w)
      BY <1>0, <3>2, GotoIs DEF Begin, FillWake, Timeout, Places
    <3> QED  BY <1>1, <3>1, <3>2
  <2>2. notEmpty_' \subseteq notEmpty_ \ {w}
    BY <1>1 DEF Begin, FillWake, Timeout, Loop, conds, IInv, Sleeping
  <2>3. Blocking' /\ Emptied' /\ Sleeping'
    BY <1>0, <2>1, <2>2, MovesOn
  <2>4. WorkIsNoticed'
    BY <2>1 DEF WorkIsNoticed
  <2> QED  BY <2>1, <2>3, <2>4 DEF IInv
<1>2. CASE Fill(w)
  <2>1. CASE queue_ = <<>>
    <3>1. /\ Types' /\ pc'[w] \in {"loop", "exit"}
          /\ UNCHANGED <<running_, queue_, mutex_>> /\ notEmpty_' = notEmpty_
          /\ \A x \in Threads \ {w} : pc'[x] = pc[x]
      BY <1>0, <1>2, <2>1, GotoIs DEF Fill, TakeNone, conds, Places
    <3>2. w \notin notEmpty_
      BY <1>2 DEF Fill, IInv, Sleeping
    <3>3. Blocking' /\ Emptied' /\ Sleeping'
      BY <1>0, <3>1, <3>2, MovesOn
    <3> QED  BY <2>1, <3>1, <3>3 DEF IInv, WorkIsNoticed
  <2>2. CASE queue_ # <<>>
    BY <1>2, <2>2, TakeBatchNotices DEF Fill
  <2> QED  BY <2>1, <2>2
<1>3. CASE FillEmpty(w)
  <2>1. /\ Types' /\ pc'[w] = "block" /\ UNCHANGED <<running_, queue_>>
        /\ queue_ = <<>> /\ pc[w] = "fill"
        /\ notEmpty_' = notEmpty_ /\ mutex_ \notin Threads /\ mutex_' = w
        /\ \A x \in Threads \ {w} : pc'[x] = pc[x]
    BY <1>0, <1>3, GotoIs DEF FillEmpty, ready, conds, Places
  <2>2. Blocking' /\ Emptied' /\ Sleeping'
    BY <1>0, <2>1 DEF IInv, Blocking, Emptied, Sleeping, Threads
  <2>3. WorkIsNoticed'
    BY <2>1 DEF WorkIsNoticed
  <2> QED  BY <2>1, <2>2, <2>3 DEF IInv
<1>4. CASE FillBlock(w)
  <2>1. /\ Types' /\ pc'[w] = "wait" /\ UNCHANGED <<running_, queue_>>
        /\ queue_ = <<>> /\ mutex_ = w
        /\ notEmpty_' = notEmpty_ \cup {w} /\ mutex_' = Free
        /\ \A x \in Threads \ {w} : pc'[x] = pc[x]
    BY <1>0, <1>4, GotoIs DEF FillBlock, Places, IInv, Blocking, Emptied
  <2>2. Blocking' /\ Emptied' /\ Sleeping'
    BY <1>0, <2>1 DEF IInv, Blocking, Emptied, Sleeping, Threads
  <2>3. WorkIsNoticed'
    BY <2>1 DEF WorkIsNoticed
  <2> QED  BY <2>1, <2>2, <2>3 DEF IInv
<1>5. CASE CallTask(w)
  <2>1. /\ Types' /\ pc'[w] \in {"loop", "tasks"} /\ pc[w] = "tasks"
        /\ UNCHANGED <<running_, queue_, mutex_>> /\ notEmpty_' = notEmpty_
        /\ \A x \in Threads \ {w} : pc'[x] = pc[x]
    BY <1>0, <1>5, GotoIs DEF CallTask, conds, Places
  <2>2. w \notin notEmpty_
    BY <2>1 DEF IInv, Sleeping
  <2>3. Blocking' /\ Emptied' /\ Sleeping'
    BY <1>0, <2>1, <2>2, MovesOn
  <2>4. WorkIsNoticed'
    BY <1>0, <2>1 DEF IInv, WorkIsNoticed, Threads
  <2> QED  BY <2>1, <2>3, <2>4 DEF IInv
<1> QED  BY <1>1, <1>2, <1>3, <1>4, <1>5 DEF WorkerStep
-----------------------------------------------------------------------------
\* Every step keeps the invariant.
LEMMA StepNotices == IInv /\ [Next]_vars => IInv'
<1> SUFFICES ASSUME IInv, [Next]_vars PROVE IInv'
  OBVIOUS
<1>1. CASE Start
  <2>1. /\ Types' /\ UNCHANGED <<mutex_, queue_>> /\ notEmpty_' = notEmpty_
        /\ \A w \in Workers : pc'[w] = "begin"
        /\ \A p \in Producers : pc'[p] = pc[p]
    BY <1>1, PoolAssumption
       DEF Start, IInv, Types, Threads, Places, conds
  <2>2. notEmpty_ = {}
    BY <1>1 DEF Start, NoThreads, IInv, Sleeping
  <2>3. Blocking' /\ Emptied' /\ Sleeping'
    BY <2>1, <2>2 DEF IInv, Blocking, Emptied, Sleeping, Threads
  <2> QED  BY <2>1, <2>2, <2>3 DEF IInv, WorkIsNoticed
<1>2. CASE Stop \/ StopNotify
  BY <1>2 DEF Stop, StopNotify, conds, IInv, Types, Blocking, Emptied,
              Sleeping, WorkIsNoticed
<1>3. ASSUME NEW v \in Tasks, RunInline(v)
      PROVE  IInv'
  BY <1>3 DEF RunInline, conds, IInv, Types, Blocking, Emptied, Sleeping,
              WorkIsNoticed
<1>4. CASE UNCHANGED vars
  BY <1>4 DEF vars, conds, IInv, Types, Blocking, Emptied, Sleeping,
              WorkIsNoticed
<1> QED
  BY <1>1, <1>2, <1>3, <1>4, ProducerNotices, WorkerNotices DEF Next

\* While the pool runs and has a task queued, a worker is on its way to it or
\* all are busy: notify_one of run() and of fillLocalCache, and the wait they
\* race with, lose no wake-up, although stop() takes no mutex.
THEOREM QueuedWorkIsNoticed == Spec => []WorkIsNoticed
<1>1. IInv => WorkIsNoticed
  BY DEF IInv
<1> QED  BY <1>1, InitNotices, StepNotices, PTL DEF Spec

=============================================================================
