------------------------------ MODULE MPMCQueue ------------------------------
(***************************************************************************)
(* base/MPMCQueue.h: the bounded lock-free queue (Vyukov).  A thread's     *)
(* record has the locals of enqueue and dequeue, and pc, the next access   *)
(* to shared memory:                                                       *)
(*   enqPos, deqPos    load enqueuePos_, dequeuePos_                       *)
(*   enqSeq, deqSeq    load cell->sequence and compare                     *)
(*   enqCas, deqCas    compare_exchange_weak of the cursor                 *)
(*   enqWrite, deqRead   the data of the cell that was claimed             *)
(*   enqPublish, deqRelease   store cell->sequence                         *)
(*   enqDone, deqDone  the result is in ok                                 *)
(* The loads and stores are acquire and release where the data depends on  *)
(* them, so steps are taken one at a time.  Cursors are 64 bits wide and   *)
(* do not come round in the life of a program: they are naturals here.     *)
(***************************************************************************)
EXTENDS Integers, Sequences

CONSTANTS Threads, Values, NoItem,
          Capacity,    \* a power of 2 in the source, for its mask
          Spurious,    \* compare_exchange_weak may fail for no reason; it
                       \* does not on x86-64
          MaxPos       \* bound: enqueues ever begun

ASSUME QueueAssumption ==
    /\ Capacity \in Nat \ {0} /\ MaxPos \in Nat
    /\ Spurious \in BOOLEAN /\ NoItem \notin Values

VARIABLES sequence, data,            \* buffer_
          enqueuePos_, dequeuePos_,
          th,                        \* the threads
          begun                      \* enqueues begun

queue == <<sequence, data, enqueuePos_, dequeuePos_>>
vars == <<queue, th, begun>>

Cells == 0 .. Capacity - 1
cell(pos) == pos % Capacity

Idle == [pc |-> "idle", pos |-> 0, item |-> NoItem, ok |-> FALSE]

Init ==
    /\ sequence = [i \in Cells |-> i]
    /\ data = [i \in Cells |-> NoItem]
    /\ enqueuePos_ = 0 /\ dequeuePos_ = 0
    /\ th = [t \in Threads |-> Idle]
    /\ begun = 0

at(t, pc) == th[t].pc = pc
goto(t, pc) == th' = [th EXCEPT ![t].pc = pc]
-----------------------------------------------------------------------------
(* enqueue.                                                                *)

\* A thread calls enqueue(v).
Enqueue(t, v) ==
    /\ begun < MaxPos /\ begun' = begun + 1
    /\ th' = [th EXCEPT ![t] = [Idle EXCEPT !.pc = "enqPos", !.item = v]]
    /\ UNCHANGED queue

EnqPos(t) ==
    /\ at(t, "enqPos")
    /\ th' = [th EXCEPT ![t].pos = enqueuePos_, ![t].pc = "enqSeq"]
    /\ UNCHANGED <<queue, begun>>

\* Mutant: a cell that is still filled is taken for a free one.
enqDiffIgnoresFull(pos) == IF sequence[cell(pos)] > pos THEN 1 ELSE 0

\* diff, in enqueue.
enqDiff(pos) == sequence[cell(pos)] - pos

EnqSeq(t) ==
    /\ at(t, "enqSeq")
    /\ LET diff == enqDiff(th[t].pos) IN
          CASE diff = 0 -> goto(t, "enqCas")
            [] diff < 0 -> goto(t, "enqDone")
            [] diff > 0 -> goto(t, "enqPos")
    /\ UNCHANGED <<queue, begun>>

\* Mutant: the cursor is moved without a comparison.
EnqCasStore(t) ==
    /\ at(t, "enqCas")
    /\ enqueuePos_' = th[t].pos + 1
    /\ goto(t, "enqWrite")
    /\ UNCHANGED <<sequence, data, dequeuePos_, begun>>

EnqCas(t) ==
    /\ at(t, "enqCas")
    /\ \/ /\ enqueuePos_ = th[t].pos
          /\ enqueuePos_' = enqueuePos_ + 1
          /\ goto(t, "enqWrite")
       \/ /\ Spurious \/ enqueuePos_ # th[t].pos
          /\ th' = [th EXCEPT ![t].pos = enqueuePos_, ![t].pc = "enqSeq"]
          /\ UNCHANGED enqueuePos_
    /\ UNCHANGED <<sequence, data, dequeuePos_, begun>>

EnqWrite(t) ==
    /\ at(t, "enqWrite")
    /\ data' = [data EXCEPT ![cell(th[t].pos)] = th[t].item]
    /\ goto(t, "enqPublish")
    /\ UNCHANGED <<sequence, enqueuePos_, dequeuePos_, begun>>

EnqPublish(t) ==
    /\ at(t, "enqPublish")
    /\ sequence' = [sequence EXCEPT ![cell(th[t].pos)] = th[t].pos + 1]
    /\ th' = [th EXCEPT ![t].pc = "enqDone", ![t].ok = TRUE,
                        ![t].item = NoItem]
    /\ UNCHANGED <<data, enqueuePos_, dequeuePos_, begun>>
-----------------------------------------------------------------------------
(* dequeue.                                                                *)

\* A thread calls dequeue(out).
Dequeue(t) ==
    /\ th' = [th EXCEPT ![t] = [Idle EXCEPT !.pc = "deqPos"]]
    /\ UNCHANGED <<queue, begun>>

DeqPos(t) ==
    /\ at(t, "deqPos")
    /\ th' = [th EXCEPT ![t].pos = dequeuePos_, ![t].pc = "deqSeq"]
    /\ UNCHANGED <<queue, begun>>

\* diff, in dequeue.
deqDiff(pos) == sequence[cell(pos)] - (pos + 1)

DeqSeq(t) ==
    /\ at(t, "deqSeq")
    /\ LET diff == deqDiff(th[t].pos) IN
          CASE diff = 0 -> goto(t, "deqCas")
            [] diff < 0 -> goto(t, "deqDone")
            [] diff > 0 -> goto(t, "deqPos")
    /\ UNCHANGED <<queue, begun>>

DeqCas(t) ==
    /\ at(t, "deqCas")
    /\ \/ /\ dequeuePos_ = th[t].pos
          /\ dequeuePos_' = dequeuePos_ + 1
          /\ goto(t, "deqRead")
       \/ /\ Spurious \/ dequeuePos_ # th[t].pos
          /\ th' = [th EXCEPT ![t].pos = dequeuePos_, ![t].pc = "deqSeq"]
          /\ UNCHANGED dequeuePos_
    /\ UNCHANGED <<sequence, data, enqueuePos_, begun>>

\* out = std::move(cell->data).
DeqRead(t) ==
    /\ at(t, "deqRead")
    /\ th' = [th EXCEPT ![t].item = data[cell(th[t].pos)],
                        ![t].pc = "deqRelease"]
    /\ data' = [data EXCEPT ![cell(th[t].pos)] = NoItem]
    /\ UNCHANGED <<sequence, enqueuePos_, dequeuePos_, begun>>

DeqRelease(t) ==
    /\ at(t, "deqRelease")
    /\ sequence' = [sequence EXCEPT ![cell(th[t].pos)] = th[t].pos + Capacity]
    /\ th' = [th EXCEPT ![t].pc = "deqDone", ![t].ok = TRUE]
    /\ UNCHANGED <<data, enqueuePos_, dequeuePos_, begun>>
-----------------------------------------------------------------------------
QueueStep(t) ==
    \/ EnqPos(t) \/ EnqSeq(t) \/ EnqCas(t) \/ EnqWrite(t) \/ EnqPublish(t)
    \/ DeqPos(t) \/ DeqSeq(t) \/ DeqCas(t) \/ DeqRead(t) \/ DeqRelease(t)

\* The caller has its result.
Return(t) ==
    /\ th[t].pc \in {"enqDone", "deqDone"}
    /\ th' = [th EXCEPT ![t] = Idle]
    /\ UNCHANGED <<queue, begun>>

Next == \E t \in Threads :
            \/ at(t, "idle") /\ \E v \in Values : Enqueue(t, v)
            \/ at(t, "idle") /\ Dequeue(t)
            \/ QueueStep(t)
            \/ Return(t)

Spec == Init /\ [][Next]_vars
-----------------------------------------------------------------------------
(* Properties.                                                             *)

Producing(t) == th[t].pc \in {"enqWrite", "enqPublish"}
Consuming(t) == th[t].pc \in {"deqRead", "deqRelease"}

\* Between its claim and its store of sequence a thread has its cell for
\* itself, and it is the cell of its position.
CellsAreOwned ==
    \A t, u \in Threads :
        /\ (t # u /\ (Producing(t) \/ Consuming(t))
                  /\ (Producing(u) \/ Consuming(u)))
              => cell(th[t].pos) # cell(th[u].pos)
        /\ Producing(t) => sequence[cell(th[t].pos)] = th[t].pos
        /\ Consuming(t) => sequence[cell(th[t].pos)] = th[t].pos + 1

\* The item at a position that was claimed by a producer: in its cell, or
\* still with the thread.
ItemAt(pos) ==
    IF sequence[cell(pos)] = pos + 1 THEN data[cell(pos)]
    ELSE LET t == CHOOSE u \in Threads : Producing(u) /\ th[u].pos = pos
         IN  th[t].item

Items == [i \in 1 .. enqueuePos_ - dequeuePos_ |-> ItemAt(dequeuePos_ + i - 1)]
Got == [t \in Threads |-> IF at(t, "deqRead") THEN data[cell(th[t].pos)]
                          ELSE IF th[t].pc \in {"deqRelease", "deqDone"}
                          THEN th[t].item ELSE NoItem]

Fifo == INSTANCE FifoQueue WITH items <- Items, got <- Got

\* The queue is a bounded FIFO queue: the order of the claims is the order
\* of the items, and none is lost, duplicated or overwritten.
ImplementsFifo == Fifo!Spec

=============================================================================
