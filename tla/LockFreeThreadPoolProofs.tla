---------------------- MODULE LockFreeThreadPoolProofs -----------------------
(***************************************************************************)
(* MPMCQueue and the LockFreeThreadPool around it, for any threads, tasks  *)
(* and bounds and every capacity of at least 2: a claimed cell has one     *)
(* owner, and the queue is a bounded FIFO queue.  A capacity of 1, which   *)
(* the static_assert of MPMCQueue.h:17 lets pass, is different: there the  *)
(* sequence of a filled cell is that of the next free one.                 *)
(*                                                                         *)
(* The invariant speaks about positions and not about cells.  The Capacity *)
(* positions from dequeuePos_ on have one cell each; those below           *)
(* enqueuePos_ are filled or being filled, the others are free or being    *)
(* emptied.                                                                *)
(***************************************************************************)
EXTENDS LockFreeThreadPool, SequenceTheorems, TLAPS

Item == Values \cup {NoItem}
Places == {"idle", "enqPos", "enqSeq", "enqCas", "enqWrite", "enqPublish",
           "enqDone", "deqPos", "deqSeq", "deqCas", "deqRead", "deqRelease",
           "deqDone", "prodSlot", "prodTest", "workLoop", "workItem",
           "workTest", "workTask", "workExit"}
ThreadRecord == [pc : Places, pos : Nat, item : Item, ok : BOOLEAN]

Types ==
    /\ sequence \in [Cells -> Nat] /\ data \in [Cells -> Item]
    /\ enqueuePos_ \in Nat /\ dequeuePos_ \in Nat
    /\ th \in [Threads -> ThreadRecord]

Window == /\ dequeuePos_ <= enqueuePos_
          /\ enqueuePos_ <= dequeuePos_ + Capacity

\* A position in the queue is published, or its producer is at work.
Filled ==
    \A p \in dequeuePos_ .. enqueuePos_ - 1 :
        \/ sequence[cell(p)] = p + 1 /\ data[cell(p)] \in Values
        \/ /\ sequence[cell(p)] = p
           /\ \E t \in Threads : Producing(t) /\ th[t].pos = p

\* The position after it in the same cell is free, or its consumer is at
\* work.
Vacant ==
    \A p \in enqueuePos_ .. dequeuePos_ + Capacity - 1 :
        sequence[cell(p)] \in {p, p - Capacity + 1}

\* What a thread knows at its place in enqueue or dequeue.
Knows(t) ==
    LET pc == th[t].pc
        pos == th[t].pos
        item == th[t].item
        seq == sequence[cell(pos)]
    IN  /\ pc \in {"prodSlot", "prodTest", "enqPos"} => item \in Values
        /\ pc = "enqSeq" => item \in Values /\ pos <= enqueuePos_
        /\ pc = "enqCas" => /\ item \in Values /\ pos <= enqueuePos_
                            /\ pos = enqueuePos_ => seq = pos
        /\ Producing(t) => /\ dequeuePos_ <= pos /\ pos < enqueuePos_
                           /\ seq = pos /\ item \in Values
        /\ pc = "enqPublish" => data[cell(pos)] = item
        /\ pc \in {"deqPos", "deqSeq", "deqCas"} => item = NoItem /\ ~th[t].ok
        /\ pc \in {"deqSeq", "deqCas"} => pos <= dequeuePos_
        /\ pc = "deqCas" /\ pos = dequeuePos_ => seq = pos + 1
        /\ Consuming(t) => /\ pos < dequeuePos_
                           /\ enqueuePos_ <= pos + Capacity
                           /\ seq = pos + 1
        /\ pc = "deqRead" => data[cell(pos)] \in Values
        /\ pc = "deqRelease" => item \in Values
        /\ pc = "deqDone" => IF th[t].ok THEN item \in Values ELSE item = NoItem

\* No two threads have claimed the same position for the same use.
Claims ==
    \A t, u \in Threads :
        (t # u /\ th[t].pos = th[u].pos) => /\ ~(Producing(t) /\ Producing(u))
                                            /\ ~(Consuming(t) /\ Consuming(u))

QueueInv == /\ Types /\ Window /\ Filled /\ Vacant /\ Claims
            /\ \A t \in Threads : Knows(t)
-----------------------------------------------------------------------------
(* Cells.                                                                  *)

\* Multiples of c are at least c apart.
LEMMA Multiples ==
    ASSUME NEW a \in Int, NEW b \in Int, NEW c \in Nat \ {0}, a < b
    PROVE  c * b >= c * a + c
<1>1. PICK d \in Nat : b = a + 1 + d
  <2>1. b - a - 1 \in Nat /\ b = a + 1 + (b - a - 1)
    OBVIOUS
  <2> QED  BY <2>1
<1>2. c * b = c * a + c + c * d
  BY <1>1
<1>3. c * a \in Int /\ c * d \in Nat
  BY <1>1
<1> QED  BY <1>2, <1>3

\* Division with a remainder.
LEMMA Division ==
    ASSUME NEW p \in Int, NEW c \in Nat \ {0}
    PROVE  /\ p \div c \in Int /\ p % c \in 0 .. c - 1
           /\ p = c * (p \div c) + (p % c)
OBVIOUS

\* The remainder is determined by the number.
LEMMA Remainder ==
    ASSUME NEW c \in Nat \ {0}, NEW a \in Int, NEW b \in Int,
           NEW r \in 0 .. c - 1, NEW s \in 0 .. c - 1,
           c * a + r = c * b + s
    PROVE  a = b /\ r = s
<1>1. c * a \in Int /\ c * b \in Int
  OBVIOUS
<1>2. CASE a < b
  BY <1>1, <1>2, Multiples
<1>3. CASE b < a
  BY <1>1, <1>3, Multiples
<1>4. CASE a = b
  BY <1>1, <1>4
<1> QED  BY <1>2, <1>3, <1>4

\* buffer_[pos & kMask] is a cell of the buffer.
LEMMA CellType == \A p \in Nat : cell(p) \in Cells
BY QueueAssumption DEF cell, Cells

\* Positions that are less than Capacity apart have different cells.
LEMMA CellsDiffer ==
    \A p, q \in Nat : p < q /\ q < p + Capacity => cell(p) # cell(q)
<1> SUFFICES ASSUME NEW p \in Nat, NEW q \in Nat, p < q, q < p + Capacity,
                    p % Capacity = q % Capacity
             PROVE  FALSE
  BY DEF cell
<1> DEFINE a == p \div Capacity
           b == q \div Capacity
           r == p % Capacity
<1>1. Capacity \in Nat \ {0}
  BY QueueAssumption
<1>2. /\ a \in Int /\ b \in Int /\ r \in Int
      /\ p = Capacity * a + r /\ q = Capacity * b + r
  BY <1>1, Division
<1>3. Capacity * a \in Int /\ Capacity * b \in Int
  BY <1>1, <1>2
<1> HIDE DEF a, b, r
<1>4. CASE a < b
  BY <1>1, <1>2, <1>3, <1>4, Multiples
<1>5. CASE b < a
  BY <1>1, <1>2, <1>3, <1>5, Multiples
<1>6. CASE b = a
  BY <1>1, <1>2, <1>3, <1>6
<1> QED  BY <1>2, <1>4, <1>5, <1>6

\* A cell comes round after Capacity positions.
LEMMA CellAgain == \A p \in Nat : cell(p + Capacity) = cell(p)
<1> TAKE p \in Nat
<1> DEFINE a == p \div Capacity
           b == (p + Capacity) \div Capacity
           r == p % Capacity
           s == (p + Capacity) % Capacity
<1>1. Capacity \in Nat \ {0} /\ p + Capacity \in Int
  BY QueueAssumption
<1>2. a \in Int /\ r \in 0 .. Capacity - 1 /\ p = Capacity * a + r
  BY <1>1, Division
<1>3. /\ b \in Int /\ s \in 0 .. Capacity - 1
      /\ p + Capacity = Capacity * b + s
  BY <1>1, Division
<1>4. Capacity * (a + 1) + r = Capacity * b + s
  <2> HIDE DEF a, b, r, s
  <2>1. Capacity * (a + 1) = Capacity * a + Capacity /\ Capacity * a \in Int
    BY <1>1, <1>2
  <2> QED  BY <1>1, <1>2, <1>3, <2>1
<1>5. r = s
  <2> HIDE DEF a, b, r, s
  <2> QED  BY <1>1, <1>2, <1>3, <1>4, Remainder
<1> QED  BY <1>5 DEF cell
-----------------------------------------------------------------------------
(* The steps.                                                              *)

\* Only t moves in a step.
Alone(t) == /\ th' \in [Threads -> ThreadRecord]
            /\ \A u \in Threads : u # t => th'[u] = th[u]

\* A step of t outside of the queue: t has no cell before and after it.
Outside(t) == /\ UNCHANGED queue /\ Alone(t)
              /\ ~Producing(t) /\ ~Consuming(t)
              /\ ~Producing(t)' /\ ~Consuming(t)' /\ Knows(t)'

\* A step of t that touches no cell and no cursor and leaves t with no cell
\* keeps the invariant when t knows what it should.
LEMMA LocalStep ==
    ASSUME QueueInv, NEW t \in Threads, UNCHANGED queue, Alone(t),
           ~Producing(t), ~Consuming(t), ~Producing(t)', ~Consuming(t)',
           Knows(t)'
    PROVE  QueueInv'
<1> USE DEF QueueInv, queue, Alone
<1>1. \A u \in Threads : /\ Producing(u)' <=> Producing(u)
                         /\ Consuming(u)' <=> Consuming(u)
                         /\ Producing(u) \/ Consuming(u) => th'[u] = th[u]
  BY DEF Producing, Consuming
<1>2. Types' /\ Window' /\ Vacant'
  BY DEF Types, Window, Vacant
<1>3. Filled'
  BY <1>1 DEF Filled
<1>4. Claims'
  BY <1>1 DEF Claims
<1>5. ASSUME NEW u \in Threads PROVE Knows(u)'
  BY DEF Knows, Producing, Consuming
<1> QED  BY <1>2, <1>3, <1>4, <1>5

\* The loads of the cursors.
LEMMA LoadsCursor ==
    ASSUME QueueInv, NEW t \in Threads, EnqPos(t) \/ DeqPos(t)
    PROVE  Outside(t) /\ Got'[t] = Got[t]
<1> USE DEF QueueInv, Types, at
<1>1. Alone(t)
  BY DEF EnqPos, DeqPos, Alone, ThreadRecord, Places
<1>2. /\ ~Producing(t) /\ ~Consuming(t) /\ ~Producing(t)' /\ ~Consuming(t)'
      /\ Knows(t)' /\ UNCHANGED queue
  BY Knows(t)
     DEF EnqPos, DeqPos, ThreadRecord, Places, Producing, Consuming, Knows,
         queue
<1>3. Got'[t] = Got[t]
  BY <1>1 DEF Got, Alone, ThreadRecord, EnqPos, DeqPos
<1> QED  BY <1>1, <1>2, <1>3 DEF Outside

\* t goes to x, and nothing else of it changes.
Moved(t, x) == /\ Alone(t)
               /\ th'[t].pc = x /\ th'[t].pos = th[t].pos
               /\ th'[t].item = th[t].item /\ th'[t].ok = th[t].ok

\* The comparison of a sequence with a position, in enqueue.
LEMMA ComparesEnq ==
    ASSUME QueueInv, NEW t \in Threads, EnqSeq(t)
    PROVE  Outside(t) /\ Got'[t] = Got[t]
<1> DEFINE diff == enqDiff(th[t].pos)
<1>1. /\ diff \in Int /\ diff = sequence[cell(th[t].pos)] - th[t].pos
      /\ th[t].pos \in Nat /\ sequence[cell(th[t].pos)] \in Nat
  BY CellType DEF QueueInv, Types, ThreadRecord, Places, enqDiff
<1>2. /\ at(t, "enqSeq") /\ UNCHANGED queue /\ Knows(t) /\ Types
      /\ ~Producing(t) /\ ~Consuming(t)
  BY DEF EnqSeq, at, Producing, Consuming, QueueInv
<1> HIDE DEF diff
<1>3. CASE diff = 0
  <2>0. ~(diff < 0) /\ ~(diff > 0)
    BY <1>1, <1>3
  <2>1. th' = [th EXCEPT ![t].pc = "enqCas"]
    BY <1>3, <2>0, Zenon DEF EnqSeq, goto, diff
  <2>2. Moved(t, "enqCas")
    BY <1>2, <2>1 DEF Moved, Alone, Types, ThreadRecord, Places
  <2>3. Knows(t)' /\ ~Producing(t)' /\ ~Consuming(t)'
    BY <1>1, <1>2, <1>3, <2>2 DEF Moved, Knows, at, queue, Producing, Consuming
  <2>4. Got'[t] = Got[t]
    BY <1>2, <2>2 DEF Got, Moved, Knows, at
  <2> QED  BY <1>2, <2>2, <2>3, <2>4 DEF Moved, Outside
<1>4. CASE diff < 0
  <2>0. ~(diff = 0) /\ ~(diff > 0)
    BY <1>1, <1>4
  <2>1. th' = [th EXCEPT ![t].pc = "enqDone"]
    BY <1>4, <2>0, Zenon DEF EnqSeq, goto, diff
  <2>2. Moved(t, "enqDone")
    BY <1>2, <2>1 DEF Moved, Alone, Types, ThreadRecord, Places
  <2>3. Knows(t)' /\ ~Producing(t)' /\ ~Consuming(t)'
    BY <1>1, <1>2, <1>4, <2>2 DEF Moved, Knows, at, queue, Producing, Consuming
  <2>4. Got'[t] = Got[t]
    BY <1>2, <2>2 DEF Got, Moved, Knows, at
  <2> QED  BY <1>2, <2>2, <2>3, <2>4 DEF Moved, Outside
<1>5. CASE diff > 0
  <2>0. ~(diff = 0) /\ ~(diff < 0)
    BY <1>1, <1>5
  <2>1. th' = [th EXCEPT ![t].pc = "enqPos"]
    BY <1>5, <2>0, Zenon DEF EnqSeq, goto, diff
  <2>2. Moved(t, "enqPos")
    BY <1>2, <2>1 DEF Moved, Alone, Types, ThreadRecord, Places
  <2>3. Knows(t)' /\ ~Producing(t)' /\ ~Consuming(t)'
    BY <1>1, <1>2, <1>5, <2>2 DEF Moved, Knows, at, queue, Producing, Consuming
  <2>4. Got'[t] = Got[t]
    BY <1>2, <2>2 DEF Got, Moved, Knows, at
  <2> QED  BY <1>2, <2>2, <2>3, <2>4 DEF Moved, Outside
<1> QED  BY <1>1, <1>3, <1>4, <1>5

\* The comparison of a sequence with a position, in dequeue.
LEMMA ComparesDeq ==
    ASSUME QueueInv, NEW t \in Threads, DeqSeq(t)
    PROVE  Outside(t) /\ Got'[t] = Got[t]
<1> DEFINE diff == deqDiff(th[t].pos)
<1>1. /\ diff \in Int /\ diff = sequence[cell(th[t].pos)] - (th[t].pos + 1)
      /\ th[t].pos \in Nat /\ sequence[cell(th[t].pos)] \in Nat
  BY CellType DEF QueueInv, Types, ThreadRecord, Places, deqDiff
<1>2. /\ at(t, "deqSeq") /\ UNCHANGED queue /\ Knows(t) /\ Types
      /\ ~Producing(t) /\ ~Consuming(t)
  BY DEF DeqSeq, at, Producing, Consuming, QueueInv
<1> HIDE DEF diff
<1>3. CASE diff = 0
  <2>0. ~(diff < 0) /\ ~(diff > 0)
    BY <1>1, <1>3
  <2>1. th' = [th EXCEPT ![t].pc = "deqCas"]
    BY <1>3, <2>0, Zenon DEF DeqSeq, goto, diff
  <2>2. Moved(t, "deqCas")
    BY <1>2, <2>1 DEF Moved, Alone, Types, ThreadRecord, Places
  <2>3. Knows(t)' /\ ~Producing(t)' /\ ~Consuming(t)'
    BY <1>1, <1>2, <1>3, <2>2 DEF Moved, Knows, at, queue, Producing, Consuming
  <2>4. Got'[t] = Got[t]
    BY <1>2, <2>2 DEF Got, Moved, Knows, at
  <2> QED  BY <1>2, <2>2, <2>3, <2>4 DEF Moved, Outside
<1>4. CASE diff < 0
  <2>0. ~(diff = 0) /\ ~(diff > 0)
    BY <1>1, <1>4
  <2>1. th' = [th EXCEPT ![t].pc = "deqDone"]
    BY <1>4, <2>0, Zenon DEF DeqSeq, goto, diff
  <2>2. Moved(t, "deqDone")
    BY <1>2, <2>1 DEF Moved, Alone, Types, ThreadRecord, Places
  <2>3. Knows(t)' /\ ~Producing(t)' /\ ~Consuming(t)'
    BY <1>1, <1>2, <1>4, <2>2 DEF Moved, Knows, at, queue, Producing, Consuming
  <2>4. Got'[t] = Got[t]
    BY <1>2, <2>2 DEF Got, Moved, Knows, at
  <2> QED  BY <1>2, <2>2, <2>3, <2>4 DEF Moved, Outside
<1>5. CASE diff > 0
  <2>0. ~(diff = 0) /\ ~(diff < 0)
    BY <1>1, <1>5
  <2>1. th' = [th EXCEPT ![t].pc = "deqPos"]
    BY <1>5, <2>0, Zenon DEF DeqSeq, goto, diff
  <2>2. Moved(t, "deqPos")
    BY <1>2, <2>1 DEF Moved, Alone, Types, ThreadRecord, Places
  <2>3. Knows(t)' /\ ~Producing(t)' /\ ~Consuming(t)'
    BY <1>1, <1>2, <1>5, <2>2 DEF Moved, Knows, at, queue, Producing, Consuming
  <2>4. Got'[t] = Got[t]
    BY <1>2, <2>2 DEF Got, Moved, Knows, at
  <2> QED  BY <1>2, <2>2, <2>3, <2>4 DEF Moved, Outside
<1> QED  BY <1>1, <1>3, <1>4, <1>5

\* A compare_exchange that fails.
LEMMA FailedCas ==
    ASSUME QueueInv, NEW t \in Threads, UNCHANGED queue,
           \/ /\ at(t, "enqCas")
              /\ th' = [th EXCEPT ![t].pos = enqueuePos_, ![t].pc = "enqSeq"]
           \/ /\ at(t, "deqCas")
              /\ th' = [th EXCEPT ![t].pos = dequeuePos_, ![t].pc = "deqSeq"]
    PROVE  Outside(t) /\ Got'[t] = Got[t]
<1> USE DEF QueueInv, Types, at
<1>1. Alone(t)
  BY DEF Alone, ThreadRecord, Places
<1>2. /\ ~Producing(t) /\ ~Consuming(t) /\ ~Producing(t)' /\ ~Consuming(t)'
      /\ Knows(t)'
  BY Knows(t) DEF ThreadRecord, Places, Producing, Consuming, Knows, queue
<1>3. Got'[t] = Got[t]
  BY <1>1 DEF Got, Alone, ThreadRecord
<1> QED  BY <1>1, <1>2, <1>3 DEF Outside
-----------------------------------------------------------------------------
(* The steps that claim, use and give back a cell.                         *)

\* t relies on what is in the cell of its position.
Relies(t) == \/ Producing(t) \/ Consuming(t)
             \/ at(t, "enqCas") /\ th[t].pos = enqueuePos_
             \/ at(t, "deqCas") /\ th[t].pos = dequeuePos_

\* The bounds, for the arithmetic.
LEMMA Bounds ==
    ASSUME QueueInv
    PROVE  /\ Capacity \in Nat \ {0}
           /\ enqueuePos_ \in Nat /\ dequeuePos_ \in Nat
           /\ dequeuePos_ <= enqueuePos_
           /\ enqueuePos_ <= dequeuePos_ + Capacity
           /\ sequence \in [Cells -> Nat] /\ data \in [Cells -> Item]
           /\ \A t \in Threads : th[t] \in ThreadRecord /\ th[t].pos \in Nat
BY QueueAssumption DEF QueueInv, Types, Window, ThreadRecord

\* A producer's cell is that of no other position in reach.
LEMMA ProducerCell ==
    ASSUME QueueInv, NEW t \in Threads, Producing(t),
           NEW p \in dequeuePos_ .. dequeuePos_ + Capacity - 1, p # th[t].pos
    PROVE  cell(p) # cell(th[t].pos)
<1>1. dequeuePos_ <= th[t].pos /\ th[t].pos < enqueuePos_
  BY Knows(t) DEF QueueInv, Knows
<1>2. /\ p \in Nat /\ th[t].pos \in Nat
      /\ \/ p < th[t].pos /\ th[t].pos < p + Capacity
         \/ th[t].pos < p /\ p < th[t].pos + Capacity
  BY <1>1, Bounds
<1> QED  BY <1>2, CellsDiffer

\* A consumer's cell is that of one position in reach, the next one of the
\* cell.
LEMMA ConsumerCell ==
    ASSUME QueueInv, NEW t \in Threads, Consuming(t),
           NEW p \in dequeuePos_ .. dequeuePos_ + Capacity - 1,
           p # th[t].pos + Capacity
    PROVE  cell(p) # cell(th[t].pos)
<1> DEFINE q == th[t].pos + Capacity
<1>1. th[t].pos < dequeuePos_ /\ enqueuePos_ <= q
  BY Knows(t) DEF QueueInv, Knows
<1>2. p \in Nat /\ th[t].pos \in Nat /\ q \in Nat
      /\ \/ th[t].pos < p /\ p < th[t].pos + Capacity
         \/ q < p /\ p < q + Capacity
  BY <1>1, Bounds
<1>3. cell(q) = cell(th[t].pos)
  BY <1>2, CellAgain
<1> HIDE DEF q
<1> QED  BY <1>2, <1>3, CellsDiffer

\* A thread that has claimed a cell has it for itself: no other thread
\* relies on what is in it.
LEMMA OwnCell ==
    ASSUME Capacity >= 2, QueueInv, NEW t \in Threads, NEW u \in Threads, t # u,
           Producing(t) \/ Consuming(t), Relies(u)
    PROVE  cell(th[u].pos) # cell(th[t].pos)
<1> DEFINE P == th[t].pos
           Q == th[u].pos
<1>1. /\ Producing(t) => /\ dequeuePos_ <= P /\ P < enqueuePos_
                         /\ sequence[cell(P)] = P
      /\ Consuming(t) => /\ P < dequeuePos_ /\ enqueuePos_ <= P + Capacity
                         /\ sequence[cell(P)] = P + 1
  BY Knows(t) DEF QueueInv, Knows
<1>2. /\ Producing(u) => /\ dequeuePos_ <= Q /\ Q < enqueuePos_
                         /\ sequence[cell(Q)] = Q
      /\ Consuming(u) => /\ Q < dequeuePos_ /\ enqueuePos_ <= Q + Capacity
                         /\ sequence[cell(Q)] = Q + 1
      /\ at(u, "enqCas") /\ Q = enqueuePos_ => sequence[cell(Q)] = Q
      /\ at(u, "deqCas") /\ Q = dequeuePos_ => sequence[cell(Q)] = Q + 1
  BY Knows(u) DEF QueueInv, Knows, at
<1>3. /\ P = Q => /\ ~(Producing(t) /\ Producing(u))
                  /\ ~(Consuming(t) /\ Consuming(u))
      /\ ~(Producing(t) /\ Consuming(t))
  BY DEF QueueInv, Claims, Producing, Consuming
<1>4. P \in Nat /\ Q \in Nat
  BY Bounds
<1>5. /\ P < Q /\ Q < P + Capacity => cell(P) # cell(Q)
      /\ Q < P /\ P < Q + Capacity => cell(P) # cell(Q)
  BY <1>4, CellsDiffer
<1> HIDE DEF P, Q
<1>6. SUFFICES ASSUME cell(P) = cell(Q) PROVE FALSE
  BY DEF P, Q
<1>7. CASE Producing(u)
  BY <1>1, <1>2, <1>3, <1>4, <1>5, <1>6, <1>7, Bounds
<1>8. CASE Consuming(u)
  BY <1>1, <1>2, <1>3, <1>4, <1>5, <1>6, <1>8, Bounds
<1>9. CASE at(u, "enqCas") /\ Q = enqueuePos_
  BY <1>1, <1>2, <1>3, <1>4, <1>5, <1>6, <1>9, Bounds
<1>10. CASE at(u, "deqCas") /\ Q = dequeuePos_
  BY <1>1, <1>2, <1>3, <1>4, <1>5, <1>6, <1>10, Bounds
<1> QED  BY <1>7, <1>8, <1>9, <1>10 DEF Relies, P, Q

\* A producer's compare_exchange that succeeds: the position is in the
\* queue.
LEMMA EnqClaims ==
    ASSUME Capacity >= 2, QueueInv, NEW t \in Threads,
           at(t, "enqCas"), enqueuePos_ = th[t].pos,
           enqueuePos_' = enqueuePos_ + 1, Moved(t, "enqWrite"),
           UNCHANGED <<sequence, data, dequeuePos_>>
    PROVE  enqueuePos_ < dequeuePos_ + Capacity /\ QueueInv'
<1> DEFINE E == enqueuePos_
           D == dequeuePos_
<1>1. sequence[cell(E)] = E /\ th[t].item \in Values
  BY Knows(t) DEF QueueInv, Knows, at
<1>2. E < D + Capacity
  <2> SUFFICES ASSUME E = D + Capacity PROVE FALSE
    BY Bounds
  <2>1. D \in D .. E - 1 /\ cell(E) = cell(D)
    BY Bounds, CellAgain
  <2>2. sequence[cell(D)] \in {D, D + 1}
    BY <2>1 DEF QueueInv, Filled
  <2> QED  BY <1>1, <2>1, <2>2, Bounds
<1>3. Types' /\ Window'
  BY <1>2, Bounds DEF QueueInv, Types, Window, Moved, Alone
<1>4. /\ ~Producing(t) /\ ~Consuming(t) /\ Producing(t)' /\ ~Consuming(t)'
      /\ th'[t].pos = E /\ th'[t].item = th[t].item
      /\ \A u \in Threads : u # t => /\ th'[u] = th[u]
                                     /\ Producing(u)' <=> Producing(u)
                                     /\ Consuming(u)' <=> Consuming(u)
  BY DEF at, Moved, Alone, Producing, Consuming
<1>5. Filled'
  <2> SUFFICES ASSUME NEW p \in D .. E
               PROVE  \/ sequence[cell(p)] = p + 1 /\ data[cell(p)] \in Values
                      \/ /\ sequence[cell(p)] = p
                         /\ \E u \in Threads : Producing(u)' /\ th'[u].pos = p
    BY Bounds DEF Filled
  <2>1. CASE p = E
    BY <1>1, <1>4, <2>1
  <2>2. CASE p \in D .. E - 1
    BY <1>4, <2>2 DEF QueueInv, Filled
  <2> QED  BY <2>1, <2>2, Bounds
<1>6. Vacant'
  BY Bounds DEF QueueInv, Vacant
<1>7. \A u \in Threads : /\ Producing(u) => th[u].pos < E
                         /\ Consuming(u) => th[u].pos + Capacity # E
  <2> SUFFICES ASSUME NEW u \in Threads
               PROVE  /\ Producing(u) => th[u].pos < E
                      /\ Consuming(u) => th[u].pos + Capacity # E
    OBVIOUS
  <2>1. /\ Producing(u) => th[u].pos < E
        /\ Consuming(u) => sequence[cell(th[u].pos)] = th[u].pos + 1
    BY Knows(u) DEF QueueInv, Knows
  <2>2. cell(th[u].pos + Capacity) = cell(th[u].pos)
    BY Bounds, CellAgain
  <2> QED  BY <1>1, <2>1, <2>2, Bounds
<1>8. Claims'
  BY <1>4, <1>7, Bounds DEF QueueInv, Claims
<1>9. ASSUME NEW u \in Threads PROVE Knows(u)'
  <2>1. CASE u = t
    BY <1>1, <1>4, <2>1, Bounds DEF Knows, Moved
  <2>2. CASE u # t
    BY <1>4, <1>7, <2>2, Knows(u), Bounds DEF QueueInv, Knows
  <2> QED  BY <2>1, <2>2
<1> QED  BY <1>2, <1>3, <1>5, <1>6, <1>8, <1>9 DEF QueueInv

\* A consumer's compare_exchange that succeeds: the first position leaves
\* the queue.
LEMMA DeqClaims ==
    ASSUME QueueInv, NEW t \in Threads,
           at(t, "deqCas"), dequeuePos_ = th[t].pos,
           dequeuePos_' = dequeuePos_ + 1, Moved(t, "deqRead"),
           UNCHANGED <<sequence, data, enqueuePos_>>
    PROVE  /\ dequeuePos_ < enqueuePos_ /\ data[cell(dequeuePos_)] \in Values
           /\ sequence[cell(dequeuePos_)] = dequeuePos_ + 1
           /\ QueueInv'
<1> DEFINE E == enqueuePos_
           D == dequeuePos_
<1>1. sequence[cell(D)] = D + 1
  BY Knows(t) DEF QueueInv, Knows, at
<1>2. D < E
  <2> SUFFICES ASSUME E = D PROVE FALSE
    BY Bounds
  <2>1. sequence[cell(D)] \in {D, D - Capacity + 1}
    BY Bounds DEF QueueInv, Vacant
  <2> QED  BY <1>1, <2>1, Bounds
<1>3. data[cell(D)] \in Values
  BY <1>1, <1>2, Bounds DEF QueueInv, Filled
<1>4. Types' /\ Window'
  BY <1>2, Bounds DEF QueueInv, Types, Window, Moved, Alone
<1>5. /\ ~Producing(t) /\ ~Consuming(t) /\ ~Producing(t)' /\ Consuming(t)'
      /\ th'[t].pos = D
      /\ \A u \in Threads : u # t => /\ th'[u] = th[u]
                                     /\ Producing(u)' <=> Producing(u)
                                     /\ Consuming(u)' <=> Consuming(u)
  BY DEF at, Moved, Alone, Producing, Consuming
<1>6. Filled'
  BY <1>5, Bounds DEF QueueInv, Filled
<1>7. Vacant'
  <2> SUFFICES ASSUME NEW p \in E .. D + Capacity
               PROVE  sequence[cell(p)] \in {p, p - Capacity + 1}
    BY Bounds DEF Vacant
  <2>1. CASE p = D + Capacity
    BY <1>1, <2>1, Bounds, CellAgain
  <2>2. CASE p \in E .. D + Capacity - 1
    BY <2>2 DEF QueueInv, Vacant
  <2> QED  BY <2>1, <2>2, Bounds
<1>8. \A u \in Threads : /\ Producing(u) => D < th[u].pos
                         /\ Consuming(u) => th[u].pos < D
  <2> SUFFICES ASSUME NEW u \in Threads
               PROVE  /\ Producing(u) => D < th[u].pos
                      /\ Consuming(u) => th[u].pos < D
    OBVIOUS
  <2>1. /\ Producing(u) => /\ D <= th[u].pos
                           /\ sequence[cell(th[u].pos)] = th[u].pos
        /\ Consuming(u) => th[u].pos < D
    BY Knows(u) DEF QueueInv, Knows
  <2> QED  BY <1>1, <2>1, Bounds
<1>9. Claims'
  BY <1>5, <1>8, Bounds DEF QueueInv, Claims
<1>10. ASSUME NEW u \in Threads PROVE Knows(u)'
  <2>1. CASE u = t
    BY <1>1, <1>3, <1>5, <2>1, Bounds DEF Knows, Moved
  <2>2. CASE u # t
    BY <1>5, <1>8, <2>2, Knows(u), Bounds DEF QueueInv, Knows
  <2> QED  BY <2>1, <2>2
<1> QED  BY <1>1, <1>2, <1>3, <1>4, <1>6, <1>7, <1>9, <1>10 DEF QueueInv

\* The producer writes its item into its cell.
LEMMA Writes ==
    ASSUME Capacity >= 2, QueueInv, NEW t \in Threads, at(t, "enqWrite"),
           data' = [data EXCEPT ![cell(th[t].pos)] = th[t].item],
           Moved(t, "enqPublish"),
           UNCHANGED <<sequence, enqueuePos_, dequeuePos_>>
    PROVE  QueueInv'
<1>1. /\ Producing(t) /\ ~Consuming(t) /\ Producing(t)' /\ ~Consuming(t)'
      /\ th'[t].pos = th[t].pos
      /\ \A u \in Threads : u # t => /\ th'[u] = th[u]
                                     /\ Producing(u)' <=> Producing(u)
                                     /\ Consuming(u)' <=> Consuming(u)
  BY DEF at, Moved, Alone, Producing, Consuming
<1>2. cell(th[t].pos) \in Cells /\ th[t].item \in Values
  BY CellType, Bounds, <1>1, Knows(t) DEF QueueInv, Knows
<1>3. Types' /\ Window' /\ Vacant'
  BY <1>2 DEF QueueInv, Types, Window, Vacant, Moved, Alone, Item
<1>4. Filled'
  <2> SUFFICES ASSUME NEW p \in dequeuePos_ .. enqueuePos_ - 1
               PROVE  \/ sequence[cell(p)] = p + 1 /\ data'[cell(p)] \in Values
                      \/ /\ sequence[cell(p)] = p
                         /\ \E u \in Threads : Producing(u)' /\ th'[u].pos = p
    BY DEF Filled
  <2>1. CASE p = th[t].pos
    BY <1>1, <2>1, Knows(t) DEF QueueInv, Knows
  <2>2. CASE p # th[t].pos
    <3>1. data'[cell(p)] = data[cell(p)]
      BY <1>1, <2>2, Bounds, ProducerCell, CellType
    <3>2. \/ sequence[cell(p)] = p + 1 /\ data[cell(p)] \in Values
          \/ /\ sequence[cell(p)] = p
             /\ \E u \in Threads : Producing(u) /\ th[u].pos = p
      BY DEF QueueInv, Filled
    <3> QED  BY <1>1, <2>2, <3>1, <3>2
  <2> QED  BY <2>1, <2>2
<1>5. Claims'
  BY <1>1 DEF QueueInv, Claims
<1>6. ASSUME NEW u \in Threads PROVE Knows(u)'
  <2>1. CASE u = t
    BY <1>1, <1>2, <2>1, Knows(t), Bounds DEF QueueInv, Knows, Moved
  <2>2. CASE u # t
    <3>1. th[u].pc \in {"enqPublish", "deqRead"}
             => data'[cell(th[u].pos)] = data[cell(th[u].pos)]
      BY <1>1, <1>2, <2>2, OwnCell, Bounds, CellType
         DEF Relies, Producing, Consuming
    <3> QED  BY <1>1, <2>2, <3>1, Knows(u) DEF QueueInv, Knows
  <2> QED  BY <2>1, <2>2
<1> QED  BY <1>3, <1>4, <1>5, <1>6 DEF QueueInv

\* The producer publishes its cell.
LEMMA Publishes ==
    ASSUME Capacity >= 2, QueueInv, NEW t \in Threads, at(t, "enqPublish"),
           sequence' = [sequence EXCEPT ![cell(th[t].pos)] = th[t].pos + 1],
           Alone(t), th'[t].pc = "enqDone",
           UNCHANGED <<data, enqueuePos_, dequeuePos_>>
    PROVE  QueueInv'
<1> DEFINE P == th[t].pos
<1>1. /\ Producing(t) /\ ~Consuming(t) /\ ~Producing(t)' /\ ~Consuming(t)'
      /\ \A u \in Threads : u # t => /\ th'[u] = th[u]
                                     /\ Producing(u)' <=> Producing(u)
                                     /\ Consuming(u)' <=> Consuming(u)
  BY DEF at, Alone, Producing, Consuming
<1>2. /\ cell(P) \in Cells /\ P \in Nat /\ dequeuePos_ <= P /\ P < enqueuePos_
      /\ data[cell(P)] \in Values /\ sequence[cell(P)] = P
      /\ sequence'[cell(P)] = P + 1
  BY CellType, Bounds, <1>1, Knows(t) DEF QueueInv, Knows, at
<1>3. Types' /\ Window'
  BY <1>2 DEF QueueInv, Types, Window, Alone
<1>4. ASSUME NEW p \in dequeuePos_ .. dequeuePos_ + Capacity - 1, p # P
      PROVE  sequence'[cell(p)] = sequence[cell(p)]
  BY <1>1, <1>4, Bounds, ProducerCell, CellType
<1>5. Filled'
  <2> SUFFICES ASSUME NEW p \in dequeuePos_ .. enqueuePos_ - 1
               PROVE  \/ sequence'[cell(p)] = p + 1 /\ data[cell(p)] \in Values
                      \/ /\ sequence'[cell(p)] = p
                         /\ \E u \in Threads : Producing(u)' /\ th'[u].pos = p
    BY DEF Filled
  <2>1. CASE p = P
    BY <1>2, <2>1
  <2>2. CASE p # P
    <3>1. sequence'[cell(p)] = sequence[cell(p)]
      BY <1>4, <2>2, Bounds
    <3>2. \/ sequence[cell(p)] = p + 1 /\ data[cell(p)] \in Values
          \/ /\ sequence[cell(p)] = p
             /\ \E u \in Threads : Producing(u) /\ th[u].pos = p
      BY DEF QueueInv, Filled
    <3> QED  BY <1>1, <2>2, <3>1, <3>2
  <2> QED  BY <2>1, <2>2
<1>6. Vacant'
  BY <1>2, <1>4, Bounds DEF QueueInv, Vacant
<1>7. Claims'
  BY <1>1 DEF QueueInv, Claims
<1>8. ASSUME NEW u \in Threads PROVE Knows(u)'
  <2>1. CASE u = t
    BY <1>1, <2>1 DEF Knows
  <2>2. CASE u # t
    <3>1. Relies(u) => sequence'[cell(th[u].pos)] = sequence[cell(th[u].pos)]
      BY <1>1, <1>2, <2>2, OwnCell, Bounds, CellType
    <3> QED  BY <1>1, <2>2, <3>1, Knows(u) DEF QueueInv, Knows, Relies, at
  <2> QED  BY <2>1, <2>2
<1> QED  BY <1>3, <1>5, <1>6, <1>7, <1>8 DEF QueueInv

\* The consumer moves the item out of its cell.
LEMMA Reads ==
    ASSUME Capacity >= 2, QueueInv, NEW t \in Threads, at(t, "deqRead"),
           data' = [data EXCEPT ![cell(th[t].pos)] = NoItem],
           Alone(t), th'[t].pc = "deqRelease", th'[t].pos = th[t].pos,
           th'[t].item = data[cell(th[t].pos)],
           UNCHANGED <<sequence, enqueuePos_, dequeuePos_>>
    PROVE  QueueInv'
<1>1. /\ Consuming(t) /\ ~Producing(t) /\ Consuming(t)' /\ ~Producing(t)'
      /\ \A u \in Threads : u # t => /\ th'[u] = th[u]
                                     /\ Producing(u)' <=> Producing(u)
                                     /\ Consuming(u)' <=> Consuming(u)
  BY DEF at, Alone, Producing, Consuming
<1>2. /\ cell(th[t].pos) \in Cells /\ data[cell(th[t].pos)] \in Values
      /\ enqueuePos_ <= th[t].pos + Capacity /\ th[t].pos \in Nat
  BY CellType, Bounds, <1>1, Knows(t) DEF QueueInv, Knows, at
<1>3. Types' /\ Window' /\ Vacant'
  BY <1>2 DEF QueueInv, Types, Window, Vacant, Alone, Item
<1>4. Filled'
  <2> SUFFICES ASSUME NEW p \in dequeuePos_ .. enqueuePos_ - 1
               PROVE  \/ sequence[cell(p)] = p + 1 /\ data'[cell(p)] \in Values
                      \/ /\ sequence[cell(p)] = p
                         /\ \E u \in Threads : Producing(u)' /\ th'[u].pos = p
    BY DEF Filled
  <2>1. data'[cell(p)] = data[cell(p)]
    BY <1>1, <1>2, Bounds, ConsumerCell, CellType
  <2>2. \/ sequence[cell(p)] = p + 1 /\ data[cell(p)] \in Values
        \/ /\ sequence[cell(p)] = p
           /\ \E u \in Threads : Producing(u) /\ th[u].pos = p
    BY DEF QueueInv, Filled
  <2> QED  BY <1>1, <2>1, <2>2
<1>5. Claims'
  BY <1>1 DEF QueueInv, Claims
<1>6. ASSUME NEW u \in Threads PROVE Knows(u)'
  <2>1. CASE u = t
    BY <1>1, <1>2, <2>1, Knows(t), Bounds DEF QueueInv, Knows
  <2>2. CASE u # t
    <3>1. th[u].pc \in {"enqPublish", "deqRead"}
             => data'[cell(th[u].pos)] = data[cell(th[u].pos)]
      BY <1>1, <1>2, <2>2, OwnCell, Bounds, CellType
         DEF Relies, Producing, Consuming
    <3> QED  BY <1>1, <2>2, <3>1, Knows(u) DEF QueueInv, Knows
  <2> QED  BY <2>1, <2>2
<1> QED  BY <1>3, <1>4, <1>5, <1>6 DEF QueueInv

\* The consumer gives its cell back for the next position.
LEMMA Releases ==
    ASSUME Capacity >= 2, QueueInv, NEW t \in Threads, at(t, "deqRelease"),
           sequence' = [sequence EXCEPT ![cell(th[t].pos)] =
                                           th[t].pos + Capacity],
           Alone(t), th'[t].pc = "deqDone", th'[t].ok = TRUE,
           th'[t].item = th[t].item,
           UNCHANGED <<data, enqueuePos_, dequeuePos_>>
    PROVE  QueueInv'
<1> DEFINE P == th[t].pos
<1>1. /\ Consuming(t) /\ ~Producing(t) /\ ~Producing(t)' /\ ~Consuming(t)'
      /\ \A u \in Threads : u # t => /\ th'[u] = th[u]
                                     /\ Producing(u)' <=> Producing(u)
                                     /\ Consuming(u)' <=> Consuming(u)
  BY DEF at, Alone, Producing, Consuming
<1>2. /\ cell(P) \in Cells /\ P \in Nat /\ P < dequeuePos_
      /\ enqueuePos_ <= P + Capacity /\ th[t].item \in Values
      /\ sequence'[cell(P)] = P + Capacity
  BY CellType, Bounds, <1>1, Knows(t) DEF QueueInv, Knows, at
<1>3. Types' /\ Window'
  BY <1>2, Bounds DEF QueueInv, Types, Window, Alone
<1>4. ASSUME NEW p \in dequeuePos_ .. dequeuePos_ + Capacity - 1,
             p # P + Capacity
      PROVE  sequence'[cell(p)] = sequence[cell(p)]
  BY <1>1, <1>4, Bounds, ConsumerCell, CellType
<1>5. Filled'
  <2> SUFFICES ASSUME NEW p \in dequeuePos_ .. enqueuePos_ - 1
               PROVE  \/ sequence'[cell(p)] = p + 1 /\ data[cell(p)] \in Values
                      \/ /\ sequence'[cell(p)] = p
                         /\ \E u \in Threads : Producing(u)' /\ th'[u].pos = p
    BY DEF Filled
  <2>1. sequence'[cell(p)] = sequence[cell(p)]
    BY <1>2, <1>4, Bounds
  <2>2. \/ sequence[cell(p)] = p + 1 /\ data[cell(p)] \in Values
        \/ /\ sequence[cell(p)] = p
           /\ \E u \in Threads : Producing(u) /\ th[u].pos = p
    BY DEF QueueInv, Filled
  <2> QED  BY <1>1, <2>1, <2>2
<1>6. Vacant'
  <2> SUFFICES ASSUME NEW p \in enqueuePos_ .. dequeuePos_ + Capacity - 1
               PROVE  sequence'[cell(p)] \in {p, p - Capacity + 1}
    BY DEF Vacant
  <2>1. CASE p = P + Capacity
    BY <1>2, <2>1, CellAgain
  <2>2. CASE p # P + Capacity
    BY <1>4, <2>2, Bounds DEF QueueInv, Vacant
  <2> QED  BY <2>1, <2>2
<1>7. Claims'
  BY <1>1 DEF QueueInv, Claims
<1>8. ASSUME NEW u \in Threads PROVE Knows(u)'
  <2>1. CASE u = t
    BY <1>1, <1>2, <2>1 DEF Knows
  <2>2. CASE u # t
    <3>1. Relies(u) => sequence'[cell(th[u].pos)] = sequence[cell(th[u].pos)]
      BY <1>1, <1>2, <2>2, OwnCell, Bounds, CellType
    <3> QED  BY <1>1, <2>2, <3>1, Knows(u) DEF QueueInv, Knows, Relies, at
  <2> QED  BY <2>1, <2>2
<1> QED  BY <1>3, <1>5, <1>6, <1>7, <1>8 DEF QueueInv

\* Every step of the queue keeps the invariant.
LEMMA QueueSteps ==
    ASSUME Capacity >= 2, QueueInv, NEW t \in Threads, QueueStep(t)
    PROVE  QueueInv'
<1>1. CASE EnqPos(t) \/ DeqPos(t)
  BY <1>1, LoadsCursor, LocalStep DEF Outside
<1>2. CASE EnqSeq(t)
  BY <1>2, ComparesEnq, LocalStep DEF Outside
<1>3. CASE DeqSeq(t)
  BY <1>3, ComparesDeq, LocalStep DEF Outside
<1>4. CASE EnqCas(t)
  <2>1. CASE /\ enqueuePos_ = th[t].pos /\ enqueuePos_' = enqueuePos_ + 1
             /\ goto(t, "enqWrite")
    <3>1. Moved(t, "enqWrite")
      BY <2>1 DEF QueueInv, Types, goto, Moved, Alone, ThreadRecord, Places
    <3> QED  BY <1>4, <2>1, <3>1, EnqClaims DEF EnqCas
  <2>2. CASE /\ th' = [th EXCEPT ![t].pos = enqueuePos_, ![t].pc = "enqSeq"]
             /\ UNCHANGED enqueuePos_
    BY <1>4, <2>2, FailedCas, LocalStep DEF EnqCas, queue, Outside
  <2> QED  BY <1>4, <2>1, <2>2 DEF EnqCas
<1>5. CASE DeqCas(t)
  <2>1. CASE /\ dequeuePos_ = th[t].pos /\ dequeuePos_' = dequeuePos_ + 1
             /\ goto(t, "deqRead")
    <3>1. Moved(t, "deqRead")
      BY <2>1 DEF QueueInv, Types, goto, Moved, Alone, ThreadRecord, Places
    <3> QED  BY <1>5, <2>1, <3>1, DeqClaims DEF DeqCas
  <2>2. CASE /\ th' = [th EXCEPT ![t].pos = dequeuePos_, ![t].pc = "deqSeq"]
             /\ UNCHANGED dequeuePos_
    BY <1>5, <2>2, FailedCas, LocalStep DEF DeqCas, queue, Outside
  <2> QED  BY <1>5, <2>1, <2>2 DEF DeqCas
<1>6. CASE EnqWrite(t)
  <2>1. Moved(t, "enqPublish")
    BY <1>6 DEF EnqWrite, QueueInv, Types, goto, Moved, Alone, ThreadRecord,
                Places
  <2> QED  BY <1>6, <2>1, Writes DEF EnqWrite
<1>7. CASE EnqPublish(t)
  <2>0. th'[t] = [pc |-> "enqDone", pos |-> th[t].pos, item |-> NoItem,
                  ok |-> TRUE]
    BY <1>7 DEF EnqPublish, QueueInv, Types, ThreadRecord
  <2>1. Alone(t) /\ th'[t].pc = "enqDone"
    <3>1. th'[t] \in ThreadRecord
      BY <2>0, Bounds DEF ThreadRecord, Places, Item
    <3> QED  BY <1>7, <2>0, <3>1 DEF EnqPublish, QueueInv, Types, Alone
  <2> QED  BY <1>7, <2>1, Publishes DEF EnqPublish
<1>8. CASE DeqRead(t)
  <2>1. /\ Alone(t) /\ th'[t].pc = "deqRelease" /\ th'[t].pos = th[t].pos
        /\ th'[t].item = data[cell(th[t].pos)]
    BY <1>8, CellType
       DEF DeqRead, QueueInv, Types, Alone, ThreadRecord, Places
  <2> QED  BY <1>8, <2>1, Reads DEF DeqRead
<1>9. CASE DeqRelease(t)
  <2>1. /\ Alone(t) /\ th'[t].pc = "deqDone" /\ th'[t].ok = TRUE
        /\ th'[t].item = th[t].item
    BY <1>9 DEF DeqRelease, QueueInv, Types, Alone, ThreadRecord, Places
  <2> QED  BY <1>9, <2>1, Releases DEF DeqRelease
<1> QED  BY <1>1, <1>2, <1>3, <1>4, <1>5, <1>6, <1>7, <1>8, <1>9 DEF QueueStep
-----------------------------------------------------------------------------
(* The invariant of the queue by itself and of the queue in the pool.      *)

\* The buffer as the constructor of the queue leaves it.
LEMMA Empty ==
    ASSUME sequence = [i \in Cells |-> i], data = [i \in Cells |-> NoItem],
           enqueuePos_ = 0, dequeuePos_ = 0, th \in [Threads -> ThreadRecord],
           \A t \in Threads : th[t].pc \in {"idle", "workLoop"}
    PROVE  QueueInv
<1>1. Capacity \in Nat \ {0}
  BY QueueAssumption
<1>2. Types /\ Window /\ Filled
  BY <1>1 DEF Types, Window, Filled, Cells, Item
<1>3. Vacant
  <2> SUFFICES ASSUME NEW p \in 0 .. Capacity - 1
               PROVE  sequence[cell(p)] = p
    BY <1>1 DEF Vacant
  <2>1. p % Capacity = p
    BY <1>1
  <2> QED  BY <2>1 DEF cell, Cells
<1>4. Claims /\ \A t \in Threads : Knows(t)
  BY DEF Claims, Knows, Producing, Consuming
<1> QED  BY <1>2, <1>3, <1>4 DEF QueueInv

\* t gets the record r, which is at a place outside of the queue's loops.
LEMMA Assigned ==
    ASSUME QueueInv, NEW t \in Threads, UNCHANGED queue,
           ~Producing(t), ~Consuming(t), NEW r \in ThreadRecord,
           th' = [th EXCEPT ![t] = r],
           \/ r.pc \in {"idle", "workLoop"}
           \/ r.pc \in {"prodSlot", "enqPos"} /\ r.item \in Values
           \/ r.pc = "deqPos" /\ r.item = NoItem /\ ~r.ok
    PROVE  Outside(t) /\ th'[t].pc # "deqDone"
<1>1. Alone(t) /\ th'[t] = r
  BY DEF QueueInv, Types, Alone
<1> QED  BY <1>1 DEF Outside, Knows, Producing, Consuming

\* A call of enqueue is outside of the queue's loop.
LEMMA CallsEnqueue ==
    ASSUME QueueInv, NEW t \in Threads, NEW v \in Values,
           ~Producing(t), ~Consuming(t), Enqueue(t, v)
    PROVE  Outside(t) /\ th'[t].pc # "deqDone"
<1> DEFINE r == [Idle EXCEPT !.pc = "enqPos", !.item = v]
<1>1. r \in ThreadRecord /\ r.pc = "enqPos" /\ r.item = v
  BY DEF Idle, ThreadRecord, Places, Item
<1>2. UNCHANGED queue /\ th' = [th EXCEPT ![t] = r]
  BY DEF Enqueue
<1> HIDE DEF r
<1> QED  BY <1>1, <1>2, Assigned

\* Calls and returns of the queue by itself are outside of its loops.
LEMMA Calls ==
    ASSUME QueueInv, NEW t \in Threads,
           \/ at(t, "idle") /\ \E v \in Values : Enqueue(t, v)
           \/ at(t, "idle") /\ Dequeue(t)
           \/ Return(t)
    PROVE  Outside(t) /\ th'[t].pc # "deqDone"
<1>0. ~Producing(t) /\ ~Consuming(t)
  BY DEF at, Return, Producing, Consuming
<1>1. CASE at(t, "idle") /\ \E v \in Values : Enqueue(t, v)
  BY <1>0, <1>1, CallsEnqueue
<1> USE DEF QueueInv, Types, Idle, ThreadRecord, Places, Item, Outside, Alone,
            Producing, Consuming, Knows, at
<1>2. CASE at(t, "idle") /\ Dequeue(t)
  BY <1>2 DEF Dequeue
<1>3. CASE Return(t)
  BY <1>3 DEF Return
<1> QED  BY <1>1, <1>2, <1>3

\* The steps of run() and runInThread() around the queue are outside of its
\* loops.
LEMMA PoolCalls ==
    ASSUME QueueInv, NEW t \in Threads,
           \/ \E v \in Values : Run(t, v)
           \/ AcquireSlot(t) \/ ProdTest(t) \/ RunReturns(t)
           \/ WorkLoop(t) \/ AcquireItem(t) \/ WorkTest(t) \/ ReleaseSlot(t)
           \/ WorkTask(t)
    PROVE  Outside(t) /\ th'[t].pc # "deqDone"
<1>0. /\ ~Producing(t) /\ ~Consuming(t) /\ Types
      /\ th[t].pc = "prodTest" => th[t].item \in Values
  BY Knows(t)
     DEF at, Producing, Consuming, Run, AcquireSlot, ProdTest, RunReturns,
         WorkLoop, AcquireItem, WorkTest, ReleaseSlot, WorkTask, QueueInv, Knows
<1>1. ASSUME NEW v \in Values, Run(t, v)
      PROVE  Outside(t) /\ th'[t].pc # "deqDone"
  <2> DEFINE r == [Idle EXCEPT !.pc = "prodSlot", !.item = v]
  <2>1. r \in ThreadRecord /\ r.pc = "prodSlot" /\ r.item = v
    BY DEF Idle, ThreadRecord, Places, Item
  <2>2. UNCHANGED queue /\ th' = [th EXCEPT ![t] = r]
    BY <1>1 DEF Run
  <2> HIDE DEF r
  <2> QED  BY <1>0, <2>1, <2>2, Assigned
<1>2. CASE ProdTest(t)
  <2>1. CASE Enqueue(t, th[t].item)
    BY <1>0, <1>2, <2>1, CallsEnqueue DEF ProdTest, at
  <2>2. CASE th' = [th EXCEPT ![t] = Idle] /\ UNCHANGED queue
    <3>1. Idle \in ThreadRecord /\ Idle.pc = "idle"
      BY DEF Idle, ThreadRecord, Places, Item
    <3> QED  BY <1>0, <2>2, <3>1, Assigned
  <2> QED  BY <1>2, <2>1, <2>2 DEF ProdTest
<1>3. CASE WorkTest(t)
  <2>1. CASE Dequeue(t)
    <3> DEFINE r == [Idle EXCEPT !.pc = "deqPos"]
    <3>1. r \in ThreadRecord /\ r.pc = "deqPos" /\ r.item = NoItem /\ ~r.ok
      BY DEF Idle, ThreadRecord, Places, Item
    <3>2. UNCHANGED queue /\ th' = [th EXCEPT ![t] = r]
      BY <2>1 DEF Dequeue
    <3> HIDE DEF r
    <3> QED  BY <1>0, <3>1, <3>2, Assigned
  <2>2. CASE goto(t, "workExit") /\ UNCHANGED queue
    BY <1>0, <2>2 DEF goto, Outside, Alone, Types, ThreadRecord, Places,
                      Producing, Consuming, Knows
  <2> QED  BY <1>3, <2>1, <2>2 DEF WorkTest
<1> USE DEF QueueInv, Types, Idle, ThreadRecord, Places, Item, Outside, Alone,
            Producing, Consuming, Knows, at, goto
<1>4. CASE AcquireSlot(t)
  BY <1>4, Knows(t) DEF AcquireSlot
<1>5. CASE RunReturns(t)
  BY <1>5 DEF RunReturns
<1>6. CASE WorkLoop(t)
  BY <1>6 DEF WorkLoop
<1>7. CASE AcquireItem(t)
  BY <1>7 DEF AcquireItem
<1>8. CASE ReleaseSlot(t)
  BY <1>8 DEF ReleaseSlot
<1>9. CASE WorkTask(t)
  BY <1>9 DEF WorkTask
<1> QED  BY <1>1, <1>2, <1>3, <1>4, <1>5, <1>6, <1>7, <1>8, <1>9
-----------------------------------------------------------------------------
(* The theorems.                                                           *)

\* The invariant holds of the queue by itself.
LEMMA QueueInvariant == Capacity >= 2 => (Spec => []QueueInv)
<1> SUFFICES ASSUME Capacity >= 2 PROVE Spec => []QueueInv
  OBVIOUS
<1>1. Init => QueueInv
  BY Empty DEF Init, Idle, ThreadRecord, Places, Item
<1>2. QueueInv /\ [Next]_vars => QueueInv'
  <2> SUFFICES ASSUME QueueInv, [Next]_vars PROVE QueueInv'
    OBVIOUS
  <2>1. CASE UNCHANGED vars
    BY <2>1 DEF vars, queue, QueueInv, Types, Window, Filled, Vacant, Claims,
                Knows, Producing, Consuming
  <2>2. ASSUME NEW t \in Threads, QueueStep(t) PROVE QueueInv'
    BY <2>2, QueueSteps
  <2>3. ASSUME NEW t \in Threads,
               \/ at(t, "idle") /\ \E v \in Values : Enqueue(t, v)
               \/ at(t, "idle") /\ Dequeue(t)
               \/ Return(t)
        PROVE  QueueInv'
    BY <2>3, Calls, LocalStep DEF Outside
  <2> QED  BY <2>1, <2>2, <2>3 DEF Next
<1> QED  BY <1>1, <1>2, PTL DEF Spec

\* The pool starts with an empty queue.
LEMMA PoolEmpty ==
    ASSUME PoolInit
    PROVE  QueueInv /\ \A t \in Threads : th[t].pc \in {"idle", "workLoop"}
<1>1. /\ Idle \in ThreadRecord /\ Idle.pc = "idle"
      /\ [Idle EXCEPT !.pc = "workLoop"] \in ThreadRecord
      /\ [Idle EXCEPT !.pc = "workLoop"].pc = "workLoop"
  BY DEF Idle, ThreadRecord, Places, Item
<1>2. /\ th \in [Threads -> ThreadRecord]
      /\ \A t \in Threads : th[t].pc \in {"idle", "workLoop"}
  BY <1>1 DEF PoolInit
<1> QED  BY <1>2, Empty DEF PoolInit

\* The invariant holds of the queue inside the pool.
LEMMA PoolInvariant == Capacity >= 2 => (PoolSpec => []QueueInv)
<1> SUFFICES ASSUME Capacity >= 2 PROVE PoolSpec => []QueueInv
  OBVIOUS
<1>1. PoolInit => QueueInv
  BY PoolEmpty
<1>2. QueueInv /\ [PoolNext]_poolVars => QueueInv'
  <2> SUFFICES ASSUME QueueInv, [PoolNext]_poolVars PROVE QueueInv'
    OBVIOUS
  <2>1. CASE UNCHANGED <<queue, th>>
    BY <2>1 DEF queue, QueueInv, Types, Window, Filled, Vacant, Claims,
                Knows, Producing, Consuming
  <2>2. ASSUME NEW t \in Threads, QueueStep(t) PROVE QueueInv'
    BY <2>2, QueueSteps
  <2>3. ASSUME NEW t \in Threads,
               \/ \E v \in Values : Run(t, v)
               \/ AcquireSlot(t) \/ ProdTest(t) \/ RunReturns(t)
               \/ WorkLoop(t) \/ AcquireItem(t) \/ WorkTest(t)
               \/ ReleaseSlot(t) \/ WorkTask(t)
        PROVE  QueueInv'
    BY <2>3, PoolCalls, LocalStep DEF Outside
  <2>4. Producers \subseteq Threads
    BY PoolAssumption
  <2> QED
    BY <2>1, <2>2, <2>3, <2>4
       DEF PoolNext, PoolStep, Stop, StopReleases, poolVars, vars
<1> QED  BY <1>1, <1>2, PTL DEF PoolSpec

\* What the invariant is for.
LEMMA InvariantOwns ==
    ASSUME Capacity >= 2, QueueInv PROVE CellsAreOwned
<1> SUFFICES ASSUME NEW t \in Threads, NEW u \in Threads
             PROVE  /\ (t # u /\ (Producing(t) \/ Consuming(t))
                              /\ (Producing(u) \/ Consuming(u)))
                          => cell(th[t].pos) # cell(th[u].pos)
                    /\ Producing(t) => sequence[cell(th[t].pos)] = th[t].pos
                    /\ Consuming(t) => sequence[cell(th[t].pos)] = th[t].pos + 1
  BY DEF CellsAreOwned
<1> QED  BY OwnCell, Knows(t) DEF Relies, QueueInv, Knows

\* Whatever the threads that call enqueue and dequeue do, the cell that a
\* thread has claimed with its compare_exchange is its own until it stores
\* the cell's sequence.
THEOREM QueueCellsAreOwned == Capacity >= 2 => (Spec => []CellsAreOwned)
<1> SUFFICES ASSUME Capacity >= 2 PROVE Spec => []CellsAreOwned
  OBVIOUS
<1>1. Spec => []QueueInv
  BY QueueInvariant
<1>2. QueueInv => CellsAreOwned
  BY InvariantOwns
<1> QED  BY <1>1, <1>2, PTL

\* The same for the producers and workers of the pool, through stop() too.
THEOREM PoolCellsAreOwned == Capacity >= 2 => (PoolSpec => []CellsAreOwned)
<1> SUFFICES ASSUME Capacity >= 2 PROVE PoolSpec => []CellsAreOwned
  OBVIOUS
<1>1. PoolSpec => []QueueInv
  BY PoolInvariant
<1>2. QueueInv => CellsAreOwned
  BY InvariantOwns
<1> QED  BY <1>1, <1>2, PTL
-----------------------------------------------------------------------------
(* The refinement of FifoQueue.                                            *)

\* What the items of the abstract queue are.
ItemFacts ==
    \A p \in dequeuePos_ .. enqueuePos_ - 1 :
        /\ ItemAt(p) \in Values
        /\ sequence[cell(p)] = p + 1 => ItemAt(p) = data[cell(p)]
        /\ \A t \in Threads :
              Producing(t) /\ th[t].pos = p => ItemAt(p) = th[t].item

\* The producer of a position is unique, so its item is the one that the
\* abstract queue has there.
LEMMA ItemsKnown == QueueInv => ItemFacts
<1> SUFFICES ASSUME QueueInv, NEW p \in dequeuePos_ .. enqueuePos_ - 1
             PROVE  /\ ItemAt(p) \in Values
                    /\ sequence[cell(p)] = p + 1 => ItemAt(p) = data[cell(p)]
                    /\ \A t \in Threads :
                          Producing(t) /\ th[t].pos = p
                             => ItemAt(p) = th[t].item
  BY DEF ItemFacts
<1>1. p \in Nat /\ p + 1 # p
  BY Bounds
<1>2. CASE sequence[cell(p)] = p + 1 /\ data[cell(p)] \in Values
  <2>1. ItemAt(p) = data[cell(p)]
    BY <1>2 DEF ItemAt
  <2>2. \A t \in Threads : ~(Producing(t) /\ th[t].pos = p)
    BY <1>1, <1>2 DEF QueueInv, Knows
  <2> QED  BY <1>2, <2>1, <2>2
<1>3. CASE /\ sequence[cell(p)] = p
           /\ \E t \in Threads : Producing(t) /\ th[t].pos = p
  <2> DEFINE u == CHOOSE t \in Threads : Producing(t) /\ th[t].pos = p
  <2>1. u \in Threads /\ Producing(u) /\ th[u].pos = p
    BY <1>3
  <2>2. ItemAt(p) = th[u].item
    BY <1>1, <1>3 DEF ItemAt
  <2> HIDE DEF u
  <2>3. \A t \in Threads : Producing(t) /\ th[t].pos = p => t = u
    BY <2>1 DEF QueueInv, Claims
  <2>4. th[u].item \in Values
    BY <2>1 DEF QueueInv, Knows
  <2> QED  BY <1>1, <1>3, <2>2, <2>3, <2>4
<1> QED  BY <1>2, <1>3 DEF QueueInv, Filled

\* Items is a sequence of values.
LEMMA ItemsType ==
    ASSUME QueueInv
    PROVE  /\ Items \in Seq(Values) /\ Len(Items) = enqueuePos_ - dequeuePos_
           /\ \A i \in 1 .. enqueuePos_ - dequeuePos_ :
                 Items[i] = ItemAt(dequeuePos_ + i - 1)
<1>1. enqueuePos_ - dequeuePos_ \in Nat
  BY Bounds
<1>2. \A i \in 1 .. enqueuePos_ - dequeuePos_ :
         ItemAt(dequeuePos_ + i - 1) \in Values
  BY Bounds, ItemsKnown DEF ItemFacts
<1> QED  BY <1>1, <1>2 DEF Items

\* A step that leaves the cursors, what is published and what producers hold
\* leaves the items; so does one that publishes what a producer holds.
LEMMA SameItems ==
    ASSUME QueueInv, ItemFacts', UNCHANGED <<enqueuePos_, dequeuePos_>>,
           \A p \in dequeuePos_ .. enqueuePos_ - 1 :
              sequence[cell(p)] = p + 1
                 => /\ sequence'[cell(p)] = p + 1
                    /\ data'[cell(p)] = data[cell(p)],
           \A u \in Threads : Producing(u) =>
              \/ /\ Producing(u)' /\ th'[u].pos = th[u].pos
                 /\ th'[u].item = th[u].item
              \/ /\ sequence'[cell(th[u].pos)] = th[u].pos + 1
                 /\ data'[cell(th[u].pos)] = th[u].item
    PROVE  UNCHANGED Items
<1>1. ASSUME NEW p \in dequeuePos_ .. enqueuePos_ - 1
      PROVE  ItemAt(p)' = ItemAt(p)
  <2>1. CASE sequence[cell(p)] = p + 1
    BY <2>1, ItemsKnown DEF ItemFacts
  <2>2. CASE \E u \in Threads : Producing(u) /\ th[u].pos = p
    <3>1. PICK u \in Threads : Producing(u) /\ th[u].pos = p
      BY <2>2
    <3>2. ItemAt(p) = th[u].item
      BY <3>1, ItemsKnown DEF ItemFacts
    <3>3. ItemAt(p)' = th[u].item
      BY <3>1 DEF ItemFacts
    <3> QED  BY <3>2, <3>3
  <2> QED  BY <2>1, <2>2 DEF QueueInv, Filled
<1>2. \A i \in 1 .. enqueuePos_ - dequeuePos_ :
         dequeuePos_ + i - 1 \in dequeuePos_ .. enqueuePos_ - 1
  BY Bounds
<1>3. \A i \in 1 .. enqueuePos_ - dequeuePos_ :
         ItemAt(dequeuePos_ + i - 1)' = ItemAt(dequeuePos_ + i - 1)
  BY <1>1, <1>2
<1> QED  BY <1>3 DEF Items

\* A step of t that leaves the items and what every thread has got.
LEMMA SameGot ==
    ASSUME NEW t \in Threads, Alone(t), Got'[t] = Got[t],
           \A u \in Threads : u # t /\ at(u, "deqRead")
              => data'[cell(th[u].pos)] = data[cell(th[u].pos)]
    PROVE  UNCHANGED Got
<1>1. \A u \in Threads : Got'[u] = Got[u]
  BY DEF Got, Alone, at
<1> QED  BY <1>1 DEF Got

\* A position that stays in the queue while t claims another one keeps its
\* item.
LEMMA SameItem ==
    ASSUME QueueInv, ItemFacts', NEW t \in Threads, Alone(t), ~Producing(t),
           UNCHANGED <<sequence, data>>,
           NEW p \in dequeuePos_ .. enqueuePos_ - 1,
           p \in dequeuePos_' .. enqueuePos_' - 1
    PROVE  ItemAt(p)' = ItemAt(p)
<1>1. CASE sequence[cell(p)] = p + 1
  BY <1>1, ItemsKnown DEF ItemFacts
<1>2. CASE \E u \in Threads : Producing(u) /\ th[u].pos = p
  <2>1. PICK u \in Threads : Producing(u) /\ th[u].pos = p
    BY <1>2
  <2>2. u # t /\ th'[u] = th[u] /\ Producing(u)'
    BY <2>1 DEF Producing, Alone
  <2>3. ItemAt(p) = th[u].item /\ ItemAt(p)' = th[u].item
    BY <2>1, <2>2, ItemsKnown DEF ItemFacts
  <2> QED  BY <2>3
<1> QED  BY <1>1, <1>2 DEF QueueInv, Filled

\* A claim of a producer appends its item.
LEMMA ClaimEnqueues ==
    ASSUME Capacity >= 2, QueueInv, ItemFacts', NEW t \in Threads,
           at(t, "enqCas"), enqueuePos_ = th[t].pos,
           enqueuePos_' = enqueuePos_ + 1, Moved(t, "enqWrite"),
           UNCHANGED <<sequence, data, dequeuePos_>>
    PROVE  Fifo!Next
<1>0. th[t].item \in Values /\ enqueuePos_ - dequeuePos_ \in Nat
  BY Bounds, Knows(t) DEF QueueInv, Knows, at
<1>1. PICK D \in Nat, E \in Nat, n \in Nat, v \in Values :
         /\ D = dequeuePos_ /\ E = enqueuePos_ /\ n = E - D /\ v = th[t].item
  BY <1>0, Bounds
<1>2. /\ n < Capacity /\ dequeuePos_' = D /\ enqueuePos_' = E + 1
      /\ D .. E - 1 \subseteq D .. E /\ E \in D .. E /\ n + 1 = E + 1 - D
  BY <1>1, EnqClaims, Bounds
<1>3. ItemAt(E)' = v
  <2>1. Producing(t)' /\ th'[t].pos = E /\ th'[t].item = v
    BY <1>1 DEF Moved, Producing
  <2> QED  BY <1>2, <2>1 DEF ItemFacts
<1>4. \A p \in D .. E - 1 : ItemAt(p)' = ItemAt(p)
  BY <1>1, <1>2, SameItem DEF at, Moved, Producing
<1>5. Items' = Append(Items, v)
  <2>0. Items \in Seq(Values) /\ Len(Items) = n
    BY <1>1, ItemsType
  <2>1. Items' = [i \in 1 .. n + 1 |-> ItemAt(D + i - 1)']
    BY <1>2 DEF Items
  <2>2. \A i \in 1 .. n : ItemAt(D + i - 1)' = Items[i]
    <3> TAKE i \in 1 .. n
    <3>1. D + i - 1 \in D .. E - 1
      BY <1>1
    <3>2. Items[i] = ItemAt(D + i - 1)
      BY <1>1, ItemsType
    <3> QED  BY <1>4, <3>1, <3>2
  <2>3. ItemAt(D + (n + 1) - 1)' = v
    <3>1. D + (n + 1) - 1 = E
      BY <1>1
    <3> QED  BY <1>3, <3>1
  <2>4. /\ Append(Items, v) \in Seq(Values) /\ Len(Append(Items, v)) = n + 1
        /\ \A i \in 1 .. n : Append(Items, v)[i] = Items[i]
        /\ Append(Items, v)[n + 1] = v
    BY <2>0, AppendProperties
  <2>5. /\ Items' \in Seq(Values) /\ Len(Items') = n + 1
        /\ \A i \in 1 .. n + 1 : Items'[i] = ItemAt(D + i - 1)'
    <3>1. \A i \in 1 .. n : Items[i] \in Values
      BY <2>0
    <3>2. \A i \in 1 .. n + 1 : ItemAt(D + i - 1)' \in Values
      <4> TAKE i \in 1 .. n + 1
      <4>1. CASE i = n + 1
        BY <2>3, <4>1
      <4>2. CASE i \in 1 .. n
        BY <2>2, <3>1, <4>2
      <4> QED  BY <4>1, <4>2
    <3> QED  BY <2>1, <3>2
  <2>6. \A i \in 1 .. n + 1 : Items'[i] = Append(Items, v)[i]
    <3> TAKE i \in 1 .. n + 1
    <3>1. CASE i = n + 1
      BY <2>3, <2>4, <2>5, <3>1
    <3>2. CASE i \in 1 .. n
      BY <2>2, <2>4, <2>5, <3>2
    <3>3. i = n + 1 \/ i \in 1 .. n
      OBVIOUS
    <3> QED  BY <3>1, <3>2, <3>3, Zenon
  <2> QED  BY <2>4, <2>5, <2>6, SeqEqual
<1>6. UNCHANGED Got
  <2>1. Got'[t] = Got[t]
    BY DEF Got, Moved, at
  <2> QED  BY <2>1, SameGot DEF Moved
<1>7. Fifo!Enqueue(v)
  BY <1>1, <1>2, <1>5, <1>6, ItemsType DEF Fifo!Enqueue
<1> QED  BY <1>7 DEF Fifo!Next

\* A claim of a consumer takes the first item.
LEMMA ClaimDequeues ==
    ASSUME QueueInv, ItemFacts', NEW t \in Threads,
           at(t, "deqCas"), dequeuePos_ = th[t].pos,
           dequeuePos_' = dequeuePos_ + 1, Moved(t, "deqRead"),
           UNCHANGED <<sequence, data, enqueuePos_>>
    PROVE  Fifo!Next
<1>1. PICK D \in Nat, E \in Nat, n \in Nat :
         D = dequeuePos_ /\ E = enqueuePos_ /\ n = E - D
  BY Bounds
<1>2. /\ n # 0 /\ dequeuePos_' = D + 1 /\ enqueuePos_' = E
      /\ sequence[cell(D)] = D + 1 /\ D \in D .. E - 1
      /\ D + 1 .. E - 1 \subseteq D .. E - 1 /\ n - 1 = E - (D + 1)
  BY <1>1, DeqClaims, Bounds
<1>3. Items \in Seq(Values) /\ Len(Items) = n /\ Items # <<>>
  BY <1>1, <1>2, ItemsType
<1>4. Head(Items) = data[cell(D)]
  <2>1. Head(Items) = Items[1] /\ 1 \in 1 .. n /\ D + 1 - 1 = D
    BY <1>2, <1>3
  <2>2. Items[1] = ItemAt(D + 1 - 1)
    BY <1>1, <2>1, ItemsType
  <2>3. ItemAt(D) = data[cell(D)]
    BY <1>1, <1>2, ItemsKnown DEF ItemFacts
  <2> QED  BY <2>1, <2>2, <2>3
<1>5. Items' = Tail(Items)
  <2>0. \A p \in D + 1 .. E - 1 : ItemAt(p)' = ItemAt(p)
    BY <1>1, <1>2, SameItem DEF at, Moved, Producing
  <2>1. Items' = [i \in 1 .. n - 1 |-> ItemAt((D + 1) + i - 1)']
    BY <1>2 DEF Items
  <2>2. \A i \in 1 .. n - 1 : ItemAt((D + 1) + i - 1)' = Items[i + 1]
    <3> TAKE i \in 1 .. n - 1
    <3>1. /\ (D + 1) + i - 1 \in D + 1 .. E - 1 /\ i + 1 \in 1 .. n
          /\ D + (i + 1) - 1 = (D + 1) + i - 1
      BY <1>1
    <3>2. Items[i + 1] = ItemAt((D + 1) + i - 1)
      BY <1>1, <3>1, ItemsType
    <3> QED  BY <2>0, <3>1, <3>2
  <2>3. /\ Tail(Items) \in Seq(Values) /\ Len(Tail(Items)) = n - 1
        /\ \A i \in 1 .. n - 1 : Tail(Items)[i] = Items[i + 1]
    BY <1>3, HeadTailProperties
  <2>4. /\ Items' \in Seq(Values) /\ Len(Items') = n - 1
        /\ \A i \in 1 .. n - 1 : Items'[i] = ItemAt((D + 1) + i - 1)'
    <3>1. n - 1 \in Nat /\ \A i \in 1 .. n - 1 : Items[i + 1] \in Values
      BY <1>2, <1>3
    <3>2. \A i \in 1 .. n - 1 : ItemAt((D + 1) + i - 1)' \in Values
      BY <2>2, <3>1
    <3> QED  BY <2>1, <3>1, <3>2
  <2>5. \A i \in 1 .. n - 1 : Items'[i] = Tail(Items)[i]
    BY <2>2, <2>3, <2>4
  <2> QED  BY <2>3, <2>4, <2>5, SeqEqual
<1>6. /\ Got[t] = NoItem /\ Got'[t] = data[cell(D)]
      /\ \A u \in Threads : u # t => Got'[u] = Got[u]
  BY <1>1 DEF Got, Moved, Alone, at
<1>7. Got' = [Got EXCEPT ![t] = Head(Items)]
  BY <1>4, <1>6 DEF Got
<1>8. Fifo!Dequeue(t)
  BY <1>3, <1>5, <1>6, <1>7 DEF Fifo!Dequeue
<1> QED  BY <1>8 DEF Fifo!Next

\* A step outside of the queue leaves the items.
LEMMA OutsideItems ==
    ASSUME QueueInv, ItemFacts', NEW t \in Threads, Outside(t)
    PROVE  /\ UNCHANGED Items /\ \A u \in Threads : u # t => Got'[u] = Got[u]
           /\ Got'[t] = Got[t] => UNCHANGED Got
<1>1. \A u \in Threads : Producing(u) => th'[u] = th[u] /\ Producing(u)'
  BY DEF Outside, Alone, Producing
<1>2. UNCHANGED Items
  BY <1>1, SameItems DEF Outside, queue
<1>3. \A u \in Threads : u # t => Got'[u] = Got[u]
  BY DEF Outside, Alone, queue, Got, at
<1> QED  BY <1>2, <1>3 DEF Got

\* Every step of the queue's loops is a step of the abstract queue, or none.
LEMMA QueueRefines ==
    ASSUME Capacity >= 2, QueueInv, QueueInv', ItemFacts', NEW t \in Threads,
           QueueStep(t)
    PROVE  [Fifo!Next]_<<Items, Got>>
<1>1. CASE EnqPos(t) \/ DeqPos(t)
  BY <1>1, LoadsCursor, OutsideItems
<1>2. CASE EnqSeq(t)
  BY <1>2, ComparesEnq, OutsideItems
<1>3. CASE DeqSeq(t)
  BY <1>3, ComparesDeq, OutsideItems
<1>4. CASE EnqCas(t)
  <2>1. CASE /\ enqueuePos_ = th[t].pos /\ enqueuePos_' = enqueuePos_ + 1
             /\ goto(t, "enqWrite")
    <3>1. Moved(t, "enqWrite")
      BY <2>1 DEF QueueInv, Types, goto, Moved, Alone, ThreadRecord, Places
    <3> QED  BY <1>4, <2>1, <3>1, ClaimEnqueues DEF EnqCas
  <2>2. CASE /\ th' = [th EXCEPT ![t].pos = enqueuePos_, ![t].pc = "enqSeq"]
             /\ UNCHANGED enqueuePos_
    <3>1. Outside(t) /\ Got'[t] = Got[t]
      BY <1>4, <2>2, FailedCas DEF EnqCas, queue
    <3> QED  BY <3>1, OutsideItems
  <2> QED  BY <1>4, <2>1, <2>2 DEF EnqCas
<1>5. CASE DeqCas(t)
  <2>1. CASE /\ dequeuePos_ = th[t].pos /\ dequeuePos_' = dequeuePos_ + 1
             /\ goto(t, "deqRead")
    <3>1. Moved(t, "deqRead")
      BY <2>1 DEF QueueInv, Types, goto, Moved, Alone, ThreadRecord, Places
    <3> QED  BY <1>5, <2>1, <3>1, ClaimDequeues DEF DeqCas
  <2>2. CASE /\ th' = [th EXCEPT ![t].pos = dequeuePos_, ![t].pc = "deqSeq"]
             /\ UNCHANGED dequeuePos_
    <3>1. Outside(t) /\ Got'[t] = Got[t]
      BY <1>5, <2>2, FailedCas DEF DeqCas, queue
    <3> QED  BY <3>1, OutsideItems
  <2> QED  BY <1>5, <2>1, <2>2 DEF DeqCas
<1> USE CellType
<1>6. CASE EnqWrite(t)
  <2>1. Moved(t, "enqPublish") /\ Producing(t) /\ th[t].pos \in Nat
    BY <1>6 DEF EnqWrite, QueueInv, Types, goto, Moved, Alone, ThreadRecord,
                Places, Producing, at
  <2>2. ASSUME NEW p \in dequeuePos_ .. enqueuePos_ - 1,
               sequence[cell(p)] = p + 1
        PROVE  data'[cell(p)] = data[cell(p)]
    <3>1. p # th[t].pos /\ p \in dequeuePos_ .. dequeuePos_ + Capacity - 1
      BY <2>1, <2>2, Bounds, Knows(t) DEF QueueInv, Knows
    <3> QED  BY <1>6, <2>1, <3>1, ProducerCell, Bounds DEF EnqWrite
  <2>3. ASSUME NEW u \in Threads, u # t, at(u, "deqRead")
        PROVE  data'[cell(th[u].pos)] = data[cell(th[u].pos)]
    BY <1>6, <2>1, <2>3, OwnCell, Bounds
       DEF EnqWrite, Relies, Producing, Consuming, at
  <2>4. \A u \in Threads : Producing(u) => /\ Producing(u)'
                                           /\ th'[u].pos = th[u].pos
                                           /\ th'[u].item = th[u].item
    BY <2>1 DEF Moved, Alone, Producing
  <2>5. UNCHANGED Items
    BY <1>6, <2>2, <2>4, SameItems DEF EnqWrite
  <2>6. Got'[t] = Got[t]
    BY <1>6, <2>1 DEF Got, Moved, EnqWrite, at
  <2> QED  BY <2>1, <2>3, <2>5, <2>6, SameGot DEF Moved
<1>7. CASE EnqPublish(t)
  <2>0. Alone(t)
    <3>1. th'[t] = [pc |-> "enqDone", pos |-> th[t].pos, item |-> NoItem,
                    ok |-> TRUE]
      BY <1>7 DEF EnqPublish, QueueInv, Types, ThreadRecord
    <3>2. th'[t] \in ThreadRecord
      BY <3>1, Bounds DEF ThreadRecord, Places, Item
    <3> QED  BY <1>7, <3>2 DEF EnqPublish, QueueInv, Types, Alone
  <2>1. /\ Producing(t) /\ th[t].pos \in Nat /\ th'[t].pc = "enqDone"
        /\ data[cell(th[t].pos)] = th[t].item
        /\ sequence[cell(th[t].pos)] = th[t].pos
        /\ sequence'[cell(th[t].pos)] = th[t].pos + 1
    BY <1>7, Knows(t), Bounds
       DEF EnqPublish, QueueInv, Types, Producing, at, Knows
  <2>2. \A u \in Threads : u # t /\ Producing(u) => Producing(u)'
    BY <2>0 DEF Producing, Alone
  <2>3. ASSUME NEW p \in dequeuePos_ .. enqueuePos_ - 1,
               sequence[cell(p)] = p + 1
        PROVE  sequence'[cell(p)] = p + 1
    <3>1. p # th[t].pos /\ p \in dequeuePos_ .. dequeuePos_ + Capacity - 1
      BY <2>1, <2>3, Bounds
    <3> QED  BY <1>7, <2>1, <2>3, <3>1, ProducerCell, Bounds DEF EnqPublish
  <2>4. UNCHANGED data /\ UNCHANGED <<enqueuePos_, dequeuePos_>>
    BY <1>7 DEF EnqPublish
  <2>5. UNCHANGED Items
    BY <2>0, <2>1, <2>2, <2>3, <2>4, SameItems DEF Alone
  <2>6. Got'[t] = Got[t]
    BY <1>7, <2>1 DEF Got, EnqPublish, at
  <2>7. UNCHANGED Got
    BY <2>0, <2>4, <2>6, SameGot
  <2> QED  BY <2>5, <2>7
<1>8. CASE DeqRead(t)
  <2>0. Alone(t)
    BY <1>8 DEF DeqRead, QueueInv, Types, Alone, ThreadRecord, Places
  <2>1. /\ Consuming(t) /\ th[t].pos \in Nat /\ th'[t].pc = "deqRelease"
        /\ th'[t].item = data[cell(th[t].pos)]
        /\ enqueuePos_ <= th[t].pos + Capacity
    <3>1. Consuming(t) /\ th[t].pos \in Nat
      BY <1>8, Bounds DEF DeqRead, Consuming, at
    <3>2. enqueuePos_ <= th[t].pos + Capacity
      BY <3>1, Knows(t) DEF QueueInv, Knows
    <3>3. /\ th'[t].pc = "deqRelease"
          /\ th'[t].item = data[cell(th[t].pos)]
      BY <1>8 DEF DeqRead, QueueInv, Types, ThreadRecord
    <3> QED  BY <3>1, <3>2, <3>3
  <2>2. ASSUME NEW p \in dequeuePos_ .. enqueuePos_ - 1
        PROVE  data'[cell(p)] = data[cell(p)]
    <3>1. /\ p # th[t].pos + Capacity
          /\ p \in dequeuePos_ .. dequeuePos_ + Capacity - 1
      BY <2>1, Bounds
    <3> QED  BY <1>8, <2>1, <3>1, ConsumerCell, Bounds DEF DeqRead
  <2>3. ASSUME NEW u \in Threads, u # t, at(u, "deqRead")
        PROVE  data'[cell(th[u].pos)] = data[cell(th[u].pos)]
    BY <1>8, <2>1, <2>3, OwnCell, Bounds
       DEF DeqRead, Relies, Producing, Consuming, at
  <2>4. \A u \in Threads : Producing(u) => Producing(u)' /\ th'[u] = th[u]
    BY <2>0, <2>1 DEF Producing, Consuming, Alone
  <2>5. UNCHANGED Items
    BY <1>8, <2>2, <2>4, SameItems DEF DeqRead
  <2>6. Got'[t] = Got[t]
    BY <1>8, <2>1 DEF Got, DeqRead, at
  <2>7. UNCHANGED Got
    BY <2>0, <2>3, <2>6, SameGot
  <2> QED  BY <2>5, <2>7
<1>9. CASE DeqRelease(t)
  <2>0. Alone(t)
    BY <1>9 DEF DeqRelease, QueueInv, Types, Alone, ThreadRecord, Places
  <2>1. /\ Consuming(t) /\ th[t].pos \in Nat /\ th'[t].pc = "deqDone"
        /\ th'[t].item = th[t].item
        /\ enqueuePos_ <= th[t].pos + Capacity
    BY <1>9, Knows(t), Bounds
       DEF DeqRelease, QueueInv, Types, Consuming, at, Knows, ThreadRecord
  <2>2. ASSUME NEW p \in dequeuePos_ .. enqueuePos_ - 1
        PROVE  sequence'[cell(p)] = sequence[cell(p)]
    <3>1. /\ p # th[t].pos + Capacity
          /\ p \in dequeuePos_ .. dequeuePos_ + Capacity - 1
      BY <2>1, Bounds
    <3> QED  BY <1>9, <2>1, <3>1, ConsumerCell, Bounds DEF DeqRelease
  <2>3. \A u \in Threads : Producing(u) => Producing(u)' /\ th'[u] = th[u]
    BY <2>0, <2>1 DEF Producing, Consuming, Alone
  <2>4. UNCHANGED data /\ UNCHANGED <<enqueuePos_, dequeuePos_>>
    BY <1>9 DEF DeqRelease
  <2>5. UNCHANGED Items
    BY <2>2, <2>3, <2>4, SameItems
  <2>6. Got'[t] = Got[t]
    BY <1>9, <2>1 DEF Got, DeqRelease, at
  <2>7. UNCHANGED Got
    BY <2>0, <2>4, <2>6, SameGot
  <2> QED  BY <2>5, <2>7
<1> QED  BY <1>1, <1>2, <1>3, <1>4, <1>5, <1>6, <1>7, <1>8, <1>9 DEF QueueStep

\* A step outside of the queue is the use of an item, or nothing, for the
\* abstract queue: t has an item before it only when its dequeue has given
\* it one, and none after it.
LEMMA OutsideRefines ==
    ASSUME QueueInv, ItemFacts', NEW t \in Threads, Outside(t),
           Got'[t] \in {Got[t], NoItem}
    PROVE  [Fifo!Next]_<<Items, Got>>
<1>1. CASE Got'[t] = Got[t]
  BY <1>1, OutsideItems
<1>2. CASE Got'[t] = NoItem /\ Got[t] # NoItem
  <2>1. Got' = [Got EXCEPT ![t] = NoItem]
    BY <1>2, OutsideItems DEF Got
  <2>2. Fifo!Use(t)
    BY <1>2, <2>1, OutsideItems DEF Fifo!Use
  <2> QED  BY <2>2 DEF Fifo!Next
<1> QED  BY <1>1, <1>2

\* A step outside of the queue that is not its last one takes an item from t
\* or leaves it.
LEMMA OutsideGot ==
    ASSUME QueueInv, NEW t \in Threads, Outside(t), th'[t].pc # "deqDone"
    PROVE  Got'[t] \in {Got[t], NoItem}
BY DEF Outside, Consuming, Got, at

\* Both specifications begin with the abstract queue empty.
LEMMA EmptyItems ==
    ASSUME QueueInv, enqueuePos_ = 0, dequeuePos_ = 0,
           \A t \in Threads : th[t].pc \in {"idle", "workLoop"}
    PROVE  Fifo!Init
<1>1. Items = <<>>
  BY ItemsType, EmptySeq
<1>2. Got = [t \in Threads |-> NoItem]
  BY DEF Got, at
<1> QED  BY <1>1, <1>2 DEF Fifo!Init

\* MPMCQueue is a bounded FIFO queue: the order of the compare_exchanges is
\* the order of the items, each goes to one consumer, and there are never
\* more than Capacity.
THEOREM QueueImplementsFifo == Capacity >= 2 => (Spec => ImplementsFifo)
<1> SUFFICES ASSUME Capacity >= 2 PROVE Spec => ImplementsFifo
  OBVIOUS
<1>1. Spec => []QueueInv
  BY QueueInvariant
<1>2. Init => Fifo!Init
  <2> SUFFICES ASSUME Init PROVE Fifo!Init
    OBVIOUS
  <2>1. QueueInv
    BY Empty DEF Init, Idle, ThreadRecord, Places, Item
  <2> QED  BY <2>1, EmptyItems DEF Init, Idle
<1>3. (QueueInv => ItemFacts)'
  BY ItemsKnown, PTL
<1>4. QueueInv /\ QueueInv' /\ [Next]_vars => [Fifo!Next]_<<Items, Got>>
  <2> SUFFICES ASSUME QueueInv, QueueInv', ItemFacts', [Next]_vars
               PROVE  [Fifo!Next]_<<Items, Got>>
    BY <1>3
  <2>1. CASE UNCHANGED vars
    BY <2>1 DEF vars, queue, Items, ItemAt, Got, at, Producing
  <2>2. ASSUME NEW t \in Threads, QueueStep(t)
        PROVE  [Fifo!Next]_<<Items, Got>>
    BY <2>2, QueueRefines
  <2>3. ASSUME NEW t \in Threads,
               \/ at(t, "idle") /\ \E v \in Values : Enqueue(t, v)
               \/ at(t, "idle") /\ Dequeue(t)
               \/ Return(t)
        PROVE  [Fifo!Next]_<<Items, Got>>
    BY <2>3, Calls, OutsideGot, OutsideRefines
  <2> QED  BY <2>1, <2>2, <2>3 DEF Next
<1> QED  BY <1>1, <1>2, <1>4, PTL DEF Spec, ImplementsFifo, Fifo!Spec

\* Inside the pool the queue stays a bounded FIFO queue, whatever stop(), the
\* semaphores and failed dequeues do.
THEOREM PoolImplementsFifo == Capacity >= 2 => (PoolSpec => ImplementsFifo)
<1> SUFFICES ASSUME Capacity >= 2 PROVE PoolSpec => ImplementsFifo
  OBVIOUS
<1>1. PoolSpec => []QueueInv
  BY PoolInvariant
<1>2. PoolInit => QueueInv /\ Fifo!Init
  <2> SUFFICES ASSUME PoolInit PROVE QueueInv /\ Fifo!Init
    OBVIOUS
  <2>1. QueueInv /\ \A t \in Threads : th[t].pc \in {"idle", "workLoop"}
    BY PoolEmpty
  <2> QED  BY <2>1, EmptyItems DEF PoolInit
<1>3. (QueueInv => ItemFacts)'
  BY ItemsKnown, PTL
<1>4. QueueInv /\ QueueInv' /\ [PoolNext]_poolVars => [Fifo!Next]_<<Items, Got>>
  <2> SUFFICES ASSUME QueueInv, QueueInv', ItemFacts', [PoolNext]_poolVars
               PROVE  [Fifo!Next]_<<Items, Got>>
    BY <1>3
  <2>1. CASE UNCHANGED <<queue, th>>
    BY <2>1 DEF queue, Items, ItemAt, Got, at, Producing
  <2>2. ASSUME NEW t \in Threads, QueueStep(t)
        PROVE  [Fifo!Next]_<<Items, Got>>
    BY <2>2, QueueRefines
  <2>3. ASSUME NEW t \in Threads,
               \/ \E v \in Values : Run(t, v)
               \/ AcquireSlot(t) \/ ProdTest(t) \/ RunReturns(t)
               \/ WorkLoop(t) \/ AcquireItem(t) \/ WorkTest(t)
               \/ ReleaseSlot(t) \/ WorkTask(t)
        PROVE  [Fifo!Next]_<<Items, Got>>
    BY <2>3, PoolCalls, OutsideGot, OutsideRefines
  <2>4. Producers \subseteq Threads
    BY PoolAssumption
  <2> QED
    BY <2>1, <2>2, <2>3, <2>4
       DEF PoolNext, PoolStep, Stop, StopReleases, poolVars, vars
<1> QED  BY <1>1, <1>2, <1>4, PTL DEF PoolSpec, ImplementsFifo, Fifo!Spec
=============================================================================
