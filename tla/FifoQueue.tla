------------------------------ MODULE FifoQueue ------------------------------
(***************************************************************************)
(* What a bounded queue shared by threads promises: an item leaves in the  *)
(* order it came, once, to one thread, and there are never more than       *)
(* Capacity of them.  Whether an attempt fails is left open.               *)
(***************************************************************************)
EXTENDS Naturals, Sequences

CONSTANTS Threads, Values, Capacity, NoItem

VARIABLES items,   \* the items in the queue
          got      \* what each thread has taken and not yet used

Init == items = <<>> /\ got = [t \in Threads |-> NoItem]

Enqueue(v) == /\ Len(items) < Capacity
              /\ items' = Append(items, v)
              /\ UNCHANGED got

Dequeue(t) == /\ items # <<>>
              /\ got[t] = NoItem
              /\ items' = Tail(items)
              /\ got' = [got EXCEPT ![t] = Head(items)]

Use(t) == /\ got[t] # NoItem
          /\ got' = [got EXCEPT ![t] = NoItem]
          /\ UNCHANGED items

Next == \/ \E v \in Values : Enqueue(v)
        \/ \E t \in Threads : Dequeue(t) \/ Use(t)

Spec == Init /\ [][Next]_<<items, got>>

=============================================================================
