----------------------------- MODULE UringPoller -----------------------------
(***************************************************************************)
(* io_uring/uring_poller.cpp, and the await_suspend of the awaiters, as    *)
(* functions on the record of one ring.  An operation is named by the      *)
(* coroutine that waits for it, or Wakeup, the poll of the eventfd.        *)
(*   sq       operations prepared and not submitted: pending_sqes_ is      *)
(*            their number                                                 *)
(*   kernel   operations submitted and not completed                       *)
(*   cq       completions of the completion queue, oldest first            *)
(*   active   completions of active_cqes_ not yet handled                  *)
(*   refused  operations that found no room in the submission queue: they  *)
(*            are nowhere, and who waits for one is never resumed          *)
(*   whole    io_uring_submit has always taken all of sq                   *)
(*   faults   bound: how often it may still take less                      *)
(* How io_uring_submit ends is the kernel's choice, so what calls it has a *)
(* set of rings for a result.                                              *)
(* active_cqes_ has pointers to the entries of the queue's memory, which   *)
(* io_uring_cq_advance has given back to the kernel before they are read.  *)
(* wakeupPollArmed_ is written and never read.                             *)
(***************************************************************************)
EXTENDS Integers, Sequences, FiniteSets

CONSTANTS SqEntries, CqEntries,   \* the sizes of the two queues: 1024, 2048
          min_submit_sqes_

ASSUME RingAssumption ==
    /\ SqEntries \in Nat \ {0} /\ CqEntries \in Nat \ {0}
    /\ min_submit_sqes_ \in Nat

Wakeup == <<"wakeup">>

NewRing(faults) == [sq |-> {}, kernel |-> {}, cq |-> <<>>, active |-> <<>>,
                    refused |-> {}, whole |-> TRUE, faults |-> faults]

\* io_uring_submit takes all, or leaves some of them or, when it fails, all
\* (external).
submitPendingSqes(r) ==
    {[r EXCEPT !.kernel = @ \cup r.sq, !.sq = {}]} \cup
    {[r EXCEPT !.kernel = @ \cup (r.sq \ left), !.sq = left, !.whole = FALSE,
               !.faults = @ - 1] :
        left \in {L \in SUBSET r.sq : L # {} /\ r.faults > 0}}

hasRoom(r) == Cardinality(r.sq) < SqEntries

\* getSqe makes room by submitting.
getSqe(r) == IF hasRoom(r) THEN {r} ELSE submitPendingSqes(r)

\* Mutant: the last entry is used again when there is no other.
prepareOver(r, op) ==
    {[r EXCEPT !.sq = (IF hasRoom(r) THEN @ ELSE @ \ {CHOOSE x \in @ : TRUE})
                          \cup {op}]}

\* submitRead, submitWrite, submitAccept: false, which nobody looks at, when
\* there is no entry.
prepare(r, op) ==
    {IF hasRoom(r1) THEN [r1 EXCEPT !.sq = @ \cup {op}]
                    ELSE [r1 EXCEPT !.refused = @ \cup {op}] : r1 \in getSqe(r)}

submitIfNeeded(r) ==
    IF Cardinality(r.sq) >= min_submit_sqes_ THEN submitPendingSqes(r) ELSE {r}

\* await_suspend of ReadAwaiter, WriteAwaiter and AcceptAwaiter.
await_suspend(r, op) == UNION {submitIfNeeded(r1) : r1 \in prepare(r, op)}

registerWakeupPoll(r) ==
    UNION {IF Wakeup \in r1.refused THEN {r1} ELSE submitPendingSqes(r1) :
               r1 \in prepare(r, Wakeup)}

\* poll(): active_cqes_ gets all there is, and the queue is advanced.
collect(r) == [r EXCEPT !.active = r.cq, !.cq = <<>>]

\* The next entry of active_cqes_ is handled.
handled(r) == [r EXCEPT !.active = Tail(@)]

\* The kernel completes an operation (external).  The entries that are not
\* handled lie before the ones in the queue, where the new one comes last:
\* it may be written over number at of those.
complete(r, op, res) ==
    LET cqe == [op |-> op, res |-> res]
        at == Len(r.active) + Len(r.cq) + 1 - CqEntries
    IN  [r EXCEPT !.kernel = @ \ {op}, !.cq = Append(@, cqe),
                  !.active = IF at > 0 THEN [@ EXCEPT ![at] = cqe] ELSE @]

\* How often an operation is somewhere in the ring.
Occurrences(r, op) ==
    Cardinality({x \in {"sq"} : op \in r.sq} \cup
                {x \in {"kernel"} : op \in r.kernel} \cup
                {<<"cq", i>> : i \in {j \in DOMAIN r.cq : r.cq[j].op = op}} \cup
                {<<"active", i>> :
                    i \in {j \in DOMAIN r.active : r.active[j].op = op}})

=============================================================================
