-------------------------- MODULE TimerQueueProofs --------------------------
(***************************************************************************)
(* TimerQueue, for any addresses, threads, intervals and bounds: the sets  *)
(* of timers agree with the Timer objects, the timerfd is armed for the    *)
(* first of them, and cancel() is exact.                                   *)
(*                                                                         *)
(* Agree is TimersAgree by address, with what it needs to be inductive: an *)
(* address is in one functor at most, and there is a batch during          *)
(* handleRead only.  Armed is ArmedForFirst and types.  CancelIsExact      *)
(* needs Exact: the sequence numbers of the timers that exist differ and   *)
(* none that is over is given out again, and a timer that exists and is    *)
(* over is in the batch, behind its turn, and will not be restarted.       *)
(***************************************************************************)
EXTENDS TimerQueue, SequenceTheorems, WellFoundedInduction, TLAPS

Timers == [sequence : Nat, expiration : Nat, interval : Nat]
TimerIds == [timer : Addrs, sequence : Nat, of : Nat]
Functors ==
    [kind : {"add"}, timer : Addrs] \cup [kind : {"cancel"}, id : TimerIds]

Types ==
    /\ heap \in [Addrs -> Timers \cup {Free}]
    /\ numCreated \in Nat
    /\ timers_ \subseteq Nat \X Addrs /\ expired \subseteq Nat \X Addrs
    /\ todo \subseteq expired
    /\ ~callingExpiredTimers_ => expired = {}
    /\ queue \in Seq(Functors)
    /\ tpc \in [Threads -> {idle} \cup (Addrs \X Nat)]
    /\ ids \subseteq TimerIds

\* Address a is of an entry of S, and of a timer on its way to the loop.
In(S, a) == \E e \in S : e[2] = a
Adds(q, i, a) == q[i].kind = "add" /\ q[i].timer = a
Waits(q, a) == \E i \in DOMAIN q : Adds(q, i, a)

\* An address is on its way once.
Once(q) == \A a \in Addrs : \A i, j \in DOMAIN q :
              Adds(q, i, a) /\ Adds(q, j, a) => i = j

\* Every timer is in one place, and what is not a timer in none.
Placed ==
    \A a \in Addrs :
        /\ heap[a] # Free <=>
               In(timers_, a) \/ In(expired, a) \/ Waits(queue, a)
        /\ ~(In(timers_, a) /\ In(expired, a))
        /\ ~(Waits(queue, a) /\ (In(timers_, a) \/ In(expired, a)))

OnTime == \A e \in timers_ \cup expired : heap[e[2]].expiration = e[1]

Active == activeTimers_ = {Key(heap, e) : e \in timers_}

Agree == Types /\ Once(queue) /\ Placed /\ OnTime /\ Active
-----------------------------------------------------------------------------
(* The loop's functors.                                                    *)

\* A functor is queued behind the others.
LEMMA AppendWaits ==
    ASSUME NEW q \in Seq(Functors), NEW f \in Functors, Once(q),
           NEW a \in Addrs, f.kind = "add" => f.timer = a /\ ~Waits(q, a)
    PROVE  /\ Append(q, f) \in Seq(Functors)
           /\ Once(Append(q, f))
           /\ \A b \in Addrs : Waits(Append(q, f), b) <=>
                                  Waits(q, b) \/ (f.kind = "add" /\ b = a)
<1> DEFINE r == Append(q, f)
           n == Len(q) + 1
<1>1. /\ r \in Seq(Functors) /\ DOMAIN q = 1 .. Len(q) /\ Len(q) \in Nat
      /\ DOMAIN r = 1 .. n /\ r[n] = f
      /\ \A i \in 1 .. Len(q) : r[i] = q[i]
  BY AppendProperties
<1>2. \A i \in DOMAIN r : i = n \/ i \in DOMAIN q
  BY <1>1
<1>3. n \in DOMAIN r /\ n \notin DOMAIN q /\ \A i \in DOMAIN q : i \in DOMAIN r
  BY <1>1
<1> HIDE DEF r, n
<1>4. \A b \in Addrs : /\ \A i \in DOMAIN q : Adds(r, i, b) <=> Adds(q, i, b)
                       /\ Adds(r, n, b) <=> f.kind = "add" /\ f.timer = b
  BY <1>1 DEF Adds
<1>5. \A b \in Addrs : Waits(r, b) <=> Waits(q, b) \/ (f.kind = "add" /\ b = a)
  BY <1>2, <1>3, <1>4 DEF Waits
<1>6. Once(r)
  <2> SUFFICES ASSUME NEW b \in Addrs, NEW i \in DOMAIN r, NEW j \in DOMAIN r,
                      Adds(r, i, b), Adds(r, j, b)
               PROVE  i = j
    BY DEF Once
  <2>1. CASE i \in DOMAIN q /\ j \in DOMAIN q
    BY <1>4, <2>1 DEF Once
  <2>2. CASE i = n /\ j = n
    BY <2>2
  <2>3. CASE i = n /\ j \in DOMAIN q
    BY <1>4, <2>3 DEF Waits
  <2>4. CASE i \in DOMAIN q /\ j = n
    BY <1>4, <2>4 DEF Waits
  <2> QED  BY <1>2, <2>1, <2>2, <2>3, <2>4
<1> QED  BY <1>1, <1>5, <1>6 DEF r

\* The first functor is taken.
LEMMA TailWaits ==
    ASSUME NEW q \in Seq(Functors), q # <<>>, Once(q)
    PROVE  /\ Head(q) \in Functors /\ Tail(q) \in Seq(Functors)
           /\ Once(Tail(q))
           /\ \A a \in Addrs :
                 /\ Waits(q, a) <=> \/ Waits(Tail(q), a)
                                    \/ Head(q).kind = "add" /\ Head(q).timer = a
                 /\ Head(q).kind = "add" /\ Head(q).timer = a
                       => ~Waits(Tail(q), a)
<1> DEFINE r == Tail(q)
           h == Head(q)
<1>1. /\ h \in Functors /\ r \in Seq(Functors) /\ h = q[1]
      /\ Len(q) \in Nat \ {0} /\ DOMAIN q = 1 .. Len(q)
      /\ DOMAIN r = 1 .. Len(q) - 1
      /\ \A i \in 1 .. Len(q) - 1 : r[i] = q[i + 1]
  BY HeadTailProperties, EmptySeq
<1>2. /\ \A i \in DOMAIN q : i = 1 \/ (i - 1 \in DOMAIN r /\ i = (i - 1) + 1)
      /\ \A i \in DOMAIN r : i + 1 \in DOMAIN q /\ i + 1 # 1 /\ i \in Nat
      /\ 1 \in DOMAIN q
  BY <1>1
<1> HIDE DEF r, h
<1>3. \A a \in Addrs :
         /\ \A i \in DOMAIN r : Adds(r, i, a) <=> Adds(q, i + 1, a)
         /\ Adds(q, 1, a) <=> h.kind = "add" /\ h.timer = a
  BY <1>1 DEF Adds
<1>4. \A a \in Addrs : Waits(q, a) <=> Waits(r, a) \/ Adds(q, 1, a)
  BY <1>2, <1>3 DEF Waits
<1>5. Once(r)
  BY <1>2, <1>3 DEF Once
<1>6. \A a \in Addrs : Adds(q, 1, a) => ~Waits(r, a)
  BY <1>2, <1>3 DEF Once, Waits
<1> QED  BY <1>1, <1>3, <1>4, <1>5, <1>6 DEF r, h
-----------------------------------------------------------------------------
(* How the sets of timers change.                                          *)

\* A Timer that exists.
LEMMA TimerIs ==
    ASSUME Types, NEW a \in Addrs, heap[a] # Free
    PROVE  /\ heap[a] \in Timers /\ heap[a].sequence \in Nat
           /\ heap[a].expiration \in Nat /\ heap[a].interval \in Nat
BY DEF Types, Timers

\* What is made is not a deleted Timer.
LEMMA TimerIsNotFree ==
    ASSUME NEW timer \in Timers
    PROVE  timer # Free
<1>1. timer.sequence \in Nat
  BY DEF Timers
<1>2. Free.sequence = -1
  BY DEF Free
<1> QED  BY <1>1, <1>2

\* Nothing that Agree speaks of changes.
LEMMA AgreeKept ==
    ASSUME Agree, UNCHANGED <<heap, timers_, activeTimers_, expired>>,
           queue' \in Seq(Functors), Once(queue'),
           \A a \in Addrs : Waits(queue', a) <=> Waits(queue, a),
           todo' \subseteq expired, UNCHANGED callingExpiredTimers_,
           numCreated' \in Nat, ids' \subseteq TimerIds,
           tpc' \in [Threads -> {idle} \cup (Addrs \X Nat)]
    PROVE  Agree'
<1>1. Types'
  BY DEF Agree, Types
<1>2. Placed'
  BY DEF Agree, Placed
<1>3. OnTime' /\ Active'
  BY DEF Agree, OnTime, Active
<1> QED  BY <1>1, <1>2, <1>3 DEF Agree

\* addTimerInLoop of a timer that is in no other place.
LEMMA AddAgrees ==
    ASSUME Agree, NEW a \in Addrs, NEW timer \in Timers,
           addTimerInLoop(a, timer), ~In(timers_, a), ~In(expired, a),
           heap' \in [Addrs -> Timers \cup {Free}], heap'[a] = timer,
           \A b \in Addrs \ {a} : heap'[b] = heap[b],
           UNCHANGED <<expired, todo, callingExpiredTimers_, tpc>>,
           numCreated' \in Nat, ids' \subseteq TimerIds,
           queue' \in Seq(Functors), Once(queue'), ~Waits(queue', a),
           \A b \in Addrs \ {a} : Waits(queue', b) <=> Waits(queue, b)
    PROVE  Agree'
<1> DEFINE e0 == <<timer.expiration, a>>
<1>1. /\ timers_' = timers_ \cup {e0} /\ e0[1] = timer.expiration /\ e0[2] = a
      /\ activeTimers_' = activeTimers_ \cup {<<a, timer.sequence>>}
      /\ e0 \in Nat \X Addrs
  BY DEF addTimerInLoop, Entry, Timers
<1> HIDE DEF e0
<1>2. \A e \in timers_ \cup expired : e[2] \in Addrs /\ e[2] # a
  BY DEF Agree, Types, In
<1>3. Types'
  BY <1>1 DEF Agree, Types
<1>4. /\ In(timers_', a) /\ ~In(expired', a)
      /\ \A b \in Addrs \ {a} : /\ In(timers_', b) <=> In(timers_, b)
                                /\ In(expired', b) <=> In(expired, b)
  BY <1>1 DEF In
<1>5. timer # Free
  BY TimerIsNotFree
<1>6. Placed'
  BY <1>4, <1>5 DEF Agree, Placed
<1>7. OnTime'
  BY <1>1, <1>2 DEF Agree, OnTime
<1>8. Active'
  <2>1. \A e \in timers_ : Key(heap', e) = Key(heap, e)
    BY <1>2 DEF Key, TimerOf
  <2>2. Key(heap', e0) = <<a, timer.sequence>>
    BY <1>1 DEF Key, TimerOf
  <2> QED  BY <1>1, <2>1, <2>2 DEF Agree, Active
<1> QED  BY <1>3, <1>6, <1>7, <1>8 DEF Agree

\* cancelInLoop of an active timer finds the timer its TimerId names.
LEMMA ActiveIs ==
    ASSUME Agree, NEW id, isActive(id)
    PROVE  /\ id.timer \in Addrs /\ heap[id.timer] # Free
           /\ id.sequence = heap[id.timer].sequence
           /\ <<heap[id.timer].expiration, id.timer>> \in timers_
           /\ In(timers_, id.timer)
<1>1. PICK e \in timers_ : <<id.timer, id.sequence>> = Key(heap, e)
  BY DEF Agree, Active, isActive
<1>2. /\ e \in Nat \X Addrs /\ e = <<e[1], e[2]>> /\ e[2] \in Addrs
      /\ id.timer = e[2] /\ id.sequence = heap[e[2]].sequence
  BY <1>1 DEF Agree, Types, Key, TimerOf
<1>3. heap[e[2]].expiration = e[1] /\ In(timers_, e[2]) /\ heap[e[2]] # Free
  BY <1>1, <1>2 DEF Agree, OnTime, Placed, In
<1> QED  BY <1>1, <1>2, <1>3

\* cancelInLoop.
LEMMA CancelAgrees ==
    ASSUME Agree, NEW id, cancelInLoop(id),
           UNCHANGED <<expired, todo, callingExpiredTimers_, numCreated, tpc,
                       ids>>,
           queue' \in Seq(Functors), Once(queue'),
           \A a \in Addrs : Waits(queue', a) <=> Waits(queue, a)
    PROVE  Agree'
<1>1. CASE ~isActive(id)
  <2>1. UNCHANGED <<heap, timers_, activeTimers_>>
    BY <1>1 DEF cancelInLoop
  <2> QED  BY <2>1, AgreeKept DEF Agree, Types
<1>2. CASE isActive(id)
  <2> DEFINE a == id.timer
             e0 == <<heap[a].expiration, a>>
  <2>1. /\ a \in Addrs /\ heap[a] # Free /\ e0 \in timers_ /\ In(timers_, a)
        /\ e0[1] = heap[a].expiration /\ e0[2] = a
    BY <1>2, ActiveIs
  <2>2. /\ timers_' = timers_ \ {e0}
        /\ activeTimers_' = activeTimers_ \ {<<a, heap[a].sequence>>}
        /\ heap' = [heap EXCEPT ![a] = Free]
    BY <1>2 DEF cancelInLoop, Entry
  <2>3. \A e \in timers_ : e # e0 => e[2] # a /\ e[2] \in Addrs
    BY <2>1 DEF Agree, Types, OnTime
  <2> HIDE DEF a, e0
  <2>4. /\ heap' \in [Addrs -> Timers \cup {Free}] /\ heap'[a] = Free
        /\ \A b \in Addrs \ {a} : heap'[b] = heap[b]
    BY <2>1, <2>2 DEF Agree, Types
  <2>5. Types'
    BY <2>2, <2>4 DEF Agree, Types
  <2>6. /\ ~In(timers_', a)
        /\ \A b \in Addrs \ {a} : In(timers_', b) <=> In(timers_, b)
        /\ \A b \in Addrs : In(expired', b) <=> In(expired, b)
    BY <2>1, <2>2, <2>3 DEF In
  <2>7. ~In(expired, a) /\ ~Waits(queue, a)
    BY <2>1 DEF Agree, Placed
  <2>8. Placed'
    BY <2>1, <2>4, <2>6, <2>7 DEF Agree, Placed
  <2>9. \A e \in expired : e[2] # a /\ e[2] \in Addrs
    BY <2>7 DEF In, Agree, Types
  <2>10. OnTime'
    BY <2>2, <2>3, <2>4, <2>9 DEF Agree, OnTime
  <2>11. Active'
    <3>1. \A e \in timers_' : Key(heap', e) = Key(heap, e) /\ e \in timers_
                              /\ e[2] # a
      BY <2>2, <2>3, <2>4 DEF Key, TimerOf
    <3>2. \A e \in timers_' : Key(heap, e) # <<a, heap[a].sequence>>
      BY <3>1 DEF Key, TimerOf
    <3>3. Key(heap, e0) = <<a, heap[a].sequence>>
      BY <2>1 DEF Key, TimerOf
    <3>4. activeTimers_' = {Key(heap, e) : e \in timers_'}
      BY <2>2, <3>2, <3>3 DEF Agree, Active
    <3> QED  BY <3>1, <3>4 DEF Active
  <2> QED  BY <2>5, <2>8, <2>10, <2>11 DEF Agree
<1> QED  BY <1>1, <1>2

\* An address has one entry.
LEMMA EntryIs ==
    ASSUME Agree, NEW e \in timers_ \cup expired
    PROVE  /\ e = <<e[1], e[2]>> /\ e[1] \in Nat /\ e[2] \in Addrs
           /\ heap[e[2]] # Free /\ heap[e[2]] \in Timers
           /\ \A f \in timers_ \cup expired : f[2] = e[2] => f = e
<1>1. \A f \in timers_ \cup expired :
         /\ f \in Nat \X Addrs /\ f = <<f[1], f[2]>>
         /\ f[1] \in Nat /\ f[2] \in Addrs
         /\ heap[f[2]].expiration = f[1]
  BY DEF Agree, Types, OnTime
<1>2. heap[e[2]] # Free
  BY <1>1 DEF Agree, Placed, In
<1>3. heap[e[2]] \in Timers
  BY <1>1, <1>2, TimerIs DEF Agree
<1> QED  BY <1>1, <1>2, <1>3

\* handleRead takes the expired timers out of both sets.
LEMMA HandleReadAgrees ==
    ASSUME Agree, HandleRead
    PROVE  Agree'
<1> DEFINE S == {e \in timers_ : When(e) <= now}
<1>1. /\ ~callingExpiredTimers_ /\ expired = {} /\ S \subseteq timers_
      /\ timers_' = timers_ \ S /\ expired' = S /\ todo' = S
      /\ activeTimers_' = activeTimers_ \ {Key(heap, e) : e \in S}
      /\ callingExpiredTimers_' = TRUE
      /\ UNCHANGED <<heap, numCreated, queue, tpc, ids>>
  BY DEF HandleRead, stillActive, Agree, Types
<1> HIDE DEF S
<1>2. \A e \in timers_ : /\ e[2] \in Addrs
                         /\ \A f \in timers_ : f[2] = e[2] => f = e
  BY EntryIs
<1>3. Types'
  BY <1>1 DEF Agree, Types
<1>4. Placed'
  <2> SUFFICES ASSUME NEW a \in Addrs
               PROVE  /\ In(timers_, a) <=> In(timers_', a) \/ In(expired', a)
                      /\ ~In(expired, a)
                      /\ ~(In(timers_', a) /\ In(expired', a))
    BY <1>1 DEF Agree, Placed
  <2> QED  BY <1>1, <1>2 DEF In
<1>5. OnTime'
  BY <1>1 DEF Agree, OnTime
<1>6. Active'
  <2>1. \A e, f \in timers_ : Key(heap, e) = Key(heap, f) => e = f
    BY <1>2 DEF Key
  <2> QED  BY <1>1, <2>1 DEF Agree, Active
<1> QED  BY <1>1, <1>3, <1>4, <1>5, <1>6 DEF Agree

\* reset puts the timers that repeat and are not cancelled back, at their
\* next expiration, and deletes the others.
LEMMA ResetAgrees ==
    ASSUME Agree, Reset
    PROVE  Agree'
<1> DEFINE again == {e \in expired : TimerOf(heap, e).interval > 0
                                     /\ Key(heap, e) \notin cancelingTimers_}
           next(e) == restart(TimerOf(heap, e)).expiration
           dead == {e[2] : e \in expired \ again}
           back == {Entry(next(e), e[2]) : e \in again}
<1>1. /\ again \subseteq expired /\ timers_' = timers_ \cup back
      /\ activeTimers_' = activeTimers_ \cup {Key(heap, e) : e \in again}
      /\ heap' = [a \in Addrs |-> IF a \in dead THEN Free
                                  ELSE IF \E e \in again : e[2] = a
                                  THEN restart(heap[a]) ELSE heap[a]]
      /\ expired' = {} /\ todo' = {} /\ callingExpiredTimers_' = FALSE
      /\ UNCHANGED <<numCreated, queue, tpc, ids>>
  BY DEF Reset
<1>2. \A e \in expired : /\ e[2] \in Addrs /\ heap[e[2]] \in Timers
                         /\ \A f \in timers_ \cup expired : f[2] = e[2] => f = e
  BY EntryIs
<1>3. \A x \in Timers : /\ restart(x) \in Timers
                        /\ restart(x).sequence = x.sequence
  BY DEF restart, Timers
<1>4. \A e \in again : next(e) = restart(heap[e[2]]).expiration
  BY DEF TimerOf
<1> HIDE DEF again, next
<1>5. \A e \in again : /\ next(e) \in Nat /\ Entry(next(e), e[2]) \in back
                       /\ Entry(next(e), e[2])[1] = next(e)
                       /\ Entry(next(e), e[2])[2] = e[2]
  BY <1>1, <1>2, <1>3, <1>4 DEF Entry, Timers
<1>6. \A x \in back : \E e \in again : x = Entry(next(e), e[2])
  OBVIOUS
<1>7. \A e \in again : e[2] \notin dead /\ heap'[e[2]] = restart(heap[e[2]])
  BY <1>1, <1>2
<1>8. \A e \in expired \ again : heap'[e[2]] = Free /\ ~In(again, e[2])
  BY <1>1, <1>2 DEF In
<1>9. \A a \in Addrs : ~In(expired, a) => heap'[a] = heap[a]
  BY <1>1 DEF In
<1> HIDE DEF back, dead
<1>10. \A a \in Addrs : In(back, a) <=> In(again, a)
  BY <1>5, <1>6 DEF In
<1>11. Types'
  <2>1. heap' \in [Addrs -> Timers \cup {Free}]
    <3> SUFFICES ASSUME NEW a \in Addrs PROVE heap'[a] \in Timers \cup {Free}
      BY <1>1
    <3>1. CASE ~In(expired, a)
      BY <1>9, <3>1 DEF Agree, Types
    <3>2. CASE In(expired, a)
      BY <1>2, <1>3, <1>7, <1>8, <3>2 DEF In
    <3> QED  BY <3>1, <3>2
  <2>2. back \subseteq Nat \X Addrs
    BY <1>1, <1>2, <1>5, <1>6 DEF Entry
  <2> QED  BY <1>1, <2>1, <2>2 DEF Agree, Types
<1>12. Placed'
  <2> SUFFICES ASSUME NEW a \in Addrs
               PROVE  /\ heap'[a] # Free <=> In(timers_', a) \/ Waits(queue, a)
                      /\ ~In(expired', a)
                      /\ ~(Waits(queue, a) /\ In(timers_', a))
    BY <1>1 DEF Placed
  <2>1. In(timers_', a) <=> In(timers_, a) \/ In(again, a)
    BY <1>1, <1>10 DEF In
  <2>2. ~In(expired', a)
    BY <1>1 DEF In
  <2>3. CASE ~In(expired, a)
    <3>1. ~In(again, a)
      BY <1>1, <2>3 DEF In
    <3> QED  BY <1>9, <2>1, <2>2, <2>3, <3>1 DEF Agree, Placed
  <2>4. CASE In(expired, a)
    <3>1. PICK e \in expired : e[2] = a
      BY <2>4 DEF In
    <3>2. ~In(timers_, a) /\ ~Waits(queue, a)
      BY <2>4 DEF Agree, Placed
    <3>3. CASE e \in again
      <4>1. heap'[a] # Free
        BY <1>2, <1>3, <1>7, <3>1, <3>3, TimerIsNotFree
      <4>2. In(again, a)
        BY <3>1, <3>3 DEF In
      <4> QED  BY <2>1, <2>2, <3>2, <4>1, <4>2
    <3>4. CASE e \notin again
      BY <1>8, <2>1, <2>2, <3>1, <3>2, <3>4
    <3> QED  BY <3>3, <3>4
  <2> QED  BY <2>3, <2>4
<1>13. \A e \in timers_ : e[2] \in Addrs /\ ~In(expired, e[2])
  BY EntryIs DEF Agree, Placed, In
<1>14. OnTime'
  <2>1. \A e \in timers_ : heap'[e[2]].expiration = e[1]
    BY <1>9, <1>13 DEF Agree, OnTime
  <2>2. \A x \in back : heap'[x[2]].expiration = x[1]
    BY <1>4, <1>5, <1>6, <1>7
  <2> QED  BY <1>1, <2>1, <2>2 DEF OnTime
<1>15. Active'
  <2>1. \A e \in timers_ : Key(heap', e) = Key(heap, e)
    BY <1>9, <1>13 DEF Key, TimerOf
  <2>2. \A e \in again : Key(heap', Entry(next(e), e[2])) = Key(heap, e)
    BY <1>1, <1>2, <1>3, <1>5, <1>7 DEF Key, TimerOf
  <2>3. {Key(heap', x) : x \in back} = {Key(heap, e) : e \in again}
    BY <1>5, <1>6, <2>2
  <2>4. {Key(heap', e) : e \in timers_'}
           = {Key(heap, e) : e \in timers_} \cup {Key(heap', x) : x \in back}
    BY <1>1, <2>1
  <2> QED  BY <1>1, <2>3, <2>4 DEF Agree, Active
<1> QED  BY <1>1, <1>11, <1>12, <1>14, <1>15 DEF Agree
-----------------------------------------------------------------------------
\* No timer exists.
LEMMA InitAgrees == Init => Agree
<1> SUFFICES ASSUME Init PROVE Agree
  OBVIOUS
<1>1. <<>> \in Seq(Functors) /\ DOMAIN <<>> = {}
  BY EmptySeq
<1>2. Types
  BY <1>1 DEF Init, Types
<1>3. \A a \in Addrs : heap[a] = Free /\ ~Waits(queue, a)
  BY <1>1 DEF Init, Waits
<1>4. Once(queue)
  BY <1>1 DEF Init, Once
<1> QED
  BY <1>2, <1>3, <1>4 DEF Init, Agree, Placed, In, OnTime, Active

\* What a user of the queue makes.
LEMMA MadeIs ==
    ASSUME Agree, NEW a \in Addrs, NEW when \in Times, NEW i \in Intervals,
           makes(a, newTimer(when, i))
    PROVE  /\ newTimer(when, i) \in Timers /\ numCreated' \in Nat
           /\ newTimer(when, i).sequence = numCreated
           /\ newTimer(when, i).expiration = when
           /\ heap[a] = Free /\ heap'[a] = newTimer(when, i)
           /\ heap' \in [Addrs -> Timers \cup {Free}]
           /\ \A b \in Addrs \ {a} : heap'[b] = heap[b]
           /\ ~In(timers_, a) /\ ~In(expired, a) /\ ~Waits(queue, a)
<1>1. /\ newTimer(when, i) \in Timers
      /\ newTimer(when, i).sequence = numCreated
      /\ newTimer(when, i).expiration = when
  BY TimerAssumption DEF newTimer, Times, Timers, Agree, Types
<1>2. /\ heap[a] = Free /\ heap'[a] = newTimer(when, i)
      /\ heap' \in [Addrs -> Timers \cup {Free}]
      /\ \A b \in Addrs \ {a} : heap'[b] = heap[b] /\ numCreated' \in Nat
  BY <1>1 DEF makes, Agree, Types
<1>3. numCreated' \in Nat
  BY DEF makes, Agree, Types
<1> QED  BY <1>1, <1>2, <1>3 DEF Agree, Placed

\* Every step keeps the places of the timers.
LEMMA StepAgrees == Agree /\ [Next]_vars => Agree'
<1> SUFFICES ASSUME Agree, [Next]_vars PROVE Agree'
  OBVIOUS
<1>0. /\ numCreated \in Nat /\ todo \subseteq expired /\ queue \in Seq(Functors)
      /\ Once(queue) /\ tpc \in [Threads -> {idle} \cup (Addrs \X Nat)]
      /\ ids \subseteq TimerIds
  BY DEF Agree, Types
<1>1. CASE Tick \/ Poll \/ \E t \in Times : SetClock(t)
  BY <1>0, <1>1, AgreeKept DEF Tick, Poll, SetClock, sets
<1>2. CASE HandleRead
  BY <1>2, HandleReadAgrees
<1>3. CASE Reset
  BY <1>3, ResetAgrees
<1>4. CASE RunFunctor
  <2> DEFINE f == Head(queue)
  <2>1. /\ f \in Functors /\ queue' = Tail(queue) /\ queue' \in Seq(Functors)
        /\ Once(queue')
        /\ \A a \in Addrs :
              /\ Waits(queue, a) <=> \/ Waits(queue', a)
                                     \/ f.kind = "add" /\ f.timer = a
              /\ f.kind = "add" /\ f.timer = a => ~Waits(queue', a)
    BY <1>0, <1>4, TailWaits DEF RunFunctor
  <2>2. /\ UNCHANGED <<numCreated, callingExpiredTimers_, expired, todo, tpc,
                       ids>>
        /\ f.kind = "add" => addTimerInLoop(f.timer, heap[f.timer])
                             /\ UNCHANGED heap
        /\ f.kind # "add" => cancelInLoop(f.id)
    BY <1>4 DEF RunFunctor
  <2> HIDE DEF f
  <2>3. CASE f.kind = "add"
    <3>1. f.timer \in Addrs
      BY <2>1, <2>3 DEF Functors
    <3>2. PICK a \in Addrs : a = f.timer
      BY <3>1
    <3>3. /\ Waits(queue, a) /\ ~Waits(queue', a)
          /\ \A b \in Addrs \ {a} : Waits(queue', b) <=> Waits(queue, b)
      BY <2>1, <2>3, <3>2
    <3>4. ~In(timers_, a) /\ ~In(expired, a) /\ heap[a] # Free
      BY <3>3 DEF Agree, Placed
    <3>5. heap[a] \in Timers /\ heap \in [Addrs -> Timers \cup {Free}]
      BY <3>4, TimerIs DEF Agree, Types
    <3> QED  BY <1>0, <2>1, <2>2, <2>3, <3>2, <3>3, <3>4, <3>5, AddAgrees
  <2>4. CASE f.kind # "add"
    BY <2>1, <2>2, <2>4, CancelAgrees
  <2> QED  BY <2>3, <2>4
<1>5. ASSUME NEW e \in todo, RunTimer(e)
      PROVE  Agree'
  BY <1>0, <1>5, AgreeKept DEF RunTimer, sets
<1>6. ASSUME NEW id \in ids, Cancel(id)
      PROVE  Agree'
  BY <1>0, <1>6, CancelAgrees DEF Cancel
<1>7. ASSUME NEW id \in ids, NEW t \in Threads, QueueCancel(t, id)
      PROVE  Agree'
  <2> DEFINE f == [kind |-> "cancel", id |-> id]
  <2>1. f \in Functors /\ f.kind # "add" /\ queue' = Append(queue, f)
    BY <1>0, <1>7 DEF Functors, QueueCancel
  <2> HIDE DEF f
  <2>2. PICK a \in Addrs : TRUE
    BY <1>0 DEF TimerIds
  <2>3. /\ queue' \in Seq(Functors) /\ Once(queue')
        /\ \A b \in Addrs : Waits(queue', b) <=> Waits(queue, b)
    BY <1>0, <2>1, <2>2, AppendWaits
  <2> QED  BY <1>0, <1>7, <2>3, AgreeKept DEF QueueCancel, sets
<1>8. ASSUME NEW a \in Addrs, NEW when \in Times, NEW i \in Intervals,
             AddTimer(a, when, i)
      PROVE  Agree'
  <2> DEFINE timer == newTimer(when, i)
             id == [timer |-> a, sequence |-> timer.sequence,
                    of |-> timer.sequence]
  <2>1. /\ makes(a, timer) /\ addTimerInLoop(a, timer) /\ ids' = ids \cup {id}
        /\ UNCHANGED <<callingExpiredTimers_, expired, todo, queue, tpc>>
    BY <1>8 DEF AddTimer
  <2>2. /\ timer \in Timers /\ numCreated' \in Nat
        /\ timer.sequence = numCreated
        /\ heap'[a] = timer /\ heap' \in [Addrs -> Timers \cup {Free}]
        /\ \A b \in Addrs \ {a} : heap'[b] = heap[b]
        /\ ~In(timers_, a) /\ ~In(expired, a) /\ ~Waits(queue, a)
    BY <2>1, MadeIs
  <2>3. ids' \subseteq TimerIds
    BY <1>0, <2>1, <2>2 DEF TimerIds
  <2> HIDE DEF timer, id
  <2> QED  BY <1>0, <2>1, <2>2, <2>3, AddAgrees
<1>9. ASSUME NEW t \in Threads, NEW a \in Addrs, NEW when \in Times,
             NEW i \in Intervals, QueueAdd(t, a, when, i)
      PROVE  Agree'
  <2> DEFINE timer == newTimer(when, i)
             f == [kind |-> "add", timer |-> a]
  <2>1. /\ makes(a, timer) /\ queue' = Append(queue, f)
        /\ tpc' = [tpc EXCEPT ![t] = <<a, numCreated>>]
        /\ UNCHANGED <<timers_, activeTimers_, callingExpiredTimers_, expired,
                       todo, ids>>
        /\ f \in Functors /\ f.kind = "add" /\ f.timer = a
    BY <1>9 DEF QueueAdd, sets, Functors
  <2>2. /\ timer \in Timers /\ numCreated' \in Nat
        /\ timer.sequence = numCreated
        /\ heap'[a] = timer /\ heap' \in [Addrs -> Timers \cup {Free}]
        /\ \A b \in Addrs \ {a} : heap'[b] = heap[b]
        /\ ~In(timers_, a) /\ ~In(expired, a) /\ ~Waits(queue, a)
    BY <2>1, MadeIs
  <2> HIDE DEF timer, f
  <2>3. /\ queue' \in Seq(Functors) /\ Once(queue')
        /\ \A b \in Addrs : Waits(queue', b) <=> Waits(queue, b) \/ b = a
    BY <1>0, <2>1, <2>2, AppendWaits
  <2>4. tpc' \in [Threads -> {idle} \cup (Addrs \X Nat)]
    BY <1>0, <2>1
  <2>5. Types'
    BY <2>1, <2>2, <2>3, <2>4 DEF Agree, Types
  <2>6. Placed'
    <3>1. heap'[a] # Free
      BY <2>2, TimerIsNotFree
    <3>2. \A b \in Addrs : /\ In(timers_', b) <=> In(timers_, b)
                           /\ In(expired', b) <=> In(expired, b)
      BY <2>1
    <3> QED  BY <2>2, <2>3, <3>1, <3>2 DEF Agree, Placed
  <2>7. \A e \in timers_ \cup expired : e[2] # a /\ e[2] \in Addrs
    BY <2>2, EntryIs DEF In
  <2>8. OnTime'
    BY <2>1, <2>2, <2>7 DEF Agree, OnTime
  <2>9. Active'
    <3>1. \A e \in timers_ : Key(heap', e) = Key(heap, e)
      BY <2>2, <2>7 DEF Key, TimerOf
    <3> QED  BY <2>1, <3>1 DEF Agree, Active
  <2> QED  BY <2>3, <2>5, <2>6, <2>8, <2>9 DEF Agree
<1>10. ASSUME NEW t \in Threads, QueueAddReturns(t)
       PROVE  Agree'
  <2>1. PICK s \in 0 .. numCreated :
           ids' = ids \cup {[timer |-> tpc[t][1], sequence |-> s,
                             of |-> tpc[t][2]]}
    BY <1>10 DEF QueueAddReturns
  <2>2. tpc[t][1] \in Addrs /\ tpc[t][2] \in Nat
    BY <1>0, <1>10 DEF QueueAddReturns
  <2>3. ids' \subseteq TimerIds
    BY <1>0, <2>1, <2>2 DEF TimerIds
  <2>4. tpc' \in [Threads -> {idle} \cup (Addrs \X Nat)]
    BY <1>0, <1>10 DEF QueueAddReturns
  <2> QED  BY <1>0, <1>10, <2>3, <2>4, AgreeKept DEF QueueAddReturns, sets
<1>11. CASE UNCHANGED vars
  BY <1>0, <1>11, AgreeKept DEF vars, sets
<1> QED
  BY <1>1, <1>2, <1>3, <1>4, <1>5, <1>6, <1>7, <1>8, <1>9, <1>10, <1>11
     DEF Next

\* Agree says what TimersAgree does.
LEMMA AgreeImplies == Agree => TimersAgree
<1> SUFFICES ASSUME Agree PROVE TimersAgree
  OBVIOUS
<1>1. \A a : a \in Queued <=> a \in Addrs /\ Waits(queue, a)
  <2>1. \A i \in DOMAIN queue :
           /\ queue[i] \in Functors
           /\ queue[i].kind = "add" => queue[i].timer \in Addrs
    BY DEF Agree, Types, Functors
  <2> QED  BY <2>1 DEF Queued, Waits, Adds
<1>2. \A e \in timers_ \cup expired : /\ TimerOf(heap, e) # Free
                                      /\ TimerOf(heap, e).expiration = When(e)
  BY EntryIs DEF TimerOf, When, Agree, OnTime
<1> DEFINE kept == {e[2] : e \in timers_}
           held == {e[2] : e \in expired}
<1>3. /\ \A a : a \in kept <=> a \in Addrs /\ In(timers_, a)
      /\ \A a : a \in held <=> a \in Addrs /\ In(expired, a)
  BY EntryIs DEF In
<1> HIDE DEF kept, held
<1>4. /\ kept \cap held = {} /\ Queued \cap (kept \cup held) = {}
      /\ {a \in Addrs : heap[a] # Free} = kept \cup held \cup Queued
  BY <1>1, <1>3 DEF Agree, Placed
<1> QED  BY <1>2, <1>4 DEF Agree, Active, TimersAgree, kept, held

\* timers_, activeTimers_, the batch that is run, the functors and the Timer
\* objects agree, whatever is added, cancelled and run by whom.
THEOREM TimersAlwaysAgree == Spec => []TimersAgree
BY InitAgrees, StepAgrees, AgreeImplies, PTL DEF Spec
-----------------------------------------------------------------------------
(* The timerfd.                                                            *)

Armed ==
    /\ now \in Nat /\ steps \in Nat /\ timerfd \in Int
    /\ ArmedForFirst

\* First is the least time of a set of entries.
LEMMA FirstIs ==
    ASSUME NEW S, S \subseteq Nat \X Addrs, S # {}
    PROVE  /\ First(S) \in Nat
           /\ \E e \in S : When(e) = First(S)
           /\ \A e \in S : First(S) <= When(e)
<1> DEFINE T == {When(e) : e \in S}
<1>1. T \subseteq Nat /\ T # {}
  BY DEF When
<1>2. \E x \in T : \A y \in T : x <= y
  <2>1. PICK x \in T : \A y \in T : ~(<<y, x>> \in OpToRel(<, Nat))
    BY <1>1, NatLessThanWellFounded, WFMin
  <2>2. \A y \in T : ~(y < x)
    BY <1>1, <2>1 DEF OpToRel
  <2> QED  BY <1>1, <2>2
<1>3. First(S) \in T /\ \A y \in T : First(S) <= y
  BY <1>2 DEF First, Min
<1> QED  BY <1>1, <1>3

\* resetTimerfd arms the timerfd for any time from when on.
LEMMA ArmedFrom ==
    ASSUME NEW when \in Nat, now \in Nat, resetTimerfd(when)
    PROVE  /\ timerfd' \in Int /\ timerfd' >= 0
           /\ \A w \in Nat : when <= w => timerfd' <= 1 \/ timerfd' <= w - now
BY DEF resetTimerfd

\* addTimerInLoop arms it if the new timer is the first.
LEMMA AddArms ==
    ASSUME Agree, Armed, NEW a \in Addrs, NEW timer \in Timers,
           addTimerInLoop(a, timer), UNCHANGED <<now, steps, reported>>
    PROVE  Armed'
<1> DEFINE when == timer.expiration
<1>1. /\ timers_' = timers_ \cup {<<when, a>>} /\ when \in Nat
      /\ timers_ \subseteq Nat \X Addrs /\ <<when, a>>[1] = when
      /\ \A e \in timers_ : When(e) \in Nat
  BY DEF addTimerInLoop, Entry, Timers, Agree, Types, When
<1> HIDE DEF when
<1>2. \A e \in timers_' : e \in timers_ \/ When(e) = when
  BY <1>1 DEF When
<1>3. now \in Nat /\ steps \in Nat /\ timerfd \in Int
  BY DEF Armed
<1>4. CASE isChange(when)
  <2>1. resetTimerfd(when)
    BY <1>4 DEF addTimerInLoop, when
  <2>2. \A e \in timers_ : when <= When(e)
    <3>1. CASE timers_ = {}
      BY <3>1
    <3>2. CASE timers_ # {}
      <4>1. when < First(timers_)
        BY <1>4, <3>2 DEF isChange
      <4> QED  BY <1>1, <3>2, <4>1, FirstIs
    <3> QED  BY <3>1, <3>2
  <2>3. /\ timerfd' \in Int /\ timerfd' >= 0
        /\ \A w \in Nat : when <= w => timerfd' <= 1 \/ timerfd' <= w - now
    BY <1>1, <1>3, <2>1, ArmedFrom
  <2>4. \A e \in timers_' : timerfd' <= 1 \/ timerfd' <= When(e) - now
    BY <1>1, <1>2, <2>2, <2>3
  <2> QED  BY <1>3, <2>3, <2>4 DEF Armed, ArmedForFirst
<1>5. CASE ~isChange(when)
  <2>1. timerfd' = timerfd /\ timers_ # {} /\ ~(when < First(timers_))
    BY <1>5 DEF addTimerInLoop, isChange, when
  <2>2. PICK e0 \in timers_ : When(e0) <= when
    BY <1>1, <2>1, FirstIs
  <2>3. CASE reported
    BY <1>3, <2>1, <2>3 DEF Armed, ArmedForFirst
  <2>4. CASE ~reported
    <3>1. /\ timerfd >= 0
          /\ \A e \in timers_ :
                steps > 0 \/ timerfd <= 1 \/ timerfd <= When(e) - now
      BY <2>1, <2>4 DEF Armed, ArmedForFirst
    <3>2. \A e \in timers_' :
             steps > 0 \/ timerfd <= 1 \/ timerfd <= When(e) - now
      BY <1>1, <1>2, <1>3, <2>2, <3>1
    <3> QED  BY <1>3, <2>1, <3>1, <3>2 DEF Armed, ArmedForFirst
  <2> QED  BY <2>3, <2>4
<1> QED  BY <1>4, <1>5

\* A step after which there are no new timers.
LEMMA FewerArmed ==
    ASSUME Armed, timers_' \subseteq timers_,
           UNCHANGED <<now, steps, timerfd, reported>>
    PROVE  Armed'
BY DEF Armed, ArmedForFirst

\* Every step keeps the timerfd armed.
LEMMA StepArms == Agree /\ Armed /\ [Next]_vars => Armed'
<1> SUFFICES ASSUME Agree, Armed, [Next]_vars PROVE Armed'
  OBVIOUS
<1>0. /\ now \in Nat /\ steps \in Nat /\ timerfd \in Int
      /\ \A e \in timers_ : When(e) \in Nat
  BY DEF Armed, Agree, Types, When
<1>1. CASE Tick
  <2>1. /\ timers_' = timers_ /\ steps' = steps /\ reported' = reported
        /\ now' \in {now, now + 1}
        /\ timerfd' = IF timerfd > 0 THEN timerfd - 1 ELSE timerfd
    BY <1>1 DEF Tick, sets
  <2> QED  BY <1>0, <2>1 DEF Armed, ArmedForFirst
<1>2. ASSUME NEW t \in Times, SetClock(t)
      PROVE  Armed'
  <2>1. /\ timers_' = timers_ /\ now' \in Nat /\ timerfd' = timerfd
        /\ steps' = steps + 1 /\ reported' = reported
    BY <1>2 DEF SetClock, sets, Times
  <2> QED  BY <1>0, <2>1 DEF Armed, ArmedForFirst
<1>3. CASE Poll
  BY <1>3 DEF Poll, clock, Armed, ArmedForFirst
<1>4. CASE HandleRead
  <2>1. reported /\ reported' = reported /\ UNCHANGED <<now, steps>>
        /\ timerfd' \in Int
    BY <1>0, <1>4 DEF HandleRead, clock
  <2> QED  BY <1>0, <2>1 DEF Armed, ArmedForFirst
<1>5. CASE Reset
  <2>1. Agree'
    BY <1>5, ResetAgrees
  <2>2. UNCHANGED <<now, steps>> /\ rearm(timers_')
    BY <1>5 DEF Reset, clock
  <2>3. CASE timers_' = {}
    BY <1>0, <2>2, <2>3 DEF rearm, Armed, ArmedForFirst
  <2>4. CASE timers_' # {}
    <3>1. timers_' \subseteq Nat \X Addrs
      BY <2>1 DEF Agree, Types
    <3>2. /\ First(timers_') \in Nat
          /\ \A e \in timers_' : First(timers_') <= When(e) /\ When(e) \in Nat
      BY <2>4, <3>1, FirstIs DEF When
    <3>3. PICK when \in Nat : when = First(timers_')
      BY <3>2
    <3>4. resetTimerfd(when)
      BY <2>2, <2>4, <3>3 DEF rearm, resetTimerfd
    <3>5. /\ timerfd' \in Int /\ timerfd' >= 0
          /\ \A w \in Nat : when <= w => timerfd' <= 1 \/ timerfd' <= w - now
      BY <1>0, <3>4, ArmedFrom
    <3>6. \A e \in timers_' : timerfd' <= 1 \/ timerfd' <= When(e) - now
      BY <3>2, <3>3, <3>5
    <3> QED  BY <1>0, <2>2, <3>5, <3>6 DEF Armed, ArmedForFirst
  <2> QED  BY <2>3, <2>4
<1>6. ASSUME NEW id, cancelInLoop(id), UNCHANGED <<now, steps, reported>>
      PROVE  Armed'
  BY <1>6, FewerArmed DEF cancelInLoop
<1>7. CASE RunFunctor
  <2> DEFINE f == Head(queue)
  <2>1. UNCHANGED <<now, steps, reported>> /\ f \in Functors
    BY <1>7, TailWaits DEF RunFunctor, clock, Agree, Types
  <2>2. CASE f.kind = "add"
    <3>1. addTimerInLoop(f.timer, heap[f.timer])
      BY <1>7, <2>2 DEF RunFunctor
    <3>2. PICK a \in Addrs : a = f.timer
      BY <2>1, <2>2 DEF Functors
    <3>3. Waits(queue, a)
      BY <1>7, <2>2, <3>2, TailWaits DEF RunFunctor, Agree, Types
    <3>4. heap[a] \in Timers
      BY <3>3, TimerIs DEF Agree, Placed
    <3> QED  BY <2>1, <3>1, <3>2, <3>4, AddArms
  <2>3. CASE f.kind # "add"
    BY <1>6, <1>7, <2>1, <2>3 DEF RunFunctor
  <2> QED  BY <2>2, <2>3
<1>8. ASSUME NEW id \in ids, Cancel(id)
      PROVE  Armed'
  BY <1>6, <1>8 DEF Cancel, clock
<1>9. ASSUME NEW a \in Addrs, NEW when \in Times, NEW i \in Intervals,
             AddTimer(a, when, i)
      PROVE  Armed'
  <2>1. /\ makes(a, newTimer(when, i)) /\ addTimerInLoop(a, newTimer(when, i))
        /\ UNCHANGED <<now, steps, reported>>
    BY <1>9 DEF AddTimer, clock
  <2>2. newTimer(when, i) \in Timers
    BY <2>1, MadeIs
  <2> QED  BY <2>1, <2>2, AddArms
<1>10. ASSUME NEW e \in todo, RunTimer(e)
       PROVE  Armed'
  BY <1>10, FewerArmed DEF RunTimer, sets, clock
<1>11. ASSUME NEW t \in Threads, NEW id \in ids, QueueCancel(t, id)
       PROVE  Armed'
  BY <1>11, FewerArmed DEF QueueCancel, sets, clock
<1>12. ASSUME NEW t \in Threads, NEW a \in Addrs, NEW when \in Times,
              NEW i \in Intervals, QueueAdd(t, a, when, i)
       PROVE  Armed'
  BY <1>12, FewerArmed DEF QueueAdd, sets, clock
<1>13. ASSUME NEW t \in Threads, QueueAddReturns(t)
       PROVE  Armed'
  BY <1>13, FewerArmed DEF QueueAddReturns, sets, clock
<1>14. CASE UNCHANGED vars
  BY <1>14, FewerArmed DEF vars, sets, clock
<1> QED
  BY <1>1, <1>2, <1>3, <1>4, <1>5, <1>7, <1>8, <1>9, <1>10, <1>11, <1>12,
     <1>13, <1>14
     DEF Next

\* While nobody sets the clock, the timerfd goes off no later than the first
\* timer is due, whatever is added, cancelled and run in between.
THEOREM TimerfdIsArmed == Spec => []ArmedForFirst
<1>1. Init => Armed
  BY DEF Init, Armed, ArmedForFirst
<1>2. Armed => ArmedForFirst
  BY DEF Armed
<1> QED  BY <1>1, <1>2, InitAgrees, StepAgrees, StepArms, PTL DEF Spec
-----------------------------------------------------------------------------
(* Cancelling.                                                             *)

\* The sequence numbers of the timers that exist differ.
Numbered ==
    \A a \in Addrs : heap[a] # Free =>
        /\ heap[a].sequence < numCreated
        /\ \A b \in Addrs :
              heap[b] # Free /\ heap[b].sequence = heap[a].sequence => a = b

Past == \A n \in over : n \in Nat /\ n < numCreated

\* The timer at a has been run and reset() will not start it again.
Ended(a) ==
    \E e \in expired \ todo :
        /\ e[2] = a
        /\ heap[a].interval = 0
           \/ <<a, heap[a].sequence>> \in cancelingTimers_

\* A timer that exists and must not run any more has ended.
OverHasEnded ==
    \A a \in Addrs : heap[a] # Free /\ heap[a].sequence \in over => Ended(a)

Exact == Numbered /\ Past /\ OverHasEnded /\ CancelIsExact

\* Steps that Exact does not speak of.
LEMMA ExactKept ==
    ASSUME Exact,
           UNCHANGED <<heap, numCreated, cancelingTimers_, expired, todo,
                       over, late, astray>>
    PROVE  Exact'
BY DEF Exact, Numbered, Past, OverHasEnded, Ended, CancelIsExact

\* A Timer is made.
LEMMA MadeIsExact ==
    ASSUME Agree, Exact, NEW a \in Addrs, NEW when \in Times,
           NEW i \in Intervals, makes(a, newTimer(when, i)),
           UNCHANGED <<cancelingTimers_, expired, todo, over, late, astray>>
    PROVE  Exact'
<1>1. /\ heap[a] = Free /\ heap'[a].sequence = numCreated
      /\ \A b \in Addrs \ {a} : heap'[b] = heap[b]
  BY MadeIs
<1>2. numCreated \in Nat /\ numCreated' = numCreated + 1
  BY DEF makes, Agree, Types
<1>3. \A b \in Addrs : heap[b] # Free =>
         /\ heap[b].sequence \in Nat /\ heap[b].sequence < numCreated
         /\ \A c \in Addrs :
               heap[c] # Free /\ heap[c].sequence = heap[b].sequence => b = c
  BY TimerIs DEF Agree, Exact, Numbered
<1>4. Numbered'
  BY <1>1, <1>2, <1>3 DEF Numbered
<1>5. Past' /\ numCreated \notin over
  BY <1>2 DEF Exact, Past
<1>6. OverHasEnded'
  <2> SUFFICES ASSUME NEW b \in Addrs, heap'[b] # Free,
                      heap'[b].sequence \in over
               PROVE  Ended(b)'
    BY DEF OverHasEnded
  <2>1. b # a
    BY <1>1, <1>5
  <2>2. Ended(b)
    BY <1>1, <2>1 DEF Exact, OverHasEnded
  <2> QED  BY <1>1, <2>1, <2>2 DEF Ended
<1> QED  BY <1>4, <1>5, <1>6 DEF Exact, CancelIsExact

\* cancelInLoop.
LEMMA CancelIsExactly ==
    ASSUME Agree, Exact, NEW id, cancelInLoop(id),
           UNCHANGED <<numCreated, expired, todo>>
    PROVE  Exact'
<1>0. late' = late
  BY DEF cancelInLoop
<1>1. CASE isActive(id)
  <2>1. PICK a \in Addrs :
           /\ a = id.timer /\ heap[a] # Free /\ id.sequence = heap[a].sequence
    BY <1>1, ActiveIs
  <2>2. /\ heap' = [heap EXCEPT ![a] = Free]
        /\ over' = over \cup {heap[a].sequence}
        /\ astray' = IF id.sequence = id.of
                     THEN astray \cup ({heap[a].sequence} \ {id.of}) ELSE astray
        /\ UNCHANGED cancelingTimers_
    BY <1>1, <2>1 DEF cancelInLoop
  <2>3. astray' = astray
    BY <2>1, <2>2
  <2>4. heap'[a] = Free /\ \A b \in Addrs \ {a} : heap'[b] = heap[b]
    BY <2>1, <2>2 DEF Agree, Types
  <2>5. Numbered'
    BY <2>4 DEF Exact, Numbered
  <2>6. Past'
    BY <2>1, <2>2, TimerIs DEF Agree, Exact, Past, Numbered
  <2>7. OverHasEnded'
    <3> SUFFICES ASSUME NEW b \in Addrs, heap'[b] # Free,
                        heap'[b].sequence \in over'
                 PROVE  Ended(b)'
      BY DEF OverHasEnded
    <3>1. b # a /\ heap'[b] = heap[b]
      BY <2>4
    <3>2. heap[b].sequence # heap[a].sequence
      BY <2>1, <3>1 DEF Exact, Numbered
    <3>3. Ended(b)
      BY <2>2, <3>1, <3>2 DEF Exact, OverHasEnded
    <3> QED  BY <2>2, <3>1, <3>3 DEF Ended
  <2> QED  BY <1>0, <2>3, <2>5, <2>6, <2>7 DEF Exact, CancelIsExact
<1>2. CASE ~isActive(id) /\ ~callingExpiredTimers_
  <2>1. UNCHANGED <<heap, cancelingTimers_, over, astray>>
    BY <1>2 DEF cancelInLoop
  <2> QED  BY <1>0, <2>1, ExactKept
<1>3. CASE ~isActive(id) /\ callingExpiredTimers_
  <2>1. /\ UNCHANGED <<heap, astray>>
        /\ cancelingTimers_' = cancelingTimers_ \cup {<<id.timer, id.sequence>>}
        /\ over' = over \cup {s \in {id.sequence} : \E e \in expired \ todo :
                                  Key(heap, e) = <<id.timer, s>>}
    BY <1>3 DEF cancelInLoop, cancelRunning
  <2>2. \A e \in expired \ todo : Key(heap, e) = <<id.timer, id.sequence>> =>
           /\ e[2] = id.timer /\ e[2] \in Addrs /\ heap[e[2]] # Free
           /\ heap[e[2]].sequence = id.sequence
    BY EntryIs DEF Key, TimerOf
  <2>3. Numbered'
    BY <2>1 DEF Exact, Numbered
  <2>4. Past'
    BY <2>1, <2>2, TimerIs DEF Agree, Exact, Past, Numbered
  <2>5. OverHasEnded'
    <3> SUFFICES ASSUME NEW b \in Addrs, heap[b] # Free,
                        heap[b].sequence \in over'
                 PROVE  Ended(b)'
      BY <2>1 DEF OverHasEnded
    <3>1. CASE heap[b].sequence \in over
      BY <2>1, <3>1 DEF Exact, OverHasEnded, Ended
    <3>2. CASE heap[b].sequence \notin over
      <4>1. PICK e \in expired \ todo :
               /\ Key(heap, e) = <<id.timer, id.sequence>>
               /\ heap[b].sequence = id.sequence
        BY <2>1, <3>2
      <4>2. e[2] = b /\ id.timer = b
        BY <2>2, <4>1 DEF Exact, Numbered
      <4> QED  BY <2>1, <4>1, <4>2 DEF Ended
    <3> QED  BY <3>1, <3>2
  <2> QED  BY <1>0, <2>1, <2>3, <2>4, <2>5 DEF Exact, CancelIsExact
<1> QED  BY <1>1, <1>2, <1>3

\* reset() starts no timer again that is over.
LEMMA ResetIsExact ==
    ASSUME Agree, Exact, Reset
    PROVE  Exact'
<1> DEFINE again == {e \in expired : TimerOf(heap, e).interval > 0
                                     /\ Key(heap, e) \notin cancelingTimers_}
           dead == {e[2] : e \in expired \ again}
<1>1. /\ todo = {}
      /\ UNCHANGED <<numCreated, cancelingTimers_, over, late, astray>>
      /\ heap' = [a \in Addrs |-> IF a \in dead THEN Free
                                  ELSE IF \E e \in again : e[2] = a
                                  THEN restart(heap[a]) ELSE heap[a]]
  BY DEF Reset, ghosts
<1>2. \A x \in Timers : restart(x).sequence = x.sequence
  BY DEF restart, Timers
<1>3. \A e \in again : /\ heap[e[2]].interval # 0
                       /\ <<e[2], heap[e[2]].sequence>> \notin cancelingTimers_
  BY DEF TimerOf, Key
<1>4. \A e \in expired : /\ e[2] \in Addrs /\ heap[e[2]] # Free
                         /\ heap[e[2]] \in Timers
  BY EntryIs
<1>5. again \subseteq expired
  OBVIOUS
<1> HIDE DEF again
<1>6. ASSUME NEW a \in Addrs, heap'[a] # Free
      PROVE  /\ heap[a] # Free /\ heap'[a].sequence = heap[a].sequence
             /\ ~Ended(a)
  <2>1. a \notin dead /\ \A e \in expired : e[2] = a => e \in again
    BY <1>1, <1>6
  <2>2. ~Ended(a)
    BY <1>3, <2>1 DEF Ended
  <2>3. CASE \E e \in again : e[2] = a
    BY <1>1, <1>2, <1>4, <1>5, <2>1, <2>2, <2>3
  <2>4. CASE ~\E e \in again : e[2] = a
    BY <1>1, <1>6, <2>1, <2>2, <2>4
  <2> QED  BY <2>3, <2>4
<1>7. Numbered'
  BY <1>1, <1>6 DEF Exact, Numbered
<1>8. OverHasEnded'
  BY <1>1, <1>6 DEF Exact, OverHasEnded
<1> QED  BY <1>1, <1>7, <1>8 DEF Exact, Past, CancelIsExact

\* Every step keeps the numbers apart and runs no timer that is over.
LEMMA StepIsExact == Agree /\ Exact /\ [Next]_vars => Exact'
<1> SUFFICES ASSUME Agree, Exact, [Next]_vars PROVE Exact'
  OBVIOUS
<1>1. CASE Tick \/ Poll \/ \E t \in Times : SetClock(t)
  BY <1>1, ExactKept DEF Tick, Poll, SetClock, sets, ghosts
<1>2. CASE HandleRead
  <2>1. expired = {} /\ UNCHANGED <<heap, numCreated, over, late, astray>>
    BY <1>2 DEF HandleRead, ghosts, Agree, Types
  <2>2. \A a \in Addrs : ~(heap[a] # Free /\ heap[a].sequence \in over)
    BY <2>1 DEF Exact, OverHasEnded, Ended
  <2> QED  BY <2>1, <2>2
              DEF Exact, Numbered, Past, OverHasEnded, CancelIsExact
<1>3. CASE Reset
  BY <1>3, ResetIsExact
<1>4. CASE RunFunctor
  <2>1. UNCHANGED <<numCreated, expired, todo>>
    BY <1>4 DEF RunFunctor
  <2>2. CASE Head(queue).kind = "add"
    BY <1>4, <2>1, <2>2, ExactKept DEF RunFunctor, addTimerInLoop, ghosts
  <2>3. CASE Head(queue).kind # "add"
    BY <1>4, <2>1, <2>3, CancelIsExactly DEF RunFunctor
  <2> QED  BY <2>2, <2>3
<1>5. ASSUME NEW e \in todo, RunTimer(e)
      PROVE  Exact'
  <2>1. PICK a \in Addrs : a = e[2] /\ heap[a] # Free
    BY EntryIs DEF Agree, Types
  <2>2. PICK n \in Nat : n = heap[a].sequence /\ n < numCreated
    BY <2>1, TimerIs DEF Agree, Exact, Numbered
  <2>3. /\ todo' = todo \ {e} /\ late' = late \cup ({n} \cap over)
        /\ over' = IF heap[a].interval = 0 \/ <<a, n>> \in cancelingTimers_
                   THEN over \cup {n} ELSE over
        /\ UNCHANGED <<heap, numCreated, cancelingTimers_, expired, astray>>
    BY <1>5, <2>1, <2>2 DEF RunTimer, TimerOf, Key, sets
  <2>4. e \in expired /\ \A f \in expired : f[2] = a => f = e
    BY <2>1, EntryIs DEF Agree, Types
  <2>5. n \notin over
    BY <2>1, <2>2, <2>4 DEF Exact, OverHasEnded, Ended
  <2>6. \A b \in Addrs : Ended(b) => Ended(b)'
    BY <2>3 DEF Ended
  <2>7. OverHasEnded'
    <3> SUFFICES ASSUME NEW b \in Addrs, heap[b] # Free,
                        heap[b].sequence \in over'
                 PROVE  Ended(b)'
      BY <2>3 DEF OverHasEnded
    <3>1. CASE heap[b].sequence \in over
      BY <2>6, <3>1 DEF Exact, OverHasEnded
    <3>2. CASE heap[b].sequence \notin over
      <4>1. /\ heap[b].sequence = n
            /\ heap[a].interval = 0 \/ <<a, n>> \in cancelingTimers_
        BY <2>3, <3>2
      <4>2. b = a
        BY <2>1, <2>2, <4>1 DEF Exact, Numbered
      <4> QED  BY <2>1, <2>2, <2>3, <2>4, <4>1, <4>2 DEF Ended
    <3> QED  BY <3>1, <3>2
  <2>8. Numbered' /\ Past'
    BY <2>2, <2>3 DEF Exact, Numbered, Past
  <2> QED  BY <2>3, <2>5, <2>7, <2>8 DEF Exact, CancelIsExact
<1>6. ASSUME NEW id \in ids, Cancel(id)
      PROVE  Exact'
  BY <1>6, CancelIsExactly DEF Cancel
<1>7. ASSUME NEW id \in ids, NEW t \in Threads, QueueCancel(t, id)
      PROVE  Exact'
  BY <1>7, ExactKept DEF QueueCancel, sets, ghosts
<1>8. ASSUME NEW a \in Addrs, NEW when \in Times, NEW i \in Intervals,
             AddTimer(a, when, i)
      PROVE  Exact'
  BY <1>8, MadeIsExact DEF AddTimer, addTimerInLoop, ghosts
<1>9. ASSUME NEW t \in Threads, NEW a \in Addrs, NEW when \in Times,
             NEW i \in Intervals, QueueAdd(t, a, when, i)
      PROVE  Exact'
  BY <1>9, MadeIsExact DEF QueueAdd, sets, ghosts
<1>10. ASSUME NEW t \in Threads, QueueAddReturns(t)
       PROVE  Exact'
  BY <1>10, ExactKept DEF QueueAddReturns, sets, ghosts
<1>11. CASE UNCHANGED vars
  BY <1>11, ExactKept DEF vars, sets, ghosts
<1> QED
  BY <1>1, <1>2, <1>3, <1>4, <1>5, <1>6, <1>7, <1>8, <1>9, <1>10, <1>11
     DEF Next

\* A timer that is cancelled or has had its turn does not run again, and a
\* cancel deletes the timer its TimerId names or none, although addresses are
\* used again and TimerIds are kept for ever.
THEOREM CancelIsAlwaysExact == Spec => []CancelIsExact
<1>1. Init => Exact
  BY DEF Init, Exact, Numbered, Past, OverHasEnded, CancelIsExact
<1>2. Exact => CancelIsExact
  BY DEF Exact
<1> QED  BY <1>1, <1>2, InitAgrees, StepAgrees, StepIsExact, PTL DEF Spec

=============================================================================
