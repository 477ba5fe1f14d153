------------------------ MODULE UringTcpServerProofs -------------------------
(***************************************************************************)
(* Theorems on UringTcpServer: for any connections and I/O loops, and for  *)
(* any outcome of io_uring_submit and accept, as long as the operations    *)
(* that wait in a ring are no more than the entries of its completion      *)
(* queue (Fits), every coroutine that waits has one operation in the ring  *)
(* of its loop unless the ring dropped it, no functor and no frame         *)
(* outlives its connection, and no loop sleeps on a queued functor.        *)
(*                                                                         *)
(* The invariant says where every operation is (RingsKnow: in one of the   *)
(* four places of a ring, once, or nowhere), what a loop has left over     *)
(* from its pass (Passes) and whether it is awake (Woken), what keeps a    *)
(* connection (Alive), and what every queued functor will find when it     *)
(* runs (Lives): one that has captured this of a closed connection has the *)
(* guard of handleClose() behind it.  A client that is about to be         *)
(* accepted has left no trace yet (Arrivals).                              *)
(*                                                                         *)
(* First come the operations on one ring, then those on one connection's   *)
(* record, then the functors, then one lemma for each action.              *)
(***************************************************************************)
EXTENDS UringTcpServer, FiniteSetTheorems, SequenceTheorems, TLAPS

\* What is waited for in rings, completions, and rings.
Awaited == {Wakeup, Accept} \cup Conns
Cqe == {e \in [op : Awaited, res : Int \cup Conns] :
            /\ e.op \in Conns => e.res \in Int
            /\ e.op = Accept => e.res \in Conns \cup {-1}}

\* Nothing was refused as long as io_uring_submit took everything.
Ring == {r \in [sq : SUBSET Awaited, kernel : SUBSET Awaited, cq : Seq(Cqe),
                active : Seq(Cqe), refused : SUBSET Awaited,
                whole : BOOLEAN, faults : Nat] : r.refused # {} => ~r.whole}

\* Operation x is not in list s, or is there once.
NotIn(s, x) == \A i \in DOMAIN s : s[i].op # x
OneIn(s, x) == \E i \in DOMAIN s :
                   /\ s[i].op = x
                   /\ \A j \in DOMAIN s : s[j].op = x => j = i

\* Operation x is nowhere in ring r, or in exactly one place or refused.
Never(r, x) == /\ x \notin r.sq /\ x \notin r.kernel /\ x \notin r.refused
               /\ NotIn(r.cq, x) /\ NotIn(r.active, x)
Once(r, x) ==
    \/ /\ x \in r.sq /\ x \notin r.kernel /\ x \notin r.refused
       /\ NotIn(r.cq, x) /\ NotIn(r.active, x)
    \/ /\ x \notin r.sq /\ x \in r.kernel /\ x \notin r.refused
       /\ NotIn(r.cq, x) /\ NotIn(r.active, x)
    \/ /\ x \notin r.sq /\ x \notin r.kernel /\ x \in r.refused
       /\ NotIn(r.cq, x) /\ NotIn(r.active, x)
    \/ /\ x \notin r.sq /\ x \notin r.kernel /\ x \notin r.refused
       /\ OneIn(r.cq, x) /\ NotIn(r.active, x)
    \/ /\ x \notin r.sq /\ x \notin r.kernel /\ x \notin r.refused
       /\ NotIn(r.cq, x) /\ OneIn(r.active, x)

Has(r, x, yes) == IF yes THEN Once(r, x) ELSE Never(r, x)

\* Who waits in the ring of loop l.
Waits(l, x) == CASE x = Wakeup -> TRUE
                 [] x = Accept -> l = Base
                 [] OTHER -> l = loop[x] /\ conn[x].handler = "suspended"

RingsKnow == \A l \in Loops : \A x \in Awaited : Has(ring[l], x, Waits(l, x))

\* Functors, and the records of connections between steps.
Kinds == Strong \cup Ops
Functor == [kind : Kinds, c : Conns]

ConnRecord ==
    [state : {"KDisconnected", "KConnected", "KDisconnecting"},
     handler : {"none", "suspended", "done"},
     does : {"none", "read", "write"}, left : Int, posts : {<<>>},
     closes : {FALSE}, polite : BOOLEAN, half : BOOLEAN,
     inbox : Int, fin : BOOLEAN, rst : BOOLEAN, full : BOOLEAN,
     shutRd : BOOLEAN, shutWr : BOOLEAN]

Types ==
    /\ loops_ \in Seq({loops_[i] : i \in DOMAIN loops_})
    /\ loop \in [Conns -> Loops]
    /\ conn \in [Conns -> ConnRecord]
    /\ connections_ \subseteq Conns /\ alive \subseteq Conns
    /\ backlog \subseteq Conns
    /\ ring \in [Loops -> Ring]
    /\ wakeupFd \in [Loops -> BOOLEAN]
    /\ lp \in [Loops -> {"functors", "wait", "handle"}]
    /\ queue \in [Loops -> Seq(Functor)] /\ todo \in [Loops -> Seq(Functor)]
    /\ failed = {}

\* Outside of its pass a loop has no completion to handle, and before its
\* functors have their turn there are none to run.
Passes == \A l \in Loops :
    /\ lp[l] # "handle" => ring[l].active = <<>>
    /\ lp[l] # "functors" => todo[l] = <<>>

\* What was queued after the loop took its functors has woken it.
Woken == \A l \in Loops :
    lp[l] # "handle" /\ queue[l] # <<>> => wakeupFd[l]

\* A connection is kept by the map, its handler or a functor.
Kept(co, map, q, t, c) == \/ c \in map \/ co[c].handler = "suspended"
                          \/ Queued(q, c, Strong) \/ Queued(t, c, Strong)

Alive == \A c \in Conns : c \in alive <=> Kept(conn, connections_, queue, todo, c)

\* A connection that was not started is new, an open one is in the map, and
\* one that was closed under its handler is not a polite one's.
SoundConn(k, inMap) ==
    /\ k.handler = "none" => k = NewConn
    /\ k.state # "KDisconnected" => inMap
    /\ k.state = "KDisconnected" /\ k.handler = "suspended" => ~k.polite
    /\ k.handler = "suspended" => k.does # "none"

\* A functor finds its connection as it was queued for: record k, loop lo.
SoundFunctor(f, l, k, inMap, lo) ==
    /\ f.kind = "start" => k = NewConn /\ l = lo /\ inMap
    /\ f.kind # "start" => k.handler # "none"
    /\ f.kind = "removeConnectionInLoop" => k.state = "KDisconnected"
    /\ f.kind \in Ops => l = lo
    /\ f.kind = "forceclose" => k.handler = "done" \/ ~k.polite

IsGuard(f, c) == f.kind = "guard" /\ f.c = c
GuardIn(s, c) == \E j \in DOMAIN s : IsGuard(s[j], c)
GuardAfter(s, i) == \E j \in DOMAIN s : i < j /\ IsGuard(s[j], s[i].c)

\* Functor f has captured this of a closed connection.
Dangles(co, f) == f.kind \in Ops /\ co[f.c].state = "KDisconnected"

NoneOf(s, c) == \A j \in DOMAIN s : s[j].c # c
Alone(s, i) == \A j \in DOMAIN s : s[j].c = s[i].c => j = i

\* The functors of loop l: q is its queue, t what it is running.
SoundLoop(l, co, map, lo, q, t) ==
    /\ \A i \in DOMAIN q :
          /\ SoundFunctor(q[i], l, co[q[i].c], q[i].c \in map, lo[q[i].c])
          /\ Dangles(co, q[i]) => GuardAfter(q, i)
          /\ q[i].kind = "start" => Alone(q, i) /\ NoneOf(t, q[i].c)
    /\ \A i \in DOMAIN t :
          /\ SoundFunctor(t[i], l, co[t[i].c], t[i].c \in map, lo[t[i].c])
          /\ Dangles(co, t[i]) => GuardAfter(t, i) \/ GuardIn(q, t[i].c)
          /\ t[i].kind = "start" => Alone(t, i) /\ NoneOf(q, t[i].c)

Sound(L, co, map, lo, q, t) ==
    /\ \A c \in Conns : SoundConn(co[c], c \in map)
    /\ \A l \in L : SoundLoop(l, co, map, lo, q[l], t[l])

Lives == Sound(Loops, conn, connections_, loop, queue, todo)

Fresh(c) == conn[c] = NewConn /\ c \notin alive

AcceptedIn(s, c) == \E i \in DOMAIN s : s[i].op = Accept /\ s[i].res = c
Accepted(c) == \/ AcceptedIn(ring[Base].cq, c)
               \/ AcceptedIn(ring[Base].active, c)

\* A client that waits to be accepted, or whose connection is about to be
\* made, has no trace in the server yet.
Arrivals == \A c \in Conns :
    /\ c \in backlog => Fresh(c)
    /\ Accepted(c) => Fresh(c) /\ c \notin backlog
    /\ Fresh(c) => loop[c] = Base

IInv == /\ Types /\ RingsKnow /\ Passes /\ Woken /\ Alive /\ Lives /\ Arrivals

-----------------------------------------------------------------------------
(* The ring.                                                               *)

\* A list of completions has an operation as often as it had when another
\* one is appended or the head is taken.
LEMMA Listed ==
    ASSUME NEW s \in Seq(Cqe), NEW x
    PROVE  /\ NotIn(<<>>, x) /\ ~OneIn(<<>>, x)
           /\ ~(NotIn(s, x) /\ OneIn(s, x))
           /\ \A e \in Cqe :
                 /\ NotIn(Append(s, e), x) <=> NotIn(s, x) /\ e.op # x
                 /\ OneIn(Append(s, e), x) <=>
                        \/ OneIn(s, x) /\ e.op # x
                        \/ NotIn(s, x) /\ e.op = x
           /\ s # <<>> =>
                 /\ Head(s).op # x => /\ NotIn(Tail(s), x) <=> NotIn(s, x)
                                      /\ OneIn(Tail(s), x) <=> OneIn(s, x)
                 /\ Head(s).op = x /\ OneIn(s, x) => NotIn(Tail(s), x)
<1>1. /\ NotIn(<<>>, x) /\ ~OneIn(<<>>, x)
      /\ ~(NotIn(s, x) /\ OneIn(s, x))
  BY DEF NotIn, OneIn
<1>2. ASSUME NEW e \in Cqe
      PROVE  /\ NotIn(Append(s, e), x) <=> NotIn(s, x) /\ e.op # x
             /\ OneIn(Append(s, e), x) <=>
                    \/ OneIn(s, x) /\ e.op # x
                    \/ NotIn(s, x) /\ e.op = x
  <2> DEFINE a == Append(s, e)
             n == Len(s)
  <2>1. /\ n \in Nat /\ DOMAIN s = 1 .. n /\ DOMAIN a = 1 .. n + 1
        /\ \A i \in 1 .. n : a[i] = s[i]
        /\ a[n + 1] = e
    BY AppendProperties, LenProperties
  <2> HIDE DEF a, n
  <2>2. NotIn(a, x) <=> NotIn(s, x) /\ e.op # x
    BY <2>1 DEF NotIn
  <2>3. OneIn(s, x) /\ e.op # x => OneIn(a, x)
    BY <2>1 DEF OneIn
  <2>4. NotIn(s, x) /\ e.op = x => OneIn(a, x)
    BY <2>1 DEF OneIn, NotIn
  <2>5. OneIn(a, x) /\ e.op # x => OneIn(s, x)
    BY <2>1 DEF OneIn
  <2>6. OneIn(a, x) /\ e.op = x => NotIn(s, x)
    BY <2>1 DEF OneIn, NotIn
  <2>7. QED
    BY <2>2, <2>3, <2>4, <2>5, <2>6 DEF a
<1>3. ASSUME s # <<>>
      PROVE  /\ Head(s).op # x => /\ NotIn(Tail(s), x) <=> NotIn(s, x)
                                  /\ OneIn(Tail(s), x) <=> OneIn(s, x)
             /\ Head(s).op = x /\ OneIn(s, x) => NotIn(Tail(s), x)
  <2> DEFINE t == Tail(s)
             n == Len(s)
  <2>1. /\ n \in Nat \ {0} /\ DOMAIN s = 1 .. n /\ DOMAIN t = 1 .. n - 1
        /\ \A i \in 1 .. n - 1 : t[i] = s[i + 1]
        /\ Head(s) = s[1]
    BY <1>3, HeadTailProperties, LenProperties, EmptySeq
  <2> HIDE DEF t, n
  <2>2. \A j \in 1 .. n : j = 1 \/ (j - 1 \in 1 .. n - 1 /\ t[j - 1] = s[j])
    BY <2>1
  <2>3. s[1].op # x => (NotIn(t, x) <=> NotIn(s, x))
    <3>1. NotIn(s, x) => NotIn(t, x)
      BY <2>1 DEF NotIn
    <3>2. ASSUME s[1].op # x, NotIn(t, x), NEW j \in 1 .. n PROVE s[j].op # x
      BY <2>1, <2>2, <3>2 DEF NotIn
    <3>3. QED
      BY <2>1, <3>1, <3>2 DEF NotIn
  <2>4. s[1].op # x /\ OneIn(s, x) => OneIn(t, x)
    <3> HAVE s[1].op # x /\ OneIn(s, x)
    <3>1. PICK i \in 1 .. n : s[i].op = x /\ \A j \in 1 .. n : s[j].op = x => j = i
      BY <2>1 DEF OneIn
    <3>2. i - 1 \in 1 .. n - 1 /\ t[i - 1].op = x
      BY <2>1, <2>2, <3>1
    <3>3. \A j \in 1 .. n - 1 : t[j].op = x => j = i - 1
      BY <2>1, <3>1
    <3>4. QED
      BY <2>1, <3>2, <3>3 DEF OneIn
  <2>5. s[1].op # x /\ OneIn(t, x) => OneIn(s, x)
    <3> HAVE s[1].op # x /\ OneIn(t, x)
    <3>1. PICK i \in 1 .. n - 1 :
              t[i].op = x /\ \A j \in 1 .. n - 1 : t[j].op = x => j = i
      BY <2>1 DEF OneIn
    <3>2. i + 1 \in 1 .. n /\ s[i + 1].op = x
      BY <2>1, <3>1
    <3>3. ASSUME NEW j \in 1 .. n, s[j].op = x PROVE j = i + 1
      <4>1. j - 1 \in 1 .. n - 1 /\ t[j - 1] = s[j]
        BY <2>2, <3>3
      <4>2. j - 1 = i
        BY <3>1, <3>3, <4>1
      <4>3. QED
        BY <4>1, <4>2
    <3>4. QED
      BY <2>1, <3>2, <3>3 DEF OneIn
  <2>6. s[1].op = x /\ OneIn(s, x) => NotIn(t, x)
    <3> HAVE s[1].op = x /\ OneIn(s, x)
    <3>1. PICK i \in 1 .. n : \A j \in 1 .. n : s[j].op = x => j = i
      BY <2>1 DEF OneIn
    <3>2. i = 1
      BY <2>1, <3>1
    <3>3. ASSUME NEW j \in 1 .. n - 1 PROVE t[j].op # x
      <4>1. j + 1 \in 1 .. n /\ t[j] = s[j + 1] /\ j + 1 # 1
        BY <2>1, <3>3
      <4>2. QED
        BY <3>1, <3>2, <4>1
    <3>4. QED
      BY <2>1, <3>3 DEF NotIn
  <2>7. QED
    BY <2>1, <2>3, <2>4, <2>5, <2>6 DEF t
<1>4. QED
  BY <1>1, <1>2, <1>3

\* Operation x is as often in ring q as it was in r.
Same(r, q, x) == (Once(r, x) => Once(q, x)) /\ (Never(r, x) => Never(q, x))

\* Nothing but the place of an operation changed on its way to the kernel.
Level(r, q) == q \in Ring /\ q.cq = r.cq /\ q.active = r.active

\* io_uring_submit moves operations to the kernel and loses none.  When the
\* submission queue is still full, it fell short.
LEMMA Submitted ==
    ASSUME NEW r \in Ring, NEW q \in submitPendingSqes(r)
    PROVE  /\ Level(r, q) /\ \A x : Same(r, q, x)
           /\ ~hasRoom(q) => ~q.whole
<1>1. CASE q = [r EXCEPT !.kernel = @ \cup r.sq, !.sq = {}]
  <2>1. /\ q \in Ring /\ q.cq = r.cq /\ q.active = r.active
        /\ q.refused = r.refused
        /\ q.kernel = r.kernel \cup r.sq /\ q.sq = {}
    BY <1>1 DEF Ring
  <2>2. \A x : Same(r, q, x)
    BY <2>1 DEF Same, Once, Never
  <2>3. hasRoom(q)
    BY <2>1, FS_EmptySet, RingAssumption DEF hasRoom
  <2>4. QED
    BY <2>1, <2>2, <2>3 DEF Level
<1>2. ASSUME NEW left \in SUBSET r.sq, r.faults > 0,
             q = [r EXCEPT !.kernel = @ \cup (r.sq \ left), !.sq = left,
                           !.whole = FALSE, !.faults = @ - 1]
      PROVE  /\ Level(r, q) /\ \A x : Same(r, q, x)
             /\ ~hasRoom(q) => ~q.whole
  <2>0. PICK n \in Nat : n = r.faults - 1
    BY <1>2 DEF Ring
  <2>a. q = [r EXCEPT !.kernel = r.kernel \cup (r.sq \ left), !.sq = left,
                      !.whole = FALSE, !.faults = n]
    BY <1>2, <2>0 DEF Ring
  <2>1. /\ q \in Ring /\ q.cq = r.cq /\ q.active = r.active
        /\ q.refused = r.refused /\ q.whole = FALSE
        /\ q.kernel = r.kernel \cup (r.sq \ left) /\ q.sq = left
    BY <2>a DEF Ring
  <2>2. \A x : Same(r, q, x)
    BY <2>1 DEF Same, Once, Never
  <2>3. QED
    BY <2>1, <2>2 DEF Level
<1>3. QED
  BY <1>1, <1>2 DEF submitPendingSqes

\* Operation o came to ring r, which is now q.
Joins(r, q, o) == /\ Level(r, q) /\ Once(q, o)
                  /\ \A x : x # o => Same(r, q, x)

\* An operation that is prepared is in the submission queue, or refused.
LEMMA Prepared ==
    ASSUME NEW r \in Ring, NEW o \in Awaited, Never(r, o),
           NEW q \in prepare(r, o)
    PROVE  Joins(r, q, o)
<1>1. PICK r1 \in getSqe(r) :
          q = IF hasRoom(r1) THEN [r1 EXCEPT !.sq = @ \cup {o}]
                             ELSE [r1 EXCEPT !.refused = @ \cup {o}]
  BY DEF prepare
<1>2. /\ Level(r, r1) /\ \A x : Same(r, r1, x)
      /\ ~hasRoom(r1) => ~r1.whole
  BY Submitted DEF getSqe, Level, Same
<1>3. r1 \in Ring /\ Never(r1, o)
  BY <1>2 DEF Level, Same
<1>4. CASE hasRoom(r1)
  <2>1. q = [r1 EXCEPT !.sq = r1.sq \cup {o}]
    BY <1>1, <1>3, <1>4 DEF Ring
  <2>2. /\ q \in Ring /\ q.cq = r1.cq /\ q.active = r1.active
        /\ q.refused = r1.refused
        /\ q.kernel = r1.kernel /\ q.sq = r1.sq \cup {o}
    BY <1>3, <2>1 DEF Ring
  <2>3. Once(q, o) /\ \A x : x # o => Same(r1, q, x)
    BY <1>3, <2>2 DEF Same, Once, Never
  <2>4. QED
    BY <1>2, <2>2, <2>3 DEF Joins, Level, Same
<1>5. CASE ~hasRoom(r1)
  <2>1. q = [r1 EXCEPT !.refused = r1.refused \cup {o}] /\ ~r1.whole
    BY <1>1, <1>2, <1>3, <1>5 DEF Ring
  <2>2. /\ q \in Ring /\ q.cq = r1.cq /\ q.active = r1.active
        /\ q.sq = r1.sq
        /\ q.kernel = r1.kernel /\ q.refused = r1.refused \cup {o}
    BY <1>3, <2>1 DEF Ring
  <2>3. Once(q, o) /\ \A x : x # o => Same(r1, q, x)
    BY <1>3, <2>2 DEF Same, Once, Never
  <2>4. QED
    BY <1>2, <2>2, <2>3 DEF Joins, Level, Same
<1>6. QED
  BY <1>4, <1>5

\* What io_uring_submit then does with it is no loss.
LEMMA JoinedSubmitted ==
    ASSUME NEW r \in Ring, NEW o \in Awaited, NEW p, Joins(r, p, o),
           NEW q \in submitPendingSqes(p)
    PROVE  Joins(r, q, o)
<1>1. p \in Ring
  BY DEF Joins, Level
<1>2. Level(p, q) /\ \A x : Same(p, q, x)
  BY <1>1, Submitted
<1>3. QED
  BY <1>2 DEF Joins, Level, Same

\* The operation a coroutine comes to wait for is in the ring once.
LEMMA Suspended ==
    ASSUME NEW r \in Ring, NEW o \in Awaited, Never(r, o),
           NEW q \in await_suspend(r, o)
    PROVE  Joins(r, q, o)
<1>1. PICK p \in prepare(r, o) : q \in submitIfNeeded(p)
  BY DEF await_suspend
<1>2. Joins(r, p, o)
  BY Prepared
<1>3. q = p \/ q \in submitPendingSqes(p)
  BY <1>1 DEF submitIfNeeded
<1>4. QED
  BY <1>2, <1>3, JoinedSubmitted

\* So is the poll of the eventfd.
LEMMA Registered ==
    ASSUME NEW r \in Ring, Never(r, Wakeup), NEW q \in registerWakeupPoll(r)
    PROVE  Joins(r, q, Wakeup)
<1>1. PICK p \in prepare(r, Wakeup) : q = p \/ q \in submitPendingSqes(p)
  BY DEF registerWakeupPoll
<1>2. Joins(r, p, Wakeup)
  BY Prepared DEF Awaited
<1>3. QED
  BY <1>1, <1>2, JoinedSubmitted DEF Awaited

\* The completion that is handled was the only trace of its operation.
LEMMA Handled ==
    ASSUME NEW r \in Ring, r.active # <<>>, NEW o, Head(r.active).op = o,
           Once(r, o)
    PROVE  /\ handled(r) \in Ring
           /\ handled(r).cq = r.cq /\ handled(r).active = Tail(r.active)
           /\ Never(handled(r), o) /\ \A x : x # o => Same(r, handled(r), x)
<1> DEFINE q == handled(r)
<1>1. r.active \in Seq(Cqe) /\ Tail(r.active) \in Seq(Cqe)
  BY HeadTailProperties DEF Ring
<1>2. /\ q \in Ring /\ q.cq = r.cq /\ q.active = Tail(r.active)
      /\ q.sq = r.sq /\ q.kernel = r.kernel /\ q.refused = r.refused
  BY <1>1 DEF handled, Ring
<1> HIDE DEF q
<1>3. OneIn(r.active, o)
  <2>1. ~NotIn(r.active, o)
    BY <1>1, EmptySeq, LenProperties, HeadTailProperties DEF NotIn
  <2>2. QED
    BY <2>1 DEF Once
<1>4. /\ NotIn(q.active, o)
      /\ \A x : x # o => /\ NotIn(q.active, x) <=> NotIn(r.active, x)
                         /\ OneIn(q.active, x) <=> OneIn(r.active, x)
  BY <1>1, <1>2, <1>3, Listed
<1>5. Never(q, o)
  BY <1>1, <1>2, <1>3, <1>4, Listed DEF Never, Once
<1>6. \A x : x # o => Same(r, q, x)
  BY <1>2, <1>4 DEF Same, Once, Never
<1>7. QED
  BY <1>2, <1>5, <1>6 DEF q

\* poll() moves the completions to active_cqes_.
LEMMA Collected ==
    ASSUME NEW r \in Ring, r.active = <<>>
    PROVE  /\ collect(r) \in Ring
           /\ collect(r).cq = <<>> /\ collect(r).active = r.cq
           /\ \A x : Same(r, collect(r), x)
<1> DEFINE q == collect(r)
<1>1. r.cq \in Seq(Cqe) /\ <<>> \in Seq(Cqe)
  BY LenProperties, EmptySeq DEF Ring
<1>2. /\ q \in Ring /\ q.cq = <<>> /\ q.active = r.cq
      /\ q.sq = r.sq /\ q.kernel = r.kernel /\ q.refused = r.refused
  BY <1>1 DEF collect, Ring
<1> HIDE DEF q
<1>3. \A x : NotIn(<<>>, x) /\ ~OneIn(<<>>, x)
  BY DEF NotIn, OneIn
<1>4. \A x : Same(r, q, x)
  BY <1>2, <1>3 DEF Same, Once, Never
<1>5. QED
  BY <1>2, <1>4 DEF q

\* The names of operations differ.
LEMMA Names ==
    Wakeup # Accept /\ Wakeup \notin Conns /\ Accept \notin Conns
  BY UringAssumption DEF Wakeup, Accept

\* A set may have one more.
LEMMA OneMore ==
    ASSUME NEW S, IsFiniteSet(S), NEW x
    PROVE  /\ IsFiniteSet(S \cup {x}) /\ Cardinality(S \cup {x}) \in Nat
           /\ Cardinality(S \cup {x}) <= Cardinality(S) + 1
<1>1. Cardinality(S) \in Nat
  BY FS_CardinalityType
<1>2. IsFiniteSet(S \cup {x})
  BY FS_AddElement
<1>3. Cardinality(S \cup {x}) = IF x \in S THEN Cardinality(S)
                                          ELSE Cardinality(S) + 1
  BY FS_AddElement
<1>4. CASE x \in S
  BY <1>1, <1>2, <1>3, <1>4
<1>5. CASE x \notin S
  BY <1>1, <1>2, <1>3, <1>5
<1>6. QED
  BY <1>4, <1>5

\* What waits in the ring of a loop, and the room that Fits promises for it.
Waiters(l) == {x \in Awaited : Waits(l, x)}

LEMMA WaitersFit ==
    ASSUME Fits, NEW l \in Loops
    PROVE  /\ IsFiniteSet(Waiters(l)) /\ Cardinality(Waiters(l)) \in Nat
           /\ Cardinality(Waiters(l)) <= CqEntries
<1> DEFINE W == Waiting(l)
           A == W \cup {Wakeup}
<1>1. IsFiniteSet(W) /\ Cardinality(W) \in Nat
  <2>1. W \subseteq Conns
    BY DEF Waiting
  <2>2. QED
    BY <2>1, UringAssumption, FS_Subset, FS_CardinalityType
<1>2. Waiters(l) = IF l = Base THEN A \cup {Accept} ELSE A
  <2>1. ASSUME NEW x
        PROVE  x \in Waiters(l) <=>
                  x \in IF l = Base THEN A \cup {Accept} ELSE A
    <3>1. CASE x = Wakeup
      BY <3>1, Names DEF Waiters, Waits, Awaited
    <3>2. CASE x = Accept
      BY <3>2, Names DEF Waiters, Waits, Awaited, Waiting
    <3>3. CASE x # Wakeup /\ x # Accept
      BY <3>3 DEF Waiters, Waits, Awaited, Waiting
    <3>4. QED
      BY <3>1, <3>2, <3>3
  <2>2. QED
    BY <2>1
<1>3. Cardinality(W) + (IF l = Base THEN 2 ELSE 1) <= CqEntries /\ CqEntries \in Nat
  BY RingAssumption DEF Fits
<1> HIDE DEF W
<1>4. IsFiniteSet(A) /\ Cardinality(A) \in Nat /\ Cardinality(A) <= Cardinality(W) + 1
  BY <1>1, OneMore
<1> HIDE DEF A
<1>5. /\ IsFiniteSet(A \cup {Accept}) /\ Cardinality(A \cup {Accept}) \in Nat
      /\ Cardinality(A \cup {Accept}) <= Cardinality(A) + 1
  BY <1>4, OneMore
<1>6. CASE l = Base
  BY <1>1, <1>2, <1>3, <1>4, <1>5, <1>6
<1>7. CASE l # Base
  BY <1>1, <1>2, <1>3, <1>4, <1>7
<1>8. QED
  BY <1>6, <1>7

\* Two lists without repetitions and without common elements are together
\* no longer than the set of their elements.
LEMMA TwoLists ==
    ASSUME NEW n \in Nat, NEW m \in Nat, NEW T, IsFiniteSet(T),
           NEW a \in [1 .. n -> T], NEW b \in [1 .. m -> T],
           \A i, j \in 1 .. n : a[i] = a[j] => i = j,
           \A i, j \in 1 .. m : b[i] = b[j] => i = j,
           \A i \in 1 .. n, j \in 1 .. m : a[i] # b[j]
    PROVE  n + m <= Cardinality(T)
<1> DEFINE N == n + m
           f == [i \in 1 .. N |-> IF i <= n THEN a[i] ELSE b[i - n]]
<1>1. N \in Nat /\ \A i \in 1 .. N : i <= n \/ i - n \in 1 .. m
  OBVIOUS
<1>2. f \in [1 .. N -> T]
  <2>1. ASSUME NEW i \in 1 .. N
        PROVE  (IF i <= n THEN a[i] ELSE b[i - n]) \in T
    BY <1>1
  <2>2. QED
    BY <2>1
<1>3. ASSUME NEW i \in 1 .. N, NEW j \in 1 .. N, f[i] = f[j] PROVE i = j
  <2>1. /\ i <= n \/ i - n \in 1 .. m
        /\ j <= n \/ j - n \in 1 .. m
        /\ i <= n => i \in 1 .. n
        /\ j <= n => j \in 1 .. n
    BY <1>1
  <2>2. /\ i <= n => f[i] = a[i]
        /\ j <= n => f[j] = a[j]
        /\ ~(i <= n) => f[i] = b[i - n]
        /\ ~(j <= n) => f[j] = b[j - n]
    OBVIOUS
  <2> HIDE DEF f, N
  <2>3. CASE i <= n /\ j <= n
    BY <1>3, <2>1, <2>2, <2>3
  <2>4. CASE i <= n /\ ~(j <= n)
    BY <1>3, <2>1, <2>2, <2>4
  <2>5. CASE ~(i <= n) /\ j <= n
    BY <1>3, <2>1, <2>2, <2>5
  <2>6. CASE ~(i <= n) /\ ~(j <= n)
    <3>1. i - n = j - n
      BY <1>3, <2>1, <2>2, <2>6
    <3>2. i \in Int /\ j \in Int
      BY <1>1
    <3>3. QED
      BY <3>1, <3>2
  <2>7. QED
    BY <2>3, <2>4, <2>5, <2>6
<1> HIDE DEF f
<1>4. IsFiniteSet(1 .. N) /\ Cardinality(1 .. N) = N
  <2> HIDE DEF N
  <2>1. IsFiniteSet(1 .. N) /\ Cardinality(1 .. N) = IF 1 > N THEN 0 ELSE N - 1 + 1
    BY <1>1, FS_Interval
  <2>2. QED
    BY <1>1, <2>1
<1>5. Cardinality(T) \in Nat
  BY FS_CardinalityType
<1>6. ~(Cardinality(T) < N)
  <2> HIDE DEF N
  <2>1. ASSUME Cardinality(T) < Cardinality(1 .. N) PROVE FALSE
    <3>1. \E x, y \in 1 .. N : x # y /\ f[x] = f[y]
      BY <1>2, <1>4, <2>1, FS_PigeonHole, Zenon
    <3>2. QED
      BY <1>3, <3>1
  <2>2. QED
    BY <1>4, <2>1
<1>7. QED
  BY <1>1, <1>5, <1>6

\* While an operation is with the kernel there is room for its completion
\* behind the ones that are not handled yet: these are of other operations,
\* one of each at most.
LEMMA RoomForCompletion ==
    ASSUME NEW r \in Ring, NEW o \in Awaited, o \in r.kernel, NEW W,
           W \subseteq Awaited, IsFiniteSet(W), Cardinality(W) <= CqEntries,
           \A x \in Awaited : IF x \in W THEN Once(r, x) ELSE Never(r, x)
    PROVE  Len(r.cq) + Len(r.active) < CqEntries
<1> DEFINE n == Len(r.cq)
           m == Len(r.active)
           T == W \ {o}
           a == [i \in 1 .. n |-> r.cq[i].op]
           b == [i \in 1 .. m |-> r.active[i].op]
<1>1. /\ n \in Nat /\ DOMAIN r.cq = 1 .. n
      /\ m \in Nat /\ DOMAIN r.active = 1 .. m
      /\ \A i \in 1 .. n : r.cq[i].op \in Awaited
      /\ \A i \in 1 .. m : r.active[i].op \in Awaited
  BY LenProperties, ElementOfSeq DEF Ring, Cqe
<1>2. Once(r, o)
  BY DEF Never
<1>3. NotIn(r.cq, o) /\ NotIn(r.active, o)
  BY <1>2 DEF Once
<1>4. ASSUME NEW x \in Awaited
      PROVE  /\ NotIn(r.cq, x) \/ OneIn(r.cq, x)
             /\ NotIn(r.active, x) \/ OneIn(r.active, x)
             /\ NotIn(r.cq, x) \/ NotIn(r.active, x)
  <2>1. Once(r, x) \/ Never(r, x)
    OBVIOUS
  <2>2. QED
    BY <2>1 DEF Once, Never
<1> HIDE DEF n, m
<1>5. a \in [1 .. n -> T] /\ b \in [1 .. m -> T] /\ o \in W
  <2>1. \A i \in 1 .. n : r.cq[i].op \in W /\ r.cq[i].op # o
    BY <1>1, <1>3 DEF NotIn, Never
  <2>2. \A i \in 1 .. m : r.active[i].op \in W /\ r.active[i].op # o
    BY <1>1, <1>3 DEF NotIn, Never
  <2>3. QED
    BY <2>1, <2>2 DEF Never
<1>6. \A i, j \in 1 .. n : a[i] = a[j] => i = j
  <2> SUFFICES ASSUME NEW i \in 1 .. n, NEW j \in 1 .. n,
                      r.cq[i].op = r.cq[j].op
               PROVE  i = j
    OBVIOUS
  <2>1. OneIn(r.cq, r.cq[i].op)
    BY <1>1, <1>4 DEF NotIn
  <2>2. QED
    BY <1>1, <2>1 DEF OneIn
<1>7. \A i, j \in 1 .. m : b[i] = b[j] => i = j
  <2> SUFFICES ASSUME NEW i \in 1 .. m, NEW j \in 1 .. m,
                      r.active[i].op = r.active[j].op
               PROVE  i = j
    OBVIOUS
  <2>1. OneIn(r.active, r.active[i].op)
    BY <1>1, <1>4 DEF NotIn
  <2>2. QED
    BY <1>1, <2>1 DEF OneIn
<1>8. \A i \in 1 .. n, j \in 1 .. m : a[i] # b[j]
  BY <1>1, <1>4 DEF NotIn
<1> HIDE DEF a, b, T
<1>9. /\ IsFiniteSet(T) /\ Cardinality(T) = Cardinality(W) - 1
      /\ Cardinality(W) \in Nat /\ CqEntries \in Nat
      /\ Cardinality(W) <= CqEntries
  <2>1. Cardinality(W) \in Nat
    BY FS_CardinalityType
  <2>2. IsFiniteSet(T) /\ Cardinality(T) = Cardinality(W) - 1
    BY <1>5, FS_RemoveElement DEF T
  <2>3. QED
    BY <2>1, <2>2, RingAssumption
<1>10. n + m <= Cardinality(T)
  BY <1>1, <1>5, <1>6, <1>7, <1>8, <1>9, TwoLists
<1>11. \A x, y, z, w \in Int : x + y <= z - 1 /\ z <= w => x + y < w
  OBVIOUS
<1>12. n + m < CqEntries
  BY <1>1, <1>9, <1>10, <1>11
<1>13. QED
  BY <1>12 DEF n, m

\* The kernel completes an operation: the entry it writes is not one of
\* active_cqes_ that is still to be read.
LEMMA Completed ==
    ASSUME NEW r \in Ring, NEW o \in Awaited, o \in r.kernel, NEW res,
           [op |-> o, res |-> res] \in Cqe, NEW W,
           W \subseteq Awaited, IsFiniteSet(W), Cardinality(W) <= CqEntries,
           \A x \in Awaited : IF x \in W THEN Once(r, x) ELSE Never(r, x)
    PROVE  /\ complete(r, o, res) \in Ring
           /\ complete(r, o, res).cq =
                  Append(r.cq, [op |-> o, res |-> res])
           /\ complete(r, o, res).active = r.active
           /\ \A x \in Awaited : Same(r, complete(r, o, res), x)
<1> DEFINE cqe == [op |-> o, res |-> res]
           q == complete(r, o, res)
           at == Len(r.active) + Len(r.cq) + 1 - CqEntries
<1>1. /\ Len(r.cq) \in Nat /\ Len(r.active) \in Nat
      /\ CqEntries \in Nat
  BY LenProperties, RingAssumption DEF Ring
<1>2. ~(at > 0)
  <2>1. Len(r.cq) + Len(r.active) < CqEntries
    BY RoomForCompletion
  <2> DEFINE x == Len(r.cq)
             y == Len(r.active)
  <2>2. x \in Nat /\ y \in Nat /\ x + y < CqEntries
    BY <1>1, <2>1
  <2>3. at = y + x + 1 - CqEntries
    OBVIOUS
  <2> HIDE DEF x, y, at
  <2>4. QED
    BY <1>1, <2>2, <2>3
<1>3. q = [r EXCEPT !.kernel = r.kernel \ {o}, !.cq = Append(r.cq, cqe),
                    !.active = r.active]
  <2>1. q = [r EXCEPT !.kernel = @ \ {o}, !.cq = Append(@, cqe),
                !.active = IF at > 0 THEN [@ EXCEPT ![at] = cqe] ELSE @]
    BY DEF complete
  <2> HIDE DEF at, q
  <2>2. QED
    BY <1>2, <2>1 DEF Ring
<1>4. Append(r.cq, cqe) \in Seq(Cqe)
  BY AppendProperties DEF Ring
<1>5. /\ q \in Ring /\ q.cq = Append(r.cq, cqe) /\ q.active = r.active
      /\ q.sq = r.sq /\ q.kernel = r.kernel \ {o} /\ q.refused = r.refused
  BY <1>3, <1>4 DEF Ring
<1>6. cqe.op = o /\ r.cq \in Seq(Cqe)
  BY DEF Ring
<1> HIDE DEF q, cqe
<1>7. Once(r, o)
  BY DEF Never
<1>8. ASSUME NEW x \in Awaited PROVE Same(r, q, x)
  <2>1. /\ NotIn(q.cq, x) <=> NotIn(r.cq, x) /\ o # x
        /\ OneIn(q.cq, x) <=> \/ OneIn(r.cq, x) /\ o # x
                              \/ NotIn(r.cq, x) /\ o = x
    BY <1>5, <1>6, Listed DEF cqe
  <2>2. CASE x = o
    <3>1. NotIn(r.cq, o) /\ NotIn(r.active, o) /\ o \notin r.sq /\ o \notin r.refused
      BY <1>7 DEF Once
    <3>2. QED
      BY <1>5, <2>1, <2>2, <3>1 DEF Same, Once, Never
  <2>3. CASE x # o
    BY <1>5, <2>1, <2>3 DEF Same, Once, Never
  <2>4. QED
    BY <2>2, <2>3
<1>9. QED
  BY <1>5, <1>8 DEF q, cqe

\* Once and Never say how often an operation is in a ring.
LEMMA Counted ==
    ASSUME NEW r \in Ring, NEW x
    PROVE  /\ Once(r, x) => Pending(r, x)
           /\ Never(r, x) => Occurrences(r, x) = 0 /\ x \notin r.refused
<1> DEFINE A == {y \in {"sq"} : x \in r.sq}
           B == {y \in {"kernel"} : x \in r.kernel}
           D == {<<"cq", i>> : i \in {j \in DOMAIN r.cq : r.cq[j].op = x}}
           E == {<<"active", i>> :
                    i \in {j \in DOMAIN r.active : r.active[j].op = x}}
<1>1. Occurrences(r, x) = Cardinality(A \cup B \cup D \cup E)
  BY DEF Occurrences
<1>2. /\ x \in r.sq => A = {"sq"}
      /\ x \notin r.sq => A = {}
      /\ x \in r.kernel => B = {"kernel"}
      /\ x \notin r.kernel => B = {}
  OBVIOUS
<1>3. /\ NotIn(r.cq, x) => D = {}
      /\ NotIn(r.active, x) => E = {}
  BY DEF NotIn
<1>4. OneIn(r.cq, x) => \E i : D = {<<"cq", i>>}
  BY DEF OneIn
<1>5. OneIn(r.active, x) => \E i : E = {<<"active", i>>}
  BY DEF OneIn
<1> HIDE DEF A, B, D, E
<1>6. Never(r, x) \/ (Once(r, x) /\ x \in r.refused) => Occurrences(r, x) = 0
  <2>1. Never(r, x) \/ (Once(r, x) /\ x \in r.refused)
            => A \cup B \cup D \cup E = {}
    BY <1>2, <1>3 DEF Never, Once
  <2>2. QED
    BY <1>1, <2>1, FS_EmptySet
<1>7. Once(r, x) /\ x \notin r.refused => Occurrences(r, x) = 1
  <2>1. Once(r, x) /\ x \notin r.refused => \E p : A \cup B \cup D \cup E = {p}
    BY <1>2, <1>3, <1>4, <1>5 DEF Once
  <2>2. QED
    BY <1>1, <2>1, FS_Singleton
<1>8. x \in r.refused => ~r.whole
  BY DEF Ring
<1>9. QED
  BY <1>6, <1>7, <1>8 DEF Pending, Never

-----------------------------------------------------------------------------
(* The record of a connection in a step.                                   *)

\* A record while the step goes on.
StepRecord ==
    [state : {"KDisconnected", "KConnected", "KDisconnecting"},
     handler : {"none", "running", "suspended", "done"},
     does : {"none", "read", "write"}, left : Int,
     posts : Seq({"guard"} \cup Ops),
     closes : BOOLEAN, polite : BOOLEAN, half : BOOLEAN,
     inbox : Int, fin : BOOLEAN, rst : BOOLEAN, full : BOOLEAN,
     shutRd : BOOLEAN, shutWr : BOOLEAN]

\* Between steps nothing is posted and no callback is due.
LEMMA RecordIsStep == ConnRecord \subseteq StepRecord
  BY EmptySeq DEF ConnRecord, StepRecord

\* A connection before its start, and after its end, has a record.
LEMMA NewIsRecord == NewConn \in ConnRecord /\ destroyed \in ConnRecord
<1>1. PICK z \in Int : z = 0
  OBVIOUS
<1>2. [state |-> "KDisconnected", handler |-> "none", does |-> "none",
       left |-> z, posts |-> <<>>, closes |-> FALSE, polite |-> TRUE,
       half |-> FALSE,
       inbox |-> z, fin |-> FALSE, rst |-> FALSE, full |-> FALSE,
       shutRd |-> FALSE, shutWr |-> FALSE] \in ConnRecord
  BY DEF ConnRecord
<1>3. NewConn \in ConnRecord
  BY <1>1, <1>2 DEF NewConn
<1>4. QED
  BY <1>3 DEF destroyed, ConnRecord

\* One more functor is posted.
LEMMA PostsTypes ==
    ASSUME NEW p \in Seq({"guard"} \cup Ops), NEW x \in {"guard"} \cup Ops
    PROVE  Append(p, x) \in Seq({"guard"} \cup Ops)
  BY AppendProperties

\* handleClose() of an open connection posts its guard and tells the server.
LEMMA HandleCloses ==
    ASSUME NEW k \in StepRecord, k.posts = <<>>, ~k.closes
    PROVE  /\ handleClose(k) \in StepRecord
           /\ handleClose(k).state = "KDisconnected"
           /\ handleClose(k).handler = k.handler
           /\ handleClose(k).polite = k.polite
           /\ handleClose(k).does = k.does
           /\ k.state = "KDisconnected" => handleClose(k) = k
           /\ k.state # "KDisconnected" => /\ handleClose(k).closes
                                           /\ handleClose(k).posts = <<"guard">>
<1>1. CASE k.state = "KDisconnected"
  BY <1>1 DEF handleClose, StepRecord
<1>2. CASE k.state # "KDisconnected"
  <2>1. handleClose(k) = [k EXCEPT !.state = "KDisconnected", !.closes = TRUE,
                                   !.posts = Append(k.posts, "guard")]
    BY <1>2 DEF handleClose, StepRecord
  <2>2. /\ Append(k.posts, "guard") \in Seq({"guard"} \cup Ops)
        /\ Append(k.posts, "guard") = <<"guard">>
    BY PostsTypes DEF StepRecord
  <2>3. QED
    BY <1>2, <2>1, <2>2 DEF StepRecord
<1>3. QED
  BY <1>1, <1>2

\* forceclose() of a connection that is connected posts its functor; under
\* a suspended handler it makes the handler one that is not polite.
LEMMA ForceCloses ==
    ASSUME NEW k \in StepRecord
    PROVE  /\ forceclose(k) \in StepRecord
           /\ forceclose(k).closes = k.closes
           /\ forceclose(k).handler = k.handler
           /\ forceclose(k).does = k.does
           /\ (forceclose(k).state = "KDisconnected")
                  <=> (k.state = "KDisconnected")
           /\ \/ forceclose(k) = k /\ k.state # "KConnected"
              \/ /\ k.state = "KConnected"
                 /\ forceclose(k).state = "KDisconnecting"
                 /\ forceclose(k).posts = Append(k.posts, "forceclose")
                 /\ forceclose(k).polite = (k.polite /\ k.handler # "suspended")
<1>1. CASE k.state \in {"KDisconnected", "KDisconnecting"}
  BY <1>1 DEF forceclose, StepRecord
<1>2. CASE k.state = "KConnected"
  <2> DEFINE p == k.polite /\ k.handler # "suspended"
  <2>1. forceclose(k) = [k EXCEPT !.state = "KDisconnecting",
                             !.posts = Append(k.posts, "forceclose"),
                             !.polite = p]
    BY <1>2 DEF forceclose, StepRecord
  <2>2. Append(k.posts, "forceclose") \in Seq({"guard"} \cup Ops)
    BY PostsTypes DEF StepRecord, Ops
  <2>3. p \in BOOLEAN
    OBVIOUS
  <2> HIDE DEF p
  <2>4. /\ forceclose(k) \in StepRecord
        /\ forceclose(k).closes = k.closes
        /\ forceclose(k).handler = k.handler
        /\ forceclose(k).does = k.does
        /\ forceclose(k).state = "KDisconnecting"
        /\ forceclose(k).posts = Append(k.posts, "forceclose")
        /\ forceclose(k).polite = p
    BY <2>1, <2>2, <2>3 DEF StepRecord
  <2>5. QED
    BY <1>2, <2>4 DEF p
<1>3. QED
  BY <1>1, <1>2 DEF StepRecord

\* shutdown() posts its functor and does nothing else that lives depend on.
LEMMA ShutsDown ==
    ASSUME NEW k \in StepRecord
    PROVE  /\ shutdown(k) \in StepRecord
           /\ shutdown(k).closes = k.closes
           /\ shutdown(k).handler = k.handler
           /\ shutdown(k).does = k.does
           /\ shutdown(k).state = "KDisconnecting"
           /\ shutdown(k).posts = Append(k.posts, "shutdown")
           /\ shutdown(k).polite = k.polite
<1>1. Append(k.posts, "shutdown") \in Seq({"guard"} \cup Ops)
  BY PostsTypes DEF StepRecord, Ops
<1>2. QED
  BY <1>1 DEF shutdown, StepRecord

\* What a call of a method leaves, for one that the state admits.
Calling(k, k1) ==
    /\ k1 \in StepRecord /\ k1.closes = k.closes /\ k1.handler = k.handler
    /\ k1.does = k.does
    /\ (k1.state = "KDisconnected") <=> (k.state = "KDisconnected")
    /\ ~k.polite => ~k1.polite
    /\ \/ k1 = k
       \/ /\ k.state # "KDisconnected" /\ k1.state = "KDisconnecting"
          /\ k1.posts = Append(k.posts, "shutdown") /\ k1.polite = k.polite
       \/ /\ k.state # "KDisconnected" /\ k1.state = "KDisconnecting"
          /\ k1.posts = Append(k.posts, "forceclose")
          /\ k.handler = "suspended" => ~k1.polite

\* What call() leaves is as Calling says.
LEMMA Called ==
    ASSUME NEW k \in StepRecord, NEW o \in Calls, admits(o, k)
    PROVE  /\ Calling(k, call(o, k))
           /\ o = "nothing" => call(o, k) = k
           /\ o = "shutdown" => call(o, k) = shutdown(k)
           /\ o = "forceclose" => call(o, k) = forceclose(k)
<1>0. k.polite \in BOOLEAN
  BY DEF StepRecord
<1>1. CASE o = "shutdown"
  <2>1. call(o, k) = shutdown(k) /\ k.state = "KConnected"
    BY <1>1 DEF call, admits
  <2>2. QED
    BY <1>1, <2>1, ShutsDown DEF Calling
<1>2. CASE o = "forceclose"
  <2>1. call(o, k) = forceclose(k)
    BY <1>2 DEF call
  <2>2. QED
    BY <1>0, <1>2, <2>1, ForceCloses DEF Calling
<1>3. CASE o = "nothing"
  <2>1. call(o, k) = k
    BY <1>3 DEF call
  <2>2. QED
    BY <1>3, <2>1 DEF Calling
<1>4. QED
  BY <1>1, <1>2, <1>3 DEF Calls, Ops

\* What the handler leaves that runs until it waits again or returns.
Running(k, k1) ==
    /\ k1 \in StepRecord /\ k1.closes = k.closes
    /\ k1.handler \in {"suspended", "done"}
    /\ k1.handler = "suspended" => k1.does # "none"
    /\ (k1.state = "KDisconnected") <=> (k.state = "KDisconnected")
    /\ ~k.polite => ~k1.polite
    /\ k.state = "KDisconnected" /\ k1.handler = "suspended" => ~k1.polite
    /\ \/ k1.posts = k.posts
       \/ /\ k.state # "KDisconnected" /\ k1.posts = Append(k.posts, "shutdown")
       \/ /\ k.state # "KDisconnected" /\ k1.posts = Append(k.posts, "forceclose")
          /\ k1.handler = "done" \/ ~k1.polite

\* What handle() leaves is as Running says.
LEMMA Handles ==
    ASSUME NEW k \in StepRecord, NEW o \in Calls, NEW then \in Thens,
           admits(o, k)
    PROVE  Running(k, handle(k, o, then))
<1> DEFINE k0 == [k EXCEPT !.handler = "running"]
           k1 == call(o, k0)
<1>1. /\ k0 \in StepRecord /\ k0.state = k.state /\ k0.closes = k.closes
      /\ k0.posts = k.posts /\ k0.polite = k.polite /\ k0.handler = "running"
      /\ k.polite \in BOOLEAN /\ MaxLen \in Int
  BY UringAssumption DEF StepRecord
<1> HIDE DEF k0
<1>2. admits(o, k0)
  BY <1>1 DEF admits
<1>3. /\ Calling(k0, k1)
      /\ o = "nothing" => k1 = k0
      /\ o = "shutdown" => k1 = shutdown(k0)
      /\ o = "forceclose" => k1 = forceclose(k0)
  BY <1>1, <1>2, Called
<1>4. CASE then = "return"
  <2> DEFINE e == [k1 EXCEPT !.handler = "done", !.does = "none", !.left = 0]
  <2>1. handle(k, o, then) = IF e.state # "KDisconnected" THEN forceclose(e)
                                                          ELSE e
    BY <1>4 DEF handle, endLoop, k0
  <2>a. k1 \in StepRecord
    BY <1>3 DEF Calling
  <2> HIDE DEF k1
  <2>2. /\ e \in StepRecord /\ e.state = k1.state /\ e.closes = k1.closes
        /\ e.posts = k1.posts /\ e.polite = k1.polite /\ e.handler = "done"
    <3>1. e \in StepRecord
      <4>1. PICK z \in Int : z = 0
        OBVIOUS
      <4>2. [k1 EXCEPT !.handler = "done", !.does = "none", !.left = z]
               \in StepRecord
        BY <2>a DEF StepRecord
      <4>3. QED
        BY <4>1, <4>2
    <3>2. /\ e.state = k1.state /\ e.closes = k1.closes
          /\ e.posts = k1.posts /\ e.handler = "done"
      BY <2>a DEF StepRecord
    <3>3. e.polite = k1.polite
      BY <2>a DEF StepRecord
    <3>4. QED
      BY <3>1, <3>2, <3>3
  <2> HIDE DEF e
  <2>3. CASE e.state = "KConnected"
    <3>1. k1 = k0
      BY <1>3, <2>2, <2>3 DEF Calling
    <3>2. forceclose(e).posts = Append(k.posts, "forceclose")
      BY <1>1, <2>2, <2>3, <3>1, ForceCloses
    <3>3. ~k.polite => ~forceclose(e).polite
      BY <1>1, <2>2, <2>3, <3>1, ForceCloses
    <3>4. handle(k, o, then) = forceclose(e)
      BY <2>1, <2>3
    <3>5. /\ forceclose(e) \in StepRecord /\ forceclose(e).closes = k.closes
          /\ forceclose(e).handler = "done" /\ k.state # "KDisconnected"
          /\ forceclose(e).state # "KDisconnected"
      BY <1>1, <2>2, <2>3, <3>1, ForceCloses
    <3>6. QED
      BY <3>2, <3>3, <3>4, <3>5 DEF Running
  <2>4. CASE e.state # "KConnected"
    <3>1. handle(k, o, then) = e
      BY <2>1, <2>2, <2>4, ForceCloses
    <3>2. QED
      BY <1>1, <1>3, <2>2, <3>1 DEF Running, Calling
  <2>5. QED
    BY <2>3, <2>4
<1>5. CASE then # "return"
  <2> DEFINE p == k1.polite /\ k.state # "KDisconnected" /\ o # "forceclose"
             w == [k1 EXCEPT !.handler = "suspended", !.does = then,
                             !.left = MaxLen, !.polite = p]
  <2>1. k1 \in StepRecord
    BY <1>3 DEF Calling
  <2>2. handle(k, o, then) = w
    BY <1>5, <2>1 DEF handle, k0, StepRecord
  <2>3. p \in BOOLEAN /\ then \in {"read", "write"}
    BY <1>5 DEF Thens
  <2> HIDE DEF p, k1
  <2>4. /\ w \in StepRecord /\ w.state = k1.state /\ w.closes = k1.closes
        /\ w.posts = k1.posts /\ w.polite = p /\ w.handler = "suspended"
        /\ w.does # "none"
    BY <1>1, <2>1, <2>3 DEF StepRecord
  <2> HIDE DEF w
  <2>5. p => k1.polite /\ k.state # "KDisconnected" /\ o # "forceclose"
    BY DEF p
  <2>6. \/ w.posts = k.posts
        \/ k.state # "KDisconnected" /\ w.posts = Append(k.posts, "shutdown")
        \/ /\ k.state # "KDisconnected" /\ w.posts = Append(k.posts, "forceclose")
           /\ ~w.polite
    <3>1. CASE k1 = k0
      BY <1>1, <2>4, <3>1
    <3>2. CASE k1 # k0
      <4>1. CASE o = "shutdown"
        BY <1>1, <1>3, <2>4, <3>2, <4>1, ShutsDown DEF Calling
      <4>2. CASE o = "forceclose"
        BY <1>1, <1>3, <2>4, <2>5, <3>2, <4>2, ForceCloses
      <4>3. QED
        BY <1>3, <3>2, <4>1, <4>2 DEF Calls, Ops
    <3>3. QED
      BY <3>1, <3>2
  <2>7. QED
    BY <1>1, <1>3, <2>2, <2>4, <2>5, <2>6 DEF Running, Calling
<1>6. QED
  BY <1>4, <1>5

\* What a step of a connection may leave of its record k0.
Moves(k0, k) ==
    /\ k \in StepRecord /\ k.handler \in {"suspended", "done"}
    /\ k.handler = "suspended" => k.does # "none"
    /\ k.closes <=> (k0.state # "KDisconnected" /\ k.state = "KDisconnected")
    /\ k0.state = "KDisconnected" => k.state = "KDisconnected"
    /\ k.posts \in {<<>>, <<"guard">>, <<"shutdown">>, <<"forceclose">>}
    /\ k.closes <=> k.posts = <<"guard">>
    /\ k.state = "KDisconnected" => k.posts \in {<<>>, <<"guard">>}
    /\ k.state = "KDisconnected" /\ k.handler = "suspended" => ~k.polite
    /\ k.posts = <<"forceclose">> => k.handler = "done" \/ ~k.polite
    /\ k0.handler = "done" => k.handler = "done"
    /\ ~k0.polite => ~k.polite

\* Lists of one functor.
LEMMA OnePost ==
    /\ \A x : Append(<<>>, x) = <<x>> /\ <<x>> # <<>>
    /\ <<"guard">> # <<"shutdown">> /\ <<"guard">> # <<"forceclose">>
    /\ <<"shutdown">> # <<"forceclose">>
  OBVIOUS

\* read() or send() has ended, and the handler goes on.
LEMMA ResultMoves ==
    ASSUME NEW k0 \in ConnRecord, SoundConn(k0, TRUE), k0.handler = "suspended",
           NEW res, NEW o \in Calls, NEW then \in Thens,
           admits(o, finished(k0, res))
    PROVE  Moves(k0, handle(finished(k0, res), o, then))
<1> DEFINE k1 == finished(k0, res)
           k == handle(k1, o, then)
<1>1. /\ k0 \in StepRecord /\ k0.posts = <<>> /\ k0.closes = FALSE
      /\ k0.polite \in BOOLEAN
  BY RecordIsStep DEF ConnRecord
<1>2. \/ k1 = k0
      \/ k1 = handleClose(k0)
  BY DEF finished
<1>3. /\ k1 \in StepRecord
      /\ k1.polite = k0.polite
      /\ \/ k1 = k0
         \/ /\ k0.state # "KDisconnected" /\ k1.state = "KDisconnected"
            /\ k1.closes /\ k1.posts = <<"guard">>
  BY <1>1, <1>2, HandleCloses
<1> HIDE DEF k1
<1>4. Running(k1, k)
  BY <1>3, Handles DEF k1
<1> HIDE DEF k
<1>5. ASSUME k1 = k0 PROVE Moves(k0, k)
  BY <1>1, <1>4, <1>5, OnePost DEF Running, Moves
<1>6. ASSUME k1 # k0 PROVE Moves(k0, k)
  <2>1. /\ k0.state # "KDisconnected" /\ k1.state = "KDisconnected"
        /\ k1.closes /\ k1.posts = <<"guard">> /\ k1.polite = k0.polite
    BY <1>3, <1>6
  <2>2. QED
    BY <1>4, <2>1, OnePost DEF Running, Moves
<1>7. QED
  BY <1>5, <1>6 DEF k, k1

\* The connection is started, and its handler runs.
LEMMA StartMoves ==
    ASSUME NEW o \in Calls, NEW then \in Thens
    PROVE  /\ start(NewConn) \in ConnRecord
           /\ start(NewConn).state = "KConnected"
           /\ Moves(start(NewConn), handle(start(NewConn), o, then))
           /\ ~handle(start(NewConn), o, then).closes
<1> DEFINE k0 == start(NewConn)
           k == handle(k0, o, then)
<1>1. /\ k0 \in ConnRecord /\ k0.state = "KConnected" /\ k0.posts = <<>>
      /\ k0.closes = FALSE /\ k0.handler = "none" /\ k0.polite = TRUE
  <2>1. NewConn \in ConnRecord
    BY NewIsRecord
  <2>2. /\ NewConn.posts = <<>> /\ NewConn.closes = FALSE
        /\ NewConn.handler = "none" /\ NewConn.polite = TRUE
    BY DEF NewConn
  <2>3. QED
    BY <2>1, <2>2 DEF start, ConnRecord
<1>2. admits(o, k0) /\ k0 \in StepRecord
  BY <1>1, RecordIsStep DEF admits
<1> HIDE DEF k0
<1>3. Running(k0, k)
  BY <1>2, Handles
<1> HIDE DEF k
<1>4. Moves(k0, k) /\ ~k.closes
  BY <1>1, <1>3, OnePost DEF Running, Moves
<1>5. QED
  BY <1>1, <1>4 DEF k, k0

\* A functor that captured this runs.
LEMMA RawMoves ==
    ASSUME NEW k0 \in ConnRecord, SoundConn(k0, TRUE), k0.handler # "none"
    PROVE  /\ Moves(k0, shutdownInLoop(k0))
           /\ shutdownInLoop(k0).handler = k0.handler
           /\ forcecloseInLoop(k0).handler = k0.handler
           /\ (k0.handler = "done" \/ ~k0.polite)
                  => Moves(k0, forcecloseInLoop(k0))
<1>1. /\ k0 \in StepRecord /\ k0.posts = <<>> /\ k0.closes = FALSE
      /\ k0.polite \in BOOLEAN /\ k0.handler \in {"suspended", "done"}
  BY RecordIsStep DEF ConnRecord
<1>2. Moves(k0, shutdownInLoop(k0)) /\ shutdownInLoop(k0).handler = k0.handler
  <2> DEFINE k == shutdownInLoop(k0)
  <2>1. k \in StepRecord
    BY <1>1 DEF shutdownInLoop, StepRecord
  <2>2. /\ k.handler = k0.handler /\ k.state = k0.state
        /\ k.posts = <<>> /\ k.closes = FALSE /\ k.does = k0.does
    BY <1>1 DEF shutdownInLoop, StepRecord
  <2>3. k.polite = k0.polite
    BY <1>1 DEF shutdownInLoop, StepRecord
  <2> HIDE DEF k
  <2>4. QED
    BY <1>1, <2>1, <2>2, <2>3, OnePost DEF Moves, k, SoundConn
<1>3. /\ (k0.handler = "done" \/ ~k0.polite) => Moves(k0, forcecloseInLoop(k0))
      /\ forcecloseInLoop(k0).handler = k0.handler
  <2> DEFINE h == [k0 EXCEPT !.shutRd = TRUE, !.shutWr = TRUE]
             k == handleClose(h)
  <2>1. h \in StepRecord
    BY <1>1 DEF StepRecord
  <2>2. /\ h.handler = k0.handler /\ h.state = k0.state
        /\ h.posts = <<>> /\ h.closes = FALSE /\ h.does = k0.does
    BY <1>1 DEF StepRecord
  <2>3. h.polite = k0.polite
    BY <1>1 DEF StepRecord
  <2>4. forcecloseInLoop(k0) = k
    BY DEF forcecloseInLoop
  <2> HIDE DEF h
  <2>5. /\ k \in StepRecord /\ k.state = "KDisconnected"
        /\ k.handler = k0.handler /\ k.polite = k0.polite
        /\ k.does = k0.does
        /\ k0.state = "KDisconnected" => k = h
        /\ k0.state # "KDisconnected" => k.closes /\ k.posts = <<"guard">>
    BY <2>1, <2>2, <2>3, HandleCloses
  <2> HIDE DEF k
  <2>6. k0.handler = "done" \/ ~k0.polite => Moves(k0, k)
    BY <1>1, <2>2, <2>5, OnePost DEF Moves, SoundConn
  <2>7. QED
    BY <2>4, <2>5, <2>6
<1>4. QED
  BY <1>2, <1>3

\* The application calls a method.
LEMMA CallMoves ==
    ASSUME NEW k0 \in ConnRecord, SoundConn(k0, TRUE), k0.handler # "none",
           NEW o \in Ops, admits(o, k0)
    PROVE  Moves(k0, call(o, k0)) /\ call(o, k0).handler = k0.handler
<1>1. /\ k0 \in StepRecord /\ k0.posts = <<>> /\ k0.closes = FALSE
      /\ k0.polite \in BOOLEAN /\ k0.handler \in {"suspended", "done"}
  BY RecordIsStep DEF ConnRecord
<1> DEFINE k == call(o, k0)
<1>2. Calling(k0, k)
  BY <1>1, Called DEF Calls
<1>a. k.handler = k0.handler
  BY <1>2 DEF Calling
<1> HIDE DEF k
<1>3. CASE k = k0
  BY <1>1, <1>3, <1>a, OnePost DEF Moves, SoundConn, k
<1>4. CASE k # k0
  BY <1>1, <1>2, <1>4, <1>a, OnePost DEF Moves, Calling, SoundConn, k
<1>5. QED
  BY <1>3, <1>4

-----------------------------------------------------------------------------
(* The functors of one loop.                                               *)

\* The functor that ran is gone: those after it keep their guards.
LEMMA Drop ==
    ASSUME NEW l, NEW co, NEW map, NEW lo, NEW q \in Seq(Functor),
           NEW t \in Seq(Functor), t # <<>>, SoundLoop(l, co, map, lo, q, t)
    PROVE  SoundLoop(l, co, map, lo, q, Tail(t))
<1> DEFINE u == Tail(t)
           n == Len(t)
<1>1. /\ n \in Nat /\ DOMAIN t = 1 .. n /\ DOMAIN u = 1 .. n - 1
      /\ \A i \in 1 .. n - 1 : u[i] = t[i + 1] /\ i + 1 \in 1 .. n
  BY HeadTailProperties, LenProperties, EmptySeq
<1> HIDE DEF u, n
<1>2. ASSUME NEW i \in DOMAIN q
      PROVE  /\ SoundFunctor(q[i], l, co[q[i].c], q[i].c \in map, lo[q[i].c])
             /\ Dangles(co, q[i]) => GuardAfter(q, i)
             /\ q[i].kind = "start" => Alone(q, i) /\ NoneOf(u, q[i].c)
  BY <1>1 DEF SoundLoop, NoneOf
<1>3. ASSUME NEW i \in 1 .. n - 1
      PROVE  /\ SoundFunctor(u[i], l, co[u[i].c], u[i].c \in map, lo[u[i].c])
             /\ Dangles(co, u[i]) => GuardAfter(u, i) \/ GuardIn(q, u[i].c)
             /\ u[i].kind = "start" => Alone(u, i) /\ NoneOf(q, u[i].c)
  <2>1. u[i] = t[i + 1] /\ i + 1 \in DOMAIN t
    BY <1>1
  <2>2. GuardAfter(t, i + 1) => GuardAfter(u, i)
    <3> HAVE GuardAfter(t, i + 1)
    <3>1. PICK j \in 1 .. n : i + 1 < j /\ IsGuard(t[j], t[i + 1].c)
      BY <1>1 DEF GuardAfter
    <3>2. j - 1 \in 1 .. n - 1 /\ i < j - 1 /\ u[j - 1] = t[j]
      BY <1>1, <3>1
    <3>3. QED
      BY <1>1, <2>1, <3>1, <3>2 DEF GuardAfter
  <2>3. Alone(t, i + 1) => Alone(u, i)
    BY <1>1, <2>1 DEF Alone
  <2>4. QED
    BY <2>1, <2>2, <2>3 DEF SoundLoop
<1>4. QED
  BY <1>1, <1>2, <1>3 DEF SoundLoop, u

\* A functor is queued that finds its connection as it should.
LEMMA Post ==
    ASSUME NEW l, NEW co, NEW map, NEW lo, NEW q \in Seq(Functor),
           NEW t \in Seq(Functor), SoundLoop(l, co, map, lo, q, t),
           NEW f \in Functor,
           SoundFunctor(f, l, co[f.c], f.c \in map, lo[f.c]),
           ~Dangles(co, f),
           f.kind = "start" => NoneOf(q, f.c) /\ NoneOf(t, f.c)
    PROVE  SoundLoop(l, co, map, lo, Append(q, f), t)
<1> DEFINE p == Append(q, f)
           n == Len(q)
<1>1. /\ n \in Nat /\ DOMAIN q = 1 .. n /\ DOMAIN p = 1 .. n + 1
      /\ \A i \in 1 .. n : p[i] = q[i] /\ i \in 1 .. n + 1
      /\ p[n + 1] = f
  BY AppendProperties, LenProperties
<1> HIDE DEF p, n
<1>2. ASSUME NEW g, g.kind = "start", g.c = f.c, f.kind # "start",
             SoundFunctor(g, l, co[g.c], g.c \in map, lo[g.c])
      PROVE  FALSE
  BY <1>2 DEF SoundFunctor, NewConn
<1>3. ASSUME NEW i \in 1 .. n
      PROVE  /\ SoundFunctor(p[i], l, co[p[i].c], p[i].c \in map, lo[p[i].c])
             /\ Dangles(co, p[i]) => GuardAfter(p, i)
             /\ p[i].kind = "start" => Alone(p, i) /\ NoneOf(t, p[i].c)
  <2>1. p[i] = q[i] /\ i \in DOMAIN q
    BY <1>1
  <2>2. GuardAfter(q, i) => GuardAfter(p, i)
    BY <1>1, <2>1 DEF GuardAfter
  <2>3. p[i].kind = "start" => Alone(p, i)
    <3> HAVE p[i].kind = "start"
    <3>1. Alone(q, i) /\ SoundFunctor(q[i], l, co[q[i].c], q[i].c \in map, lo[q[i].c])
      BY <2>1 DEF SoundLoop
    <3>2. f.c # q[i].c
      BY <1>1, <1>2, <2>1, <3>1 DEF NoneOf
    <3>3. ASSUME NEW j \in 1 .. n + 1, p[j].c = p[i].c PROVE j = i
      <4>1. j \in 1 .. n
        BY <1>1, <2>1, <3>2, <3>3
      <4>2. QED
        BY <1>1, <2>1, <3>1, <3>3, <4>1 DEF Alone
    <3>4. QED
      BY <1>1, <3>3 DEF Alone
  <2>4. QED
    BY <2>1, <2>2, <2>3 DEF SoundLoop
<1>4. /\ SoundFunctor(f, l, co[f.c], f.c \in map, lo[f.c])
      /\ ~Dangles(co, f)
      /\ f.kind = "start" => Alone(p, n + 1) /\ NoneOf(t, f.c)
  BY <1>1 DEF NoneOf, Alone
<1>5. ASSUME NEW i \in DOMAIN t
      PROVE  /\ SoundFunctor(t[i], l, co[t[i].c], t[i].c \in map, lo[t[i].c])
             /\ Dangles(co, t[i]) => GuardAfter(t, i) \/ GuardIn(p, t[i].c)
             /\ t[i].kind = "start" => Alone(t, i) /\ NoneOf(p, t[i].c)
  <2>1. GuardIn(q, t[i].c) => GuardIn(p, t[i].c)
    BY <1>1 DEF GuardIn
  <2>2. t[i].kind = "start" => NoneOf(p, t[i].c)
    <3> HAVE t[i].kind = "start"
    <3>1. /\ NoneOf(q, t[i].c)
          /\ SoundFunctor(t[i], l, co[t[i].c], t[i].c \in map, lo[t[i].c])
      BY DEF SoundLoop
    <3>2. f.c # t[i].c
      BY <1>2, <3>1 DEF NoneOf
    <3>3. QED
      BY <1>1, <3>1, <3>2 DEF NoneOf
  <2>3. QED
    BY <2>1, <2>2 DEF SoundLoop
<1>6. ASSUME NEW i \in DOMAIN p
      PROVE  /\ SoundFunctor(p[i], l, co[p[i].c], p[i].c \in map, lo[p[i].c])
             /\ Dangles(co, p[i]) => GuardAfter(p, i)
             /\ p[i].kind = "start" => Alone(p, i) /\ NoneOf(t, p[i].c)
  <2>1. i \in 1 .. n \/ i = n + 1
    BY <1>1
  <2>2. QED
    BY <1>1, <1>3, <1>4, <2>1
<1>7. QED
  BY <1>5, <1>6 DEF SoundLoop, p

\* Every functor of c that captured this has a guard behind it.
Covered(q, t, c) ==
    /\ \A i \in DOMAIN q : q[i].c = c /\ q[i].kind \in Ops => GuardAfter(q, i)
    /\ \A i \in DOMAIN t : t[i].c = c /\ t[i].kind \in Ops => GuardIn(q, c)

\* A guard that was just queued is behind all of them.
LEMMA GuardCovers ==
    ASSUME NEW q \in Seq(Functor), NEW t, NEW c, NEW f \in Functor,
           IsGuard(f, c)
    PROVE  Covered(Append(q, f), t, c)
<1> DEFINE p == Append(q, f)
           n == Len(q)
<1>1. /\ n \in Nat /\ DOMAIN q = 1 .. n /\ DOMAIN p = 1 .. n + 1
      /\ \A i \in 1 .. n : p[i] = q[i] /\ i < n + 1
      /\ p[n + 1] = f /\ n + 1 \in 1 .. n + 1
  BY AppendProperties, LenProperties
<1> HIDE DEF p, n
<1>2. ASSUME NEW i \in DOMAIN p, p[i].c = c, p[i].kind \in Ops
      PROVE  GuardAfter(p, i)
  <2>1. f.kind \notin Ops
    BY DEF IsGuard, Ops
  <2>2. i \in 1 .. n
    BY <1>1, <1>2, <2>1
  <2>3. QED
    BY <1>1, <1>2, <2>2 DEF GuardAfter
<1>3. GuardIn(p, c)
  BY <1>1 DEF GuardIn
<1>4. QED
  BY <1>2, <1>3 DEF Covered, p

\* The record of c changes by a step of c.
LEMMA Rerecord ==
    ASSUME NEW l, NEW co \in [Conns -> ConnRecord], NEW map, NEW lo,
           NEW q \in Seq(Functor), NEW t \in Seq(Functor),
           SoundLoop(l, co, map, lo, q, t),
           NEW c \in Conns, NEW k \in ConnRecord, k.handler # "none",
           \/ NoneOf(q, c) /\ NoneOf(t, c)
           \/ /\ co[c].handler # "none"
              /\ co[c].handler = "done" => k.handler = "done"
              /\ ~co[c].polite => ~k.polite
              /\ co[c].state = "KDisconnected" => k.state = "KDisconnected"
              /\ \/ k.state # "KDisconnected"
                 \/ co[c].state = "KDisconnected"
                 \/ l # lo[c] \/ Covered(q, t, c)
    PROVE  SoundLoop(l, [co EXCEPT ![c] = k], map, lo, q, t)
<1> DEFINE co2 == [co EXCEPT ![c] = k]
<1>1. /\ co2[c] = k
      /\ \A d \in Conns : d # c => co2[d] = co[d]
      /\ \A f \in Functor : f.c \in Conns
  BY DEF Functor
<1>2. /\ \A i \in DOMAIN q : q[i] \in Functor
      /\ \A i \in DOMAIN t : t[i] \in Functor
  BY ElementOfSeq, LenProperties
<1> HIDE DEF co2
<1>3. ASSUME NEW f \in Functor,
             SoundFunctor(f, l, co[f.c], f.c \in map, lo[f.c]),
             f.c = c => ~(NoneOf(q, c) /\ NoneOf(t, c))
      PROVE  SoundFunctor(f, l, co2[f.c], f.c \in map, lo[f.c])
  <2>1. CASE f.c # c
    BY <1>1, <1>3, <2>1
  <2>2. CASE f.c = c
    BY <1>1, <1>3, <2>2 DEF SoundFunctor, NewConn
  <2>3. QED
    BY <2>1, <2>2
<1>4. ASSUME NEW i \in DOMAIN q
      PROVE  /\ SoundFunctor(q[i], l, co2[q[i].c], q[i].c \in map, lo[q[i].c])
             /\ Dangles(co2, q[i]) => GuardAfter(q, i)
             /\ q[i].kind = "start" => Alone(q, i) /\ NoneOf(t, q[i].c)
  <2>1. /\ SoundFunctor(q[i], l, co[q[i].c], q[i].c \in map, lo[q[i].c])
        /\ Dangles(co, q[i]) => GuardAfter(q, i)
        /\ q[i].kind = "start" => Alone(q, i) /\ NoneOf(t, q[i].c)
    BY DEF SoundLoop
  <2>2. SoundFunctor(q[i], l, co2[q[i].c], q[i].c \in map, lo[q[i].c])
    BY <1>2, <1>3, <2>1 DEF NoneOf
  <2>3. Dangles(co2, q[i]) => GuardAfter(q, i)
    <3>1. CASE q[i].c # c
      BY <1>1, <1>2, <2>1, <3>1 DEF Dangles
    <3>2. CASE q[i].c = c
      <4>1. ~NoneOf(q, c)
        BY <3>2 DEF NoneOf
      <4>2. q[i].kind \in Ops => l = lo[c]
        BY <2>1, <3>2 DEF SoundFunctor
      <4>3. QED
        BY <1>1, <2>1, <3>2, <4>1, <4>2 DEF Dangles, Covered
    <3>3. QED
      BY <3>1, <3>2
  <2>4. QED
    BY <2>1, <2>2, <2>3
<1>5. ASSUME NEW i \in DOMAIN t
      PROVE  /\ SoundFunctor(t[i], l, co2[t[i].c], t[i].c \in map, lo[t[i].c])
             /\ Dangles(co2, t[i]) => GuardAfter(t, i) \/ GuardIn(q, t[i].c)
             /\ t[i].kind = "start" => Alone(t, i) /\ NoneOf(q, t[i].c)
  <2>1. /\ SoundFunctor(t[i], l, co[t[i].c], t[i].c \in map, lo[t[i].c])
        /\ Dangles(co, t[i]) => GuardAfter(t, i) \/ GuardIn(q, t[i].c)
        /\ t[i].kind = "start" => Alone(t, i) /\ NoneOf(q, t[i].c)
    BY DEF SoundLoop
  <2>2. SoundFunctor(t[i], l, co2[t[i].c], t[i].c \in map, lo[t[i].c])
    BY <1>2, <1>3, <2>1 DEF NoneOf
  <2>3. Dangles(co2, t[i]) => GuardAfter(t, i) \/ GuardIn(q, t[i].c)
    <3>1. CASE t[i].c # c
      BY <1>1, <1>2, <2>1, <3>1 DEF Dangles
    <3>2. CASE t[i].c = c
      <4>1. ~NoneOf(t, c)
        BY <3>2 DEF NoneOf
      <4>2. t[i].kind \in Ops => l = lo[c]
        BY <2>1, <3>2 DEF SoundFunctor
      <4>3. QED
        BY <1>1, <2>1, <3>2, <4>1, <4>2 DEF Dangles, Covered
    <3>3. QED
      BY <3>1, <3>2
  <2>4. QED
    BY <2>1, <2>2, <2>3
<1>6. QED
  BY <1>4, <1>5 DEF SoundLoop, co2

\* A started connection leaves the map, a new one comes to it and to a loop.
LEMMA Remap ==
    ASSUME NEW l, NEW co, NEW map, NEW lo, NEW q \in Seq(Functor),
           NEW t \in Seq(Functor), SoundLoop(l, co, map, lo, q, t),
           NEW c
    PROVE  /\ co[c].handler # "none" => SoundLoop(l, co, map \ {c}, lo, q, t)
           /\ SoundLoop(l, co, map \cup {c}, lo, q, t)
           /\ \A m : NoneOf(q, c) /\ NoneOf(t, c) /\ lo \in [Conns -> Loops]
                     => SoundLoop(l, co, map, [lo EXCEPT ![c] = m], q, t)
<1>1. ASSUME co[c].handler # "none" PROVE SoundLoop(l, co, map \ {c}, lo, q, t)
  <2>1. \A f : SoundFunctor(f, l, co[f.c], f.c \in map, lo[f.c])
                 => SoundFunctor(f, l, co[f.c], f.c \in map \ {c}, lo[f.c])
    BY <1>1 DEF SoundFunctor, NewConn
  <2>2. QED
    BY <2>1 DEF SoundLoop
<1>2. SoundLoop(l, co, map \cup {c}, lo, q, t)
  <2>1. \A f : SoundFunctor(f, l, co[f.c], f.c \in map, lo[f.c])
                 => SoundFunctor(f, l, co[f.c], f.c \in map \cup {c}, lo[f.c])
    BY DEF SoundFunctor
  <2>2. QED
    BY <2>1 DEF SoundLoop
<1>3. ASSUME NEW m, NoneOf(q, c), NoneOf(t, c), lo \in [Conns -> Loops]
      PROVE  SoundLoop(l, co, map, [lo EXCEPT ![c] = m], q, t)
  <2>1. /\ \A i \in DOMAIN q : q[i].c # c /\ q[i].c \in Conns
        /\ \A i \in DOMAIN t : t[i].c # c /\ t[i].c \in Conns
    <3>1. /\ \A i \in DOMAIN q : q[i] \in Functor
          /\ \A i \in DOMAIN t : t[i] \in Functor
      BY ElementOfSeq, LenProperties
    <3>2. QED
      BY <1>3, <3>1 DEF NoneOf, Functor
  <2>2. \A d \in Conns : d # c => [lo EXCEPT ![c] = m][d] = lo[d]
    BY <1>3
  <2>3. QED
    BY <2>1, <2>2 DEF SoundLoop
<1>4. QED
  BY <1>1, <1>2, <1>3

-----------------------------------------------------------------------------
(* The end of a step.                                                      *)

\* A guard keeps its connection.
LEMMA GuardKeeps ==
    ASSUME NEW q, NEW l \in DOMAIN q, NEW i \in DOMAIN q[l],
           q[l][i].kind \in Strong
    PROVE  Queued(q, q[l][i].c, Strong)
  BY DEF Queued

\* What settle() destroys has no functor, and leaves the others sound.
LEMMA Settles ==
    ASSUME NEW co \in [Conns -> ConnRecord], NEW map \in SUBSET Conns,
           NEW lo, NEW q \in [Loops -> Seq(Functor)],
           NEW t \in [Loops -> Seq(Functor)],
           Sound(Loops, co, map, lo, q, t), settle(co, map, q, t),
           failed = {}, alive \in SUBSET Conns,
           \A d \in Conns : conn[d].handler = "suspended" /\ co[d].polite
                                => Kept(co, map, q, t, d)
    PROVE  /\ conn' \in [Conns -> ConnRecord] /\ alive' \in SUBSET Conns
           /\ connections_' = map /\ queue' = q /\ todo' = t /\ failed' = {}
           /\ Sound(Loops, conn', map, lo, q, t)
           /\ \A d \in Conns : d \in alive' <=> Kept(conn', map, q, t, d)
           /\ \A d \in Conns :
                 /\ (conn'[d].handler = "suspended")
                        <=> (co[d].handler = "suspended")
                 /\ \/ conn'[d] = co[d]
                    \/ conn'[d] = destroyed /\ d \in alive
                 /\ d \in alive /\ d \notin alive' => conn'[d] = destroyed
<1> DEFINE K(d) == Kept(co, map, q, t, d)
<1>1. /\ alive' = {d \in Conns : K(d)}
      /\ conn' = [d \in Conns |-> IF d \in alive \ {x \in Conns : K(x)}
                                  THEN destroyed ELSE co[d]]
      /\ connections_' = map /\ queue' = q /\ todo' = t
      /\ failed' = failed \cup
            {"running frame" : x \in {d \in alive \ {y \in Conns : K(y)} :
                  conn[d].handler = "suspended" /\ co[d].polite}}
  BY DEF settle, Kept
<1>2. destroyed \in ConnRecord /\ destroyed.handler = "done"
      /\ destroyed.state = "KDisconnected"
  BY NewIsRecord DEF destroyed, NewConn
<1>3. conn' \in [Conns -> ConnRecord] /\ alive' \in SUBSET Conns
  BY <1>1, <1>2
<1>4. \A d \in Conns : conn'[d] = IF d \in alive /\ ~K(d) THEN destroyed
                                                          ELSE co[d]
  BY <1>1
<1>5. \A d \in Conns : d \in alive' <=> K(d)
  BY <1>1
<1>6. \A d \in Conns : co[d].handler = "suspended" => K(d)
  BY DEF Kept
<1>7. failed' = {}
  <2>1. \A d \in alive : d \in Conns
            /\ (conn[d].handler = "suspended" /\ co[d].polite => K(d))
    OBVIOUS
  <2>2. {d \in alive \ {y \in Conns : K(y)} :
                  conn[d].handler = "suspended" /\ co[d].polite} = {}
    <3> HIDE DEF K
    <3> QED
      BY <2>1
  <2>3. QED
    BY <1>1, <2>2
<1>8. ASSUME NEW l \in Loops, NEW f \in Functor, f.kind \in Strong,
             \/ \E i \in DOMAIN q[l] : f = q[l][i]
             \/ \E i \in DOMAIN t[l] : f = t[l][i]
      PROVE  K(f.c)
  BY <1>8 DEF Kept, Queued
<1>9. ASSUME NEW l \in Loops
      PROVE  /\ \A i \in DOMAIN q[l] : q[l][i] \in Functor
             /\ \A i \in DOMAIN t[l] : t[l][i] \in Functor
  <2>1. q[l] \in Seq(Functor) /\ t[l] \in Seq(Functor)
    BY <1>9
  <2>2. QED
    BY <2>1, ElementOfSeq, LenProperties
<1>10. \A f \in Functor : f.c \in Conns /\ (f.kind \in Strong \/ f.kind \in Ops)
  BY DEF Functor, Kinds
<1>11. \A d \in Conns : co[d].state # "KDisconnected" => K(d)
  BY DEF Sound, SoundConn, Kept
<1>12. ASSUME NEW l \in Loops, NEW i \in DOMAIN q[l] PROVE K(q[l][i].c)
  <2>1. q[l][i] \in Functor
    BY <1>9
  <2>2. CASE q[l][i].kind \in Strong
    BY <1>8, <2>1, <2>2
  <2>3. CASE q[l][i].kind \in Ops /\ Dangles(co, q[l][i])
    <3>1. PICK j \in DOMAIN q[l] : IsGuard(q[l][j], q[l][i].c)
      BY <2>3 DEF Sound, SoundLoop, GuardAfter
    <3>2. q[l][j] \in Functor /\ q[l][j].kind \in Strong /\ q[l][j].c = q[l][i].c
      BY <1>9, <3>1 DEF IsGuard, Strong
    <3>3. K(q[l][j].c)
      BY <1>8, <3>2
    <3>4. QED
      BY <3>2, <3>3
  <2>4. CASE q[l][i].kind \in Ops /\ ~Dangles(co, q[l][i])
    BY <1>10, <1>11, <2>1, <2>4 DEF Dangles
  <2>5. QED
    BY <1>10, <2>1, <2>2, <2>3, <2>4
<1>13. ASSUME NEW l \in Loops, NEW i \in DOMAIN t[l] PROVE K(t[l][i].c)
  <2>1. t[l][i] \in Functor
    BY <1>9
  <2>2. CASE t[l][i].kind \in Strong
    BY <1>8, <2>1, <2>2
  <2>3. CASE t[l][i].kind \in Ops /\ Dangles(co, t[l][i])
    <3>1. \/ \E j \in DOMAIN t[l] : IsGuard(t[l][j], t[l][i].c)
          \/ \E j \in DOMAIN q[l] : IsGuard(q[l][j], t[l][i].c)
      BY <2>3 DEF Sound, SoundLoop, GuardAfter, GuardIn
    <3>2. PICK g \in Functor :
              /\ g.kind \in Strong /\ g.c = t[l][i].c
              /\ \/ \E j \in DOMAIN q[l] : g = q[l][j]
                 \/ \E j \in DOMAIN t[l] : g = t[l][j]
      BY <1>9, <3>1 DEF IsGuard, Strong
    <3>3. K(g.c)
      BY <1>8, <3>2
    <3>4. QED
      BY <3>2, <3>3
  <2>4. CASE t[l][i].kind \in Ops /\ ~Dangles(co, t[l][i])
    BY <1>10, <1>11, <2>1, <2>4 DEF Dangles
  <2>5. QED
    BY <1>10, <2>1, <2>2, <2>3, <2>4
<1> HIDE DEF K
<1>14. Sound(Loops, conn', map, lo, q, t)
  <2>1. ASSUME NEW d \in Conns PROVE SoundConn(conn'[d], d \in map)
    <3>1. CASE conn'[d] = co[d]
      BY <3>1 DEF Sound
    <3>2. CASE conn'[d] = destroyed
      BY <1>2, <3>2 DEF SoundConn
    <3>3. QED
      BY <1>4, <3>1, <3>2
  <2>2. ASSUME NEW l \in Loops
        PROVE  SoundLoop(l, conn', map, lo, q[l], t[l])
    <3>1. SoundLoop(l, co, map, lo, q[l], t[l])
      BY DEF Sound
    <3>2. /\ \A i \in DOMAIN q[l] : conn'[q[l][i].c] = co[q[l][i].c]
          /\ \A i \in DOMAIN t[l] : conn'[t[l][i].c] = co[t[l][i].c]
      BY <1>4, <1>9, <1>10, <1>12, <1>13
    <3>3. QED
      BY <3>1, <3>2 DEF SoundLoop, Dangles
  <2>3. QED
    BY <2>1, <2>2 DEF Sound
<1>15. ASSUME NEW d \in Conns
       PROVE  /\ (conn'[d].handler = "suspended")
                     <=> (co[d].handler = "suspended")
              /\ \/ conn'[d] = co[d]
                 \/ conn'[d] = destroyed /\ d \in alive
              /\ d \in alive /\ d \notin alive' => conn'[d] = destroyed
  BY <1>2, <1>4, <1>5, <1>6
<1>16. \A d \in Conns : d \in alive' <=> Kept(conn', map, q, t, d)
  BY <1>5, <1>15 DEF Kept, K
<1>17. QED
  BY <1>1, <1>3, <1>7, <1>14, <1>15, <1>16

\* What a step posts is one functor or none.
LEMMA OwnPosts ==
    ASSUME NEW c \in Conns, NEW p
    PROVE  /\ [i \in DOMAIN <<>> |-> [kind |-> <<>>[i], c |-> c]] = <<>>
           /\ [i \in DOMAIN <<p>> |-> [kind |-> <<p>>[i], c |-> c]]
                  = <<[kind |-> p, c |-> c]>>
  OBVIOUS

\* The queues after a step of c in loop l that left record k.
Posted(c, l, k, q) ==
    /\ q \in [Loops -> Seq(Functor)]
    /\ \A m \in Loops : m # l /\ m # Base => q[m] = queue[m]
    /\ q[l] = IF k.posts = <<>> THEN queue[l]
              ELSE Append(queue[l], [kind |-> k.posts[1], c |-> c])
    /\ l # Base => q[Base] =
           IF k.closes
           THEN Append(queue[Base], [kind |-> "removeConnectionInLoop", c |-> c])
           ELSE queue[Base]

Own(c, k) == [i \in DOMAIN k.posts |-> [kind |-> k.posts[i], c |-> c]]
Removal(c, l, k) == IF k.closes /\ l # Base
                    THEN <<[kind |-> "removeConnectionInLoop", c |-> c]>>
                    ELSE <<>>
QueuesAfter(c, l, k) == [[queue EXCEPT ![l] = @ \o Own(c, k)]
                            EXCEPT ![Base] = @ \o Removal(c, l, k)]

\* The queues that apply() leaves are as Posted says.
LEMMA Posts ==
    ASSUME NEW c \in Conns, NEW l \in Loops, NEW k0, NEW k, Moves(k0, k),
           queue \in [Loops -> Seq(Functor)]
    PROVE  /\ Posted(c, l, k, QueuesAfter(c, l, k))
           /\ Own(c, k) # <<>> <=> k.posts # <<>>
<1> DEFINE own == Own(c, k)
           remote == k.closes /\ l # Base
           f == [kind |-> "removeConnectionInLoop", c |-> c]
           removal == IF remote THEN <<f>> ELSE <<>>
           g == [kind |-> k.posts[1], c |-> c]
           q == [[queue EXCEPT ![l] = @ \o own] EXCEPT ![Base] = @ \o removal]
<1>1. Base \in Loops /\ queue[l] \in Seq(Functor) /\ queue[Base] \in Seq(Functor)
  BY DEF Loops
<1>2. f \in Functor
  BY DEF Functor, Kinds, Strong
<1>3. PICK p \in {"guard", "shutdown", "forceclose"} : k.posts \in {<<>>, <<p>>}
  BY DEF Moves
<1>4. [kind |-> p, c |-> c] \in Functor
  BY <1>3 DEF Functor, Kinds, Strong, Ops
<1>5. /\ k.posts = <<>> => own = <<>>
      /\ k.posts # <<>> => /\ own = <<[kind |-> p, c |-> c]>> /\ own # <<>>
                           /\ g = [kind |-> p, c |-> c]
  BY <1>3, OwnPosts DEF Own
<1> HIDE DEF own, f, g
<1>6. queue[l] \o own = IF k.posts = <<>> THEN queue[l] ELSE Append(queue[l], g)
  BY <1>1, <1>4, <1>5, AppendIsConcat, ConcatEmptySeq
<1>7. queue[Base] \o removal = IF remote THEN Append(queue[Base], f)
                                          ELSE queue[Base]
  BY <1>1, <1>2, AppendIsConcat, ConcatEmptySeq
<1>8. /\ queue[l] \o own \in Seq(Functor)
      /\ queue[Base] \o removal \in Seq(Functor)
  BY <1>1, <1>2, <1>4, <1>5, <1>6, <1>7, AppendProperties
<1>9. l = Base => removal = <<>> /\ (queue[l] \o own) \o removal = queue[l] \o own
  BY <1>8, ConcatEmptySeq
<1> HIDE DEF removal
<1>10. q \in [Loops -> Seq(Functor)]
  BY <1>1, <1>8, <1>9
<1>11. /\ \A m \in Loops : m # l /\ m # Base => q[m] = queue[m]
       /\ q[l] = queue[l] \o own
       /\ l # Base => q[Base] = queue[Base] \o removal
  <2>1. CASE l = Base
    <3> DEFINE A == queue[l] \o own
               q1 == [queue EXCEPT ![l] = A]
    <3>1. q = [q1 EXCEPT ![Base] = q1[Base] \o removal]
      OBVIOUS
    <3>2. q1[l] = A /\ A \o removal = A /\ \A m \in Loops : m # l => q1[m] = queue[m]
      BY <1>9, <2>1
    <3> HIDE DEF q, A
    <3>3. q = [q1 EXCEPT ![l] = A]
      BY <2>1, <3>1, <3>2
    <3> HIDE DEF q1
    <3>4. q1 \in [Loops -> {queue[m] : m \in Loops} \cup {A}]
      BY DEF q1
    <3>5. QED
      BY <2>1, <3>2, <3>3, <3>4 DEF A
  <2>2. CASE l # Base
    BY <1>1, <2>2
  <2>3. QED
    BY <2>1, <2>2
<1> HIDE DEF q
<1>12. Posted(c, l, k, q)
  BY <1>6, <1>7, <1>10, <1>11 DEF Posted, f, g
<1>13. QED
  BY <1>5, <1>12 DEF q, own, removal, f, QueuesAfter, Removal

\* Who has something to run when c's step in loop l is over, and is awake.
Wakes(l) ==
    /\ wakeupFd' \in [Loops -> BOOLEAN]
    /\ \A m \in Loops :
          /\ wakeupFd[m] => wakeupFd'[m]
          /\ queue'[m] = queue[m] \/ wakeupFd'[m] \/ (m = l /\ lp[l] = "handle")

\* The server after a step of c that had the functors t left to run.
Goes(c, l, t) ==
    /\ conn' \in [Conns -> ConnRecord] /\ alive' \in SUBSET Conns
    /\ connections_' \in SUBSET Conns
    /\ queue' \in [Loops -> Seq(Functor)] /\ todo' = t /\ failed' = {}
    /\ Sound(Loops, conn', connections_', loop, queue', t)
    /\ \A d \in Conns : d \in alive' <=> Kept(conn', connections_', queue', t, d)
    /\ \A d \in Conns : d # c =>
          /\ (conn'[d].handler = "suspended") <=> (conn[d].handler = "suspended")
          /\ Fresh(d)' <=> Fresh(d)
    /\ Wakes(l)

\* The record of c changes from co[c] to kk, and with it the map.
Changing(c, l, m, co, k0, k, kk, map, q, t, co2, map2) ==
    /\ c \in Conns /\ l \in Loops /\ m \in Loops
    /\ loop \in [Conns -> Loops] /\ l = loop[c]
    /\ co \in [Conns -> ConnRecord] /\ k0 \in ConnRecord
    /\ Moves(k0, k) /\ kk \in ConnRecord
    /\ kk.handler = k.handler /\ kk.state = k.state /\ kk.polite = k.polite
    /\ Posted(c, l, k, q) /\ t \in Seq(Functor)
    /\ queue \in [Loops -> Seq(Functor)]
    /\ SoundLoop(m, co, map, loop, queue[m], t)
    /\ \/ k0 = co[c] /\ co[c].handler # "none"
       \/ ~k.closes /\ NoneOf(queue[m], c) /\ NoneOf(t, c)
    /\ co2 = [co EXCEPT ![c] = kk]
    /\ map2 = IF k.closes /\ l = Base THEN map \ {c} ELSE map

\* The record of c has changed, and with it the map and the queues: every
\* loop's functors find what they need.
LEMMA AppliedLoop ==
    ASSUME NEW c, NEW l, NEW m, NEW co, NEW k0, NEW k, NEW kk, NEW map, NEW q,
           NEW t, NEW co2, NEW map2,
           Changing(c, l, m, co, k0, k, kk, map, q, t, co2, map2)
    PROVE  SoundLoop(m, co2, map2, loop, q[m], t)
<1> USE DEF Changing
<1> DEFINE g == [kind |-> "guard", c |-> c]
           f == [kind |-> "removeConnectionInLoop", c |-> c]
<1>1. /\ queue[m] \in Seq(Functor) /\ co2[c] = kk
      /\ kk.handler # "none" /\ co2 \in [Conns -> ConnRecord]
      /\ k.posts \in {<<>>, <<"guard">>, <<"shutdown">>, <<"forceclose">>}
  BY DEF Moves
<1>2. \A p : [kind |-> p, c |-> c].kind = p /\ [kind |-> p, c |-> c].c = c
  OBVIOUS
<1>3. /\ g \in Functor /\ f \in Functor
      /\ [kind |-> "shutdown", c |-> c] \in Functor
      /\ [kind |-> "forceclose", c |-> c] \in Functor
  BY DEF Functor, Kinds, Strong, Ops
<1> HIDE DEF g, f
<1>4. CASE ~k.closes
  <2>1. SoundLoop(m, co2, map, loop, queue[m], t)
    <3>1. k0.state # "KDisconnected" => k.state # "KDisconnected"
      BY <1>4 DEF Moves
    <3>2. /\ k0.handler = "done" => kk.handler = "done"
          /\ ~k0.polite => ~kk.polite
          /\ k0.state = "KDisconnected" => kk.state = "KDisconnected"
      BY DEF Moves
    <3>3. QED
      BY <1>1, <3>1, <3>2, Rerecord
  <2>2. q[m] = IF m = l /\ k.posts # <<>>
               THEN Append(queue[m], [kind |-> k.posts[1], c |-> c])
               ELSE queue[m]
    BY <1>4 DEF Posted
  <2>3. CASE m = l /\ k.posts # <<>>
    <3>1. PICK p \in {"shutdown", "forceclose"} : k.posts = <<p>>
      BY <1>1, <1>4, <2>3 DEF Moves
    <3>2. k.state # "KDisconnected" /\ (p = "forceclose" => k.handler = "done" \/ ~k.polite)
      BY <1>4, <3>1, OnePost DEF Moves
    <3> DEFINE e == [kind |-> p, c |-> c]
    <3>3. e \in Functor /\ e.kind = p /\ e.c = c
      BY <1>2, <1>3, <3>1
    <3>4. q[m] = Append(queue[m], e)
      BY <2>2, <2>3, <3>1
    <3> HIDE DEF e
    <3>5. SoundFunctor(e, m, co2[e.c], e.c \in map, loop[e.c])
      BY <1>1, <2>3, <3>1, <3>2, <3>3 DEF SoundFunctor
    <3>6. ~Dangles(co2, e)
      BY <1>1, <3>2, <3>3 DEF Dangles
    <3>7. SoundLoop(m, co2, map, loop, Append(queue[m], e), t)
      BY <1>1, <2>1, <3>1, <3>3, <3>5, <3>6, Post
    <3>8. QED
      BY <1>4, <3>4, <3>7
  <2>4. CASE ~(m = l /\ k.posts # <<>>)
    BY <1>4, <2>1, <2>2, <2>4
  <2>5. QED
    BY <2>3, <2>4
<1>5. CASE k.closes
  <2>1. /\ k.posts = <<"guard">> /\ k.state = "KDisconnected"
        /\ co[c].handler # "none" /\ k0 = co[c]
    BY <1>5 DEF Moves
  <2>2. /\ co[c].handler = "done" => kk.handler = "done"
        /\ ~co[c].polite => ~kk.polite
        /\ kk.state = "KDisconnected"
    BY <2>1 DEF Moves
  <2>3. g.kind = "guard" /\ g.c = c /\ f.kind = "removeConnectionInLoop" /\ f.c = c
    BY DEF g, f
  <2>4. CASE m = l
    <3>1. q[m] = Append(queue[m], g)
      BY <2>1, <2>4, OnePost DEF Posted, g
    <3>2. SoundLoop(m, co, map, loop, Append(queue[m], g), t)
      <4>1. SoundFunctor(g, m, co[g.c], g.c \in map, loop[g.c])
        BY <2>1, <2>3 DEF SoundFunctor, Ops
      <4>2. ~Dangles(co, g) /\ g.kind # "start"
        BY <2>3 DEF Dangles, Ops
      <4>3. QED
        BY <1>1, <1>3, <4>1, <4>2, Post
    <3>3. Covered(Append(queue[m], g), t, c) /\ Append(queue[m], g) \in Seq(Functor)
      BY <1>1, <1>3, <2>3, GuardCovers, AppendProperties DEF IsGuard
    <3>4. SoundLoop(m, co2, map, loop, Append(queue[m], g), t)
      BY <1>1, <2>1, <2>2, <3>2, <3>3, Rerecord
    <3>5. SoundLoop(m, co2, map \ {c}, loop, Append(queue[m], g), t)
      BY <1>1, <3>3, <3>4, Remap
    <3>6. QED
      BY <1>5, <3>1, <3>4, <3>5
  <2>5. CASE m # l
    <3>1. SoundLoop(m, co2, map, loop, queue[m], t)
      BY <1>1, <2>1, <2>2, <2>5, Rerecord
    <3>2. CASE m = Base
      <4>1. q[m] = Append(queue[m], f)
        BY <1>5, <2>5, <3>2 DEF Posted, f
      <4>2. SoundFunctor(f, m, co2[f.c], f.c \in map, loop[f.c])
        BY <1>1, <2>2, <2>3 DEF SoundFunctor, Ops
      <4>3. ~Dangles(co2, f) /\ f.kind # "start"
        BY <2>3 DEF Dangles, Ops
      <4>4. SoundLoop(m, co2, map, loop, Append(queue[m], f), t)
        BY <1>1, <1>3, <3>1, <4>2, <4>3, Post
      <4>5. QED
        BY <2>5, <3>2, <4>1, <4>4
    <3>3. CASE m # Base
      <4>1. q[m] = queue[m]
        BY <2>5, <3>3 DEF Posted
      <4>2. SoundLoop(m, co2, map \ {c}, loop, queue[m], t)
        BY <1>1, <3>1, Remap
      <4>3. QED
        BY <3>1, <4>1, <4>2
    <3>4. QED
      BY <3>2, <3>3
  <2>6. QED
    BY <2>4, <2>5
<1>6. k.closes \in BOOLEAN
  BY DEF Moves, StepRecord
<1>7. QED
  BY <1>4, <1>5, <1>6

\* What is posted is c's: the others are held by what held them.
LEMMA PostedIsOwn ==
    ASSUME NEW c \in Conns, NEW l \in Loops, NEW k, NEW q,
           Posted(c, l, k, q), queue \in [Loops -> Seq(Functor)],
           NEW d, d # c, Queued(q, d, Strong)
    PROVE  Queued(queue, d, Strong)
<1>1. /\ DOMAIN q = Loops /\ DOMAIN queue = Loops
  BY DEF Posted
<1>2. PICK m \in Loops : \E i \in DOMAIN q[m] : q[m][i].c = d /\ q[m][i].kind \in Strong
  BY <1>1 DEF Queued
<1>3. PICK i \in DOMAIN q[m] : q[m][i].c = d /\ q[m][i].kind \in Strong
  BY <1>2
<1>4. ASSUME NEW e, e.c = c, q[m] = Append(queue[m], e)
      PROVE  i \in DOMAIN queue[m] /\ q[m][i] = queue[m][i]
  <2> DEFINE s == queue[m]
             n == Len(s)
  <2>1. /\ n \in Nat /\ DOMAIN s = 1 .. n /\ DOMAIN q[m] = 1 .. n + 1
        /\ \A j \in 1 .. n : q[m][j] = s[j] /\ j \in 1 .. n
        /\ q[m][n + 1] = e
    <3>1. s \in Seq(Functor)
      OBVIOUS
    <3> HIDE DEF s
    <3>2. s \in Seq(Functor \cup {e})
      BY <3>1, SeqMonotonic
    <3>3. QED
      BY <1>4, <3>2, AppendProperties, LenProperties DEF s
  <2> HIDE DEF s, n
  <2>2. i \in 1 .. n
    BY <1>3, <1>4, <2>1
  <2>3. QED
    BY <2>1, <2>2 DEF s
<1>5. \/ q[m] = queue[m]
      \/ \E p : q[m] = Append(queue[m], [kind |-> p, c |-> c])
  BY DEF Posted
<1>6. i \in DOMAIN queue[m] /\ q[m][i] = queue[m][i]
  <2>1. CASE q[m] = queue[m]
    BY <1>3, <2>1
  <2>2. ASSUME NEW p, q[m] = Append(queue[m], [kind |-> p, c |-> c])
        PROVE  i \in DOMAIN queue[m] /\ q[m][i] = queue[m][i]
    <3>1. [kind |-> p, c |-> c].c = c
      OBVIOUS
    <3>2. QED
      BY <1>4, <2>2, <3>1
  <2>3. QED
    BY <1>5, <2>1, <2>2
<1>7. QED
  BY <1>1, <1>3, <1>6 DEF Queued

\* A step of c in its loop: a step of read(), send() or the handler, or a
\* functor or call that closes it.
LEMMA Applies ==
    ASSUME Types, Alive,
           NEW c \in Conns, NEW l \in Loops, l = loop[c], lp[l] # "wait",
           NEW k0 \in ConnRecord, NEW k, Moves(k0, k),
           NEW map \in SUBSET Conns, NEW t \in [Loops -> Seq(Functor)],
           Sound(Loops, conn, map, loop, queue, t),
           \A d \in Conns : d \in map => d \in connections_ \/ d = c,
           \A d \in Conns : Queued(t, d, Strong) => Queued(todo, d, Strong),
           \/ k0 = conn[c] /\ conn[c].handler # "none"
           \/ /\ conn[c] = NewConn /\ k0.state = "KConnected" /\ c \in map
              /\ ~k.closes
              /\ \A m \in Loops : NoneOf(queue[m], c) /\ NoneOf(t[m], c),
           apply(c, l, k, map, t)
    PROVE  /\ Goes(c, l, t) /\ conn'[c].handler # "none"
           /\ (conn'[c].handler = "suspended") <=> (k.handler = "suspended")
<1> DEFINE kk == [k EXCEPT !.posts = <<>>, !.closes = FALSE]
           co == [conn EXCEPT ![c] = kk]
           map2 == IF k.closes /\ l = Base THEN map \ {c} ELSE map
           own == Own(c, k)
           remote == k.closes /\ l # Base
           q == QueuesAfter(c, l, k)
<1>1. /\ conn \in [Conns -> ConnRecord] /\ queue \in [Loops -> Seq(Functor)]
      /\ loop \in [Conns -> Loops] /\ alive \in SUBSET Conns
      /\ wakeupFd \in [Loops -> BOOLEAN] /\ failed = {}
      /\ lp[l] \in {"functors", "handle"} /\ Base \in Loops
  BY DEF Types, Loops
<1>2. /\ settle(co, map2, q, t)
      /\ wakeupFd' = [[wakeupFd EXCEPT
                          ![l] = @ \/ (own # <<>> /\ ownerMustWake(l))]
                       EXCEPT ![Base] = @ \/ remote]
  BY DEF apply, QueuesAfter, Own, Removal
<1>3. Posted(c, l, k, q) /\ (own # <<>> <=> k.posts # <<>>)
  BY <1>1, Posts
<1>4. /\ k \in StepRecord /\ k.handler \in {"suspended", "done"}
      /\ k.closes \in BOOLEAN
  BY DEF Moves, StepRecord
<1>5. kk \in ConnRecord
  BY <1>4 DEF StepRecord, ConnRecord
<1>6. /\ kk.handler = k.handler /\ kk.state = k.state
      /\ kk.posts = <<>> /\ kk.does = k.does
  BY <1>4 DEF StepRecord
<1>7. kk.polite = k.polite
  BY <1>4 DEF StepRecord
<1>8. /\ co \in [Conns -> ConnRecord] /\ co[c] = kk
      /\ \A d \in Conns : d # c => co[d] = conn[d]
  BY <1>1, <1>5
<1>9. map2 \in SUBSET Conns /\ q \in [Loops -> Seq(Functor)]
  BY <1>3 DEF Posted
<1> HIDE DEF kk, q, own
<1>10. ASSUME NEW m \in Loops
       PROVE  SoundLoop(m, co, map2, loop, q[m], t[m])
  <2>1. SoundLoop(m, conn, map, loop, queue[m], t[m]) /\ t[m] \in Seq(Functor)
    BY DEF Sound
  <2>2. \/ k0 = conn[c] /\ conn[c].handler # "none"
        \/ ~k.closes /\ NoneOf(queue[m], c) /\ NoneOf(t[m], c)
    OBVIOUS
  <2>3. QED
    <3> HIDE DEF co, map2
    <3>1. co = [conn EXCEPT ![c] = kk]
      BY DEF co
    <3>2. map2 = IF k.closes /\ l = Base THEN map \ {c} ELSE map
      BY DEF map2
    <3>3. Changing(c, l, m, conn, k0, k, kk, map, q, t[m], co, map2)
      BY <1>1, <1>3, <1>5, <1>6, <1>7, <2>1, <2>2, <3>1, <3>2 DEF Changing
    <3>4. QED
      BY <3>3, AppliedLoop
<1> HIDE DEF co
<1>11. ASSUME NEW d \in Conns PROVE SoundConn(co[d], d \in map2)
  <2>1. SoundConn(conn[d], d \in map)
    BY DEF Sound
  <2>2. CASE d # c
    BY <1>8, <2>1, <2>2
  <2>3. CASE d = c
    <3>1. k.state # "KDisconnected" => c \in map2
      BY <2>1, <2>3 DEF SoundConn, Moves
    <3>2. /\ k.state = "KDisconnected" /\ k.handler = "suspended" => ~k.polite
          /\ k.handler = "suspended" => k.does # "none"
      BY DEF Moves
    <3>3. QED
      BY <1>4, <1>6, <1>7, <1>8, <2>3, <3>1, <3>2 DEF SoundConn
  <2>4. QED
    BY <2>2, <2>3
<1>12. Sound(Loops, co, map2, loop, q, t)
  BY <1>10, <1>11 DEF Sound
<1>13. ASSUME NEW d \in Conns, conn[d].handler = "suspended", co[d].polite
       PROVE  Kept(co, map2, q, t, d)
  <2>1. CASE d # c
    BY <1>8, <1>13, <2>1 DEF Kept
  <2>2. CASE d = c /\ k.handler = "suspended"
    BY <1>6, <1>8, <2>2 DEF Kept
  <2>3. CASE d = c /\ k.handler = "done"
    <3>1. k0 = conn[c] /\ k.polite
      BY <1>7, <1>8, <1>13, <2>3 DEF NewConn
    <3>2. CASE k.closes
      <4>1. q[l] = Append(queue[l], [kind |-> "guard", c |-> c])
        BY <1>3, <3>2, OnePost DEF Moves, Posted
      <4>2. /\ queue[l] \in Seq(Functor) /\ DOMAIN q = Loops
            /\ [kind |-> "guard", c |-> c] \in Functor
        BY <1>1, <1>9 DEF Functor, Kinds, Strong
      <4>3. \E i \in DOMAIN q[l] : q[l][i] = [kind |-> "guard", c |-> c]
        <5>1. /\ Len(queue[l]) + 1 \in 1 .. Len(queue[l]) + 1
          BY <4>2, LenProperties
        <5>2. QED
          BY <4>1, <4>2, <5>1, AppendProperties, LenProperties
      <4>4. QED
        BY <2>3, <4>2, <4>3 DEF Kept, Queued, Strong
    <3>3. CASE ~k.closes
      <4>1. k.state # "KDisconnected"
        <5>1. SoundConn(conn[c], c \in map)
          BY DEF Sound
        <5>2. QED
          BY <1>13, <2>3, <3>1, <3>3, <5>1 DEF Moves, SoundConn
      <4>2. QED
        BY <1>6, <1>8, <1>11, <2>3, <4>1 DEF SoundConn, Kept
    <3>4. QED
      BY <1>4, <3>2, <3>3
  <2>4. QED
    BY <1>4, <2>1, <2>2, <2>3
<1> HIDE DEF map2
<1>14. /\ conn' \in [Conns -> ConnRecord] /\ alive' \in SUBSET Conns
       /\ connections_' = map2 /\ queue' = q /\ todo' = t /\ failed' = {}
       /\ Sound(Loops, conn', map2, loop, q, t)
       /\ \A d \in Conns : d \in alive' <=> Kept(conn', map2, q, t, d)
       /\ \A d \in Conns :
             /\ (conn'[d].handler = "suspended")
                    <=> (co[d].handler = "suspended")
             /\ \/ conn'[d] = co[d]
                \/ conn'[d] = destroyed /\ d \in alive
             /\ d \in alive /\ d \notin alive' => conn'[d] = destroyed
  BY <1>1, <1>2, <1>8, <1>9, <1>12, <1>13, Settles
<1>15. destroyed.handler = "done" /\ destroyed # NewConn /\ NewConn.handler = "none"
  BY DEF destroyed, NewConn
<1>16. ASSUME NEW d \in Conns, d # c
       PROVE  /\ (conn'[d].handler = "suspended") <=> (conn[d].handler = "suspended")
              /\ Fresh(d)' <=> Fresh(d)
  <2>1. co[d] = conn[d]
    BY <1>8, <1>16
  <2>2. Fresh(d)' => Fresh(d)
    BY <1>14, <1>15, <2>1 DEF Fresh
  <2>3. ASSUME Fresh(d), d \in alive' PROVE FALSE
    <3>1. d \notin alive /\ conn[d] = NewConn
      BY <2>3 DEF Fresh
    <3>2. ~Kept(conn, connections_, queue, todo, d)
      BY <3>1 DEF Alive
    <3>3. conn'[d].handler # "suspended"
      BY <1>14, <1>15, <2>1, <3>1
    <3>4. d \notin map2
      BY <1>16, <3>2 DEF Kept, map2
    <3>5. ~Queued(t, d, Strong)
      BY <3>2 DEF Kept
    <3>6. ~Queued(q, d, Strong)
      BY <1>1, <1>3, <1>16, <3>2, PostedIsOwn DEF Kept
    <3>7. QED
      BY <1>14, <2>3, <3>3, <3>4, <3>5, <3>6 DEF Kept
  <2>4. Fresh(d) => Fresh(d)'
    BY <1>14, <2>1, <2>3 DEF Fresh
  <2>5. QED
    BY <1>14, <2>1, <2>2, <2>4
<1>17. Wakes(l)
  <2>1. wakeupFd' \in [Loops -> BOOLEAN]
    BY <1>1, <1>2
  <2>2. ASSUME NEW m \in Loops
        PROVE  wakeupFd'[m] = \/ wakeupFd[m]
                              \/ m = l /\ own # <<>> /\ ownerMustWake(l)
                              \/ m = Base /\ remote
    BY <1>1, <1>2
  <2>3. ASSUME NEW m \in Loops, q[m] # queue[m], ~(m = l /\ lp[l] = "handle")
        PROVE  wakeupFd'[m]
    <3>1. CASE m = l
      BY <1>1, <1>3, <2>2, <2>3, <3>1 DEF Posted, ownerMustWake
    <3>2. CASE m # l
      BY <1>3, <2>2, <2>3, <3>2 DEF Posted
    <3>3. QED
      BY <3>1, <3>2
  <2>4. \A m \in Loops : wakeupFd[m] => wakeupFd'[m]
    BY <2>2
  <2>5. QED
    BY <1>14, <2>1, <2>3, <2>4 DEF Wakes
<1>18. conn'[c].handler # "none"
       /\ ((conn'[c].handler = "suspended") <=> (k.handler = "suspended"))
  BY <1>4, <1>6, <1>8, <1>14, <1>15
<1>19. Goes(c, l, t)
  BY <1>9, <1>14, <1>16, <1>17 DEF Goes
<1>20. QED
  BY <1>18, <1>19

-----------------------------------------------------------------------------
(* The rings in a step.                                                    *)

\* An operation in the ring is not absent from it.
LEMMA OnceIsNotNever ==
    ASSUME NEW r \in Ring, NEW x PROVE ~(Once(r, x) /\ Never(r, x))
  BY DEF Once, Never, OneIn, NotIn

\* No connection is accepted in ring q that was not in r.
Quiet(r, q) ==
    \A c \in Conns : AcceptedIn(q.cq, c) \/ AcceptedIn(q.active, c)
                        => AcceptedIn(r.cq, c) \/ AcceptedIn(r.active, c)

\* What is accepted in the rest of the completions was in all of them.
LEMMA AcceptedBefore ==
    ASSUME NEW s \in Seq(Cqe), s # <<>>, NEW c, AcceptedIn(Tail(s), c)
    PROVE  AcceptedIn(s, c)
<1> DEFINE t == Tail(s)
           n == Len(s)
<1>1. /\ n \in Nat /\ DOMAIN s = 1 .. n /\ DOMAIN t = 1 .. n - 1
      /\ \A i \in 1 .. n - 1 : t[i] = s[i + 1] /\ i + 1 \in 1 .. n
  BY HeadTailProperties, LenProperties, EmptySeq
<1> HIDE DEF t, n
<1>2. AcceptedIn(t, c)
  BY DEF t
<1>3. QED
  BY <1>1, <1>2 DEF AcceptedIn

\* The next completion is handled: its operation has left the ring.
Takes(r, q, o) ==
    /\ q \in Ring /\ q.cq = r.cq /\ q.active = Tail(r.active)
    /\ Quiet(r, q) /\ \A x \in Awaited : x # o => Same(r, q, x)

\* handled() takes one operation from the ring.
LEMMA HandledTakes ==
    ASSUME NEW r \in Ring, r.active # <<>>, NEW o, Head(r.active).op = o,
           Once(r, o)
    PROVE  Takes(r, handled(r), o) /\ Never(handled(r), o)
<1>1. r.active \in Seq(Cqe)
  BY DEF Ring
<1>2. \A c : AcceptedIn(Tail(r.active), c) => AcceptedIn(r.active, c)
  BY <1>1, AcceptedBefore
<1>3. QED
  BY <1>2, Handled DEF Takes, Quiet

\* The coroutine waits again.
LEMMA Rewaits ==
    ASSUME NEW r \in Ring, NEW q, NEW p, NEW o \in Awaited, Once(r, o),
           Takes(r, q, o), Joins(q, p, o)
    PROVE  Takes(r, p, o) /\ \A x \in Awaited : Same(r, p, x)
<1>1. \A x \in Awaited : x # o => Same(r, p, x)
  BY DEF Takes, Joins, Same
<1>2. Same(r, p, o)
  BY OnceIsNotNever DEF Joins, Same
<1>3. p \in Ring /\ p.cq = q.cq /\ p.active = q.active
  BY DEF Joins, Level
<1>4. QED
  BY <1>1, <1>2, <1>3 DEF Takes, Quiet

\* The coroutine of c waits, or has ended.
LEMMA WaitingJoins ==
    ASSUME NEW r \in Ring, NEW c \in Awaited, Never(r, c), NEW k,
           NEW q \in waiting(r, c, k)
    PROVE  /\ Level(r, q) /\ Has(q, c, k.handler = "suspended")
           /\ \A x : x # c => Same(r, q, x)
<1>1. CASE k.handler = "suspended"
  <2>1. q \in await_suspend(r, c)
    BY <1>1 DEF waiting
  <2>2. QED
    BY <1>1, <2>1, Suspended DEF Joins, Has
<1>2. CASE k.handler # "suspended"
  <2>1. q = r
    BY <1>2 DEF waiting
  <2>2. QED
    BY <1>2, <2>1 DEF Level, Has, Same
<1>3. QED
  BY <1>1, <1>2

\* The loops are those of loops_ and the base loop.
LEMMA SameLoops == UNCHANGED loops_ => Loops' = Loops
  BY DEF Loops

\* Whether the others wait is not changed by a step of c.
LEMMA OthersWait ==
    ASSUME UNCHANGED loop, NEW c \in Conns,
           \A d \in Conns : d # c => ((conn'[d].handler = "suspended")
                                         <=> (conn[d].handler = "suspended"))
    PROVE  /\ \A m : \A x \in Awaited : x # c \/ m # loop[c] =>
                   (Waits(m, x)' <=> Waits(m, x))
           /\ Waits(loop[c], c) <=> conn[c].handler = "suspended"
           /\ Waits(loop[c], c)' <=> conn'[c].handler = "suspended"
<1>1. c # Wakeup /\ c # Accept
  BY Names
<1>2. ASSUME NEW m, NEW x \in Awaited, x # c \/ m # loop[c]
      PROVE  Waits(m, x)' <=> Waits(m, x)
  BY <1>2 DEF Waits, Awaited
<1>3. QED
  BY <1>1, <1>2 DEF Waits

\* One ring changes.
LEMMA RingStep ==
    ASSUME Types, RingsKnow, Loops' = Loops, NEW l \in Loops, NEW r \in Ring,
           ring' = [ring EXCEPT ![l] = r],
           \A m \in Loops, x \in Awaited : m # l => (Waits(m, x)' <=> Waits(m, x)),
           \A x \in Awaited : Has(r, x, Waits(l, x)')
    PROVE  /\ ring' \in [Loops -> Ring] /\ RingsKnow'
           /\ ring'[l] = r /\ \A m \in Loops : m # l => ring'[m] = ring[m]
<1>1. Awaited' = Awaited
  BY DEF Awaited
<1>2. /\ ring' \in [Loops -> Ring] /\ ring'[l] = r
      /\ \A m \in Loops : m # l => ring'[m] = ring[m]
  BY DEF Types
<1>3. ASSUME NEW m \in Loops, NEW x \in Awaited
      PROVE  Has(ring'[m], x, Waits(m, x)')
  <2>1. CASE m = l
    BY <1>2, <2>1
  <2>2. CASE m # l
    <3>1. Has(ring[m], x, Waits(m, x))
      BY DEF RingsKnow
    <3>2. QED
      BY <1>2, <2>2, <3>1 DEF Has
  <2>3. QED
    BY <2>1, <2>2
<1>4. RingsKnow'
  BY <1>1, <1>3 DEF RingsKnow
<1>5. QED
  BY <1>2, <1>4

\* An operation moves in a ring, and everyone waits who waited.
LEMMA RingOnly ==
    ASSUME Types, RingsKnow, UNCHANGED <<loop, loops_>>,
           \A d \in Conns : (conn'[d].handler = "suspended")
                                <=> (conn[d].handler = "suspended"),
           NEW l \in Loops, NEW r \in Ring, ring' = [ring EXCEPT ![l] = r],
           \A x \in Awaited : Same(ring[l], r, x)
    PROVE  /\ ring' \in [Loops -> Ring] /\ RingsKnow'
           /\ ring'[l] = r /\ \A m \in Loops : m # l => ring'[m] = ring[m]
<1>1. \A m : \A x \in Awaited : Waits(m, x)' <=> Waits(m, x)
  BY DEF Waits, Awaited
<1>2. \A x \in Awaited : Has(r, x, Waits(l, x)')
  BY <1>1 DEF RingsKnow, Has, Same
<1>3. \A m \in Loops, x \in Awaited : m # l => (Waits(m, x)' <=> Waits(m, x))
  BY <1>1 DEF Awaited
<1>4. QED
  BY <1>2, <1>3, SameLoops, RingStep

\* Nothing is accepted in a ring that is quiet.
LEMMA QuietStep ==
    ASSUME NEW l \in Loops, ring \in [Loops -> Ring],
           NEW r, ring' = [ring EXCEPT ![l] = r], Quiet(ring[l], r)
    PROVE  \A c \in Conns : Accepted(c)' => Accepted(c)
<1>1. Base \in Loops
  BY DEF Loops
<1>2. ring'[Base] = IF l = Base THEN r ELSE ring[Base]
  BY <1>1
<1>3. QED
  BY <1>2 DEF Accepted, Quiet

-----------------------------------------------------------------------------
(* The steps that move operations and completions only.                    *)

\* A step that leaves the server as it is but for what the kernel knows of
\* a connection.
LEMMA RecordAction ==
    ASSUME IInv, UNCHANGED <<connections_, alive, failed, loop, loops_, queues>>,
           conn' \in [Conns -> ConnRecord], Alive', Lives',
           \A d \in Conns :
               /\ (conn'[d].handler = "suspended") <=> (conn[d].handler = "suspended")
               /\ Fresh(d)' <=> Fresh(d),
           NEW l \in Loops, NEW r \in Ring, ring' = [ring EXCEPT ![l] = r],
           \A x \in Awaited : Same(ring[l], r, x),
           lp' \in [Loops -> {"functors", "wait", "handle"}],
           wakeupFd' \in [Loops -> BOOLEAN], backlog' \subseteq backlog,
           \A m \in Loops : m # l => lp'[m] = lp[m] /\ wakeupFd'[m] = wakeupFd[m],
           lp'[l] # "handle" => r.active = <<>>,
           lp'[l] # "functors" => todo[l] = <<>>,
           lp'[l] # "handle" /\ queue[l] # <<>> => wakeupFd'[l],
           \A c \in Conns : Accepted(c)' =>
               c \notin backlog' /\ (Accepted(c) \/ c \in backlog)
    PROVE  IInv'
<1>1. /\ connections_' = connections_ /\ alive' = alive
      /\ failed' = failed /\ loop' = loop /\ loops_' = loops_
      /\ queue' = queue /\ todo' = todo
  BY DEF queues
<1>2. Loops' = Loops
  BY <1>1, SameLoops
<1>3. /\ ring' \in [Loops -> Ring] /\ RingsKnow'
      /\ ring'[l] = r /\ \A m \in Loops : m # l => ring'[m] = ring[m]
  BY <1>1, RingOnly DEF IInv
<1>4. Types'
  <2>1. /\ loops_' \in Seq({loops_'[i] : i \in DOMAIN loops_'})
    BY <1>1 DEF IInv, Types
  <2>2. /\ loop' \in [Conns -> Loops']
        /\ conn' \in [Conns -> ConnRecord]
        /\ connections_' \subseteq Conns /\ alive' \subseteq Conns
        /\ backlog' \subseteq Conns /\ failed' = {}
    BY <1>1, <1>2 DEF IInv, Types
  <2>3. /\ ring' \in [Loops' -> Ring]
        /\ wakeupFd' \in [Loops' -> BOOLEAN]
        /\ lp' \in [Loops' -> {"functors", "wait", "handle"}]
        /\ queue' \in [Loops' -> Seq(Functor)] /\ todo' \in [Loops' -> Seq(Functor)]
    BY <1>1, <1>2, <1>3 DEF IInv, Types
  <2>4. QED
    BY <2>1, <2>2, <2>3 DEF Types
<1>5. Passes'
  <2>1. ASSUME NEW m \in Loops
        PROVE  /\ lp'[m] # "handle" => ring'[m].active = <<>>
               /\ lp'[m] # "functors" => todo'[m] = <<>>
    BY <1>1, <1>3 DEF IInv, Passes
  <2>2. QED
    BY <1>2, <2>1 DEF Passes
<1>6. Woken'
  <2>1. ASSUME NEW m \in Loops, lp'[m] # "handle", queue'[m] # <<>>
        PROVE  wakeupFd'[m]
    BY <1>1, <2>1 DEF IInv, Woken
  <2>2. QED
    BY <1>2, <2>1 DEF Woken
<1>7. Arrivals'
  BY <1>1 DEF IInv, Arrivals
<1>8. QED
  BY <1>3, <1>4, <1>5, <1>6, <1>7 DEF IInv

\* A step in which a ring changes and no connection does.
LEMMA RingAction ==
    ASSUME IInv, UNCHANGED <<conns, loop, loops_, queues>>,
           NEW l \in Loops, NEW r \in Ring, ring' = [ring EXCEPT ![l] = r],
           \A x \in Awaited : Same(ring[l], r, x),
           lp' \in [Loops -> {"functors", "wait", "handle"}],
           wakeupFd' \in [Loops -> BOOLEAN], backlog' \subseteq backlog,
           \A m \in Loops : m # l => lp'[m] = lp[m] /\ wakeupFd'[m] = wakeupFd[m],
           lp'[l] # "handle" => r.active = <<>>,
           lp'[l] # "functors" => todo[l] = <<>>,
           lp'[l] # "handle" /\ queue[l] # <<>> => wakeupFd'[l],
           \A c \in Conns : Accepted(c)' =>
               c \notin backlog' /\ (Accepted(c) \/ c \in backlog)
    PROVE  IInv'
<1>1. /\ conn' = conn /\ connections_' = connections_ /\ alive' = alive
      /\ failed' = failed /\ loop' = loop /\ loops_' = loops_
      /\ queue' = queue /\ todo' = todo
  BY DEF conns, queues
<1>2. Loops' = Loops
  BY <1>1, SameLoops
<1>3. Alive'
  BY <1>1 DEF IInv, Alive, Kept, Queued
<1>4. Lives'
  BY <1>1, <1>2 DEF IInv, Lives
<1>5. /\ conn' \in [Conns -> ConnRecord]
      /\ \A d \in Conns :
               /\ (conn'[d].handler = "suspended") <=> (conn[d].handler = "suspended")
               /\ Fresh(d)' <=> Fresh(d)
  BY <1>1 DEF IInv, Types, Fresh
<1>6. UNCHANGED <<connections_, alive, failed, loop, loops_, queues>>
  BY <1>1 DEF queues
<1>7. QED
  BY <1>3, <1>4, <1>5, <1>6, RecordAction

\* poll() submits: the loop has run its functors, so what is queued now has
\* woken it.
LEMMA SubmitKeeps ==
    ASSUME IInv, NEW l \in Loops, Submit(l) PROVE IInv'
<1>0. PICK r \in submitPendingSqes(ring[l]) : ring' = [ring EXCEPT ![l] = r]
  BY DEF Submit, rings
<1>1. /\ ring \in [Loops -> Ring] /\ ring[l] \in Ring
      /\ lp \in [Loops -> {"functors", "wait", "handle"}]
      /\ wakeupFd \in [Loops -> BOOLEAN]
  BY DEF IInv, Types
<1>2. /\ lp[l] = "functors" /\ todo[l] = <<>>
      /\ ring' = [ring EXCEPT ![l] = r]
      /\ lp' = [lp EXCEPT ![l] = "wait"]
      /\ UNCHANGED <<conns, loop, loops_, queues>> /\ wakeupFd' = wakeupFd
      /\ backlog' = backlog
  BY <1>0 DEF Submit, server
<1>3. Level(ring[l], r) /\ \A x \in Awaited : Same(ring[l], r, x)
  BY <1>1, Submitted
<1>4. /\ r \in Ring /\ r.active = ring[l].active /\ r.cq = ring[l].cq
  BY <1>3 DEF Level
<1>5. r.active = <<>> /\ (queue[l] # <<>> => wakeupFd[l])
  BY <1>2, <1>4 DEF IInv, Passes, Woken
<1>6. \A c \in Conns : Accepted(c)' => Accepted(c)
  BY <1>1, <1>2, <1>4, QuietStep DEF Quiet
<1>7. \A c \in Conns : Accepted(c)' => c \notin backlog' /\ (Accepted(c) \/ c \in backlog)
  BY <1>2, <1>6 DEF IInv, Arrivals
<1>9. /\ lp' \in [Loops -> {"functors", "wait", "handle"}] /\ lp'[l] = "wait"
      /\ \A m \in Loops : m # l => lp'[m] = lp[m]
  BY <1>1, <1>2
<1>10. QED
  BY <1>1, <1>2, <1>3, <1>4, <1>5, <1>7, <1>9, RingAction

\* poll() returns with completions, and active_cqes_ was empty.
LEMMA CollectKeeps ==
    ASSUME IInv, NEW l \in Loops, Collect(l) PROVE IInv'
<1> DEFINE r == collect(ring[l])
<1>1. /\ ring \in [Loops -> Ring] /\ ring[l] \in Ring
      /\ lp \in [Loops -> {"functors", "wait", "handle"}]
      /\ wakeupFd \in [Loops -> BOOLEAN]
  BY DEF IInv, Types
<1>2. /\ lp[l] = "wait" /\ ring' = [ring EXCEPT ![l] = r]
      /\ lp' = [lp EXCEPT ![l] = "handle"]
      /\ UNCHANGED <<conns, loop, loops_, queues>> /\ wakeupFd' = wakeupFd
      /\ backlog' = backlog
  BY DEF Collect, server
<1>3. ring[l].active = <<>> /\ todo[l] = <<>>
  BY <1>2 DEF IInv, Passes
<1>4. /\ r \in Ring /\ r.cq = <<>> /\ r.active = ring[l].cq
      /\ \A x \in Awaited : Same(ring[l], r, x)
  BY <1>1, <1>3, Collected
<1> HIDE DEF r
<1>5. \A c \in Conns : Accepted(c)' => Accepted(c)
  <2>1. Quiet(ring[l], r)
    BY <1>4 DEF Quiet, AcceptedIn
  <2>2. QED
    BY <1>1, <1>2, <2>1, QuietStep
<1>6. \A c \in Conns : Accepted(c)' => c \notin backlog' /\ (Accepted(c) \/ c \in backlog)
  BY <1>2, <1>5 DEF IInv, Arrivals
<1>7. /\ lp' \in [Loops -> {"functors", "wait", "handle"}] /\ lp'[l] = "handle"
      /\ \A m \in Loops : m # l => lp'[m] = lp[m]
  BY <1>1, <1>2
<1>8. QED
  BY <1>1, <1>2, <1>3, <1>4, <1>6, <1>7, RingAction

\* poll() returns without completions.
LEMMA PollTimesOutKeeps ==
    ASSUME IInv, NEW l \in Loops, PollTimesOut(l) PROVE IInv'
<1>1. /\ ring \in [Loops -> Ring] /\ ring[l] \in Ring
      /\ lp \in [Loops -> {"functors", "wait", "handle"}]
      /\ wakeupFd \in [Loops -> BOOLEAN]
  BY DEF IInv, Types
<1>2. /\ lp[l] = "wait" /\ ring' = ring
      /\ lp' = [lp EXCEPT ![l] = "handle"]
      /\ UNCHANGED <<conns, loop, loops_, queues>> /\ wakeupFd' = wakeupFd
      /\ backlog' = backlog
  BY DEF PollTimesOut, server
<1>3. ring' = [ring EXCEPT ![l] = ring[l]] /\ todo[l] = <<>>
  BY <1>1, <1>2 DEF IInv, Passes
<1>4. \A x \in Awaited : Same(ring[l], ring[l], x)
  BY DEF Same
<1>5. \A c \in Conns : Accepted(c)' => c \notin backlog' /\ (Accepted(c) \/ c \in backlog)
  BY <1>2 DEF IInv, Arrivals, Accepted
<1>6. /\ lp' \in [Loops -> {"functors", "wait", "handle"}] /\ lp'[l] = "handle"
      /\ \A m \in Loops : m # l => lp'[m] = lp[m]
  BY <1>1, <1>2
<1>7. QED
  BY <1>1, <1>2, <1>3, <1>4, <1>5, <1>6, RingAction

\* The types of the parts of the state.
LEMMA Unpack ==
    ASSUME IInv
    PROVE  /\ ring \in [Loops -> Ring] /\ Base \in Loops
           /\ lp \in [Loops -> {"functors", "wait", "handle"}]
           /\ wakeupFd \in [Loops -> BOOLEAN] /\ loop \in [Conns -> Loops]
           /\ conn \in [Conns -> ConnRecord] /\ alive \in SUBSET Conns
           /\ connections_ \in SUBSET Conns /\ backlog \in SUBSET Conns
           /\ queue \in [Loops -> Seq(Functor)] /\ todo \in [Loops -> Seq(Functor)]
  BY DEF IInv, Types, Loops

\* A completion is handled and its operation waits again.
LEMMA HandleKeeps ==
    ASSUME IInv, UNCHANGED <<conns, server, lp, queues>>,
           NEW l \in Loops, NEW o, Next_(l, o), NEW r, Takes(ring[l], r, o),
           \A x \in Awaited : Same(ring[l], r, x),
           ring' = [ring EXCEPT ![l] = r],
           wakeupFd' \in [Loops -> BOOLEAN],
           \A m \in Loops : m # l => wakeupFd'[m] = wakeupFd[m]
    PROVE  IInv'
<1>1. /\ ring \in [Loops -> Ring]
      /\ lp \in [Loops -> {"functors", "wait", "handle"}]
  BY Unpack
<1>2. /\ lp[l] = "handle" /\ lp' = lp /\ todo[l] = <<>> /\ backlog' = backlog
      /\ UNCHANGED <<conns, loop, loops_, queues>>
  BY DEF Next_, server, IInv, Passes
<1>3. \A c \in Conns : Accepted(c)' => Accepted(c)
  BY <1>1, QuietStep DEF Takes
<1>4. \A c \in Conns : Accepted(c)' => c \notin backlog' /\ (Accepted(c) \/ c \in backlog)
  BY <1>2, <1>3 DEF IInv, Arrivals
<1>5. r \in Ring
  BY DEF Takes
<1>6. QED
  BY <1>1, <1>2, <1>4, <1>5, RingAction

\* The completion at the head is of an operation that waits.
LEMMA HeadWaits ==
    ASSUME IInv, NEW l \in Loops, NEW o, Next_(l, o)
    PROVE  /\ ring[l] \in Ring /\ ring[l].active # <<>>
           /\ Head(ring[l].active) \in Cqe /\ Head(ring[l].active).op = o
           /\ o \in Awaited /\ Waits(l, o) /\ Once(ring[l], o)
<1>1. /\ ring[l] \in Ring /\ ring[l].active # <<>>
      /\ ring[l].active \in Seq(Cqe) /\ Head(ring[l].active).op = o
  BY Unpack DEF Next_, Ring
<1>2. Head(ring[l].active) \in Cqe
  BY <1>1, HeadTailProperties
<1>3. o \in Awaited
  BY <1>1, <1>2 DEF Cqe
<1>4. Has(ring[l], o, Waits(l, o))
  BY <1>3 DEF IInv, RingsKnow
<1>5. ~Never(ring[l], o)
  <2>1. ~NotIn(ring[l].active, o)
    BY <1>1, EmptySeq, LenProperties, HeadTailProperties DEF NotIn
  <2>2. QED
    BY <2>1 DEF Never
<1>6. QED
  BY <1>1, <1>2, <1>3, <1>4, <1>5 DEF Has

\* handleRead() of the eventfd: the loop is in its pass, which ends with its
\* functors, so it may clear the eventfd.
LEMMA HandleWakeupKeeps ==
    ASSUME IInv, NEW l \in Loops, HandleWakeup(l) PROVE IInv'
<1> DEFINE h == handled(ring[l])
<1>0. PICK r \in registerWakeupPoll(h) : ring' = [ring EXCEPT ![l] = r]
  BY DEF HandleWakeup, rings
<1>1. /\ Next_(l, Wakeup)
      /\ wakeupFd' = [wakeupFd EXCEPT ![l] = FALSE]
      /\ ring' = [ring EXCEPT ![l] = r]
      /\ UNCHANGED <<conns, server, lp, queues>>
  BY <1>0 DEF HandleWakeup
<1>2. /\ ring[l] \in Ring /\ ring[l].active # <<>> /\ Wakeup \in Awaited
      /\ Head(ring[l].active).op = Wakeup /\ Once(ring[l], Wakeup)
  BY <1>1, HeadWaits
<1>3. Takes(ring[l], h, Wakeup) /\ Never(h, Wakeup)
  BY <1>2, HandledTakes
<1> HIDE DEF h
<1>4. h \in Ring
  BY <1>3 DEF Takes
<1>5. Joins(h, r, Wakeup)
  BY <1>3, <1>4, Registered
<1>6. Takes(ring[l], r, Wakeup) /\ \A x \in Awaited : Same(ring[l], r, x)
  BY <1>2, <1>3, <1>5, Rewaits
<1>7. /\ wakeupFd' \in [Loops -> BOOLEAN]
      /\ \A m \in Loops : m # l => wakeupFd'[m] = wakeupFd[m]
  BY <1>1, Unpack
<1>8. QED
  BY <1>1, <1>6, <1>7, HandleKeeps

\* accept failed, and is waited for again.
LEMMA AcceptFailsKeeps ==
    ASSUME IInv, AcceptFails PROVE IInv'
<1> DEFINE h == handled(ring[Base])
<1>a. PICK r \in await_suspend(h, Accept) : ring' = [ring EXCEPT ![Base] = r]
  BY DEF AcceptFails, rings
<1>1. /\ Next_(Base, Accept) /\ wakeupFd' = wakeupFd
      /\ ring' = [ring EXCEPT ![Base] = r]
      /\ UNCHANGED <<conns, server, lp, queues>>
  BY <1>a DEF AcceptFails
<1>0. Base \in Loops
  BY Unpack
<1>2. /\ ring[Base] \in Ring /\ ring[Base].active # <<>> /\ Accept \in Awaited
      /\ Head(ring[Base].active).op = Accept /\ Once(ring[Base], Accept)
  BY <1>0, <1>1, HeadWaits
<1>3. Takes(ring[Base], h, Accept) /\ Never(h, Accept)
  BY <1>2, HandledTakes
<1> HIDE DEF h
<1>4. h \in Ring
  BY <1>3 DEF Takes
<1>5. Joins(h, r, Accept)
  BY <1>2, <1>3, <1>4, Suspended
<1>6. Takes(ring[Base], r, Accept) /\ \A x \in Awaited : Same(ring[Base], r, x)
  BY <1>2, <1>3, <1>5, Rewaits
<1>7. /\ wakeupFd' \in [Loops -> BOOLEAN]
      /\ \A m \in Loops : m # Base => wakeupFd'[m] = wakeupFd[m]
  BY <1>1, Unpack
<1>8. QED
  BY <1>0, <1>1, <1>6, <1>7, HandleKeeps

\* A completed accept is in the queue of the base loop.
LEMMA AcceptedNow ==
    ASSUME NEW s \in Seq(Cqe), NEW e \in Cqe, NEW c, AcceptedIn(Append(s, e), c)
    PROVE  AcceptedIn(s, c) \/ (e.op = Accept /\ e.res = c)
<1> DEFINE p == Append(s, e)
           n == Len(s)
<1>1. /\ n \in Nat /\ DOMAIN s = 1 .. n /\ DOMAIN p = 1 .. n + 1
      /\ \A i \in 1 .. n : p[i] = s[i]
      /\ p[n + 1] = e
  BY AppendProperties, LenProperties
<1>2. AcceptedIn(p, c)
  OBVIOUS
<1> HIDE DEF p, n
<1>3. PICK i \in 1 .. n + 1 : p[i].op = Accept /\ p[i].res = c
  BY <1>1, <1>2 DEF AcceptedIn
<1>4. i \in 1 .. n \/ i = n + 1
  BY <1>1
<1>5. QED
  BY <1>1, <1>3, <1>4 DEF AcceptedIn

\* The kernel completes operation o.
LEMMA CompletesRing ==
    ASSUME IInv, Fits, NEW l \in Loops, NEW o \in Awaited, NEW res,
           [op |-> o, res |-> res] \in Cqe, completes(l, o, res),
           NEW r, r = complete(ring[l], o, res)
    PROVE  /\ ring' = [ring EXCEPT ![l] = r] /\ r \in Ring
           /\ r.active = ring[l].active
           /\ \A x \in Awaited : Same(ring[l], r, x)
           /\ Waits(l, o)
           /\ \A c \in Conns : Accepted(c)' =>
                  Accepted(c) \/ (o = Accept /\ res = c)
<1> DEFINE e == [op |-> o, res |-> res]
<1>1. ring \in [Loops -> Ring] /\ ring[l] \in Ring /\ Base \in Loops
  BY Unpack
<1>2. o \in ring[l].kernel /\ ring' = [ring EXCEPT ![l] = r]
  BY DEF completes
<1>3. \A x \in Awaited : Has(ring[l], x, Waits(l, x))
  BY DEF IInv, RingsKnow
<1>4. PICK W : W = Waiters(l)
  OBVIOUS
<1>a. /\ W \subseteq Awaited /\ IsFiniteSet(W) /\ Cardinality(W) <= CqEntries
      /\ \A x \in Awaited : IF x \in W THEN Once(ring[l], x)
                                        ELSE Never(ring[l], x)
  BY <1>3, <1>4, WaitersFit DEF Waiters, Has
<1>5. /\ r \in Ring /\ r.cq = Append(ring[l].cq, e)
      /\ r.active = ring[l].active
      /\ \A x \in Awaited : Same(ring[l], r, x)
  BY <1>1, <1>2, <1>a, Completed
<1>6. Waits(l, o)
  BY <1>2, <1>3 DEF Has, Never
<1>7. ASSUME NEW c \in Conns, Accepted(c)'
      PROVE  Accepted(c) \/ (o = Accept /\ res = c)
  <2>1. CASE l = Base
    <3>1. ring'[Base] = r
      BY <1>1, <1>2, <2>1
    <3>2. AcceptedIn(r.cq, c) \/ AcceptedIn(ring[l].active, c)
      BY <1>5, <1>7, <3>1 DEF Accepted
    <3>3. e.op = o /\ e.res = res /\ e \in Cqe /\ ring[l].cq \in Seq(Cqe)
      BY <1>1 DEF Ring
    <3> HIDE DEF e
    <3>4. AcceptedIn(r.cq, c) => AcceptedIn(ring[l].cq, c) \/ (o = Accept /\ res = c)
      BY <1>5, <3>3, AcceptedNow
    <3>5. QED
      BY <2>1, <3>2, <3>4 DEF Accepted
  <2>2. CASE l # Base
    <3>1. ring'[Base] = ring[Base]
      BY <1>1, <1>2, <2>2
    <3>2. QED
      BY <1>7, <3>1 DEF Accepted
  <2>3. QED
    BY <2>1, <2>2
<1>8. QED
  BY <1>2, <1>5, <1>6, <1>7

\* A completion that changes no record.
LEMMA CompletesKeeps ==
    ASSUME IInv, Fits, NEW l \in Loops, NEW o \in Awaited, NEW res,
           [op |-> o, res |-> res] \in Cqe, completes(l, o, res),
           conn' = conn, backlog' \subseteq backlog,
           o = Accept => res \notin backlog' /\ (res \in backlog \/ res \notin Conns)
    PROVE  IInv'
<1>0. PICK r : r = complete(ring[l], o, res)
  OBVIOUS
<1>1. /\ ring' = [ring EXCEPT ![l] = r] /\ r \in Ring
      /\ r.active = ring[l].active
      /\ \A x \in Awaited : Same(ring[l], r, x)
      /\ \A c \in Conns : Accepted(c)' => Accepted(c) \/ (o = Accept /\ res = c)
  BY <1>0, CompletesRing
<1>2. /\ UNCHANGED <<conns, loop, loops_, queues>> /\ lp' = lp
      /\ wakeupFd' = wakeupFd
  BY DEF completes, conns
<1>3. \A c \in Conns : Accepted(c)' => c \notin backlog' /\ (Accepted(c) \/ c \in backlog)
  BY <1>1 DEF IInv, Arrivals
<1>4. /\ lp[l] # "handle" => r.active = <<>>
      /\ lp[l] # "functors" => todo[l] = <<>>
      /\ lp[l] # "handle" /\ queue[l] # <<>> => wakeupFd[l]
  BY <1>1 DEF IInv, Passes, Woken
<1>5. QED
  BY <1>1, <1>2, <1>3, <1>4, Unpack, RingAction

\* The kernel completes the poll of an eventfd.
LEMMA CompleteWakeupKeeps ==
    ASSUME IInv, Fits, NEW l \in Loops, CompleteWakeup(l) PROVE IInv'
<1>1. Wakeup \in Awaited /\ Wakeup # Accept /\ Wakeup \notin Conns
  BY Names DEF Awaited
<1>2. [op |-> Wakeup, res |-> 0] \in Cqe
  <2>1. PICK z \in Int : z = 0
    OBVIOUS
  <2>2. [op |-> Wakeup, res |-> z] \in Cqe
    BY <1>1 DEF Cqe
  <2>3. QED
    BY <2>1, <2>2
<1>3. /\ completes(l, Wakeup, 0) /\ conn' = conn /\ backlog' = backlog
     
  BY DEF CompleteWakeup
<1>4. QED
  BY <1>1, <1>2, <1>3, Unpack, CompletesKeeps

\* A client is accepted: it is still unknown to the server.
LEMMA CompleteAcceptKeeps ==
    ASSUME IInv, Fits, NEW c \in Conns, CompleteAccept(c) PROVE IInv'
<1>1. Accept \in Awaited /\ Accept \notin Conns
  BY Names DEF Awaited
<1>2. [op |-> Accept, res |-> c] \in Cqe
  BY <1>1 DEF Cqe
<1>3. /\ completes(Base, Accept, c) /\ conn' = conn /\ c \in backlog
      /\ backlog' = backlog \ {c}
  BY DEF CompleteAccept
<1>4. QED
  BY <1>1, <1>2, <1>3, Unpack, CompletesKeeps

\* An accept fails.
LEMMA CompleteAcceptErrorKeeps ==
    ASSUME IInv, Fits, CompleteAcceptError PROVE IInv'
<1>1. Accept \in Awaited /\ Accept \notin Conns /\ -1 \notin Conns
  BY Names, UringAssumption DEF Awaited
<1>2. [op |-> Accept, res |-> -1] \in Cqe
  <2>1. PICK z \in Int : z = -1
    OBVIOUS
  <2>2. [op |-> Accept, res |-> z] \in Cqe
    BY <1>1, <2>1 DEF Cqe
  <2>3. QED
    BY <2>1, <2>2
<1>3. /\ completes(Base, Accept, -1) /\ conn' = conn /\ backlog' = backlog
  BY DEF CompleteAcceptError
<1>4. -1 \notin backlog
  BY <1>1, Unpack
<1>5. QED
  BY <1>1, <1>2, <1>3, <1>4, Unpack, CompletesKeeps

\* The same connection with other data.
Like(k, k1) == /\ k1 \in ConnRecord /\ k1.state = k.state
               /\ k1.handler = k.handler /\ k1.polite = k.polite
               /\ k1.does = k.does

\* A record that changes in nothing but its socket changes no life.
LEMMA LikeLives ==
    ASSUME IInv, NEW c \in Conns, conn[c].handler # "none",
           NEW k, Like(conn[c], k), conn' = [conn EXCEPT ![c] = k],
           UNCHANGED <<connections_, alive, failed, loop, loops_, queues>>
    PROVE  /\ conn' \in [Conns -> ConnRecord] /\ Alive' /\ Lives'
           /\ \A d \in Conns :
                 /\ (conn'[d].handler = "suspended")
                        <=> (conn[d].handler = "suspended")
                 /\ Fresh(d)' <=> Fresh(d)
<1>1. /\ connections_' = connections_ /\ alive' = alive /\ loop' = loop
      /\ queue' = queue /\ todo' = todo /\ Loops' = Loops
  BY SameLoops DEF queues
<1>2. /\ conn' \in [Conns -> ConnRecord] /\ conn'[c] = k
      /\ \A d \in Conns : d # c => conn'[d] = conn[d]
  BY Unpack DEF Like
<1>3. ASSUME NEW d \in Conns
      PROVE  /\ (conn'[d].handler = "suspended")
                        <=> (conn[d].handler = "suspended")
             /\ Fresh(d)' <=> Fresh(d)
             /\ SoundConn(conn'[d], d \in connections_)
  <2>1. SoundConn(conn[d], d \in connections_)
    BY DEF IInv, Lives, Sound
  <2>2. CASE d # c
    BY <1>1, <1>2, <2>1, <2>2 DEF Fresh
  <2>3. CASE d = c
    <3>1. NewConn.handler = "none"
      BY DEF NewConn
    <3>2. ~Fresh(d) /\ ~Fresh(d)'
      BY <1>2, <2>3, <3>1 DEF Fresh, Like
    <3>3. QED
      BY <1>2, <2>1, <2>3, <3>2 DEF SoundConn, Like
  <2>4. QED
    BY <2>2, <2>3
<1>4. Alive'
  BY <1>1, <1>3 DEF IInv, Alive, Kept, Queued
<1>5. ASSUME NEW m \in Loops
      PROVE  SoundLoop(m, conn', connections_, loop, queue[m], todo[m])
  <2>1. SoundLoop(m, conn, connections_, loop, queue[m], todo[m])
    BY DEF IInv, Lives, Sound
  <2>2. queue[m] \in Seq(Functor) /\ todo[m] \in Seq(Functor)
    BY Unpack
  <2>3. /\ k \in ConnRecord /\ k.handler # "none"
        /\ conn[c].handler = "done" => k.handler = "done"
        /\ ~conn[c].polite => ~k.polite
        /\ conn[c].state = "KDisconnected" <=> k.state = "KDisconnected"
    BY DEF Like
  <2>4. SoundLoop(m, [conn EXCEPT ![c] = k], connections_, loop, queue[m], todo[m])
    BY <2>1, <2>2, <2>3, Unpack, Rerecord
  <2>5. QED
    BY <2>4
<1>6. Lives'
  <2>1. Sound(Loops, conn', connections_, loop, queue, todo)
    BY <1>3, <1>5 DEF Sound
  <2>2. QED
    BY <1>1, <2>1 DEF Lives
<1>7. QED
  BY <1>2, <1>3, <1>4, <1>6

\* What the kernel does to a socket is of that kind.
LEMMA SocketLike ==
    ASSUME NEW k \in ConnRecord, k.does # "none", NEW res \in Int
    PROVE  Like(k, socketAfter(k, res)) /\ Like(k, remaining(k, res))
<1>1. k.does \in {"read", "write"} /\ k.left \in Int
  BY DEF ConnRecord
<1>2. Like(k, remaining(k, res))
  <2> DEFINE n == IF res > 0 THEN k.left - res ELSE k.left
  <2>1. n \in Int
    BY <1>1
  <2>2. remaining(k, res) = [k EXCEPT !.left = n]
    BY DEF remaining
  <2> HIDE DEF n
  <2>3. QED
    BY <2>1, <2>2 DEF Like, ConnRecord
<1>3. CASE res < 0
  <2>1. socketAfter(k, res) = [k EXCEPT !.fin = @ \/ k.rst, !.shutWr = @ \/ k.rst,
                                        !.rst = FALSE, !.inbox = 0]
    <3>1. ~(res >= 0)
      BY <1>3
    <3>2. QED
      BY <1>3, <3>1 DEF socketAfter
  <2>2. PICK z \in Int : z = 0
    OBVIOUS
  <2>3. PICK f \in BOOLEAN : f = (k.fin \/ k.rst)
    OBVIOUS
  <2>4. PICK w \in BOOLEAN : w = (k.shutWr \/ k.rst)
    OBVIOUS
  <2>5. socketAfter(k, res) = [k EXCEPT !.fin = f, !.shutWr = w, !.rst = FALSE,
                                        !.inbox = z]
    BY <2>1, <2>2, <2>3, <2>4
  <2>6. QED
    BY <1>2, <2>5 DEF Like, ConnRecord
<1>4. CASE res >= 0 /\ k.does = "read"
  <2>1. socketAfter(k, res) = [k EXCEPT !.inbox = k.inbox - res]
    BY <1>4 DEF socketAfter
  <2>2. k.inbox - res \in Int
    BY DEF ConnRecord
  <2>3. QED
    BY <1>2, <2>1, <2>2 DEF Like, ConnRecord
<1>5. CASE res >= 0 /\ k.does = "write"
  <2>1. socketAfter(k, res) = [k EXCEPT !.full = (res < k.left)]
    BY <1>5 DEF socketAfter
  <2>2. (res < k.left) \in BOOLEAN
    OBVIOUS
  <2>3. QED
    BY <1>2, <2>1, <2>2 DEF Like, ConnRecord
<1>6. QED
  BY <1>1, <1>3, <1>4, <1>5, <1>2

\* The handler that waits is in a read() or a send().
LEMMA WaiterDoes ==
    ASSUME IInv, NEW c \in Conns, Waits(loop[c], c)
    PROVE  conn[c].handler = "suspended" /\ conn[c].does # "none"
<1>1. c # Wakeup /\ c # Accept
  BY Names
<1>2. conn[c].handler = "suspended"
  BY <1>1 DEF Waits
<1>3. QED
  BY <1>2 DEF IInv, Lives, Sound, SoundConn

\* The kernel completes an operation of a connection that waits.
LEMMA CompleteConnKeeps ==
    ASSUME IInv, Fits, NEW c \in Conns, NEW res \in -1 .. MaxLen, CompleteConn(c, res)
    PROVE  IInv'
<1> DEFINE l == loop[c]
<1>0. PICK r : r = complete(ring[l], c, res)
  OBVIOUS
<1>1. /\ completes(l, c, res) /\ backlog' = backlog
      /\ conn' = [conn EXCEPT ![c] = socketAfter(conn[c], res)]
  BY DEF CompleteConn
<1>2. l \in Loops /\ c \in Awaited /\ c # Accept /\ res \in Int
  BY Unpack, Names, UringAssumption DEF Awaited
<1>3. [op |-> c, res |-> res] \in Cqe
  BY <1>2 DEF Cqe
<1>4. /\ ring' = [ring EXCEPT ![l] = r] /\ r \in Ring
      /\ r.active = ring[l].active
      /\ \A x \in Awaited : Same(ring[l], r, x)
      /\ Waits(l, c)
      /\ \A d \in Conns : Accepted(d)' => Accepted(d)
  BY <1>0, <1>1, <1>2, <1>3, CompletesRing
<1>5. UNCHANGED <<connections_, alive, failed, loop, loops_, queues>>
      /\ lp' = lp /\ wakeupFd' = wakeupFd
  BY <1>1 DEF completes
<1>6. conn[c].handler # "none" /\ Like(conn[c], socketAfter(conn[c], res))
  <2>1. conn[c] \in ConnRecord /\ conn[c].handler = "suspended" /\ conn[c].does # "none"
    BY <1>4, WaiterDoes, Unpack
  <2>2. QED
    BY <1>2, <2>1, SocketLike
<1>7. /\ conn' \in [Conns -> ConnRecord] /\ Alive' /\ Lives'
      /\ \A d \in Conns :
            /\ (conn'[d].handler = "suspended") <=> (conn[d].handler = "suspended")
            /\ Fresh(d)' <=> Fresh(d)
  BY <1>1, <1>5, <1>6, LikeLives
<1>8. /\ lp[l] # "handle" => r.active = <<>>
      /\ lp[l] # "functors" => todo[l] = <<>>
      /\ lp[l] # "handle" /\ queue[l] # <<>> => wakeupFd[l]
  BY <1>2, <1>4 DEF IInv, Passes, Woken
<1>9. \A d \in Conns : Accepted(d)' => d \notin backlog' /\ (Accepted(d) \/ d \in backlog)
  BY <1>1, <1>4 DEF IInv, Arrivals
<1> HIDE DEF l
<1>10. QED
  BY <1>1, <1>2, <1>4, <1>5, <1>7, <1>8, <1>9, Unpack, RecordAction

\* read() or send() waits for the rest.
LEMMA HandleRepeatKeeps ==
    ASSUME IInv, NEW c \in Conns, NEW again, HandleRepeat(c, again)
    PROVE  IInv'
<1> DEFINE l == loop[c]
           h == handled(ring[l])
           res == cqeRes(l)
<1>0. PICK r \in await_suspend(h, c) : ring' = [ring EXCEPT ![l] = r]
  BY DEF HandleRepeat, rings
<1>1. /\ Next_(l, c)
      /\ conn' = [conn EXCEPT ![c] = remaining(conn[c], res)]
      /\ ring' = [ring EXCEPT ![l] = r]
      /\ UNCHANGED <<connections_, alive, failed, loop, loops_, queues>>
      /\ wakeupFd' = wakeupFd /\ lp' = lp /\ backlog' = backlog
  BY <1>0 DEF HandleRepeat, server
<1>2. l \in Loops
  BY Unpack
<1>3. /\ ring[l] \in Ring /\ ring[l].active # <<>> /\ c \in Awaited
      /\ Head(ring[l].active) \in Cqe
      /\ Head(ring[l].active).op = c /\ Once(ring[l], c) /\ Waits(l, c)
  BY <1>1, <1>2, HeadWaits
<1>4. Takes(ring[l], h, c) /\ Never(h, c)
  BY <1>3, HandledTakes
<1> HIDE DEF h
<1>5. h \in Ring
  BY <1>4 DEF Takes
<1>6. Joins(h, r, c)
  BY <1>3, <1>4, <1>5, Suspended
<1>7. Takes(ring[l], r, c) /\ \A x \in Awaited : Same(ring[l], r, x)
  BY <1>3, <1>4, <1>6, Rewaits
<1>8. res \in Int
  BY <1>3 DEF Cqe, cqeRes
<1> HIDE DEF res
<1>9. conn[c].handler # "none" /\ Like(conn[c], remaining(conn[c], res))
  <2>1. conn[c] \in ConnRecord /\ conn[c].handler = "suspended" /\ conn[c].does # "none"
    BY <1>3, WaiterDoes, Unpack
  <2>2. QED
    BY <1>8, <2>1, SocketLike
<1>10. /\ conn' \in [Conns -> ConnRecord] /\ Alive' /\ Lives'
       /\ \A d \in Conns :
            /\ (conn'[d].handler = "suspended") <=> (conn[d].handler = "suspended")
            /\ Fresh(d)' <=> Fresh(d)
  BY <1>1, <1>9, LikeLives
<1>11. lp[l] = "handle" /\ todo[l] = <<>>
  BY <1>1, <1>2 DEF Next_, IInv, Passes
<1> HIDE DEF l
<1>12. \A d \in Conns : Accepted(d)' => d \notin backlog' /\ (Accepted(d) \/ d \in backlog)
  <2>1. Quiet(ring[l], r)
    BY <1>7 DEF Takes
  <2>2. \A d \in Conns : Accepted(d)' => Accepted(d)
    BY <1>1, <1>2, <2>1, Unpack, QuietStep
  <2>3. QED
    BY <1>1, <2>2 DEF IInv, Arrivals
<1>13. r \in Ring
  BY <1>7 DEF Takes
<1>14. QED
  BY <1>1, <1>2, <1>7, <1>10, <1>11, <1>12, <1>13, Unpack, RecordAction

\* A peer changes a socket.
LEMMA PeerKeeps ==
    ASSUME IInv, NEW c \in Conns, NEW k, Like(conn[c], k), Peer(c, k)
    PROVE  IInv'
<1>1. /\ conn[c].handler # "none" /\ conn' = [conn EXCEPT ![c] = k]
      /\ UNCHANGED <<connections_, alive, failed, loop, loops_, queues>>
      /\ wakeupFd' = wakeupFd /\ lp' = lp /\ backlog' = backlog /\ ring' = ring
     
  BY DEF Peer, server
<1>2. /\ conn' \in [Conns -> ConnRecord] /\ Alive' /\ Lives'
      /\ \A d \in Conns :
            /\ (conn'[d].handler = "suspended") <=> (conn[d].handler = "suspended")
            /\ Fresh(d)' <=> Fresh(d)
  BY <1>1, LikeLives
<1>3. /\ Base \in Loops /\ ring[Base] \in Ring
      /\ ring' = [ring EXCEPT ![Base] = ring[Base]]
      /\ \A x \in Awaited : Same(ring[Base], ring[Base], x)
  BY <1>1, Unpack DEF Same
<1>4. /\ lp[Base] # "handle" => ring[Base].active = <<>>
      /\ lp[Base] # "functors" => todo[Base] = <<>>
      /\ lp[Base] # "handle" /\ queue[Base] # <<>> => wakeupFd[Base]
  BY <1>3 DEF IInv, Passes, Woken
<1>5. \A d \in Conns : Accepted(d)' => d \notin backlog' /\ (Accepted(d) \/ d \in backlog)
  BY <1>1 DEF IInv, Arrivals, Accepted
<1>6. QED
  BY <1>1, <1>2, <1>3, <1>4, <1>5, Unpack, RecordAction

\* The peer sends, closes, resets or reads.
LEMMA PeersKeep ==
    ASSUME IInv, NEW c \in Conns,
           PeerSends(c) \/ PeerCloses(c) \/ PeerResets(c) \/ PeerReads(c)
    PROVE  IInv'
<1>1. conn[c] \in ConnRecord
  BY Unpack
<1>2. CASE PeerSends(c)
  <2>1. PICK z \in Int : z = 1
    OBVIOUS
  <2>2. Like(conn[c], [conn[c] EXCEPT !.inbox = z])
    BY <1>1 DEF Like, ConnRecord
  <2>3. QED
    BY <1>2, <2>1, <2>2, PeerKeeps DEF PeerSends
<1>3. CASE PeerCloses(c)
  <2>1. Like(conn[c], [conn[c] EXCEPT !.fin = TRUE])
    BY <1>1 DEF Like, ConnRecord
  <2>2. QED
    BY <1>3, <2>1, PeerKeeps DEF PeerCloses
<1>4. CASE PeerResets(c)
  <2>1. Like(conn[c], [conn[c] EXCEPT !.rst = TRUE])
    BY <1>1 DEF Like, ConnRecord
  <2>2. QED
    BY <1>4, <2>1, PeerKeeps DEF PeerResets
<1>5. CASE PeerReads(c)
  <2>1. Like(conn[c], [conn[c] EXCEPT !.full = FALSE])
    BY <1>1 DEF Like, ConnRecord
  <2>2. QED
    BY <1>5, <2>1, PeerKeeps DEF PeerReads
<1>6. QED
  BY <1>2, <1>3, <1>4, <1>5

\* A client comes: its connection is not made yet.
LEMMA ConnectKeeps ==
    ASSUME IInv, NEW c \in Conns, Connect(c) PROVE IInv'
<1>1. /\ c \notin alive /\ conn[c] = NewConn /\ backlog' = backlog \cup {c}
      /\ conn' = conn /\ connections_' = connections_ /\ alive' = alive
      /\ failed' = failed /\ loop' = loop /\ loops_' = loops_ /\ ring' = ring
      /\ wakeupFd' = wakeupFd /\ lp' = lp /\ queue' = queue /\ todo' = todo
     
  BY DEF Connect, conns, queues
<1>2. ~Accepted(c)
  BY Unpack DEF Connect, Accepted, AcceptedIn
<1>3. Loops' = Loops
  BY <1>1, SameLoops
<1>4. Types'
  BY <1>1, <1>3 DEF IInv, Types
<1>5. RingsKnow' /\ Passes' /\ Woken'
  BY <1>1, <1>3 DEF IInv, RingsKnow, Waits, Passes, Woken
<1>6. Alive' /\ Lives'
  BY <1>1, <1>3 DEF IInv, Alive, Kept, Queued, Lives
<1>7. Arrivals'
  BY <1>1, <1>2 DEF IInv, Arrivals, Fresh, Accepted
<1>8. QED
  BY <1>4, <1>5, <1>6, <1>7 DEF IInv

-----------------------------------------------------------------------------
(* The functors.                                                           *)

\* The loop takes its functors: where there were none left to run, the ones
\* of the queue are as sound as they were there.
LEMMA Taken ==
    ASSUME NEW l, NEW co, NEW map, NEW lo, NEW q,
           SoundLoop(l, co, map, lo, q, <<>>)
    PROVE  SoundLoop(l, co, map, lo, <<>>, q)
  BY DEF SoundLoop, NoneOf

\* A functor of list s has a shared_ptr to d.
HoldsIn(s, d) == \E i \in DOMAIN s : s[i].c = d /\ s[i].kind \in Strong

\* doPendingFunctors() swaps the queue with its own empty list: guards that
\* were in the queue are now in the list, behind what they guard.
LEMMA BeginFunctorsKeeps ==
    ASSUME IInv, NEW l \in Loops, BeginFunctors(l) PROVE IInv'
<1>1. /\ lp[l] = "handle" /\ ring[l].active = <<>>
      /\ ring' = ring
      /\ lp' = [lp EXCEPT ![l] = "functors"]
      /\ todo' = [todo EXCEPT ![l] = queue[l]]
      /\ queue' = [queue EXCEPT ![l] = <<>>]
      /\ conn' = conn /\ connections_' = connections_ /\ alive' = alive
      /\ failed' = failed /\ loop' = loop /\ loops_' = loops_
      /\ wakeupFd' = wakeupFd /\ backlog' = backlog
  BY DEF BeginFunctors, conns, server
<1>2. Loops' = Loops
  BY <1>1, SameLoops
<1>3. todo[l] = <<>>
  BY <1>1 DEF IInv, Passes
<1>4. /\ ring[l] \in Ring /\ ring' = [ring EXCEPT ![l] = ring[l]]
      /\ \A x \in Awaited : Same(ring[l], ring[l], x)
  BY <1>1, Unpack DEF Same
<1>5. ring' \in [Loops -> Ring] /\ RingsKnow'
  BY <1>1, <1>4, RingOnly DEF IInv
<1>6. /\ queue' \in [Loops -> Seq(Functor)] /\ todo' \in [Loops -> Seq(Functor)]
      /\ queue'[l] = <<>> /\ todo'[l] = queue[l]
      /\ \A m \in Loops : m # l => queue'[m] = queue[m] /\ todo'[m] = todo[m]
  BY <1>1, Unpack, EmptySeq
<1>7. /\ lp' \in [Loops -> {"functors", "wait", "handle"}] /\ lp'[l] = "functors"
      /\ \A m \in Loops : m # l => lp'[m] = lp[m]
  BY <1>1, Unpack
<1>8. Types'
  <2>1. /\ loops_' \in Seq({loops_'[i] : i \in DOMAIN loops_'})
    BY <1>1 DEF IInv, Types
  <2>2. /\ loop' \in [Conns -> Loops']
        /\ conn' \in [Conns -> ConnRecord]
        /\ connections_' \subseteq Conns /\ alive' \subseteq Conns
        /\ backlog' \subseteq Conns /\ failed' = {}
        /\ wakeupFd' \in [Loops' -> BOOLEAN]
    BY <1>1, <1>2 DEF IInv, Types
  <2>3. QED
    BY <1>2, <1>5, <1>6, <1>7, <2>1, <2>2 DEF Types
<1>9. Passes'
  <2>1. ASSUME NEW m \in Loops
        PROVE  /\ lp'[m] # "handle" => ring'[m].active = <<>>
               /\ lp'[m] # "functors" => todo'[m] = <<>>
    BY <1>1, <1>4, <1>5, <1>6, <1>7 DEF IInv, Passes
  <2>2. QED
    BY <1>2, <2>1 DEF Passes
<1>10. Woken'
  <2>1. ASSUME NEW m \in Loops, lp'[m] # "handle", queue'[m] # <<>>
        PROVE  wakeupFd'[m]
    BY <1>1, <1>6, <1>7, <2>1 DEF IInv, Woken
  <2>2. QED
    BY <1>2, <2>1 DEF Woken
<1>11. Alive'
  <2>1. \A d : Queued(queue, d, Strong) \/ Queued(todo, d, Strong)
                   <=> Queued(queue', d, Strong) \/ Queued(todo', d, Strong)
    <3>1. /\ DOMAIN queue = Loops /\ DOMAIN queue' = Loops
          /\ DOMAIN todo = Loops /\ DOMAIN todo' = Loops
      BY <1>6, Unpack
    <3>2. \A q, d : DOMAIN q = Loops =>
              (Queued(q, d, Strong) <=> \E m \in Loops : HoldsIn(q[m], d))
      BY DEF Queued, HoldsIn
    <3>3. \A d : ~HoldsIn(<<>>, d)
      BY DEF HoldsIn
    <3>4. QED
      BY <1>3, <1>6, <3>1, <3>2, <3>3
  <2>2. QED
    BY <1>1, <2>1 DEF IInv, Alive, Kept
<1>12. Lives'
  <2>1. ASSUME NEW m \in Loops
        PROVE  SoundLoop(m, conn, connections_, loop, queue'[m], todo'[m])
    <3>1. SoundLoop(m, conn, connections_, loop, queue[m], todo[m])
      BY DEF IInv, Lives, Sound
    <3>2. QED
      BY <1>3, <1>6, <3>1, Taken
  <2>2. Sound(Loops, conn, connections_, loop, queue', todo')
    BY <2>1 DEF IInv, Lives, Sound
  <2>3. QED
    BY <1>1, <1>2, <2>2 DEF Lives
<1>13. Arrivals'
  <2>1. \A c \in Conns : Accepted(c)' => Accepted(c)
    BY <1>1 DEF Accepted
  <2>2. QED
    BY <1>1, <2>1 DEF IInv, Arrivals, Fresh
<1>14. QED
  BY <1>5, <1>8, <1>9, <1>10, <1>11, <1>12, <1>13 DEF IInv

-----------------------------------------------------------------------------
(* The steps of a connection.                                              *)

\* The end of a step of c: what is left of the invariant is about the loops.
LEMMA GoesKeeps ==
    ASSUME IInv, NEW c \in Conns, NEW l \in Loops, NEW t,
           t \in [Loops -> Seq(Functor)], Goes(c, l, t),
           UNCHANGED <<server, lp>>,
           ring' \in [Loops -> Ring], RingsKnow',
           \A m \in Loops : /\ lp[m] # "handle" => ring'[m].active = <<>>
                            /\ lp[m] # "functors" => t[m] = <<>>,
           \A d \in Conns : Accepted(d)' => Accepted(d) /\ d # c,
           c \notin backlog, conn'[c].handler # "none"
    PROVE  IInv'
<1>1. /\ loop' = loop /\ loops_' = loops_ /\ backlog' = backlog /\ lp' = lp
  BY DEF server
<1>2. Loops' = Loops
  BY <1>1, SameLoops
<1>3. /\ conn' \in [Conns -> ConnRecord] /\ alive' \in SUBSET Conns
      /\ connections_' \in SUBSET Conns
      /\ queue' \in [Loops -> Seq(Functor)] /\ todo' = t /\ failed' = {}
      /\ Sound(Loops, conn', connections_', loop, queue', t)
      /\ \A d \in Conns : d \in alive' <=> Kept(conn', connections_', queue', t, d)
      /\ \A d \in Conns : d # c => (Fresh(d)' <=> Fresh(d))
      /\ Wakes(l)
  BY DEF Goes
<1>4. Types'
  <2>1. /\ loops_' \in Seq({loops_'[i] : i \in DOMAIN loops_'})
        /\ loop' \in [Conns -> Loops']
        /\ lp' \in [Loops' -> {"functors", "wait", "handle"}]
        /\ backlog' \subseteq Conns
    BY <1>1, <1>2 DEF IInv, Types
  <2>2. wakeupFd' \in [Loops' -> BOOLEAN]
    BY <1>2, <1>3 DEF Wakes
  <2>3. QED
    BY <1>2, <1>3, <2>1, <2>2 DEF Types
<1>5. Passes'
  BY <1>1, <1>2, <1>3 DEF Passes
<1>6. Woken'
  <2>1. ASSUME NEW m \in Loops, lp[m] # "handle", queue'[m] # <<>>
        PROVE  wakeupFd'[m]
    BY <1>3, <2>1 DEF Wakes, IInv, Woken
  <2>2. QED
    BY <1>1, <1>2, <2>1 DEF Woken
<1>7. Alive'
  BY <1>3 DEF Alive
<1>8. Lives'
  BY <1>1, <1>2, <1>3 DEF Lives
<1>9. Arrivals'
  <2>1. NewConn.handler = "none"
    BY DEF NewConn
  <2>2. ~Fresh(c)'
    BY <2>1 DEF Fresh
  <2>3. QED
    BY <1>1, <1>3, <2>2 DEF IInv, Arrivals
<1>10. QED
  BY <1>4, <1>5, <1>6, <1>7, <1>8, <1>9 DEF IInv

\* The connection has been seen: nobody waits to make it.
LEMMA StartedIsNotFresh ==
    ASSUME IInv, NEW c \in Conns, conn[c].handler # "none" \/ c \in alive
    PROVE  c \notin backlog /\ ~Accepted(c)
  BY DEF IInv, Arrivals, Fresh, NewConn

\* The ring of l when c has come to wait or has ended in this step.
LEMMA RingOfStep ==
    ASSUME IInv, NEW c \in Conns, NEW l \in Loops, l = loop[c],
           UNCHANGED <<loop, loops_>>, NEW r0, NEW r,
           ring' = [ring EXCEPT ![l] = r], r0 \in Ring, Level(r0, r),
           IF conn'[c].handler = "suspended" THEN Once(r, c) ELSE Never(r, c),
           \A x \in Awaited : x # c => Same(ring[l], r0, x) /\ Same(r0, r, x),
           \A d \in Conns : d # c =>
               ((conn'[d].handler = "suspended") <=> (conn[d].handler = "suspended")),
           Quiet(ring[l], r0)
    PROVE  /\ ring' \in [Loops -> Ring] /\ RingsKnow'
           /\ ring'[l].active = r0.active
           /\ \A m \in Loops : m # l => ring'[m] = ring[m]
           /\ \A d \in Conns : Accepted(d)' => Accepted(d)
<1>1. /\ \A m : \A x \in Awaited : x # c \/ m # l => (Waits(m, x)' <=> Waits(m, x))
      /\ Waits(l, c)' <=> conn'[c].handler = "suspended"
  BY OthersWait
<1>2. r \in Ring /\ r.active = r0.active /\ r.cq = r0.cq
  BY DEF Level
<1>3. ASSUME NEW x \in Awaited PROVE Has(r, x, Waits(l, x)')
  <2>1. CASE x = c
    BY <1>1, <2>1 DEF Has
  <2>2. CASE x # c
    <3>1. Has(ring[l], x, Waits(l, x))
      BY DEF IInv, RingsKnow
    <3>2. QED
      BY <1>1, <2>2, <3>1 DEF Has, Same
  <2>3. QED
    BY <2>1, <2>2
<1>4. \A m \in Loops, x \in Awaited : m # l => (Waits(m, x)' <=> Waits(m, x))
  BY <1>1
<1>5. /\ ring' \in [Loops -> Ring] /\ RingsKnow' /\ ring'[l] = r
      /\ \A m \in Loops : m # l => ring'[m] = ring[m]
  BY <1>2, <1>3, <1>4, SameLoops, RingStep DEF IInv
<1>6. \A d \in Conns : Accepted(d)' => Accepted(d)
  <2>1. Quiet(ring[l], r)
    BY <1>2 DEF Quiet
  <2>2. QED
    BY <2>1, Unpack, QuietStep
<1>7. QED
  BY <1>2, <1>5, <1>6

\* read() or send() returns to the handler, which goes on: the connection
\* that is closed under it stays, for its guard is queued.
LEMMA HandleResultKeeps ==
    ASSUME IInv, NEW c \in Conns, NEW again, NEW op \in Calls,
           NEW then \in Thens, HandleResult(c, again, op, then)
    PROVE  IInv'
<1> DEFINE l == loop[c]
           res == cqeRes(l)
           k == handle(finished(conn[c], res), op, then)
           h == handled(ring[l])
<1>0. PICK r \in waiting(h, c, k) : ring' = [ring EXCEPT ![l] = r]
  BY DEF HandleResult, rings
<1>1. /\ Next_(l, c) /\ admits(op, finished(conn[c], res))
      /\ ring' = [ring EXCEPT ![l] = r]
      /\ apply(c, l, k, connections_, todo)
      /\ UNCHANGED <<server, lp>> /\ UNCHANGED <<loop, loops_>>
  BY <1>0 DEF HandleResult, server
<1>2. l \in Loops
  BY Unpack
<1>3. /\ ring[l] \in Ring /\ ring[l].active # <<>> /\ c \in Awaited
      /\ Head(ring[l].active).op = c /\ Once(ring[l], c) /\ Waits(l, c)
  BY <1>1, <1>2, HeadWaits
<1>4. Takes(ring[l], h, c) /\ Never(h, c)
  BY <1>3, HandledTakes
<1>5. /\ conn[c] \in ConnRecord /\ conn[c].handler = "suspended"
      /\ SoundConn(conn[c], TRUE)
  <2>1. SoundConn(conn[c], c \in connections_)
    BY DEF IInv, Lives, Sound
  <2>2. QED
    BY <1>3, <2>1, WaiterDoes, Unpack DEF SoundConn
<1>6. Moves(conn[c], k)
  BY <1>1, <1>5, ResultMoves
<1> HIDE DEF h, k, res
<1>7. h \in Ring /\ h.active = Tail(ring[l].active)
  BY <1>4 DEF Takes
<1>8. /\ Level(h, r) /\ Has(r, c, k.handler = "suspended")
      /\ \A x : x # c => Same(h, r, x)
  BY <1>3, <1>4, <1>7, WaitingJoins
<1>9. lp[l] = "handle" /\ todo[l] = <<>>
  BY <1>1, <1>2 DEF Next_, IInv, Passes
<1>10. /\ Goes(c, l, todo) /\ conn'[c].handler # "none"
       /\ (conn'[c].handler = "suspended") <=> (k.handler = "suspended")
  <2>1. /\ Types /\ Alive /\ lp[l] # "wait"
        /\ Sound(Loops, conn, connections_, loop, queue, todo)
        /\ conn[c].handler # "none"
    BY <1>5, <1>9 DEF IInv, Lives
  <2>2. connections_ \in SUBSET Conns /\ todo \in [Loops -> Seq(Functor)]
    BY Unpack
  <2> HIDE DEF l
  <2>3. l = loop[c]
    BY DEF l
  <2>4. QED
    BY <1>1, <1>2, <1>5, <1>6, <2>1, <2>2, <2>3, Applies
<1>11. /\ ring' \in [Loops -> Ring] /\ RingsKnow'
       /\ \A m \in Loops : m # l => ring'[m] = ring[m]
       /\ \A d \in Conns : Accepted(d)' => Accepted(d)
  <2>1. \A d \in Conns : d # c =>
            ((conn'[d].handler = "suspended") <=> (conn[d].handler = "suspended"))
    BY <1>10 DEF Goes
  <2>2. /\ Quiet(ring[l], h)
        /\ \A x \in Awaited : x # c => Same(ring[l], h, x) /\ Same(h, r, x)
    BY <1>4, <1>8 DEF Takes
  <2> HIDE DEF l
  <2>3. l = loop[c]
    BY DEF l
  <2>4. IF conn'[c].handler = "suspended" THEN Once(r, c) ELSE Never(r, c)
    BY <1>8, <1>10 DEF Has
  <2>5. QED
    BY <1>1, <1>2, <1>7, <1>8, <2>1, <2>2, <2>3, <2>4, RingOfStep
<1>12. c \notin backlog /\ ~Accepted(c)
  BY <1>5, StartedIsNotFresh
<1>13. \A m \in Loops : /\ lp[m] # "handle" => ring'[m].active = <<>>
                        /\ lp[m] # "functors" => todo[m] = <<>>
  BY <1>9, <1>11 DEF IInv, Passes
<1>14. todo \in [Loops -> Seq(Functor)]
  BY Unpack
<1> HIDE DEF l
<1>15. QED
  BY <1>1, <1>2, <1>10, <1>11, <1>12, <1>13, <1>14, GoesKeeps

\* The end of a step of c that leaves the rings alone.
LEMMA StillGoes ==
    ASSUME IInv, NEW c \in Conns, NEW l \in Loops, NEW t,
           t \in [Loops -> Seq(Functor)], Goes(c, l, t),
           UNCHANGED <<server, ring, lp>>,
           \A m \in Loops : lp[m] # "functors" => t[m] = <<>>,
           conn[c].handler # "none", conn'[c].handler # "none",
           (conn'[c].handler = "suspended") <=> (conn[c].handler = "suspended")
    PROVE  IInv'
<1>1. \A d \in Conns :
          (conn'[d].handler = "suspended") <=> (conn[d].handler = "suspended")
  BY DEF Goes
<1>2. /\ ring' = ring /\ UNCHANGED <<server, lp>>
      /\ UNCHANGED <<loop, loops_>>
  BY DEF server
<1>3. /\ Base \in Loops /\ ring[Base] \in Ring
      /\ ring' = [ring EXCEPT ![Base] = ring[Base]]
      /\ \A x \in Awaited : Same(ring[Base], ring[Base], x)
  BY <1>2, Unpack DEF Same
<1>4. RingsKnow'
  BY <1>1, <1>2, <1>3, RingOnly DEF IInv
<1>5. /\ ring' \in [Loops -> Ring]
  BY <1>2, Unpack
<1>6. \A m \in Loops : lp[m] # "handle" => ring'[m].active = <<>>
  BY <1>2 DEF IInv, Passes
<1>7. c \notin backlog /\ ~Accepted(c)
  BY StartedIsNotFresh
<1>8. \A d \in Conns : Accepted(d)' => Accepted(d) /\ d # c
  BY <1>2, <1>7 DEF Accepted
<1>9. QED
  BY <1>2, <1>4, <1>5, <1>6, <1>7, <1>8, GoesKeeps

\* The application calls a method of a connection it has.
LEMMA LoopCallKeeps ==
    ASSUME IInv, NEW c \in Conns, NEW op \in Ops, LoopCall(c, op) PROVE IInv'
<1>0. PICK l \in Loops : l = loop[c]
  BY Unpack
<1> DEFINE k == call(op, conn[c])
<1>1. /\ conn[c].handler # "none" /\ lp[l] = "functors" /\ admits(op, conn[c])
      /\ apply(c, l, k, connections_, todo)
      /\ UNCHANGED <<server, ring, lp>>
  BY <1>0 DEF LoopCall
<1>2. SoundConn(conn[c], TRUE) /\ conn[c] \in ConnRecord
  <2>1. SoundConn(conn[c], c \in connections_)
    BY DEF IInv, Lives, Sound
  <2>2. QED
    BY <2>1, Unpack DEF SoundConn
<1>3. Moves(conn[c], k) /\ k.handler = conn[c].handler
  BY <1>1, <1>2, CallMoves
<1> HIDE DEF k
<1>4. /\ Types /\ Alive /\ lp[l] # "wait"
      /\ Sound(Loops, conn, connections_, loop, queue, todo)
      /\ connections_ \in SUBSET Conns /\ todo \in [Loops -> Seq(Functor)]
  BY <1>1, Unpack DEF IInv, Lives
<1>5. /\ Goes(c, l, todo) /\ conn'[c].handler # "none"
      /\ (conn'[c].handler = "suspended") <=> (k.handler = "suspended")
  BY <1>0, <1>1, <1>2, <1>3, <1>4, Applies
<1>6. \A m \in Loops : lp[m] # "functors" => todo[m] = <<>>
  BY DEF IInv, Passes
<1>7. QED
  BY <1>1, <1>3, <1>4, <1>5, <1>6, StillGoes

\* The functor at the head of todo[l] is what it should be, and the rest t
\* of the functors too.
LEMMA RestRuns ==
    ASSUME IInv, NEW l \in Loops, NEW kind, NEW c, NextFunctor(l, kind, c),
           NEW t, t = rest(l)
    PROVE  /\ kind \in Kinds /\ c \in Conns /\ lp[l] = "functors"
           /\ t \in [Loops -> Seq(Functor)] /\ t[l] = Tail(todo[l])
           /\ \A m \in Loops : m # l => t[m] = todo[m]
           /\ Sound(Loops, conn, connections_, loop, queue, t)
           /\ \A d : Queued(t, d, Strong) => Queued(todo, d, Strong)
           /\ \A m \in Loops : lp[m] # "functors" => t[m] = <<>>
           /\ SoundFunctor([kind |-> kind, c |-> c], l, conn[c],
                           c \in connections_, loop[c])
           /\ kind \in Strong => c \in alive
           /\ kind \in Ops => c \in alive
           /\ kind = "start" => NoneOf(t[l], c) /\ NoneOf(queue[l], c)
<1> DEFINE s == todo[l]
           n == Len(s)
           u == Tail(s)
<1>1. /\ lp[l] = "functors" /\ s # <<>> /\ Head(s) = [kind |-> kind, c |-> c]
      /\ s \in Seq(Functor) /\ todo \in [Loops -> Seq(Functor)]
  BY Unpack DEF NextFunctor
<1>2. /\ n \in Nat \ {0} /\ DOMAIN s = 1 .. n /\ 1 \in DOMAIN s
      /\ s[1] = [kind |-> kind, c |-> c]
      /\ u \in Seq(Functor) /\ DOMAIN u = 1 .. n - 1
      /\ \A i \in 1 .. n - 1 : u[i] = s[i + 1] /\ i + 1 \in 1 .. n
  BY <1>1, HeadTailProperties, LenProperties, EmptySeq
<1>3. s[1] \in Functor
  BY <1>1, <1>2, ElementOfSeq
<1>4. kind \in Kinds /\ c \in Conns
  BY <1>2, <1>3 DEF Functor
<1>5. /\ t \in [Loops -> Seq(Functor)] /\ t[l] = u
      /\ \A m \in Loops : m # l => t[m] = todo[m]
  BY <1>1, <1>2 DEF rest
<1>6. SoundLoop(l, conn, connections_, loop, queue[l], s)
  BY DEF IInv, Lives, Sound
<1>7. /\ SoundFunctor(s[1], l, conn[s[1].c], s[1].c \in connections_, loop[s[1].c])
      /\ Dangles(conn, s[1]) => GuardAfter(s, 1) \/ GuardIn(queue[l], s[1].c)
      /\ s[1].kind = "start" => Alone(s, 1) /\ NoneOf(queue[l], s[1].c)
  BY <1>2, <1>6 DEF SoundLoop
<1>8. s[1].c = c /\ s[1].kind = kind
  BY <1>2
<1> HIDE DEF s, n, u
<1>9. Sound(Loops, conn, connections_, loop, queue, t)
  <2>1. ASSUME NEW m \in Loops
        PROVE  SoundLoop(m, conn, connections_, loop, queue[m], t[m])
    <3>1. CASE m = l
      <4>1. queue[l] \in Seq(Functor)
        BY Unpack
      <4>2. QED
        BY <1>1, <1>5, <1>6, <3>1, <4>1, Drop DEF u
    <3>2. CASE m # l
      BY <1>5, <3>2 DEF IInv, Lives, Sound
    <3>3. QED
      BY <3>1, <3>2
  <2>2. QED
    BY <2>1 DEF IInv, Lives, Sound
<1>10. ASSUME NEW d, Queued(t, d, Strong) PROVE Queued(todo, d, Strong)
  <2>1. DOMAIN t = Loops /\ DOMAIN todo = Loops
    BY <1>1, <1>5
  <2>2. PICK m \in Loops : \E i \in DOMAIN t[m] : t[m][i].c = d /\ t[m][i].kind \in Strong
    BY <1>10, <2>1 DEF Queued
  <2>3. \E i \in DOMAIN todo[m] : todo[m][i].c = d /\ todo[m][i].kind \in Strong
    <3>1. CASE m # l
      BY <1>5, <2>2, <3>1
    <3>2. CASE m = l
      BY <1>2, <1>5, <2>2, <3>2 DEF s
    <3>3. QED
      BY <3>1, <3>2
  <2>4. QED
    BY <2>1, <2>3 DEF Queued
<1>11. \A m \in Loops : lp[m] # "functors" => t[m] = <<>>
  BY <1>1, <1>5 DEF IInv, Passes
<1>12. \A d \in Conns : Kept(conn, connections_, queue, todo, d) => d \in alive
  BY DEF IInv, Alive
<1>13. ASSUME NEW f, f.c = c, f.kind \in Strong,
              (\E i \in DOMAIN s : f = s[i]) \/ (\E i \in DOMAIN queue[l] : f = queue[l][i])
       PROVE  c \in alive
  <2>1. Queued(todo, c, Strong) \/ Queued(queue, c, Strong)
    <3>1. DOMAIN queue = Loops /\ DOMAIN todo = Loops
      BY Unpack
    <3>2. QED
      BY <1>13, <3>1 DEF Queued, s
  <2>2. QED
    BY <1>4, <1>12, <2>1 DEF Kept
<1>14. kind \in Strong => c \in alive
  BY <1>2, <1>8, <1>13
<1>15. ASSUME kind \in Ops PROVE c \in alive
  <2>1. CASE conn[c].state # "KDisconnected"
    <3>1. c \in connections_
      BY <1>4, <2>1 DEF IInv, Lives, Sound, SoundConn
    <3>2. QED
      BY <1>4, <1>12, <3>1 DEF Kept
  <2>2. CASE conn[c].state = "KDisconnected"
    <3>1. GuardAfter(s, 1) \/ GuardIn(queue[l], c)
      BY <1>7, <1>8, <1>15, <2>2 DEF Dangles
    <3>2. QED
      BY <1>8, <1>13, <3>1 DEF GuardAfter, GuardIn, IsGuard, Strong
  <2>3. QED
    BY <2>1, <2>2
<1>16. ASSUME kind = "start" PROVE NoneOf(t[l], c) /\ NoneOf(queue[l], c)
  <2>1. Alone(s, 1) /\ NoneOf(queue[l], c)
    BY <1>7, <1>8, <1>16
  <2>2. ASSUME NEW i \in 1 .. n - 1, u[i].c = c PROVE FALSE
    <3>1. i + 1 \in DOMAIN s /\ s[i + 1].c = s[1].c /\ i + 1 # 1
      BY <1>2, <1>8, <2>2
    <3>2. QED
      BY <2>1, <3>1 DEF Alone
  <2>3. QED
    BY <1>2, <1>5, <2>1, <2>2 DEF NoneOf
<1>17. QED
  BY <1>1, <1>2, <1>4, <1>5, <1>7, <1>8, <1>9, <1>10, <1>11, <1>14, <1>15, <1>16 DEF u, s

\* A functor of c that changes no record: its connection may be destroyed.
LEMMA SettleKeeps ==
    ASSUME IInv, NEW c \in Conns, NEW l \in Loops, conn[c].handler # "none",
           NEW map \in SUBSET connections_, NEW t \in [Loops -> Seq(Functor)],
           Sound(Loops, conn, map, loop, queue, t),
           \A d : Queued(t, d, Strong) => Queued(todo, d, Strong),
           \A m \in Loops : lp[m] # "functors" => t[m] = <<>>,
           settle(conn, map, queue, t),
           UNCHANGED <<server, ring, wakeupFd, lp>>
    PROVE  IInv'
<1>1. /\ conn \in [Conns -> ConnRecord] /\ map \in SUBSET Conns
      /\ queue \in [Loops -> Seq(Functor)] /\ failed = {}
      /\ alive \in SUBSET Conns /\ wakeupFd \in [Loops -> BOOLEAN]
  BY Unpack DEF IInv, Types
<1>2. \A d \in Conns : conn[d].handler = "suspended" /\ conn[d].polite
                           => Kept(conn, map, queue, t, d)
  BY DEF Kept
<1>3. /\ conn' \in [Conns -> ConnRecord] /\ alive' \in SUBSET Conns
      /\ connections_' = map /\ queue' = queue /\ todo' = t /\ failed' = {}
      /\ Sound(Loops, conn', map, loop, queue, t)
      /\ \A d \in Conns : d \in alive' <=> Kept(conn', map, queue, t, d)
      /\ \A d \in Conns :
             /\ (conn'[d].handler = "suspended")
                    <=> (conn[d].handler = "suspended")
             /\ \/ conn'[d] = conn[d]
                \/ conn'[d] = destroyed /\ d \in alive
             /\ d \in alive /\ d \notin alive' => conn'[d] = destroyed
  BY <1>1, <1>2, Settles
<1>4. destroyed.handler = "done" /\ destroyed # NewConn /\ NewConn.handler = "none"
  BY DEF destroyed, NewConn
<1>5. ASSUME NEW d \in Conns PROVE Fresh(d)' <=> Fresh(d)
  <2>1. Fresh(d)' => Fresh(d)
    BY <1>3, <1>4 DEF Fresh
  <2>2. ASSUME Fresh(d), d \in alive' PROVE FALSE
    <3>1. ~Kept(conn, connections_, queue, todo, d) /\ conn[d] = NewConn
      BY <2>2 DEF Fresh, IInv, Alive
    <3>2. QED
      BY <1>3, <1>4, <2>2, <3>1 DEF Kept
  <2>3. QED
    BY <1>3, <2>1, <2>2 DEF Fresh
<1>6. Wakes(l)
  BY <1>1, <1>3 DEF Wakes
<1>7. Goes(c, l, t)
  BY <1>1, <1>3, <1>5, <1>6 DEF Goes
<1>8. /\ conn'[c].handler # "none"
      /\ (conn'[c].handler = "suspended") <=> (conn[c].handler = "suspended")
  BY <1>3, <1>4
<1>9. UNCHANGED <<server, ring, lp>>
  OBVIOUS
<1>10. QED
  BY <1>7, <1>8, <1>9, StillGoes

\* removeConnectionInLoop(): the connection is closed, so the map need not
\* keep it.
LEMMA RunRemovalKeeps ==
    ASSUME IInv, NEW l \in Loops, NEW c \in Conns, RunRemoval(l, c) PROVE IInv'
<1> DEFINE f == [kind |-> "removeConnectionInLoop", c |-> c]
<1>0. PICK t : t = rest(l)
  OBVIOUS
<1>1. /\ NextFunctor(l, "removeConnectionInLoop", c)
      /\ settle(conn, connections_ \ {c}, queue, t)
      /\ UNCHANGED <<server, ring, wakeupFd, lp>>
  BY <1>0 DEF RunRemoval
<1>2. /\ t \in [Loops -> Seq(Functor)]
      /\ Sound(Loops, conn, connections_, loop, queue, t)
      /\ \A d : Queued(t, d, Strong) => Queued(todo, d, Strong)
      /\ \A m \in Loops : lp[m] # "functors" => t[m] = <<>>
      /\ SoundFunctor(f, l, conn[c], c \in connections_, loop[c])
  BY <1>0, <1>1, RestRuns
<1>3. conn[c].handler # "none" /\ conn[c].state = "KDisconnected"
  BY <1>2 DEF SoundFunctor
<1>4. Sound(Loops, conn, connections_ \ {c}, loop, queue, t)
  <2>1. ASSUME NEW m \in Loops
        PROVE  SoundLoop(m, conn, connections_ \ {c}, loop, queue[m], t[m])
    <3>1. /\ SoundLoop(m, conn, connections_, loop, queue[m], t[m])
          /\ queue[m] \in Seq(Functor) /\ t[m] \in Seq(Functor)
      BY <1>2, Unpack DEF Sound
    <3>2. QED
      BY <1>3, <3>1, Remap
  <2>2. ASSUME NEW d \in Conns PROVE SoundConn(conn[d], d \in connections_ \ {c})
    <3>1. SoundConn(conn[d], d \in connections_)
      BY <1>2 DEF Sound
    <3>2. QED
      BY <1>3, <3>1 DEF SoundConn
  <2>3. QED
    BY <2>1, <2>2 DEF Sound
<1>5. connections_ \ {c} \in SUBSET connections_
  OBVIOUS
<1>6. QED
  BY <1>1, <1>2, <1>3, <1>4, <1>5, SettleKeeps

\* The guard ends: no functor before it has captured this of its connection.
LEMMA RunGuardKeeps ==
    ASSUME IInv, NEW l \in Loops, NEW c \in Conns, RunGuard(l, c) PROVE IInv'
<1> DEFINE f == [kind |-> "guard", c |-> c]
<1>0. PICK t : t = rest(l)
  OBVIOUS
<1>1. /\ NextFunctor(l, "guard", c)
      /\ settle(conn, connections_, queue, t)
      /\ UNCHANGED <<server, ring, wakeupFd, lp>>
  BY <1>0 DEF RunGuard
<1>2. /\ t \in [Loops -> Seq(Functor)]
      /\ Sound(Loops, conn, connections_, loop, queue, t)
      /\ \A d : Queued(t, d, Strong) => Queued(todo, d, Strong)
      /\ \A m \in Loops : lp[m] # "functors" => t[m] = <<>>
      /\ SoundFunctor(f, l, conn[c], c \in connections_, loop[c])
  BY <1>0, <1>1, RestRuns
<1>3. conn[c].handler # "none" /\ connections_ \in SUBSET connections_
  BY <1>2 DEF SoundFunctor
<1>4. QED
  BY <1>1, <1>2, <1>3, SettleKeeps

\* The functor that captured this finds its connection.
LEMMA RunRawKeeps ==
    ASSUME IInv, NEW l \in Loops, NEW c \in Conns, NEW kind \in Ops,
           RunRaw(l, c, kind)
    PROVE  IInv'
<1> DEFINE k == IF kind = "forceclose" THEN forcecloseInLoop(conn[c])
                                       ELSE shutdownInLoop(conn[c])
           f == [kind |-> kind, c |-> c]
<1>0. PICK t : t = rest(l)
  OBVIOUS
<1>1. NextFunctor(l, kind, c) /\ UNCHANGED <<server, ring, lp>>
  BY DEF RunRaw
<1>2. /\ t \in [Loops -> Seq(Functor)] /\ lp[l] = "functors"
      /\ Sound(Loops, conn, connections_, loop, queue, t)
      /\ \A d : Queued(t, d, Strong) => Queued(todo, d, Strong)
      /\ \A m \in Loops : lp[m] # "functors" => t[m] = <<>>
      /\ SoundFunctor(f, l, conn[c], c \in connections_, loop[c])
      /\ c \in alive
  BY <1>0, <1>1, RestRuns
<1>3. apply(c, l, k, connections_, t)
  BY <1>0, <1>2 DEF RunRaw
<1>4. /\ conn[c].handler # "none" /\ l = loop[c]
      /\ kind = "forceclose" => conn[c].handler = "done" \/ ~conn[c].polite
  BY <1>2 DEF SoundFunctor, Ops
<1>5. SoundConn(conn[c], TRUE) /\ conn[c] \in ConnRecord
  <2>1. SoundConn(conn[c], c \in connections_)
    BY DEF IInv, Lives, Sound
  <2>2. QED
    BY <2>1, Unpack DEF SoundConn
<1>6. Moves(conn[c], k) /\ k.handler = conn[c].handler
  BY <1>4, <1>5, RawMoves
<1> HIDE DEF k
<1>7. /\ Types /\ Alive /\ lp[l] # "wait" /\ connections_ \in SUBSET Conns
  BY <1>2, Unpack DEF IInv
<1>8. /\ Goes(c, l, t) /\ conn'[c].handler # "none"
      /\ (conn'[c].handler = "suspended") <=> (k.handler = "suspended")
  BY <1>2, <1>3, <1>4, <1>5, <1>6, <1>7, Applies
<1>9. QED
  BY <1>1, <1>2, <1>4, <1>6, <1>8, StillGoes

\* A connection that was not started has its start functor at most.
LEMMA NewHasNone ==
    ASSUME NEW m, NEW co, NEW map, NEW lo, NEW q, NEW t,
           SoundLoop(m, co, map, lo, q, t), NEW c, co[c] = NewConn,
           \A i \in DOMAIN q : q[i].c = c => q[i].kind # "start" \/ m # lo[c],
           \A i \in DOMAIN t : t[i].c = c => t[i].kind # "start" \/ m # lo[c]
    PROVE  NoneOf(q, c) /\ NoneOf(t, c)
<1>1. NewConn.handler = "none"
  BY DEF NewConn
<1>2. QED
  BY <1>1 DEF SoundLoop, SoundFunctor, NoneOf

\* start() in an I/O loop: the connection is new, and its handler runs.
LEMMA RunStartKeeps ==
    ASSUME IInv, NEW l \in Loops, NEW c \in Conns, NEW op \in Calls,
           NEW then \in Thens, RunStart(l, c, op, then)
    PROVE  IInv'
<1> DEFINE k0 == start(conn[c])
           k == handle(k0, op, then)
           f == [kind |-> "start", c |-> c]
<1>a. PICK r \in waiting(ring[l], c, k) : ring' = [ring EXCEPT ![l] = r]
  BY DEF RunStart, rings
<1>0. PICK t : t = rest(l)
  OBVIOUS
<1>1. /\ NextFunctor(l, "start", c)
      /\ ring' = [ring EXCEPT ![l] = r]
      /\ apply(c, l, k, connections_, t)
      /\ UNCHANGED <<server, lp>> /\ UNCHANGED <<loop, loops_>>
  BY <1>0, <1>a DEF RunStart, server
<1>2. /\ t \in [Loops -> Seq(Functor)] /\ lp[l] = "functors"
      /\ Sound(Loops, conn, connections_, loop, queue, t)
      /\ \A d : Queued(t, d, Strong) => Queued(todo, d, Strong)
      /\ \A m \in Loops : lp[m] # "functors" => t[m] = <<>>
      /\ SoundFunctor(f, l, conn[c], c \in connections_, loop[c])
      /\ c \in alive /\ NoneOf(t[l], c) /\ NoneOf(queue[l], c)
  BY <1>0, <1>1, RestRuns DEF Strong
<1>3. conn[c] = NewConn /\ l = loop[c] /\ c \in connections_
  BY <1>2 DEF SoundFunctor
<1>4. \A m \in Loops : NoneOf(queue[m], c) /\ NoneOf(t[m], c)
  <2> SUFFICES ASSUME NEW m \in Loops, m # l
               PROVE  NoneOf(queue[m], c) /\ NoneOf(t[m], c)
    BY <1>2
  <2>1. SoundLoop(m, conn, connections_, loop, queue[m], t[m])
    BY <1>2 DEF Sound
  <2>2. QED
    BY <1>3, <2>1, NewHasNone
<1>5. /\ k0 \in ConnRecord /\ k0.state = "KConnected" /\ Moves(k0, k) /\ ~k.closes
  BY <1>3, StartMoves
<1> HIDE DEF k0, k
<1>6. /\ Types /\ Alive /\ lp[l] # "wait" /\ connections_ \in SUBSET Conns
  BY <1>2, Unpack DEF IInv
<1>7. /\ Goes(c, l, t) /\ conn'[c].handler # "none"
      /\ (conn'[c].handler = "suspended") <=> (k.handler = "suspended")
  BY <1>1, <1>2, <1>3, <1>4, <1>5, <1>6, Applies
<1>8. ring[l] \in Ring /\ c \in Awaited /\ Never(ring[l], c)
  <2>1. c \in Awaited /\ c # Wakeup /\ c # Accept
    BY Names DEF Awaited
  <2>2. ~Waits(l, c)
    BY <1>3, <2>1 DEF Waits, NewConn
  <2>3. QED
    BY <2>1, <2>2, Unpack DEF IInv, RingsKnow, Has
<1>9. /\ Level(ring[l], r) /\ Has(r, c, k.handler = "suspended")
      /\ \A x : x # c => Same(ring[l], r, x)
  BY <1>8, WaitingJoins
<1>10. /\ ring' \in [Loops -> Ring] /\ RingsKnow'
       /\ ring'[l].active = ring[l].active
       /\ \A m \in Loops : m # l => ring'[m] = ring[m]
       /\ \A d \in Conns : Accepted(d)' => Accepted(d)
  <2>1. \A d \in Conns : d # c =>
            ((conn'[d].handler = "suspended") <=> (conn[d].handler = "suspended"))
    BY <1>7 DEF Goes
  <2>2. PICK r0 \in Ring : r0 = ring[l]
    BY <1>8
  <2>3. /\ Quiet(ring[l], r0) /\ Level(r0, r)
        /\ \A x \in Awaited : x # c => Same(ring[l], r0, x) /\ Same(r0, r, x)
    BY <1>9, <2>2 DEF Quiet, Same
  <2>4. /\ l = loop[c] /\ UNCHANGED <<loop, loops_>>
        /\ ring' = [ring EXCEPT ![l] = r]
        /\ IF conn'[c].handler = "suspended" THEN Once(r, c) ELSE Never(r, c)
    BY <1>1, <1>3, <1>7, <1>9 DEF Has
  <2>5. /\ ring' \in [Loops -> Ring] /\ RingsKnow'
        /\ ring'[l].active = r0.active
        /\ \A m \in Loops : m # l => ring'[m] = ring[m]
        /\ \A d \in Conns : Accepted(d)' => Accepted(d)
    BY <2>1, <2>3, <2>4, RingOfStep
  <2>6. QED
    BY <2>2, <2>5
<1>11. c \notin backlog /\ ~Accepted(c)
  BY <1>2, StartedIsNotFresh
<1>12. \A m \in Loops : lp[m] # "handle" => ring'[m].active = <<>>
  BY <1>10 DEF IInv, Passes
<1>14. QED
  BY <1>1, <1>2, <1>7, <1>10, <1>11, <1>12, GoesKeeps

-----------------------------------------------------------------------------
(* The accept loop.                                                        *)

\* A connection that is about to be made has left no trace yet.
LEMMA AcceptedIsNew ==
    ASSUME IInv, NEW c \in Conns, Next_(Base, Accept), cqeRes(Base) = c
    PROVE  /\ conn[c] = NewConn /\ c \notin alive /\ c \notin backlog
           /\ c \notin connections_ /\ loop[c] = Base
           /\ ~Queued(queue, c, Strong) /\ ~Queued(todo, c, Strong)
           /\ \A m \in Loops : NoneOf(queue[m], c) /\ NoneOf(todo[m], c)
<1> DEFINE s == ring[Base].active
<1>1. s # <<>> /\ s \in Seq(Cqe) /\ Head(s).op = Accept /\ Head(s).res = c
  BY Unpack DEF Next_, cqeRes, Ring
<1>2. 1 \in DOMAIN s /\ s[1] = Head(s)
  BY <1>1, HeadTailProperties, LenProperties, EmptySeq
<1>3. Accepted(c)
  BY <1>1, <1>2 DEF Accepted, AcceptedIn
<1>4. /\ conn[c] = NewConn /\ c \notin alive /\ c \notin backlog /\ loop[c] = Base
  BY <1>3 DEF IInv, Arrivals, Fresh
<1>5. ~Kept(conn, connections_, queue, todo, c)
  BY <1>4 DEF IInv, Alive
<1>6. /\ c \notin connections_ /\ ~Queued(queue, c, Strong)
      /\ ~Queued(todo, c, Strong)
  BY <1>5 DEF Kept
<1>7. ASSUME NEW m \in Loops PROVE NoneOf(queue[m], c) /\ NoneOf(todo[m], c)
  <2>1. SoundLoop(m, conn, connections_, loop, queue[m], todo[m])
    BY DEF IInv, Lives, Sound
  <2>2. /\ \A i \in DOMAIN queue[m] : queue[m][i].c = c => queue[m][i].kind # "start"
        /\ \A i \in DOMAIN todo[m] : todo[m][i].c = c => todo[m][i].kind # "start"
    <3>1. DOMAIN queue = Loops /\ DOMAIN todo = Loops
      BY Unpack
    <3>2. QED
      BY <1>6, <3>1 DEF Queued, Strong
  <2>3. QED
    BY <1>4, <2>1, <2>2, NewHasNone
<1>8. QED
  BY <1>4, <1>6, <1>7

\* The map may have one more.
LEMMA MapGrows ==
    ASSUME IInv, NEW c
    PROVE  Sound(Loops, conn, connections_ \cup {c}, loop, queue, todo)
<1>1. ASSUME NEW m \in Loops
      PROVE  SoundLoop(m, conn, connections_ \cup {c}, loop, queue[m], todo[m])
  <2>1. /\ SoundLoop(m, conn, connections_, loop, queue[m], todo[m])
        /\ queue[m] \in Seq(Functor) /\ todo[m] \in Seq(Functor)
    BY Unpack DEF IInv, Lives, Sound
  <2>2. QED
    BY <2>1, Remap
<1>2. ASSUME NEW d \in Conns PROVE SoundConn(conn[d], d \in connections_ \cup {c})
  <2>1. SoundConn(conn[d], d \in connections_)
    BY DEF IInv, Lives, Sound
  <2>2. QED
    BY <2>1 DEF SoundConn
<1>3. QED
  BY <1>1, <1>2 DEF Sound

\* Accept waits again: of what was accepted nothing is left in ring r.
LEMMA NoneAccepted ==
    ASSUME IInv, NEW h, Never(h, Accept), NEW r, r.cq = h.cq, r.active = h.active,
           ring' = [ring EXCEPT ![Base] = r], NEW d
    PROVE  ~Accepted(d)'
<1>1. ring'[Base] = r
  BY Unpack
<1>2. QED
  BY <1>1 DEF Accepted, AcceptedIn, Never, NotIn

\* onNewConnection() with the base loop: the connection is started before
\* accept is waited for again.
LEMMA NewConnectionHereKeeps ==
    ASSUME IInv, NEW c \in Conns, NEW op \in Calls, NEW then \in Thens,
           NewConnectionHere(c, op, then)
    PROVE  IInv'
<1> DEFINE k0 == start(conn[c])
           k == handle(k0, op, then)
           h == handled(ring[Base])
           map == connections_ \cup {c}
<1>a. PICK r :
          /\ r \in UNION {await_suspend(q, Accept) : q \in waiting(h, c, k)}
          /\ ring' = [ring EXCEPT ![Base] = r]
  BY DEF NewConnectionHere, rings
<1>b. PICK w : w \in waiting(h, c, k) /\ r \in await_suspend(w, Accept)
  BY <1>a
<1>1. /\ Next_(Base, Accept) /\ cqeRes(Base) = c
      /\ ring' = [ring EXCEPT ![Base] = r]
      /\ apply(c, Base, k, map, todo)
      /\ UNCHANGED <<server, lp>> /\ UNCHANGED <<loop, loops_>>
  BY <1>a DEF NewConnectionHere, server
<1>2. /\ conn[c] = NewConn /\ c \notin alive /\ c \notin backlog
      /\ Base = loop[c]
      /\ \A m \in Loops : NoneOf(queue[m], c) /\ NoneOf(todo[m], c)
  BY <1>1, AcceptedIsNew
<1>3. /\ k0 \in ConnRecord /\ k0.state = "KConnected" /\ Moves(k0, k) /\ ~k.closes
  BY <1>2, StartMoves
<1> HIDE DEF k0, k
<1>4. /\ Types /\ Alive /\ lp[Base] = "handle" /\ Base \in Loops
      /\ map \in SUBSET Conns /\ todo \in [Loops -> Seq(Functor)] /\ c \in map
      /\ \A d \in Conns : d \in map => d \in connections_ \/ d = c
  BY <1>1, Unpack DEF IInv, Next_
<1>5. Sound(Loops, conn, map, loop, queue, todo)
  BY MapGrows
<1> HIDE DEF map
<1>6. /\ Goes(c, Base, todo) /\ conn'[c].handler # "none"
      /\ (conn'[c].handler = "suspended") <=> (k.handler = "suspended")
  <2>1. lp[Base] # "wait"
    BY <1>4
  <2>2. QED
    BY <1>1, <1>2, <1>3, <1>4, <1>5, <2>1, Applies
<1>7. /\ ring[Base] \in Ring /\ ring[Base].active # <<>> /\ Accept \in Awaited
      /\ Head(ring[Base].active).op = Accept /\ Once(ring[Base], Accept)
  BY <1>1, <1>4, HeadWaits
<1>8. c \in Awaited /\ c # Accept /\ Never(ring[Base], c)
  <2>1. c \in Awaited /\ c # Wakeup /\ c # Accept
    BY Names DEF Awaited
  <2>2. ~Waits(Base, c)
    BY <1>2, <2>1 DEF Waits, NewConn
  <2>3. QED
    BY <1>4, <2>1, <2>2 DEF IInv, RingsKnow, Has
<1>9. Takes(ring[Base], h, Accept) /\ Never(h, Accept)
  BY <1>7, HandledTakes
<1> HIDE DEF h
<1>10. /\ h \in Ring /\ h.cq = ring[Base].cq /\ h.active = Tail(ring[Base].active)
       /\ Quiet(ring[Base], h) /\ Never(h, c)
       /\ \A x \in Awaited : x # Accept => Same(ring[Base], h, x)
  BY <1>8, <1>9 DEF Takes, Same
<1>11. /\ Level(h, w) /\ Has(w, c, k.handler = "suspended")
       /\ \A x : x # c => Same(h, w, x)
  BY <1>8, <1>10, <1>b, WaitingJoins
<1>12. w \in Ring /\ w.cq = h.cq /\ w.active = h.active /\ Never(w, Accept)
  BY <1>8, <1>9, <1>11 DEF Level, Same
<1>13. Joins(w, r, Accept)
  BY <1>7, <1>12, <1>b, Suspended
<1>14. /\ r \in Ring /\ r.cq = h.cq /\ r.active = h.active /\ Once(r, Accept)
       /\ \A x : x # Accept => Same(w, r, x)
  BY <1>12, <1>13 DEF Joins, Level
<1>15. ASSUME NEW x \in Awaited, x # c PROVE Same(ring[Base], r, x)
  <2>1. CASE x = Accept
    BY <1>7, <1>14, <2>1, OnceIsNotNever DEF Same
  <2>2. CASE x # Accept
    BY <1>10, <1>11, <1>14, <1>15, <2>2 DEF Same
  <2>3. QED
    BY <2>1, <2>2
<1>16. IF conn'[c].handler = "suspended" THEN Once(r, c) ELSE Never(r, c)
  BY <1>6, <1>8, <1>11, <1>14 DEF Has, Same
<1>17. /\ ring' \in [Loops -> Ring] /\ RingsKnow'
       /\ \A m \in Loops : m # Base => ring'[m] = ring[m]
  <2>1. \A d \in Conns : d # c =>
            ((conn'[d].handler = "suspended") <=> (conn[d].handler = "suspended"))
    BY <1>6 DEF Goes
  <2>2. Level(r, r) /\ Quiet(ring[Base], r)
        /\ \A x \in Awaited : x # c => Same(ring[Base], r, x) /\ Same(r, r, x)
    BY <1>10, <1>14, <1>15 DEF Level, Quiet, Same
  <2>3. QED
    BY <1>1, <1>2, <1>4, <1>14, <1>16, <2>1, <2>2, RingOfStep
<1>18. \A d \in Conns : ~Accepted(d)'
  BY <1>1, <1>9, <1>14, NoneAccepted
<1>19. \A m \in Loops : /\ lp[m] # "handle" => ring'[m].active = <<>>
                        /\ lp[m] # "functors" => todo[m] = <<>>
  BY <1>4, <1>17 DEF IInv, Passes
<1>21. QED
  BY <1>1, <1>2, <1>4, <1>6, <1>17, <1>18, <1>19, GoesKeeps


\* getNextLoop() goes round the I/O loops and loses none.
LEMMA Rotated ==
    ASSUME loops_ \in Seq({loops_[i] : i \in DOMAIN loops_}), loops_ # <<>>,
           loops_' = Append(Tail(loops_), Head(loops_))
    PROVE  /\ Loops' = Loops /\ Head(loops_) \in Loops
           /\ loops_' \in Seq({loops_'[i] : i \in DOMAIN loops_'})
<1>0. PICK s : s = loops_
  OBVIOUS
<1>1. PICK S : S = {s[i] : i \in DOMAIN s}
  OBVIOUS
<1>2. s \in Seq(S) /\ s # <<>>
  BY <1>0, <1>1
<1> DEFINE n == Len(s)
           u == Tail(s)
           v == Append(u, Head(s))
<1>3. /\ n \in Nat \ {0} /\ DOMAIN s = 1 .. n /\ Head(s) = s[1]
      /\ u \in Seq(S) /\ Len(u) = n - 1 /\ DOMAIN u = 1 .. n - 1
      /\ \A i \in 1 .. n - 1 : u[i] = s[i + 1]
  BY <1>2, HeadTailProperties, LenProperties, EmptySeq
<1>4. Head(s) \in S
  BY <1>1, <1>3
<1> HIDE DEF n, u
<1>5. /\ v \in Seq(S) /\ Len(v) = n /\ DOMAIN v = 1 .. n /\ v[n] = s[1]
      /\ \A i \in 1 .. n - 1 : v[i] = u[i]
  BY <1>3, <1>4, AppendProperties, LenProperties
<1> HIDE DEF v
<1>6. \A i \in 1 .. n - 1 : v[i] = s[i + 1] /\ i + 1 \in 1 .. n
  BY <1>3, <1>5
<1>7. ASSUME NEW x \in S PROVE \E i \in DOMAIN v : v[i] = x
  <2>1. PICK j \in 1 .. n : s[j] = x
    BY <1>1, <1>3
  <2>2. CASE j = 1
    BY <1>3, <1>5, <2>1, <2>2
  <2>3. CASE j # 1
    <3>1. j - 1 \in 1 .. n - 1 /\ (j - 1) + 1 = j /\ j - 1 \in DOMAIN v
      BY <1>3, <1>5, <2>3
    <3>2. v[j - 1] = x
      BY <1>6, <2>1, <3>1
    <3>3. QED
      BY <3>1, <3>2
  <2>4. QED
    BY <2>2, <2>3
<1>8. \A i \in DOMAIN v : v[i] \in S
  BY <1>5, ElementOfSeq
<1>9. {v[i] : i \in DOMAIN v} = S
  BY <1>7, <1>8
<1>10. loops_' = v
  BY <1>0 DEF v, u
<1>11. Loops' = {Base} \cup {v[i] : i \in DOMAIN v} /\ Loops = {Base} \cup S
  BY <1>0, <1>1, <1>10 DEF Loops
<1>12. Loops' = Loops /\ Head(loops_) \in Loops
  BY <1>0, <1>4, <1>9, <1>11
<1>13. {loops_'[i] : i \in DOMAIN loops_'} = S
  BY <1>9, <1>10
<1>14. loops_' \in Seq({loops_'[i] : i \in DOMAIN loops_'})
  BY <1>5, <1>10, <1>13
<1>15. QED
  BY <1>12, <1>14


\* The start of c is posted to its loop l.
StartQueue(c, l) == [queue EXCEPT ![l] = Append(@, [kind |-> "start", c |-> c])]
LoopOf(c, l) == [loop EXCEPT ![c] = l]

Untouched(c) == \A m \in Loops : NoneOf(queue[m], c) /\ NoneOf(todo[m], c)

StartIsIn(c, l, q, lo) ==
    /\ q \in [Loops -> Seq(Functor)]
    /\ \A m \in Loops : m # l => q[m] = queue[m]
    /\ Sound(Loops, conn, connections_ \cup {c}, lo, q, todo)
    /\ \A d : d # c /\ Queued(q, d, Strong) => Queued(queue, d, Strong)

\* The functors are sound when one more has been posted, to start c.
LEMMA StartPosted ==
    ASSUME IInv, NEW c \in Conns, NEW l \in Loops, l # Base, conn[c] = NewConn,
           Untouched(c), NEW q, q = StartQueue(c, l), NEW lo, lo = LoopOf(c, l)
    PROVE  StartIsIn(c, l, q, lo)
<1> DEFINE f == [kind |-> "start", c |-> c]
           map == connections_ \cup {c}
<1>1. f \in Functor /\ f.kind = "start" /\ f.c = c
  BY DEF Functor, Kinds, Strong
<1>2. /\ queue \in [Loops -> Seq(Functor)] /\ todo \in [Loops -> Seq(Functor)]
      /\ loop \in [Conns -> Loops] /\ Base \in Loops
  BY Unpack
<1> HIDE DEF f
<1>3. q[l] = Append(queue[l], f) /\ \A m \in Loops : m # l => q[m] = queue[m]
  BY <1>2 DEF f, StartQueue
<1>4. Append(queue[l], f) \in Seq(Functor)
  BY <1>1, <1>2, AppendProperties
<1>5. q \in [Loops -> Seq(Functor)]
  BY <1>2, <1>4 DEF f, StartQueue
<1>6. Sound(Loops, conn, map, loop, queue, todo)
  BY MapGrows
<1> HIDE DEF map
<1>7. ASSUME NEW m \in Loops
      PROVE  /\ SoundLoop(m, conn, map, lo, queue[m], todo[m])
             /\ queue[m] \in Seq(Functor) /\ todo[m] \in Seq(Functor)
  <2>1. /\ SoundLoop(m, conn, map, loop, queue[m], todo[m])
        /\ queue[m] \in Seq(Functor) /\ todo[m] \in Seq(Functor)
        /\ NoneOf(queue[m], c) /\ NoneOf(todo[m], c)
    BY <1>2, <1>6 DEF Sound, Untouched
  <2>2. QED
    BY <1>2, <2>1, Remap DEF LoopOf
<1>8. SoundLoop(l, conn, map, lo, q[l], todo[l])
  <2>1. lo[f.c] = l /\ f.c \in map /\ conn[f.c] = NewConn
    BY <1>1, <1>2 DEF map, LoopOf
  <2>2. SoundFunctor(f, l, conn[f.c], f.c \in map, lo[f.c])
    BY <1>1, <2>1 DEF SoundFunctor, Ops
  <2>3. ~Dangles(conn, f)
    BY <1>1 DEF Dangles, Ops
  <2>4. NoneOf(queue[l], f.c) /\ NoneOf(todo[l], f.c)
    BY <1>1 DEF Untouched
  <2>5. /\ SoundLoop(l, conn, map, lo, queue[l], todo[l])
        /\ queue[l] \in Seq(Functor) /\ todo[l] \in Seq(Functor)
    BY <1>7
  <2>6. SoundLoop(l, conn, map, lo, Append(queue[l], f), todo[l])
    BY <1>1, <2>2, <2>3, <2>4, <2>5, Post
  <2>7. QED
    BY <1>3, <2>6
<1>9. Sound(Loops, conn, map, lo, q, todo)
  <2>1. \A d \in Conns : SoundConn(conn[d], d \in map)
    BY <1>6 DEF Sound
  <2>2. \A m \in Loops : SoundLoop(m, conn, map, lo, q[m], todo[m])
    BY <1>3, <1>7, <1>8
  <2>3. QED
    BY <2>1, <2>2 DEF Sound
<1>10. ASSUME NEW d, d # c, Queued(q, d, Strong) PROVE Queued(queue, d, Strong)
  <2>1. PICK k : k = [posts |-> <<"start">>, closes |-> FALSE]
    OBVIOUS
  <2>2. /\ k.posts # <<>> /\ k.posts[1] = "start" /\ k.closes = FALSE
    BY <2>1
  <2>3. Posted(c, l, k, q)
    BY <1>2, <1>3, <1>5, <2>2 DEF Posted, f
  <2>4. QED
    BY <1>2, <1>10, <2>3, PostedIsOwn
<1>11. QED
  BY <1>3, <1>5, <1>9, <1>10 DEF map, f, StartIsIn

\* onNewConnection() with an I/O loop, which is woken to start it.
LEMMA NewConnectionThereKeeps ==
    ASSUME IInv, NEW c \in Conns, NewConnectionThere(c) PROVE IInv'
<1>0. PICK l : l = getNextLoop
  OBVIOUS
<1>1. PICK q : q = StartQueue(c, l)
  OBVIOUS
<1>2. PICK map : map = connections_ \cup {c}
  OBVIOUS
<1> DEFINE h == handled(ring[Base])
<1>a. PICK r \in await_suspend(h, Accept) : ring' = [ring EXCEPT ![Base] = r]
  BY DEF NewConnectionThere, rings
<1>3. /\ Next_(Base, Accept) /\ cqeRes(Base) = c /\ l # Base
      /\ loop' = [loop EXCEPT ![c] = l] /\ loops_' = rotated
      /\ settle(conn, map, q, todo)
      /\ wakeupFd' = [wakeupFd EXCEPT ![l] = TRUE]
      /\ ring' = [ring EXCEPT ![Base] = r]
      /\ backlog' = backlog /\ lp' = lp
  BY <1>0, <1>1, <1>2, <1>a DEF NewConnectionThere, StartQueue
<1>4. /\ Loops' = Loops /\ l \in Loops
      /\ loops_' \in Seq({loops_'[i] : i \in DOMAIN loops_'})
  <2>1. loops_ # <<>> /\ l = Head(loops_) /\ loops_' = Append(Tail(loops_), Head(loops_))
    BY <1>0, <1>3 DEF getNextLoop, rotated
  <2>2. loops_ \in Seq({loops_[i] : i \in DOMAIN loops_})
    BY DEF IInv, Types
  <2>3. QED
    BY <2>1, <2>2, Rotated
<1>5. /\ conn[c] = NewConn /\ c \notin alive /\ c \notin backlog
      /\ \A m \in Loops : NoneOf(queue[m], c) /\ NoneOf(todo[m], c)
  BY <1>3, AcceptedIsNew
<1>6. /\ conn \in [Conns -> ConnRecord] /\ connections_ \in SUBSET Conns
      /\ queue \in [Loops -> Seq(Functor)] /\ todo \in [Loops -> Seq(Functor)]
      /\ alive \in SUBSET Conns /\ wakeupFd \in [Loops -> BOOLEAN]
      /\ ring \in [Loops -> Ring] /\ Base \in Loops
      /\ loop \in [Conns -> Loops] /\ lp[Base] = "handle" /\ failed = {}
  BY <1>3, Unpack DEF IInv, Types, Next_
<1>7. /\ q \in [Loops -> Seq(Functor)]
      /\ \A m \in Loops : m # l => q[m] = queue[m]
      /\ Sound(Loops, conn, map, loop', q, todo)
      /\ \A d : d # c /\ Queued(q, d, Strong) => Queued(queue, d, Strong)
  <2>1. PICK lo : lo = loop'
    OBVIOUS
  <2>2. lo = LoopOf(c, l)
    BY <1>3, <2>1 DEF LoopOf
  <2>3. /\ q \in [Loops -> Seq(Functor)]
        /\ \A m \in Loops : m # l => q[m] = queue[m]
        /\ Sound(Loops, conn, connections_ \cup {c}, lo, q, todo)
        /\ \A d : d # c /\ Queued(q, d, Strong) => Queued(queue, d, Strong)
    <3>1. l \in Loops /\ l # Base /\ Untouched(c) /\ conn[c] = NewConn
      BY <1>3, <1>4, <1>5 DEF Untouched
    <3>2. StartIsIn(c, l, q, lo)
      BY <1>1, <2>2, <3>1, StartPosted
    <3>3. QED
      BY <3>2 DEF StartIsIn
  <2>4. QED
    BY <1>2, <2>1, <2>3
<1>8. /\ conn' \in [Conns -> ConnRecord] /\ alive' \in SUBSET Conns
      /\ connections_' = map /\ queue' = q /\ todo' = todo /\ failed' = {}
      /\ Sound(Loops, conn', map, loop', q, todo)
      /\ \A d \in Conns : d \in alive' <=> Kept(conn', map, q, todo, d)
      /\ \A d \in Conns :
             /\ (conn'[d].handler = "suspended")
                    <=> (conn[d].handler = "suspended")
             /\ \/ conn'[d] = conn[d]
                \/ conn'[d] = destroyed /\ d \in alive
             /\ d \in alive /\ d \notin alive' => conn'[d] = destroyed
  <2>1. \A d \in Conns : conn[d].handler = "suspended" /\ conn[d].polite
                             => Kept(conn, map, q, todo, d)
    BY DEF Kept
  <2>2. map \in SUBSET Conns
    BY <1>2, <1>6
  <2>3. PICK lo : lo = loop'
    OBVIOUS
  <2>4. Sound(Loops, conn, map, lo, q, todo)
    BY <1>7, <2>3
  <2>5. QED
    BY <1>3, <1>6, <1>7, <2>1, <2>2, <2>3, <2>4, Settles
<1>9. ASSUME NEW d \in Conns, d # c PROVE Fresh(d)' <=> Fresh(d)
  <2>1. destroyed.handler = "done" /\ destroyed # NewConn /\ NewConn.handler = "none"
    BY DEF destroyed, NewConn
  <2>2. Fresh(d)' => Fresh(d)
    BY <1>8, <2>1 DEF Fresh
  <2>3. ASSUME Fresh(d), d \in alive' PROVE FALSE
    <3>1. ~Kept(conn, connections_, queue, todo, d) /\ conn[d] = NewConn
      BY <2>3 DEF Fresh, IInv, Alive
    <3>2. Kept(conn', map, q, todo, d) /\ conn'[d].handler # "suspended"
      BY <1>8, <2>1, <2>3, <3>1
    <3>3. QED
      BY <1>2, <1>7, <1>9, <3>1, <3>2 DEF Kept
  <2>4. QED
    BY <1>8, <2>1, <2>2, <2>3 DEF Fresh
<1>10. c \in alive' /\ ~Fresh(c)'
  BY <1>2, <1>8 DEF Kept, Fresh
<1>11. /\ ring[Base] \in Ring /\ ring[Base].active # <<>> /\ Accept \in Awaited
       /\ Head(ring[Base].active).op = Accept /\ Once(ring[Base], Accept)
  BY <1>3, <1>6, HeadWaits
<1>12. Takes(ring[Base], h, Accept) /\ Never(h, Accept)
  BY <1>11, HandledTakes
<1> HIDE DEF h
<1>13. h \in Ring
  BY <1>12 DEF Takes
<1>14. Joins(h, r, Accept)
  BY <1>11, <1>12, <1>13, Suspended
<1>15. /\ r \in Ring /\ r.cq = h.cq /\ r.active = h.active
       /\ \A x \in Awaited : Same(ring[Base], r, x)
  BY <1>11, <1>12, <1>14, Rewaits DEF Joins, Level
<1>16. ASSUME NEW m \in Loops, NEW x \in Awaited
       PROVE  Waits(m, x)' <=> Waits(m, x)
  <2>1. CASE x = c
    <3>1. c # Wakeup /\ c # Accept
      BY Names
    <3>2. conn[c].handler # "suspended" /\ conn'[c].handler # "suspended"
      BY <1>5, <1>8 DEF NewConn
    <3>3. QED
      BY <2>1, <3>1, <3>2 DEF Waits
  <2>2. CASE x # c /\ x \in Conns
    <3>1. loop'[x] = loop[x]
      BY <1>3, <1>6, <2>2
    <3>2. QED
      BY <1>8, <2>2, <3>1 DEF Waits
  <2>3. CASE x \notin Conns
    BY <2>3 DEF Waits, Awaited
  <2>4. QED
    BY <2>1, <2>2, <2>3
<1>17. /\ ring' \in [Loops -> Ring] /\ RingsKnow'
       /\ \A m \in Loops : m # Base => ring'[m] = ring[m]
  <2>1. \A x \in Awaited : Has(r, x, Waits(Base, x)')
    BY <1>6, <1>15, <1>16 DEF IInv, RingsKnow, Has, Same
  <2>2. \A m \in Loops, x \in Awaited : m # Base => (Waits(m, x)' <=> Waits(m, x))
    BY <1>16
  <2>3. QED
    BY <1>3, <1>4, <1>6, <1>15, <2>1, <2>2, RingStep DEF IInv
<1>18. \A d \in Conns : ~Accepted(d)'
  BY <1>3, <1>12, <1>15, NoneAccepted
<1>20. Types'
  <2>1. /\ loop' \in [Conns -> Loops'] /\ wakeupFd' \in [Loops' -> BOOLEAN]
        /\ lp' \in [Loops' -> {"functors", "wait", "handle"}]
        /\ backlog' \subseteq Conns
    BY <1>3, <1>4, <1>6, Unpack
  <2>2. connections_' \subseteq Conns /\ alive' \subseteq Conns
    BY <1>2, <1>6, <1>8
  <2>3. QED
    BY <1>4, <1>6, <1>7, <1>8, <1>17, <2>1, <2>2 DEF Types
<1>21. Passes'
  <2>1. \A m \in Loops : /\ lp[m] # "handle" => ring'[m].active = <<>>
                         /\ lp[m] # "functors" => todo[m] = <<>>
    BY <1>6, <1>17 DEF IInv, Passes
  <2>2. QED
    BY <1>3, <1>4, <1>8, <2>1 DEF Passes
<1>22. Woken'
  <2>1. ASSUME NEW m \in Loops, lp[m] # "handle", queue'[m] # <<>>
        PROVE  wakeupFd'[m]
    BY <1>3, <1>4, <1>6, <1>7, <1>8, <2>1 DEF IInv, Woken
  <2>2. QED
    BY <1>3, <1>4, <2>1 DEF Woken
<1>23. Alive'
  BY <1>8 DEF Alive
<1>24. Lives'
  BY <1>4, <1>8 DEF Lives
<1>25. Arrivals'
  <2>1. \A d \in Conns : d # c => loop'[d] = loop[d]
    BY <1>3, <1>6
  <2>2. QED
    BY <1>3, <1>5, <1>9, <1>10, <1>18, <2>1 DEF IInv, Arrivals
<1>26. QED
  BY <1>17, <1>20, <1>21, <1>22, <1>23, <1>24, <1>25 DEF IInv


-----------------------------------------------------------------------------
(* The invariant.                                                          *)

\* UringTcpServer::start: the rings wait for their eventfds, that of the
\* base loop for clients too, and there is nothing else.
LEMMA Initially == Init => IInv
<1> SUFFICES ASSUME Init PROVE IInv
  OBVIOUS
<1>1. /\ conn = [c \in Conns |-> NewConn]
      /\ loop = [c \in Conns |-> Base]
      /\ connections_ = {} /\ alive = {} /\ backlog = {} /\ failed = {}
      /\ wakeupFd = [l \in Loops |-> FALSE]
      /\ lp = [l \in Loops |-> "functors"]
      /\ queue = [l \in Loops |-> <<>>]
      /\ todo = [l \in Loops |-> <<>>]
      /\ Base \in Loops
  BY DEF Init, Loops
<1>2. PICK n \in Nat :
          /\ loops_ \in Seq({loops_[i] : i \in DOMAIN loops_})
          /\ ring \in [Loops -> UNION {FirstRings(l, n) : l \in Loops}]
          /\ \A l \in Loops : ring[l] \in FirstRings(l, n)
  BY UringAssumption DEF Init
<1>3. ASSUME NEW l \in Loops
      PROVE  /\ ring[l] \in Ring /\ ring[l].cq = <<>> /\ ring[l].active = <<>>
             /\ \A x \in Awaited : Has(ring[l], x, x = Wakeup \/ (x = Accept /\ l = Base))
  <2> DEFINE z == NewRing(n)
  <2>1. z \in Ring /\ z.cq = <<>> /\ z.active = <<>>
    BY EmptySeq DEF Ring, NewRing
  <2>2. \A x : Never(z, x)
    BY DEF NewRing, Never, NotIn
  <2> HIDE DEF z
  <2>3. PICK r \in registerWakeupPoll(z) :
            IF l = Base THEN ring[l] \in await_suspend(r, Accept) ELSE ring[l] = r
    BY <1>2 DEF FirstRings, z
  <2>4. Joins(z, r, Wakeup)
    BY <2>1, <2>2, Registered
  <2>5. /\ r \in Ring /\ r.cq = <<>> /\ r.active = <<>> /\ Once(r, Wakeup)
        /\ \A x : x # Wakeup => Never(r, x)
    BY <2>1, <2>2, <2>4 DEF Joins, Level, Same
  <2>6. CASE l # Base
    BY <2>3, <2>5, <2>6 DEF Has
  <2>7. CASE l = Base
    <3>1. PICK b : b = ring[l]
      OBVIOUS
    <3>2. Joins(r, b, Accept)
      BY <2>3, <2>5, <2>7, <3>1, Names, Suspended DEF Awaited
    <3>3. /\ b \in Ring /\ b.cq = <<>> /\ b.active = <<>> /\ Once(b, Wakeup)
          /\ Once(b, Accept) /\ \A x : x # Wakeup /\ x # Accept => Never(b, x)
      BY <2>5, <3>2, Names DEF Joins, Level, Same
    <3>4. QED
      BY <2>7, <3>1, <3>3 DEF Has
  <2>8. QED
    BY <2>6, <2>7
<1>10. Types
  <2>1. <<>> \in Seq(Functor)
    BY EmptySeq
  <2>2. /\ queue \in [Loops -> Seq(Functor)] /\ todo \in [Loops -> Seq(Functor)]
        /\ conn \in [Conns -> ConnRecord] /\ ring \in [Loops -> Ring]
    BY <1>1, <1>2, <1>3, <2>1, NewIsRecord
  <2>3. QED
    BY <1>1, <1>2, <2>2 DEF Types
<1>11. RingsKnow
  <2> SUFFICES ASSUME NEW l \in Loops, NEW x \in Awaited
               PROVE  Has(ring[l], x, Waits(l, x))
    BY DEF RingsKnow
  <2>1. CASE x = Wakeup
    BY <1>3, <2>1, Names DEF Has, Waits
  <2>2. CASE x = Accept
    BY <1>3, <2>2, Names DEF Has, Waits
  <2>3. CASE x \in Conns
    <3>1. x # Wakeup /\ x # Accept
      BY <2>3, Names
    <3>2. ~Waits(l, x)
      BY <1>1, <2>3, <3>1 DEF Waits, NewConn
    <3>3. QED
      BY <1>3, <3>1, <3>2 DEF Has
  <2>4. QED
    BY <2>1, <2>2, <2>3 DEF Awaited
<1>12. Passes /\ Woken
  BY <1>1, <1>3 DEF Passes, Woken
<1>13. \A c : ~Queued(queue, c, Strong) /\ ~Queued(todo, c, Strong)
  BY <1>1 DEF Queued
<1>14. NewConn.handler = "none" /\ NewConn.state = "KDisconnected"
  BY DEF NewConn
<1>15. Alive
  BY <1>1, <1>13, <1>14 DEF Alive, Kept
<1>16. Lives
  <2>1. \A c \in Conns : SoundConn(conn[c], c \in connections_)
    BY <1>1, <1>14 DEF SoundConn
  <2>2. \A l \in Loops : SoundLoop(l, conn, connections_, loop, queue[l], todo[l])
    BY <1>1 DEF SoundLoop
  <2>3. QED
    BY <2>1, <2>2 DEF Lives, Sound
<1>17. Arrivals
  <2>1. \A c : ~Accepted(c)
    BY <1>1, <1>3 DEF Accepted, AcceptedIn
  <2>2. QED
    BY <1>1, <2>1 DEF Arrivals, Fresh
<1>18. QED
  BY <1>10, <1>11, <1>12, <1>15, <1>16, <1>17 DEF IInv

\* Nothing happens.
LEMMA StutterKeeps == ASSUME IInv, UNCHANGED vars PROVE IInv'
<1>1. /\ conn' = conn /\ connections_' = connections_ /\ alive' = alive
      /\ failed' = failed /\ loop' = loop /\ loops_' = loops_
      /\ backlog' = backlog /\ ring' = ring /\ wakeupFd' = wakeupFd
      /\ lp' = lp /\ queue' = queue /\ todo' = todo
  BY DEF vars, conns, server, queues
<1>2. PICK l \in Loops : l = Base
  BY Unpack
<1>3. PICK r \in Ring : r = ring[l]
  BY Unpack
<1>4. /\ ring' = [ring EXCEPT ![l] = r]
      /\ \A x \in Awaited : Same(ring[l], r, x)
  BY <1>1, <1>3, Unpack DEF Same
<1>5. \A c \in Conns : Accepted(c)' => c \notin backlog' /\ Accepted(c)
  BY <1>1 DEF Accepted, IInv, Arrivals
<1>6. UNCHANGED <<conns, loop, loops_, queues>>
  BY <1>1 DEF conns, queues
<1>7. /\ lp' \in [Loops -> {"functors", "wait", "handle"}]
      /\ wakeupFd' \in [Loops -> BOOLEAN] /\ backlog' \subseteq backlog
      /\ \A m \in Loops : m # l => lp'[m] = lp[m] /\ wakeupFd'[m] = wakeupFd[m]
  BY <1>1, Unpack
<1>8. /\ lp'[l] # "handle" => r.active = <<>>
      /\ lp'[l] # "functors" => todo[l] = <<>>
      /\ lp'[l] # "handle" /\ queue[l] # <<>> => wakeupFd'[l]
  BY <1>1, <1>3 DEF IInv, Passes, Woken
<1>9. QED
  BY <1>4, <1>5, <1>6, <1>7, <1>8, RingAction

\* The thread of a loop takes a step.
LEMMA StepKeeps == ASSUME IInv, NEW l \in Loops, Step(l) PROVE IInv'
<1>1. CASE Collect(l)
  BY <1>1, CollectKeeps
<1>2. CASE PollTimesOut(l)
  BY <1>2, PollTimesOutKeeps
<1>3. CASE BeginFunctors(l)
  BY <1>3, BeginFunctorsKeeps
<1>4. CASE Submit(l)
  BY <1>4, SubmitKeeps
<1>5. CASE HandleWakeup(l)
  BY <1>5, HandleWakeupKeeps
<1>6. CASE HandleAccept
  <2>1. CASE AcceptFails
    BY <2>1, AcceptFailsKeeps
  <2>2. ASSUME NEW c \in Conns, NewConnectionThere(c) PROVE IInv'
    BY <2>2, NewConnectionThereKeeps
  <2>3. ASSUME NEW c \in Conns, NEW op \in Calls, NEW then \in Thens,
               NewConnectionHere(c, op, then)
        PROVE  IInv'
    BY <2>3, NewConnectionHereKeeps
  <2>4. QED
    BY <1>6, <2>1, <2>2, <2>3 DEF HandleAccept
<1>7. ASSUME NEW c \in Conns, HandleConn(c) PROVE IInv'
  <2>1. ASSUME NEW again \in BOOLEAN, HandleRepeat(c, again) PROVE IInv'
    BY <2>1, HandleRepeatKeeps
  <2>2. ASSUME NEW again \in BOOLEAN, NEW op \in Calls, NEW then \in Thens,
               HandleResult(c, again, op, then)
        PROVE  IInv'
    BY <2>2, HandleResultKeeps
  <2>3. QED
    BY <1>7, <2>1, <2>2 DEF HandleConn
<1>8. ASSUME NEW c \in Conns, RunRemoval(l, c) PROVE IInv'
  BY <1>8, RunRemovalKeeps
<1>9. ASSUME NEW c \in Conns, RunGuard(l, c) PROVE IInv'
  BY <1>9, RunGuardKeeps
<1>10. ASSUME NEW c \in Conns, NEW kind \in Ops, RunRaw(l, c, kind) PROVE IInv'
  BY <1>10, RunRawKeeps
<1>11. ASSUME NEW c \in Conns, NEW op \in Calls, NEW then \in Thens,
              RunStart(l, c, op, then)
       PROVE  IInv'
  BY <1>11, RunStartKeeps
<1>12. CASE Handle(l)
  BY <1>5, <1>6, <1>7, <1>12 DEF Handle
<1>13. CASE RunFunctor(l)
  BY <1>8, <1>9, <1>10, <1>11, <1>13 DEF RunFunctor
<1>14. QED
  BY <1>1, <1>2, <1>3, <1>4, <1>12, <1>13 DEF Step

\* Every step keeps the invariant.
LEMMA NextKeeps == ASSUME IInv, Fits, Next PROVE IInv'
<1>1. ASSUME NEW l \in Loops, Step(l) PROVE IInv'
  BY <1>1, StepKeeps
<1>2. ASSUME NEW l \in Loops, CompleteWakeup(l) PROVE IInv'
  BY <1>2, CompleteWakeupKeeps
<1>3. CASE CompleteAcceptError
  BY <1>3, CompleteAcceptErrorKeeps
<1>4. ASSUME NEW c \in Conns, CompleteAccept(c) PROVE IInv'
  BY <1>4, CompleteAcceptKeeps
<1>5. ASSUME NEW c \in Conns, Connect(c) PROVE IInv'
  BY <1>5, ConnectKeeps
<1>6. ASSUME NEW c \in Conns, NEW res \in -1 .. MaxLen, CompleteConn(c, res)
      PROVE  IInv'
  BY <1>6, CompleteConnKeeps
<1>7. ASSUME NEW c \in Conns, NEW op \in Ops, LoopCall(c, op) PROVE IInv'
  BY <1>7, LoopCallKeeps
<1>8. ASSUME NEW c \in Conns,
             PeerSends(c) \/ PeerCloses(c) \/ PeerResets(c) \/ PeerReads(c)
      PROVE  IInv'
  BY <1>8, PeersKeep
<1>9. QED
  BY <1>1, <1>2, <1>3, <1>4, <1>5, <1>6, <1>7, <1>8 DEF Next

\* IInv is an invariant of the server, as long as what waits in a ring fits
\* its completion queue.
THEOREM UringInvariant == Spec /\ []Fits => []IInv
<1>1. IInv /\ Fits /\ [Next]_vars => IInv'
  BY NextKeeps, StutterKeeps
<1>2. QED
  BY <1>1, Initially, PTL DEF Spec

\* However much of its queue io_uring_submit takes, a coroutine that waits
\* has its operation in the ring of its loop once, unless wait_read,
\* wait_write or wait_accept has dropped it, which only a submission that
\* fell short leads to; one that does not wait has none.
THEOREM UringOps == Spec /\ []Fits => []OpsAreInRing
<1>1. IInv => OpsAreInRing
  <2> SUFFICES ASSUME IInv PROVE OpsAreInRing
    OBVIOUS
  <2>1. ASSUME NEW l \in Loops, NEW x \in Awaited
        PROVE  IF Waits(l, x) THEN Pending(ring[l], x)
               ELSE Occurrences(ring[l], x) = 0 /\ x \notin ring[l].refused
    <3>1. Has(ring[l], x, Waits(l, x)) /\ ring[l] \in Ring
      BY Unpack DEF IInv, RingsKnow
    <3>2. QED
      BY <3>1, Counted DEF Has
  <2>2. \A l \in Loops : Pending(ring[l], Wakeup)
    BY <2>1, Names DEF Waits, Awaited
  <2>3. Pending(ring[Base], Accept)
    BY <2>1, Unpack, Names DEF Waits, Awaited
  <2>4. ASSUME NEW c \in Conns, NEW l \in Loops
        PROVE  IF c \in Waiting(l) THEN Pending(ring[l], c)
               ELSE Occurrences(ring[l], c) = 0 /\ c \notin ring[l].refused
    <3>1. Waits(l, c) <=> c \in Waiting(l)
      BY Names DEF Waits, Waiting
    <3>2. QED
      BY <2>1, <3>1 DEF Awaited
  <2>5. QED
    BY <2>2, <2>3, <2>4 DEF OpsAreInRing
<1>2. QED
  BY <1>1, UringInvariant, PTL

\* forcecloseInLoop and shutdownInLoop, which have captured this, run before
\* their connection is destroyed, and a polite handler's connection is not
\* destroyed under connectionLoop().
THEOREM UringLifetimes == Spec /\ []Fits => []NoUseAfterFree
<1>1. IInv => NoUseAfterFree
  BY DEF IInv, Types, NoUseAfterFree
<1>2. QED
  BY <1>1, UringInvariant, PTL

\* queueInLoop() is not missed: a loop that waits in poll() with a functor
\* queued has its eventfd readable and the poll of it in the ring.
THEOREM UringWakeups == Spec /\ []Fits => []NoLostWakeup
<1>1. IInv => NoLostWakeup
  <2> SUFFICES ASSUME IInv, NEW l \in Loops, lp[l] = "wait", queue[l] # <<>>
               PROVE  \/ wakeupFd[l] /\ Wakeup \in ring[l].kernel
                      \/ \E i \in DOMAIN ring[l].cq : ring[l].cq[i].op = Wakeup
                      \/ Wakeup \in ring[l].sq \cup ring[l].refused
    BY DEF NoLostWakeup
  <2>1. wakeupFd[l] /\ ring[l].active = <<>>
    BY DEF IInv, Woken, Passes
  <2>2. Once(ring[l], Wakeup)
    <3>1. Wakeup \in Awaited /\ Waits(l, Wakeup)
      BY Names DEF Waits, Awaited
    <3>2. QED
      BY <3>1 DEF IInv, RingsKnow, Has
  <2>3. ~OneIn(ring[l].active, Wakeup)
    BY <2>1 DEF OneIn
  <2>4. QED
    BY <2>1, <2>2, <2>3 DEF Once, OneIn
<1>2. QED
  BY <1>1, UringInvariant, PTL

=============================================================================
