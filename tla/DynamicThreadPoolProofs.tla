----------------------- MODULE DynamicThreadPoolProofs -----------------------
(***************************************************************************)
(* DynamicThreadPool, for every configuration, every number of producers   *)
(* and as many workers, one after the other, as the pool ever spawns:      *)
(* threads_ keeps its limits and misses the workers that have not left by  *)
(* those that tryShrink counted out, and without these stopAll() outlasts  *)
(* the workers.                                                            *)
(*                                                                         *)
(* ThreadLimits is not inductive: a worker may be counted out twice, by    *)
(* tryShrink and when it leaves, so the invariant counts what tryShrink    *)
(* did.  After stopAll() threads_ may pass 0 and stand for anything, so it *)
(* says that no producer is left that could still expand, and k is the     *)
(* number of times threads_ passed 0.                                      *)
(***************************************************************************)
EXTENDS DynamicThreadPool, FiniteSetTheorems, TLAPS

Places == {"none", "take", "wait", "woken", "task", "shrink", "exit",
           "idle", "notify", "expand"}
Gone == {"none", "exit"}

Types ==
    /\ pc \in [Workers \cup Producers -> Places]
    /\ stop_ \in BOOLEAN /\ threads_ \in 0 .. SizeMax - 1 /\ shrunk \in Nat
    /\ IsFiniteSet(Live)

\* stopAll() is called when no producer is in submit().
Stopping ==
    /\ stop_ <=> dtor # "no"
    /\ stop_ => \A p \in Producers : pc[p] = "idle"

\* Before stopAll().
Counted ==
    ~stop_ => /\ threads_ + shrunk = Cardinality(Live)
              /\ minThreads <= threads_ /\ threads_ <= maxThreads

\* At any time, k being how often threads_ passed 0.
Congruent ==
    \E k \in Nat : threads_ + shrunk = Cardinality(Live) + k * SizeMax

Bounded == Cardinality(Live) <= maxThreads + shrunk

\* stopAll() returned.
Finished == (dtor = "done" /\ shrunk = 0) => Live = {}

IInv == Types /\ Stopping /\ Counted /\ Congruent /\ Bounded /\ Finished
-----------------------------------------------------------------------------
(* Arithmetic of size_t.                                                   *)

\* Numbers that differ by a multiple of the modulus.
LEMMA SameModulo ==
    ASSUME NEW a \in Nat, NEW c \in Nat, NEW k \in Int,
           NEW M \in Nat \ {0}, a = c + k * M
    PROVE  a % M = c % M
<1> DEFINE d == (a \div M) - (c \div M) - k
<1>1. /\ a \div M \in Int /\ c \div M \in Int
      /\ a % M \in 0 .. M - 1 /\ c % M \in 0 .. M - 1
  OBVIOUS
<1>2. /\ a = M * (a \div M) + (a % M)
      /\ c = M * (c \div M) + (c % M)
  OBVIOUS
<1>3. d \in Int /\ M * d = (c % M) - (a % M)
  BY <1>1, <1>2
<1>4. d = 0
  <2>1. ~(d >= 1)
    <3>1. ASSUME d >= 1 PROVE M * d >= M
      BY <1>1, <3>1
    <3> QED  BY <1>1, <1>3, <3>1
  <2>2. ~(d <= -1)
    <3>1. ASSUME d <= -1 PROVE M * d <= -M
      BY <1>1, <3>1
    <3> QED  BY <1>1, <1>3, <3>1
  <2> QED  BY <1>3, <2>1, <2>2
<1> QED  BY <1>1, <1>3, <1>4

\* threads_-- passes 0 to the largest size_t.
LEMMA DecrementedIs ==
    ASSUME threads_ \in 0 .. SizeMax - 1
    PROVE  decremented = IF threads_ = 0 THEN SizeMax - 1 ELSE threads_ - 1
<1>0. SizeMax \in Nat \ {0}
  BY ConfigAssumption
<1>1. CASE threads_ = 0
  BY <1>0, <1>1 DEF decremented
<1>2. CASE threads_ # 0
  <2>1. /\ threads_ - 1 \in 0 .. SizeMax - 1
        /\ threads_ + SizeMax - 1 \in Nat
        /\ threads_ + SizeMax - 1 = (threads_ - 1) + 1 * SizeMax
    BY <1>0, <1>2
  <2>2. (threads_ + SizeMax - 1) % SizeMax = (threads_ - 1) % SizeMax
    BY <1>0, <2>1, SameModulo
  <2>3. (threads_ - 1) % SizeMax = threads_ - 1
    BY <1>0, <2>1
  <2> QED  BY <1>2, <2>2, <2>3 DEF decremented
<1> QED  BY <1>1, <1>2
-----------------------------------------------------------------------------
(* How the set of live workers changes.                                    *)

\* A step that starts and ends no worker.
LEMMA LiveKept ==
    ASSUME \A w \in Workers : pc[w] \in Gone <=> pc'[w] \in Gone
    PROVE  Live' = Live
BY DEF Live, Gone

\* spawnOne starts a worker.
LEMMA LiveGrows ==
    ASSUME NEW w \in Workers, pc[w] \in Gone, pc'[w] \notin Gone,
           \A x \in Workers \ {w} : pc[x] \in Gone <=> pc'[x] \in Gone,
           IsFiniteSet(Live)
    PROVE  /\ IsFiniteSet(Live')
           /\ Cardinality(Live') = Cardinality(Live) + 1
<1>1. Live' = Live \cup {w} /\ w \notin Live
  BY DEF Live, Gone
<1> QED  BY <1>1, FS_AddElement

\* A worker leaves workerLoop.
LEMMA LiveShrinks ==
    ASSUME NEW w \in Workers, pc[w] \notin Gone, pc'[w] \in Gone,
           \A x \in Workers \ {w} : pc[x] \in Gone <=> pc'[x] \in Gone,
           IsFiniteSet(Live)
    PROVE  /\ IsFiniteSet(Live')
           /\ Cardinality(Live') = Cardinality(Live) - 1
           /\ Cardinality(Live) >= 1
<1>1. Live' = Live \ {w} /\ w \in Live
  BY DEF Live, Gone
<1> QED  BY <1>1, FS_RemoveElement, FS_CardinalityType, FS_EmptySet
-----------------------------------------------------------------------------
\* The constructor starts initialThreads workers and counts them.
LEMMA InitCounts == Init => IInv
<1> SUFFICES ASSUME Init PROVE IInv
  OBVIOUS
<1>1. PICK S \in SUBSET Workers :
         /\ IsFiniteSet(S) /\ Cardinality(S) = initialThreads
         /\ pc = [t \in Workers \cup Producers |->
                     CASE t \in S -> "take" [] t \in Producers -> "idle"
                       [] OTHER -> "none"]
  BY DEF Init
<1>2. /\ \A w \in S : pc[w] = "take"
      /\ \A w \in Workers \ S : pc[w] = "none"
      /\ \A p \in Producers : pc[p] = "idle"
  BY <1>1, ConfigAssumption
<1>3. Live = S
  BY <1>2 DEF Live
<1>4. pc \in [Workers \cup Producers -> Places]
  BY <1>1, <1>2 DEF Places
<1>5. Types
  <2>1. threads_ \in 0 .. SizeMax - 1 /\ shrunk \in Nat
    BY ConfigAssumption DEF Init
  <2>2. stop_ \in BOOLEAN
    BY DEF Init
  <2> QED  BY <1>1, <1>3, <1>4, <2>1, <2>2 DEF Types
<1>6. Counted /\ Bounded /\ Stopping
  BY <1>1, <1>2, <1>3, ConfigAssumption DEF Init, Counted, Bounded, Stopping
<1>7. Congruent
  <2>1. threads_ + shrunk = Cardinality(Live) + 0 * SizeMax
    BY <1>1, <1>3, ConfigAssumption DEF Init
  <2> QED  BY <2>1 DEF Congruent
<1>8. Finished
  BY DEF Init, Finished
<1> QED  BY <1>5, <1>6, <1>7, <1>8 DEF IInv

\* No thread is counted and none was counted out: no worker is left.
LEMMA NoneLeft ==
    ASSUME Types, Congruent, threads_ = 0, shrunk = 0
    PROVE  Live = {}
<1>1. PICK k \in Nat : threads_ + shrunk = Cardinality(Live) + k * SizeMax
  BY DEF Congruent
<1>2. Cardinality(Live) \in Nat /\ SizeMax \in Nat
  BY ConfigAssumption, FS_CardinalityType DEF Types
<1>3. k * SizeMax >= 0
  BY <1>2
<1>4. Cardinality(Live) = 0
  BY <1>1, <1>2, <1>3
<1> QED  BY <1>4, FS_EmptySet DEF Types

\* A step that changes no count and starts and ends no worker.
LEMMA NothingCounted ==
    ASSUME IInv, pc' \in [Workers \cup Producers -> Places],
           \A w \in Workers : pc[w] \in Gone <=> pc'[w] \in Gone,
           UNCHANGED <<threads_, shrunk>>, Stopping', stop_' \in BOOLEAN,
           stop_ => stop_', dtor' = "done" => dtor = "done" \/ threads_ = 0
    PROVE  IInv'
<1>1. Live' = Live
  BY LiveKept
<1>2. Types'
  BY <1>1 DEF IInv, Types
<1>3. Counted' /\ Bounded' /\ Congruent'
  BY <1>1 DEF IInv, Counted, Bounded, Congruent
<1>4. Finished'
  BY <1>1, NoneLeft DEF IInv, Finished
<1> QED  BY <1>2, <1>3, <1>4 DEF IInv

\* tryShrink counts a worker out that goes on.
LEMMA ShrinkCounts ==
    ASSUME IInv, pc' \in [Workers \cup Producers -> Places],
           \A w \in Workers : pc[w] \in Gone <=> pc'[w] \in Gone,
           threads_ > minThreads, threads_' = decremented,
           shrunk' = shrunk + 1, UNCHANGED stop_, Stopping'
    PROVE  IInv'
<1>1. Live' = Live
  BY LiveKept
<1>2. /\ threads_ \in Nat /\ shrunk \in Nat /\ minThreads \in Nat
      /\ maxThreads \in Nat /\ SizeMax \in Nat
      /\ threads_ \in 0 .. SizeMax - 1 /\ Cardinality(Live) \in Nat
  BY ConfigAssumption, FS_CardinalityType DEF IInv, Types
<1>3. threads_' = threads_ - 1
  BY <1>2, DecrementedIs
<1>4. Types'
  BY <1>1, <1>2, <1>3 DEF IInv, Types
<1>5. threads_' + shrunk' = threads_ + shrunk
  BY <1>2, <1>3
<1>6. Counted'
  BY <1>1, <1>2, <1>3, <1>5 DEF IInv, Counted
<1>7. Bounded'
  BY <1>1, <1>2 DEF IInv, Bounded
<1>8. Congruent'
  BY <1>1, <1>5 DEF IInv, Congruent
<1>9. Finished'
  BY <1>2 DEF Finished
<1> QED  BY <1>4, <1>6, <1>7, <1>8, <1>9 DEF IInv

\* A worker leaves and counts itself out: because it is idle, above
\* minThreads, or because the pool stops.
LEMMA LeaveCounts ==
    ASSUME IInv, NEW w \in Workers, pc[w] = "woken", mayLeave(w),
           pc' = [pc EXCEPT ![w] = "exit"], threads_' = decremented,
           UNCHANGED <<shrunk, stop_, dtor>>
    PROVE  IInv'
<1>1. /\ threads_ \in Nat /\ shrunk \in Nat /\ minThreads \in Nat
      /\ maxThreads \in Nat /\ SizeMax \in Nat
      /\ threads_ \in 0 .. SizeMax - 1 /\ Cardinality(Live) \in Nat
  BY ConfigAssumption, FS_CardinalityType DEF IInv, Types
<1>2. /\ pc' \in [Workers \cup Producers -> Places] /\ pc'[w] = "exit"
      /\ \A x \in Workers \ {w} : pc'[x] = pc[x]
      /\ \A x \in Producers : pc'[x] = pc[x]
  BY ConfigAssumption DEF IInv, Types, Places
<1>3. /\ IsFiniteSet(Live') /\ Cardinality(Live') = Cardinality(Live) - 1
      /\ Cardinality(Live) >= 1
  BY <1>2, LiveShrinks DEF IInv, Types, Gone
<1>4. threads_' = IF threads_ = 0 THEN SizeMax - 1 ELSE threads_ - 1
  BY <1>1, DecrementedIs
<1>5. Types'
  BY <1>1, <1>2, <1>3, <1>4 DEF IInv, Types
<1>6. Stopping'
  BY <1>2 DEF IInv, Stopping
<1>7. Counted'
  BY <1>1, <1>3, <1>4 DEF IInv, Counted, mayLeave
<1>8. Bounded'
  BY <1>1, <1>3 DEF IInv, Bounded
<1>9. Congruent'
  <2>1. PICK k \in Nat : threads_ + shrunk = Cardinality(Live) + k * SizeMax
    BY DEF IInv, Congruent
  <2>2. CASE threads_ # 0
    <3>1. threads_' + shrunk' = Cardinality(Live)' + k * SizeMax
      BY <1>1, <1>3, <1>4, <2>1, <2>2
    <3> QED  BY <3>1 DEF Congruent
  <2>3. CASE threads_ = 0
    <3>1. (k + 1) * SizeMax = k * SizeMax + SizeMax
      BY <1>1
    <3>2. threads_' + shrunk' = Cardinality(Live)' + (k + 1) * SizeMax
      BY <1>1, <1>3, <1>4, <2>1, <2>3, <3>1
    <3> QED  BY <3>2 DEF Congruent
  <2> QED  BY <2>2, <2>3
<1>10. Finished'
  <2>1. w \in Live
    BY DEF Live
  <2> QED  BY <2>1 DEF IInv, Finished
<1> QED  BY <1>5, <1>6, <1>7, <1>8, <1>9, <1>10 DEF IInv

\* spawnOne starts a worker and counts it, below maxThreads, while no
\* destructor runs.
LEMMA SpawnCounts ==
    ASSUME IInv, NEW p \in Producers, pc[p] = "expand", mayExpand,
           NEW w \in Workers, pc[w] = "none",
           pc' = [pc EXCEPT ![p] = "idle", ![w] = "take"],
           threads_' = threads_ + 1, UNCHANGED <<shrunk, stop_, dtor>>
    PROVE  IInv'
<1>1. /\ threads_ \in Nat /\ shrunk \in Nat /\ minThreads \in Nat
      /\ maxThreads \in Nat /\ SizeMax \in Nat /\ maxThreads < SizeMax
      /\ Cardinality(Live) \in Nat
  BY ConfigAssumption, FS_CardinalityType DEF IInv, Types
<1>2. /\ pc' \in [Workers \cup Producers -> Places] /\ pc'[w] = "take"
      /\ \A x \in Workers \ {w} : pc'[x] = pc[x]
  BY ConfigAssumption DEF IInv, Types, Places
<1>3. /\ IsFiniteSet(Live') /\ Cardinality(Live') = Cardinality(Live) + 1
  BY <1>2, LiveGrows DEF IInv, Types, Gone
<1>4. ~stop_
  BY DEF IInv, Stopping
<1>5. Types'
  <2>1. threads_' \in 0 .. SizeMax - 1 /\ shrunk' \in Nat
    BY <1>1 DEF mayExpand
  <2>2. stop_' \in BOOLEAN
    BY DEF IInv, Types
  <2> QED  BY <1>2, <1>3, <2>1, <2>2 DEF Types
<1>6. Stopping'
  BY <1>4 DEF IInv, Stopping
<1>7. Counted' /\ Bounded'
  BY <1>1, <1>3, <1>4 DEF IInv, Counted, Bounded, mayExpand
<1>8. Congruent'
  <2>1. threads_' + shrunk' = Cardinality(Live)' + 0 * SizeMax
    BY <1>1, <1>3, <1>4 DEF IInv, Counted
  <2> QED  BY <2>1 DEF Congruent
<1>9. Finished'
  BY <1>4 DEF IInv, Stopping, Finished
<1> QED  BY <1>5, <1>6, <1>7, <1>8, <1>9 DEF IInv
-----------------------------------------------------------------------------
\* Every step keeps the invariant.
LEMMA StepCounts == IInv /\ [Next]_vars => IInv'
<1> SUFFICES ASSUME IInv, [Next]_vars PROVE IInv'
  OBVIOUS
<1>0. /\ pc \in [Workers \cup Producers -> Places] /\ stop_ \in BOOLEAN
      /\ Workers \cap Producers = {} /\ Stopping
  BY ConfigAssumption DEF IInv, Types
<1>1. CASE StopAll
  BY <1>0, <1>1, NothingCounted DEF StopAll, Stopping
<1>2. CASE StopNotify \/ StopPoll
  BY <1>0, <1>2, NothingCounted DEF StopNotify, StopPoll, allLeft, Stopping
<1>3. ASSUME NEW p \in Producers, NEW v \in Tasks, Submit(p, v)
      PROVE  IInv'
  <2>1. /\ pc' \in [Workers \cup Producers -> Places]
        /\ \A w \in Workers : pc'[w] = pc[w]
    BY <1>0, <1>3 DEF Submit, goto, Places
  <2>2. Stopping'
    BY <1>0, <1>3 DEF Submit, Stopping
  <2> QED  BY <1>0, <1>3, <2>1, <2>2, NothingCounted DEF Submit
<1>4. ASSUME NEW p \in Producers, Notify(p)
      PROVE  IInv'
  <2>1. /\ pc' \in [Workers \cup Producers -> Places]
        /\ \A w \in Workers : pc'[w] = pc[w]
    BY <1>0, <1>4 DEF Notify, goto, Places
  <2>2. Stopping'
    BY <1>0, <1>4 DEF Notify, Stopping
  <2> QED  BY <1>0, <1>4, <2>1, <2>2, NothingCounted DEF Notify
<1>5. ASSUME NEW p \in Producers, TryExpand(p)
      PROVE  IInv'
  <2>1. CASE goto(p, "idle") /\ UNCHANGED threads_
    <3>1. /\ pc' \in [Workers \cup Producers -> Places]
          /\ \A w \in Workers : pc'[w] = pc[w]
      BY <1>0, <2>1 DEF goto, Places
    <3>2. Stopping'
      BY <1>0, <1>5 DEF TryExpand, Stopping
    <3> QED  BY <1>0, <1>5, <2>1, <3>1, <3>2, NothingCounted DEF TryExpand
  <2>2. ASSUME mayExpand, threads_' = threads_ + 1, NEW w \in Workers,
               pc[w] = "none",
               pc' = [pc EXCEPT ![p] = "idle", ![w] = "take"]
        PROVE  IInv'
    BY <1>5, <2>2, SpawnCounts DEF TryExpand
  <2> QED  BY <1>5, <2>1, <2>2 DEF TryExpand
<1>6. ASSUME NEW w \in Workers, Take(w) \/ Wake(w) \/ CallTask(w)
      PROVE  IInv'
  <2>1. /\ pc' \in [Workers \cup Producers -> Places]
        /\ pc[w] \notin Gone /\ pc'[w] \notin Gone
        /\ \A x \in Workers \ {w} : pc'[x] = pc[x]
        /\ \A x \in Producers : pc'[x] = pc[x]
    BY <1>0, <1>6 DEF Take, takeFront, Wake, CallTask, goto, Places, Gone
  <2>2. UNCHANGED <<threads_, shrunk, stop_, dtor>>
    BY <1>6 DEF Take, Wake, CallTask
  <2> QED  BY <1>0, <2>1, <2>2, NothingCounted DEF Stopping
<1>7. ASSUME NEW w \in Workers, Woken(w)
      PROVE  IInv'
  <2>1. CASE mayLeave(w)
    <3>1. threads_' = decremented /\ goto(w, "exit")
      BY <1>7, <2>1 DEF Woken
    <3> QED  BY <1>7, <2>1, <3>1, LeaveCounts DEF Woken, goto
  <2>2. CASE ~mayLeave(w)
    <3>1. /\ goto(w, "task") \/ goto(w, "shrink")
          /\ UNCHANGED <<threads_, shrunk, stop_, dtor>>
      BY <1>7, <2>2 DEF Woken, takeFront
    <3>2. /\ pc' \in [Workers \cup Producers -> Places]
          /\ pc[w] \notin Gone /\ pc'[w] \notin Gone
          /\ \A x \in Workers \ {w} : pc'[x] = pc[x]
          /\ \A x \in Producers : pc'[x] = pc[x]
      BY <1>0, <1>7, <3>1 DEF Woken, goto, Places, Gone
    <3> QED  BY <1>0, <3>1, <3>2, NothingCounted DEF Stopping
  <2> QED  BY <2>1, <2>2
<1>8. ASSUME NEW w \in Workers, TryShrink(w)
      PROVE  IInv'
  <2>1. /\ pc' \in [Workers \cup Producers -> Places]
        /\ pc[w] \notin Gone /\ pc'[w] \notin Gone
        /\ \A x \in Workers \ {w} : pc'[x] = pc[x]
        /\ \A x \in Producers : pc'[x] = pc[x]
    BY <1>0, <1>8 DEF TryShrink, goto, Places, Gone
  <2>2. Stopping' /\ UNCHANGED <<stop_, dtor>>
    BY <1>0, <1>8, <2>1 DEF TryShrink, Stopping
  <2>3. CASE UNCHANGED <<threads_, shrunk>>
    BY <1>0, <2>1, <2>2, <2>3, NothingCounted
  <2>4. CASE /\ threads_ > minThreads /\ threads_' = decremented
             /\ shrunk' = shrunk + 1
    BY <2>1, <2>2, <2>4, ShrinkCounts
  <2> QED  BY <1>8, <2>3, <2>4 DEF TryShrink
<1>9. ASSUME NEW w \in Workers, BecomesIdle(w)
      PROVE  IInv'
  BY <1>0, <1>9, NothingCounted DEF BecomesIdle, Stopping
<1>10. CASE UNCHANGED vars
  BY <1>0, <1>10, NothingCounted DEF vars, Stopping
<1> QED
  BY <1>1, <1>2, <1>3, <1>4, <1>5, <1>6, <1>7, <1>8, <1>9, <1>10
     DEF Next, WorkerStep

\* The limits of the configuration hold, and no worker that has left is
\* counted, however submit(), the workers and stopAll() interleave.
THEOREM LimitsHold == Spec => []ThreadLimits
<1>1. IInv => ThreadLimits
  <2> SUFFICES ASSUME IInv, ~stop_
               PROVE  /\ minThreads <= threads_ /\ threads_ <= maxThreads
                      /\ threads_ <= Cardinality(Live)
    BY DEF ThreadLimits
  <2>1. /\ threads_ + shrunk = Cardinality(Live)
        /\ minThreads <= threads_ /\ threads_ <= maxThreads
    BY DEF IInv, Counted
  <2>2. threads_ \in Nat /\ shrunk \in Nat /\ Cardinality(Live) \in Nat
    BY ConfigAssumption, FS_CardinalityType DEF IInv, Types
  <2> QED  BY <2>1, <2>2
<1> QED  BY <1>1, InitCounts, StepCounts, PTL DEF Spec

\* CountIsExact is false only by what tryShrink counted out (:425): spawnOne
\* and the two exits of workerLoop count right.
THEOREM OnlyTryShrinkMiscounts ==
    Spec => [](shrunk = 0 => CountIsExact)
<1>1. IInv => (shrunk = 0 => CountIsExact)
  <2> SUFFICES ASSUME IInv, shrunk = 0, ~stop_
               PROVE  threads_ = Cardinality(Live)
    BY DEF CountIsExact
  <2>1. threads_ + shrunk = Cardinality(Live)
    BY DEF IInv, Counted
  <2>2. threads_ \in Nat
    BY ConfigAssumption DEF IInv, Types
  <2> QED  BY <2>1, <2>2
<1> QED  BY <1>1, InitCounts, StepCounts, PTL DEF Spec

\* If tryShrink counted no thread out, stopAll() returns after the last worker
\* left workerLoop.
THEOREM StopOutlastsWorkers ==
    Spec => [](dtor = "done" /\ shrunk = 0 => Live = {})
<1>1. IInv => (dtor = "done" /\ shrunk = 0 => Live = {})
  BY DEF IInv, Finished
<1> QED  BY <1>1, InitCounts, StepCounts, PTL DEF Spec

=============================================================================
