----------------------------- MODULE LFMemoryPool ----------------------------
(***************************************************************************)
(* base/LFMemoryPool.h: the free list of each size class, a stack that     *)
(* threads push to and pop from with compare-and-swap on a tagged pointer, *)
(* the caches of the threads in front of it, allocate(), deallocate() and  *)
(* cleanup().                                                              *)
(*                                                                         *)
(* Each access to headPacked is a step, and so is the read of head->next   *)
(* in pop(), which may find a block some other thread has popped and       *)
(* handed to its user: next is then whatever the user wrote there.         *)
(* compare_exchange_weak fails only when the value differs, as on the      *)
(* x86-64 the tagged pointers need.  pop() announces a hazard pointer, but *)
(* nothing of the pool reads it: blocks are freed by cleanup() only, which *)
(* runs alone.                                                             *)
(*                                                                         *)
(* pc of a thread: idle; popLoad, popVerify, popNext, popCas; pushLoad,    *)
(* pushCas.                                                                *)
(***************************************************************************)
EXTENDS Integers, Sequences, FiniteSets

CONSTANTS Threads, Blocks,      \* the threads, and the addresses malloc gives
          Null, Junk,           \* no block, and what users write in a block
          Sizes,                \* the sizes users ask for
          kMinClass, kMaxClass, kCacheCapacity,
          TagSize,              \* 2^16: the tags there are
          MaxOvertakes          \* bound: pops that overtake one pop under way

ASSUME LFPoolAssumption ==
    /\ {Null, Junk} \cap Blocks = {} /\ Null # Junk
    /\ Sizes \subseteq Nat \ {0} /\ kMinClass \in Nat /\ kMaxClass \in Nat
    /\ kMinClass <= kMaxClass
    /\ kCacheCapacity \in Nat \ {0} /\ TagSize \in Nat
    /\ MaxOvertakes \in Nat /\ MaxOvertakes < TagSize

Classes == 0 .. kMaxClass - kMinClass
Raw == -1               \* the block is not allocated from malloc
Large == -2             \* the block is one of malloc's, not of a class

VARIABLES headPacked,   \* of each class: pointer and tag
          next,         \* FreeNode::next, the first word of a block
          caches,       \* ThreadCache: the blocks of each class, last first
          pc, op,       \* where a thread is, and its call: see Idle
          class,        \* what malloc was asked for, of each block
          user,         \* the size the user that has a block asked for, or 0
          freeLists_,   \* the blocks pushed and not popped, top first
          overtaken     \* the pops since this thread's pop loaded the head

poolVars == <<headPacked, next, caches, pc, op, class, user, freeLists_,
          overtaken>>

\* The call of a thread: what it does, for which size, with the packed
\* pointer it has loaded, the next pointer it has read, the block it pushes
\* and how many pops or pushes are left.
Idle == [does |-> "none", size |-> 0, cls |-> 0,
         old |-> [ptr |-> Null, tag |-> 0], nxt |-> Null, node |-> Null,
         left |-> 0]

PoolInit ==
    /\ headPacked = [c \in Classes |-> [ptr |-> Null, tag |-> 0]]
    /\ next = [x \in Blocks |-> Junk]
    /\ caches = [t \in Threads |-> [c \in Classes |-> <<>>]]
    /\ pc = [t \in Threads |-> "idle"]
    /\ op = [t \in Threads |-> Idle]
    /\ class = [x \in Blocks |-> Raw]
    /\ user = [x \in Blocks |-> 0]
    /\ freeLists_ = [c \in Classes |-> <<>>]
    /\ overtaken = [t \in Threads |-> 0]
-----------------------------------------------------------------------------
isLarge(size) == size > 2^kMaxClass

\* The least power of two that holds the size, not below the least class.
sizeClass(size) ==
    LET cls == CHOOSE c \in 0 .. size :
                  2^c >= size /\ \A d \in 0 .. c - 1 : 2^d < size
    IN  (CASE cls < kMinClass -> kMinClass
           [] cls > kMaxClass -> kMaxClass
           [] OTHER -> cls) - kMinClass

blockSize(cls) == 2^(cls + kMinClass)

\* What the doubling in sizeClass() rests on: it reaches every size, and
\* powers of two grow.
ASSUME PowersAssumption ==
    /\ \A c \in 0 .. kMinClass : 2^c <= 2^kMinClass
    /\ \A size \in Sizes : \E c \in 0 .. size :
          2^c >= size /\ \A d \in 0 .. c - 1 : 2^d < size

push_back(s, x) == Append(s, x)
back(s) == s[Len(s)]

pop_back(s) == SubSeq(s, 1, Len(s) - 1)

goto(t, place) == pc' = [pc EXCEPT ![t] = place]

\* The user gets block x, of a size it asked for, and writes to it.
give(x, size) == /\ user' = [user EXCEPT ![x] = size]
                 /\ next' = [next EXCEPT ![x] = Junk]

\* malloc gives a block, or no memory is left and allocate() returns null.
malloc(cls, size) ==
    IF \E x \in Blocks : class[x] = Raw
    THEN \E x \in Blocks : /\ class[x] = Raw
                           /\ class' = [class EXCEPT ![x] = cls]
                           /\ give(x, size)
    ELSE UNCHANGED <<class, user, next>>

\* Thread t returns from its call.
return(t) == goto(t, "idle") /\ op' = [op EXCEPT ![t] = Idle]
-----------------------------------------------------------------------------
(* allocate().                                                             *)

\* A thread of cleanup() is alone.
CleaningUp == \E t \in Threads : op[t].does = "cleanup"

AllocateLarge(t, size) ==
    /\ pc[t] = "idle" /\ ~CleaningUp /\ isLarge(size)
    /\ malloc(Large, size)
    /\ UNCHANGED <<headPacked, caches, pc, op, freeLists_, overtaken>>

\* From the thread's cache ...
AllocateCached(t, size) ==
    /\ pc[t] = "idle" /\ ~CleaningUp /\ ~isLarge(size)
    /\ LET c == sizeClass(size)
           localVec == caches[t][c]
       IN  /\ localVec # <<>>
           /\ give(back(localVec), size)
           /\ caches' = [caches EXCEPT ![t][c] = pop_back(localVec)]
    /\ UNCHANGED <<headPacked, pc, op, class, freeLists_, overtaken>>

\* ... or, when that is empty, from the free list.
Allocate(t, size) ==
    /\ pc[t] = "idle" /\ ~CleaningUp /\ ~isLarge(size)
    /\ caches[t][sizeClass(size)] = <<>>
    /\ op' = [op EXCEPT ![t] = [Idle EXCEPT !.does = "allocate",
                 !.size = size, !.cls = sizeClass(size),
                 !.left = kCacheCapacity]]
    /\ goto(t, "popLoad")
    /\ UNCHANGED <<headPacked, next, caches, class, user, freeLists_,
                   overtaken>>

\* The batch is over, with localVec the cache: its last block is given to the
\* user, or a new one.
EndBatch(t, localVec) ==
    /\ IF localVec # <<>>
       THEN /\ give(back(localVec), op[t].size)
            /\ caches' = [caches EXCEPT ![t][op[t].cls] = pop_back(localVec)]
            /\ UNCHANGED class
       ELSE /\ malloc(op[t].cls, op[t].size)
            /\ UNCHANGED caches
    /\ return(t)

\* cleanup(): the class is empty; the next one, or the end.
EndClass(t) ==
    /\ IF op[t].cls + 1 \in Classes
       THEN /\ op' = [op EXCEPT ![t].cls = @ + 1]
            /\ goto(t, "popLoad")
       ELSE return(t)
    /\ UNCHANGED <<next, caches, class, user>>
-----------------------------------------------------------------------------
(* FreeList::pop().                                                        *)

\* headPacked.load() for the call of thread t.
loaded(t) == headPacked[op[t].cls]

\* The loop starts over with the packed pointer just loaded: pop() returns
\* null when there is no block.
PopFrom(t) ==
    IF loaded(t).ptr = Null
    THEN /\ IF op[t].does = "cleanup" THEN EndClass(t)
                                      ELSE EndBatch(t, caches[t][op[t].cls])
         /\ overtaken' = [overtaken EXCEPT ![t] = 0]
    ELSE /\ op' = [op EXCEPT ![t].old = loaded(t)]
         /\ goto(t, "popVerify")
         /\ overtaken' = [overtaken EXCEPT ![t] = 0]
         /\ UNCHANGED <<next, caches, class, user>>

PopLoad(t) ==
    /\ pc[t] = "popLoad"
    /\ PopFrom(t)
    /\ UNCHANGED <<headPacked, freeLists_>>

\* The head is still the same block, whatever its tag, or the loop goes on.
PopVerify(t) ==
    /\ pc[t] = "popVerify"
    /\ IF op[t].old.ptr = loaded(t).ptr
       THEN /\ goto(t, "popNext")
            /\ UNCHANGED <<op, next, caches, class, user, overtaken>>
       ELSE PopFrom(t)
    /\ UNCHANGED <<headPacked, freeLists_>>

PopNext(t) ==
    /\ pc[t] = "popNext"
    /\ op' = [op EXCEPT ![t].nxt = next[op[t].old.ptr]]
    /\ goto(t, "popCas")
    /\ UNCHANGED <<headPacked, next, caches, class, user, freeLists_,
                   overtaken>>

\* Mutant: the tag stays the same.
popTagSame(tag) == tag

\* The tag of the head after a pop.
popTag(tag) == (tag + 1) % TagSize

\* The block is popped: it goes to the cache, or is freed.
Popped(t) ==
    LET x == op[t].old.ptr
        localVec == push_back(caches[t][op[t].cls], x)
    IN  IF op[t].does = "cleanup"
        THEN /\ class' = [class EXCEPT ![x] = Raw]
             /\ op' = [op EXCEPT ![t].nxt = Null] /\ goto(t, "popLoad")
             /\ UNCHANGED <<next, caches, user>>
        ELSE IF op[t].left = 1
        THEN EndBatch(t, localVec)
        ELSE /\ caches' = [caches EXCEPT ![t][op[t].cls] = localVec]
             /\ op' = [op EXCEPT ![t].left = @ - 1, ![t].nxt = Null]
             /\ goto(t, "popLoad")
             /\ UNCHANGED <<next, class, user>>

\* Threads whose pop is overtaken by one of thread t.
Overtakes(t) == {u \in Threads \ {t} :
                    /\ pc[u] \in {"popVerify", "popNext", "popCas"}
                    /\ op[u].cls = op[t].cls}

PopCas(t) ==
    /\ pc[t] = "popCas"
    /\ op[t].old = loaded(t)
    /\ \A u \in Overtakes(t) : overtaken[u] < MaxOvertakes
    /\ headPacked' = [headPacked EXCEPT ![op[t].cls] =
                         [ptr |-> op[t].nxt, tag |-> popTag(@.tag)]]
    /\ freeLists_' = [freeLists_ EXCEPT ![op[t].cls] = Tail(@)]
    /\ overtaken' = [u \in Threads |-> IF u \in Overtakes(t)
                                       THEN overtaken[u] + 1
                                       ELSE IF u = t THEN 0 ELSE overtaken[u]]
    /\ Popped(t)

\* Mutant: the loop goes on with the packed pointer it had.
PopCasFailsKeepsOld(t) ==
    /\ pc[t] = "popCas"
    /\ op[t].old # loaded(t)
    /\ goto(t, "popNext")
    /\ UNCHANGED <<headPacked, next, caches, op, class, user, freeLists_,
                   overtaken>>

PopCasFails(t) ==
    /\ pc[t] = "popCas"
    /\ op[t].old # loaded(t)
    /\ PopFrom(t)
    /\ UNCHANGED <<headPacked, freeLists_>>
-----------------------------------------------------------------------------
(* deallocate() and FreeList::push().                                      *)

DeallocateLarge(t, x) ==
    /\ pc[t] = "idle" /\ ~CleaningUp
    /\ user[x] # 0 /\ isLarge(user[x])
    /\ user' = [user EXCEPT ![x] = 0]
    /\ class' = [class EXCEPT ![x] = Raw]
    /\ UNCHANGED <<headPacked, next, caches, pc, op, freeLists_, overtaken>>

\* To the thread's cache, half of which goes to the free list when it is full.
Deallocate(t, x) ==
    /\ pc[t] = "idle" /\ ~CleaningUp
    /\ user[x] # 0 /\ ~isLarge(user[x])
    /\ LET c == sizeClass(user[x])
           localVec == push_back(caches[t][c], x)
       IN  /\ caches' = [caches EXCEPT ![t][c] = localVec]
           /\ IF Len(localVec) >= kCacheCapacity * 2
              THEN /\ op' = [op EXCEPT ![t] = [Idle EXCEPT
                                !.does = "deallocate", !.cls = c,
                                !.left = Len(localVec) \div 2]]
                   /\ goto(t, "pushLoad")
              ELSE UNCHANGED <<pc, op>>
    /\ user' = [user EXCEPT ![x] = 0]
    /\ UNCHANGED <<headPacked, next, class, freeLists_, overtaken>>

\* The block that is pushed is linked to the head just loaded.
PushLoad(t) ==
    /\ pc[t] = "pushLoad"
    /\ LET localVec == caches[t][op[t].cls]
           node == back(localVec)
       IN  /\ caches' = [caches EXCEPT ![t][op[t].cls] = pop_back(localVec)]
           /\ op' = [op EXCEPT ![t].node = node, ![t].old = loaded(t)]
           /\ next' = [next EXCEPT ![node] = loaded(t).ptr]
    /\ goto(t, "pushCas")
    /\ UNCHANGED <<headPacked, class, user, freeLists_, overtaken>>

PushCas(t) ==
    /\ pc[t] = "pushCas"
    /\ op[t].old = loaded(t)
    /\ headPacked' = [headPacked EXCEPT ![op[t].cls].ptr = op[t].node]
    /\ freeLists_' = [freeLists_ EXCEPT ![op[t].cls] = <<op[t].node>> \o @]
    /\ IF op[t].left = 1
       THEN return(t)
       ELSE /\ op' = [op EXCEPT ![t].node = Null, ![t].left = @ - 1]
            /\ goto(t, "pushLoad")
    /\ UNCHANGED <<next, caches, class, user, overtaken>>

\* Mutant: the block stays linked to the head that was loaded first.
relinkedNever(t) == next

\* The block is linked to the head loaded by the failed compare-and-swap.
relinked(t) == [next EXCEPT ![op[t].node] = loaded(t).ptr]

PushCasFails(t) ==
    /\ pc[t] = "pushCas"
    /\ op[t].old # loaded(t)
    /\ op' = [op EXCEPT ![t].old = loaded(t)]
    /\ next' = relinked(t)
    /\ UNCHANGED <<headPacked, caches, pc, class, user, freeLists_,
                   overtaken>>

\* cleanup(), when no other thread uses the pool.
Cleanup(t) ==
    /\ \A u \in Threads : pc[u] = "idle"
    /\ op' = [op EXCEPT ![t] = [Idle EXCEPT !.does = "cleanup"]]
    /\ goto(t, "popLoad")
    /\ UNCHANGED <<headPacked, next, caches, class, user, freeLists_,
                   overtaken>>
-----------------------------------------------------------------------------
Step(t) == \/ PopLoad(t) \/ PopVerify(t) \/ PopNext(t)
           \/ PopCas(t) \/ PopCasFails(t)
           \/ PushLoad(t) \/ PushCas(t) \/ PushCasFails(t)

PoolNext == \E t \in Threads :
           \/ Step(t) \/ Cleanup(t)
           \/ \E size \in Sizes : \/ AllocateLarge(t, size)
                                  \/ AllocateCached(t, size)
                                  \/ Allocate(t, size)
           \/ \E x \in Blocks : DeallocateLarge(t, x) \/ Deallocate(t, x)

PoolSpec == PoolInit /\ [][PoolNext]_poolVars

\* Every thread that is in a call is scheduled.
FairSpec == PoolSpec /\ \A t \in Threads : WF_poolVars(Step(t))
-----------------------------------------------------------------------------
(* Properties.                                                             *)

\* Where block x is: with a user, in a cache, in a free list, in a push.
Positions(s, x) == {i \in DOMAIN s : s[i] = x}
WithUser(x) == {<<"user">> : i \in {user[x]} \ {0}}
InPushes(x) == {<<"push", t>> : t \in {u \in Threads : op[u].node = x}}
InCache(x, t) == UNION {{<<"cache", t, c, i>> :
                            i \in Positions(caches[t][c], x)} : c \in Classes}
InCaches(x) == UNION {InCache(x, t) : t \in Threads}
InLists(x) == UNION {{<<"list", c, i>> : i \in Positions(freeLists_[c], x)} :
                        c \in Classes}
Holders(x) == WithUser(x) \cup InPushes(x) \cup InCaches(x) \cup InLists(x)

\* No two users are given the same block and none is lost: a block is held
\* once from malloc() to free(), whatever pops and pushes overtake each other
\* (the tag of the head, "if the address is used again").
BlockHasOneHolder ==
    \A x \in Blocks :
        Cardinality(Holders(x)) = IF class[x] = Raw THEN 0 ELSE 1

\* The words of the blocks link the free list, and nothing of a user's data
\* is ever taken for a link.
ListIsLinked ==
    \A c \in Classes :
        LET s == freeLists_[c] IN
        /\ headPacked[c].ptr = IF s = <<>> THEN Null ELSE s[1]
        /\ \A i \in DOMAIN s :
              next[s[i]] = IF i = Len(s) THEN Null ELSE s[i + 1]

\* A block a user has is as large as it asked for, however often the block
\* went through caches and lists.
BlockIsLargeEnough ==
    \A x \in Blocks :
        user[x] # 0 => \/ class[x] = Large
                       \/ /\ class[x] \in Classes
                          /\ blockSize(class[x]) >= user[x]

\* The three together: what allocate() promises its callers, whatever pops
\* and pushes overtake each other.
PoolIsSound == BlockHasOneHolder /\ ListIsLinked /\ BlockIsLargeEnough

\* The pool is lock-free: while threads are in calls, some call returns,
\* however the threads overtake each other in push() and pop().
Returns(t) == pc[t] # "idle" /\ pc'[t] = "idle"
LockFree ==
    \/ []<>(\A t \in Threads : pc[t] = "idle")
    \/ []<><<\E t \in Threads : Returns(t)>>_poolVars

=============================================================================
