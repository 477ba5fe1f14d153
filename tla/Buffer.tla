-------------------------------- MODULE Buffer -------------------------------
(***************************************************************************)
(* net/Buffer.h and net/Buffer.cpp: the input and the output buffer of a   *)
(* connection.  The methods are functions on the record of a Buffer, since *)
(* shrink() works on two of them:                                          *)
(*   buf      buffer_; buf[i + 1] is buffer_[i]                            *)
(*   reader   readerIndex_            writer   writerIndex_                *)
(*   failed   the asserts that did not hold, by line of Buffer.h           *)
(* The actions are what a user may call: an argument the code asserts      *)
(* about its caller is a guard.                                            *)
(***************************************************************************)
EXTENDS Integers, Sequences

CONSTANTS Bytes, Zero,      \* the values of a char, and the one of a new one
          Data,             \* the strings of bytes users write
          Lens,             \* the lengths users ask for
          MaxReadable,      \* bound: users keep no more bytes in the buffer
          kCheapPrepend, kInitialSize,
          kExtraBuf         \* sizeof(extrabuf) of readFd

ASSUME BufferAssumption ==
    /\ Zero \in Bytes /\ Data \subseteq Seq(Bytes) /\ Lens \subseteq Nat
    /\ MaxReadable \in Nat
    /\ kCheapPrepend \in Nat /\ kInitialSize \in Nat /\ kExtraBuf \in Nat

VARIABLES b,
          call,  \* the last call, as a ByteQueue has it
          peak   \* the most the buffer was asked to hold since shrink()

vars == <<b, call, peak>>

Assert_(condition, label) == IF condition THEN {} ELSE {label}
max(m, n) == IF m > n THEN m ELSE n

\* Buffer(initialSize).
NewBuffer == [buf |-> [i \in 1 .. kCheapPrepend + kInitialSize |-> Zero],
              reader |-> kCheapPrepend, writer |-> kCheapPrepend,
              failed |-> {}]

readableBytes(x) == x.writer - x.reader
writableBytes(x) == Len(x.buf) - x.writer
prependableBytes(x) == x.reader

\* The bytes from peek() to beginWrite().
readable(x) == [i \in 1 .. readableBytes(x) |-> x.buf[x.reader + i]]

\* std::copy of the bytes d to s, from index at on.
copied(s, at, d) ==
    [i \in 1 .. Len(s) |-> IF i \in at + 1 .. at + Len(d) THEN d[i - at]
                                                          ELSE s[i]]

\* buffer_.resize(n), which never makes it shorter.
resized(s, n) == [i \in 1 .. n |-> IF i <= Len(s) THEN s[i] ELSE Zero]

\* Mutant: the space to prepend is counted as space to write.
makeSpaceCountsPrepend(x, len) ==
    IF writableBytes(x) + prependableBytes(x) < len
    THEN [x EXCEPT !.buf = resized(x.buf, x.writer + len)]
    ELSE [x EXCEPT !.buf = copied(x.buf, kCheapPrepend, readable(x)),
                   !.reader = kCheapPrepend,
                   !.writer = kCheapPrepend + readableBytes(x)]

\* Mutant: the vector grows whatever room there is at its front.
makeSpaceGrows(x, len) ==
    [x EXCEPT !.buf = resized(x.buf, x.writer + len)]

makeSpace(x, len) ==
    IF writableBytes(x) + prependableBytes(x) < len + kCheapPrepend
    THEN [x EXCEPT !.buf = resized(x.buf, x.writer + len)]
    ELSE [buf |-> copied(x.buf, kCheapPrepend, readable(x)),
          reader |-> kCheapPrepend,
          writer |-> kCheapPrepend + readableBytes(x),
          failed |-> x.failed
                     \cup Assert_(kCheapPrepend < x.reader, "Buffer.h:178")]

ensureWritableBytes(x, len) ==
    LET y == IF writableBytes(x) < len THEN makeSpace(x, len) ELSE x
    IN  [y EXCEPT !.failed =
            @ \cup Assert_(writableBytes(y) >= len, "Buffer.h:121")]

hasWritten(x, len) ==
    [x EXCEPT !.writer = @ + len,
              !.failed =
                 @ \cup Assert_(len <= writableBytes(x), "Buffer.h:128")]

append(x, d) ==
    LET y == ensureWritableBytes(x, Len(d))
    IN  hasWritten([y EXCEPT !.buf = copied(y.buf, y.writer, d)], Len(d))

retrieveAll(x) == [x EXCEPT !.reader = kCheapPrepend,
                            !.writer = kCheapPrepend]

retrieve(x, len) == IF len < readableBytes(x)
                    THEN [x EXCEPT !.reader = @ + len]
                    ELSE retrieveAll(x)

unwrite(x, len) == [x EXCEPT !.writer = @ - len]

prepend(x, d) ==
    [x EXCEPT !.reader = @ - Len(d),
              !.buf = copied(x.buf, x.reader - Len(d), d)]

shrink(x, reserve) ==
    LET other == ensureWritableBytes(NewBuffer, readableBytes(x) + reserve)
        full == append(other, readable(x))
    IN  [full EXCEPT !.failed = @ \cup x.failed]

\* Mutant: what did not fit is appended from the start of what was read.
readFdSpillsFromStart(x, d) ==
    LET writable == writableBytes(x)
        n == IF Len(d) <= writable THEN Len(d) ELSE writable
        y == [x EXCEPT !.buf = copied(x.buf, x.writer, SubSeq(d, 1, n)),
                       !.writer = @ + n]
    IN  IF n = Len(d) THEN y ELSE append(y, SubSeq(d, 1, Len(d) - n))

\* readFd when readv reads the bytes d: into the writable bytes first, the
\* rest into extrabuf, which is then appended.
readFd(x, d) ==
    LET writable == writableBytes(x)
        n == IF Len(d) <= writable THEN Len(d) ELSE writable
        y == [x EXCEPT !.buf = copied(x.buf, x.writer, SubSeq(d, 1, n)),
                       !.writer = @ + n]
    IN  IF n = Len(d) THEN y ELSE append(y, SubSeq(d, n + 1, Len(d)))

\* The most that readv reads: extrabuf is passed only if it is the larger.
readvSize(x) == writableBytes(x)
                + (IF writableBytes(x) < kExtraBuf THEN kExtraBuf ELSE 0)
-----------------------------------------------------------------------------
None == <<"none", 0>>

Init == b = NewBuffer /\ call = None /\ peak = 0

\* The buffer is asked to hold len more bytes.
Demand(len) == /\ readableBytes(b) + len <= MaxReadable
               /\ peak' = max(peak, readableBytes(b) + len)

Append_(d) == /\ Demand(Len(d))
              /\ b' = append(b, d) /\ call' = <<"write", d>>

EnsureWritableBytes(len) == /\ Demand(len)
                            /\ b' = ensureWritableBytes(b, len)
                            /\ call' = None

\* hasWritten() after the user wrote d at beginWrite().
HasWritten(d) ==
    /\ Len(d) <= writableBytes(b)
    /\ Demand(Len(d))
    /\ b' = hasWritten([b EXCEPT !.buf = copied(b.buf, b.writer, d)], Len(d))
    /\ call' = <<"write", d>>

ReadFd(d) == /\ Len(d) <= readvSize(b)
             /\ Demand(Len(d))
             /\ b' = readFd(b, d) /\ call' = <<"write", d>>

\* retrieve(), retrieveUntil(), retrieveAsString() and the retrieveInts.
Retrieve(len) == /\ len <= readableBytes(b)
                 /\ b' = retrieve(b, len) /\ call' = <<"take", len>>
                 /\ UNCHANGED peak

Unwrite(len) == /\ len <= readableBytes(b)
                /\ b' = unwrite(b, len) /\ call' = <<"takeBack", len>>
                /\ UNCHANGED peak

Prepend(d) == /\ Len(d) <= prependableBytes(b)
              /\ Demand(Len(d))
              /\ b' = prepend(b, d) /\ call' = <<"prepend", d>>

Shrink(reserve) == /\ readableBytes(b) + reserve <= MaxReadable
                   /\ b' = shrink(b, reserve) /\ call' = None
                   /\ peak' = readableBytes(b) + reserve

Next == \/ \E d \in Data : \/ Append_(d) \/ HasWritten(d)
                           \/ ReadFd(d) \/ Prepend(d)
        \/ \E len \in Lens : \/ EnsureWritableBytes(len) \/ Retrieve(len)
                             \/ Unwrite(len) \/ Shrink(len)

Spec == Init /\ [][Next]_vars
-----------------------------------------------------------------------------
(* Properties.                                                             *)

\* The indices stay in order and inside the vector.
TypeOK ==
    /\ b.buf \in Seq(Bytes)
    /\ b.reader \in Nat /\ b.writer \in Nat
    /\ b.reader <= b.writer /\ b.writer <= Len(b.buf)
    /\ peak \in Nat

\* The asserts of makeSpace, ensureWritableBytes and hasWritten hold whatever
\* the history of the indices: there is room when a byte is copied.
AssertsHold == b.failed = {}

\* The vector is never larger than twice what the user asked it to hold,
\* however long reads and writes alternate (makeSpace moves the bytes
\* instead of growing when that is enough).
MemoryBounded == Len(b.buf) <= kCheapPrepend + max(kInitialSize, 2 * peak)

\* Growing, moving, spilling and shrinking change no byte: a Buffer is a
\* queue of bytes.
Abstract == INSTANCE ByteQueue WITH bytes <- readable(b)
ImplementsByteQueue == Abstract!Spec

=============================================================================
