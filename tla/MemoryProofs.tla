---------------------------- MODULE MemoryProofs ----------------------------
(***************************************************************************)
(* The two components that hand out memory.                                *)
(*                                                                         *)
(* Buffer, for every size of the vector, of the head room and of extrabuf  *)
(* and every string users write: the indices stay in order, the asserts of *)
(* Buffer.h hold, the vector stays within twice what it is asked for, and  *)
(* what can be read is a queue of bytes (ByteQueue).                       *)
(*                                                                         *)
(* The methods are functions on records, so each has a lemma about a Sound *)
(* buffer: that it stays Sound and what can be read of it then.  The       *)
(* invariant is Sound(b) and the bound on the vector in terms of peak; the *)
(* bound needs Sound, since only indices that are in order keep makeSpace  *)
(* from growing when it can move.                                          *)
(*                                                                         *)
(* LFMemoryPool, for any threads, blocks, sizes and cache capacity, when   *)
(* fewer pops overtake one pop than there are tags: no block is lost or    *)
(* given to two users, the words of the blocks link the free lists, and a  *)
(* block is as large as its user asked for.  The invariant, PoolInv, says  *)
(* where each block is (Where), and what each thread knows at its place in *)
(* a pop (Pops) and a push (Pushes).                                       *)
(***************************************************************************)
EXTENDS Buffer, LFMemoryPool, SequenceTheorems, FiniteSetTheorems, TLAPS

\* A Buffer whose indices are in order, also after retrieveAll(), and whose
\* asserts held.
Sound(x) ==
    /\ x = [buf |-> x.buf, reader |-> x.reader, writer |-> x.writer,
            failed |-> x.failed]
    /\ x.buf \in Seq(Bytes)
    /\ x.reader \in Nat /\ x.writer \in Nat
    /\ x.reader <= x.writer /\ x.writer <= Len(x.buf)
    /\ kCheapPrepend <= Len(x.buf)
    /\ x.failed = {}

\* The vector, of size n, is within the bound for the demand p.
Within(n, p) == n <= kCheapPrepend + max(kInitialSize, 2 * p)

IInv == Sound(b) /\ peak \in Nat /\ Within(Len(b.buf), peak)
-----------------------------------------------------------------------------
\* std::copy inside the vector changes no length.
LEMMA CopiedIsBytes ==
    ASSUME NEW s \in Seq(Bytes), NEW d \in Seq(Bytes), NEW at \in Nat
    PROVE  copied(s, at, d) \in Seq(Bytes) /\ Len(copied(s, at, d)) = Len(s)
<1>1. \A i \in 1 .. Len(s) :
         (IF i \in at + 1 .. at + Len(d) THEN d[i - at] ELSE s[i]) \in Bytes
  <2> TAKE i \in 1 .. Len(s)
  <2>1. CASE i \in at + 1 .. at + Len(d)
    <3>1. i - at \in 1 .. Len(d)
      BY <2>1
    <3> QED  BY <2>1, <3>1
  <2>2. CASE i \notin at + 1 .. at + Len(d)
    BY <2>2
  <2> QED  BY <2>1, <2>2
<1> QED  BY <1>1 DEF copied

\* buffer_.resize(n) gives a vector of n bytes.
LEMMA ResizedIsBytes ==
    ASSUME NEW s \in Seq(Bytes), NEW n \in Nat
    PROVE  resized(s, n) \in Seq(Bytes) /\ Len(resized(s, n)) = n
<1>1. \A i \in 1 .. n : (IF i <= Len(s) THEN s[i] ELSE Zero) \in Bytes
  BY BufferAssumption
<1> QED  BY <1>1 DEF resized

\* peek() to beginWrite() is a string of bytes.
LEMMA ReadableIsBytes ==
    ASSUME NEW x, Sound(x)
    PROVE  /\ readable(x) \in Seq(Bytes)
           /\ Len(readable(x)) = readableBytes(x)
<1>1. readableBytes(x) \in Nat
  BY DEF Sound, readableBytes
<1>2. \A i \in 1 .. readableBytes(x) : x.buf[x.reader + i] \in Bytes
  BY DEF Sound, readableBytes
<1> QED  BY <1>1, <1>2 DEF readable

\* A string that has the bytes from peek() on is what can be read.
LEMMA ReadableIs ==
    ASSUME NEW x, Sound(x), NEW s \in Seq(Bytes), Len(s) = x.writer - x.reader,
           \A i \in 1 .. Len(s) : x.buf[x.reader + i] = s[i]
    PROVE  readable(x) = s
<1>1. /\ readable(x) \in Seq(Bytes) /\ Len(readable(x)) = Len(s)
      /\ \A i \in 1 .. Len(s) : readable(x)[i] = x.buf[x.reader + i]
  BY ReadableIsBytes DEF readable, readableBytes
<1> QED  BY <1>1, SeqEqual

\* The elements of a concatenation.
LEMMA ConcatIs ==
    ASSUME NEW r \in Seq(Bytes), NEW d \in Seq(Bytes)
    PROVE  /\ r \o d \in Seq(Bytes) /\ Len(r \o d) = Len(r) + Len(d)
           /\ \A i \in 1 .. Len(r) : (r \o d)[i] = r[i]
           /\ \A i \in 1 .. Len(d) : (r \o d)[Len(r) + i] = d[i]
<1>1. /\ r \o d \in Seq(Bytes) /\ Len(r \o d) = Len(r) + Len(d)
      /\ \A i \in 1 .. Len(r) + Len(d) :
            (r \o d)[i] = IF i <= Len(r) THEN r[i] ELSE d[i - Len(r)]
  BY ConcatProperties
<1>2. ASSUME NEW i \in 1 .. Len(r) PROVE (r \o d)[i] = r[i]
  <2>1. i \in 1 .. Len(r) + Len(d) /\ i <= Len(r)
    OBVIOUS
  <2> QED  BY <1>1, <2>1
<1>3. ASSUME NEW i \in 1 .. Len(d) PROVE (r \o d)[Len(r) + i] = d[i]
  <2>1. /\ Len(r) + i \in 1 .. Len(r) + Len(d) /\ ~(Len(r) + i <= Len(r))
        /\ (Len(r) + i) - Len(r) = i
    OBVIOUS
  <2> QED  BY <1>1, <2>1
<1> QED  BY <1>1, <1>2, <1>3

\* Bytes that are appended in two parts.
LEMMA ConcatIsAssociative ==
    ASSUME NEW r \in Seq(Bytes), NEW s \in Seq(Bytes), NEW t \in Seq(Bytes)
    PROVE  (r \o s) \o t = r \o (s \o t)
BY ConcatAssociative

\* What is copied to a place that is in the vector is found there, and the
\* rest is as it was.
LEMMA CopiedIs ==
    ASSUME NEW s \in Seq(Bytes), NEW d \in Seq(Bytes), NEW at \in Nat,
           at + Len(d) <= Len(s)
    PROVE  /\ \A i \in 1 .. Len(d) : copied(s, at, d)[at + i] = d[i]
           /\ \A i \in 1 .. at : copied(s, at, d)[i] = s[i]
           /\ \A i \in at + Len(d) + 1 .. Len(s) : copied(s, at, d)[i] = s[i]
<1>1. \A i \in 1 .. Len(d) : /\ at + i \in 1 .. Len(s)
                             /\ at + i \in at + 1 .. at + Len(d)
                             /\ (at + i) - at = i
  OBVIOUS
<1>2. \A i \in 1 .. at : i \in 1 .. Len(s) /\ i \notin at + 1 .. at + Len(d)
  OBVIOUS
<1>3. \A i \in at + Len(d) + 1 .. Len(s) :
         i \in 1 .. Len(s) /\ i \notin at + 1 .. at + Len(d)
  OBVIOUS
<1> QED  BY <1>1, <1>2, <1>3 DEF copied

\* The constructor's buffer.
LEMMA NewIsSound ==
    /\ Sound(NewBuffer) /\ readableBytes(NewBuffer) = 0
    /\ readable(NewBuffer) = <<>>
    /\ Len(NewBuffer.buf) = kCheapPrepend + kInitialSize
    /\ NewBuffer.reader = kCheapPrepend
<1>1. /\ [i \in 1 .. kCheapPrepend + kInitialSize |-> Zero] \in Seq(Bytes)
      /\ Len([i \in 1 .. kCheapPrepend + kInitialSize |-> Zero])
            = kCheapPrepend + kInitialSize
  BY BufferAssumption
<1>2. Sound(NewBuffer) /\ NewBuffer.writer - NewBuffer.reader = 0
  BY <1>1, BufferAssumption DEF NewBuffer, Sound
<1>3. readable(NewBuffer) = <<>>
  <2>1. /\ <<>> \in Seq(Bytes)
        /\ Len(<<>>) = NewBuffer.writer - NewBuffer.reader
        /\ \A i \in 1 .. Len(<<>>) :
              NewBuffer.buf[NewBuffer.reader + i] = <<>>[i]
    BY <1>2, EmptySeq
  <2> QED  BY <1>2, <2>1, ReadableIs
<1> QED  BY <1>1, <1>2, <1>3, BufferAssumption DEF NewBuffer, readableBytes

\* makeSpace, called when the writable bytes do not suffice, makes room for
\* len bytes, keeps the readable ones, and grows only by what is needed.
LEMMA MakeSpaceIsSound ==
    ASSUME NEW x, Sound(x), NEW len \in Nat, writableBytes(x) < len
    PROVE  LET y == makeSpace(x, len)
           IN  /\ Sound(y)
               /\ writableBytes(y) >= len
               /\ readableBytes(y) = readableBytes(x)
               /\ readable(y) = readable(x)
               /\ \/ Len(y.buf) = Len(x.buf)
                  \/ Len(y.buf) <= kCheapPrepend + readableBytes(x) + 2 * len
<1> DEFINE y == makeSpace(x, len)
<1> USE BufferAssumption
<1>1. CASE writableBytes(x) + prependableBytes(x) < len + kCheapPrepend
  <2>1. y = [x EXCEPT !.buf = resized(x.buf, x.writer + len)]
    BY <1>1 DEF makeSpace
  <2>2. /\ resized(x.buf, x.writer + len) \in Seq(Bytes)
        /\ Len(resized(x.buf, x.writer + len)) = x.writer + len
    <3>1. x.buf \in Seq(Bytes) /\ x.writer + len \in Nat
      BY DEF Sound
    <3> QED  BY <3>1, ResizedIsBytes
  <2> HIDE DEF y
  <2>3. /\ y = [buf |-> y.buf, reader |-> y.reader, writer |-> y.writer,
                failed |-> y.failed]
        /\ y.buf = resized(x.buf, x.writer + len)
        /\ y.reader = x.reader /\ y.writer = x.writer /\ y.failed = x.failed
    BY <2>1 DEF Sound
  <2>4. Len(y.buf) <= kCheapPrepend + readableBytes(x) + 2 * len
    BY <1>1, <2>2, <2>3 DEF Sound, writableBytes, prependableBytes,
                            readableBytes
  <2>5. Sound(y) /\ writableBytes(y) >= len
                 /\ readableBytes(y) = readableBytes(x)
    BY <2>2, <2>3 DEF Sound, writableBytes, readableBytes
  <2>6. readable(y) = readable(x)
    <3>1. \A i \in 1 .. readableBytes(x) :
             y.buf[y.reader + i] = x.buf[x.reader + i]
      BY <2>3 DEF Sound, readableBytes, resized
    <3> QED  BY <2>5, <3>1 DEF readable
  <2> QED  BY <2>4, <2>5, <2>6 DEF y
<1>2. CASE ~(writableBytes(x) + prependableBytes(x) < len + kCheapPrepend)
  <2> DEFINE moved == copied(x.buf, kCheapPrepend, readable(x))
  <2>1. kCheapPrepend < x.reader
    BY <1>2 DEF Sound, writableBytes, prependableBytes
  <2>2. moved \in Seq(Bytes) /\ Len(moved) = Len(x.buf)
    BY CopiedIsBytes, ReadableIsBytes DEF Sound
  <2>3. Assert_(kCheapPrepend < x.reader, "Buffer.h:178") = {}
    BY <2>1 DEF Assert_
  <2>4. y = [buf |-> moved, reader |-> kCheapPrepend,
             writer |-> kCheapPrepend + readableBytes(x), failed |-> {}]
    BY <1>2, <2>3 DEF makeSpace, Sound
  <2> HIDE DEF y, moved
  <2>5. Sound(y) /\ writableBytes(y) >= len
                 /\ readableBytes(y) = readableBytes(x)
    BY <1>2, <2>1, <2>2, <2>4 DEF Sound, writableBytes, readableBytes,
                                  prependableBytes
  <2>6. Len(y.buf) = Len(x.buf)
    BY <2>2, <2>4
  <2>7. readable(y) = readable(x)
    <3>1. /\ x.buf \in Seq(Bytes) /\ readable(x) \in Seq(Bytes)
          /\ Len(readable(x)) = x.writer - x.reader
          /\ kCheapPrepend + Len(readable(x)) <= Len(x.buf)
      BY <2>1, ReadableIsBytes DEF Sound, readableBytes
    <3>2. \A i \in 1 .. Len(readable(x)) :
             moved[kCheapPrepend + i] = readable(x)[i]
      BY <3>1, CopiedIs DEF moved
    <3>3. /\ y.buf = moved /\ y.reader = kCheapPrepend
          /\ y.writer - y.reader = Len(readable(x))
      BY <2>4, <3>1 DEF Sound, readableBytes
    <3> QED  BY <2>5, <3>1, <3>2, <3>3, ReadableIs
  <2> QED  BY <2>5, <2>6, <2>7 DEF y
<1> QED  BY <1>1, <1>2

\* ensureWritableBytes makes room for len bytes and keeps the readable ones.
LEMMA EnsureIsSound ==
    ASSUME NEW x, Sound(x), NEW len \in Nat
    PROVE  LET y == ensureWritableBytes(x, len)
           IN  /\ Sound(y)
               /\ writableBytes(y) >= len
               /\ readableBytes(y) = readableBytes(x)
               /\ readable(y) = readable(x)
               /\ \/ Len(y.buf) = Len(x.buf)
                  \/ Len(y.buf) <= kCheapPrepend + readableBytes(x) + 2 * len
<1> DEFINE z == IF writableBytes(x) < len THEN makeSpace(x, len) ELSE x
           y == ensureWritableBytes(x, len)
<1>1. writableBytes(x) \in Int
  BY DEF Sound, writableBytes
<1>2. /\ Sound(z) /\ writableBytes(z) >= len
      /\ readableBytes(z) = readableBytes(x)
      /\ readable(z) = readable(x)
      /\ \/ Len(z.buf) = Len(x.buf)
         \/ Len(z.buf) <= kCheapPrepend + readableBytes(x) + 2 * len
  <2>1. CASE writableBytes(x) < len
    BY <2>1, MakeSpaceIsSound
  <2>2. CASE ~(writableBytes(x) < len)
    BY <1>1, <2>2
  <2> QED  BY <2>1, <2>2
<1>3. y = [z EXCEPT !.failed = @ \cup Assert_(writableBytes(z) >= len,
                                              "Buffer.h:121")]
  BY DEF ensureWritableBytes
<1> HIDE DEF z, y
<1>4. Assert_(writableBytes(z) >= len, "Buffer.h:121") = {}
  BY <1>2 DEF Assert_
<1>5. y = z
  BY <1>2, <1>3, <1>4 DEF Sound
<1> QED  BY <1>2, <1>5 DEF y

\* A buffer that has d after the readable bytes of x.
LEMMA FillsReadable ==
    ASSUME NEW x, Sound(x), NEW d \in Seq(Bytes), Len(d) <= writableBytes(x),
           NEW y, Sound(y), y.buf = copied(x.buf, x.writer, d),
           y.reader = x.reader, y.writer = x.writer + Len(d)
    PROVE  readable(y) = readable(x) \o d
<1> DEFINE r == readable(x)
<1>1. /\ r \in Seq(Bytes) /\ Len(r) = x.writer - x.reader
      /\ \A i \in 1 .. Len(r) : r[i] = x.buf[x.reader + i]
  BY ReadableIsBytes DEF readable, readableBytes
<1>2. /\ x.buf \in Seq(Bytes) /\ x.writer \in Nat /\ x.reader \in Nat
      /\ x.reader <= x.writer /\ x.writer + Len(d) <= Len(x.buf)
  BY DEF Sound, writableBytes
<1> HIDE DEF r
<1>3. /\ r \o d \in Seq(Bytes) /\ Len(r \o d) = Len(r) + Len(d)
      /\ \A i \in 1 .. Len(r) : (r \o d)[i] = r[i]
      /\ \A i \in 1 .. Len(d) : (r \o d)[Len(r) + i] = d[i]
  BY <1>1, ConcatIs
<1>4. /\ \A i \in 1 .. Len(d) : y.buf[x.writer + i] = d[i]
      /\ \A i \in 1 .. x.writer : y.buf[i] = x.buf[i]
  BY <1>2, CopiedIs
<1>5. y.reader = x.reader /\ y.writer - y.reader = Len(r \o d)
  BY <1>1, <1>2, <1>3
<1>6. ASSUME NEW i \in 1 .. Len(r \o d)
      PROVE  y.buf[y.reader + i] = (r \o d)[i]
  <2>1. CASE i \in 1 .. Len(r)
    <3>1. x.reader + i \in 1 .. x.writer
      BY <1>1, <1>2, <2>1
    <3> QED  BY <1>1, <1>3, <1>4, <1>5, <2>1, <3>1
  <2>2. CASE i - Len(r) \in 1 .. Len(d)
    <3> DEFINE j == i - Len(r)
    <3>1. x.reader + i = x.writer + j /\ i = Len(r) + j
      BY <1>1, <1>2
    <3> HIDE DEF j
    <3> QED  BY <1>3, <1>4, <1>5, <2>2, <3>1 DEF j
  <2>3. i \in 1 .. Len(r) \/ i - Len(r) \in 1 .. Len(d)
    BY <1>1, <1>3
  <2> QED  BY <2>1, <2>2, <2>3
<1> QED  BY <1>3, <1>5, <1>6, ReadableIs DEF r

\* Copying d to beginWrite() and hasWritten(), when there is room for it.
LEMMA WrittenIsSound ==
    ASSUME NEW x, Sound(x), NEW d \in Seq(Bytes), Len(d) <= writableBytes(x)
    PROVE  LET y == hasWritten([x EXCEPT !.buf = copied(x.buf, x.writer, d)],
                               Len(d))
           IN  /\ Sound(y) /\ Len(y.buf) = Len(x.buf)
               /\ readable(y) = readable(x) \o d
<1> DEFINE z == [x EXCEPT !.buf = copied(x.buf, x.writer, d)]
           y == hasWritten(z, Len(d))
<1>1. /\ copied(x.buf, x.writer, d) \in Seq(Bytes)
      /\ Len(copied(x.buf, x.writer, d)) = Len(x.buf)
  BY CopiedIsBytes DEF Sound
<1>2. /\ Sound(z) /\ z.buf = copied(x.buf, x.writer, d)
      /\ z.writer = x.writer /\ z.reader = x.reader
  BY <1>1 DEF Sound
<1>3. Len(d) \in Nat /\ Len(d) <= writableBytes(z)
  BY <1>1, <1>2 DEF writableBytes
<1>4. Assert_(Len(d) <= writableBytes(z), "Buffer.h:128") = {}
  BY <1>3 DEF Assert_
<1>5. y = [z EXCEPT !.writer = @ + Len(d),
                    !.failed = @ \cup Assert_(Len(d) <= writableBytes(z),
                                              "Buffer.h:128")]
  BY DEF hasWritten
<1> HIDE DEF z, y
<1>6. y = [buf |-> z.buf, reader |-> z.reader, writer |-> z.writer + Len(d),
           failed |-> {}]
  BY <1>2, <1>4, <1>5 DEF Sound
<1>7. Sound(y)
  BY <1>2, <1>3, <1>6 DEF Sound, writableBytes
<1>8. readable(y) = readable(x) \o d
  BY <1>2, <1>6, <1>7, FillsReadable
<1>9. Sound(y) /\ Len(y.buf) = Len(x.buf) /\ readable(y) = readable(x) \o d
  BY <1>1, <1>2, <1>6, <1>7, <1>8
<1> QED  BY <1>9 DEF y, z

\* append.
LEMMA AppendIsSound ==
    ASSUME NEW x, Sound(x), NEW d \in Seq(Bytes)
    PROVE  LET y == append(x, d)
           IN  /\ Sound(y) /\ readable(y) = readable(x) \o d
               /\ \/ Len(y.buf) = Len(x.buf)
                  \/ Len(y.buf) <= kCheapPrepend + readableBytes(x)
                                   + 2 * Len(d)
<1> DEFINE z == ensureWritableBytes(x, Len(d))
<1>1. Len(d) \in Nat
  OBVIOUS
<1>2. /\ Sound(z) /\ writableBytes(z) >= Len(d)
      /\ readable(z) = readable(x)
      /\ \/ Len(z.buf) = Len(x.buf)
         \/ Len(z.buf) <= kCheapPrepend + readableBytes(x) + 2 * Len(d)
  BY <1>1, EnsureIsSound
<1>3. append(x, d) = hasWritten([z EXCEPT !.buf = copied(z.buf, z.writer, d)],
                                Len(d))
  BY DEF append
<1> HIDE DEF z
<1>4. writableBytes(z) \in Int
  BY <1>2 DEF Sound, writableBytes
<1>5. Len(d) <= writableBytes(z)
  BY <1>1, <1>2, <1>4
<1>6. /\ Sound(append(x, d)) /\ Len(append(x, d).buf) = Len(z.buf)
      /\ readable(append(x, d)) = readable(z) \o d
  BY <1>2, <1>3, <1>5, WrittenIsSound
<1> QED  BY <1>2, <1>6

\* readFd, with or without bytes in extrabuf.
LEMMA ReadFdIsSound ==
    ASSUME NEW x, Sound(x), NEW d \in Seq(Bytes)
    PROVE  LET y == readFd(x, d)
           IN  /\ Sound(y) /\ readable(y) = readable(x) \o d
               /\ \/ Len(y.buf) = Len(x.buf)
                  \/ Len(y.buf) <= kCheapPrepend + readableBytes(x)
                                   + 2 * Len(d)
<1> DEFINE n == IF Len(d) <= writableBytes(x) THEN Len(d)
                                              ELSE writableBytes(x)
           filled == copied(x.buf, x.writer, SubSeq(d, 1, n))
           z == [x EXCEPT !.buf = filled, !.writer = @ + n]
           rest == SubSeq(d, n + 1, Len(d))
<1> USE BufferAssumption
<1>1. /\ writableBytes(x) \in Nat /\ Len(d) \in Nat
      /\ readableBytes(x) \in Nat
  BY DEF Sound, writableBytes, readableBytes
<1>2. n \in Nat /\ n <= Len(d) /\ n <= writableBytes(x)
  BY <1>1
<1>3. readFd(x, d) = IF n = Len(d) THEN z ELSE append(z, rest)
  BY DEF readFd
<1> HIDE DEF n
<1>4. SubSeq(d, 1, n) \in Seq(Bytes) /\ Len(SubSeq(d, 1, n)) = n
  BY <1>1, <1>2
<1>5. filled \in Seq(Bytes) /\ Len(filled) = Len(x.buf)
  BY <1>4, CopiedIsBytes DEF Sound
<1> HIDE DEF filled
<1>6. /\ Sound(z) /\ Len(z.buf) = Len(x.buf)
      /\ readableBytes(z) = readableBytes(x) + n
      /\ readable(z) = readable(x) \o SubSeq(d, 1, n)
  <2>1. DOMAIN x = {"buf", "reader", "writer", "failed"}
    BY DEF Sound
  <2>2. z = [x EXCEPT !.buf = filled, !.writer = x.writer + n]
    OBVIOUS
  <2> HIDE DEF z
  <2>3. z = [buf |-> filled, reader |-> x.reader, writer |-> x.writer + n,
             failed |-> x.failed]
    BY <2>1, <2>2
  <2>4. /\ Sound(z) /\ Len(z.buf) = Len(x.buf)
        /\ readableBytes(z) = readableBytes(x) + n
    BY <1>1, <1>2, <1>5, <2>3 DEF Sound, writableBytes, readableBytes
  <2>5. /\ z.buf = copied(x.buf, x.writer, SubSeq(d, 1, n))
        /\ z.reader = x.reader /\ z.writer = x.writer + n
    BY <2>3 DEF filled
  <2> QED  BY <1>2, <1>4, <2>4, <2>5, FillsReadable
<1>7. rest \in Seq(Bytes) /\ Len(rest) = Len(d) - n
  BY <1>1, <1>2
<1>0. /\ readable(x) \in Seq(Bytes)
      /\ n = Len(d) => SubSeq(d, 1, n) = d
      /\ SubSeq(d, 1, n) \o rest = d
  <2>1. SubSeq(d, 1, Len(d)) = d
    BY SubSeqFull
  <2>2. 1 \in 1 .. Len(d) + 1 /\ n \in 1 - 1 .. Len(d) /\ Len(d) \in n .. Len(d)
    BY <1>1, <1>2
  <2>3. SubSeq(d, 1, n) \o SubSeq(d, n + 1, Len(d)) = SubSeq(d, 1, Len(d))
    BY <2>2, ConcatAdjacentSubSeq
  <2> QED  BY <2>1, <2>3, ReadableIsBytes
<1> HIDE DEF z, rest
<1>8. CASE n = Len(d)
  BY <1>0, <1>3, <1>6, <1>8
<1>9. CASE n # Len(d)
  <2>1. /\ Sound(append(z, rest))
        /\ readable(append(z, rest)) = readable(z) \o rest
        /\ \/ Len(append(z, rest).buf) = Len(z.buf)
           \/ Len(append(z, rest).buf)
                 <= kCheapPrepend + readableBytes(z) + 2 * Len(rest)
    BY <1>6, <1>7, AppendIsSound
  <2>2. Len(append(z, rest).buf) \in Nat
    BY <2>1 DEF Sound
  <2>3. kCheapPrepend + readableBytes(z) + 2 * Len(rest)
           <= kCheapPrepend + readableBytes(x) + 2 * Len(d)
    BY <1>1, <1>2, <1>6, <1>7
  <2>4. /\ kCheapPrepend + readableBytes(z) + 2 * Len(rest) \in Int
        /\ kCheapPrepend + readableBytes(x) + 2 * Len(d) \in Int
    BY <1>1, <1>2, <1>6, <1>7
  <2>5. \/ Len(append(z, rest).buf) = Len(x.buf)
        \/ Len(append(z, rest).buf)
              <= kCheapPrepend + readableBytes(x) + 2 * Len(d)
    BY <1>6, <2>1, <2>2, <2>3, <2>4
  <2>6. readable(z) \o rest = readable(x) \o d
    <3> DEFINE first == SubSeq(d, 1, n)
    <3>1. first \in Seq(Bytes) /\ first \o rest = d
      BY <1>0, <1>4
    <3> HIDE DEF first
    <3>2. (readable(x) \o first) \o rest = readable(x) \o (first \o rest)
      BY <1>0, <1>7, <3>1, ConcatIsAssociative
    <3> QED  BY <1>6, <3>1, <3>2 DEF first
  <2> QED  BY <1>3, <1>9, <2>1, <2>5, <2>6
<1> QED  BY <1>8, <1>9

\* prepend within what its assert allows: d is read first.
LEMMA PrependIsSound ==
    ASSUME NEW x, Sound(x), NEW d \in Seq(Bytes),
           Len(d) <= prependableBytes(x)
    PROVE  /\ Sound(prepend(x, d)) /\ Len(prepend(x, d).buf) = Len(x.buf)
           /\ readable(prepend(x, d)) = d \o readable(x)
<1>1. x.reader - Len(d) \in Nat
  BY DEF Sound, prependableBytes
<1>2. /\ copied(x.buf, x.reader - Len(d), d) \in Seq(Bytes)
      /\ Len(copied(x.buf, x.reader - Len(d), d)) = Len(x.buf)
  BY <1>1, CopiedIsBytes DEF Sound
<1>3. prepend(x, d) = [buf |-> copied(x.buf, x.reader - Len(d), d),
                       reader |-> x.reader - Len(d), writer |-> x.writer,
                       failed |-> x.failed]
  <2>1. prepend(x, d) = [x EXCEPT !.reader = x.reader - Len(d),
                            !.buf = copied(x.buf, x.reader - Len(d), d)]
    BY DEF prepend
  <2>2. DOMAIN x = {"buf", "reader", "writer", "failed"}
    BY DEF Sound
  <2> QED  BY <2>1, <2>2
<1>4. Sound(prepend(x, d))
  BY <1>1, <1>2, <1>3 DEF Sound
<1>5. readable(prepend(x, d)) = d \o readable(x)
  <2> DEFINE y == prepend(x, d)
             r == readable(x)
             at == x.reader - Len(d)
  <2>1. /\ r \in Seq(Bytes) /\ Len(r) = x.writer - x.reader
        /\ \A i \in 1 .. Len(r) : r[i] = x.buf[x.reader + i]
    BY ReadableIsBytes DEF readable, readableBytes
  <2>2. /\ x.buf \in Seq(Bytes) /\ x.writer \in Nat /\ x.reader \in Nat
        /\ x.reader <= x.writer /\ x.writer <= Len(x.buf)
        /\ at \in Nat /\ at + Len(d) = x.reader
    BY <1>1 DEF Sound
  <2>3. Sound(y) /\ y.buf = copied(x.buf, at, d) /\ y.reader = at
                 /\ y.writer = x.writer
    BY <1>3, <1>4
  <2> HIDE DEF y, r, at
  <2>4. /\ d \o r \in Seq(Bytes) /\ Len(d \o r) = Len(d) + Len(r)
        /\ \A i \in 1 .. Len(d) : (d \o r)[i] = d[i]
        /\ \A i \in 1 .. Len(r) : (d \o r)[Len(d) + i] = r[i]
    BY <2>1, ConcatIs
  <2>5. /\ \A i \in 1 .. Len(d) : y.buf[at + i] = d[i]
        /\ \A i \in x.reader + 1 .. Len(x.buf) : y.buf[i] = x.buf[i]
    <3>1. /\ at + Len(d) <= Len(x.buf)
          /\ x.reader + 1 .. Len(x.buf) = at + Len(d) + 1 .. Len(x.buf)
      BY <2>2
    <3>2. /\ \A i \in 1 .. Len(d) : copied(x.buf, at, d)[at + i] = d[i]
          /\ \A i \in at + Len(d) + 1 .. Len(x.buf) :
                copied(x.buf, at, d)[i] = x.buf[i]
      BY <2>2, <3>1, CopiedIs
    <3> QED  BY <2>3, <3>1, <3>2
  <2>6. y.writer - y.reader = Len(d \o r)
    <3>1. /\ Len(d) \in Nat /\ Len(r) \in Nat
          /\ y.writer - y.reader = x.writer - at
      BY <2>1, <2>3
    <3>2. x.writer - at = Len(d) + (x.writer - x.reader)
      BY <2>2, <3>1
    <3> QED  BY <2>1, <2>4, <3>1, <3>2
  <2>7. ASSUME NEW i \in 1 .. Len(d \o r)
        PROVE  y.buf[y.reader + i] = (d \o r)[i]
    <3>1. CASE i \in 1 .. Len(d)
      BY <2>3, <2>4, <2>5, <3>1
    <3>2. CASE i - Len(d) \in 1 .. Len(r)
      <4> DEFINE j == i - Len(d)
      <4>1. /\ at + i = x.reader + j /\ i = Len(d) + j
            /\ x.reader + j \in x.reader + 1 .. Len(x.buf)
        <5>1. /\ Len(d) \in Nat /\ Len(r) \in Nat /\ Len(x.buf) \in Nat
              /\ i \in Int
          BY <2>1, <2>2
        <5>2. at + i = x.reader + j /\ i = Len(d) + j
          BY <2>2, <5>1
        <5>3. j \in Int /\ 1 <= j /\ j <= x.writer - x.reader
          BY <2>1, <3>2, <5>1
        <5>4. x.reader + j \in x.reader + 1 .. Len(x.buf)
          BY <2>2, <5>1, <5>3
        <5> QED  BY <5>2, <5>4
      <4> HIDE DEF j
      <4> QED  BY <2>1, <2>3, <2>4, <2>5, <3>2, <4>1 DEF j
    <3>3. i \in 1 .. Len(d) \/ i - Len(d) \in 1 .. Len(r)
      BY <2>1, <2>4
    <3> QED  BY <3>1, <3>2, <3>3
  <2> QED  BY <2>3, <2>4, <2>6, <2>7, ReadableIs DEF y, r
<1> QED  BY <1>2, <1>3, <1>4, <1>5

\* retrieve within what its assert allows drops the first len bytes.
LEMMA RetrieveIsSound ==
    ASSUME NEW x, Sound(x), NEW len \in Nat, len <= readableBytes(x)
    PROVE  /\ Sound(retrieve(x, len)) /\ retrieve(x, len).buf = x.buf
           /\ readable(retrieve(x, len))
                 = SubSeq(readable(x), len + 1, readableBytes(x))
<1> DEFINE y == retrieve(x, len)
           r == readable(x)
           n == readableBytes(x)
<1>0. /\ r \in Seq(Bytes) /\ Len(r) = n /\ n \in Nat /\ n = x.writer - x.reader
      /\ \A i \in 1 .. n : r[i] = x.buf[x.reader + i]
  BY ReadableIsBytes DEF readable, readableBytes, Sound
<1>1. CASE len < readableBytes(x)
  <2>1. retrieve(x, len) = [buf |-> x.buf, reader |-> x.reader + len,
                            writer |-> x.writer, failed |-> x.failed]
    BY <1>1 DEF Sound, retrieve
  <2>2. Sound(y) /\ y.buf = x.buf /\ y.reader = x.reader + len
                 /\ y.writer = x.writer
    BY <1>1, <2>1 DEF Sound, readableBytes
  <2> HIDE DEF y, r, n
  <2>3. /\ SubSeq(r, len + 1, n) \in Seq(Bytes)
        /\ Len(SubSeq(r, len + 1, n)) = n - len
        /\ \A i \in 1 .. n - len : SubSeq(r, len + 1, n)[i] = r[len + i]
    <3>1. \A i \in len + 1 .. n : r[i] \in Bytes
      BY <1>0
    <3>2. /\ len + 1 \in Int /\ n \in Int /\ len + 1 <= n
          /\ n - (len + 1) + 1 = n - len
          /\ \A i \in 1 .. n - len : (len + 1) + i - 1 = len + i
      BY <1>0, <1>1 DEF n
    <3> QED  BY <3>1, <3>2, SubSeqProperties
  <2>4. ASSUME NEW i \in 1 .. n - len
        PROVE  y.buf[y.reader + i] = SubSeq(r, len + 1, n)[i]
    <3>1. len + i \in 1 .. n /\ y.reader + i = x.reader + (len + i)
      BY <1>0, <2>2 DEF Sound
    <3> QED  BY <1>0, <2>2, <2>3, <3>1
  <2>5. y.writer - y.reader = n - len
    BY <1>0, <2>2 DEF Sound
  <2>6. readable(y) = SubSeq(r, len + 1, n)
    BY <2>2, <2>3, <2>4, <2>5, ReadableIs
  <2> QED  BY <2>2, <2>6 DEF y, r, n
<1>2. CASE ~(len < readableBytes(x))
  <2>1. retrieve(x, len) = [buf |-> x.buf, reader |-> kCheapPrepend,
                            writer |-> kCheapPrepend, failed |-> x.failed]
    BY <1>2 DEF Sound, retrieve, retrieveAll
  <2>2. Sound(y) /\ y.buf = x.buf /\ y.reader = kCheapPrepend
                 /\ y.writer = kCheapPrepend
    BY <2>1, BufferAssumption DEF Sound
  <2> HIDE DEF y, r, n
  <2>3. SubSeq(r, len + 1, n) = <<>>
    BY <1>0, <1>2, SubSeqEmpty DEF n
  <2>4. readable(y) = <<>>
    <3>1. /\ <<>> \in Seq(Bytes) /\ Len(<<>>) = y.writer - y.reader
          /\ \A i \in 1 .. Len(<<>>) : y.buf[y.reader + i] = <<>>[i]
      BY <2>2, BufferAssumption, EmptySeq
    <3> QED  BY <2>2, <3>1, ReadableIs
  <2> QED  BY <2>2, <2>3, <2>4 DEF y, r, n
<1> QED  BY <1>1, <1>2

\* unwrite within what its assert allows drops the last len bytes.
LEMMA UnwriteIsSound ==
    ASSUME NEW x, Sound(x), NEW len \in Nat, len <= readableBytes(x)
    PROVE  /\ Sound(unwrite(x, len)) /\ unwrite(x, len).buf = x.buf
           /\ readable(unwrite(x, len))
                 = SubSeq(readable(x), 1, readableBytes(x) - len)
<1> DEFINE y == unwrite(x, len)
           r == readable(x)
           n == readableBytes(x)
<1>0. x = [buf |-> x.buf, reader |-> x.reader, writer |-> x.writer,
           failed |-> x.failed]
  BY DEF Sound
<1>1. unwrite(x, len) = [buf |-> x.buf, reader |-> x.reader,
                         writer |-> x.writer - len, failed |-> x.failed]
  BY <1>0, SMT DEF unwrite
<1>2. /\ Sound(y) /\ y.buf = x.buf /\ y.reader = x.reader
      /\ y.writer = x.writer - len
  BY <1>1 DEF Sound, readableBytes
<1>3. /\ r \in Seq(Bytes) /\ Len(r) = n /\ n \in Nat /\ n = x.writer - x.reader
      /\ \A i \in 1 .. n : r[i] = x.buf[x.reader + i]
  BY ReadableIsBytes DEF readable, readableBytes, Sound
<1>4. n - len \in Nat /\ y.writer - y.reader = n - len
  BY <1>2, <1>3 DEF Sound
<1> HIDE DEF y, r, n
<1>5. /\ SubSeq(r, 1, n - len) \in Seq(Bytes)
      /\ Len(SubSeq(r, 1, n - len)) = n - len
      /\ \A i \in 1 .. n - len : SubSeq(r, 1, n - len)[i] = r[i]
  BY <1>3, <1>4
<1>6. \A i \in 1 .. n - len : y.buf[y.reader + i] = SubSeq(r, 1, n - len)[i]
  BY <1>2, <1>3, <1>4, <1>5
<1>7. readable(y) = SubSeq(r, 1, n - len)
  BY <1>2, <1>4, <1>5, <1>6, ReadableIs
<1> QED  BY <1>2, <1>7 DEF y, r, n

\* shrink, which copies into a new buffer.
LEMMA ShrinkIsSound ==
    ASSUME NEW x, Sound(x), NEW reserve \in Nat
    PROVE  /\ Sound(shrink(x, reserve))
           /\ readable(shrink(x, reserve)) = readable(x)
           /\ Within(Len(shrink(x, reserve).buf), readableBytes(x) + reserve)
<1> DEFINE r == readableBytes(x)
           other == ensureWritableBytes(NewBuffer, r + reserve)
           full == append(other, readable(x))
<1> USE BufferAssumption
<1>1. r \in Nat
  BY DEF Sound, readableBytes
<1>2. readable(x) \in Seq(Bytes) /\ Len(readable(x)) = r
  BY ReadableIsBytes
<1>3. /\ Sound(other) /\ readableBytes(other) = 0 /\ readable(other) = <<>>
      /\ \/ Len(other.buf) = kCheapPrepend + kInitialSize
         \/ Len(other.buf) <= kCheapPrepend + 2 * (r + reserve)
  <2>1. r + reserve \in Nat
    BY <1>1
  <2>2. /\ Sound(other) /\ readableBytes(other) = readableBytes(NewBuffer)
        /\ readable(other) = readable(NewBuffer)
        /\ \/ Len(other.buf) = Len(NewBuffer.buf)
           \/ Len(other.buf) <= kCheapPrepend + readableBytes(NewBuffer)
                               + 2 * (r + reserve)
    BY <2>1, NewIsSound, EnsureIsSound
  <2> HIDE DEF other, r
  <2> QED  BY <2>1, <2>2, NewIsSound
<1> HIDE DEF other
<1>4. /\ Sound(full) /\ readable(full) = readable(other) \o readable(x)
      /\ \/ Len(full.buf) = Len(other.buf)
         \/ Len(full.buf) <= kCheapPrepend + readableBytes(other) + 2 * r
  BY <1>2, <1>3, AppendIsSound
<1>5. shrink(x, reserve) = [full EXCEPT !.failed = @ \cup x.failed]
  BY DEF shrink, other
<1> HIDE DEF full
<1>6. shrink(x, reserve) = full
  BY <1>4, <1>5 DEF Sound
<1>7. Within(Len(full.buf), r + reserve)
  <2>1. Len(full.buf) \in Nat /\ Len(other.buf) \in Nat
    BY <1>3, <1>4 DEF Sound
  <2> HIDE DEF r
  <2> QED  BY <1>1, <1>3, <1>4, <2>1 DEF Within, max
<1>8. readable(full) = readable(x)
  BY <1>2, <1>3, <1>4, ConcatEmptySeq
<1> QED  BY <1>4, <1>6, <1>7, <1>8
-----------------------------------------------------------------------------
\* A vector of the size it had, or grown as makeSpace does, is within the
\* bound for a demand q that counts the bytes held and the len bytes more.
LEMMA GrowthIsWithin ==
    ASSUME NEW size \in Nat, NEW p \in Nat, Within(size, p),
           NEW q \in Nat, p <= q,
           NEW held \in Nat, NEW len \in Nat, held + len <= q,
           NEW n \in Nat, n = size \/ n <= kCheapPrepend + held + 2 * len
    PROVE  Within(n, q)
BY BufferAssumption DEF Within, max

\* Demand counts what the call asks for.
LEMMA DemandIsWithin ==
    ASSUME IInv, NEW len \in Nat, NEW n \in Nat, Demand(len),
           \/ n = Len(b.buf)
           \/ n <= kCheapPrepend + readableBytes(b) + 2 * len
    PROVE  peak' \in Nat /\ Within(n, peak')
<1>1. readableBytes(b) \in Nat /\ Len(b.buf) \in Nat
  BY DEF IInv, Sound, readableBytes
<1>2. /\ peak \in Nat /\ peak' = max(peak, readableBytes(b) + len)
      /\ Within(Len(b.buf), peak)
  BY DEF IInv, Demand
<1>3. peak' \in Nat /\ peak <= peak' /\ readableBytes(b) + len <= peak'
  BY <1>1, <1>2 DEF max
<1> QED  BY <1>1, <1>2, <1>3, GrowthIsWithin

\* The constructor's buffer has the invariant.
LEMMA InitIsSound == Init => IInv
<1> SUFFICES ASSUME Init PROVE IInv
  OBVIOUS
<1> QED  BY NewIsSound, BufferAssumption DEF Init, IInv, Within, max

\* Every call keeps the invariant.
LEMMA StepIsSound == IInv /\ [Next]_vars => IInv'
<1> SUFFICES ASSUME IInv, [Next]_vars PROVE IInv'
  OBVIOUS
<1>0. /\ Sound(b) /\ peak \in Nat /\ Within(Len(b.buf), peak)
      /\ Data \subseteq Seq(Bytes) /\ Lens \subseteq Nat
  BY BufferAssumption DEF IInv
<1> SUFFICES Sound(b') /\ peak' \in Nat /\ Within(Len(b'.buf), peak')
  BY DEF IInv, Sound, Within
<1>1. ASSUME NEW d \in Data, Append_(d)
      PROVE  Sound(b') /\ peak' \in Nat /\ Within(Len(b'.buf), peak')
  <2>1. d \in Seq(Bytes) /\ Len(d) \in Nat
    BY <1>0
  <2>2. b' = append(b, d) /\ Demand(Len(d))
    BY <1>1 DEF Append_
  <2>3. /\ Sound(b')
        /\ \/ Len(b'.buf) = Len(b.buf)
           \/ Len(b'.buf) <= kCheapPrepend + readableBytes(b) + 2 * Len(d)
    BY <1>0, <2>1, <2>2, AppendIsSound
  <2>4. Len(b'.buf) \in Nat
    BY <2>3 DEF Sound
  <2> QED  BY <2>1, <2>2, <2>3, <2>4, DemandIsWithin
<1>2. ASSUME NEW d \in Data, HasWritten(d)
      PROVE  Sound(b') /\ peak' \in Nat /\ Within(Len(b'.buf), peak')
  <2>1. d \in Seq(Bytes) /\ Len(d) \in Nat
    BY <1>0
  <2>2. /\ b' = hasWritten([b EXCEPT !.buf = copied(b.buf, b.writer, d)],
                           Len(d))
        /\ Demand(Len(d)) /\ Len(d) <= writableBytes(b)
    BY <1>2 DEF HasWritten
  <2>3. Sound(b') /\ Len(b'.buf) = Len(b.buf)
    BY <1>0, <2>1, <2>2, WrittenIsSound
  <2>4. Len(b'.buf) \in Nat
    BY <2>3 DEF Sound
  <2> QED  BY <2>1, <2>2, <2>3, <2>4, DemandIsWithin
<1>3. ASSUME NEW d \in Data, ReadFd(d)
      PROVE  Sound(b') /\ peak' \in Nat /\ Within(Len(b'.buf), peak')
  <2>1. d \in Seq(Bytes) /\ Len(d) \in Nat
    BY <1>0
  <2>2. b' = readFd(b, d) /\ Demand(Len(d))
    BY <1>3 DEF ReadFd
  <2>3. /\ Sound(b')
        /\ \/ Len(b'.buf) = Len(b.buf)
           \/ Len(b'.buf) <= kCheapPrepend + readableBytes(b) + 2 * Len(d)
    BY <1>0, <2>1, <2>2, ReadFdIsSound
  <2>4. Len(b'.buf) \in Nat
    BY <2>3 DEF Sound
  <2> QED  BY <2>1, <2>2, <2>3, <2>4, DemandIsWithin
<1>4. ASSUME NEW d \in Data, Prepend(d)
      PROVE  Sound(b') /\ peak' \in Nat /\ Within(Len(b'.buf), peak')
  <2>1. d \in Seq(Bytes) /\ Len(d) \in Nat
    BY <1>0
  <2>2. b' = prepend(b, d) /\ Demand(Len(d)) /\ Len(d) <= prependableBytes(b)
    BY <1>4 DEF Prepend
  <2>3. Sound(b') /\ Len(b'.buf) = Len(b.buf)
    BY <1>0, <2>1, <2>2, PrependIsSound
  <2>4. Len(b'.buf) \in Nat
    BY <2>3 DEF Sound
  <2> QED  BY <2>1, <2>2, <2>3, <2>4, DemandIsWithin
<1>5. ASSUME NEW len \in Lens, EnsureWritableBytes(len)
      PROVE  Sound(b') /\ peak' \in Nat /\ Within(Len(b'.buf), peak')
  <2>1. len \in Nat
    BY <1>0
  <2>2. b' = ensureWritableBytes(b, len) /\ Demand(len)
    BY <1>5 DEF EnsureWritableBytes
  <2>3. /\ Sound(b')
        /\ \/ Len(b'.buf) = Len(b.buf)
           \/ Len(b'.buf) <= kCheapPrepend + readableBytes(b) + 2 * len
    BY <1>0, <2>1, <2>2, EnsureIsSound
  <2>4. Len(b'.buf) \in Nat
    BY <2>3 DEF Sound
  <2> QED  BY <2>1, <2>2, <2>3, <2>4, DemandIsWithin
<1>6. ASSUME NEW len \in Lens, Retrieve(len)
      PROVE  Sound(b') /\ peak' \in Nat /\ Within(Len(b'.buf), peak')
  BY <1>0, <1>6, RetrieveIsSound DEF Retrieve
<1>7. ASSUME NEW len \in Lens, Unwrite(len)
      PROVE  Sound(b') /\ peak' \in Nat /\ Within(Len(b'.buf), peak')
  BY <1>0, <1>7, UnwriteIsSound DEF Unwrite
<1>8. ASSUME NEW len \in Lens, Shrink(len)
      PROVE  Sound(b') /\ peak' \in Nat /\ Within(Len(b'.buf), peak')
  <2>1. readableBytes(b) \in Nat /\ len \in Nat
    BY <1>0 DEF Sound, readableBytes
  <2> QED  BY <1>0, <1>8, <2>1, ShrinkIsSound DEF Shrink
<1>9. CASE UNCHANGED vars
  BY <1>0, <1>9 DEF vars
<1> QED
  BY <1>1, <1>2, <1>3, <1>4, <1>5, <1>6, <1>7, <1>8, <1>9 DEF Next
-----------------------------------------------------------------------------
\* TypeOK, AssertsHold and MemoryBounded are what IInv says.
LEMMA IInvImplies == IInv => TypeOK /\ AssertsHold /\ MemoryBounded
BY DEF IInv, Sound, Within, TypeOK, AssertsHold, MemoryBounded

\* The indices of a Buffer stay in order and inside the vector, whatever
\* sequence of calls is made.
THEOREM IndicesInOrder == Spec => []TypeOK
BY InitIsSound, StepIsSound, IInvImplies, PTL DEF Spec

\* No assert of Buffer.h about the buffer's own state fails: makeSpace moves
\* bytes only towards the front, and there is room for what is copied.
THEOREM BufferAssertsHold == Spec => []AssertsHold
BY InitIsSound, StepIsSound, IInvImplies, PTL DEF Spec

\* The vector stays within twice what the users asked it to hold.
THEOREM BufferIsBounded == Spec => []MemoryBounded
BY InitIsSound, StepIsSound, IInvImplies, PTL DEF Spec

\* The calls of a user are calls of a ByteQueue: no growing, moving, spilling
\* or shrinking changes, reorders or loses a byte.
THEOREM BufferIsByteQueue == Spec => ImplementsByteQueue
<1>1. Init => Abstract!Init
  BY NewIsSound DEF Init, Abstract!Init, None, Abstract!None
<1>2. IInv /\ [Next]_vars => [Abstract!Next]_<<readable(b), call>>
  <2> SUFFICES ASSUME IInv, [Next]_vars
               PROVE  [Abstract!Next]_<<readable(b), call>>
    OBVIOUS
  <2>0. /\ Sound(b) /\ Data \subseteq Seq(Bytes) /\ Lens \subseteq Nat
        /\ Len(readable(b)) = readableBytes(b) /\ readableBytes(b) \in Nat
    BY BufferAssumption, ReadableIsBytes DEF IInv, Sound, readableBytes
  <2>1. ASSUME NEW d \in Data, Append_(d) \/ HasWritten(d) \/ ReadFd(d)
        PROVE  Abstract!Write(d)
    <3>1. d \in Seq(Bytes)
      BY <2>0
    <3>2. call' = <<"write", d>>
      BY <2>1 DEF Append_, HasWritten, ReadFd
    <3>3. readable(b') = readable(b) \o d
      BY <2>0, <2>1, <3>1, AppendIsSound, WrittenIsSound, ReadFdIsSound
         DEF Append_, HasWritten, ReadFd
    <3> QED  BY <3>2, <3>3 DEF Abstract!Write
  <2>2. ASSUME NEW d \in Data, Prepend(d) PROVE Abstract!Prepend(d)
    <3>1. readable(b') = d \o readable(b)
      BY <2>0, <2>2, PrependIsSound DEF Prepend
    <3> QED  BY <2>2, <3>1 DEF Prepend, Abstract!Prepend
  <2>3. ASSUME NEW len \in Lens, Retrieve(len)
        PROVE  Abstract!Take(len) /\ len \in 0 .. Len(readable(b))
    <3>1. readable(b') = SubSeq(readable(b), len + 1, readableBytes(b))
      BY <2>0, <2>3, RetrieveIsSound DEF Retrieve
    <3> QED  BY <2>0, <2>3, <3>1 DEF Retrieve, Abstract!Take
  <2>4. ASSUME NEW len \in Lens, Unwrite(len)
        PROVE  Abstract!TakeBack(len) /\ len \in 0 .. Len(readable(b))
    <3>1. readable(b') = SubSeq(readable(b), 1, readableBytes(b) - len)
      BY <2>0, <2>4, UnwriteIsSound DEF Unwrite
    <3> QED  BY <2>0, <2>4, <3>1 DEF Unwrite, Abstract!TakeBack
  <2>5. ASSUME NEW len \in Lens, EnsureWritableBytes(len) \/ Shrink(len)
        PROVE  Abstract!Rearrange
    <3>1. readable(b') = readable(b)
      BY <2>0, <2>5, EnsureIsSound, ShrinkIsSound
         DEF EnsureWritableBytes, Shrink
    <3> QED  BY <2>5, <3>1 DEF EnsureWritableBytes, Shrink, Abstract!Rearrange,
                               None, Abstract!None
  <2>6. CASE UNCHANGED vars
    BY <2>6 DEF vars
  <2> QED
    BY <2>1, <2>2, <2>3, <2>4, <2>5, <2>6 DEF Next, Abstract!Next
<1> QED
  BY <1>1, <1>2, InitIsSound, StepIsSound, PTL
     DEF Spec, ImplementsByteQueue, Abstract!Spec


-----------------------------------------------------------------------------
(* LFMemoryPool *)

\* A pointer to a block, a tag, and the word they are packed into.
Pointer == Blocks \cup {Null}
Tags == 0 .. TagSize - 1
Packed == [ptr : Pointer, tag : Tags]
\* What the first word of a block holds: a link, or what its user wrote.
Word == Pointer \cup {Junk}
\* The places inside pop() after the head is loaded, and all the places.
Popping == {"popVerify", "popNext", "popCas"}
Places == {"idle", "popLoad", "pushLoad", "pushCas"} \cup Popping
\* A call of the pool, with what its thread has read so far.
Call == [does : {"none", "allocate", "deallocate", "cleanup"},
         size : Sizes \cup {0}, cls : Classes, old : Packed, nxt : Word,
         node : Pointer, left : Nat]

\* The type invariant of the pool.
PoolTypes ==
    /\ headPacked \in [Classes -> Packed]
    /\ next \in [Blocks -> Word]
    /\ caches \in [Threads -> [Classes -> Seq(Blocks)]]
    /\ pc \in [Threads -> Places]
    /\ op \in [Threads -> Call]
    /\ class \in [Blocks -> Classes \cup {Raw, Large}]
    /\ user \in [Blocks -> Sizes \cup {0}]
    /\ freeLists_ \in [Classes -> Seq(Blocks)]
    /\ overtaken \in [Threads -> 0 .. MaxOvertakes]

\* x is in the sequence s, and s has nothing twice.
Has(s, x) == \E i \in DOMAIN s : s[i] = x
Distinct(s) == \A i, j \in DOMAIN s : s[i] = s[j] => i = j

\* Where a block can be: with malloc, with its user, in the hands of a
\* thread that pushes it, in a thread's cache, in a free list.
Kinds == {"raw", "user", "push", "cache", "list"}
\* at is where each block is, and by the thread that has it there: each
\* block is in exactly one place, once, and a cache and a list hold blocks
\* of their own class.
Placed(at, by) ==
    /\ at \in [Blocks -> Kinds] /\ by \in [Blocks -> Threads \cup {Null}]
    /\ \A x \in Blocks :
          /\ at[x] = "raw" <=> class[x] = Raw
          /\ at[x] = "user" <=> user[x] # 0
          /\ \A t \in Threads : op[t].node = x <=> at[x] = "push" /\ by[x] = t
          /\ \A t \in Threads, c \in Classes :
                Has(caches[t][c], x) <=>
                    at[x] = "cache" /\ by[x] = t /\ class[x] = c
          /\ \A c \in Classes :
                Has(freeLists_[c], x) <=> at[x] = "list" /\ class[x] = c
          /\ at[x] \in {"push", "cache"} => by[x] \in Threads
          /\ at[x] \in {"cache", "list"} => class[x] \in Classes
    /\ \A t \in Threads, c \in Classes : Distinct(caches[t][c])
    /\ \A c \in Classes : Distinct(freeLists_[c])

\* Every block is in one place.
Where == \E at \in [Blocks -> Kinds], by \in [Blocks -> Threads \cup {Null}] :
            Placed(at, by)

\* A user's block has the class of the size that was asked for, so that
\* deallocate(), which is told the size again, finds the class.
Sized == \A x \in Blocks : user[x] # 0 =>
            IF isLarge(user[x]) THEN class[x] = Large
                                ELSE class[x] = sizeClass(user[x])

\* What holds at a thread's place p of its call o.
CallOk(o, p) ==
    /\ p = "idle" => o = Idle
    /\ p # "idle" => o.does # "none"
    /\ o.does = "deallocate" => p \in {"pushLoad", "pushCas"}
    /\ p \in {"pushLoad", "pushCas"} => o.left >= 1
    /\ o.does = "allocate" => /\ o.size \in Sizes /\ ~isLarge(o.size)
                              /\ o.cls = sizeClass(o.size) /\ o.left >= 1
    /\ p # "pushCas" => o.node = Null

\* What a thread inside pop() knows: the tag of the head is the loaded one
\* plus the pops that overtook it, modulo the number of tags.  So an equal
\* tag means that none did, and then the loaded block is still in the list
\* and the link that was read of it is still its link.
PopOk(o, p, head, list, ov, nx) ==
    p \in Popping =>
        /\ o.old.ptr \in Blocks
        /\ \/ head.tag = o.old.tag + ov
           \/ head.tag = o.old.tag + ov - TagSize
        /\ ov = 0 => /\ Has(list, o.old.ptr)
                     /\ p = "popCas" => o.nxt = nx[o.old.ptr]

\* What a thread that pushes knows: its cache has the blocks it is still to
\* push, and the block in its hands is of the class and linked to the head
\* it loaded.
PushOk(o, p, cache, nx, cl) ==
    /\ p = "pushLoad" => Len(cache) >= o.left
    /\ p = "pushCas" => /\ Len(cache) >= o.left - 1
                        /\ o.node \in Blocks /\ nx[o.node] = o.old.ptr
                        /\ cl[o.node] = o.cls

\* The three for every thread.
Calls == \A t \in Threads : CallOk(op[t], pc[t])
Pops == \A t \in Threads :
    PopOk(op[t], pc[t], headPacked[op[t].cls], freeLists_[op[t].cls],
          overtaken[t], next)
Pushes == \A t \in Threads :
    PushOk(op[t], pc[t], caches[t][op[t].cls], next, class)

\* The inductive invariant.
PoolInv ==
    PoolTypes /\ Sized /\ Calls /\ Pops /\ Pushes /\ ListIsLinked /\ Where

-----------------------------------------------------------------------------
\* What push_back of a cache gives.
LEMMA PushBack ==
    ASSUME NEW s \in Seq(Blocks), NEW x \in Blocks
    PROVE  /\ push_back(s, x) \in Seq(Blocks)
           /\ Len(push_back(s, x)) = Len(s) + 1
           /\ push_back(s, x) # <<>>
           /\ \A y : Has(push_back(s, x), y) <=> Has(s, y) \/ y = x
           /\ Distinct(s) /\ ~Has(s, x) => Distinct(push_back(s, x))
           /\ back(push_back(s, x)) = x
           /\ pop_back(push_back(s, x)) = s
<1>1. /\ Append(s, x) \in Seq(Blocks) /\ Len(Append(s, x)) = Len(s) + 1
      /\ Append(s, x)[Len(s) + 1] = x
      /\ \A i \in 1 .. Len(s) : Append(s, x)[i] = s[i]
      /\ DOMAIN s = 1 .. Len(s) /\ DOMAIN Append(s, x) = 1 .. Len(s) + 1
      /\ Len(s) \in Nat
  OBVIOUS
<1>2. \A y : Has(push_back(s, x), y) <=> Has(s, y) \/ y = x
  BY <1>1 DEF push_back, Has
<1>3. Distinct(s) /\ ~Has(s, x) => Distinct(push_back(s, x))
  BY <1>1 DEF push_back, Has, Distinct
<1>4. pop_back(push_back(s, x)) = s
  BY <1>1 DEF push_back, pop_back
<1>5. QED
  BY <1>1, <1>2, <1>3, <1>4 DEF push_back, back

\* What back and pop_back of a cache that is not empty give.
LEMMA PopBack ==
    ASSUME NEW s \in Seq(Blocks), s # <<>>
    PROVE  /\ back(s) \in Blocks /\ Has(s, back(s))
           /\ pop_back(s) \in Seq(Blocks) /\ Len(pop_back(s)) = Len(s) - 1
           /\ Distinct(s) =>
                 /\ Distinct(pop_back(s))
                 /\ \A y : Has(pop_back(s), y) <=> Has(s, y) /\ y # back(s)
<1>1. Len(s) \in Nat \ {0} /\ DOMAIN s = 1 .. Len(s)
  OBVIOUS
<1>2. /\ pop_back(s) \in Seq(Blocks) /\ Len(pop_back(s)) = Len(s) - 1
      /\ DOMAIN pop_back(s) = 1 .. Len(s) - 1
      /\ \A i \in 1 .. Len(s) - 1 : pop_back(s)[i] = s[i]
  BY <1>1 DEF pop_back
<1>3. back(s) \in Blocks /\ Has(s, back(s))
  BY <1>1 DEF back, Has
<1>4. ASSUME Distinct(s) PROVE Distinct(pop_back(s))
  BY <1>1, <1>2, <1>4 DEF Distinct
<1>5. ASSUME Distinct(s), NEW y
      PROVE  Has(pop_back(s), y) <=> Has(s, y) /\ y # back(s)
  <2>1. ASSUME Has(pop_back(s), y) PROVE Has(s, y) /\ y # back(s)
    <3>1. PICK i \in 1 .. Len(s) - 1 : s[i] = y
      BY <1>2, <2>1 DEF Has
    <3>2. i < Len(s) /\ i \in 1 .. Len(s)
      BY <1>1, <3>1
    <3>3. Len(s) \in 1 .. Len(s)
      BY <1>1
    <3>4. QED
      BY <1>1, <1>5, <3>1, <3>2, <3>3 DEF Has, Distinct, back
  <2>2. ASSUME Has(s, y), y # back(s) PROVE Has(pop_back(s), y)
    <3>1. PICK i \in 1 .. Len(s) : s[i] = y
      BY <1>1, <2>2 DEF Has
    <3>2. i \in 1 .. Len(s) - 1
      BY <1>1, <2>2, <3>1 DEF back
    <3>3. QED
      BY <1>2, <3>1, <3>2 DEF Has
  <2>3. QED
    BY <2>1, <2>2
<1>6. QED
  BY <1>2, <1>3, <1>4, <1>5

\* What a pop leaves of a list without repetition.
LEMMA TailOf ==
    ASSUME NEW s \in Seq(Blocks), s # <<>>, Distinct(s)
    PROVE  /\ s[1] \in Blocks /\ Has(s, s[1])
           /\ Tail(s) \in Seq(Blocks) /\ Distinct(Tail(s))
           /\ \A y : Has(Tail(s), y) <=> Has(s, y) /\ y # s[1]
<1>1. Len(s) \in Nat \ {0} /\ DOMAIN s = 1 .. Len(s) /\ 1 \in 1 .. Len(s)
  OBVIOUS
<1>2. /\ Tail(s) \in Seq(Blocks) /\ DOMAIN Tail(s) = 1 .. Len(s) - 1
      /\ \A i \in 1 .. Len(s) - 1 : Tail(s)[i] = s[i + 1]
  BY <1>1
<1>3. s[1] \in Blocks /\ Has(s, s[1])
  BY <1>1 DEF Has
<1>4. Distinct(Tail(s))
  BY <1>1, <1>2 DEF Distinct
<1>5. ASSUME NEW y PROVE Has(Tail(s), y) <=> Has(s, y) /\ y # s[1]
  <2>1. ASSUME Has(Tail(s), y) PROVE Has(s, y) /\ y # s[1]
    <3>1. PICK i \in 1 .. Len(s) - 1 : s[i + 1] = y
      BY <1>2, <2>1 DEF Has
    <3>2. i + 1 # 1 /\ i + 1 \in 1 .. Len(s)
      BY <1>1
    <3>3. QED
      BY <1>1, <3>1, <3>2 DEF Has, Distinct
  <2>2. ASSUME Has(s, y), y # s[1] PROVE Has(Tail(s), y)
    <3>1. PICK i \in 1 .. Len(s) : s[i] = y
      BY <1>1, <2>2 DEF Has
    <3>2. i - 1 \in 1 .. Len(s) - 1 /\ (i - 1) + 1 = i
      BY <1>1, <2>2, <3>1
    <3>3. QED
      BY <1>2, <3>1, <3>2 DEF Has
  <2>3. QED
    BY <2>1, <2>2
<1>6. QED
  BY <1>2, <1>3, <1>4, <1>5

\* What a push makes of a list.
LEMMA Pushed ==
    ASSUME NEW s \in Seq(Blocks), NEW x \in Blocks
    PROVE  /\ <<x>> \o s \in Seq(Blocks)
           /\ \A y : Has(<<x>> \o s, y) <=> Has(s, y) \/ y = x
           /\ Distinct(s) /\ ~Has(s, x) => Distinct(<<x>> \o s)
<1>1. /\ <<x>> \o s \in Seq(Blocks) /\ Len(<<x>> \o s) = Len(s) + 1
      /\ (<<x>> \o s)[1] = x
      /\ \A i \in 1 .. Len(s) : (<<x>> \o s)[i + 1] = s[i]
      /\ \A i \in 2 .. Len(s) + 1 : (<<x>> \o s)[i] = s[i - 1]
      /\ DOMAIN s = 1 .. Len(s) /\ DOMAIN (<<x>> \o s) = 1 .. Len(s) + 1
      /\ Len(s) \in Nat
  OBVIOUS
<1>2. ASSUME NEW y PROVE Has(<<x>> \o s, y) <=> Has(s, y) \/ y = x
  <2>1. ASSUME Has(<<x>> \o s, y), y # x PROVE Has(s, y)
    <3>1. PICK i \in 1 .. Len(s) + 1 : (<<x>> \o s)[i] = y
      BY <1>1, <2>1 DEF Has
    <3>2. i \in 2 .. Len(s) + 1 /\ i - 1 \in 1 .. Len(s)
      BY <1>1, <2>1, <3>1
    <3>3. QED
      BY <1>1, <3>1, <3>2 DEF Has
  <2>2. ASSUME Has(s, y) PROVE Has(<<x>> \o s, y)
    <3>1. PICK i \in 1 .. Len(s) : s[i] = y
      BY <1>1, <2>2 DEF Has
    <3>2. i + 1 \in 1 .. Len(s) + 1
      BY <1>1
    <3>3. QED
      BY <1>1, <3>1, <3>2 DEF Has
  <2>3. ASSUME y = x PROVE Has(<<x>> \o s, y)
    <3>1. 1 \in 1 .. Len(s) + 1
      BY <1>1
    <3>2. QED
      BY <1>1, <2>3, <3>1 DEF Has
  <2>4. QED
    BY <2>1, <2>2, <2>3
<1>3. ASSUME Distinct(s), ~Has(s, x) PROVE Distinct(<<x>> \o s)
  <2> SUFFICES ASSUME NEW i \in 1 .. Len(s) + 1, NEW j \in 1 .. Len(s) + 1,
                      (<<x>> \o s)[i] = (<<x>> \o s)[j]
               PROVE  i = j
    BY <1>1 DEF Distinct
  <2>1. ASSUME NEW k \in 1 .. Len(s) + 1, k # 1
        PROVE  /\ k - 1 \in 1 .. Len(s) /\ (<<x>> \o s)[k] = s[k - 1]
               /\ (<<x>> \o s)[k] # x
    BY <1>1, <1>3, <2>1 DEF Has
  <2>2. CASE i = 1 \/ j = 1
    BY <1>1, <2>1, <2>2
  <2>3. CASE i # 1 /\ j # 1
    BY <1>1, <1>3, <2>1, <2>3 DEF Distinct
  <2>4. QED
    BY <2>2, <2>3
<1>4. QED
  BY <1>1, <1>2, <1>3

\* The class of a size that is not large is one of the pool's, and its blocks
\* are large enough.
LEMMA SizeHasClass ==
    ASSUME NEW size \in Sizes, ~isLarge(size)
    PROVE  sizeClass(size) \in Classes /\ blockSize(sizeClass(size)) >= size
<1> DEFINE cls == CHOOSE c \in 0 .. size :
                     2^c >= size /\ \A d \in 0 .. c - 1 : 2^d < size
<1>1. /\ size \in Nat \ {0} /\ kMinClass \in Nat /\ kMaxClass \in Nat
      /\ kMinClass <= kMaxClass
  BY LFPoolAssumption
<1>2. cls \in 0 .. size /\ 2^cls >= size /\ \A d \in 0 .. cls - 1 : 2^d < size
  BY PowersAssumption
<1>3. ~(size > 2^kMaxClass)
  BY DEF isLarge
<1> HIDE DEF cls
<1>4. sizeClass(size) = (CASE cls < kMinClass -> kMinClass
                           [] cls > kMaxClass -> kMaxClass
                           [] OTHER -> cls) - kMinClass
  BY DEF sizeClass, cls
<1>5. ~(cls > kMaxClass)
  BY <1>1, <1>2, <1>3
<1>6. CASE cls < kMinClass
  <2>1. sizeClass(size) = 0
    BY <1>1, <1>2, <1>4, <1>6
  <2>2. 2^cls <= 2^kMinClass
    BY <1>1, <1>2, <1>6, PowersAssumption
  <2>3. 2^kMinClass >= size
    BY <1>1, <1>2, <2>2
  <2>4. 0 \in 0 .. kMaxClass - kMinClass /\ 0 + kMinClass = kMinClass
    BY <1>1
  <2>5. QED
    BY <2>1, <2>3, <2>4 DEF Classes, blockSize
<1>7. CASE ~(cls < kMinClass)
  <2>1. sizeClass(size) = cls - kMinClass
    BY <1>1, <1>2, <1>4, <1>5, <1>7
  <2>2. /\ cls - kMinClass \in 0 .. kMaxClass - kMinClass
        /\ cls - kMinClass + kMinClass = cls
    BY <1>1, <1>2, <1>5, <1>7
  <2>3. QED
    BY <1>2, <2>1, <2>2 DEF Classes, blockSize
<1>8. QED
  BY <1>6, <1>7

\* popTag() is the next tag, and wraps to 0.
LEMMA TagGrows ==
    ASSUME NEW tag \in Tags
    PROVE  /\ popTag(tag) \in Tags
           /\ popTag(tag) = IF tag + 1 = TagSize THEN 0 ELSE tag + 1
<1>1. TagSize \in Nat /\ TagSize > 0 /\ tag \in Int
  BY LFPoolAssumption DEF Tags
<1>2. CASE tag + 1 = TagSize
  <2>1. (tag + 1) % TagSize = 0
    BY <1>1, <1>2
  <2>2. QED
    BY <1>1, <1>2, <2>1 DEF Tags, popTag
<1>3. CASE tag + 1 # TagSize
  <2>1. tag + 1 \in 0 .. TagSize - 1
    BY <1>1, <1>3 DEF Tags
  <2>2. (tag + 1) % TagSize = tag + 1
    BY <1>1, <2>1
  <2>3. QED
    BY <1>1, <1>3, <2>1, <2>2 DEF Tags, popTag
<1>4. QED
  BY <1>2, <1>3

\* What thread t knows in its call still holds when the head of its class
\* has the same tag, its list has all the blocks it had, and the words of
\* those and of the block it pushes are the same.
LEMMA Undisturbed ==
    ASSUME PoolTypes, Calls, Pops, Pushes, NEW u \in Threads,
           op'[u] = op[u], pc'[u] = pc[u], overtaken'[u] = overtaken[u],
           caches'[u] = caches[u],
           headPacked'[op[u].cls].tag = headPacked[op[u].cls].tag,
           \A x \in Blocks : Has(freeLists_[op[u].cls], x) =>
               Has(freeLists_'[op[u].cls], x) /\ next'[x] = next[x],
           op[u].node \in Blocks => /\ next'[op[u].node] = next[op[u].node]
                                    /\ class'[op[u].node] = class[op[u].node]
    PROVE  /\ CallOk(op'[u], pc'[u])
           /\ PopOk(op'[u], pc'[u], headPacked'[op'[u].cls],
                    freeLists_'[op'[u].cls], overtaken'[u], next')
           /\ PushOk(op'[u], pc'[u], caches'[u][op'[u].cls], next', class')
<1>1. CallOk(op'[u], pc'[u])
  BY DEF Calls
<1>2. PopOk(op'[u], pc'[u], headPacked'[op'[u].cls],
            freeLists_'[op'[u].cls], overtaken'[u], next')
  BY DEF Pops, PopOk
<1>3. PushOk(op'[u], pc'[u], caches'[u][op'[u].cls], next', class')
  BY DEF Pushes, PushOk
<1>4. QED
  BY <1>1, <1>2, <1>3

\* A step of thread t that leaves lists and heads alone and writes to no
\* block but y, which is in no list and in no other thread's push.
Alone(t, y) ==
    /\ UNCHANGED <<headPacked, freeLists_>>
    /\ \A u \in Threads \ {t} :
          /\ op'[u] = op[u] /\ pc'[u] = pc[u] /\ overtaken'[u] = overtaken[u]
          /\ caches'[u] = caches[u]
    /\ \A x \in Blocks \ {y} : /\ next'[x] = next[x] /\ class'[x] = class[x]
                               /\ user'[x] = user[x]

\* The other threads still know what they knew, if the block is in no list
\* and no other thread's hands.
LEMMA AloneKeeps ==
    ASSUME PoolTypes, Calls, Pops, Pushes, ListIsLinked,
           NEW at, NEW by, Placed(at, by), NEW t \in Threads, NEW y,
           Alone(t, y),
           y \in Blocks => at[y] # "list" /\ (at[y] = "push" => by[y] = t)
    PROVE  /\ \A u \in Threads \ {t} :
                 /\ CallOk(op'[u], pc'[u])
                 /\ PopOk(op'[u], pc'[u], headPacked'[op'[u].cls],
                          freeLists_'[op'[u].cls], overtaken'[u], next')
                 /\ PushOk(op'[u], pc'[u], caches'[u][op'[u].cls], next',
                           class')
           /\ ListIsLinked'
<1>1. ASSUME NEW u \in Threads, u # t
      PROVE  /\ CallOk(op'[u], pc'[u])
             /\ PopOk(op'[u], pc'[u], headPacked'[op'[u].cls],
                      freeLists_'[op'[u].cls], overtaken'[u], next')
             /\ PushOk(op'[u], pc'[u], caches'[u][op'[u].cls], next', class')
  <2>1. op[u].cls \in Classes
    BY DEF PoolTypes, Call
  <2>2. \A x \in Blocks : Has(freeLists_[op[u].cls], x) =>
            Has(freeLists_'[op[u].cls], x) /\ next'[x] = next[x]
    BY <2>1 DEF Alone, Placed
  <2>3. op[u].node \in Blocks => op[u].node # y
    BY <1>1 DEF Placed
  <2>4. QED
    BY <1>1, <2>2, <2>3, Undisturbed DEF Alone
<1>2. ListIsLinked'
  <2> SUFFICES ASSUME NEW c \in Classes
               PROVE  LET s == freeLists_[c] IN
                      /\ headPacked[c].ptr = IF s = <<>> THEN Null ELSE s[1]
                      /\ \A i \in DOMAIN s :
                            next'[s[i]] = IF i = Len(s) THEN Null ELSE s[i + 1]
    BY DEF Alone, ListIsLinked
  <2>1. ASSUME NEW i \in DOMAIN freeLists_[c]
        PROVE  next'[freeLists_[c][i]] = next[freeLists_[c][i]]
    <3>1. freeLists_[c][i] \in Blocks /\ Has(freeLists_[c], freeLists_[c][i])
      BY DEF PoolTypes, Has
    <3>2. QED
      BY <3>1 DEF Placed, Alone
  <2>2. QED
    BY <2>1 DEF ListIsLinked
<1>3. QED
  BY <1>1, <1>2


\* g is f but for one thread's cache of one class.
Replaces(g, f, t, c, s) == g = [f EXCEPT ![t][c] = s]

\* What is in the caches then.
Replaced(g, f, t, c, s) ==
    /\ g[t][c] = s
    /\ \A u \in Threads, d \in Classes : u # t \/ d # c => g[u][d] = f[u][d]
    /\ \A u \in Threads : u # t => g[u] = f[u]
    /\ g \in [Threads -> [Classes -> Seq(Blocks)]]

\* One of the caches is replaced.
LEMMA CacheSet ==
    ASSUME NEW f \in [Threads -> [Classes -> Seq(Blocks)]], NEW t \in Threads,
           NEW c \in Classes, NEW s \in Seq(Blocks), NEW g,
           Replaces(g, f, t, c, s)
    PROVE  Replaced(g, f, t, c, s)
<1>1. f[t] \in [Classes -> Seq(Blocks)]
  OBVIOUS
<1>2. PICK h \in [Classes -> Seq(Blocks)] : h = [f[t] EXCEPT ![c] = s]
  BY <1>1
<1>3. g = [f EXCEPT ![t] = h]
  BY <1>2 DEF Replaces
<1>4. h[c] = s /\ \A d \in Classes : d # c => h[d] = f[t][d]
  BY <1>1, <1>2
<1>5. /\ g[t] = h /\ \A u \in Threads : u # t => g[u] = f[u]
      /\ g \in [Threads -> [Classes -> Seq(Blocks)]]
  BY <1>3
<1>6. QED
  BY <1>4, <1>5 DEF Replaced

\* Thread t is not in the middle of a pop or a push after the step, and the
\* calls of the others are where they were.
Calm(t) ==
    /\ op' \in [Threads -> Call] /\ pc' \in [Threads -> Places]
    /\ overtaken' \in [Threads -> 0 .. MaxOvertakes]
    /\ \A u \in Threads \ {t} :
          op'[u] = op[u] /\ pc'[u] = pc[u] /\ overtaken'[u] = overtaken[u]
    /\ pc'[t] \in {"idle", "popLoad"} /\ CallOk(op'[t], pc'[t])

\* Such a thread satisfies its part of the invariant.
LEMMA CalmIsOk ==
    ASSUME NEW t \in Threads, Calm(t)
    PROVE  /\ CallOk(op'[t], pc'[t])
           /\ PopOk(op'[t], pc'[t], headPacked'[op'[t].cls],
                    freeLists_'[op'[t].cls], overtaken'[t], next')
           /\ PushOk(op'[t], pc'[t], caches'[t][op'[t].cls], next', class')
           /\ op'[t].node = Null
  BY DEF Calm, CallOk, PopOk, PushOk, Popping

\* Null and Junk are not blocks.
LEMMA NullIsNoBlock == Null \notin Blocks /\ Junk \notin Blocks
  BY LFPoolAssumption

\* Only the call of thread t changes.
LEMMA CallKeeps ==
    ASSUME PoolInv, NEW t \in Threads, Calm(t), op[t].node = Null,
           UNCHANGED <<headPacked, next, caches, class, user, freeLists_>>
    PROVE  PoolInv'
<1>1. PICK at \in [Blocks -> Kinds], by \in [Blocks -> Threads \cup {Null}] :
         Placed(at, by)
  BY DEF PoolInv, Where
<1>2. Alone(t, Null)
  BY DEF Alone, Calm
<1>3. /\ \A u \in Threads \ {t} :
            /\ CallOk(op'[u], pc'[u])
            /\ PopOk(op'[u], pc'[u], headPacked'[op'[u].cls],
                     freeLists_'[op'[u].cls], overtaken'[u], next')
            /\ PushOk(op'[u], pc'[u], caches'[u][op'[u].cls], next', class')
      /\ ListIsLinked'
  BY <1>1, <1>2, AloneKeeps, NullIsNoBlock DEF PoolInv
<1>4. PoolTypes'
  BY DEF PoolInv, PoolTypes, Calm
<1>5. Sized'
  BY DEF PoolInv, Sized
<1>6. \A u \in Threads : op'[u].node = op[u].node
  BY CalmIsOk DEF Calm
<1>7. Where'
  <2>1. Placed(at, by)'
    BY <1>1, <1>6 DEF Placed
  <2>2. QED
    BY <1>1, <2>1 DEF Where
<1>8. QED
  BY <1>3, <1>4, <1>5, <1>7, CalmIsOk DEF PoolInv, Calls, Pops, Pushes

\* malloc() gives a user a block, or none is left.
LEMMA MallocKeeps ==
    ASSUME PoolInv, NEW t \in Threads, Calm(t), op[t].node = Null,
           UNCHANGED <<headPacked, caches, freeLists_>>,
           NEW size \in Sizes, NEW cls,
           IF isLarge(size) THEN cls = Large ELSE cls = sizeClass(size),
           malloc(cls, size)
    PROVE  PoolInv'
<1>1. CASE UNCHANGED <<class, user, next>>
  BY <1>1, CallKeeps
<1>2. CASE \E x \in Blocks : /\ class[x] = Raw
                             /\ class' = [class EXCEPT ![x] = cls]
                             /\ give(x, size)
  <2>1. PICK y \in Blocks : /\ class[y] = Raw
                            /\ class' = [class EXCEPT ![y] = cls]
                            /\ user' = [user EXCEPT ![y] = size]
                            /\ next' = [next EXCEPT ![y] = Junk]
    BY <1>2 DEF give
  <2>2. PICK at \in [Blocks -> Kinds], by \in [Blocks -> Threads \cup {Null}] :
           Placed(at, by)
    BY DEF PoolInv, Where
  <2>3. at[y] = "raw"
    BY <2>1, <2>2 DEF Placed
  <2>4. Alone(t, y)
    BY <2>1 DEF Alone, Calm, PoolInv, PoolTypes
  <2>5. /\ \A u \in Threads \ {t} :
              /\ CallOk(op'[u], pc'[u])
              /\ PopOk(op'[u], pc'[u], headPacked'[op'[u].cls],
                       freeLists_'[op'[u].cls], overtaken'[u], next')
              /\ PushOk(op'[u], pc'[u], caches'[u][op'[u].cls], next', class')
        /\ ListIsLinked'
    BY <2>2, <2>3, <2>4, AloneKeeps DEF PoolInv
  <2>6. cls \in Classes \cup {Large} /\ cls # Raw /\ size # 0
    BY SizeHasClass, LFPoolAssumption DEF Classes, Raw, Large
  <2>7. PoolTypes'
    BY <2>1, <2>6 DEF PoolInv, PoolTypes, Calm, Word
  <2>8. Sized'
    BY <2>1 DEF PoolInv, PoolTypes, Sized
  <2>9. \A u \in Threads : op'[u].node = op[u].node
    BY CalmIsOk DEF Calm
  <2>10. Where'
    <3> DEFINE now == [at EXCEPT ![y] = "user"]
    <3>1. now \in [Blocks -> Kinds] /\ now[y] = "user"
          /\ \A x \in Blocks \ {y} : now[x] = at[x]
      BY DEF Kinds
    <3>2. class \in [Blocks -> Classes \cup {Raw, Large}]
          /\ user \in [Blocks -> Sizes \cup {0}]
      BY DEF PoolInv, PoolTypes
    <3> HIDE DEF now
    <3>3. Placed(now, by)'
      BY <2>1, <2>2, <2>3, <2>6, <2>9, <3>1, <3>2 DEF Placed
    <3>4. QED
      BY <3>1, <3>3 DEF Where
  <2>11. QED
    BY <2>5, <2>7, <2>8, <2>10, CalmIsOk DEF PoolInv, Calls, Pops, Pushes
<1>3. QED
  BY <1>1, <1>2 DEF malloc

\* The user gets the last block of the thread's cache.
LEMMA GiveKeeps ==
    ASSUME PoolInv, NEW t \in Threads, Calm(t), op[t].node = Null,
           UNCHANGED <<headPacked, class, freeLists_>>,
           NEW size \in Sizes, ~isLarge(size),
           caches[t][sizeClass(size)] # <<>>,
           give(back(caches[t][sizeClass(size)]), size),
           caches' = [caches EXCEPT ![t][sizeClass(size)] =
                         pop_back(caches[t][sizeClass(size)])]
    PROVE  PoolInv'
<1>1. PICK c \in Classes : c = sizeClass(size)
  BY SizeHasClass
<1>2. PICK s \in Seq(Blocks) : s = caches[t][c] /\ s # <<>>
  BY <1>1 DEF PoolInv, PoolTypes
<1>3. PICK y \in Blocks : y = back(s)
  BY <1>2, PopBack
<1>4. /\ user' = [user EXCEPT ![y] = size]
      /\ next' = [next EXCEPT ![y] = Junk]
      /\ Replaces(caches', caches, t, c, pop_back(s))
  BY <1>1, <1>2, <1>3 DEF give, Replaces
<1>5. PICK at \in [Blocks -> Kinds], by \in [Blocks -> Threads \cup {Null}] :
         Placed(at, by)
  BY DEF PoolInv, Where
<1>6. /\ caches \in [Threads -> [Classes -> Seq(Blocks)]]
      /\ class \in [Blocks -> Classes \cup {Raw, Large}]
      /\ user \in [Blocks -> Sizes \cup {0}] /\ next \in [Blocks -> Word]
  BY DEF PoolInv, PoolTypes
<1>7. Distinct(s) /\ Has(s, y)
  BY <1>2, <1>3, <1>5, PopBack DEF Placed
<1>8. at[y] = "cache" /\ by[y] = t /\ class[y] = c
  BY <1>2, <1>5, <1>7 DEF Placed
<1>9. /\ pop_back(s) \in Seq(Blocks) /\ Distinct(pop_back(s))
      /\ \A x : Has(pop_back(s), x) <=> Has(s, x) /\ x # y
  BY <1>2, <1>3, <1>7, PopBack
<1>10. /\ caches'[t][c] = pop_back(s)
       /\ \A u \in Threads, d \in Classes :
             u # t \/ d # c => caches'[u][d] = caches[u][d]
       /\ \A u \in Threads : u # t => caches'[u] = caches[u]
       /\ caches' \in [Threads -> [Classes -> Seq(Blocks)]]
  <2>1. Replaced(caches', caches, t, c, pop_back(s))
    BY <1>4, <1>6, <1>9, CacheSet
  <2>2. QED
    BY <2>1 DEF Replaced
<1>11. Alone(t, y)
  BY <1>4, <1>6, <1>10 DEF Alone, Calm
<1>12. /\ \A u \in Threads \ {t} :
             /\ CallOk(op'[u], pc'[u])
             /\ PopOk(op'[u], pc'[u], headPacked'[op'[u].cls],
                      freeLists_'[op'[u].cls], overtaken'[u], next')
             /\ PushOk(op'[u], pc'[u], caches'[u][op'[u].cls], next', class')
       /\ ListIsLinked'
  BY <1>5, <1>8, <1>11, AloneKeeps DEF PoolInv
<1>13. PoolTypes'
  BY <1>4, <1>10 DEF PoolInv, PoolTypes, Calm, Word
<1>14. Sized'
  BY <1>1, <1>4, <1>6, <1>8 DEF PoolInv, Sized
<1>15. \A u \in Threads : op'[u].node = op[u].node
  BY CalmIsOk DEF Calm
<1>16. Where'
  <2> DEFINE now == [at EXCEPT ![y] = "user"]
  <2>1. now \in [Blocks -> Kinds] /\ now[y] = "user"
        /\ \A x \in Blocks \ {y} : now[x] = at[x]
    BY DEF Kinds
  <2>2. size # 0 /\ class[y] # Raw
    BY <1>8, LFPoolAssumption DEF Classes, Raw
  <2> HIDE DEF now
  <2>3. \A x \in Blocks : \A u \in Threads, d \in Classes :
           Has(caches'[u][d], x) <=>
               now[x] = "cache" /\ by[x] = u /\ class[x] = d
    BY <1>2, <1>5, <1>8, <1>9, <1>10, <2>1 DEF Placed
  <2>4. \A u \in Threads, d \in Classes : Distinct(caches'[u][d])
    BY <1>5, <1>9, <1>10 DEF Placed
  <2>5. \A x \in Blocks :
           /\ now[x] = "raw" <=> class'[x] = Raw
           /\ now[x] = "user" <=> user'[x] # 0
           /\ \A u \in Threads :
                 op'[u].node = x <=> now[x] = "push" /\ by[x] = u
           /\ \A d \in Classes :
                 Has(freeLists_'[d], x) <=> now[x] = "list" /\ class'[x] = d
    <3> TAKE x \in Blocks
    <3>1. now[x] = "raw" <=> class'[x] = Raw
      BY <1>5, <1>8, <2>1, <2>2 DEF Placed
    <3>2. now[x] = "user" <=> user'[x] # 0
      BY <1>4, <1>5, <1>6, <2>1, <2>2 DEF Placed
    <3>3. \A u \in Threads : op'[u].node = x <=> now[x] = "push" /\ by[x] = u
      BY <1>5, <1>8, <1>15, <2>1 DEF Placed
    <3>4. \A d \in Classes :
             Has(freeLists_'[d], x) <=> now[x] = "list" /\ class'[x] = d
      BY <1>5, <1>8, <2>1 DEF Placed
    <3>5. QED
      BY <3>1, <3>2, <3>3, <3>4
  <2>6. Placed(now, by)'
    BY <1>5, <2>1, <2>3, <2>4, <2>5 DEF Placed
  <2>7. QED
    BY <2>1, <2>6 DEF Where
<1>17. QED
  BY <1>12, <1>13, <1>14, <1>16, CalmIsOk DEF PoolInv, Calls, Pops, Pushes


\* The call of an idle thread.
LEMMA IdleIsCall == Idle \in Call /\ CallOk(Idle, "idle") /\ Idle.node = Null
<1>1. 0 \in Classes /\ 0 \in Tags /\ 0 \in Nat
  BY LFPoolAssumption DEF Classes, Tags
<1>2. PICK z \in Nat : z = 0
  OBVIOUS
<1>3. [ptr |-> Null, tag |-> z] \in Packed
  BY <1>1, <1>2 DEF Packed, Pointer
<1>4. Idle \in Call
  BY <1>1, <1>2, <1>3 DEF Idle, Call, Word, Pointer
<1>5. Idle.node = Null /\ Idle.does = "none"
  BY DEF Idle
<1>6. QED
  BY <1>4, <1>5 DEF CallOk

\* Thread t returns.
LEMMA ReturnIsCalm ==
    ASSUME PoolTypes, NEW t \in Threads, return(t),
           overtaken' = overtaken \/ overtaken' = [overtaken EXCEPT ![t] = 0]
    PROVE  Calm(t)
<1>1. /\ op' = [op EXCEPT ![t] = Idle] /\ pc' = [pc EXCEPT ![t] = "idle"]
      /\ op \in [Threads -> Call] /\ pc \in [Threads -> Places]
      /\ overtaken \in [Threads -> 0 .. MaxOvertakes]
      /\ 0 \in 0 .. MaxOvertakes
  BY LFPoolAssumption DEF return, goto, PoolTypes
<1>2. /\ op' \in [Threads -> Call] /\ op'[t] = Idle
      /\ \A u \in Threads \ {t} : op'[u] = op[u]
  BY <1>1, IdleIsCall
<1>3. /\ pc' \in [Threads -> Places] /\ pc'[t] = "idle"
      /\ \A u \in Threads \ {t} : pc'[u] = pc[u]
  BY <1>1 DEF Places
<1>4. /\ overtaken' \in [Threads -> 0 .. MaxOvertakes]
      /\ \A u \in Threads \ {t} : overtaken'[u] = overtaken[u]
  BY <1>1
<1>5. QED
  BY <1>2, <1>3, <1>4, IdleIsCall DEF Calm

\* What is known of a thread that is in pop().
LEMMA InPop ==
    ASSUME PoolTypes, Calls, NEW t \in Threads,
           pc[t] \in {"popLoad"} \cup Popping
    PROVE  /\ op[t].node = Null /\ op[t] \in Call /\ op[t].cls \in Classes
           /\ op[t].does \in {"allocate", "cleanup"}
           /\ op[t].does # "cleanup" =>
                 /\ op[t].size \in Sizes /\ ~isLarge(op[t].size)
                 /\ op[t].cls = sizeClass(op[t].size) /\ op[t].left >= 1
<1>1. pc[t] # "idle" /\ pc[t] # "pushLoad" /\ pc[t] # "pushCas"
  BY DEF Popping
<1>2. op[t] \in Call /\ CallOk(op[t], pc[t])
  BY DEF PoolTypes, Calls
<1>3. /\ op[t].does \in {"none", "allocate", "deallocate", "cleanup"}
      /\ op[t].cls \in Classes
  BY <1>2 DEF Call
<1>4. QED
  BY <1>1, <1>2, <1>3 DEF CallOk

\* The batch ends with an empty list.
LEMMA EndBatchKeeps ==
    ASSUME PoolInv, NEW t \in Threads, pc[t] \in {"popLoad"} \cup Popping,
           op[t].does # "cleanup", EndBatch(t, caches[t][op[t].cls]),
           UNCHANGED <<headPacked, freeLists_>>,
           overtaken' = [overtaken EXCEPT ![t] = 0]
    PROVE  PoolInv'
<1>1. PoolTypes /\ Calls
  BY DEF PoolInv
<1>2. Calm(t)
  BY <1>1, ReturnIsCalm DEF EndBatch
<1>3. /\ op[t].node = Null /\ op[t].size \in Sizes /\ ~isLarge(op[t].size)
      /\ op[t].cls = sizeClass(op[t].size)
  BY <1>1, InPop
<1>4. CASE caches[t][op[t].cls] # <<>>
  BY <1>2, <1>3, <1>4, GiveKeeps DEF EndBatch
<1>5. CASE caches[t][op[t].cls] = <<>>
  BY <1>2, <1>3, <1>5, MallocKeeps DEF EndBatch
<1>6. QED
  BY <1>4, <1>5

\* cleanup() turns to the next class or returns.
LEMMA EndClassKeeps ==
    ASSUME PoolInv, NEW t \in Threads, pc[t] \in {"popLoad"} \cup Popping,
           op[t].does = "cleanup", EndClass(t),
           UNCHANGED <<headPacked, freeLists_>>,
           overtaken' = [overtaken EXCEPT ![t] = 0]
    PROVE  PoolInv'
<1>1. PoolTypes /\ Calls
  BY DEF PoolInv
<1>2. op[t].node = Null /\ op[t] \in Call
  BY <1>1, InPop
<1>3. CASE return(t)
  BY <1>1, <1>2, <1>3, ReturnIsCalm, CallKeeps DEF EndClass
<1>4. CASE ~return(t)
  <2>1. PICK c \in Classes : c = op[t].cls + 1
    BY <1>4 DEF EndClass
  <2>2. PICK o \in Call : o = [op[t] EXCEPT !.cls = c]
    BY <1>2 DEF Call
  <2>3. op' = [op EXCEPT ![t] = o] /\ pc' = [pc EXCEPT ![t] = "popLoad"]
    BY <1>4, <2>1, <2>2 DEF EndClass, goto
  <2>4. CallOk(o, "popLoad")
    BY <1>2, <2>2 DEF CallOk, Call
  <2>5. 0 \in 0 .. MaxOvertakes /\ "popLoad" \in Places
    BY LFPoolAssumption DEF Places
  <2>6. Calm(t)
    BY <1>1, <2>2, <2>3, <2>4, <2>5 DEF Calm, PoolTypes
  <2>7. QED
    BY <1>2, <2>6, CallKeeps DEF EndClass
<1>5. QED
  BY <1>3, <1>4

\* The call of thread t is o at place p after the step; nothing else changes.
LEMMA OwnStep ==
    ASSUME PoolInv, NEW t \in Threads, NEW o \in Call, NEW p \in Places,
           op' = [op EXCEPT ![t] = o], pc' = [pc EXCEPT ![t] = p],
           NEW ov \in 0 .. MaxOvertakes,
           overtaken' = [overtaken EXCEPT ![t] = ov],
           o.node = op[t].node, CallOk(o, p),
           PopOk(o, p, headPacked[o.cls], freeLists_[o.cls], ov, next),
           PushOk(o, p, caches[t][o.cls], next, class),
           UNCHANGED <<headPacked, next, caches, class, user, freeLists_>>
    PROVE  PoolInv'
<1>1. PICK at \in [Blocks -> Kinds], by \in [Blocks -> Threads \cup {Null}] :
         Placed(at, by)
  BY DEF PoolInv, Where
<1>2. /\ op'[t] = o /\ pc'[t] = p /\ overtaken'[t] = ov
      /\ \A u \in Threads \ {t} :
            op'[u] = op[u] /\ pc'[u] = pc[u] /\ overtaken'[u] = overtaken[u]
  BY DEF PoolInv, PoolTypes
<1>3. Alone(t, Null)
  BY <1>2 DEF Alone
<1>4. /\ \A u \in Threads \ {t} :
            /\ CallOk(op'[u], pc'[u])
            /\ PopOk(op'[u], pc'[u], headPacked'[op'[u].cls],
                     freeLists_'[op'[u].cls], overtaken'[u], next')
            /\ PushOk(op'[u], pc'[u], caches'[u][op'[u].cls], next', class')
      /\ ListIsLinked'
  BY <1>1, <1>3, AloneKeeps, NullIsNoBlock DEF PoolInv
<1>5. PoolTypes'
  BY DEF PoolInv, PoolTypes
<1>6. Sized'
  BY DEF PoolInv, Sized
<1>7. \A u \in Threads : op'[u].node = op[u].node
  BY <1>2
<1>8. Where'
  <2>1. Placed(at, by)'
    BY <1>1, <1>7 DEF Placed
  <2>2. QED
    BY <1>1, <2>1 DEF Where
<1>9. ASSUME NEW u \in Threads
      PROVE  /\ CallOk(op'[u], pc'[u])
             /\ PopOk(op'[u], pc'[u], headPacked'[op'[u].cls],
                      freeLists_'[op'[u].cls], overtaken'[u], next')
             /\ PushOk(op'[u], pc'[u], caches'[u][op'[u].cls], next', class')
  <2>1. CASE u = t
    BY <1>2, <2>1
  <2>2. CASE u # t
    BY <1>4, <2>2
  <2>3. QED
    BY <2>1, <2>2
<1>10. QED
  BY <1>4, <1>5, <1>6, <1>8, <1>9 DEF PoolInv, Calls, Pops, Pushes


\* The head of a list that has a block is the list's first.
LEMMA HeadIsFirst ==
    ASSUME PoolTypes, ListIsLinked, NEW c \in Classes
    PROVE  /\ headPacked[c] \in Packed /\ headPacked[c].tag \in Tags
           /\ headPacked[c].ptr # Null =>
                 /\ headPacked[c].ptr \in Blocks
                 /\ freeLists_[c] # <<>>
                 /\ headPacked[c].ptr = freeLists_[c][1]
                 /\ Has(freeLists_[c], headPacked[c].ptr)
<1>1. headPacked[c] \in Packed /\ freeLists_[c] \in Seq(Blocks)
  BY DEF PoolTypes
<1>2. headPacked[c].ptr \in Pointer /\ headPacked[c].tag \in Tags
  BY <1>1 DEF Packed
<1>3. headPacked[c].ptr = IF freeLists_[c] = <<>> THEN Null
                                                  ELSE freeLists_[c][1]
  BY DEF ListIsLinked
<1>4. freeLists_[c] # <<>> => 1 \in DOMAIN freeLists_[c]
  BY <1>1
<1>5. QED
  BY <1>1, <1>2, <1>3, <1>4 DEF Pointer, Has

\* The loop of pop() starts over.
LEMMA PopFromKeeps ==
    ASSUME PoolInv, NEW t \in Threads, pc[t] \in {"popLoad"} \cup Popping,
           PopFrom(t), UNCHANGED <<headPacked, freeLists_>>
    PROVE  PoolInv'
<1>1. PoolTypes /\ Calls /\ ListIsLinked
  BY DEF PoolInv
<1>2. CASE loaded(t).ptr = Null
  BY <1>2, EndBatchKeeps, EndClassKeeps DEF PopFrom
<1>3. CASE loaded(t).ptr # Null
  <2>1. /\ op[t].node = Null /\ op[t] \in Call /\ op[t].cls \in Classes
        /\ CallOk(op[t], pc[t])
    BY <1>1, InPop DEF Calls
  <2>2. /\ op' = [op EXCEPT ![t].old = loaded(t)]
        /\ pc' = [pc EXCEPT ![t] = "popVerify"]
        /\ overtaken' = [overtaken EXCEPT ![t] = 0]
        /\ UNCHANGED <<next, caches, class, user>>
    BY <1>3 DEF PopFrom, goto
  <2>3. /\ loaded(t) \in Packed /\ loaded(t).tag \in Tags
        /\ loaded(t).ptr \in Blocks
        /\ Has(freeLists_[op[t].cls], loaded(t).ptr)
    BY <1>1, <1>3, <2>1, HeadIsFirst DEF loaded
  <2>4. PICK o \in Call : o = [op[t] EXCEPT !.old = loaded(t)]
    BY <2>1, <2>3 DEF Call
  <2>5. /\ o.old = loaded(t) /\ o.node = Null /\ o.cls = op[t].cls
        /\ o.does = op[t].does /\ o.size = op[t].size /\ o.left = op[t].left
    BY <2>1, <2>4 DEF Call
  <2>6. CallOk(o, "popVerify")
    BY <2>1, <2>5, InPop, <1>1 DEF CallOk
  <2>7. 0 \in 0 .. MaxOvertakes /\ "popVerify" \in Places
    BY LFPoolAssumption DEF Places, Popping
  <2>8. PopOk(o, "popVerify", headPacked[o.cls], freeLists_[o.cls], 0, next)
    <3>1. loaded(t).tag + 0 = loaded(t).tag
      BY <2>3 DEF Tags
    <3>2. QED
      BY <2>3, <2>5, <3>1 DEF PopOk, loaded
  <2>9. PushOk(o, "popVerify", caches[t][o.cls], next, class)
    BY DEF PushOk
  <2>10. op' = [op EXCEPT ![t] = o]
    BY <2>2, <2>4
  <2>11. QED
    BY <2>1, <2>2, <2>4, <2>5, <2>6, <2>7, <2>8, <2>9, <2>10, OwnStep
<1>4. QED
  BY <1>2, <1>3

\* pop() loads the head.
LEMMA PopLoadKeeps ==
    ASSUME PoolInv, NEW t \in Threads, PopLoad(t)
    PROVE  PoolInv'
  BY PopFromKeeps DEF PopLoad

\* A compare-and-swap of pop() that fails loads the head again.
LEMMA PopCasFailsKeeps ==
    ASSUME PoolInv, NEW t \in Threads, PopCasFails(t)
    PROVE  PoolInv'
  BY PopFromKeeps DEF PopCasFails, Popping

\* pop() loads the head a second time, and starts again if it has changed.
LEMMA PopVerifyKeeps ==
    ASSUME PoolInv, NEW t \in Threads, PopVerify(t)
    PROVE  PoolInv'
<1>1. pc[t] \in Popping /\ pc[t] = "popVerify"
  BY DEF PopVerify, Popping
<1>2. CASE op[t].old.ptr # loaded(t).ptr
  BY <1>1, <1>2, PopFromKeeps DEF PopVerify
<1>3. CASE op[t].old.ptr = loaded(t).ptr
  <2>1. /\ pc' = [pc EXCEPT ![t] = "popNext"]
        /\ UNCHANGED <<op, next, caches, class, user, overtaken, headPacked,
                       freeLists_>>
    BY <1>3 DEF PopVerify, goto
  <2>2. /\ op[t] \in Call /\ CallOk(op[t], "popVerify")
        /\ overtaken[t] \in 0 .. MaxOvertakes
        /\ op' = [op EXCEPT ![t] = op[t]]
        /\ overtaken' = [overtaken EXCEPT ![t] = overtaken[t]]
    BY <1>1, <2>1 DEF PoolInv, PoolTypes, Calls
  <2>3. CallOk(op[t], "popNext") /\ "popNext" \in Places
    BY <2>2 DEF CallOk, Places, Popping
  <2>4. PopOk(op[t], "popNext", headPacked[op[t].cls], freeLists_[op[t].cls],
              overtaken[t], next)
    BY <1>1 DEF PoolInv, Pops, PopOk
  <2>5. PushOk(op[t], "popNext", caches[t][op[t].cls], next, class)
    BY DEF PushOk
  <2>6. QED
    BY <2>1, <2>2, <2>3, <2>4, <2>5, OwnStep
<1>4. QED
  BY <1>2, <1>3

\* pop() reads the link of the block it loaded: the block's own as long as
\* no other pop has overtaken, anything otherwise.
LEMMA PopNextKeeps ==
    ASSUME PoolInv, NEW t \in Threads, PopNext(t)
    PROVE  PoolInv'
<1>1. pc[t] \in Popping /\ pc[t] = "popNext"
  BY DEF PopNext, Popping
<1>2. PopOk(op[t], "popNext", headPacked[op[t].cls], freeLists_[op[t].cls],
            overtaken[t], next)
  BY <1>1 DEF PoolInv, Pops
<1>3. op[t].old.ptr \in Blocks /\ "popCas" \in Places
  BY <1>1, <1>2 DEF PopOk, Places, Popping
<1>4. PICK w \in Word : w = next[op[t].old.ptr]
  BY <1>3 DEF PoolInv, PoolTypes
<1>5. op[t] \in Call /\ CallOk(op[t], "popNext")
      /\ overtaken[t] \in 0 .. MaxOvertakes
  BY <1>1 DEF PoolInv, PoolTypes, Calls
<1>6. PICK o \in Call : o = [op[t] EXCEPT !.nxt = w]
  BY <1>4, <1>5 DEF Call
<1>7. /\ o.old = op[t].old /\ o.node = op[t].node /\ o.cls = op[t].cls
      /\ o.does = op[t].does /\ o.size = op[t].size /\ o.left = op[t].left
      /\ o.nxt = next[o.old.ptr]
  BY <1>4, <1>5, <1>6 DEF Call
<1>8. /\ op' = [op EXCEPT ![t] = o] /\ pc' = [pc EXCEPT ![t] = "popCas"]
      /\ overtaken' = [overtaken EXCEPT ![t] = overtaken[t]]
      /\ UNCHANGED <<headPacked, next, caches, class, user, freeLists_>>
  BY <1>4, <1>6 DEF PopNext, goto, PoolInv, PoolTypes
<1>9. CallOk(o, "popCas")
  BY <1>5, <1>7 DEF CallOk
<1>10. PopOk(o, "popCas", headPacked[o.cls], freeLists_[o.cls],
             overtaken[t], next)
  BY <1>2, <1>7 DEF PopOk, Popping
<1>11. PushOk(o, "popCas", caches[t][o.cls], next, class)
  BY DEF PushOk
<1>12. QED
  BY <1>3, <1>5, <1>6, <1>7, <1>8, <1>9, <1>10, <1>11, OwnStep

\* An idle thread has no block in its hands.
LEMMA IdleThread ==
    ASSUME PoolInv, NEW t \in Threads, pc[t] = "idle"
    PROVE  /\ op[t] = Idle /\ op[t].node = Null /\ CallOk(op[t], pc[t])
           /\ PoolTypes
  BY IdleIsCall DEF PoolInv, Calls, CallOk

\* allocate() of a large size.
LEMMA AllocateLargeKeeps ==
    ASSUME PoolInv, NEW t \in Threads, NEW size \in Sizes,
           AllocateLarge(t, size)
    PROVE  PoolInv'
<1>1. /\ pc[t] = "idle" /\ isLarge(size) /\ malloc(Large, size)
      /\ UNCHANGED <<headPacked, caches, pc, op, freeLists_, overtaken>>
  BY DEF AllocateLarge
<1>2. Calm(t)
  BY <1>1, IdleThread DEF Calm, PoolTypes
<1>3. QED
  BY <1>1, <1>2, IdleThread, MallocKeeps

\* allocate() from the thread's cache.
LEMMA AllocateCachedKeeps ==
    ASSUME PoolInv, NEW t \in Threads, NEW size \in Sizes,
           AllocateCached(t, size)
    PROVE  PoolInv'
<1>1. /\ pc[t] = "idle" /\ ~isLarge(size)
      /\ caches[t][sizeClass(size)] # <<>>
      /\ give(back(caches[t][sizeClass(size)]), size)
      /\ caches' = [caches EXCEPT ![t][sizeClass(size)] =
                       pop_back(caches[t][sizeClass(size)])]
      /\ UNCHANGED <<headPacked, pc, op, class, freeLists_, overtaken>>
  BY DEF AllocateCached
<1>2. Calm(t)
  BY <1>1, IdleThread DEF Calm, PoolTypes
<1>3. QED
  BY <1>1, <1>2, IdleThread, GiveKeeps

\* allocate() that must refill its cache.
LEMMA AllocateKeeps ==
    ASSUME PoolInv, NEW t \in Threads, NEW size \in Sizes, Allocate(t, size)
    PROVE  PoolInv'
<1>1. /\ pc[t] = "idle" /\ ~isLarge(size) /\ sizeClass(size) \in Classes
      /\ kCacheCapacity \in Nat /\ kCacheCapacity >= 1
  BY SizeHasClass, LFPoolAssumption DEF Allocate
<1>2. PICK o \in Call : o = [Idle EXCEPT !.does = "allocate", !.size = size,
                               !.cls = sizeClass(size),
                               !.left = kCacheCapacity]
  BY <1>1, IdleIsCall DEF Call
<1>3. /\ o.does = "allocate" /\ o.size = size /\ o.cls = sizeClass(size)
      /\ o.left = kCacheCapacity /\ o.node = Null
  BY <1>2, IdleIsCall DEF Call
<1>4. CallOk(o, "popLoad") /\ "popLoad" \in Places
  BY <1>1, <1>3 DEF CallOk, Places
<1>5. /\ op' = [op EXCEPT ![t] = o] /\ pc' = [pc EXCEPT ![t] = "popLoad"]
      /\ UNCHANGED <<headPacked, next, caches, class, user, freeLists_,
                     overtaken>>
  BY <1>2 DEF Allocate, goto
<1>6. Calm(t)
  BY <1>2, <1>4, <1>5 DEF Calm, PoolInv, PoolTypes
<1>7. QED
  BY <1>1, <1>5, <1>6, IdleThread, CallKeeps

\* cleanup() starts to empty the caches of its thread.
LEMMA CleanupKeeps ==
    ASSUME PoolInv, NEW t \in Threads, Cleanup(t)
    PROVE  PoolInv'
<1>1. pc[t] = "idle"
  BY DEF Cleanup
<1>2. PICK o \in Call : o = [Idle EXCEPT !.does = "cleanup"]
  BY IdleIsCall DEF Call
<1>3. o.does = "cleanup" /\ o.node = Null
  BY <1>2, IdleIsCall DEF Call
<1>4. CallOk(o, "popLoad") /\ "popLoad" \in Places
  BY <1>3 DEF CallOk, Places
<1>5. /\ op' = [op EXCEPT ![t] = o] /\ pc' = [pc EXCEPT ![t] = "popLoad"]
      /\ UNCHANGED <<headPacked, next, caches, class, user, freeLists_,
                     overtaken>>
  BY <1>2 DEF Cleanup, goto
<1>6. Calm(t)
  BY <1>2, <1>4, <1>5 DEF Calm, PoolInv, PoolTypes
<1>7. QED
  BY <1>1, <1>5, <1>6, IdleThread, CallKeeps


\* deallocate() of a large size.
LEMMA DeallocateLargeKeeps ==
    ASSUME PoolInv, NEW t \in Threads, NEW y \in Blocks, DeallocateLarge(t, y)
    PROVE  PoolInv'
<1>1. /\ pc[t] = "idle" /\ user[y] # 0 /\ isLarge(user[y])
      /\ user' = [user EXCEPT ![y] = 0] /\ class' = [class EXCEPT ![y] = Raw]
      /\ UNCHANGED <<headPacked, next, caches, pc, op, freeLists_, overtaken>>
  BY DEF DeallocateLarge
<1>2. PICK at \in [Blocks -> Kinds], by \in [Blocks -> Threads \cup {Null}] :
         Placed(at, by)
  BY DEF PoolInv, Where
<1>3. at[y] = "user"
  BY <1>1, <1>2 DEF Placed
<1>4. /\ class \in [Blocks -> Classes \cup {Raw, Large}]
      /\ user \in [Blocks -> Sizes \cup {0}]
  BY DEF PoolInv, PoolTypes
<1>5. Alone(t, y)
  BY <1>1, <1>4 DEF Alone
<1>6. Calm(t)
  BY <1>1, IdleThread DEF Calm, PoolTypes
<1>7. /\ \A u \in Threads \ {t} :
            /\ CallOk(op'[u], pc'[u])
            /\ PopOk(op'[u], pc'[u], headPacked'[op'[u].cls],
                     freeLists_'[op'[u].cls], overtaken'[u], next')
            /\ PushOk(op'[u], pc'[u], caches'[u][op'[u].cls], next', class')
      /\ ListIsLinked'
  BY <1>2, <1>3, <1>5, AloneKeeps DEF PoolInv
<1>8. PoolTypes'
  BY <1>1 DEF PoolInv, PoolTypes
<1>9. Sized'
  BY <1>1, <1>4 DEF PoolInv, Sized
<1>10. Where'
  <2> DEFINE now == [at EXCEPT ![y] = "raw"]
  <2>1. now \in [Blocks -> Kinds] /\ now[y] = "raw"
        /\ \A x \in Blocks \ {y} : now[x] = at[x]
    BY DEF Kinds
  <2> HIDE DEF now
  <2>2. \A x \in Blocks : /\ now[x] = "raw" <=> class'[x] = Raw
                          /\ now[x] = "user" <=> user'[x] # 0
    BY <1>1, <1>2, <1>4, <2>1 DEF Placed
  <2>3. Placed(now, by)'
    BY <1>1, <1>2, <1>3, <1>4, <2>1, <2>2 DEF Placed
  <2>4. QED
    BY <2>1, <2>3 DEF Where
<1>11. QED
  BY <1>6, <1>7, <1>8, <1>9, <1>10, CalmIsOk DEF PoolInv, Calls, Pops, Pushes

\* Half of a number of blocks that is at least 2.
LEMMA HalfOf ==
    ASSUME NEW n \in Nat, n >= kCacheCapacity * 2
    PROVE  n \div 2 \in Nat /\ n \div 2 >= 1 /\ n \div 2 <= n
<1>1. n >= 2
  BY LFPoolAssumption
<1>2. QED
  BY <1>1

\* deallocate() into the thread's cache, which may have to give half of it
\* back.
LEMMA DeallocateKeeps ==
    ASSUME PoolInv, NEW t \in Threads, NEW y \in Blocks, Deallocate(t, y)
    PROVE  PoolInv'
<1>1. /\ pc[t] = "idle" /\ user[y] # 0 /\ ~isLarge(user[y])
      /\ user' = [user EXCEPT ![y] = 0]
      /\ UNCHANGED <<headPacked, next, class, freeLists_, overtaken>>
  BY DEF Deallocate
<1>2. /\ class \in [Blocks -> Classes \cup {Raw, Large}]
      /\ user \in [Blocks -> Sizes \cup {0}]
      /\ caches \in [Threads -> [Classes -> Seq(Blocks)]]
      /\ op \in [Threads -> Call] /\ pc \in [Threads -> Places]
      /\ overtaken \in [Threads -> 0 .. MaxOvertakes]
  BY DEF PoolInv, PoolTypes
<1>3. PICK c \in Classes : c = sizeClass(user[y])
  BY <1>1, <1>2, SizeHasClass
<1>4. class[y] = c
  BY <1>1, <1>3 DEF PoolInv, Sized
<1>5. PICK s \in Seq(Blocks) : s = caches[t][c]
  BY <1>2
<1>6. PICK v \in Seq(Blocks) : v = push_back(s, y)
  BY PushBack
<1>7. /\ Replaces(caches', caches, t, c, v)
      /\ IF Len(v) >= kCacheCapacity * 2
         THEN /\ op' = [op EXCEPT ![t] = [Idle EXCEPT !.does = "deallocate",
                           !.cls = c, !.left = Len(v) \div 2]]
              /\ pc' = [pc EXCEPT ![t] = "pushLoad"]
         ELSE UNCHANGED <<pc, op>>
  BY <1>3, <1>5, <1>6 DEF Deallocate, Replaces, goto
<1>8. PICK at \in [Blocks -> Kinds], by \in [Blocks -> Threads \cup {Null}] :
         Placed(at, by)
  BY DEF PoolInv, Where
<1>9. at[y] = "user"
  BY <1>1, <1>8 DEF Placed
<1>10. Distinct(s) /\ ~Has(s, y)
  BY <1>5, <1>8, <1>9 DEF Placed
<1>11. Distinct(v) /\ \A x : Has(v, x) <=> Has(s, x) \/ x = y
  BY <1>6, <1>10, PushBack
<1>12. Replaced(caches', caches, t, c, v)
  BY <1>2, <1>7, CacheSet
<1>13. /\ op' \in [Threads -> Call] /\ pc' \in [Threads -> Places]
       /\ op'[t].node = Null
       /\ \A u \in Threads \ {t} : op'[u] = op[u] /\ pc'[u] = pc[u]
       /\ CallOk(op'[t], pc'[t]) /\ pc'[t] \in {"idle", "pushLoad"}
       /\ pc'[t] = "pushLoad" => op'[t].left <= Len(v) /\ op'[t].cls = c
  <2>1. CASE Len(v) >= kCacheCapacity * 2
    <3>1. PICK h \in Nat : h = Len(v) \div 2 /\ h >= 1 /\ h <= Len(v)
      BY <1>6, <2>1, HalfOf
    <3>2. PICK o \in Call : o = [Idle EXCEPT !.does = "deallocate",
                                    !.cls = c, !.left = h]
      BY IdleIsCall DEF Call
    <3>3. o.does = "deallocate" /\ o.cls = c /\ o.left = h /\ o.node = Null
      BY <3>2, IdleIsCall DEF Call
    <3>4. CallOk(o, "pushLoad") /\ "pushLoad" \in Places
      BY <3>1, <3>3 DEF CallOk, Places
    <3>5. op' = [op EXCEPT ![t] = o] /\ pc' = [pc EXCEPT ![t] = "pushLoad"]
      BY <1>7, <2>1, <3>1, <3>2
    <3>6. QED
      BY <1>2, <3>1, <3>2, <3>3, <3>4, <3>5
  <2>2. CASE ~(Len(v) >= kCacheCapacity * 2)
    BY <1>1, <1>2, <1>7, <2>2, IdleThread
  <2>3. QED
    BY <2>1, <2>2
<1>14. Alone(t, y)
  BY <1>1, <1>2, <1>12, <1>13 DEF Alone, Replaced
<1>15. /\ \A u \in Threads \ {t} :
             /\ CallOk(op'[u], pc'[u])
             /\ PopOk(op'[u], pc'[u], headPacked'[op'[u].cls],
                      freeLists_'[op'[u].cls], overtaken'[u], next')
             /\ PushOk(op'[u], pc'[u], caches'[u][op'[u].cls], next', class')
       /\ ListIsLinked'
  BY <1>8, <1>9, <1>14, AloneKeeps DEF PoolInv
<1>16. /\ PopOk(op'[t], pc'[t], headPacked'[op'[t].cls],
                freeLists_'[op'[t].cls], overtaken'[t], next')
       /\ PushOk(op'[t], pc'[t], caches'[t][op'[t].cls], next', class')
  BY <1>12, <1>13 DEF PopOk, PushOk, Popping, Replaced
<1>17. PoolTypes'
  BY <1>1, <1>12, <1>13 DEF PoolInv, PoolTypes, Replaced
<1>18. Sized'
  BY <1>1, <1>2 DEF PoolInv, Sized
<1>19. Where'
  <2> DEFINE now == [at EXCEPT ![y] = "cache"]
             whose == [by EXCEPT ![y] = t]
  <2>1. /\ now \in [Blocks -> Kinds] /\ now[y] = "cache"
        /\ \A x \in Blocks \ {y} : now[x] = at[x]
        /\ whose \in [Blocks -> Threads \cup {Null}] /\ whose[y] = t
        /\ \A x \in Blocks \ {y} : whose[x] = by[x]
    BY DEF Kinds
  <2> HIDE DEF now, whose
  <2>2. class[y] # Raw
    BY <1>4 DEF Classes, Raw
  <2>3. ASSUME NEW x \in Blocks
        PROVE  /\ now[x] = "raw" <=> class[x] = Raw
               /\ now[x] = "user" <=> user'[x] # 0
               /\ now[x] \in {"push", "cache"} => whose[x] \in Threads
               /\ now[x] \in {"cache", "list"} => class[x] \in Classes
    <3>1. CASE x = y
      BY <1>1, <1>2, <1>4, <2>1, <2>2, <3>1
    <3>2. CASE x # y
      BY <1>1, <1>2, <1>8, <2>1, <3>2 DEF Placed
    <3>3. QED
      BY <3>1, <3>2
  <2>4. ASSUME NEW x \in Blocks, NEW u \in Threads
        PROVE  op'[u].node = x <=> now[x] = "push" /\ whose[x] = u
    <3>1. op'[u].node = op[u].node
      BY <1>1, <1>13, IdleThread
    <3>2. op[u].node = x <=> at[x] = "push" /\ by[x] = u
      BY <1>8 DEF Placed
    <3>3. QED
      BY <1>9, <2>1, <3>1, <3>2
  <2>5. ASSUME NEW x \in Blocks, NEW u \in Threads, NEW d \in Classes
        PROVE  Has(caches'[u][d], x) <=>
                   now[x] = "cache" /\ whose[x] = u /\ class[x] = d
    <3>1. Has(caches[u][d], x) <=>
              at[x] = "cache" /\ by[x] = u /\ class[x] = d
      BY <1>8 DEF Placed
    <3>2. CASE u = t /\ d = c
      BY <1>4, <1>5, <1>9, <1>11, <1>12, <2>1, <3>1, <3>2 DEF Replaced
    <3>3. CASE ~(u = t /\ d = c)
      BY <1>4, <1>9, <1>12, <2>1, <3>1, <3>3 DEF Replaced
    <3>4. QED
      BY <3>2, <3>3
  <2>6. ASSUME NEW u \in Threads, NEW d \in Classes
        PROVE  Distinct(caches'[u][d])
    <3>1. Distinct(caches[u][d])
      BY <1>8 DEF Placed
    <3>2. CASE u = t /\ d = c
      BY <1>11, <1>12, <3>2 DEF Replaced
    <3>3. CASE ~(u = t /\ d = c)
      BY <1>12, <3>1, <3>3 DEF Replaced
    <3>4. QED
      BY <3>2, <3>3
  <2>7. ASSUME NEW x \in Blocks, NEW d \in Classes
        PROVE  Has(freeLists_[d], x) <=> now[x] = "list" /\ class[x] = d
    BY <1>8, <1>9, <2>1 DEF Placed
  <2>8. Placed(now, whose)'
    BY <1>1, <1>8, <2>1, <2>3, <2>4, <2>5, <2>6, <2>7 DEF Placed
  <2>9. QED
    BY <2>1, <2>8 DEF Where
<1>20. QED
  BY <1>13, <1>15, <1>16, <1>17, <1>18, <1>19 DEF PoolInv, Calls, Pops, Pushes


\* What is known of a thread in push().
LEMMA InPush ==
    ASSUME PoolInv, NEW t \in Threads, pc[t] \in {"pushLoad", "pushCas"}
    PROVE  /\ op[t] \in Call /\ op[t].cls \in Classes
           /\ op[t].left \in Nat /\ op[t].left >= 1
           /\ op[t].does # "none"
           /\ caches[t][op[t].cls] \in Seq(Blocks)
           /\ PushOk(op[t], pc[t], caches[t][op[t].cls], next, class)
           /\ headPacked[op[t].cls] \in Packed
           /\ headPacked[op[t].cls].ptr \in Pointer
<1>1. op[t] \in Call /\ CallOk(op[t], pc[t])
  BY DEF PoolInv, PoolTypes, Calls
<1>2. op[t].cls \in Classes /\ op[t].left \in Nat
  BY <1>1 DEF Call
<1>3. /\ op[t].left >= 1 /\ op[t].does # "none"
  BY <1>1 DEF CallOk
<1>4. headPacked[op[t].cls] \in Packed /\ caches[t][op[t].cls] \in Seq(Blocks)
  BY <1>2 DEF PoolInv, PoolTypes
<1>5. PushOk(op[t], pc[t], caches[t][op[t].cls], next, class)
  BY DEF PoolInv, Pushes
<1>6. QED
  BY <1>1, <1>2, <1>3, <1>4, <1>5 DEF Packed


\* push() takes the last block of the cache and links it to the head.
LEMMA PushLoadKeeps ==
    ASSUME PoolInv, NEW t \in Threads, PushLoad(t)
    PROVE  PoolInv'
<1>1. /\ class \in [Blocks -> Classes \cup {Raw, Large}]
      /\ caches \in [Threads -> [Classes -> Seq(Blocks)]]
      /\ op \in [Threads -> Call] /\ pc \in [Threads -> Places]
      /\ next \in [Blocks -> Word]
  BY DEF PoolInv, PoolTypes
<1>2. pc[t] = "pushLoad"
  BY DEF PushLoad
<1>3. PICK c \in Classes : c = op[t].cls
  BY <1>2, InPush
<1>4. PICK s \in Seq(Blocks) : s = caches[t][c]
  BY <1>1
<1>5. /\ op[t] \in Call /\ op[t].left \in Nat /\ op[t].left >= 1
      /\ op[t].does # "none" /\ Len(s) >= op[t].left
      /\ headPacked[c] \in Packed /\ headPacked[c].ptr \in Pointer
      /\ CallOk(op[t], "pushLoad")
  BY <1>2, <1>3, <1>4, InPush DEF PushOk, PoolInv, Calls
<1>6. s # <<>>
  BY <1>5
<1>7. PICK y \in Blocks : y = back(s)
  BY <1>6, PopBack
<1>8. PICK o \in Call : o = [op[t] EXCEPT !.node = y, !.old = headPacked[c]]
  BY <1>5 DEF Call, Pointer
<1>9. /\ o.node = y /\ o.old = headPacked[c] /\ o.cls = c
      /\ o.does = op[t].does /\ o.size = op[t].size /\ o.left = op[t].left
  BY <1>3, <1>5, <1>8 DEF Call
<1>10. /\ Replaces(caches', caches, t, c, pop_back(s))
       /\ op' = [op EXCEPT ![t] = o]
       /\ next' = [next EXCEPT ![y] = headPacked[c].ptr]
       /\ pc' = [pc EXCEPT ![t] = "pushCas"]
       /\ UNCHANGED <<headPacked, class, user, freeLists_, overtaken>>
  BY <1>1, <1>3, <1>4, <1>7, <1>8 DEF PushLoad, Replaces, goto, loaded
<1>11. PICK at \in [Blocks -> Kinds], by \in [Blocks -> Threads \cup {Null}] :
          Placed(at, by)
  BY DEF PoolInv, Where
<1>12. Distinct(s) /\ Has(s, y)
  BY <1>4, <1>6, <1>7, <1>11, PopBack DEF Placed
<1>13. at[y] = "cache" /\ by[y] = t /\ class[y] = c
  BY <1>4, <1>11, <1>12 DEF Placed
<1>14. /\ pop_back(s) \in Seq(Blocks) /\ Distinct(pop_back(s))
       /\ Len(pop_back(s)) = Len(s) - 1
       /\ \A x : Has(pop_back(s), x) <=> Has(s, x) /\ x # y
  BY <1>6, <1>7, <1>12, PopBack
<1>15. Replaced(caches', caches, t, c, pop_back(s))
  BY <1>1, <1>10, <1>14, CacheSet
<1>16. /\ op'[t] = o /\ pc'[t] = "pushCas" /\ op' \in [Threads -> Call]
       /\ \A u \in Threads \ {t} : op'[u] = op[u] /\ pc'[u] = pc[u]
       /\ pc' \in [Threads -> Places]
       /\ next'[y] = headPacked[c].ptr
       /\ next' \in [Blocks -> Word]
  BY <1>1, <1>5, <1>8, <1>10 DEF Places, Word
<1>17. Alone(t, y)
  BY <1>1, <1>10, <1>15, <1>16 DEF Alone, Replaced
<1>18. /\ \A u \in Threads \ {t} :
             /\ CallOk(op'[u], pc'[u])
             /\ PopOk(op'[u], pc'[u], headPacked'[op'[u].cls],
                      freeLists_'[op'[u].cls], overtaken'[u], next')
             /\ PushOk(op'[u], pc'[u], caches'[u][op'[u].cls], next', class')
       /\ ListIsLinked'
  BY <1>11, <1>13, <1>17, AloneKeeps DEF PoolInv
<1>19. CallOk(op'[t], pc'[t])
  BY <1>5, <1>9, <1>16, <1>3 DEF CallOk
<1>20. PopOk(op'[t], pc'[t], headPacked'[op'[t].cls],
             freeLists_'[op'[t].cls], overtaken'[t], next')
  BY <1>16 DEF PopOk, Popping
<1>21. PushOk(op'[t], pc'[t], caches'[t][op'[t].cls], next', class')
  <2>1. Len(pop_back(s)) >= o.left - 1
    BY <1>5, <1>9, <1>14
  <2>2. QED
    BY <1>9, <1>10, <1>13, <1>15, <1>16, <2>1 DEF PushOk, Replaced
<1>22. PoolTypes'
  BY <1>10, <1>15, <1>16 DEF PoolInv, PoolTypes, Replaced
<1>23. Sized'
  BY <1>10 DEF PoolInv, Sized
<1>24. Where'
  <2> DEFINE now == [at EXCEPT ![y] = "push"]
  <2>1. /\ now \in [Blocks -> Kinds] /\ now[y] = "push"
        /\ \A x \in Blocks \ {y} : now[x] = at[x]
    BY DEF Kinds
  <2> HIDE DEF now
  <2>2. class[y] # Raw /\ op[t].node = Null
    BY <1>5, <1>13 DEF Classes, Raw, CallOk
  <2>3. ASSUME NEW x \in Blocks
        PROVE  /\ now[x] = "raw" <=> class[x] = Raw
               /\ now[x] = "user" <=> user[x] # 0
               /\ now[x] \in {"push", "cache"} => by[x] \in Threads
               /\ now[x] \in {"cache", "list"} => class[x] \in Classes
    BY <1>11, <1>13, <2>1, <2>2 DEF Placed
  <2>4. ASSUME NEW x \in Blocks, NEW u \in Threads
        PROVE  op'[u].node = x <=> now[x] = "push" /\ by[x] = u
    <3>1. op[u].node = x <=> at[x] = "push" /\ by[x] = u
      BY <1>11 DEF Placed
    <3>2. x # Null
      BY NullIsNoBlock
    <3>3. CASE u = t
      BY <1>9, <1>13, <1>16, <2>1, <2>2, <3>1, <3>2, <3>3
    <3>4. CASE u # t
      BY <1>13, <1>16, <2>1, <3>1, <3>4
    <3>5. QED
      BY <3>3, <3>4
  <2>5. ASSUME NEW x \in Blocks, NEW u \in Threads, NEW d \in Classes
        PROVE  Has(caches'[u][d], x) <=>
                   now[x] = "cache" /\ by[x] = u /\ class[x] = d
    <3>1. Has(caches[u][d], x) <=>
              at[x] = "cache" /\ by[x] = u /\ class[x] = d
      BY <1>11 DEF Placed
    <3>2. CASE u = t /\ d = c
      BY <1>4, <1>13, <1>14, <1>15, <2>1, <3>1, <3>2 DEF Replaced
    <3>3. CASE ~(u = t /\ d = c)
      BY <1>13, <1>15, <2>1, <3>1, <3>3 DEF Replaced
    <3>4. QED
      BY <3>2, <3>3
  <2>6. ASSUME NEW u \in Threads, NEW d \in Classes
        PROVE  Distinct(caches'[u][d])
    <3>1. Distinct(caches[u][d])
      BY <1>11 DEF Placed
    <3>2. CASE u = t /\ d = c
      BY <1>14, <1>15, <3>2 DEF Replaced
    <3>3. CASE ~(u = t /\ d = c)
      BY <1>15, <3>1, <3>3 DEF Replaced
    <3>4. QED
      BY <3>2, <3>3
  <2>7. ASSUME NEW x \in Blocks, NEW d \in Classes
        PROVE  Has(freeLists_[d], x) <=> now[x] = "list" /\ class[x] = d
    BY <1>11, <1>13, <2>1 DEF Placed
  <2>8. Placed(now, by)'
    BY <1>10, <1>11, <2>1, <2>3, <2>4, <2>5, <2>6, <2>7 DEF Placed
  <2>9. QED
    BY <2>1, <2>8 DEF Where
<1>25. QED
  BY <1>18, <1>19, <1>20, <1>21, <1>22, <1>23, <1>24
  DEF PoolInv, Calls, Pops, Pushes

\* The compare-and-swap of push() fails: the block is linked anew.
LEMMA PushCasFailsKeeps ==
    ASSUME PoolInv, NEW t \in Threads, PushCasFails(t)
    PROVE  PoolInv'
<1>1. /\ op \in [Threads -> Call] /\ next \in [Blocks -> Word]
  BY DEF PoolInv, PoolTypes
<1>2. pc[t] = "pushCas"
  BY DEF PushCasFails
<1>3. PICK c \in Classes : c = op[t].cls
  BY <1>2, InPush
<1>4. /\ op[t] \in Call /\ op[t].node \in Blocks
      /\ Len(caches[t][c]) >= op[t].left - 1 /\ class[op[t].node] = c
      /\ headPacked[c] \in Packed /\ headPacked[c].ptr \in Pointer
      /\ CallOk(op[t], "pushCas")
  BY <1>2, <1>3, InPush DEF PushOk, PoolInv, Calls
<1>5. PICK y \in Blocks : y = op[t].node
  BY <1>4
<1>6. PICK o \in Call : o = [op[t] EXCEPT !.old = headPacked[c]]
  BY <1>4 DEF Call
<1>7. /\ o.node = y /\ o.old = headPacked[c] /\ o.cls = c
      /\ o.does = op[t].does /\ o.size = op[t].size /\ o.left = op[t].left
  BY <1>3, <1>4, <1>5, <1>6 DEF Call
<1>8. /\ op' = [op EXCEPT ![t] = o]
      /\ next' = [next EXCEPT ![y] = headPacked[c].ptr]
      /\ UNCHANGED <<headPacked, caches, pc, class, user, freeLists_,
                     overtaken>>
  BY <1>1, <1>3, <1>5, <1>6 DEF PushCasFails, loaded, relinked
<1>9. PICK at \in [Blocks -> Kinds], by \in [Blocks -> Threads \cup {Null}] :
         Placed(at, by)
  BY DEF PoolInv, Where
<1>10. at[y] = "push" /\ by[y] = t
  BY <1>5, <1>9 DEF Placed
<1>11. /\ op'[t] = o /\ op' \in [Threads -> Call]
       /\ \A u \in Threads \ {t} : op'[u] = op[u]
       /\ next'[y] = headPacked[c].ptr /\ next' \in [Blocks -> Word]
  BY <1>1, <1>4, <1>6, <1>8 DEF Word
<1>12. Alone(t, y)
  BY <1>1, <1>8, <1>11 DEF Alone
<1>13. /\ \A u \in Threads \ {t} :
             /\ CallOk(op'[u], pc'[u])
             /\ PopOk(op'[u], pc'[u], headPacked'[op'[u].cls],
                      freeLists_'[op'[u].cls], overtaken'[u], next')
             /\ PushOk(op'[u], pc'[u], caches'[u][op'[u].cls], next', class')
       /\ ListIsLinked'
  BY <1>9, <1>10, <1>12, AloneKeeps DEF PoolInv
<1>14. CallOk(op'[t], pc'[t])
  BY <1>2, <1>3, <1>4, <1>7, <1>8, <1>11 DEF CallOk
<1>15. PopOk(op'[t], pc'[t], headPacked'[op'[t].cls],
             freeLists_'[op'[t].cls], overtaken'[t], next')
  BY <1>2, <1>8 DEF PopOk, Popping
<1>16. PushOk(op'[t], pc'[t], caches'[t][op'[t].cls], next', class')
  BY <1>2, <1>4, <1>5, <1>7, <1>8, <1>11 DEF PushOk
<1>17. PoolTypes'
  BY <1>8, <1>11 DEF PoolInv, PoolTypes
<1>18. Sized'
  BY <1>8 DEF PoolInv, Sized
<1>19. Where'
  <2>1. \A u \in Threads : op'[u].node = op[u].node
    BY <1>5, <1>7, <1>11
  <2>2. Placed(at, by)'
    BY <1>8, <1>9, <2>1 DEF Placed
  <2>3. QED
    BY <2>2 DEF Where
<1>20. QED
  BY <1>13, <1>14, <1>15, <1>16, <1>17, <1>18, <1>19
  DEF PoolInv, Calls, Pops, Pushes


\* The words nx link the blocks of s, and p points to the first.
Linked(s, p, nx) ==
    /\ p = IF s = <<>> THEN Null ELSE s[1]
    /\ \A i \in DOMAIN s : nx[s[i]] = IF i = Len(s) THEN Null ELSE s[i + 1]

\* ListIsLinked, one class at a time.
LEMMA LinkedLists ==
    ListIsLinked <=>
        \A c \in Classes : Linked(freeLists_[c], headPacked[c].ptr, next)
  BY DEF ListIsLinked, Linked

\* A block that is linked to the head becomes the head.
LEMMA PushedIsLinked ==
    ASSUME NEW s \in Seq(Blocks), NEW p, NEW nx, Linked(s, p, nx),
           NEW x \in Blocks, nx[x] = p
    PROVE  Linked(<<x>> \o s, x, nx)
<1>1. /\ Len(<<x>> \o s) = Len(s) + 1 /\ (<<x>> \o s)[1] = x
      /\ \A i \in 2 .. Len(s) + 1 : (<<x>> \o s)[i] = s[i - 1]
      /\ DOMAIN s = 1 .. Len(s) /\ DOMAIN (<<x>> \o s) = 1 .. Len(s) + 1
      /\ Len(s) \in Nat /\ <<x>> \o s # <<>>
  OBVIOUS
<1>2. ASSUME NEW i \in 1 .. Len(s) + 1
      PROVE  nx[(<<x>> \o s)[i]] = IF i = Len(s) + 1 THEN Null
                                                     ELSE (<<x>> \o s)[i + 1]
  <2>1. CASE i = 1
    <3>1. CASE s = <<>>
      BY <1>1, <2>1, <3>1 DEF Linked
    <3>2. CASE s # <<>>
      <4>1. 2 \in 2 .. Len(s) + 1 /\ 2 - 1 = 1 /\ Len(s) + 1 # 1
        BY <1>1, <3>2
      <4>2. (<<x>> \o s)[2] = s[1]
        BY <1>1, <4>1
      <4>3. QED
        BY <1>1, <2>1, <3>2, <4>1, <4>2 DEF Linked
    <3>3. QED
      BY <3>1, <3>2
  <2>2. CASE i # 1
    <3>1. i \in 2 .. Len(s) + 1 /\ i - 1 \in 1 .. Len(s) /\ i - 1 + 1 = i
      BY <1>1, <2>2
    <3>2. nx[s[i - 1]] = IF i - 1 = Len(s) THEN Null ELSE s[i]
      BY <1>1, <3>1 DEF Linked
    <3>3. i # Len(s) + 1 => i + 1 \in 2 .. Len(s) + 1 /\ i + 1 - 1 = i
      BY <1>1, <3>1
    <3>4. i - 1 = Len(s) <=> i = Len(s) + 1
      BY <1>1, <3>1
    <3>5. QED
      BY <1>1, <3>1, <3>2, <3>3, <3>4
  <2>3. QED
    BY <2>1, <2>2
<1>3. QED
  BY <1>1, <1>2 DEF Linked

\* The head is popped: its word points to the next block.
LEMMA PoppedIsLinked ==
    ASSUME NEW s \in Seq(Blocks), NEW p, NEW nx, Linked(s, p, nx), s # <<>>
    PROVE  Linked(Tail(s), nx[s[1]], nx) /\ nx[s[1]] # Junk
<1>1. /\ Len(s) \in Nat \ {0} /\ DOMAIN s = 1 .. Len(s)
      /\ Len(Tail(s)) = Len(s) - 1 /\ DOMAIN Tail(s) = 1 .. Len(s) - 1
      /\ \A i \in 1 .. Len(s) - 1 : Tail(s)[i] = s[i + 1]
      /\ \A i \in 1 .. Len(s) : s[i] \in Blocks
  OBVIOUS
<1>2. nx[s[1]] = IF 1 = Len(s) THEN Null ELSE s[2]
  BY <1>1 DEF Linked
<1>3. nx[s[1]] = IF Tail(s) = <<>> THEN Null ELSE Tail(s)[1]
  <2>1. CASE Len(s) = 1
    BY <1>1, <1>2, <2>1
  <2>2. CASE Len(s) # 1
    <3>1. 1 \in 1 .. Len(s) - 1 /\ Tail(s)[1] = s[2] /\ Tail(s) # <<>>
      BY <1>1, <2>2
    <3>2. QED
      BY <1>2, <2>2, <3>1
  <2>3. QED
    BY <2>1, <2>2
<1>4. ASSUME NEW i \in 1 .. Len(s) - 1
      PROVE  nx[Tail(s)[i]] = IF i = Len(s) - 1 THEN Null ELSE Tail(s)[i + 1]
  <2>1. i + 1 \in 1 .. Len(s) /\ (i + 1 = Len(s) <=> i = Len(s) - 1)
    BY <1>1
  <2>2. nx[s[i + 1]] = IF i + 1 = Len(s) THEN Null ELSE s[i + 1 + 1]
    BY <1>1, <2>1 DEF Linked
  <2>3. i # Len(s) - 1 => i + 1 \in 1 .. Len(s) - 1
    <3>1. PICK n \in Nat : n = Len(s)
      BY <1>1
    <3>2. i \in 1 .. n - 1
      BY <3>1
    <3>3. QED
      BY <3>1, <3>2
  <2>4. QED
    BY <1>1, <2>1, <2>2, <2>3
<1>5. nx[s[1]] # Junk
  <2>1. 1 # Len(s) => 2 \in 1 .. Len(s)
    BY <1>1
  <2>2. QED
    BY <1>1, <1>2, <2>1, LFPoolAssumption
<1>6. QED
  BY <1>1, <1>3, <1>4, <1>5 DEF Linked

\* Words of other blocks do not matter.
LEMMA RelinkedElsewhere ==
    ASSUME NEW s \in Seq(Blocks), NEW p, NEW nx, NEW ny, Linked(s, p, nx),
           \A x \in Blocks : Has(s, x) => ny[x] = nx[x]
    PROVE  Linked(s, p, ny)
<1>1. \A i \in DOMAIN s : s[i] \in Blocks /\ Has(s, s[i])
  BY DEF Has
<1>2. QED
  BY <1>1 DEF Linked

\* The compare-and-swap of push() succeeds.
LEMMA PushCasKeeps ==
    ASSUME PoolInv, NEW t \in Threads, PushCas(t)
    PROVE  PoolInv'
<1>1. /\ op \in [Threads -> Call] /\ pc \in [Threads -> Places]
      /\ headPacked \in [Classes -> Packed]
      /\ freeLists_ \in [Classes -> Seq(Blocks)]
      /\ class \in [Blocks -> Classes \cup {Raw, Large}]
  BY DEF PoolInv, PoolTypes
<1>2. pc[t] = "pushCas"
  BY DEF PushCas
<1>3. PICK c \in Classes : c = op[t].cls
  BY <1>2, InPush
<1>4. PICK y \in Blocks : y = op[t].node
  BY <1>2, InPush DEF PushOk
<1>5. /\ op[t] \in Call /\ op[t].left \in Nat /\ op[t].left >= 1
      /\ op[t].does # "none"
      /\ Len(caches[t][c]) >= op[t].left - 1 /\ class[y] = c
      /\ next[y] = op[t].old.ptr /\ headPacked[c] \in Packed
      /\ CallOk(op[t], "pushCas")
  BY <1>2, <1>3, <1>4, InPush DEF PushOk, PoolInv, Calls
<1>6. PICK s \in Seq(Blocks) : s = freeLists_[c]
  BY <1>1
<1>7. PICK w \in Seq(Blocks) : w = <<y>> \o s
  BY Pushed
<1>8. PICK head \in Packed : head = [headPacked[c] EXCEPT !.ptr = y]
  BY <1>5 DEF Packed, Pointer
<1>9. head.ptr = y /\ head.tag = headPacked[c].tag
  BY <1>5, <1>8 DEF Packed
<1>10. /\ headPacked' = [headPacked EXCEPT ![c] = head]
       /\ freeLists_' = [freeLists_ EXCEPT ![c] = w]
       /\ UNCHANGED <<next, caches, class, user, overtaken>>
       /\ op[t].old = headPacked[c]
  BY <1>1, <1>3, <1>4, <1>6, <1>7, <1>8 DEF PushCas, loaded
<1>11. /\ headPacked'[c] = head /\ headPacked' \in [Classes -> Packed]
       /\ \A d \in Classes \ {c} : headPacked'[d] = headPacked[d]
       /\ freeLists_'[c] = w /\ freeLists_' \in [Classes -> Seq(Blocks)]
       /\ \A d \in Classes \ {c} : freeLists_'[d] = freeLists_[d]
  BY <1>1, <1>10
<1>12. PICK at \in [Blocks -> Kinds], by \in [Blocks -> Threads \cup {Null}] :
          Placed(at, by)
  BY DEF PoolInv, Where
<1>13. at[y] = "push" /\ by[y] = t
  BY <1>4, <1>12 DEF Placed
<1>14. Distinct(s) /\ ~Has(s, y)
  BY <1>6, <1>12, <1>13 DEF Placed
<1>15. Distinct(w) /\ \A x : Has(w, x) <=> Has(s, x) \/ x = y
  BY <1>7, <1>14, Pushed
<1>16. /\ op' \in [Threads -> Call] /\ pc' \in [Threads -> Places]
       /\ op'[t].node = Null
       /\ \A u \in Threads \ {t} : op'[u] = op[u] /\ pc'[u] = pc[u]
       /\ CallOk(op'[t], pc'[t]) /\ pc'[t] \in {"idle", "pushLoad"}
       /\ pc'[t] = "pushLoad" => /\ op'[t].cls = c
                                 /\ Len(caches[t][c]) >= op'[t].left
  <2>1. CASE op[t].left = 1
    <3>1. op' = [op EXCEPT ![t] = Idle] /\ pc' = [pc EXCEPT ![t] = "idle"]
      BY <2>1 DEF PushCas, return, goto
    <3>2. QED
      BY <1>1, <3>1, IdleIsCall DEF Places
  <2>2. CASE op[t].left # 1
    <3>1. PICK n \in Nat : n = op[t].left - 1 /\ n >= 1
      BY <1>5, <2>2
    <3>2. PICK o \in Call : o = [op[t] EXCEPT !.node = Null, !.left = n]
      BY <1>5, <3>1 DEF Call, Pointer
    <3>3. /\ o.node = Null /\ o.left = n /\ o.cls = c /\ o.does = op[t].does
          /\ o.size = op[t].size
      BY <1>3, <1>5, <3>2 DEF Call
    <3>4. op' = [op EXCEPT ![t] = o] /\ pc' = [pc EXCEPT ![t] = "pushLoad"]
      BY <1>1, <1>5, <2>2, <3>1, <3>2 DEF PushCas, goto
    <3>5. CallOk(o, "pushLoad") /\ "pushLoad" \in Places
      BY <1>3, <1>5, <3>1, <3>3 DEF CallOk, Places
    <3>6. Len(caches[t][c]) >= n
      BY <1>5, <3>1
    <3>7. QED
      BY <1>1, <3>2, <3>3, <3>4, <3>5, <3>6
  <2>3. QED
    BY <2>1, <2>2
<1>17. ASSUME NEW u \in Threads, u # t
       PROVE  /\ CallOk(op'[u], pc'[u])
              /\ PopOk(op'[u], pc'[u], headPacked'[op'[u].cls],
                       freeLists_'[op'[u].cls], overtaken'[u], next')
              /\ PushOk(op'[u], pc'[u], caches'[u][op'[u].cls], next', class')
  <2>1. op[u].cls \in Classes
    BY <1>1 DEF Call
  <2>2. headPacked'[op[u].cls].tag = headPacked[op[u].cls].tag
    BY <1>9, <1>11, <2>1
  <2>3. \A x \in Blocks : Has(freeLists_[op[u].cls], x) =>
            Has(freeLists_'[op[u].cls], x) /\ next'[x] = next[x]
    BY <1>6, <1>10, <1>11, <1>15, <2>1
  <2>4. QED
    BY <1>10, <1>16, <1>17, <2>2, <2>3, Undisturbed DEF PoolInv
<1>18. /\ PopOk(op'[t], pc'[t], headPacked'[op'[t].cls],
                freeLists_'[op'[t].cls], overtaken'[t], next')
       /\ PushOk(op'[t], pc'[t], caches'[t][op'[t].cls], next', class')
  BY <1>10, <1>16 DEF PopOk, PushOk, Popping
<1>19. ListIsLinked'
  <2>1. Linked(s, headPacked[c].ptr, next)
    BY <1>6, LinkedLists DEF PoolInv
  <2>2. Linked(w, y, next)
    BY <1>5, <1>7, <1>10, <2>1, PushedIsLinked
  <2>3. ASSUME NEW d \in Classes
        PROVE  Linked(freeLists_'[d], headPacked'[d].ptr, next')
    BY <1>9, <1>10, <1>11, <2>2, LinkedLists DEF PoolInv
  <2>4. QED
    BY <2>3 DEF ListIsLinked, Linked
<1>20. PoolTypes'
  BY <1>10, <1>11, <1>16 DEF PoolInv, PoolTypes
<1>21. Sized'
  BY <1>10 DEF PoolInv, Sized
<1>22. Where'
  <2> DEFINE now == [at EXCEPT ![y] = "list"]
  <2>1. /\ now \in [Blocks -> Kinds] /\ now[y] = "list"
        /\ \A x \in Blocks \ {y} : now[x] = at[x]
    BY DEF Kinds
  <2> HIDE DEF now
  <2>2. ASSUME NEW x \in Blocks
        PROVE  /\ now[x] = "raw" <=> class[x] = Raw
               /\ now[x] = "user" <=> user[x] # 0
               /\ now[x] \in {"push", "cache"} => by[x] \in Threads
               /\ now[x] \in {"cache", "list"} => class[x] \in Classes
    BY <1>5, <1>12, <1>13, <2>1 DEF Placed
  <2>3. ASSUME NEW x \in Blocks, NEW u \in Threads
        PROVE  op'[u].node = x <=> now[x] = "push" /\ by[x] = u
    <3>1. op[u].node = x <=> at[x] = "push" /\ by[x] = u
      BY <1>12 DEF Placed
    <3>2. x # Null
      BY NullIsNoBlock
    <3>3. CASE u = t
      BY <1>4, <1>13, <1>16, <2>1, <3>1, <3>2, <3>3
    <3>4. CASE u # t
      BY <1>13, <1>16, <2>1, <3>1, <3>4
    <3>5. QED
      BY <3>3, <3>4
  <2>4. ASSUME NEW x \in Blocks, NEW u \in Threads, NEW d \in Classes
        PROVE  Has(caches[u][d], x) <=>
                   now[x] = "cache" /\ by[x] = u /\ class[x] = d
    BY <1>12, <1>13, <2>1 DEF Placed
  <2>5. ASSUME NEW x \in Blocks, NEW d \in Classes
        PROVE  Has(freeLists_'[d], x) <=> now[x] = "list" /\ class[x] = d
    <3>1. Has(freeLists_[d], x) <=> at[x] = "list" /\ class[x] = d
      BY <1>12 DEF Placed
    <3>2. CASE d = c
      BY <1>5, <1>6, <1>11, <1>15, <2>1, <3>1, <3>2
    <3>3. CASE d # c
      BY <1>5, <1>11, <1>13, <2>1, <3>1, <3>3
    <3>4. QED
      BY <3>2, <3>3
  <2>6. ASSUME NEW d \in Classes PROVE Distinct(freeLists_'[d])
    BY <1>11, <1>12, <1>15 DEF Placed
  <2>7. Placed(now, by)'
    BY <1>10, <1>12, <2>1, <2>2, <2>3, <2>4, <2>5, <2>6 DEF Placed
  <2>8. QED
    BY <2>1, <2>7 DEF Where
<1>23. QED
  BY <1>16, <1>17, <1>18, <1>19, <1>20, <1>21, <1>22
  DEF PoolInv, Calls, Pops, Pushes


\* Block y of class c was in a list and is somewhere else, k, after the step.
Moves(t, c, y, k) ==
    /\ class[y] = c /\ class'[y] = IF k = "raw" THEN Raw ELSE c
    /\ user'[y] # 0 <=> k = "user"
    /\ \A x \in Blocks \ {y} : class'[x] = class[x] /\ user'[x] = user[x]
    /\ \A u \in Threads : op'[u].node = op[u].node
    /\ \A u \in Threads, d \in Classes :
          /\ Distinct(caches'[u][d])
          /\ \A x \in Blocks : Has(caches'[u][d], x) <=>
                \/ Has(caches[u][d], x)
                \/ k = "cache" /\ u = t /\ d = c /\ x = y
    /\ \A d \in Classes :
          /\ Distinct(freeLists_'[d])
          /\ \A x \in Blocks : Has(freeLists_'[d], x) <=>
                Has(freeLists_[d], x) /\ x # y

\* It has one place then.
LEMMA PoppedIsPlaced ==
    ASSUME NEW t \in Threads, NEW c \in Classes, NEW y \in Blocks,
           NEW at \in [Blocks -> Kinds],
           NEW by \in [Blocks -> Threads \cup {Null}], Placed(at, by),
           at[y] = "list", NEW k \in {"raw", "user", "cache"},
           Moves(t, c, y, k)
    PROVE  Where'
<1> DEFINE now == [at EXCEPT ![y] = k]
           whose == [by EXCEPT ![y] = t]
<1>1. /\ now \in [Blocks -> Kinds] /\ now[y] = k
      /\ \A x \in Blocks \ {y} : now[x] = at[x]
      /\ whose \in [Blocks -> Threads \cup {Null}] /\ whose[y] = t
      /\ \A x \in Blocks \ {y} : whose[x] = by[x]
  BY DEF Kinds
<1> HIDE DEF now, whose
<1>2. c # Raw
  BY DEF Classes, Raw
<1>3. ASSUME NEW x \in Blocks
      PROVE  /\ now[x] = "raw" <=> class'[x] = Raw
             /\ now[x] = "user" <=> user'[x] # 0
  BY <1>1, <1>2 DEF Placed, Moves
<1>4. ASSUME NEW x \in Blocks, NEW u \in Threads
      PROVE  op'[u].node = x <=> now[x] = "push" /\ whose[x] = u
  <2>1. op[u].node = x <=> at[x] = "push" /\ by[x] = u
    BY DEF Placed
  <2>2. QED
    BY <1>1, <2>1 DEF Moves
<1>5. ASSUME NEW x \in Blocks, NEW u \in Threads, NEW d \in Classes
      PROVE  Has(caches'[u][d], x) <=>
                 now[x] = "cache" /\ whose[x] = u /\ class'[x] = d
  <2>1. Has(caches[u][d], x) <=> at[x] = "cache" /\ by[x] = u /\ class[x] = d
    BY DEF Placed
  <2>2. CASE x = y
    BY <1>1, <2>1, <2>2 DEF Moves
  <2>3. CASE x # y
    BY <1>1, <2>1, <2>3 DEF Moves
  <2>4. QED
    BY <2>2, <2>3
<1>6. ASSUME NEW x \in Blocks, NEW d \in Classes
      PROVE  Has(freeLists_'[d], x) <=> now[x] = "list" /\ class'[x] = d
  <2>1. Has(freeLists_[d], x) <=> at[x] = "list" /\ class[x] = d
    BY DEF Placed
  <2>2. CASE x = y
    BY <1>1, <2>1, <2>2 DEF Moves
  <2>3. CASE x # y
    BY <1>1, <2>1, <2>3 DEF Moves
  <2>4. QED
    BY <2>2, <2>3
<1>7. Placed(now, whose)'
  BY <1>1, <1>3, <1>4, <1>5, <1>6 DEF Placed, Moves
<1>8. QED
  BY <1>1, <1>7 DEF Where

\* The tag of the head has not come round to the one thread t has loaded
\* unless nothing was popped since.
LEMMA TagTells ==
    ASSUME NEW o, NEW p, NEW head, NEW list, NEW nx,
           NEW ov \in 0 .. MaxOvertakes, PopOk(o, p, head, list, ov, nx),
           p \in Popping, o.old = head, head.tag \in Tags
    PROVE  ov = 0
<1>1. /\ TagSize \in Nat /\ MaxOvertakes \in Nat /\ MaxOvertakes < TagSize
      /\ head.tag \in Int
  BY LFPoolAssumption DEF Tags
<1>2. head.tag = head.tag + ov \/ head.tag = head.tag + ov - TagSize
  BY DEF PopOk
<1>3. QED
  BY <1>1, <1>2

\* A pop that was overtaken once more knows by how many.
LEMMA TagCounts ==
    ASSUME NEW tag \in Tags, NEW h \in Tags, NEW ov \in 0 .. MaxOvertakes,
           h = tag + ov \/ h = tag + ov - TagSize, ov < MaxOvertakes
    PROVE  /\ ov + 1 \in 0 .. MaxOvertakes
           /\ \/ popTag(h) = tag + (ov + 1)
              \/ popTag(h) = tag + (ov + 1) - TagSize
<1>1. /\ TagSize \in Nat /\ MaxOvertakes \in Nat /\ MaxOvertakes < TagSize
  BY LFPoolAssumption
<1>2. popTag(h) = IF h + 1 = TagSize THEN 0 ELSE h + 1
  BY TagGrows
<1>3. QED
  BY <1>1, <1>2 DEF Tags


\* The compare-and-swap of pop() takes block y from the list of class c.
Takes(t, c, y) ==
    /\ c = op[t].cls /\ freeLists_[c] # <<>> /\ freeLists_[c][1] = y
    /\ headPacked' = [headPacked EXCEPT ![c] =
                         [ptr |-> next[y], tag |-> popTag(headPacked[c].tag)]]
    /\ freeLists_' = [freeLists_ EXCEPT ![c] = Tail(freeLists_[c])]
    /\ \A u \in Overtakes(t) : overtaken[u] < MaxOvertakes
    /\ overtaken' = [u \in Threads |-> IF u \in Overtakes(t)
                                       THEN overtaken[u] + 1
                                       ELSE IF u = t THEN 0 ELSE overtaken[u]]

\* Thread t has the block, and the others are where they were.
Took(t, y) ==
    /\ op' \in [Threads -> Call] /\ pc' \in [Threads -> Places]
    /\ \A u \in Threads \ {t} :
          op'[u] = op[u] /\ pc'[u] = pc[u] /\ caches'[u] = caches[u]
    /\ pc'[t] \in {"idle", "popLoad"} /\ CallOk(op'[t], pc'[t])
    /\ next' \in [Blocks -> Word] /\ user' \in [Blocks -> Sizes \cup {0}]
    /\ class' \in [Blocks -> Classes \cup {Raw, Large}]
    /\ caches' \in [Threads -> [Classes -> Seq(Blocks)]]
    /\ \A x \in Blocks \ {y} : /\ next'[x] = next[x] /\ class'[x] = class[x]
                               /\ user'[x] = user[x]

\* The swap succeeds only when no pop has overtaken it: the head is the
\* first block of the list and its word is the one that was read.
LEMMA CasTakes ==
    ASSUME PoolInv, NEW t \in Threads, PopCas(t)
    PROVE  \E c \in Classes, y \in Blocks :
              y = op[t].old.ptr /\ Takes(t, c, y)
<1>1. PoolTypes /\ Calls /\ Pops /\ ListIsLinked
  BY DEF PoolInv
<1>2. pc[t] = "popCas" /\ pc[t] \in Popping /\ op[t].old = loaded(t)
  BY DEF PopCas, Popping
<1>3. PICK c \in Classes : c = op[t].cls
  BY <1>1, <1>2, InPop
<1>4. PopOk(op[t], pc[t], headPacked[c], freeLists_[c], overtaken[t], next)
  BY <1>1, <1>3 DEF Pops
<1>5. headPacked[c].tag \in Tags /\ op[t].old = headPacked[c]
  BY <1>1, <1>2, <1>3, HeadIsFirst DEF loaded
<1>6. overtaken[t] \in 0 .. MaxOvertakes
  BY <1>1 DEF PoolTypes
<1>7. overtaken[t] = 0
  BY <1>2, <1>4, <1>5, <1>6, TagTells
<1>8. op[t].old.ptr \in Blocks /\ op[t].nxt = next[op[t].old.ptr]
  BY <1>2, <1>4, <1>7 DEF PopOk
<1>9. freeLists_[c] # <<>> /\ op[t].old.ptr = freeLists_[c][1]
  BY <1>1, <1>5, <1>8, HeadIsFirst, NullIsNoBlock
<1>10. Takes(t, c, op[t].old.ptr)
  BY <1>3, <1>5, <1>8, <1>9 DEF Takes, PopCas
<1>11. QED
  BY <1>8, <1>10

\* Whatever becomes of the block, the threads and the lists are in order.
LEMMA TakeKeeps ==
    ASSUME PoolInv, NEW t \in Threads, NEW c \in Classes, NEW y \in Blocks,
           pc[t] = "popCas", Takes(t, c, y), Took(t, y), Sized', Where'
    PROVE  PoolInv'
<1>1. /\ headPacked \in [Classes -> Packed] /\ op \in [Threads -> Call]
      /\ freeLists_ \in [Classes -> Seq(Blocks)]
      /\ overtaken \in [Threads -> 0 .. MaxOvertakes]
      /\ next \in [Blocks -> Word]
  BY DEF PoolInv, PoolTypes
<1>2. PICK at \in [Blocks -> Kinds], by \in [Blocks -> Threads \cup {Null}] :
         Placed(at, by)
  BY DEF PoolInv, Where
<1>3. PICK s \in Seq(Blocks) : s = freeLists_[c] /\ s # <<>> /\ s[1] = y
  BY <1>1 DEF Takes
<1>4. Distinct(s) /\ Linked(s, headPacked[c].ptr, next)
  BY <1>2, <1>3, LinkedLists DEF Placed, PoolInv
<1>5. /\ Has(s, y) /\ Tail(s) \in Seq(Blocks)
      /\ \A x : Has(Tail(s), x) <=> Has(s, x) /\ x # y
  BY <1>3, <1>4, TailOf
<1>6. at[y] = "list" /\ class[y] = c
  BY <1>2, <1>3, <1>5 DEF Placed
<1>7. Linked(Tail(s), next[y], next) /\ next[y] # Junk
  BY <1>3, <1>4, PoppedIsLinked
<1>8. headPacked[c].tag \in Tags /\ popTag(headPacked[c].tag) \in Tags
  BY <1>1, TagGrows DEF Packed
<1>9. PICK head \in Packed :
         head = [ptr |-> next[y], tag |-> popTag(headPacked[c].tag)]
  BY <1>1, <1>7, <1>8 DEF Packed, Word
<1>10. head.ptr = next[y] /\ head.tag = popTag(headPacked[c].tag)
  BY <1>9
<1>11. /\ headPacked'[c] = head /\ headPacked' \in [Classes -> Packed]
       /\ \A d \in Classes \ {c} : headPacked'[d] = headPacked[d]
  BY <1>1, <1>9 DEF Takes
<1>12. /\ freeLists_'[c] = Tail(s) /\ freeLists_' \in [Classes -> Seq(Blocks)]
       /\ \A d \in Classes \ {c} : freeLists_'[d] = freeLists_[d]
  BY <1>1, <1>3, <1>5 DEF Takes
<1>13. \A d \in Classes \ {c} : ~Has(freeLists_[d], y)
  BY <1>2, <1>6 DEF Placed
<1>14. ListIsLinked'
  <2>1. ASSUME NEW d \in Classes
        PROVE  Linked(freeLists_'[d], headPacked'[d].ptr, next')
    <3>1. CASE d = c
      <4>1. \A x \in Blocks : Has(Tail(s), x) => next'[x] = next[x]
        BY <1>5 DEF Took
      <4>2. Linked(Tail(s), next[y], next')
        BY <1>5, <1>7, <4>1, RelinkedElsewhere
      <4>3. QED
        BY <1>10, <1>11, <1>12, <3>1, <4>2
    <3>2. CASE d # c
      <4>1. freeLists_[d] \in Seq(Blocks)
        BY <1>1
      <4>2. Linked(freeLists_[d], headPacked[d].ptr, next)
        BY LinkedLists DEF PoolInv
      <4>3. \A x \in Blocks : Has(freeLists_[d], x) => next'[x] = next[x]
        BY <1>13, <3>2 DEF Took
      <4>4. Linked(freeLists_[d], headPacked[d].ptr, next')
        BY <4>1, <4>2, <4>3, RelinkedElsewhere
      <4>5. QED
        BY <1>11, <1>12, <3>2, <4>4
    <3>3. QED
      BY <3>1, <3>2
  <2>2. QED
    BY <2>1 DEF ListIsLinked, Linked
<1>15. ASSUME NEW u \in Threads, u # t
       PROVE  /\ CallOk(op'[u], pc'[u])
              /\ PopOk(op'[u], pc'[u], headPacked'[op'[u].cls],
                       freeLists_'[op'[u].cls], overtaken'[u], next')
              /\ PushOk(op'[u], pc'[u], caches'[u][op'[u].cls], next', class')
              /\ overtaken'[u] \in 0 .. MaxOvertakes
  <2>1. /\ op'[u] = op[u] /\ pc'[u] = pc[u] /\ caches'[u] = caches[u]
        /\ op[u] \in Call /\ op[u].cls \in Classes
        /\ overtaken[u] \in 0 .. MaxOvertakes
    BY <1>1, <1>15 DEF Took, Call
  <2>2. op[u].node \in Blocks => /\ op[u].node # y
                                 /\ next'[op[u].node] = next[op[u].node]
                                 /\ class'[op[u].node] = class[op[u].node]
    BY <1>2, <1>6 DEF Placed, Took
  <2>3. CASE op[u].cls # c
    <3>1. u \notin Overtakes(t) /\ overtaken'[u] = overtaken[u]
      BY <1>1, <1>15, <2>3 DEF Takes, Overtakes
    <3>2. /\ headPacked'[op[u].cls].tag = headPacked[op[u].cls].tag
          /\ \A x \in Blocks : Has(freeLists_[op[u].cls], x) =>
                Has(freeLists_'[op[u].cls], x) /\ next'[x] = next[x]
      BY <1>11, <1>12, <1>13, <2>1, <2>3 DEF Took
    <3>3. QED
      BY <2>1, <2>2, <3>1, <3>2, Undisturbed DEF PoolInv
  <2>4. CASE op[u].cls = c
    <3>1. CallOk(op'[u], pc'[u])
      BY <2>1 DEF PoolInv, Calls
    <3>2. PushOk(op'[u], pc'[u], caches'[u][op'[u].cls], next', class')
      BY <2>1, <2>2 DEF PoolInv, Pushes, PushOk
    <3>3. CASE pc[u] \notin Popping
      <4>1. u \notin Overtakes(t) /\ overtaken'[u] = overtaken[u]
        BY <1>1, <1>15, <3>3 DEF Takes, Overtakes, Popping
      <4>2. QED
        BY <2>1, <3>1, <3>2, <3>3, <4>1 DEF PopOk
    <3>4. CASE pc[u] \in Popping
      <4>1. u \in Overtakes(t)
        BY <1>15, <2>4, <3>4 DEF Takes, Overtakes, Popping
      <4>2. overtaken'[u] = overtaken[u] + 1 /\ overtaken[u] < MaxOvertakes
        BY <1>1, <4>1 DEF Takes
      <4>3. PopOk(op[u], pc[u], headPacked[c], freeLists_[c], overtaken[u],
                  next)
        BY <2>4 DEF PoolInv, Pops
      <4>4. op[u].old.tag \in Tags
        BY <2>1 DEF Call, Packed
      <4>5. /\ overtaken[u] + 1 \in 0 .. MaxOvertakes
            /\ \/ head.tag = op[u].old.tag + (overtaken[u] + 1)
               \/ head.tag = op[u].old.tag + (overtaken[u] + 1) - TagSize
        BY <1>8, <1>10, <2>1, <3>4, <4>2, <4>3, <4>4, TagCounts DEF PopOk
      <4>6. overtaken[u] + 1 # 0
        BY <2>1
      <4>7. PopOk(op[u], pc[u], head, Tail(s), overtaken[u] + 1, next')
        BY <3>4, <4>3, <4>5, <4>6 DEF PopOk
      <4>8. QED
        BY <1>11, <1>12, <2>1, <2>4, <3>1, <3>2, <4>2, <4>5, <4>7
    <3>5. QED
      BY <3>3, <3>4
  <2>5. QED
    BY <2>3, <2>4
<1>16. /\ CallOk(op'[t], pc'[t])
       /\ PopOk(op'[t], pc'[t], headPacked'[op'[t].cls],
                freeLists_'[op'[t].cls], overtaken'[t], next')
       /\ PushOk(op'[t], pc'[t], caches'[t][op'[t].cls], next', class')
  BY DEF Took, PopOk, PushOk, Popping
<1>17. PoolTypes'
  <2>1. overtaken'[t] = 0 /\ 0 \in 0 .. MaxOvertakes
    BY LFPoolAssumption DEF Takes, Overtakes
  <2>2. ASSUME NEW u \in Threads PROVE overtaken'[u] \in 0 .. MaxOvertakes
    BY <1>15, <2>1
  <2>3. overtaken' \in [Threads -> 0 .. MaxOvertakes]
    BY <2>2 DEF Takes
  <2>4. QED
    BY <1>11, <1>12, <2>3 DEF PoolTypes, Took
<1>18. QED
  BY <1>14, <1>15, <1>16, <1>17 DEF PoolInv, Calls, Pops, Pushes


\* The compare-and-swap of pop() succeeds.
LEMMA PopCasKeeps ==
    ASSUME PoolInv, NEW t \in Threads, PopCas(t)
    PROVE  PoolInv'
<1>1. /\ op \in [Threads -> Call] /\ pc \in [Threads -> Places]
      /\ next \in [Blocks -> Word] /\ user \in [Blocks -> Sizes \cup {0}]
      /\ class \in [Blocks -> Classes \cup {Raw, Large}]
      /\ caches \in [Threads -> [Classes -> Seq(Blocks)]]
      /\ freeLists_ \in [Classes -> Seq(Blocks)]
  BY DEF PoolInv, PoolTypes
<1>2. PICK c \in Classes, y \in Blocks : y = op[t].old.ptr /\ Takes(t, c, y)
  BY CasTakes
<1>3. pc[t] = "popCas" /\ Popped(t) /\ c = op[t].cls
  BY <1>2 DEF PopCas, Takes
<1>4. /\ op[t].node = Null /\ op[t] \in Call /\ CallOk(op[t], "popCas")
      /\ op[t].does \in {"allocate", "cleanup"}
      /\ op[t].does # "cleanup" =>
            /\ op[t].size \in Sizes /\ ~isLarge(op[t].size)
            /\ c = sizeClass(op[t].size) /\ op[t].left >= 1
  BY <1>3, InPop DEF PoolInv, Calls, Popping
<1>5. PICK at \in [Blocks -> Kinds], by \in [Blocks -> Threads \cup {Null}] :
         Placed(at, by)
  BY DEF PoolInv, Where
<1>6. PICK s \in Seq(Blocks) : s = freeLists_[c] /\ s # <<>> /\ s[1] = y
  BY <1>1, <1>2 DEF Takes
<1>7. Distinct(s)
  BY <1>5, <1>6 DEF Placed
<1>8. /\ Has(s, y) /\ Tail(s) \in Seq(Blocks) /\ Distinct(Tail(s))
      /\ \A x : Has(Tail(s), x) <=> Has(s, x) /\ x # y
  BY <1>6, <1>7, TailOf
<1>9. at[y] = "list" /\ class[y] = c /\ user[y] = 0
  BY <1>5, <1>6, <1>8 DEF Placed
<1>10. ASSUME NEW d \in Classes
       PROVE  /\ Distinct(freeLists_'[d])
              /\ \A x \in Blocks : Has(freeLists_'[d], x) <=>
                    Has(freeLists_[d], x) /\ x # y
  <2>1. CASE d = c
    <3>1. freeLists_'[d] = Tail(s)
      BY <1>1, <1>2, <1>6, <2>1 DEF Takes
    <3>2. QED
      BY <1>6, <1>8, <2>1, <3>1
  <2>2. CASE d # c
    <3>1. freeLists_'[d] = freeLists_[d]
      BY <1>1, <1>2, <2>2 DEF Takes
    <3>2. QED
      BY <1>5, <1>9, <2>2, <3>1 DEF Placed
  <2>3. QED
    BY <2>1, <2>2
<1>11. ASSUME NEW u \in Threads, NEW d \in Classes
       PROVE  Distinct(caches[u][d]) /\ ~Has(caches[u][d], y)
  BY <1>5, <1>9 DEF Placed
<1>12. CASE op[t].does = "cleanup"
  <2>1. PICK o \in Call : o = [op[t] EXCEPT !.nxt = Null]
    BY <1>4 DEF Call, Word, Pointer
  <2>2. o.node = Null /\ o.does = "cleanup"
    BY <1>4, <1>12, <2>1 DEF Call
  <2>3. /\ class' = [class EXCEPT ![y] = Raw] /\ op' = [op EXCEPT ![t] = o]
        /\ pc' = [pc EXCEPT ![t] = "popLoad"]
        /\ UNCHANGED <<next, caches, user>>
    BY <1>1, <1>2, <1>3, <1>12, <2>1 DEF Popped, goto
  <2>4. CallOk(o, "popLoad") /\ "popLoad" \in Places
    BY <2>2 DEF CallOk, Places
  <2>5. Took(t, y)
    BY <1>1, <2>1, <2>3, <2>4 DEF Took
  <2>6. Sized'
    BY <1>1, <1>9, <2>3 DEF PoolInv, Sized
  <2>7. \A u \in Threads : op'[u].node = op[u].node
    BY <1>1, <1>4, <2>1, <2>2, <2>3
  <2>8. class'[y] = Raw /\ user'[y] = 0
        /\ \A x \in Blocks \ {y} : class'[x] = class[x] /\ user'[x] = user[x]
    BY <1>1, <1>9, <2>3
  <2>9. PICK k \in {"raw", "user", "cache"} : k = "raw"
    OBVIOUS
  <2>10. \A u \in Threads, d \in Classes :
            /\ Distinct(caches'[u][d])
            /\ \A x \in Blocks : Has(caches'[u][d], x) <=>
                  \/ Has(caches[u][d], x)
                  \/ k = "cache" /\ u = t /\ d = c /\ x = y
    BY <1>11, <2>3, <2>9
  <2>11. class'[y] = IF k = "raw" THEN Raw ELSE c
    BY <2>8, <2>9
  <2>12. user'[y] # 0 <=> k = "user"
    BY <2>8, <2>9
  <2>13. Where'
    <3>1. Moves(t, c, y, k)
      BY <1>9, <1>10, <2>7, <2>8, <2>10, <2>11, <2>12 DEF Moves
    <3>2. QED
      BY <1>5, <1>9, <2>9, <3>1, PoppedIsPlaced
  <2>14. QED
    BY <1>2, <1>3, <2>5, <2>6, <2>13, TakeKeeps
<1>13. CASE op[t].does # "cleanup"
  <2>1. PICK q \in Seq(Blocks) : q = caches[t][c]
    BY <1>1
  <2>2. PICK v \in Seq(Blocks) : v = push_back(q, y)
    BY PushBack
  <2>3. /\ v # <<>> /\ back(v) = y /\ pop_back(v) = q /\ Distinct(v)
        /\ \A x : Has(v, x) <=> Has(q, x) \/ x = y
    BY <1>11, <2>1, <2>2, PushBack
  <2>4. PICK size \in Sizes : size = op[t].size
    BY <1>4, <1>13
  <2>5. size # 0
    BY LFPoolAssumption
  <2>6. CASE op[t].left = 1
    <3>1. EndBatch(t, v)
      BY <1>2, <1>3, <1>13, <2>1, <2>2, <2>6 DEF Popped
    <3>2. /\ give(y, size) /\ caches' = [caches EXCEPT ![t][c] = q]
          /\ class' = class /\ return(t)
      BY <1>3, <2>3, <2>4, <3>1 DEF EndBatch
    <3>3. /\ user' = [user EXCEPT ![y] = size]
          /\ next' = [next EXCEPT ![y] = Junk]
          /\ op' = [op EXCEPT ![t] = Idle] /\ pc' = [pc EXCEPT ![t] = "idle"]
      BY <3>2 DEF give, return, goto
    <3>4. caches' = caches
      <4>1. Replaces(caches', caches, t, c, q)
        BY <3>2 DEF Replaces
      <4>2. Replaced(caches', caches, t, c, q)
        BY <1>1, <4>1, CacheSet
      <4>3. \A u \in Threads, d \in Classes : caches'[u][d] = caches[u][d]
        BY <2>1, <4>2 DEF Replaced
      <4>4. \A u \in Threads : caches'[u] = caches[u]
        <5> TAKE u \in Threads
        <5>1. /\ caches[u] \in [Classes -> Seq(Blocks)]
              /\ caches'[u] \in [Classes -> Seq(Blocks)]
          BY <1>1, <4>2 DEF Replaced
        <5>2. QED
          BY <4>3, <5>1
      <4>5. QED
        BY <1>1, <4>2, <4>4 DEF Replaced
    <3>5. Took(t, y)
      BY <1>1, <3>2, <3>3, <3>4, IdleIsCall DEF Took, Places, Word
    <3>6. Sized'
      BY <1>1, <1>4, <1>9, <1>13, <2>4, <3>2, <3>3 DEF PoolInv, Sized
    <3>7. \A u \in Threads : op'[u].node = op[u].node
      BY <1>1, <1>4, <3>3, IdleIsCall
    <3>8. /\ class'[y] = c /\ user'[y] = size
          /\ \A x \in Blocks \ {y} : class'[x] = class[x] /\ user'[x] = user[x]
      BY <1>1, <1>9, <3>2, <3>3
    <3>9. PICK k \in {"raw", "user", "cache"} : k = "user"
      OBVIOUS
    <3>10. \A u \in Threads, d \in Classes :
              /\ Distinct(caches'[u][d])
              /\ \A x \in Blocks : Has(caches'[u][d], x) <=>
                    \/ Has(caches[u][d], x)
                    \/ k = "cache" /\ u = t /\ d = c /\ x = y
      BY <1>11, <3>4, <3>9
    <3>11. class'[y] = IF k = "raw" THEN Raw ELSE c
      BY <3>8, <3>9
    <3>12. user'[y] # 0 <=> k = "user"
      BY <2>5, <3>8, <3>9
    <3>13. Where'
      <4>1. Moves(t, c, y, k)
        BY <1>9, <1>10, <3>7, <3>8, <3>10, <3>11, <3>12 DEF Moves
      <4>2. QED
        BY <1>5, <1>9, <3>9, <4>1, PoppedIsPlaced
    <3>14. QED
      BY <1>2, <1>3, <3>5, <3>6, <3>13, TakeKeeps
  <2>7. CASE op[t].left # 1
    <3>1. PICK n \in Nat : n = op[t].left - 1 /\ n >= 1
      BY <1>4, <1>13, <2>7 DEF Call
    <3>2. PICK o \in Call : o = [op[t] EXCEPT !.left = n, !.nxt = Null]
      BY <1>4, <3>1 DEF Call, Word, Pointer
    <3>3. /\ o.node = Null /\ o.left = n /\ o.cls = c /\ o.does = op[t].does
          /\ o.size = op[t].size
      BY <1>3, <1>4, <3>2 DEF Call
    <3>4. /\ Replaces(caches', caches, t, c, v)
          /\ op' = [op EXCEPT ![t] = o] /\ pc' = [pc EXCEPT ![t] = "popLoad"]
          /\ UNCHANGED <<next, class, user>>
      BY <1>1, <1>2, <1>3, <1>13, <2>1, <2>2, <2>7, <3>1, <3>2
      DEF Popped, Replaces, goto
    <3>5. CallOk(o, "popLoad") /\ "popLoad" \in Places
      BY <1>3, <1>4, <1>13, <3>1, <3>3 DEF CallOk, Places
    <3>6. Replaced(caches', caches, t, c, v)
      BY <1>1, <3>4, CacheSet
    <3>7. Took(t, y)
      BY <1>1, <3>2, <3>4, <3>5, <3>6 DEF Took, Replaced
    <3>8. Sized'
      BY <3>4 DEF PoolInv, Sized
    <3>9. \A u \in Threads : op'[u].node = op[u].node
      BY <1>1, <1>4, <3>2, <3>3, <3>4
    <3>10. PICK k \in {"raw", "user", "cache"} : k = "cache"
      OBVIOUS
    <3>11. \A u \in Threads, d \in Classes :
              /\ Distinct(caches'[u][d])
              /\ \A x \in Blocks : Has(caches'[u][d], x) <=>
                    \/ Has(caches[u][d], x)
                    \/ k = "cache" /\ u = t /\ d = c /\ x = y
      <4> TAKE u \in Threads, d \in Classes
      <4>1. CASE u = t /\ d = c
        BY <2>1, <2>3, <3>6, <3>10, <4>1 DEF Replaced
      <4>2. CASE ~(u = t /\ d = c)
        BY <1>11, <3>6, <4>2 DEF Replaced
      <4>3. QED
        BY <4>1, <4>2
    <3>12. class'[y] = IF k = "raw" THEN Raw ELSE c
      BY <1>9, <3>4, <3>10
    <3>13. user'[y] # 0 <=> k = "user"
      BY <1>9, <3>4, <3>10
    <3>14. \A x \in Blocks \ {y} : class'[x] = class[x] /\ user'[x] = user[x]
      BY <3>4
    <3>15. Where'
      <4>1. Moves(t, c, y, k)
        BY <1>9, <1>10, <3>9, <3>11, <3>12, <3>13, <3>14 DEF Moves
      <4>2. QED
        BY <1>5, <1>9, <3>10, <4>1, PoppedIsPlaced
    <3>16. QED
      BY <1>2, <1>3, <3>7, <3>8, <3>15, TakeKeeps
  <2>8. QED
    BY <2>6, <2>7
<1>14. QED
  BY <1>12, <1>13


\* The invariant holds when every block is with malloc.
LEMMA PoolStarts == PoolInit => PoolInv
<1> SUFFICES ASSUME PoolInit PROVE PoolInv
  OBVIOUS
<1>1. /\ 0 \in Tags /\ 0 \in 0 .. MaxOvertakes
      /\ Raw \in Classes \cup {Raw, Large} /\ Junk \in Word
      /\ "idle" \in Places /\ <<>> \in Seq(Blocks)
  BY LFPoolAssumption DEF Tags, Word, Places
<1>2. PICK z \in Tags : z = 0
  BY <1>1
<1>3. [ptr |-> Null, tag |-> z] \in Packed
  BY DEF Packed, Pointer
<1>4. headPacked = [c \in Classes |-> [ptr |-> Null, tag |-> z]]
  BY <1>2 DEF PoolInit
<1>5. PoolTypes
  BY <1>1, <1>3, <1>4, IdleIsCall DEF PoolInit, PoolTypes
<1>6. \A t \in Threads : pc[t] = "idle" /\ op[t] = Idle
  BY DEF PoolInit
<1>7. Calls /\ Pops /\ Pushes
  BY <1>6, IdleIsCall DEF Calls, Pops, Pushes, PopOk, PushOk, Popping
<1>8. Sized
  BY DEF PoolInit, Sized
<1>9. \A c \in Classes : headPacked[c].ptr = Null /\ freeLists_[c] = <<>>
  BY DEF PoolInit
<1>10. DOMAIN <<>> = {}
  OBVIOUS
<1>11. ListIsLinked
  BY <1>9, <1>10 DEF ListIsLinked
<1>12. Where
  <2> DEFINE at == [x \in Blocks |-> "raw"]
             by == [x \in Blocks |-> Null]
  <2>1. /\ at \in [Blocks -> Kinds] /\ \A x \in Blocks : at[x] = "raw"
        /\ by \in [Blocks -> Threads \cup {Null}]
    BY DEF Kinds
  <2> HIDE DEF at, by
  <2>2. \A x \in Blocks : class[x] = Raw /\ user[x] = 0
    BY DEF PoolInit
  <2>3. \A t \in Threads : op[t].node \notin Blocks
    BY <1>6, IdleIsCall, NullIsNoBlock
  <2>4. \A t \in Threads, c \in Classes : caches[t][c] = <<>>
    BY DEF PoolInit
  <2>5. Distinct(<<>>) /\ \A x : ~Has(<<>>, x)
    BY <1>10 DEF Distinct, Has
  <2>6. Placed(at, by)
    BY <1>9, <2>1, <2>2, <2>3, <2>4, <2>5 DEF Placed
  <2>7. QED
    BY <2>1, <2>6 DEF Where
<1>13. QED
  BY <1>5, <1>7, <1>8, <1>11, <1>12 DEF PoolInv

\* The invariant is about the variables only.
LEMMA PoolStutters == PoolInv /\ UNCHANGED poolVars => PoolInv'
<1> SUFFICES ASSUME PoolInv, UNCHANGED poolVars PROVE PoolInv'
  OBVIOUS
<1> USE DEF poolVars
<1>1. PoolTypes'
  BY DEF PoolInv, PoolTypes
<1>2. Sized'
  BY DEF PoolInv, Sized
<1>3. Calls' /\ Pops' /\ Pushes'
  BY DEF PoolInv, Calls, Pops, Pushes
<1>4. ListIsLinked'
  BY DEF PoolInv, ListIsLinked
<1>5. Where'
  <2>1. PICK at \in [Blocks -> Kinds], by \in [Blocks -> Threads \cup {Null}] :
           Placed(at, by)
    BY DEF PoolInv, Where
  <2>2. Placed(at, by)'
    BY <2>1 DEF Placed
  <2>3. QED
    BY <2>2 DEF Where
<1>6. QED
  BY <1>1, <1>2, <1>3, <1>4, <1>5 DEF PoolInv

\* Every step of a thread keeps the invariant.
LEMMA PoolSteps == PoolInv /\ [PoolNext]_poolVars => PoolInv'
<1> SUFFICES ASSUME PoolInv, PoolNext PROVE PoolInv'
  BY PoolStutters
<1>1. ASSUME NEW t \in Threads, Step(t) PROVE PoolInv'
  BY <1>1, PopLoadKeeps, PopVerifyKeeps, PopNextKeeps, PopCasKeeps,
     PopCasFailsKeeps, PushLoadKeeps, PushCasKeeps, PushCasFailsKeeps
  DEF Step
<1>2. ASSUME NEW t \in Threads, Cleanup(t) PROVE PoolInv'
  BY <1>2, CleanupKeeps
<1>3. ASSUME NEW t \in Threads, NEW size \in Sizes,
             \/ AllocateLarge(t, size) \/ AllocateCached(t, size)
             \/ Allocate(t, size)
      PROVE  PoolInv'
  BY <1>3, AllocateLargeKeeps, AllocateCachedKeeps, AllocateKeeps
<1>4. ASSUME NEW t \in Threads, NEW x \in Blocks,
             DeallocateLarge(t, x) \/ Deallocate(t, x)
      PROVE  PoolInv'
  BY <1>4, DeallocateLargeKeeps, DeallocateKeeps
<1>5. QED
  BY <1>1, <1>2, <1>3, <1>4 DEF PoolNext

\* A block that is in one place has one holder, and a block that malloc has
\* not given has none.
LEMMA PlacedIsHeld == Where /\ PoolTypes => BlockHasOneHolder
<1> SUFFICES ASSUME Where, PoolTypes, NEW x \in Blocks
             PROVE  Cardinality(Holders(x)) = IF class[x] = Raw THEN 0 ELSE 1
  BY DEF BlockHasOneHolder
<1>1. PICK at \in [Blocks -> Kinds], by \in [Blocks -> Threads \cup {Null}] :
         Placed(at, by)
  BY DEF Where
<1>2. /\ at[x] = "raw" <=> class[x] = Raw
      /\ at[x] = "user" <=> user[x] # 0
      /\ \A t \in Threads : op[t].node = x <=> at[x] = "push" /\ by[x] = t
      /\ \A t \in Threads, c \in Classes :
            Has(caches[t][c], x) <=>
                at[x] = "cache" /\ by[x] = t /\ class[x] = c
      /\ \A c \in Classes :
            Has(freeLists_[c], x) <=> at[x] = "list" /\ class[x] = c
      /\ at[x] \in {"push", "cache"} => by[x] \in Threads
      /\ at[x] \in {"cache", "list"} => class[x] \in Classes
      /\ at[x] \in Kinds
  BY <1>1 DEF Placed
<1>3. Holders(x) =
          WithUser(x) \cup InPushes(x) \cup InCaches(x) \cup InLists(x)
  BY DEF Holders
<1>4. at[x] # "user" => WithUser(x) = {}
  BY <1>2 DEF WithUser
<1>5. at[x] # "push" => InPushes(x) = {}
  BY <1>2 DEF InPushes
<1>6. \A s : /\ ~Has(s, x) => Positions(s, x) = {}
             /\ Has(s, x) /\ Distinct(s) => \E i : Positions(s, x) = {i}
  BY DEF Has, Distinct, Positions
<1>7. at[x] # "cache" => InCaches(x) = {}
  <2>1. ASSUME at[x] # "cache", NEW t \in Threads PROVE InCache(x, t) = {}
    BY <1>2, <1>6, <2>1 DEF InCache
  <2>2. QED
    BY <2>1 DEF InCaches
<1>8. at[x] # "list" => InLists(x) = {}
  BY <1>2, <1>6 DEF InLists
<1>9. at[x] = "user" => WithUser(x) = {<<"user">>}
  BY <1>2 DEF WithUser
<1>10. at[x] = "push" => InPushes(x) = {<<"push", by[x]>>}
  BY <1>2 DEF InPushes
<1>11. ASSUME at[x] = "cache" PROVE \E h : InCaches(x) = {h}
  <2>1. by[x] \in Threads /\ class[x] \in Classes
    BY <1>2, <1>11
  <2>2. PICK i : Positions(caches[by[x]][class[x]], x) = {i}
    BY <1>1, <1>2, <1>6, <1>11, <2>1 DEF Placed
  <2>3. \A t \in Threads, c \in Classes :
           ~(t = by[x] /\ c = class[x]) => Positions(caches[t][c], x) = {}
    BY <1>2, <1>6
  <2>4. ASSUME NEW t \in Threads, t # by[x] PROVE InCache(x, t) = {}
    BY <2>3, <2>4 DEF InCache
  <2>5. InCache(x, by[x]) = {<<"cache", by[x], class[x], i>>}
    BY <2>1, <2>2, <2>3 DEF InCache
  <2>6. InCaches(x) = {<<"cache", by[x], class[x], i>>}
    BY <2>1, <2>4, <2>5 DEF InCaches
  <2>7. QED
    BY <2>6
<1>12. ASSUME at[x] = "list" PROVE \E h : InLists(x) = {h}
  <2>1. class[x] \in Classes
    BY <1>2, <1>12
  <2>2. PICK i : Positions(freeLists_[class[x]], x) = {i}
    BY <1>1, <1>2, <1>6, <1>12, <2>1 DEF Placed
  <2>3. \A c \in Classes : c # class[x] => Positions(freeLists_[c], x) = {}
    BY <1>2, <1>6
  <2>4. InLists(x) = {<<"list", class[x], i>>}
    <3>1. ASSUME NEW h \in InLists(x) PROVE h = <<"list", class[x], i>>
      <4>1. PICK c \in Classes :
               h \in {<<"list", c, j>> : j \in Positions(freeLists_[c], x)}
        BY DEF InLists
      <4>2. QED
        BY <2>2, <2>3, <4>1
    <3>2. <<"list", class[x], i>> \in InLists(x)
      BY <2>1, <2>2 DEF InLists
    <3>3. QED
      BY <3>1, <3>2
  <2>5. QED
    BY <2>4
<1>13. CASE at[x] = "raw"
  BY <1>2, <1>3, <1>4, <1>5, <1>7, <1>8, <1>13, FS_EmptySet
<1>14. CASE at[x] # "raw"
  <2>1. \E h : Holders(x) = {h}
    <3>1. CASE at[x] = "user"
      BY <1>3, <1>5, <1>7, <1>8, <1>9, <3>1
    <3>2. CASE at[x] = "push"
      BY <1>3, <1>4, <1>7, <1>8, <1>10, <3>2
    <3>3. CASE at[x] = "cache"
      <4>1. PICK h : InCaches(x) = {h}
        BY <1>11, <3>3
      <4>2. Holders(x) = {h}
        BY <1>3, <1>4, <1>5, <1>8, <3>3, <4>1
      <4>3. QED
        BY <4>2
    <3>4. CASE at[x] = "list"
      <4>1. PICK h : InLists(x) = {h}
        BY <1>12, <3>4
      <4>2. Holders(x) = {h}
        BY <1>3, <1>4, <1>5, <1>7, <3>4, <4>1
      <4>3. QED
        BY <4>2
    <3>5. QED
      BY <1>2, <1>14, <3>1, <3>2, <3>3, <3>4 DEF Kinds
  <2>2. \A h : Cardinality({h}) = 1
    BY FS_Singleton
  <2>3. QED
    BY <1>2, <1>14, <2>1, <2>2
<1>15. QED
  BY <1>13, <1>14

\* PoolInv is an invariant of the pool.
THEOREM PoolInvariant == PoolSpec => []PoolInv
<1>1. QED
  BY PoolStarts, PoolSteps, PTL DEF PoolSpec

\* allocate() gives no block to two users and loses none, the words of the
\* blocks link the free lists whatever pops and pushes overtake each other,
\* and a block is as large as its user asked for: for any threads, blocks,
\* sizes and cache capacity, when fewer pops overtake one pop than there
\* are tags.
THEOREM PoolKeepsBlocks == PoolSpec => []PoolIsSound
<1>1. PoolInv => BlockIsLargeEnough
  <2> SUFFICES ASSUME PoolInv, NEW x \in Blocks, user[x] # 0,
                      class[x] # Large
               PROVE  /\ class[x] \in Classes
                      /\ blockSize(class[x]) >= user[x]
    BY DEF BlockIsLargeEnough
  <2>1. user[x] \in Sizes
    BY DEF PoolInv, PoolTypes
  <2>2. ~isLarge(user[x]) /\ class[x] = sizeClass(user[x])
    BY DEF PoolInv, Sized
  <2>3. QED
    BY <2>1, <2>2, SizeHasClass
<1>2. PoolInv => PoolIsSound
  BY <1>1, PlacedIsHeld DEF PoolInv, PoolIsSound
<1>3. QED
  BY <1>2, PoolInvariant, PTL

=============================================================================
