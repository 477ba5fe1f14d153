------------------------------ MODULE ByteQueue ------------------------------
(***************************************************************************)
(* What a Buffer promises its users: a queue of bytes that is written at   *)
(* the back, read at the front, and at either end may be taken back from   *)
(* or added to.  Nothing else ever changes, reorders or loses a byte.      *)
(***************************************************************************)
EXTENDS Integers, Sequences

CONSTANTS Data    \* the strings of bytes that may be written

VARIABLES bytes,
          call    \* the last call and its argument

None == <<"none", 0>>

Init == bytes = <<>> /\ call = None

Write(d) == call' = <<"write", d>> /\ bytes' = bytes \o d
Prepend(d) == call' = <<"prepend", d>> /\ bytes' = d \o bytes
Take(n) == /\ call' = <<"take", n>>
           /\ bytes' = SubSeq(bytes, n + 1, Len(bytes))
TakeBack(n) == /\ call' = <<"takeBack", n>>
               /\ bytes' = SubSeq(bytes, 1, Len(bytes) - n)
\* The space is arranged otherwise, which is no change of the queue.
Rearrange == call' = None /\ UNCHANGED bytes

Next == \/ \E d \in Data : Write(d) \/ Prepend(d)
        \/ \E n \in 0 .. Len(bytes) : Take(n) \/ TakeBack(n)
        \/ Rearrange

Spec == Init /\ [][Next]_<<bytes, call>>

=============================================================================
