--------------------------- MODULE SerialExecutor ---------------------------
(***************************************************************************)
(* What EventLoop promises to the code that calls runInLoop or             *)
(* queueInLoop from any thread: an unbounded queue of tasks that one       *)
(* thread starts one after the other, in the order in which they were      *)
(* accepted, each exactly once.  A task is named by its position in that   *)
(* order.  TcpServer, TcpConnection and TimerQueue rely on nothing else of *)
(* the loop's task queue.                                                  *)
(***************************************************************************)
EXTENDS Naturals, Sequences

VARIABLES queue,   \* accepted, not yet started
          done     \* started, in the order in which they were started

vars == <<queue, done>>

\* The name the next accepted task gets.
NextId == Len(done) + Len(queue) + 1

Init == queue = <<>> /\ done = <<>>

Post == queue' = Append(queue, NextId) /\ UNCHANGED done

Start == /\ queue # <<>>
         /\ done' = Append(done, Head(queue))
         /\ queue' = Tail(queue)

Next == Post \/ Start

Spec == Init /\ [][Next]_vars

=============================================================================
