-------------------------- MODULE UringTcpConnection -------------------------
(***************************************************************************)
(* io_uring/UringCoroTcpConnection.cpp: the operations of one connection   *)
(* and the coroutines read(), send() and connectionLoop(), as functions on *)
(* its record.                                                             *)
(*   state    state_                                                       *)
(*   handler  the connection handler: "none" before start(), "suspended"   *)
(*            in a read() or send(), "done"                                *)
(*   does     "read" or "write", what the handler waits for                *)
(*   left     remain_write: the bytes that are still to come               *)
(*   posts    the functors queued to loop_ in this step                    *)
(*   closes   whether closeCallback_ was called in this step               *)
(*   polite   the handler returns when its connection is closed, and       *)
(*            nobody closes it while the handler is suspended              *)
(*   half     shutdown() was called                                        *)
(* and the socket, a blocking one, as the kernel sees it:                  *)
(*   inbox, fin, rst   bytes to be read, and what follows them             *)
(*   full              the send buffer is full                             *)
(*   shutRd, shutWr    shutdown() was called for that direction            *)
(* handle_ is set, and handlers ask for at least one byte.                 *)
(***************************************************************************)
EXTENDS UringPoller

CONSTANT MaxLen   \* bound: the bytes a handler asks to read or send

NewConn == [state |-> "KDisconnected", handler |-> "none", does |-> "none",
            left |-> 0, posts |-> <<>>, closes |-> FALSE, polite |-> TRUE,
            half |-> FALSE,
            inbox |-> 0, fin |-> FALSE, rst |-> FALSE, full |-> FALSE,
            shutRd |-> FALSE, shutWr |-> FALSE]

\* ~UringTcpConnection, which closes the descriptor.
destroyed == [NewConn EXCEPT !.handler = "done"]
-----------------------------------------------------------------------------
(* The socket (external): what an operation can end with; 0 is the end of  *)
(* the stream and -1 an error.                                             *)

readResults(k) ==
    CASE k.rst -> {-1}
      [] ~k.rst /\ k.inbox > 0 -> {n \in 1 .. k.left : n <= k.inbox}
      [] ~k.rst /\ k.inbox = 0 /\ (k.fin \/ k.shutRd) -> {0}
      [] OTHER -> {}

writeResults(k) == IF k.rst \/ k.shutWr THEN {-1}
                   ELSE IF k.full THEN {} ELSE 1 .. k.left

results(k) == IF k.does = "read" THEN readResults(k) ELSE writeResults(k)

\* A reset is reported once, then the socket is at its end.
socketAfter(k, res) ==
    CASE res < 0 -> [k EXCEPT !.fin = @ \/ k.rst, !.shutWr = @ \/ k.rst,
                              !.rst = FALSE, !.inbox = 0]
      [] k.does = "read" /\ res >= 0 -> [k EXCEPT !.inbox = @ - res]
      [] k.does = "write" /\ res >= 0 -> [k EXCEPT !.full = res < k.left]
-----------------------------------------------------------------------------
(* Closing.                                                                *)

\* Mutant: no functor keeps the connection for the rest of the pass.
handleCloseUnguarded(k) ==
    IF k.state = "KDisconnected" THEN k
    ELSE [k EXCEPT !.state = "KDisconnected", !.closes = TRUE]

\* Mutant: the server is not told.
handleCloseUntold(k) ==
    IF k.state = "KDisconnected" THEN k
    ELSE [k EXCEPT !.state = "KDisconnected", !.posts = Append(@, "guard")]

handleClose(k) ==
    IF k.state = "KDisconnected" THEN k
    ELSE [k EXCEPT !.state = "KDisconnected", !.closes = TRUE,
                   !.posts = Append(@, "guard")]

forceclose(k) ==
    IF k.state \in {"KDisconnected", "KDisconnecting"} THEN k
    ELSE [k EXCEPT !.state = "KDisconnecting",
                   !.posts = Append(@, "forceclose"),
                   !.polite = @ /\ k.handler # "suspended"]

\* The caller sees to assert(state_ == KConnected).
shutdown(k) == [k EXCEPT !.state = "KDisconnecting", !.half = TRUE,
                         !.posts = Append(@, "shutdown")]

forcecloseInLoop(k) ==
    handleClose([k EXCEPT !.shutRd = TRUE, !.shutWr = TRUE])

shutdownInLoop(k) == [k EXCEPT !.shutWr = TRUE]

Ops == {"shutdown", "forceclose"}
admits(op, k) == op = "shutdown" => k.state = "KConnected"
call(op, k) == CASE op = "shutdown" -> shutdown(k)
                 [] op = "forceclose" -> forceclose(k)
                 [] OTHER -> k
-----------------------------------------------------------------------------
(* The coroutines.                                                         *)

\* connectionLoop() after its co_await.
endLoop(k) ==
    LET k1 == [k EXCEPT !.handler = "done", !.does = "none", !.left = 0]
    IN  IF k1.state # "KDisconnected" THEN forceclose(k1) ELSE k1

\* The handler runs: it calls op, and awaits a read or a send or returns.
handle(k, op, then) ==
    LET k1 == call(op, [k EXCEPT !.handler = "running"])
    IN  IF then = "return" THEN endLoop(k1)
        ELSE [k1 EXCEPT !.handler = "suspended", !.does = then,
                 !.left = MaxLen,
                 !.polite = @ /\ k.state # "KDisconnected"
                              /\ op # "forceclose"]

\* start(), with connectionLoop() up to the handler.
start(k) == [k EXCEPT !.state = "KConnected"]

\* Mutant: the end of the stream is repeated like an interrupted call.
repeatsAtEnd(k, res, again) ==
    \/ res > 0 /\ res < k.left
    \/ res = 0
    \/ res < 0 /\ again

\* read() and send() wait again: for the rest, after a failure for which
\* errno is one to be repeated, and send() after 0.  errno is not set by
\* io_uring: it is what some earlier call left there.
repeats(k, res, again) ==
    \/ res > 0 /\ res < k.left
    \/ res = 0 /\ k.does = "write"
    \/ res < 0 /\ again

remaining(k, res) == [k EXCEPT !.left = IF res > 0 THEN @ - res ELSE @]

\* read() and send() return, to the handler, at the end or after a failure
\* with the connection closed.
finished(k, res) == IF res > 0 THEN k ELSE handleClose(k)

=============================================================================
