---------------------------- MODULE TcpConnection ----------------------------
(***************************************************************************)
(* net/TcpConnection.cpp: the operations of one connection that run in its *)
(* loop's thread, as functions on the connection's record.                 *)
(*   state     state_                                                      *)
(*   reading   reading_                                                    *)
(*   out       outputBuffer_, counted in messages not yet written whole    *)
(*   ch        channel_ (module Channel)                                   *)
(*   timer     the loop's TimerQueue holds a forceCloseWithDelay closure   *)
(*   posts     what the operation hands to loop_->queueInLoop              *)
(*   closes    how often closeCallback_ was called and not yet answered    *)
(*   ups, downs  the calls of connectionCallback_, by connected()          *)
(*   failed    the asserts that did not hold                               *)
(* and the socket, as the kernel sees it:                                  *)
(*   inbox     what came: "data", then "fin" or "rst"; and "err" while the *)
(*             error of a reset has not been fetched (SO_ERROR)            *)
(*   full      the socket's send buffer is full                            *)
(*   finSent   shutdown(SHUT_WR) was called                                *)
(***************************************************************************)
EXTENDS Channel, Sequences

CONSTANT HighWaterMark   \* highWaterMark_, in messages

NewConn == [state |-> "kConnecting", reading |-> TRUE, out |-> 0,
            ch |-> NewChannel, timer |-> FALSE, posts |-> <<>>, closes |-> 0,
            ups |-> 0, downs |-> 0, failed |-> {},
            inbox |-> {}, full |-> FALSE, finSent |-> FALSE]

Open(k) == k.state \in {"kConnected", "kDisconnecting"}

post(k, functor) == [k EXCEPT !.posts = Append(@, functor)]
-----------------------------------------------------------------------------
(* The socket (external): what a write can do.                             *)

\* The sockets of connections are blocking ones (Socket::accept), so a write
\* ends with "all" of the bytes unless a signal cuts it short ("part",
\* "none") while it waits for room; or with EPIPE or ECONNRESET, which
\* fetches the error.
WriteResults == {"all", "part", "none", "fault"}

mayEnd(k, w) == (w = "fault") <=> (k.finSent \/ "rst" \in k.inbox)

written(k, w) == [k EXCEPT !.full = w \in {"part", "none"},
                           !.inbox = @ \ {e \in {"err"} : w = "fault"}]
-----------------------------------------------------------------------------
(* Sending.                                                                *)

\* The tail of sendInLoop: the rest of the message goes to outputBuffer_.
buffer(k) ==
    LET crossed == k.out + 1 >= HighWaterMark /\ k.out < HighWaterMark
        kept == [(IF crossed THEN post(k, "highWaterMark") ELSE k)
                 EXCEPT !.out = @ + 1]
    IN  IF isWriting(k.ch) THEN kept
                           ELSE [kept EXCEPT !.ch = enableWriting(@)]

\* TcpConnection::sendInLoop, where a write, if made, ends with w.
sendInLoop(k, w) ==
    LET direct == ~isWriting(k.ch) /\ k.out = 0
    IN  CASE k.state = "kDisconnected"  -> k
          [] k.state # "kDisconnected" /\ ~direct -> buffer(k)
          [] k.state # "kDisconnected" /\ direct  ->
                 CASE w = "all"   -> post(written(k, w), "writeComplete")
                   [] w = "fault" -> written(k, w)
                   [] OTHER       -> buffer(written(k, w))

\* Mutant: the half-close does not wait for outputBuffer_.
shutdownInLoopNow(k) == [k EXCEPT !.finSent = TRUE]

\* TcpConnection::shutdownInLoop.
shutdownInLoop(k) ==
    IF isWriting(k.ch) THEN k ELSE [k EXCEPT !.finSent = TRUE]

\* Mutant: a drained buffer does not finish a pending half-close.
handleWriteForgets(k, w) ==
    IF isWriting(k.ch) /\ w = "all"
    THEN [k EXCEPT !.out = 0, !.ch = disableWriting(@)]
    ELSE IF isWriting(k.ch) THEN written(k, w) ELSE k

\* TcpConnection::handleWrite.
handleWrite(k, w) ==
    CASE ~isWriting(k.ch) -> k
      [] isWriting(k.ch) /\ w = "all" ->
             LET done == post([written(k, w) EXCEPT !.out = 0,
                                  !.ch = disableWriting(@)], "writeComplete")
             IN  IF k.state = "kDisconnecting" THEN shutdownInLoop(done)
                                               ELSE done
      [] isWriting(k.ch) /\ w # "all" -> written(k, w)
-----------------------------------------------------------------------------
(* Closing.                                                                *)

startReadInLoop(k) ==
    IF ~k.reading \/ ~isReading(k.ch)
    THEN [k EXCEPT !.ch = enableReading(@), !.reading = TRUE] ELSE k

stopReadInLoop(k) ==
    IF k.reading \/ isReading(k.ch)
    THEN [k EXCEPT !.ch = disableReading(@), !.reading = FALSE] ELSE k

\* connectionCallback_ sees connected() = FALSE.
down(k) == [k EXCEPT !.downs = @ + 1]

\* Mutant: closeCallback_ is not called.
handleCloseUntold(k) ==
    down([k EXCEPT !.state = "kDisconnected", !.ch = disableAll(@)])

\* TcpConnection::handleClose: the answer to closeCallback_ is TcpServer's.
handleClose(k) ==
    down([k EXCEPT !.failed = @ \cup Assert_(Open(k), "TcpConnection.cpp:260"),
                   !.state = "kDisconnected", !.ch = disableAll(@),
                   !.closes = @ + 1])

\* TcpConnection::forceCloseInLoop.
forceCloseInLoop(k) == IF Open(k) THEN handleClose(k) ELSE k

\* TcpConnection::connectEstablished, the callback's own calls apart.
connectEstablished(k) ==
    [k EXCEPT
        !.failed = @ \cup Assert_(k.state = "kConnecting",
                                  "TcpConnection.cpp:196"),
        !.state = "kConnected", !.ch = enableReading(@), !.ups = @ + 1]

\* Mutant: the connection is torn down whatever its state, again.
connectDestroyedAgain(k) ==
    LET closed == down([k EXCEPT !.state = "kDisconnected",
                                 !.ch = disableAll(@)])
    IN  [closed EXCEPT !.ch = remove(@)]

\* Mutant: the channel is not taken from the poller.
connectDestroyedStaysInPoller(k) ==
    IF k.state = "kConnected"
    THEN down([k EXCEPT !.state = "kDisconnected", !.ch = disableAll(@)])
    ELSE k

\* TcpConnection::connectDestroyed.
connectDestroyed(k) ==
    LET closed == IF k.state = "kConnected"
                  THEN down([k EXCEPT !.state = "kDisconnected",
                                      !.ch = disableAll(@)])
                  ELSE k
    IN  [closed EXCEPT !.ch = remove(@)]
-----------------------------------------------------------------------------
(* The calls of user code.                                                 *)

Ops == {"send", "shutdown", "forceClose", "forceCloseWithDelay", "startRead",
        "stopRead"}

\* The test of state_ the operation starts with.
admits(op, state) ==
    CASE op \in {"send", "shutdown"} -> state = "kConnected"
      [] op \in {"forceClose", "forceCloseWithDelay"} ->
             state \in {"kConnected", "kDisconnecting"}
      [] OTHER -> TRUE

\* The store that follows it.
stored(op, state) ==
    IF op \in {"shutdown", "forceClose", "forceCloseWithDelay"}
    THEN "kDisconnecting" ELSE state

\* What is left to do in the loop's thread.
inLoop(op, k, w) ==
    CASE op = "send"       -> sendInLoop(k, w)
      [] op = "shutdown"   -> shutdownInLoop(k)
      [] op = "forceClose" -> forceCloseInLoop(k)
      [] op = "startRead"  -> startReadInLoop(k)
      [] op = "stopRead"   -> stopReadInLoop(k)

\* The call in the loop's own thread: runInLoop calls on the spot,
\* forceClose queues and forceCloseWithDelay sets a timer.
call(op, k, w) ==
    LET s == [k EXCEPT !.state = stored(op, @)]
    IN  CASE ~admits(op, k.state)        -> k
          [] admits(op, k.state) /\ op = "forceClose" -> post(s, op)
          [] admits(op, k.state) /\ op = "forceCloseWithDelay" ->
                 [s EXCEPT !.timer = TRUE]
          [] OTHER -> inLoop(op, s, w)

\* Mutant: a read of no bytes does not close the connection.
handleReadIgnoresFin(k, op, w) ==
    IF "data" \in k.inbox THEN [k EXCEPT !.inbox = @ \ {"data"}] ELSE k

\* TcpConnection::handleError fetches the error.
handleError(k) == [k EXCEPT !.inbox = @ \ {"err"}]

\* TcpConnection::handleRead: the data that was there at the time of the
\* read is read whole and the message callback calls op, or nothing.
handleRead(k, op, w) ==
    CASE "data" \in k.inbox ->
             LET read == [k EXCEPT !.inbox = @ \ {"data"}]
             IN  IF op \in Ops THEN call(op, read, w) ELSE read
      [] "data" \notin k.inbox /\ "err" \in k.inbox -> handleError(k)
      [] k.inbox \in {{"fin"}, {"rst"}} -> handleClose(k)
      [] OTHER -> k

\* Channel::handleEventWithGuard.
handleEvent(k, revents, op, w) ==
    LET k1 == IF "hup" \in revents /\ "in" \notin revents
              THEN handleClose(k) ELSE k
        k2 == IF "err" \in revents THEN handleError(k1) ELSE k1
        k3 == IF "in" \in revents THEN handleRead(k2, op, w) ELSE k2
    IN  IF "out" \in revents THEN handleWrite(k3, w) ELSE k3

\* What epoll_wait would report for the socket (external).  After a reset it
\* is writable, and closed both ways.
revents(k) ==
    {e \in {"in"} : kReadEvent \in k.ch.epoll /\ k.inbox # {}} \cup
    {e \in {"out"} : kWriteEvent \in k.ch.epoll
                       /\ (~k.full \/ "rst" \in k.inbox)} \cup
    {e \in {"err"} : "err" \in k.inbox} \cup
    {e \in {"hup"} : "rst" \in k.inbox \/ ("fin" \in k.inbox /\ k.finSent)}

=============================================================================
