-------------------------- MODULE CoroTcpConnection --------------------------
(***************************************************************************)
(* coro/CoroTcpConnection.cpp and coro/CoroChannel.cpp: the operations of  *)
(* one connection, as functions on its record.                             *)
(*   connected   connected_                                                *)
(*   writing     writing_                                                  *)
(*   out         outputBuffer_, counted in messages not yet written whole  *)
(*   attached    the CoroChannel has a Channel (attached_ and channel_)    *)
(*   waits       writing_ of the CoroChannel                               *)
(*   ch          that Channel, and what the poller and epoll keep for the  *)
(*               descriptor also after the Channel is gone                 *)
(*   handling    eventHandling_ of the Channel                             *)
(*   handler     the connection handler: "none" before start(), then       *)
(*               "suspended" in its coroutine frame or "done"              *)
(*   closes      how often closeCallback_ was called and not yet answered  *)
(*   failed      the asserts that did not hold, and uses of dead objects   *)
(* and the socket, a non-blocking one, as the kernel sees it:              *)
(*   inbox       what a read would find: "data", "rst", then "fin"         *)
(*   full        the socket's send buffer is full                          *)
(*   finSent     shutdown(SHUT_WR) was called                              *)
(* readWaiter_ and writeWaiter_ stay null: nothing calls waitReadable() or *)
(* waitWritable(), and the CoroChannel is private to its connection.       *)
(***************************************************************************)
EXTENDS Channel

NewConn == [connected |-> FALSE, writing |-> FALSE, out |-> 0,
            attached |-> FALSE, waits |-> FALSE, ch |-> NewChannel,
            handling |-> FALSE, handler |-> "none", closes |-> 0,
            failed |-> {}, inbox |-> {}, full |-> FALSE, finSent |-> FALSE]
-----------------------------------------------------------------------------
(* CoroChannel.                                                            *)

\* A new Channel for the descriptor, which the poller's map and epoll may
\* still know from the one before it.
attach(k) ==
    IF k.attached THEN k
    ELSE [k EXCEPT !.attached = TRUE,
                   !.ch = [NewChannel EXCEPT !.inMap = k.ch.inMap,
                              !.epoll = k.ch.epoll, !.failed = k.ch.failed]]

chEnableReading(k) == [attach(k) EXCEPT !.ch = enableReading(@)]

chEnableWriting(k) == [attach(k) EXCEPT !.waits = TRUE,
                                       !.ch = enableWriting(@)]

chDisableWriting(k) ==
    IF k.attached THEN [k EXCEPT !.waits = FALSE, !.ch = disableWriting(@)]
                  ELSE [k EXCEPT !.waits = FALSE]

chDisableAll(k) ==
    IF k.attached THEN [k EXCEPT !.waits = FALSE, !.ch = disableAll(@)]
                  ELSE [k EXCEPT !.waits = FALSE]

\* CoroChannel::remove, which ends with ~Channel.
chRemove(k) ==
    LET none == chDisableAll(k)
    IN  IF none.attached
        THEN [none EXCEPT !.ch = remove(@), !.attached = FALSE,
                 !.handling = FALSE,
                 !.failed = @ \cup Assert_(~k.handling, "Channel.cpp:28")]
        ELSE none
-----------------------------------------------------------------------------
(* The socket (external): what a write can do.                             *)

\* A write takes "all" of the bytes, fills the send buffer with a "part" of
\* them, takes "none" while it is full (EAGAIN), or ends with EPIPE or
\* ECONNRESET.
WriteResults == {"all", "part", "none", "fault"}

mayEnd(k, w) == CASE w = "fault" -> k.finSent \/ "rst" \in k.inbox
                  [] w = "none" -> ~k.finSent /\ k.full
                  [] OTHER -> ~k.finSent /\ ~k.full
-----------------------------------------------------------------------------
(* CoroTcpConnection.                                                      *)

\* Mutant: the connection stays connected.
handleCloseStaysConnected(k) ==
    IF k.connected
    THEN [chRemove(chDisableAll(k)) EXCEPT !.closes = @ + 1] ELSE k

handleClose(k) ==
    IF k.connected
    THEN [chRemove(chDisableAll([k EXCEPT !.connected = FALSE]))
              EXCEPT !.closes = @ + 1]
    ELSE k

send(k) ==
    LET kept == [k EXCEPT !.out = @ + 1] IN
    CASE ~k.connected -> k
      [] k.connected /\ k.writing -> kept
      [] k.connected /\ ~k.writing ->
             chEnableWriting([kept EXCEPT !.writing = TRUE])

shutdown(k) == [k EXCEPT !.connected = FALSE, !.finSent = TRUE]

\* What a callback or the handler calls.
Ops == {"send", "shutdown"}
call(op, k) == CASE op = "send" -> send(k)
                 [] op = "shutdown" -> shutdown(k)
                 [] OTHER -> k

\* The read takes all the data there is; an error is ignored.
onReadable(k, op) ==
    CASE "rst" \in k.inbox -> [k EXCEPT !.inbox = {"fin"}]
      [] "data" \in k.inbox /\ "rst" \notin k.inbox ->
             call(op, [k EXCEPT !.inbox = @ \ {"data"}])
      [] k.inbox = {"fin"} -> handleClose(k)
      [] OTHER -> k

\* outputBuffer_ is empty.
drained(k) == chDisableWriting([k EXCEPT !.out = 0, !.writing = FALSE])

\* A part of the bytes is written.
leftOver(k) == [k EXCEPT !.full = TRUE]

onWritable(k, w) ==
    CASE k.out = 0 \/ w = "all" -> drained(k)
      [] k.out # 0 /\ w = "part" -> leftOver(k)
      [] k.out # 0 /\ w = "none" -> k
      [] k.out # 0 /\ w = "fault" -> handleClose(k)

\* connectionLoop() after its co_await.
endLoop(k) == [k EXCEPT !.connected = FALSE, !.handler = "done",
                        !.closes = @ + 1]

\* start(): the handler calls op and then returns or suspends.
start(k, op, returns) ==
    LET open == chEnableReading([k EXCEPT !.connected = TRUE])
        ran == call(op, [open EXCEPT !.handler = "suspended"])
    IN  IF returns THEN endLoop(ran) ELSE ran

\* The suspended handler is resumed, calls op, and returns or suspends again.
resume(k, op, returns) ==
    IF returns THEN endLoop(call(op, k)) ELSE call(op, k)

\* ~CoroTcpConnection: the Channel goes, the socket is closed and epoll
\* forgets it.
destroy(k) == LET gone == chRemove(k)
              IN  [gone EXCEPT !.ch.epoll = Absent, !.ch.edge = FALSE]

\* Mutant: an event for reading and writing is handled as one for reading.
handleEventReadsOnly(k, revents, op, w, stale) ==
    LET k1 == IF "in" \in revents
              THEN onReadable([k EXCEPT !.handling = TRUE], op)
              ELSE onWritable([k EXCEPT !.handling = TRUE], w)
    IN  [k1 EXCEPT !.handling = FALSE]

\* Channel::handleEventWithGuard with the callbacks of CoroChannel.  When a
\* callback has destroyed the Channel, the tests that follow read freed
\* memory: stale says whether they still find what was there.
handleEvent(k, revents, op, w, stale) ==
    LET runs(k0) == k0.attached \/ stale
        dead(k0) == IF k0.attached THEN k0
                    ELSE [k0 EXCEPT !.failed = @ \cup {"dead Channel"}]
        k1 == IF "hup" \in revents /\ "in" \notin revents
              THEN handleClose([k EXCEPT !.handling = TRUE])
              ELSE [k EXCEPT !.handling = TRUE]
        k2 == IF "in" \in revents THEN onReadable(k1, op) ELSE dead(k1)
        k3 == IF "out" \in revents /\ runs(k2) THEN onWritable(dead(k2), w)
                                               ELSE dead(k2)
    IN  [dead(k3) EXCEPT !.handling = FALSE]

\* What epoll_wait would report for the socket (external).
revents(k) ==
    {e \in {"in"} : kReadEvent \in k.ch.epoll /\ k.inbox # {}} \cup
    {e \in {"out"} : kWriteEvent \in k.ch.epoll /\ ~k.full} \cup
    {e \in {"hup"} : \/ "rst" \in k.inbox
                     \/ "fin" \in k.inbox /\ k.finSent}

=============================================================================
