---------------------------- MODULE CoroTcpServer ----------------------------
(***************************************************************************)
(* coro/CoroTcpServer.cpp, the life of CoroTcpConnection objects and of    *)
(* the coroutine frames that keep them alive, in the one thread of a       *)
(* CoroEventLoop.  A connection owns the frame of connectionLoop(), which  *)
(* owns the frame of the handler, which owns a shared_ptr to the           *)
(* connection.  Channels are edge-triggered (Channel::et_ stays true).     *)
(***************************************************************************)
EXTENDS CoroTcpConnection, FiniteSets

CONSTANTS Conns,      \* the connections ever accepted
          MaxSends    \* bound: calls of send

ASSUME CoroAssumption == MaxSends \in Nat

VARIABLES conn,          \* the record of each connection
          connections_,
          alive,         \* the CoroTcpConnection objects that exist
          listening, backlog, acceptEdge,   \* the listening socket
          server,        \* the CoroTcpServer object exists
          active,        \* activeChannels_ not yet handled, with revents_
          failed,        \* uses of objects and frames that are gone
          sends

accepting == <<listening, backlog, acceptEdge>>
coroVars == <<conn, connections_, alive, accepting, server, active, failed,
          sends>>

CoroInit ==
    /\ conn = [c \in Conns |-> NewConn]
    /\ connections_ = {} /\ alive = {}
    /\ listening = FALSE /\ backlog = {} /\ acceptEdge = FALSE
    /\ server = TRUE /\ active = {} /\ failed = {}
    /\ sends = 0

\* The bound: send() is counted.
count(op) == /\ op = "send" => sends < MaxSends
             /\ sends' = sends + (IF op = "send" THEN 1 ELSE 0)
-----------------------------------------------------------------------------
\* CoroTcpServer::start, which does nothing the second time.
Start ==
    /\ server /\ ~listening
    /\ listening' = TRUE /\ acceptEdge' = TRUE
    /\ UNCHANGED <<conn, connections_, alive, backlog, server, active,
                   failed, sends>>

\* A client connects (external).
Connect(c) ==
    /\ listening /\ server
    /\ c \notin backlog /\ conn[c] = NewConn
    /\ backlog' = backlog \cup {c} /\ acceptEdge' = TRUE
    /\ UNCHANGED <<conn, connections_, alive, listening, server, active,
                   failed, sends>>

\* The operation of c left the record k.  closeCallback_, which is
\* removeConnection(), takes c from the map; when no shared_ptr is left, the
\* connection is destroyed, with the frame of its connectionLoop().
settle(c, k) ==
    LET map == IF k.closes > 0 THEN connections_ \ {c} ELSE connections_
        kept == c \in map \/ k.handler = "suspended"
    IN  /\ connections_' = map
        /\ alive' = IF kept THEN alive \cup {c} ELSE alive \ {c}
        /\ conn' = [conn EXCEPT ![c] =
                       [(IF kept THEN k ELSE destroy(k)) EXCEPT !.closes = 0]]
        /\ failed' = failed \cup Assert_(k.closes > 0 => server,
                                         "dead CoroTcpServer")

\* onAccept: one connection is accepted for each report of the socket.  Its
\* handler may return at once; the connection is then destroyed when
\* onAccept drops its shared_ptr.
OnAccept(c, op, returns) ==
    /\ server /\ listening /\ acceptEdge /\ active = {}
    /\ c \in backlog
    /\ backlog' = backlog \ {c} /\ acceptEdge' = FALSE
    /\ count(op)
    /\ LET k == start(conn[c], op, returns)
       IN  IF k.closes > 0
           THEN /\ conn' = [conn EXCEPT ![c] = [destroy(k) EXCEPT
                                                   !.closes = 0]]
                /\ UNCHANGED <<connections_, alive>>
           ELSE /\ conn' = [conn EXCEPT ![c] = k]
                /\ connections_' = connections_ \cup {c}
                /\ alive' = alive \cup {c}
    /\ UNCHANGED <<listening, server, active, failed>>
-----------------------------------------------------------------------------
(* The loop.                                                               *)

\* epoll_wait returns with the descriptors of S.
Poll(S) ==
    /\ active = {}
    /\ S # {}
    /\ \A c \in S : /\ c \in alive
                    /\ conn[c].ch.epoll # Absent /\ conn[c].ch.edge
                    /\ revents(conn[c]) # {}
    /\ active' = {[c |-> c, revents |-> revents(conn[c])] : c \in S}
    /\ conn' = [c \in Conns |-> IF c \in S
                                THEN [conn[c] EXCEPT !.ch = reported(@, TRUE)]
                                ELSE conn[c]]
    /\ UNCHANGED <<connections_, alive, accepting, server, failed, sends>>

\* Channel::handleEvent of a reported channel, whose Channel may be gone.
HandleReported(a, op, w, stale) ==
    /\ a \in active
    /\ active' = active \ {a}
    /\ count(op)
    /\ LET k == conn[a.c] IN
       IF a.c \in alive /\ k.attached
       THEN /\ mayEnd(k, w)
            /\ settle(a.c, handleEvent(k, a.revents, op, w, stale))
       ELSE /\ failed' = failed \cup {"dead Channel"}
            /\ UNCHANGED <<conn, connections_, alive>>
    /\ UNCHANGED <<accepting, server>>

\* A timer or another event of the same pass resumes the handler.  When it
\* returns, connectionLoop() runs to its end and the connection goes, with
\* the frame that is still running.
Resume(c, op, returns) ==
    /\ c \in alive /\ conn[c].handler = "suspended"
    /\ count(op)
    /\ LET k == resume(conn[c], op, returns)
       IN  settle(c, IF returns
                     THEN [k EXCEPT !.failed = @ \cup {"running frame"}]
                     ELSE k)
    /\ UNCHANGED <<accepting, server, active>>

\* ~CoroTcpServer drops the connections; those whose handler is suspended
\* live on.
DestroyServer ==
    /\ server /\ active = {}
    /\ server' = FALSE
    /\ listening' = FALSE /\ backlog' = {} /\ acceptEdge' = FALSE
    /\ connections_' = {}
    /\ alive' = {c \in alive : conn[c].handler = "suspended"}
    /\ conn' = [c \in Conns |-> IF c \in alive \ alive' THEN destroy(conn[c])
                                                        ELSE conn[c]]
    /\ UNCHANGED <<active, failed, sends>>
-----------------------------------------------------------------------------
(* The peers (external).                                                   *)

Peer(c, k) ==
    /\ c \in alive
    /\ conn' = [conn EXCEPT ![c] =
                   [k EXCEPT !.ch.edge = (k.ch.epoll # Absent)]]
    /\ UNCHANGED <<connections_, alive, accepting, server, active, failed,
                   sends>>

PeerSends(c) == /\ conn[c].inbox = {}
                /\ Peer(c, [conn[c] EXCEPT !.inbox = {"data"}])
PeerCloses(c) == /\ conn[c].inbox \cap {"fin", "rst"} = {}
                 /\ Peer(c, [conn[c] EXCEPT !.inbox = @ \cup {"fin"}])
PeerResets(c) == /\ conn[c].inbox \cap {"fin", "rst"} = {}
                 /\ Peer(c, [conn[c] EXCEPT !.inbox = {"rst"}])
PeerReads(c) == /\ conn[c].full
                /\ Peer(c, [conn[c] EXCEPT !.full = FALSE])
-----------------------------------------------------------------------------
Calls == Ops \cup {"nothing"}

Handle == \E a \in active, op \in Calls, w \in WriteResults,
             stale \in BOOLEAN : HandleReported(a, op, w, stale)

CoroNext ==
    \/ Start \/ DestroyServer \/ Handle
    \/ \E S \in SUBSET Conns : Poll(S)
    \/ \E c \in Conns :
          \/ Connect(c)
          \/ PeerSends(c) \/ PeerCloses(c) \/ PeerResets(c) \/ PeerReads(c)
          \/ \E op \in Calls, returns \in BOOLEAN :
                OnAccept(c, op, returns) \/ Resume(c, op, returns)

CoroSpec == CoroInit /\ [][CoroNext]_coroVars

\* The loop's thread runs and epoll_wait reports what is ready, a peer reads
\* what it is sent, and a write that is repeated ends with all of the bytes.
FairSpec ==
    /\ CoroSpec
    /\ WF_coroVars(Handle)
    /\ \A c \in Conns :
          /\ SF_coroVars(\E S \in SUBSET Conns : c \in S /\ Poll(S))
          /\ WF_coroVars(PeerReads(c))
          /\ SF_coroVars(\E a \in active, op \in Calls, stale \in BOOLEAN :
                        /\ a.c = c /\ "out" \in a.revents
                        /\ HandleReported(a, op, "all", stale))
-----------------------------------------------------------------------------
(* Properties.                                                             *)

\* A connection that is connected is served: it is in the server's map, and
\* its channel is registered with the poller and with epoll, for reading and,
\* exactly when there is output, for writing; the three flags for writing
\* agree with that, so that send() knows when it has to ask for the event.
ConnectedIsServed ==
    \A c \in Conns : conn[c].connected =>
        LET k == conn[c] IN
        /\ server => c \in connections_
        /\ k.attached /\ k.ch.inMap /\ k.ch.epoll = k.ch.events
        /\ isReading(k.ch)
        /\ k.writing = k.waits /\ k.waits = isWriting(k.ch)
        /\ k.writing <=> k.out > 0

\* The output of a connection that stays connected is written: with
\* edge-triggered events no event is missed.
OutputDrains ==
    \A c \in Conns : (conn[c].connected /\ conn[c].out > 0)
                        ~> (conn[c].out = 0 \/ ~conn[c].connected)

=============================================================================
