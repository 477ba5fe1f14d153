----------------------------- MODULE MCTcpServer -----------------------------
(* Small instances of TcpServer for TLC: a server without I/O threads and   *)
(* one with a single I/O loop, and two applications.  One closes the        *)
(* connection in every way while another thread sends; the other stops and  *)
(* starts reading and destroys the server.                                  *)
EXTENDS TcpServer

SmallPools == {<<>>, <<"io">>}

Closing == [appOps |-> {"send"}, userOps |-> {"shutdown", "forceCloseWithDelay"},
            downOps |-> {}, keepsRef |-> TRUE, destroys |-> FALSE]
Destroying == [appOps |-> {},
               userOps |-> {"send", "shutdown", "startRead", "stopRead"},
               downOps |-> {}, keepsRef |-> TRUE, destroys |-> TRUE]
Applications == {Closing, Destroying}

=============================================================================
