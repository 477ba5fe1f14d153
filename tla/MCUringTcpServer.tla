-------------------------- MODULE MCUringTcpServer ---------------------------
(* A small instance of UringTcpServer for TLC.                              *)
EXTENDS UringTcpServer

MCSetups == {[loops |-> <<>>, faults |-> 2],
             [loops |-> <<"io">>, faults |-> 0]}

=============================================================================
