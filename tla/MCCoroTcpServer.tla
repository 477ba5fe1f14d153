--------------------------- MODULE MCCoroTcpServer ---------------------------
(* A small instance of CoroTcpServer for TLC.                               *)
EXTENDS CoroTcpServer

=============================================================================
