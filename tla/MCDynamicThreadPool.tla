------------------------- MODULE MCDynamicThreadPool -------------------------
(* A small instance of DynamicThreadPool for TLC.                           *)
EXTENDS DynamicThreadPool

=============================================================================
