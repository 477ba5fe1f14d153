--------------------------- MODULE MCLFMemoryPool ----------------------------
(* A small instance of LFMemoryPool for TLC.                                *)
EXTENDS LFMemoryPool

=============================================================================
