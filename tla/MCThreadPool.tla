---------------------------- MODULE MCThreadPool -----------------------------
(* A small instance of ThreadPool for TLC, with both of its models.         *)
EXTENDS ThreadPool

=============================================================================
