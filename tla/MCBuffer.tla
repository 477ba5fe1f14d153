------------------------------- MODULE MCBuffer ------------------------------
(* A small instance of Buffer for TLC.                                      *)
EXTENDS Buffer

CONSTANT MaxLen   \* the longest string of bytes

ShortStrings == UNION {[1 .. n -> Bytes] : n \in 1 .. MaxLen}

=============================================================================
