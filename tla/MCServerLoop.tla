---------------------------- MODULE MCServerLoop ----------------------------
(* Instances of ServerLoop for TLC. *)
EXTENDS ServerLoop

CONSTANTS n, a, b

\* request_layout grants a size, or the one of the display mode nearest to it.
Nearest == [s \in {n, a, b} |-> IF s = b THEN a ELSE s]
==============================================================================
