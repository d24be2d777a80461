----------------------------- MODULE Fragmenter -----------------------------
(***************************************************************************)
(* UpdateFragmenter (encoder/fast_path.rs): an update longer than a fast   *)
(* path PDU can carry is cut into fragments, which the client puts         *)
(* together again.                                                         *)
(***************************************************************************)
EXTENDS Naturals

CONSTANTS
    Max,      \* MAX_FASTPATH_UPDATE_SIZE
    Lengths   \* the lengths of updates

VARIABLES
    length,    \* data.len()
    position,  \* the field of that name
    index,     \* the field of that name
    assembly   \* the client's: its state, and how much it has got

fragVars == <<length, position, index, assembly>>

TypeOK ==
    /\ length \in Lengths
    /\ position \in 0 .. length
    /\ index \in Nat
    /\ assembly \in [state : {"empty", "partial", "whole", "broken"}, got : Nat]

Init ==
    /\ length \in Lengths
    /\ position = 0
    /\ index = 0
    /\ assembly = [state |-> "empty", got |-> 0]

\* What the client makes of a fragment.
Assemble(kind, size) ==
    assembly' = [got |-> assembly.got + size,
                 state |-> CASE kind = "single" /\ assembly.state = "empty" -> "whole"
                             [] kind = "first" /\ assembly.state = "empty" -> "partial"
                             [] kind = "next" /\ assembly.state = "partial" -> "partial"
                             [] kind = "last" /\ assembly.state = "partial" -> "whole"
                             [] OTHER -> "broken"]

Fragment(kind, size) ==
    /\ Assemble(kind, size)
    /\ position' = position + size
    /\ index' = index + 1
    /\ UNCHANGED length

\* Mutant: a remainder of exactly Max is not the last fragment.
EncodeNextExact ==
    LET left == length - position IN
      \/ left \in 1 .. Max - 1 /\ Fragment(IF index > 0 THEN "last" ELSE "single", left)
      \/ left >= Max /\ Fragment(IF index > 0 THEN "next" ELSE "first", Max)

\* next and encode_next: nothing is sent when nothing is left.
EncodeNext ==
    LET left == length - position IN
      \/ left \in 1 .. Max /\ Fragment(IF index > 0 THEN "last" ELSE "single", left)
      \/ left > Max /\ Fragment(IF index > 0 THEN "next" ELSE "first", Max)

Next == EncodeNext

Spec == Init /\ [][Next]_fragVars

\* The client accepts every fragment, and has the whole update exactly when
\* the last byte has been sent: at multiples of Max, at Max, and below.
Reassembles ==
    /\ assembly.got = position
    /\ assembly.state = CASE position = 0 -> "empty"
                          [] position = length /\ length > 0 -> "whole"
                          [] OTHER -> "partial"
==============================================================================
