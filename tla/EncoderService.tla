--------------------------- MODULE EncoderService ---------------------------
(***************************************************************************)
(* What VtH264Encoder promises next_update, whatever VideoToolbox does and *)
(* when: a call of encode is answered with the encoding of its own frame   *)
(* or with nothing, the next call is not refused, and the frames of one    *)
(* encoder are numbered 0, 1, 2, ...                                       *)
(***************************************************************************)
EXTENDS Naturals

VARIABLES
    asked,  \* calls of encode so far
    open,   \* the last of them has not been answered
    next,   \* the number of the next frame
    last    \* the last answer

NoAnswer == [of |-> 0, id |-> 0]

Init == asked = 0 /\ open = FALSE /\ next = 0 /\ last = NoAnswer

Ask ==
    /\ ~open
    /\ asked' = asked + 1
    /\ open' = TRUE
    /\ UNCHANGED <<next, last>>

Answer ==
    /\ open
    /\ open' = FALSE
    /\ \/ last' = [of |-> asked, id |-> next] /\ next' = next + 1
       \/ last' = NoAnswer /\ UNCHANGED next
    /\ UNCHANGED asked

\* A new encoder takes the place of this one.
Replace ==
    /\ ~open
    /\ next' = 0
    /\ UNCHANGED <<asked, open, last>>

Next == Ask \/ Answer \/ Replace

Spec == Init /\ [][Next]_<<asked, open, next, last>>
==============================================================================
