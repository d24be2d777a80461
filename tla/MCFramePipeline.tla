---------------------------- MODULE MCFramePipeline ----------------------------
(* Desktops and screens of two and of four tiles, so that half of a picture    *)
(* may change in two rectangles.                                               *)
EXTENDS FramePipeline

MCSizes == {{1, 2}, {1, 2, 3, 4}}
MCColours == {"black", "white"}

\* Two tiles between black borders, every other of four.
MCSource ==
    [from, to \in MCSizes |->
        CASE from = to -> [t \in to |-> t]
          [] from = {1, 2} /\ to # from -> [t \in to |-> IF t \in {2, 3} THEN t - 1 ELSE 0]
          [] OTHER -> [t \in to |-> 2 * t - 1]]
==============================================================================
