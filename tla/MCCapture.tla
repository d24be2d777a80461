------------------------------- MODULE MCCapture -------------------------------
(* A display of two modes and two further sizes: one fits a mode, one none.    *)
EXTENDS Capture

CONSTANTS home, other, near, odd

MCModes == {home, other}
MCSizes == {home, other, near, odd}
MCBest == [s \in MCSizes |-> CASE s \in MCModes -> s [] s = near -> other [] s = odd -> None]
MCShaped == [s \in MCSizes |-> IF s = near THEN odd ELSE s]

\* Every set-up without a failure, and every failure in Fit mode.
MCWorlds ==
    {w \in AllWorlds : w.faults = {} \/ (w.fit /\ w.faults \in {{"switch"}, {"create", "encoder"}})}
==============================================================================
