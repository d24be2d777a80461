---------------------------- MODULE MCDisplayMode ----------------------------
(* The environments of DisplayMode that TLC explores. *)
EXTENDS DisplayMode

\* The server may be killed anywhere but between a switch and the end of the
\* write that records it.
Forgiving == [faults |-> {"restoreFails", "lateLayout"},
              killAt |-> {"boot", "bootRestoring", "idle", "restoring", "exiting"}]

\* Kills at every point, and every failure of a helper.
Harsh == [faults |-> {"restoreFails", "bootRestoreFails", "helperDies", "noDisplay", "lateLayout"},
          killAt |-> Pcs \ {"down"}]

\* Only the server's own threads crash, and the file may not be writable.
Crashing == [faults |-> {"segv", "writeFails"}, killAt |-> {}]

Environments == {Forgiving, Harsh, Crashing}
==============================================================================
