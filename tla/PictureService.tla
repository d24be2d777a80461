---------------------------- MODULE PictureService ----------------------------
(***************************************************************************)
(* What the bitmap path promises a client, however frames are cut into     *)
(* updates and updates into rectangles: its picture is painted with tiles  *)
(* of the newest frame only, and no frame is taken before the client has   *)
(* all of the one before.  So no tile ever goes back to an older frame,    *)
(* and while frames have one size the client shows tiles of two at most.   *)
(***************************************************************************)

CONSTANTS
    Sizes,   \* of desktops
    Frames,  \* what can be captured
    NoFrame,
    Blank    \* the colour of a new desktop

VARIABLES
    frame,  \* the newest frame
    busy,   \* something of it is on its way
    shown   \* what the client shows

Clean(size) == [t \in size |-> Blank]

\* The client has all of f that fits its desktop.
Has(f) == \A t \in DOMAIN f \cap DOMAIN shown : shown[t] = f[t]

Init ==
    /\ frame = NoFrame
    /\ busy = FALSE
    /\ \E size \in Sizes : shown = Clean(size)

\* The next frame, of which the client may already have everything.
Take ==
    /\ ~busy
    /\ frame' \in Frames
    /\ busy' \in BOOLEAN
    /\ ~busy' => Has(frame')
    /\ UNCHANGED shown

Paint ==
    /\ busy
    /\ \E tiles \in SUBSET (DOMAIN frame \cap DOMAIN shown) :
          shown' = [t \in DOMAIN shown |-> IF t \in tiles THEN frame[t] ELSE shown[t]]
    /\ UNCHANGED <<frame, busy>>

Finish ==
    /\ busy
    /\ Has(frame)
    /\ busy' = FALSE
    /\ UNCHANGED <<frame, shown>>

\* The stream is made again, and its first frame compared with nothing.
Reset ==
    /\ ~busy
    /\ frame' = NoFrame
    /\ UNCHANGED <<busy, shown>>

\* A desktop of another size; what was on its way is dropped.
Resize ==
    /\ frame' = NoFrame
    /\ busy' = FALSE
    /\ \E size \in Sizes : shown' = Clean(size)

Next == Take \/ Paint \/ Finish \/ Reset \/ Resize

Spec == Init /\ [][Next]_<<frame, busy, shown>>
==============================================================================
