------------------------------- MODULE CgCapture -------------------------------
(***************************************************************************)
(* A turn of next_update that captures through CGDisplay while H.264 is    *)
(* wanted: the screen goes into a pixel buffer and the buffer to the       *)
(* encoder (cg_capture.rs, display.rs).  Each step may fail, and then the  *)
(* screen is captured once more, as a bitmap.  The buffer is reference     *)
(* counted and locked by hand; VideoToolbox keeps it as long as it reads.  *)
(***************************************************************************)
EXTENDS Naturals

CONSTANT MaxFrames  \* bound on the turns

VARIABLES
    frame,   \* turns so far; each has a buffer of its own
    at,      \* how far the turn has got
    holds,   \* per frame, the references to its buffer
    locked   \* buffers whose base address is locked

cgVars == <<frame, at, holds, locked>>

Frames == 1 .. MaxFrames

TypeOK ==
    /\ frame \in 0 .. MaxFrames
    /\ at \in {"tick", "image", "created", "drawn", "fallback", "ended"}
    /\ holds \in [Frames -> SUBSET {"pointer", "wrapper", "vt"}]
    /\ locked \subseteq Frames

Init ==
    /\ frame = 0
    /\ at = "tick"
    /\ holds = [f \in Frames |-> {}]
    /\ locked = {}

Hold(who) == holds' = [holds EXCEPT ![frame] = @ \cup {who}]
Wrap == holds' = [holds EXCEPT ![frame] = (@ \ {"pointer"}) \cup {"wrapper"}]
Release(who) == holds' = [holds EXCEPT ![frame] = @ \ {who}]
Step(from, to) == at = from /\ at' = to

Tick ==
    /\ Step("tick", "image")
    /\ frame < MaxFrames
    /\ frame' = frame + 1
    /\ UNCHANGED <<holds, locked>>

\* The client does not decode H.264, display.image() gives none or an empty
\* one, or no buffer can be made.
NoBuffer ==
    /\ Step("image", "fallback")
    /\ UNCHANGED <<frame, holds, locked>>

\* The buffer is a bare pointer until it is locked.
Create ==
    /\ Step("image", "created")
    /\ Hold("pointer")
    /\ UNCHANGED <<frame, locked>>

\* Mutant: the buffer is not given back.
LockFailsLeaks ==
    /\ Step("created", "fallback")
    /\ UNCHANGED <<frame, holds, locked>>

LockFails ==
    /\ Step("created", "fallback")
    /\ Release("pointer")
    /\ UNCHANGED <<frame, locked>>

\* Locked, wrapped, cleared, drawn into, made opaque.
Draw ==
    /\ Step("created", "drawn")
    /\ locked' = locked \cup {frame}
    /\ Wrap
    /\ UNCHANGED frame

\* The encoder takes it, with or without output ...
Encode ==
    /\ Step("drawn", "ended")
    /\ Hold("vt")
    /\ UNCHANGED <<frame, locked>>

\* ... or refuses it, or there is none.
Refuse ==
    /\ Step("drawn", "fallback")
    /\ UNCHANGED <<frame, holds, locked>>

\* capture_display_bgra, which may fail as well.
Bitmap ==
    /\ Step("fallback", "ended")
    /\ UNCHANGED <<frame, holds, locked>>

\* Drop of CVPixelBufferWrapper, if there is one.
EndTurn ==
    /\ Step("ended", "tick")
    /\ locked' = locked \ {frame}
    /\ Release("wrapper")
    /\ UNCHANGED frame

VtReleases ==
    /\ \E f \in Frames : "vt" \in holds[f] /\ holds' = [holds EXCEPT ![f] = @ \ {"vt"}]
    /\ UNCHANGED <<frame, at, locked>>

Next == Tick \/ NoBuffer \/ Create \/ LockFails \/ Draw \/ Encode \/ Refuse \/ Bitmap \/ EndTurn
        \/ VtReleases

\* A buffer is locked only while the wrapper that will unlock it has it, and
\* when a turn ends the server has none, by pointer or by wrapper: every
\* failing step gives back what the steps before it took.
BuffersReturned ==
    /\ \A f \in locked : "wrapper" \in holds[f]
    /\ \A f \in Frames : "pointer" \in holds[f] => f = frame /\ at = "created"
    /\ \A f \in Frames : "wrapper" \in holds[f] => f = frame /\ at # "tick"
==============================================================================
