------------------------------ MODULE Letterbox ------------------------------
(***************************************************************************)
(* Where a captured frame goes on the client's desktop, and how large a    *)
(* desktop of the display's shape fits the client's window:                *)
(* compute_letterbox_rect and the sampling of letterbox_bgra               *)
(* (frame_pipeline.rs), Native mode of request_layout (display.rs).        *)
(*                                                                         *)
(* The code computes in f64.  Sizes are 16 bits wide, so products are      *)
(* exact there; quotients are taken exactly here and rounded where the     *)
(* code rounds.                                                            *)
(***************************************************************************)
EXTENDS Integers

CONSTANTS Widths, Heights  \* of frames, desktops, displays and windows

VARIABLES
    frame,   \* the size of the captured frame, that of the display
    target,  \* the size of the desktop, or of the client's window
    rect,    \* where the frame goes on the desktop
    native   \* the desktop for that window in Native mode

boxVars == <<frame, target, rect, native>>

Sizes == [w : Widths, h : Heights]

\* f64::round(a / b), and `& !1`.
Rounded(a, b) == (2 * a + b) \div (2 * b)
Even(n) == 2 * (n \div 2)

\* |s.w / s.h - d.w / d.h| < 0.001
SameShape(s, d) ==
    /\ 1000 * (s.w * d.h - d.w * s.h) < s.h * d.h
    /\ 1000 * (d.w * s.h - s.w * d.h) < s.h * d.h

\* Mutant: the sides are taken for each other.
RectSwapped(s, d) ==
    IF SameShape(s, d) THEN [x |-> 0, y |-> 0, w |-> d.w, h |-> d.h]
    ELSE IF s.w * d.h < d.w * s.h
    THEN LET h == Even(Rounded(d.w * s.h, s.w)) IN [x |-> 0, y |-> (d.h - h) \div 2, w |-> d.w, h |-> h]
    ELSE LET w == Even(Rounded(d.h * s.w, s.h)) IN [x |-> (d.w - w) \div 2, y |-> 0, w |-> w, h |-> d.h]

\* Mutant: the ratio is taken of the desktop.
RectStretched(s, d) ==
    IF SameShape(s, d) THEN [x |-> 0, y |-> 0, w |-> d.w, h |-> d.h]
    ELSE IF s.w * d.h > d.w * s.h
    THEN LET h == Even(d.h) IN [x |-> 0, y |-> (d.h - h) \div 2, w |-> d.w, h |-> h]
    ELSE LET w == Even(d.w) IN [x |-> (d.w - w) \div 2, y |-> 0, w |-> w, h |-> d.h]

compute_letterbox_rect(s, d) ==
    IF SameShape(s, d) THEN [x |-> 0, y |-> 0, w |-> d.w, h |-> d.h]
    ELSE IF s.w * d.h > d.w * s.h
    THEN LET h == Even(Rounded(d.w * s.h, s.w)) IN [x |-> 0, y |-> (d.h - h) \div 2, w |-> d.w, h |-> h]
    ELSE LET w == Even(Rounded(d.h * s.w, s.h)) IN [x |-> (d.w - w) \div 2, y |-> 0, w |-> w, h |-> d.h]

AtLeastOne(n) == IF n = 0 THEN 1 ELSE n

\* Mutant: the longer side is scaled.
NativeSizeOverflows(client, display) ==
    IF client.w * display.h < display.w * client.h
    THEN [w |-> AtLeastOne(Rounded(client.h * display.w, display.h)), h |-> client.h]
    ELSE [w |-> client.w, h |-> AtLeastOne(Rounded(client.w * display.h, display.w))]

NativeSize(client, display) ==
    IF client.w * display.h > display.w * client.h
    THEN [w |-> AtLeastOne(Rounded(client.h * display.w, display.h)), h |-> client.h]
    ELSE [w |-> client.w, h |-> AtLeastOne(Rounded(client.w * display.h, display.w))]

Compute(s, d) ==
    /\ frame' = s /\ target' = d
    /\ rect' = compute_letterbox_rect(s, d)
    /\ native' = NativeSize(d, s)

Init ==
    /\ frame = [w |-> 0, h |-> 0] /\ target = frame
    /\ rect = [x |-> 0, y |-> 0, w |-> 0, h |-> 0]
    /\ native = frame

\* A frame of some size is pushed for a target of some size.
Next == frame.w = 0 /\ \E s, d \in Sizes : Compute(s, d)

Spec == Init /\ [][Next]_boxVars

-----------------------------------------------------------------------------

\* The pixel of the frame that goes to offset i of n.
Sample(i, n, of) == (i * of) \div n

\* letterbox_bgra indexes inside both buffers: the rectangle is on the
\* desktop and every sample is of the frame.
IndexesInside ==
    frame.w # 0 =>
    /\ rect.x \in 0 .. target.w /\ rect.x + rect.w <= target.w
    /\ rect.y \in 0 .. target.h /\ rect.y + rect.h <= target.h
    /\ \A i \in 0 .. rect.w - 1 : Sample(i, rect.w, frame.w) \in 0 .. frame.w - 1
    /\ \A i \in 0 .. rect.h - 1 : Sample(i, rect.h, frame.h) \in 0 .. frame.h - 1

\* The picture keeps its shape to two pixels, or to a thousandth, and is in
\* the middle to one.
KeepsShape ==
    frame.w # 0 =>
    /\ target.w - rect.w - 2 * rect.x \in {0, 1}
    /\ target.h - rect.h - 2 * rect.y \in {0, 1}
    /\ \/ SameShape(frame, target)
       \/ rect.w = target.w /\ rect.h * frame.w - target.w * frame.h \in -2 * frame.w .. frame.w
       \/ rect.h = target.h /\ rect.w * frame.h - target.h * frame.w \in -2 * frame.h .. frame.h

\* Rounding and evening make a side vanish only if it would have been shorter
\* than a pixel and a half: the frame is that much longer than the desktop.
Visible ==
    frame.w # 0 =>
    /\ rect.h = 0 => 2 * target.w * frame.h < 3 * frame.w
    /\ rect.w = 0 => 2 * target.h * frame.w < 3 * frame.h

\* "Preserve native aspect ratio, fitting within the client's window"
\* (display.rs:374-375).
NativeFits == frame.w # 0 => native.w <= target.w /\ native.h <= target.h

\* "The full desktop is visible with black bars filling the remaining space.
\* No content is cropped or discarded" (display.rs:33-34, and the test at
\* frame_pipeline.rs:359): not the crop without bars of README.md:277.
Fits == IndexesInside /\ KeepsShape /\ Visible /\ NativeFits
==============================================================================
