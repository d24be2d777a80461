---------------------------- MODULE FramePipeline ----------------------------
(***************************************************************************)
(* The way of a picture from the screen to the client as bitmaps:          *)
(* MacDisplayUpdates::next_update and its BgraFramePipeline find what      *)
(* changed since the last frame, the UpdateEncoder of the server finds     *)
(* what of that the client does not have, and dispatch_display_update      *)
(* sends it.  Each of the three remembers a picture of its own, and each   *)
(* at another moment: the pipeline's last frame, the encoder's framebuffer *)
(* and what the client shows.                                              *)
(*                                                                         *)
(* A picture is a function from tiles, numbered in reading order, to       *)
(* colours, and its size is the set of its tiles; tile by tile is how      *)
(* find_different_rects_sub compares.                                      *)
(***************************************************************************)
EXTENDS Naturals, Sequences, FiniteSets

CONSTANTS
    Sizes,      \* sizes of screens and desktops, sets of tiles
    Colours,    \* colours of a tile, one of them Black
    Black,
    Source,     \* Source[from, to][t]: the tile of a frame that tile t of a letterbox
                \* samples, 0 outside of the frame
    MaxMissed   \* null buffers before the stream is made again (30 in the code)

ASSUME PictureAssumption ==
    /\ \A size \in Sizes : IsFiniteSet(size) /\ size # {} /\ size \subseteq Nat \ {0}
    /\ Black \in Colours
    /\ \A from, to \in Sizes : Source[from, to] \in [to -> from \cup {0}]
    /\ MaxMissed \in Nat \ {0}

VARIABLES
    screen,       \* what the display shows
    capture,      \* "sckit" or "cgdisplay"
    aspect,       \* "fit" or "native"
    desktop,      \* the size of the client's desktop, of encoder and target
    streamSize,   \* MacDisplayUpdates::stream_size
    running,      \* the stream delivers samples
    missed,       \* MacDisplayUpdates::missed_frames
    prev,         \* BgraFramePipeline::prev
    pending,      \* BgraFramePipeline::pending
    bitmap,       \* the update in EncoderIter
    rects,        \* its rectangles that EncoderIter has not sent
    framebuffer,  \* UpdateEncoder::framebuffer
    picture       \* what the client shows

modeVars == <<capture, aspect>>
streamVars == <<streamSize, running, missed>>
encoderVars == <<bitmap, rects, framebuffer>>
vars == <<screen, modeVars, desktop, streamVars, prev, pending, encoderVars, picture>>

\* No picture at all: one without tiles.
None == <<>>
Blank == "blank"
Pictures(size) == [size -> Colours]
AllPictures == UNION {Pictures(size) : size \in Sizes}

\* A bitmap is a picture of some tiles of a frame.
Bitmaps == UNION {[tiles -> Colours] : tiles \in UNION {(SUBSET size) \ {{}} : size \in Sizes}}

TypeOK ==
    /\ screen \in AllPictures
    /\ capture \in {"sckit", "cgdisplay"}
    /\ aspect \in {"fit", "native"}
    /\ desktop \in Sizes
    /\ streamSize \in Sizes
    /\ running \in BOOLEAN
    /\ missed \in 0 .. MaxMissed
    /\ prev \in AllPictures \cup {None}
    /\ pending \in Seq(Bitmaps)
    /\ bitmap \in Bitmaps \cup {None}
    /\ rects \subseteq SUBSET UNION Sizes
    /\ framebuffer \in Pictures(desktop) \cup {None}
    /\ picture \in [desktop -> Colours \cup {Blank}]

Init ==
    /\ screen \in {[t \in size |-> Black] : size \in Sizes}
    /\ capture \in {"sckit", "cgdisplay"}
    /\ aspect \in {"fit", "native"}
    /\ desktop \in Sizes
    /\ streamSize = DOMAIN screen
    /\ running = TRUE
    /\ missed = 0
    /\ prev = None
    /\ pending = <<>>
    /\ bitmap = None
    /\ rects = {}
    /\ framebuffer = None
    /\ picture = [t \in desktop |-> Blank]

-----------------------------------------------------------------------------
(* The display. *)

Draw ==
    /\ \E t \in DOMAIN screen, c \in Colours : screen' = [screen EXCEPT ![t] = c]
    /\ UNCHANGED <<modeVars, desktop, streamVars, prev, pending, encoderVars, picture>>

\* Another mode or another monitor.
ScreenResized ==
    /\ \E size \in Sizes, c \in Colours :
          screen' = [t \in size |-> IF t \in DOMAIN screen THEN screen[t] ELSE c]
    /\ UNCHANGED <<modeVars, desktop, streamVars, prev, pending, encoderVars, picture>>

-----------------------------------------------------------------------------
(* UpdateEncoder and EncoderIter. *)

Differing(p, q) == {t \in DOMAIN p \cap DOMAIN q : p[t] # q[t]}

\* bitmap_diffs: without a framebuffer the bitmap in one piece.
BitmapDiffs(b) ==
    IF framebuffer = None
    THEN {DOMAIN b}
    ELSE {{t} : t \in Differing(framebuffer, b)}

\* dispatch_display_update takes what next_update returned.
Encode(b) ==
    /\ bitmap' = b
    /\ rects' = BitmapDiffs(b)
    /\ UNCHANGED framebuffer

SendRect ==
    /\ bitmap # None
    /\ \E rect \in rects :
          /\ rects' = rects \ {rect}
          /\ picture' = [t \in desktop |-> IF t \in rect THEN bitmap[t] ELSE picture[t]]
    /\ UNCHANGED <<screen, modeVars, desktop, streamVars, prev, pending, bitmap, framebuffer>>

\* Mutant: only whole pictures are remembered.
EndUpdateWhole ==
    /\ bitmap # None
    /\ rects = {}
    /\ bitmap' = None
    /\ framebuffer' = IF DOMAIN bitmap = desktop THEN bitmap ELSE framebuffer
    /\ UNCHANGED <<screen, modeVars, desktop, streamVars, prev, pending, rects, picture>>

\* Framebuffer::update_diffs: b painted over p.
UpdateDiffs(p, b) == [t \in DOMAIN p |-> IF t \in DOMAIN b THEN b[t] ELSE p[t]]

\* bitmap_update_framebuffer, after the last rectangle.
EndUpdate ==
    /\ bitmap # None
    /\ rects = {}
    /\ bitmap' = None
    /\ framebuffer' =
          CASE DOMAIN bitmap = desktop -> bitmap
            [] DOMAIN bitmap # desktop /\ framebuffer # None ->
                   UpdateDiffs(framebuffer, bitmap)
            [] OTHER -> None
    /\ UNCHANGED <<screen, modeVars, desktop, streamVars, prev, pending, rects, picture>>

-----------------------------------------------------------------------------
(* BgraFramePipeline and MacDisplayUpdates. *)

\* In Fit mode a frame of another size is scaled into the desktop; what of the
\* desktop it does not cover is black.
Letterbox(frame) ==
    LET source == Source[DOMAIN frame, desktop] IN
    [t \in desktop |-> IF source[t] \in DOMAIN frame THEN frame[source[t]] ELSE Black]
Processed(frame) ==
    IF aspect = "fit" /\ DOMAIN frame # desktop THEN Letterbox(frame) ELSE frame

\* The k-th of some tiles in reading order.
Nth(tiles, k) == CHOOSE t \in tiles : Cardinality({u \in tiles : u <= t}) = k

\* The rectangles of a frame that changed since the last one, as bitmaps.
Subs(frame, dirty) ==
    [k \in 1 .. Cardinality(dirty) |-> [t \in {Nth(dirty, k)} |-> frame[t]]]

Updates(last, frame) ==
    CASE last = None -> <<frame>>
      [] last # None /\ DOMAIN last # DOMAIN frame -> <<frame>>
      [] OTHER ->
             LET dirty == Differing(last, frame) IN
             IF 2 * Cardinality(dirty) > Cardinality(DOMAIN frame)
             THEN <<frame>>
             ELSE Subs(frame, dirty)

\* pop_update, and what becomes of the update.
Take(queue) ==
    IF queue = <<>>
    THEN pending' = <<>> /\ UNCHANGED encoderVars
    ELSE pending' = Tail(queue) /\ Encode(Head(queue))

\* Mutant: many small changes are not queued, but remembered.
PushFrameSmall(last) ==
    LET frame == Processed(screen) IN
    /\ prev' = frame
    /\ Take(IF last # None /\ Len(Updates(last, frame)) > 1 THEN <<>> ELSE Updates(last, frame))

\* push_frame and the pop_update that follows it; last is prev, or None after
\* a reset.
PushFrame(last) ==
    LET frame == Processed(screen) IN
    /\ prev' = frame
    /\ Take(Updates(last, frame))

\* next_update drains what is pending before it waits for a frame.
PopUpdate ==
    /\ bitmap = None
    /\ pending # <<>>
    /\ Take(pending)
    /\ UNCHANGED <<screen, modeVars, desktop, streamVars, prev, picture>>

\* Mutant: a new frame replaces what is pending of the last one.
WaitingNewest == bitmap = None /\ running

Waiting == bitmap = None /\ pending = <<>> /\ running

\* Mutant: frames of another size than the stream's are passed over.
CaptureCGSameSize ==
    /\ Waiting
    /\ capture = "cgdisplay"
    /\ DOMAIN screen = streamSize
    /\ PushFrame(prev)
    /\ UNCHANGED <<screen, modeVars, desktop, streamVars, picture>>

CaptureCG ==
    /\ Waiting
    /\ capture = "cgdisplay"
    /\ PushFrame(prev)
    /\ UNCHANGED <<screen, modeVars, desktop, streamVars, picture>>

\* A sample of another size than the stream's has the stream made again.
CaptureSample ==
    /\ Waiting
    /\ capture = "sckit"
    /\ missed' = 0
    /\ IF DOMAIN screen = streamSize
       THEN PushFrame(prev) /\ UNCHANGED streamSize
       ELSE PushFrame(None) /\ streamSize' = DOMAIN screen
    /\ UNCHANGED <<screen, modeVars, desktop, running, picture>>

\* Mutant: the missed samples are counted on.
NullSampleOn ==
    /\ Waiting
    /\ capture = "sckit"
    /\ missed' = missed + 1
    /\ prev' = IF missed + 1 >= MaxMissed THEN None ELSE prev
    /\ UNCHANGED <<screen, modeVars, desktop, streamSize, running, pending, encoderVars, picture>>

\* A sample without a buffer; after too many of them the stream is made again.
NullSample ==
    /\ Waiting
    /\ capture = "sckit"
    /\ IF missed + 1 >= MaxMissed
       THEN missed' = 0 /\ prev' = None
       ELSE missed' = missed + 1 /\ UNCHANGED prev
    /\ UNCHANGED <<screen, modeVars, desktop, streamSize, running, pending, encoderVars, picture>>

\* recreate_stream has stopped the old stream when create_stream fails: there
\* are no more samples.  The frame, if there was one, is lost.
RecreateFails ==
    /\ Waiting
    /\ capture = "sckit"
    /\ \/ missed + 1 >= MaxMissed /\ missed' = MaxMissed
       \/ DOMAIN screen # streamSize /\ missed' = 0
    /\ running' = FALSE
    /\ UNCHANGED <<screen, modeVars, desktop, streamSize, prev, pending, encoderVars, picture>>

\* next_update looks for a resize before it drains: what is pending goes with
\* the stream, and client_accepted makes a new encoder and a new stream.
Resized ==
    /\ bitmap = None
    /\ desktop' \in Sizes \ {desktop}
    /\ streamSize' = DOMAIN screen
    /\ running' = TRUE
    /\ missed' = 0
    /\ prev' = None
    /\ pending' = <<>>
    /\ framebuffer' = None
    /\ picture' = [t \in desktop' |-> Blank]
    /\ UNCHANGED <<screen, modeVars, bitmap, rects>>

Sends == SendRect \/ EndUpdate \/ PopUpdate
Captures == CaptureCG \/ CaptureSample

Next ==
    \/ Draw
    \/ ScreenResized
    \/ Sends
    \/ Captures
    \/ NullSample
    \/ RecreateFails
    \/ Resized

Spec == Init /\ [][Next]_vars

\* The task of the connection runs, and frames keep coming.
FairSpec == Spec /\ WF_vars(Sends) /\ WF_vars(Captures)

-----------------------------------------------------------------------------
(* What the three memories have to do with each other. *)

\* The framebuffer is what the client shows, whenever no update is being sent:
\* bitmap_diffs leaves out nothing that the client lacks (mod.rs:202-249).
ClientHasFramebuffer ==
    bitmap = None /\ framebuffer # None => framebuffer = picture

\* What is on its way to the client, first to last.
OnItsWay == (IF bitmap = None THEN <<>> ELSE <<bitmap>>) \o pending

\* The k-th of a queue is the last to paint tile t.
Paints(queue, k, t) ==
    t \in DOMAIN queue[k] /\ \A j \in k + 1 .. Len(queue) : t \notin DOMAIN queue[j]

\* The last frame is what the client will show when all that is on its way
\* has been sent, although it was replaced when the frame was pushed
\* (frame_pipeline.rs:92-121).
LastFrameIsOnItsWay ==
    prev # None =>
        \A t \in desktop \cap DOMAIN prev :
            /\ \A k \in DOMAIN OnItsWay : Paints(OnItsWay, k, t) => OnItsWay[k][t] = prev[t]
            /\ (\A k \in DOMAIN OnItsWay : t \notin DOMAIN OnItsWay[k]) => picture[t] = prev[t]

\* Of the three memories, no one is ahead of what it stands for.
MemoriesAgree == ClientHasFramebuffer /\ LastFrameIsOnItsWay

\* "Drain any pending sub-updates before waiting for a new frame"
\* (display.rs:562): the client has all of a frame before it is painted with
\* tiles of the next, and no tile of an older frame follows one of a newer.
Service == INSTANCE PictureService WITH
    Frames <- AllPictures, NoFrame <- None,
    frame <- prev, busy <- (bitmap # None \/ pending # <<>>), shown <- picture
ImplementsService == Service!Spec

Shown ==
    \A t \in desktop \cap DOMAIN Processed(screen) : picture[t] = Processed(screen)[t]

\* When the screen comes to rest the client shows it, whatever was sent and
\* reset on the way, unless the stream could not be made again.
Shows == <>[][FALSE]_<<screen, desktop>> => <>[](Shown \/ ~running)
=============================================================================
