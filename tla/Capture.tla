-------------------------------- MODULE Capture --------------------------------
(***************************************************************************)
(* Which source the screen is captured from, and at which size: MacDisplay *)
(* and the stream it starts (display.rs).  Capture by ScreenCaptureKit     *)
(* does not survive a switch of the display's mode, so a stream started    *)
(* after one has to use CGDisplay.                                         *)
(*                                                                         *)
(* request_layout holds the display mutex while a helper process switches  *)
(* the mode; a stream that is running does not ask for the mutex and sees  *)
(* the display change under it.  A stream made by ScreenCaptureKit after a *)
(* switch may crash the server, which ends the behaviour.                  *)
(*                                                                         *)
(* How sizes are agreed with the client is ServerLoop's subject; what      *)
(* becomes of the user's mode, also after a crash, DisplayMode's.          *)
(***************************************************************************)
EXTENDS Naturals

CONSTANTS
    Modes,       \* the sizes the display can have
    Home,        \* the one the user has chosen
    Sizes,       \* the sizes clients ask for, all modes among them
    None,        \* "no size"
    Best,        \* the mode for a size that is asked for, or None
    Shaped,      \* a size that is asked for, in the display's shape (Native mode)
    Worlds,      \* how the server is set up and what fails, see AllWorlds
    MaxClients,  \* bound on connections
    MaxLayouts   \* bound on layouts asked for

AllWorlds ==
    [h264 : BOOLEAN,  \* CaptureMode::H264
     fit : BOOLEAN,   \* AspectMode::Fit
     faults : SUBSET {"switch",   \* a switch helper fails where it need not
                      "create",   \* create_stream fails, three times
                      "encoder"}] \* VtH264Encoder::new fails

ASSUME CaptureAssumption ==
    /\ Home \in Modes
    /\ Modes \subseteq Sizes
    /\ None \notin Sizes
    /\ Best \in [Sizes -> Modes \cup {None}]
    /\ \A m \in Modes : Best[m] = m  \* ModeChoice
    /\ Shaped \in [Sizes -> Sizes]
    /\ Worlds \subseteq AllWorlds
    /\ MaxClients \in Nat /\ MaxLayouts \in Nat

VARIABLES
    world,     \* the world of this behaviour, which does not change
    mode,      \* the size of the display
    switched,  \* it has been changed since the server was started
    mac,       \* MacDisplay: current_size, native_size, mode_switch_pending, cg_display_forced
    notice,    \* the watch channel: its value, who of MacDisplay and the stream has not seen it
    request,   \* the request_layout that has the mutex
    waiting,   \* layouts that wait for the mutex
    asked,     \* layouts asked for so far
    phase,     \* where the connection is
    clients,   \* connections so far
    desktop,   \* the size of the client's desktop
    avc,       \* avc420_enabled
    stream     \* MacDisplayUpdates

captureVars == <<world, mode, switched, mac, notice, request, waiting, asked, phase, clients,
                 desktop, avc, stream>>
connVars == <<phase, clients, desktop>>

NoRequest == [size |-> None, at |-> "none"]

\* by: what made the capture; after: whether the mode had been switched then.
NoStream == [src |-> "none", by |-> "none", after |-> FALSE, size |-> None, encoder |-> None]

TypeOK ==
    /\ world \in Worlds
    /\ mode \in Modes
    /\ switched \in BOOLEAN
    /\ mac \in [current : Sizes \cup {None}, native : Modes \cup {None},
                pending : BOOLEAN, forced : BOOLEAN]
    /\ notice \in [value : Sizes \cup {None}, mac : BOOLEAN, stream : BOOLEAN]
    /\ request \in [size : Sizes, at : {"asked", "switching", "switched", "failed"}] \cup {NoRequest}
    /\ waiting \subseteq Sizes
    /\ asked \in 0 .. MaxLayouts
    /\ phase \in {"down", "accepted", "differs", "asking", "starting", "streaming", "leaving", "crashed"}
    /\ clients \in 0 .. MaxClients
    /\ desktop \in Sizes
    /\ avc \in BOOLEAN
    /\ stream \in [src : {"none", "sckit", "cgdisplay", "ended"}, by : {"none", "updates", "recreate"},
                   after : BOOLEAN, size : Modes \cup {None}, encoder : Modes \cup {None}]

Init ==
    /\ world \in Worlds
    /\ mode = Home
    /\ switched = FALSE
    /\ mac = [current |-> None, native |-> Home, pending |-> FALSE, forced |-> FALSE]
    /\ notice = [value |-> None, mac |-> FALSE, stream |-> FALSE]
    /\ request = NoRequest
    /\ waiting = {}
    /\ asked = 0
    /\ phase = "down"
    /\ clients = 0
    /\ desktop = Home
    /\ avc = TRUE
    /\ stream = NoStream

-----------------------------------------------------------------------------
(* MacDisplay, under its mutex. *)

Free == request = NoRequest

\* ensure_native_size
Native == IF mac.native = None THEN mode ELSE mac.native

\* size() caches the native size only when it needs it.
Size == IF mac.current = None THEN Native ELSE mac.current
Asked == IF mac.current = None THEN [mac EXCEPT !.native = Native] ELSE mac

Announce(size) == notice' = [value |-> size, mac |-> TRUE, stream |-> phase = "streaming"]

\* The layout of a detached task gets the mutex.
LayoutTask(size) ==
    /\ Free
    /\ size \in waiting
    /\ waiting' = waiting \ {size}
    /\ request' = [size |-> size, at |-> "asked"]
    /\ UNCHANGED <<mode, switched, mac, notice, asked, connVars, avc, stream>>

\* switch_to_best_mode: no helper if the display is there already.
StartSwitch ==
    /\ request.at = "asked"
    /\ request' = [request EXCEPT !.at = CASE ~world.fit -> "failed"
                                           [] world.fit /\ mode = request.size -> "switched"
                                           [] OTHER -> "switching"]
    /\ UNCHANGED <<mode, switched, mac, notice, waiting, asked, connVars, avc, stream>>

\* Mutant: a size no mode fits is switched to all the same.
HelperSwitchesToNone ==
    /\ request.at = "switching"
    /\ mode' = Best[request.size]
    /\ switched' = (switched \/ mode' # mode)
    /\ request' = [size |-> Best[request.size], at |-> "switched"]
    /\ UNCHANGED <<mac, notice, waiting, asked, connVars, avc, stream>>

HelperSwitches ==
    /\ request.at = "switching"
    /\ Best[request.size] # None
    /\ mode' = Best[request.size]
    /\ switched' = (switched \/ mode' # mode)
    /\ request' = [size |-> Best[request.size], at |-> "switched"]
    /\ UNCHANGED <<mac, notice, waiting, asked, connVars, avc, stream>>

HelperFails ==
    /\ request.at = "switching"
    /\ Best[request.size] = None \/ "switch" \in world.faults
    /\ request' = [request EXCEPT !.at = "failed"]
    /\ UNCHANGED <<mode, switched, mac, notice, waiting, asked, connVars, avc, stream>>

\* client_accepted waits for the request it has made itself.
Answered ==
    /\ request' = NoRequest
    /\ phase' = IF phase = "asking" THEN "starting" ELSE phase
    /\ UNCHANGED <<mode, switched, waiting, asked, clients, desktop, avc, stream>>

\* Mutant: the native size is not asked for again.
SwitchedKeepsNative ==
    /\ request.at = "switched"
    /\ Answered
    /\ mac' = [mac EXCEPT !.current = request.size, !.pending = TRUE, !.forced = TRUE]
    /\ Announce(request.size)


\* The display is in another mode: unless the desktop had that size before.
Switched ==
    /\ request.at = "switched"
    /\ Answered
    /\ IF mac.current = request.size
       THEN UNCHANGED <<mac, notice>>
       ELSE /\ mac' = [current |-> request.size, native |-> None, pending |-> TRUE, forced |-> TRUE]
            /\ Announce(request.size)

\* The display keeps its mode, the desktop is fitted in by other means.
Letterboxed ==
    /\ request.at = "failed"
    /\ Answered
    /\ LET size == IF world.fit THEN request.size ELSE Shaped[request.size] IN
         IF mac.current = size
         THEN UNCHANGED <<mac, notice>>
         ELSE mac' = [mac EXCEPT !.current = size] /\ Announce(size)

-----------------------------------------------------------------------------
(* The connection. *)

Connect ==
    /\ phase = "down"
    /\ Free
    /\ clients < MaxClients
    /\ clients' = clients + 1
    /\ phase' = "accepted"
    /\ mac' = Asked
    /\ desktop' \in Sizes
    /\ UNCHANGED <<mode, switched, notice, request, waiting, asked, avc, stream>>

\* client_accepted compares the client's size with that of the display, if the
\* client can be resized ...
Accepted ==
    /\ phase = "accepted"
    /\ Free
    /\ mac' = Asked
    /\ phase' = "starting" \/ (phase' = "differs" /\ desktop # Size)
    /\ UNCHANGED <<mode, switched, notice, request, waiting, asked, clients, desktop, avc, stream>>

\* ... and then takes the mutex again to ask for a layout of that size.
AsksLayout ==
    /\ phase = "differs"
    /\ Free
    /\ phase' = "asking"
    /\ request' = [size |-> desktop, at |-> "asked"]
    /\ UNCHANGED <<mode, switched, mac, notice, waiting, asked, clients, desktop, avc, stream>>

Started(src) ==
    /\ phase' = "streaming"
    /\ stream' = [src |-> src, by |-> "updates", after |-> switched, size |-> Native,
                  encoder |-> IF world.h264 THEN Native ELSE None]
    /\ notice' = [notice EXCEPT !.mac = FALSE, !.stream = notice.mac]

\* Mutant: only the switch that is pending counts.
UpdatesForget ==
    /\ phase = "starting"
    /\ Free
    /\ mac' = [mac EXCEPT !.native = Native, !.pending = FALSE]
    /\ Started(IF mac.pending THEN "cgdisplay" ELSE "sckit")
    /\ UNCHANGED <<mode, switched, request, waiting, asked, clients, desktop, avc>>

\* updates(): the mutex is held throughout.
Updates ==
    /\ phase = "starting"
    /\ Free
    /\ mac' = [mac EXCEPT !.native = Native, !.pending = FALSE]
    /\ Started(IF mac.pending \/ mac.forced THEN "cgdisplay" ELSE "sckit")
    /\ UNCHANGED <<mode, switched, request, waiting, asked, clients, desktop, avc>>

\* No stream or no encoder: the connection ends, the notice stays unseen.
UpdatesFail ==
    /\ phase = "starting"
    /\ Free
    /\ \/ "create" \in world.faults /\ ~mac.pending /\ ~mac.forced
       \/ "encoder" \in world.faults /\ world.h264
    /\ mac' = [mac EXCEPT !.native = Native, !.pending = FALSE]
    /\ phase' = "leaving"
    /\ UNCHANGED <<mode, switched, notice, request, waiting, asked, clients, desktop, avc, stream>>

LayoutPdu ==
    /\ phase = "streaming"
    /\ asked < MaxLayouts
    /\ asked' = asked + 1
    /\ \E size \in Sizes : waiting' = waiting \cup {size}
    /\ UNCHANGED <<mode, switched, mac, notice, request, connVars, avc, stream>>

\* handle_capabilities_advertise: can the client decode H.264?
Negotiated ==
    /\ phase = "streaming"
    /\ world.h264
    /\ avc' = ~avc
    /\ UNCHANGED <<mode, switched, mac, notice, request, waiting, asked, connVars, stream>>

\* next_update: a Resize deactivates the client and drops the stream, unless
\* the client is sent H.264.
ResizeSeen ==
    /\ phase = "streaming"
    /\ notice.stream
    /\ notice' = [notice EXCEPT !.stream = FALSE]
    /\ IF world.h264 /\ avc
       THEN UNCHANGED <<phase, desktop, stream>>
       ELSE phase' = "accepted" /\ desktop' = notice.value /\ stream' = NoStream
    /\ UNCHANGED <<mode, switched, mac, request, waiting, asked, clients, avc>>

\* recreate_stream: a stream of another size, with another encoder.
RecreateStream(size) ==
    /\ \/ stream' = [stream EXCEPT !.by = "recreate", !.after = switched, !.size = size,
                                   !.encoder = IF world.h264 THEN size ELSE @]
       \/ /\ "encoder" \in world.faults /\ world.h264
          /\ stream' = [stream EXCEPT !.by = "recreate", !.after = switched, !.size = size]
       \/ /\ "create" \in world.faults
          /\ stream' = [stream EXCEPT !.src = "ended"]
    /\ UNCHANGED <<mode, switched, mac, notice, request, waiting, asked, connVars, avc>>

\* A sample of another size than the stream's.
SizeChanged ==
    /\ phase = "streaming"
    /\ stream.src = "sckit"
    /\ mode # stream.size
    /\ RecreateStream(mode)

\* Too many samples without a buffer.
Stalled ==
    /\ phase = "streaming"
    /\ stream.src = "sckit"
    /\ RecreateStream(stream.size)

\* "SCKit crashes (SIGSEGV in `createContentFilterWithDisplay`) after any
\* display mode change": whoever makes a stream then may be killed by it.
SckitCrashes ==
    /\ switched
    /\ \/ phase = "streaming" /\ stream.src = "sckit"
       \/ phase = "starting" /\ Free /\ ~mac.pending /\ ~mac.forced
    /\ phase' = "crashed"
    /\ stream' = NoStream
    /\ UNCHANGED <<mode, switched, mac, notice, request, waiting, asked, clients, desktop, avc>>

\* The connection ends and takes the stream along.
Leave ==
    /\ phase \in {"accepted", "streaming"}
    /\ phase' = "leaving"
    /\ stream' = NoStream
    /\ notice' = [notice EXCEPT !.stream = FALSE]
    /\ UNCHANGED <<mode, switched, mac, request, waiting, asked, clients, desktop, avc>>

\* Mutant: the native size is kept for the next client.
ClientDisconnectedKeepsNative ==
    /\ phase = "leaving"
    /\ Free
    /\ phase' = "down"
    /\ mode' \in {Home, mode}
    /\ switched' = (switched \/ mode' # mode)
    /\ mac' = [mac EXCEPT !.current = None, !.pending = FALSE]
    /\ UNCHANGED <<notice, request, waiting, asked, clients, desktop, avc, stream>>

\* client_disconnected: its restore may fail, and all is forgotten anyway.
ClientDisconnected ==
    /\ phase = "leaving"
    /\ Free
    /\ phase' = "down"
    /\ mode' \in {Home, mode}
    /\ switched' = (switched \/ mode' # mode)
    /\ mac' = [mac EXCEPT !.current = None, !.native = None, !.pending = FALSE]
    /\ UNCHANGED <<notice, request, waiting, asked, clients, desktop, avc, stream>>

Request ==
    \/ \E size \in Sizes : LayoutTask(size)
    \/ StartSwitch
    \/ HelperSwitches \/ HelperFails
    \/ Switched \/ Letterboxed

Server == Accepted \/ AsksLayout \/ Updates \/ UpdatesFail \/ ClientDisconnected

Environment == Connect \/ LayoutPdu \/ Negotiated \/ Leave \/ SizeChanged \/ Stalled \/ SckitCrashes

Step == Request \/ Server \/ ResizeSeen \/ Environment

Runs == phase # "crashed" /\ world' = world

Next == Step /\ Runs

Spec == Init /\ [][Next]_captureVars

\* The server's task, the tasks of layouts and their helpers run, and
\* next_update looks for a resize before every frame.
Fairness ==
    /\ WF_captureVars(Request /\ Runs)
    /\ WF_captureVars(Server /\ Runs)
    /\ WF_captureVars(ResizeSeen /\ Runs)

FairSpec == Spec /\ Fairness

-----------------------------------------------------------------------------

\* "CGDisplay must be used for ALL subsequent streams because SCKit crashes
\* after a mode switch (macOS bug)" (display.rs:119-121).
NoSckitAfterSwitch == stream.src = "sckit" => ~stream.after

\* The same for the streams that updates() starts, for this client or a later
\* one, on the way there or back: the mode was never switched before.  (A
\* request that is granted after an equal one was letterboxed forces nothing.)
UpdatesAvoidSckit ==
    "switch" \notin world.faults /\ stream.by = "updates" => NoSckitAfterSwitch

\* "a stale native_size would reflect the previously switched mode"
\* (display.rs:414-415): what MacDisplay believes to be the display's size,
\* when nobody holds its mutex, is its size.
NativeIsCurrent ==
    "switch" \notin world.faults /\ Free => mac.native \in {mode, None}

==============================================================================
