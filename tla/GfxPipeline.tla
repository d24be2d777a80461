----------------------------- MODULE GfxPipeline -----------------------------
(***************************************************************************)
(* The H.264 path of a connection: the encoder in MacDisplayUpdates, the   *)
(* display branch of RdpServer::client_loop, the GfxServer (gfx.rs) that   *)
(* the display branch and the dynamic channel share behind a std Mutex,    *)
(* and the client's side of the graphics channel.                          *)
(*                                                                         *)
(* The branches of client_loop are one task: a step runs from one await to *)
(* the next.  The awaits that matter are the writes to the socket, made    *)
(* under the fair mutex of SharedWriter: "out" holds the write each branch *)
(* waits for and "queue" the order in which they get the writer.           *)
(*                                                                         *)
(* The client is followed only so far as to know what it can make of what  *)
(* it is sent; what it cannot use is collected in "rejected".              *)
(***************************************************************************)
EXTENDS Naturals, Sequences, FiniteSets

CONSTANTS
    Sizes,     \* desktop and capture sizes
    NoSize,    \* "no surface"
    Worlds,    \* the environments the server may run in, see AllWorlds
    MaxConns,  \* bound on the connections of a behaviour
    MaxInbox   \* bound on the client PDUs in flight

AllKinds == {"avc",     \* confirms H.264 on the graphics channel
             "noavc",   \* advertises AVC_DISABLED
             "nogfx"}   \* never opens the graphics channel
AllFaults == {"timeout",        \* VideoToolbox answers after ENCODE_TIMEOUT
              "recreateFails",  \* VtH264Encoder::new fails
              "noBuffer"}       \* no CVPixelBuffer, or the encoder refuses it

\* An environment: the clients that connect, the failures of the encoder, and
\* whether a write to the socket may suspend its branch.
AllWorlds == [kinds : SUBSET AllKinds, faults : SUBSET AllFaults, suspends : BOOLEAN]

ASSUME GfxAssumption ==
    /\ Sizes # {}
    /\ NoSize \notin Sizes
    /\ Worlds \subseteq AllWorlds
    /\ MaxConns \in Nat
    /\ MaxInbox \in Nat

VARIABLES
    world,     \* the environment of this behaviour, which does not change
    phase,     \* "idle" (no client), "loop" (client_loop), "reactivating"
    conns,     \* connections accepted so far
    desk,      \* MacDisplay::size
    relayout,  \* the stream's resize_rx has a value next_update has not seen
    unseen,    \* MacDisplay's resize_rx has a value updates() has not seen
    gfx,       \* the GfxServer, which lives as long as the RdpServer
    opened,    \* the DrdynvcServer of this connection has opened the channel
    avcOn,     \* the shared flag avc420_enabled
    forceKey,  \* the shared flag force_keyframe
    encoder,   \* the VtH264Encoder of the current update stream
    gap,       \* a frame since the last keyframe was encoded and not sent
    out,       \* per branch, the write it waits for
    queue,     \* the branches in the order they hold or wait for the writer
    stuck,     \* the thread is blocked in gfx.lock()
    client,    \* what the client knows
    inbox,     \* PDUs of the client on the drdynvc channel
    rejected   \* what the client could not use

gfxVars == <<gfx, opened, avcOn>>
encVars == <<forceKey, encoder, gap>>
writeVars == <<out, queue>>
connVars == <<phase, conns, desk, relayout, unseen>>
clientVars == <<client, inbox, rejected>>
vars == <<world, connVars, gfxVars, encVars, writeVars, stuck, clientVars>>

Branches == {"display", "pdu"}
Nothing == [kind |-> "none", surface |-> NoSize, frame |-> "none", size |-> NoSize]
Writes == [kind : {"gfx", "bitmap", "deactivate"},
           surface : Sizes \cup {NoSize},
           frame : {"none", "key", "delta", "late", "broken"},
           size : Sizes \cup {NoSize}]
NewClient(k) == [kind |-> k, channel |-> "closed", surface |-> NoSize, decodes |-> FALSE,
                 sees |-> FALSE]
ClientPdus == {"createOk", "caps", "ack", "close"}

TypeOK ==
    /\ world \in Worlds
    /\ phase \in {"idle", "loop", "reactivating"}
    /\ conns \in 0 .. MaxConns
    /\ desk \in Sizes
    /\ relayout \in BOOLEAN /\ unseen \in BOOLEAN
    /\ gfx \in [state : {"WaitingCapabilities", "Active"}, channel : BOOLEAN,
                drdynvc : BOOLEAN, size : Sizes, needsKey : BOOLEAN]
    /\ opened \in BOOLEAN
    /\ avcOn \in BOOLEAN
    /\ forceKey \in BOOLEAN
    /\ encoder \in [size : Sizes, fresh : BOOLEAN]
    /\ gap \in {"none", "dropped", "late"}
    /\ out \in [Branches -> Writes \cup {Nothing}]
    /\ queue \in {<<>>, <<"display">>, <<"pdu">>, <<"display", "pdu">>, <<"pdu", "display">>}
    /\ stuck \in BOOLEAN
    /\ client \in [kind : AllKinds, channel : {"closed", "open", "advertised", "gone"},
                   surface : Sizes \cup {NoSize}, decodes : BOOLEAN, sees : BOOLEAN]
    /\ inbox \in Seq(ClientPdus) /\ Len(inbox) <= MaxInbox
    /\ rejected \subseteq {"channel", "surface", "keyframe", "late"}

Init ==
    /\ world \in Worlds
    /\ phase = "idle"
    /\ conns = 0
    /\ desk \in Sizes
    /\ relayout = FALSE /\ unseen = FALSE
    /\ gfx = [state |-> "WaitingCapabilities", channel |-> FALSE, drdynvc |-> FALSE,
              size |-> desk, needsKey |-> TRUE]
    /\ opened = FALSE
    /\ avcOn = TRUE
    /\ forceKey = FALSE
    /\ encoder = [size |-> desk, fresh |-> TRUE]
    /\ gap = "none"
    /\ out = [b \in Branches |-> Nothing]
    /\ queue = <<>>
    /\ stuck = FALSE
    /\ client \in {NewClient(k) : k \in world.kinds}
    /\ inbox = <<>>
    /\ rejected = {}

-----------------------------------------------------------------------------
(* The writer and the client's end of it. *)

\* A branch of the loop can run: the thread is not blocked, and if writes do
\* not suspend, none is under way.
CanRun(b) ==
    /\ phase = "loop"
    /\ ~stuck
    /\ out[b] = Nothing
    /\ world.suspends \/ queue = <<>>

Write(b, w) ==
    /\ out' = [out EXCEPT ![b] = w]
    /\ queue' = Append(queue, b)

\* What the client cannot use of a write: graphics on a channel it has not
\* opened, a frame that is not of the size of its surface, a frame that needs
\* one the client never decoded ("late" if the encoder gave that one too late).
Rejects(w) ==
    LET surface == IF w.surface = NoSize THEN client.surface ELSE w.surface IN
      {r \in {"channel"} : w.kind = "gfx" /\ client.channel = "closed"}
      \cup {r \in {"surface"} : w.frame # "none" /\ w.size # surface}
      \cup {r \in {"late"} : w.frame = "late"}
      \cup {r \in {"keyframe"} : \/ w.frame = "broken"
                                 \/ w.frame = "delta" /\ w.surface # NoSize
                                 \/ w.frame \in {"delta", "late"} /\ ~client.decodes}

Receive(w) ==
    /\ client' = [client EXCEPT
           !.surface = IF w.surface = NoSize THEN @ ELSE w.surface,
           !.decodes = CASE w.frame = "key" -> TRUE
                         [] w.surface # NoSize /\ w.frame = "none" -> FALSE
                         [] OTHER -> @,
           !.sees = @ \/ w.frame = "key" \/ w.kind = "bitmap"]
    /\ rejected' = rejected \cup Rejects(w)

\* The write at the head of the writer's queue completes and its branch goes
\* on.  A completed DeactivateAll ends client_loop: select! drops the other
\* branch together with the write it waited for.
WriteDone ==
    /\ queue # <<>>
    /\ ~stuck
    /\ LET b == Head(queue) IN
         /\ Receive(out[b])
         /\ IF out[b].kind = "deactivate"
            THEN /\ phase' = "reactivating"
                 /\ out' = [c \in Branches |-> Nothing]
                 /\ queue' = <<>>
            ELSE /\ out' = [out EXCEPT ![b] = Nothing]
                 /\ queue' = Tail(queue)
                 /\ UNCHANGED phase
    /\ UNCHANGED <<conns, desk, relayout, unseen, gfxVars, encVars, stuck, inbox>>

-----------------------------------------------------------------------------
(* Connections. *)

\* client_accepted up to client_loop: the size of the display after the
\* synthetic layout, the drdynvc id, a new update stream with a new encoder.
\* GfxServer::set_desktop_size is skipped for a client without
\* desktop_resize_flag.  updates() marks a layout as seen only after it has
\* given the new stream a receiver for which it is still new.
Accept(resizes, s, cap) ==
    /\ phase' = "loop"
    /\ desk' = IF resizes THEN s ELSE desk
    /\ relayout' = (unseen \/ desk' # desk)
    /\ unseen' = FALSE
    /\ gfx' = [gfx EXCEPT !.size = IF resizes THEN s ELSE @, !.drdynvc = TRUE]
    /\ encoder' = [size |-> cap, fresh |-> TRUE]
    /\ gap' = "none"
    /\ UNCHANGED <<avcOn, forceKey, writeVars, stuck>>

ClientConnects ==
    /\ phase = "idle"
    /\ conns < MaxConns
    /\ conns' = conns + 1
    /\ \E resizes \in BOOLEAN, s, cap \in Sizes : Accept(resizes, s, cap)
    /\ \E k \in world.kinds : client' = NewClient(k)
    /\ opened' = FALSE
    /\ inbox' = <<>>
    /\ UNCHANGED rejected

\* The handshake repeats with the channels kept.  A client PDU that arrives
\* before the Confirm Active is read by the acceptor and lost.
Reactivate ==
    /\ phase = "reactivating"
    /\ \E resizes \in BOOLEAN, cap \in Sizes : Accept(resizes, desk, cap)
    /\ \E n \in 0 .. Len(inbox) : inbox' = SubSeq(inbox, n + 1, Len(inbox))
    /\ UNCHANGED <<conns, opened, client, rejected>>

\* The connection ends; MacDisplay forgets its size, the GfxServer nothing.
Disconnect ==
    /\ phase \in {"loop", "reactivating"}
    /\ ~stuck
    /\ phase' = "idle"
    /\ desk' \in Sizes
    /\ out' = [b \in Branches |-> Nothing]
    /\ queue' = <<>>
    /\ inbox' = <<>>
    /\ UNCHANGED <<conns, relayout, unseen, gfxVars, encVars, stuck, client, rejected>>

\* MacDisplay::request_layout, for the DisplayControl channel.
RequestLayout ==
    /\ phase = "loop"
    /\ \E s \in Sizes \ {desk} : desk' = s
    /\ relayout' = TRUE /\ unseen' = TRUE
    /\ UNCHANGED <<phase, conns, gfxVars, encVars, writeVars, stuck, clientVars>>

-----------------------------------------------------------------------------
(* The display branch: next_update and dispatch_display. *)

\* A layout is passed to the client as a Resize only while the client is
\* known not to take H.264.
DisplayResize ==
    /\ CanRun("display")
    /\ relayout
    /\ relayout' = FALSE
    /\ IF avcOn
       THEN UNCHANGED writeVars
       ELSE Write("display", [Nothing EXCEPT !.kind = "deactivate"])
    /\ UNCHANGED <<phase, conns, desk, unseen, gfxVars, encVars, stuck, clientVars>>

\* A layout that comes while next_update waits for the next frame slot is
\* looked at after the frame.
DisplayBitmap ==
    /\ CanRun("display")
    /\ ~avcOn \/ "noBuffer" \in world.faults
    /\ Write("display", [Nothing EXCEPT !.kind = "bitmap"])
    /\ UNCHANGED <<connVars, gfxVars, encVars, stuck, clientVars>>

\* What a frame is worth to a client that has all frames sent so far.
FrameKind(key) ==
    CASE key -> "key"
      [] ~key /\ gap = "dropped" -> "broken"
      [] ~key /\ gap = "late" -> "late"
      [] OTHER -> "delta"

\* Mutant: no keyframe is asked for.
DropFrameSilently(key) ==
    /\ gfx.state # "Active" \/ (gfx.needsKey /\ ~key)
    /\ gap' = "dropped"
    /\ UNCHANGED <<gfx, forceKey, writeVars>>

\* A frame was encoded.  Without an active channel, or for want of a
\* keyframe, it is dropped and a keyframe is asked for.
DropFrame(key) ==
    /\ gfx.state # "Active" \/ (gfx.needsKey /\ ~key)
    /\ forceKey' = TRUE
    /\ gap' = "dropped"
    /\ UNCHANGED <<gfx, writeVars>>

\* Mutant: the surface keeps its size.
SendFrameAnySize(key) ==
    /\ gfx.state = "Active"
    /\ key \/ ~gfx.needsKey
    /\ forceKey' = FALSE
    /\ gfx' = [gfx EXCEPT !.needsKey = FALSE]
    /\ gap' = IF key THEN "none" ELSE gap
    /\ Write("display", [kind |-> "gfx", frame |-> FrameKind(key),
                         size |-> encoder.size, surface |-> NoSize])

\* Mutant: a frame does not wait for a keyframe.
SendFrameAnyKind(key) ==
    LET resize == gfx.size # encoder.size IN
    /\ gfx.state = "Active"
    /\ forceKey' = FALSE
    /\ gfx' = [gfx EXCEPT !.size = encoder.size, !.needsKey = resize]
    /\ gap' = IF key THEN "none" ELSE gap
    /\ Write("display", [kind |-> "gfx", frame |-> FrameKind(key),
                         size |-> encoder.size,
                         surface |-> IF resize THEN encoder.size ELSE NoSize])

\* Otherwise it goes out, after a new surface if its size is not that of the
\* surface.  A keyframe clears needs_keyframe before init_surface sets it.
SendFrame(key) ==
    LET resize == gfx.size # encoder.size IN
    /\ gfx.state = "Active"
    /\ key \/ ~gfx.needsKey
    /\ forceKey' = FALSE
    /\ gfx' = [gfx EXCEPT !.size = encoder.size, !.needsKey = resize]
    /\ IF gfx.channel /\ gfx.drdynvc
       THEN /\ Write("display", [kind |-> "gfx", frame |-> FrameKind(key), size |-> encoder.size,
                                 surface |-> IF resize THEN encoder.size ELSE NoSize])
            /\ gap' = IF key THEN "none" ELSE gap
       ELSE UNCHANGED writeVars /\ gap' = "dropped"

\* handle_ycbcr_frame gave a frame, and client_loop deals with it.
Encoded(key) ==
    /\ CanRun("display")
    /\ avcOn
    /\ DropFrame(key) \/ SendFrame(key)
    /\ encoder' = [encoder EXCEPT !.fresh = FALSE]
    /\ UNCHANGED <<connVars, opened, avcOn, stuck, clientVars>>

\* force_keyframe makes a new encoder, and a new encoder starts with a
\* keyframe; VideoToolbox inserts others when it likes.
DisplayFrame ==
    \E recreated \in {forceKey} \cup (IF "recreateFails" \in world.faults THEN {FALSE} ELSE {}) :
    \E key \in {TRUE, encoder.fresh \/ recreated} : Encoded(key)

\* The callback comes after ENCODE_TIMEOUT: the frame, which may be the
\* keyframe, is lost.
EncodeTimesOut ==
    /\ "timeout" \in world.faults
    /\ CanRun("display")
    /\ avcOn
    /\ encoder' = [encoder EXCEPT !.fresh = FALSE]
    /\ forceKey' = FALSE
    /\ gap' = IF gap = "dropped" THEN gap ELSE "late"
    /\ UNCHANGED <<connVars, gfxVars, writeVars, stuck, clientVars>>

\* The captured frames change size: recreate_stream.
CaptureResized ==
    /\ CanRun("display")
    /\ \E s \in Sizes \ {encoder.size} : encoder' = [size |-> s, fresh |-> TRUE]
    /\ UNCHANGED <<connVars, gfxVars, forceKey, gap, writeVars, stuck, clientVars>>

-----------------------------------------------------------------------------
(* The PDU branch: handle_x224, DrdynvcServer, SharedGfxServer. *)

\* The display branch waits for its write with the guard of the std Mutex.
GfxLocked == out["display"].kind = "gfx"

Start ==
    /\ Head(inbox) = "createOk"
    /\ gfx' = [gfx EXCEPT !.state = "WaitingCapabilities", !.channel = TRUE]
    /\ opened' = TRUE
    /\ UNCHANGED <<avcOn, writeVars>>

\* Mutant: the surface is never initialised.
CapabilitiesAdvertiseOnly ==
    /\ Head(inbox) = "caps"
    /\ opened
    /\ avcOn' = (client.kind = "avc")
    /\ gfx' = [gfx EXCEPT !.state = IF avcOn' THEN "Ready" ELSE @]
    /\ UNCHANGED <<opened, writeVars>>

\* Mutant: the flag the display reads is not cleared.
CapabilitiesAdvertiseKeepsFlag ==
    /\ Head(inbox) = "caps"
    /\ opened
    /\ IF client.kind = "avc"
       THEN /\ gfx' = [gfx EXCEPT !.state = "Active", !.needsKey = TRUE]
            /\ Write("pdu", [Nothing EXCEPT !.kind = "gfx", !.surface = gfx.size])
       ELSE UNCHANGED <<gfx, writeVars>>
    /\ UNCHANGED <<avcOn, opened>>

\* handle_capabilities_advertise, then init_surface.
CapabilitiesAdvertise ==
    /\ Head(inbox) = "caps"
    /\ opened
    /\ avcOn' = (client.kind = "avc")
    /\ IF avcOn'
       THEN /\ gfx' = [gfx EXCEPT !.state = "Active", !.needsKey = TRUE]
            /\ Write("pdu", [Nothing EXCEPT !.kind = "gfx", !.surface = gfx.size])
       ELSE UNCHANGED <<gfx, writeVars>>
    /\ UNCHANGED opened

FrameAcknowledge ==
    /\ Head(inbox) = "ack"
    /\ opened
    /\ UNCHANGED <<gfxVars, writeVars>>

\* Mutant: the closed channel stays active.
CloseKeepsActive ==
    /\ Head(inbox) = "close"
    /\ opened
    /\ gfx' = [gfx EXCEPT !.channel = FALSE]
    /\ opened' = FALSE
    /\ UNCHANGED <<avcOn, writeVars>>

Close ==
    /\ Head(inbox) = "close"
    /\ opened
    /\ gfx' = [gfx EXCEPT !.state = "WaitingCapabilities", !.channel = FALSE]
    /\ opened' = FALSE
    /\ UNCHANGED <<avcOn, writeVars>>

\* A PDU of a channel that is not open is an error, which ends the connection
\* (Disconnect).
ProcessPdu ==
    /\ CanRun("pdu")
    /\ inbox # <<>>
    /\ inbox' = Tail(inbox)
    /\ IF GfxLocked
       THEN stuck' = TRUE /\ UNCHANGED <<gfxVars, writeVars>>
       ELSE /\ Start \/ CapabilitiesAdvertise \/ FrameAcknowledge \/ Close
            /\ UNCHANGED stuck
    /\ UNCHANGED <<connVars, encVars, client, rejected>>

-----------------------------------------------------------------------------
(* The client. *)

ClientSends(pdu, channel) ==
    /\ phase = "loop"
    /\ Len(inbox) < MaxInbox
    /\ inbox' = Append(inbox, pdu)
    /\ client' = [client EXCEPT !.channel = channel]
    /\ UNCHANGED <<connVars, gfxVars, encVars, writeVars, stuck, rejected>>

ClientOpens ==
    /\ client.kind # "nogfx"
    /\ client.channel = "closed"
    /\ ClientSends("createOk", "open")

ClientAdvertises ==
    /\ client.channel = "open"
    /\ ClientSends("caps", "advertised")

ClientAcknowledges ==
    /\ client.channel = "advertised"
    /\ client.decodes
    /\ ClientSends("ack", "advertised")

ClientCloses ==
    /\ client.channel = "advertised"
    /\ ClientSends("close", "gone")

Client == ClientOpens \/ ClientAdvertises \/ ClientAcknowledges \/ ClientCloses

Step ==
    \/ WriteDone
    \/ ClientConnects
    \/ Reactivate
    \/ Disconnect
    \/ RequestLayout
    \/ DisplayResize
    \/ DisplayBitmap
    \/ DisplayFrame
    \/ EncodeTimesOut
    \/ CaptureResized
    \/ ProcessPdu
    \/ Client

Next == Step /\ world' = world

Spec == Init /\ [][Next]_vars

\* The branches of select! are polled as long as they can run, sockets drain,
\* a client completes the handshakes it has begun.  Keyframes that nobody
\* asked for are not promised.
Fairness ==
    /\ WF_vars(WriteDone /\ world' = world)
    /\ WF_vars(DisplayResize /\ world' = world)
    /\ WF_vars(DisplayBitmap /\ world' = world)
    /\ WF_vars((Encoded(encoder.fresh \/ forceKey)) /\ world' = world)
    /\ WF_vars(ProcessPdu /\ world' = world)
    /\ WF_vars(Reactivate /\ world' = world)
    /\ WF_vars((ClientOpens \/ ClientAdvertises) /\ world' = world)

FairSpec == Spec /\ Fairness

-----------------------------------------------------------------------------
(* What the pipeline promises. *)

\* "Surface created and mapped; ready to send frames" (gfx.rs:43): graphics
\* go only to a client that has opened the channel, on a surface of the size
\* of the frames.
OnSurface == rejected \cap {"channel", "surface"} = {}

\* "The client can't decode P-frames without a preceding keyframe"
\* (server.rs:755-756): every frame sent builds on frames the client has, but
\* for frames that the encoder gave too late.
Decodable == "keyframe" \notin rejected

\* An active pipeline knows where to send: what drain_pending takes out of
\* the queue is never thrown away for want of a channel id.
ActiveHasChannel == gfx.state = "Active" => gfx.channel /\ gfx.drdynvc

\* "Shared via Arc<Mutex<>> so the display update loop can enqueue frames
\* while the DVC channel processes client PDUs" (gfx.rs:49-50).
NoSelfDeadlock == ~stuck

\* The environments in which a first picture is promised: an encoder that
\* works, a socket that takes what it is given.
Calm == world.faults = {} /\ ~world.suspends

\* While the graphics channel stays open the client gets a picture it can
\* decode, however many frames were dropped before.
Recovers ==
    Calm /\ phase = "loop" /\ gfx.state = "Active"
        ~> client.decodes \/ phase # "loop" \/ gfx.state # "Active"

\* "True when the client supports AVC420" (display.rs:126-129): a connected
\* client that opens the graphics channel sees something, by H.264 or, if it
\* refuses that, by bitmaps.
ClientSees ==
    Calm /\ "nogfx" \notin world.kinds /\ phase = "loop"
        ~> client.sees \/ phase # "loop" \/ client.channel = "gone"
==============================================================================
