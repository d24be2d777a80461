---------------------------- MODULE CaptureProofs ----------------------------
(***************************************************************************)
(* For any number of modes, sizes, clients and layouts: no stream that     *)
(* updates() starts after a switch of the display uses ScreenCaptureKit,   *)
(* and MacDisplay never believes in a native size of an earlier mode.      *)
(***************************************************************************)
EXTENDS Capture, TLAPS

MacType == [current : Sizes \cup {None}, native : Modes \cup {None}, pending : BOOLEAN, forced : BOOLEAN]

NoticeType == [value : Sizes \cup {None}, mac : BOOLEAN, stream : BOOLEAN]

StreamType == [src : {"none", "sckit", "cgdisplay", "ended"}, by : {"none", "updates", "recreate"},
               after : BOOLEAN, size : Modes \cup {None}, encoder : Modes \cup {None}]

\* News on the watch channel is a size.
NewsIsSize == notice.mac \/ notice.stream => notice.value \in Sizes

\* A request that came so far has a result that makes sense: the display is
\* in the mode that is reported, and only what fits no mode is letterboxed.
RequestInv ==
    /\ request.at \in {"switching", "switched"} => world.fit
    /\ request.at = "switched" => request.size = mode
    /\ request.at = "failed" /\ world.fit /\ "switch" \notin world.faults => Best[request.size] = None

\* In Native mode the display is never switched.
NativeAtHome == ~world.fit => mode = Home /\ ~switched

\* A desktop of a mode's size was reached by a switch, and the display has it.
DesktopMode ==
    world.fit /\ "switch" \notin world.faults /\ mac.current \in Modes =>
        /\ mac.forced
        /\ request.at # "switched" => mode = mac.current

\* A switch is known to MacDisplay before it lets go of its mutex.
SwitchForces ==
    "switch" \notin world.faults /\ switched => mac.forced \/ request.at = "switched"

AwaySwitched == mode # Home => switched

\* The native size is current but for a moment in which it is about to be
\* forgotten: then the size that was reported is new to MacDisplay.
NativeInv ==
    "switch" \notin world.faults =>
        mac.native \in {mode, None} \/ (request.at = "switched" /\ mac.current # request.size)

IInv == /\ TypeOK /\ NewsIsSize /\ RequestInv /\ NativeAtHome /\ DesktopMode
        /\ SwitchForces /\ AwaySwitched /\ NativeInv /\ UpdatesAvoidSckit

\* The native size is a mode, whether it was asked for before or not.
LEMMA NativeIsMode ==
    ASSUME TypeOK
    PROVE  /\ Native \in Modes
           /\ Asked \in MacType
           /\ Asked.current = mac.current /\ Asked.forced = mac.forced
           /\ Asked.native \in {mac.native, Native}
BY CaptureAssumption DEF TypeOK, Native, Asked, MacType

\* The value of a connection without a stream.
LEMMA NoStreamType == NoStream \in StreamType
BY DEF NoStream, StreamType

\* What is announced is a size.
LEMMA AnnounceType ==
    ASSUME NEW size \in Sizes, Announce(size)
    PROVE  notice' \in NoticeType /\ notice'.value \in Sizes
<1> DEFINE streams == phase = "streaming"
<1>1. streams \in BOOLEAN
    BY Zenon
<1>2. notice' = [value |-> size, mac |-> TRUE, stream |-> streams]
    BY DEF Announce
<1> HIDE DEF streams
<1> QED
    BY <1>1, <1>2 DEF NoticeType

\* A stream that is made again is no stream of updates(), or has ended.
LEMMA RecreateType ==
    ASSUME TypeOK, NEW size \in Modes \cup {None}, RecreateStream(size)
    PROVE  /\ stream' \in StreamType
           /\ stream'.by # "updates" \/ stream'.src = "ended"
           /\ UNCHANGED <<mode, switched, mac, notice, request, waiting, asked, connVars, avc>>
<1>1. stream \in StreamType /\ switched \in BOOLEAN
    BY DEF TypeOK, StreamType
<1>2. [stream EXCEPT !.src = "ended"] \in StreamType
    BY <1>1 DEF StreamType
<1>3. [stream EXCEPT !.by = "recreate", !.after = switched, !.size = size] \in StreamType
    BY <1>1 DEF StreamType
<1>4. [stream EXCEPT !.by = "recreate", !.after = switched, !.size = size,
                     !.encoder = IF world.h264 THEN size ELSE @] \in StreamType
    BY <1>1 DEF StreamType
<1>5. UNCHANGED <<mode, switched, mac, notice, request, waiting, asked, connVars, avc>>
    BY DEF RecreateStream
<1>6. \/ stream' = [stream EXCEPT !.by = "recreate", !.after = switched, !.size = size,
                                  !.encoder = IF world.h264 THEN size ELSE @]
      \/ stream' = [stream EXCEPT !.by = "recreate", !.after = switched, !.size = size]
      \/ stream' = [stream EXCEPT !.src = "ended"]
    BY DEF RecreateStream
<1>7. stream' \in StreamType
    BY <1>2, <1>3, <1>4, <1>6
<1>8. stream'.by # "updates" \/ stream'.src = "ended"
    BY <1>1, <1>6 DEF StreamType
<1> QED
    BY <1>5, <1>7, <1>8

\* A request has a size, and so has what is left of it.
LEMMA RequestSize ==
    ASSUME TypeOK, request.at # "none"
    PROVE  request.size \in Sizes /\ Shaped[request.size] \in Sizes
BY CaptureAssumption DEF TypeOK, NoRequest

\* The invariant holds when the server starts.
LEMMA InitHolds == Init => IInv
<1> SUFFICES ASSUME Init PROVE IInv
    OBVIOUS
<1>1. mac \in MacType /\ notice \in NoticeType /\ stream \in StreamType
    BY CaptureAssumption DEF Init, MacType, NoticeType, StreamType, NoStream
<1>2. TypeOK
    <2>1. request \in [size : Sizes, at : {"asked", "switching", "switched", "failed"}] \cup {NoRequest}
        BY DEF Init
    <2>2. /\ world \in Worlds /\ mode \in Modes /\ waiting \subseteq Sizes /\ phase = "down"
          /\ asked \in 0 .. MaxLayouts /\ clients \in 0 .. MaxClients /\ desktop \in Sizes
        BY CaptureAssumption DEF Init
    <2>3. switched \in BOOLEAN /\ avc \in BOOLEAN
        BY Zenon DEF Init
    <2> QED
        BY <1>1, <2>1, <2>2, <2>3 DEF TypeOK, MacType, NoticeType, StreamType
<1>3. NewsIsSize /\ RequestInv /\ NativeAtHome /\ DesktopMode
    BY CaptureAssumption DEF Init, NewsIsSize, RequestInv, NativeAtHome, DesktopMode, NoRequest
<1>4. SwitchForces /\ AwaySwitched /\ NativeInv /\ UpdatesAvoidSckit
    BY DEF Init, SwitchForces, AwaySwitched, NativeInv, UpdatesAvoidSckit, NoSckitAfterSwitch, NoStream
<1> QED
    BY <1>2, <1>3, <1>4 DEF IInv

\* A request that has the mutex keeps the invariant.
LEMMA RequestStep ==
    ASSUME IInv, world' = world, Request
    PROVE  IInv'
<1> USE CaptureAssumption
<1>1. CASE \E size \in Sizes : LayoutTask(size)
    <2> USE <1>1 DEF IInv, LayoutTask, Free, connVars, NoRequest
    <2>1. TypeOK'
        BY NativeIsMode DEF TypeOK, NewsIsSize
    <2>2. NewsIsSize' /\ RequestInv' /\ NativeAtHome' /\ AwaySwitched'
        BY DEF TypeOK, NewsIsSize, RequestInv, NativeAtHome, AwaySwitched
    <2>3. DesktopMode' /\ SwitchForces' /\ NativeInv'
        BY NativeIsMode DEF TypeOK, RequestInv, NativeAtHome, DesktopMode,
           SwitchForces, AwaySwitched, NativeInv, Native, Asked
    <2>4. UpdatesAvoidSckit'
        BY DEF TypeOK, UpdatesAvoidSckit, NoSckitAfterSwitch, SwitchForces
    <2> QED
        BY <2>1, <2>2, <2>3, <2>4
<1>2. CASE StartSwitch
    <2> USE <1>2 DEF IInv, StartSwitch, Free, connVars, NoRequest
    <2>1. TypeOK'
        BY NativeIsMode DEF TypeOK, NewsIsSize
    <2>2. NewsIsSize' /\ RequestInv' /\ NativeAtHome' /\ AwaySwitched'
        BY DEF TypeOK, NewsIsSize, RequestInv, NativeAtHome, AwaySwitched
    <2>3. DesktopMode' /\ SwitchForces' /\ NativeInv'
        BY NativeIsMode DEF TypeOK, RequestInv, NativeAtHome, DesktopMode,
           SwitchForces, AwaySwitched, NativeInv, Native, Asked
    <2>4. UpdatesAvoidSckit'
        BY DEF TypeOK, UpdatesAvoidSckit, NoSckitAfterSwitch, SwitchForces
    <2> QED
        BY <2>1, <2>2, <2>3, <2>4
<1>3. CASE HelperSwitches
    <2> USE <1>3 DEF IInv, HelperSwitches, Free, connVars, NoRequest
    <2>1. TypeOK'
        BY NativeIsMode DEF TypeOK, NewsIsSize
    <2>2. NewsIsSize' /\ RequestInv' /\ NativeAtHome' /\ AwaySwitched'
        BY DEF TypeOK, NewsIsSize, RequestInv, NativeAtHome, AwaySwitched
    <2>3. DesktopMode' /\ SwitchForces' /\ NativeInv'
        BY NativeIsMode DEF TypeOK, RequestInv, NativeAtHome, DesktopMode,
           SwitchForces, AwaySwitched, NativeInv, Native, Asked
    <2>4. UpdatesAvoidSckit'
        BY DEF TypeOK, UpdatesAvoidSckit, NoSckitAfterSwitch, SwitchForces
    <2> QED
        BY <2>1, <2>2, <2>3, <2>4
<1>4. CASE HelperFails
    <2> USE <1>4 DEF IInv, HelperFails, Free, connVars, NoRequest
    <2>1. TypeOK'
        BY NativeIsMode DEF TypeOK, NewsIsSize
    <2>2. NewsIsSize' /\ RequestInv' /\ NativeAtHome' /\ AwaySwitched'
        BY DEF TypeOK, NewsIsSize, RequestInv, NativeAtHome, AwaySwitched
    <2>3. DesktopMode' /\ SwitchForces' /\ NativeInv'
        BY NativeIsMode DEF TypeOK, RequestInv, NativeAtHome, DesktopMode,
           SwitchForces, AwaySwitched, NativeInv, Native, Asked
    <2>4. UpdatesAvoidSckit'
        BY DEF TypeOK, UpdatesAvoidSckit, NoSckitAfterSwitch, SwitchForces
    <2> QED
        BY <2>1, <2>2, <2>3, <2>4
<1>5. CASE Switched
    <2> USE <1>5 DEF IInv, Switched, Answered, Free, connVars, NoRequest
    <2>1. TypeOK'
        <3>1. mac' \in MacType
            <4>1. request.size \in Sizes /\ mac \in MacType
                BY RequestSize DEF TypeOK, MacType
            <4>2. \/ mac' = mac
                  \/ mac' = [current |-> request.size, native |-> None, pending |-> TRUE, forced |-> TRUE]
                OBVIOUS
            <4>3. [current |-> request.size, native |-> None, pending |-> TRUE, forced |-> TRUE] \in MacType
                BY <4>1 DEF MacType
            <4> QED
                BY <4>1, <4>2, <4>3
        <3>2. notice' \in NoticeType
            BY RequestSize, AnnounceType DEF TypeOK, NoticeType
        <3>3. stream' \in StreamType
            BY NativeIsMode DEF TypeOK, StreamType, NoStream
        <3>4. switched' \in BOOLEAN /\ avc' \in BOOLEAN
            BY Zenon DEF TypeOK
        <3> QED
            BY <3>1, <3>2, <3>3, <3>4 DEF TypeOK, NewsIsSize, MacType, NoticeType, StreamType
    <2>2. NewsIsSize' /\ RequestInv' /\ NativeAtHome' /\ AwaySwitched'
        BY RequestSize, AnnounceType DEF TypeOK, NewsIsSize, RequestInv, NativeAtHome, AwaySwitched
    <2>3. DesktopMode' /\ SwitchForces' /\ NativeInv'
        BY NativeIsMode DEF TypeOK, RequestInv, NativeAtHome, DesktopMode,
           SwitchForces, AwaySwitched, NativeInv, Native, Asked
    <2>4. UpdatesAvoidSckit'
        BY DEF TypeOK, UpdatesAvoidSckit, NoSckitAfterSwitch, SwitchForces
    <2> QED
        BY <2>1, <2>2, <2>3, <2>4
<1>6. CASE Letterboxed
    <2> USE <1>6 DEF IInv, Letterboxed, Answered, Free, connVars, NoRequest
    <2>1. TypeOK'
        <3>1. mac' \in MacType
            BY RequestSize DEF TypeOK, MacType
        <3>2. notice' \in NoticeType
            BY RequestSize, AnnounceType DEF TypeOK, NoticeType
        <3>3. stream' \in StreamType
            BY NativeIsMode DEF TypeOK, StreamType, NoStream
        <3>4. switched' \in BOOLEAN /\ avc' \in BOOLEAN
            BY Zenon DEF TypeOK
        <3> QED
            BY <3>1, <3>2, <3>3, <3>4 DEF TypeOK, NewsIsSize, MacType, NoticeType, StreamType
    <2>2. NewsIsSize' /\ RequestInv' /\ NativeAtHome' /\ AwaySwitched'
        BY RequestSize, AnnounceType DEF TypeOK, NewsIsSize, RequestInv, NativeAtHome, AwaySwitched
    <2>3. DesktopMode' /\ SwitchForces' /\ NativeInv'
        BY NativeIsMode DEF TypeOK, RequestInv, NativeAtHome, DesktopMode,
           SwitchForces, AwaySwitched, NativeInv, Native, Asked
    <2>4. UpdatesAvoidSckit'
        BY DEF TypeOK, UpdatesAvoidSckit, NoSckitAfterSwitch, SwitchForces
    <2> QED
        BY <2>1, <2>2, <2>3, <2>4
<1> QED
    BY <1>1, <1>2, <1>3, <1>4, <1>5, <1>6 DEF Request

\* The server's task keeps the invariant.
LEMMA ServerStep ==
    ASSUME IInv, world' = world, Server
    PROVE  IInv'
<1> USE CaptureAssumption
<1>1. CASE Accepted
    <2> USE <1>1 DEF IInv, Accepted, Free, connVars, NoRequest
    <2>1. TypeOK'
        <3>1. mac' \in MacType
            BY NativeIsMode DEF TypeOK, MacType
        <3>2. notice' \in NoticeType
            BY DEF TypeOK, NoticeType
        <3>3. stream' \in StreamType
            BY NativeIsMode DEF TypeOK, StreamType, NoStream
        <3>4. switched' \in BOOLEAN /\ avc' \in BOOLEAN
            BY Zenon DEF TypeOK
        <3> QED
            BY <3>1, <3>2, <3>3, <3>4 DEF TypeOK, NewsIsSize, MacType, NoticeType, StreamType
    <2>2. NewsIsSize' /\ RequestInv' /\ NativeAtHome' /\ AwaySwitched'
        BY DEF TypeOK, NewsIsSize, RequestInv, NativeAtHome, AwaySwitched
    <2>3. DesktopMode' /\ SwitchForces' /\ NativeInv'
        BY NativeIsMode DEF TypeOK, RequestInv, NativeAtHome, DesktopMode,
           SwitchForces, AwaySwitched, NativeInv, Native, Asked
    <2>4. UpdatesAvoidSckit'
        BY DEF TypeOK, UpdatesAvoidSckit, NoSckitAfterSwitch, SwitchForces
    <2> QED
        BY <2>1, <2>2, <2>3, <2>4
<1>2. CASE Updates
    <2> USE <1>2 DEF IInv, Updates, Started, Free, connVars, NoRequest
    <2>1. TypeOK'
        <3>1. mac' \in MacType
            BY NativeIsMode DEF TypeOK, MacType
        <3>2. notice' \in NoticeType
            BY DEF TypeOK, NoticeType
        <3>3. stream' \in StreamType
            BY NativeIsMode DEF TypeOK, StreamType, NoStream
        <3>4. switched' \in BOOLEAN /\ avc' \in BOOLEAN
            BY Zenon DEF TypeOK
        <3> QED
            BY <3>1, <3>2, <3>3, <3>4 DEF TypeOK, NewsIsSize, MacType, NoticeType, StreamType
    <2>2. NewsIsSize' /\ RequestInv' /\ NativeAtHome' /\ AwaySwitched'
        BY DEF TypeOK, NewsIsSize, RequestInv, NativeAtHome, AwaySwitched
    <2>3. DesktopMode' /\ SwitchForces' /\ NativeInv'
        BY NativeIsMode DEF TypeOK, RequestInv, NativeAtHome, DesktopMode,
           SwitchForces, AwaySwitched, NativeInv, Native, Asked
    <2>4. UpdatesAvoidSckit'
        BY DEF TypeOK, UpdatesAvoidSckit, NoSckitAfterSwitch, SwitchForces
    <2> QED
        BY <2>1, <2>2, <2>3, <2>4
<1>3. CASE UpdatesFail
    <2> USE <1>3 DEF IInv, UpdatesFail, Free, connVars, NoRequest
    <2>1. TypeOK'
        <3>1. mac' \in MacType
            BY NativeIsMode DEF TypeOK, MacType
        <3>2. notice' \in NoticeType
            BY DEF TypeOK, NoticeType
        <3>3. stream' \in StreamType
            BY NativeIsMode DEF TypeOK, StreamType, NoStream
        <3>4. switched' \in BOOLEAN /\ avc' \in BOOLEAN
            BY Zenon DEF TypeOK
        <3> QED
            BY <3>1, <3>2, <3>3, <3>4 DEF TypeOK, NewsIsSize, MacType, NoticeType, StreamType
    <2>2. NewsIsSize' /\ RequestInv' /\ NativeAtHome' /\ AwaySwitched'
        BY DEF TypeOK, NewsIsSize, RequestInv, NativeAtHome, AwaySwitched
    <2>3. DesktopMode' /\ SwitchForces' /\ NativeInv'
        BY NativeIsMode DEF TypeOK, RequestInv, NativeAtHome, DesktopMode,
           SwitchForces, AwaySwitched, NativeInv, Native, Asked
    <2>4. UpdatesAvoidSckit'
        BY DEF TypeOK, UpdatesAvoidSckit, NoSckitAfterSwitch, SwitchForces
    <2> QED
        BY <2>1, <2>2, <2>3, <2>4
<1>4. CASE ClientDisconnected
    <2> USE <1>4 DEF IInv, ClientDisconnected, Free, connVars, NoRequest
    <2>1. TypeOK'
        <3>1. mac' \in MacType
            BY NativeIsMode DEF TypeOK, MacType
        <3>2. notice' \in NoticeType
            BY DEF TypeOK, NoticeType
        <3>3. stream' \in StreamType
            BY NativeIsMode DEF TypeOK, StreamType, NoStream
        <3>4. switched' \in BOOLEAN /\ avc' \in BOOLEAN
            BY Zenon DEF TypeOK
        <3> QED
            BY <3>1, <3>2, <3>3, <3>4 DEF TypeOK, NewsIsSize, MacType, NoticeType, StreamType
    <2>2. NewsIsSize' /\ RequestInv' /\ NativeAtHome' /\ AwaySwitched'
        BY DEF TypeOK, NewsIsSize, RequestInv, NativeAtHome, AwaySwitched
    <2>3. DesktopMode' /\ SwitchForces' /\ NativeInv'
        BY NativeIsMode DEF TypeOK, RequestInv, NativeAtHome, DesktopMode,
           SwitchForces, AwaySwitched, NativeInv, Native, Asked
    <2>4. UpdatesAvoidSckit'
        BY DEF TypeOK, UpdatesAvoidSckit, NoSckitAfterSwitch, SwitchForces
    <2> QED
        BY <2>1, <2>2, <2>3, <2>4
<1>5. CASE AsksLayout
    <2> USE <1>5 DEF IInv, AsksLayout, Free, connVars, NoRequest
    <2>1. TypeOK'
        <3>1. mac' \in MacType
            BY NativeIsMode DEF TypeOK, MacType
        <3>2. notice' \in NoticeType
            BY DEF TypeOK, NoticeType
        <3>3. stream' \in StreamType
            BY NativeIsMode DEF TypeOK, StreamType, NoStream
        <3>4. switched' \in BOOLEAN /\ avc' \in BOOLEAN
            BY Zenon DEF TypeOK
        <3> QED
            BY <3>1, <3>2, <3>3, <3>4 DEF TypeOK, NewsIsSize, MacType, NoticeType, StreamType
    <2>2. NewsIsSize' /\ RequestInv' /\ NativeAtHome' /\ AwaySwitched'
        BY DEF TypeOK, NewsIsSize, RequestInv, NativeAtHome, AwaySwitched
    <2>3. DesktopMode' /\ SwitchForces' /\ NativeInv'
        BY NativeIsMode DEF TypeOK, RequestInv, NativeAtHome, DesktopMode,
           SwitchForces, AwaySwitched, NativeInv, Native, Asked
    <2>4. UpdatesAvoidSckit'
        BY DEF TypeOK, UpdatesAvoidSckit, NoSckitAfterSwitch, SwitchForces
    <2> QED
        BY <2>1, <2>2, <2>3, <2>4
<1> QED
    BY <1>1, <1>2, <1>3, <1>4, <1>5 DEF Server

\* So does a stream that is made again.
LEMMA RecreateStep ==
    ASSUME IInv, world' = world, NEW size \in Modes \cup {None}, RecreateStream(size)
    PROVE  IInv'
<1> USE RecreateType DEF IInv, connVars
<1>1. TypeOK'
    BY DEF TypeOK, StreamType
<1>2. NewsIsSize' /\ RequestInv' /\ NativeAtHome' /\ AwaySwitched'
    BY DEF NewsIsSize, RequestInv, NativeAtHome, AwaySwitched
<1>3. DesktopMode' /\ SwitchForces' /\ NativeInv'
    BY DEF DesktopMode, SwitchForces, NativeInv
<1>4. UpdatesAvoidSckit'
    BY DEF UpdatesAvoidSckit, NoSckitAfterSwitch
<1> QED
    BY <1>1, <1>2, <1>3, <1>4

\* The stream and the environment keep the invariant.
LEMMA OtherStep ==
    ASSUME IInv, world' = world, ResizeSeen \/ Environment
    PROVE  IInv'
<1> USE CaptureAssumption
<1>1. CASE ResizeSeen
    <2> USE <1>1 DEF IInv, ResizeSeen, Free, connVars, NoRequest
    <2>1. TypeOK'
        <3>1. mac' \in MacType
            BY NativeIsMode DEF TypeOK, MacType
        <3>2. notice' \in NoticeType
            BY DEF TypeOK, NoticeType
        <3>3. stream' \in StreamType
            BY NoStreamType DEF TypeOK, StreamType
        <3>4. switched' \in BOOLEAN /\ avc' \in BOOLEAN
            BY Zenon DEF TypeOK
        <3> QED
            BY <3>1, <3>2, <3>3, <3>4 DEF TypeOK, NewsIsSize, MacType, NoticeType, StreamType
    <2>2. NewsIsSize' /\ RequestInv' /\ NativeAtHome' /\ AwaySwitched'
        BY DEF TypeOK, NewsIsSize, RequestInv, NativeAtHome, AwaySwitched
    <2>3. DesktopMode' /\ SwitchForces' /\ NativeInv'
        BY NativeIsMode DEF TypeOK, RequestInv, NativeAtHome, DesktopMode,
           SwitchForces, AwaySwitched, NativeInv, Native, Asked
    <2>4. UpdatesAvoidSckit'
        BY DEF TypeOK, UpdatesAvoidSckit, NoSckitAfterSwitch, NoStream
    <2> QED
        BY <2>1, <2>2, <2>3, <2>4
<1>2. CASE SizeChanged
    <2>1. mode \in Modes \cup {None} /\ RecreateStream(mode)
        BY <1>2 DEF SizeChanged, IInv, TypeOK
    <2> QED
        BY <2>1, RecreateStep
<1>3. CASE Connect
    <2> USE <1>3 DEF IInv, Connect, Free, connVars, NoRequest
    <2>1. TypeOK'
        <3>1. mac' \in MacType
            BY NativeIsMode DEF TypeOK, MacType
        <3>2. notice' \in NoticeType
            BY DEF TypeOK, NoticeType
        <3>3. stream' \in StreamType
            BY NativeIsMode DEF TypeOK, StreamType, NoStream
        <3>4. switched' \in BOOLEAN /\ avc' \in BOOLEAN
            BY Zenon DEF TypeOK
        <3>5. clients' \in 0 .. MaxClients /\ desktop' \in Sizes /\ phase' = "accepted"
            BY DEF TypeOK
        <3> QED
            BY <3>1, <3>2, <3>3, <3>4, <3>5 DEF TypeOK, NewsIsSize, MacType, NoticeType, StreamType
    <2>2. NewsIsSize' /\ RequestInv' /\ NativeAtHome' /\ AwaySwitched'
        BY DEF TypeOK, NewsIsSize, RequestInv, NativeAtHome, AwaySwitched
    <2>3. DesktopMode' /\ SwitchForces' /\ NativeInv'
        BY NativeIsMode DEF TypeOK, RequestInv, NativeAtHome, DesktopMode,
           SwitchForces, AwaySwitched, NativeInv, Native, Asked
    <2>4. UpdatesAvoidSckit'
        BY DEF TypeOK, UpdatesAvoidSckit, NoSckitAfterSwitch, SwitchForces
    <2> QED
        BY <2>1, <2>2, <2>3, <2>4
<1>4. CASE LayoutPdu
    <2> USE <1>4 DEF IInv, LayoutPdu, Free, connVars, NoRequest
    <2>1. TypeOK'
        <3>1. mac' \in MacType
            BY NativeIsMode DEF TypeOK, MacType
        <3>2. notice' \in NoticeType
            BY DEF TypeOK, NoticeType
        <3>3. stream' \in StreamType
            BY NativeIsMode DEF TypeOK, StreamType, NoStream
        <3>4. switched' \in BOOLEAN /\ avc' \in BOOLEAN
            BY Zenon DEF TypeOK
        <3>5. waiting' \subseteq Sizes /\ asked' \in 0 .. MaxLayouts
            BY DEF TypeOK
        <3> QED
            BY <3>1, <3>2, <3>3, <3>4, <3>5 DEF TypeOK, NewsIsSize, MacType, NoticeType, StreamType
    <2>2. NewsIsSize' /\ RequestInv' /\ NativeAtHome' /\ AwaySwitched'
        BY DEF TypeOK, NewsIsSize, RequestInv, NativeAtHome, AwaySwitched
    <2>3. DesktopMode' /\ SwitchForces' /\ NativeInv'
        BY NativeIsMode DEF TypeOK, RequestInv, NativeAtHome, DesktopMode,
           SwitchForces, AwaySwitched, NativeInv, Native, Asked
    <2>4. UpdatesAvoidSckit'
        BY DEF TypeOK, UpdatesAvoidSckit, NoSckitAfterSwitch, SwitchForces
    <2> QED
        BY <2>1, <2>2, <2>3, <2>4
<1>5. CASE Negotiated
    <2> USE <1>5 DEF IInv, Negotiated, Free, connVars, NoRequest
    <2>1. TypeOK'
        <3>1. mac' \in MacType
            BY NativeIsMode DEF TypeOK, MacType
        <3>2. notice' \in NoticeType
            BY DEF TypeOK, NoticeType
        <3>3. stream' \in StreamType
            BY NativeIsMode DEF TypeOK, StreamType, NoStream
        <3>4. switched' \in BOOLEAN /\ avc' \in BOOLEAN
            BY Zenon DEF TypeOK
        <3> QED
            BY <3>1, <3>2, <3>3, <3>4 DEF TypeOK, NewsIsSize, MacType, NoticeType, StreamType
    <2>2. NewsIsSize' /\ RequestInv' /\ NativeAtHome' /\ AwaySwitched'
        BY DEF TypeOK, NewsIsSize, RequestInv, NativeAtHome, AwaySwitched
    <2>3. DesktopMode' /\ SwitchForces' /\ NativeInv'
        BY NativeIsMode DEF TypeOK, RequestInv, NativeAtHome, DesktopMode,
           SwitchForces, AwaySwitched, NativeInv, Native, Asked
    <2>4. UpdatesAvoidSckit'
        BY DEF TypeOK, UpdatesAvoidSckit, NoSckitAfterSwitch, SwitchForces
    <2> QED
        BY <2>1, <2>2, <2>3, <2>4
<1>6. CASE Leave
    <2> USE <1>6 DEF IInv, Leave, Free, connVars, NoRequest
    <2>1. TypeOK'
        <3>1. mac' \in MacType
            BY NativeIsMode DEF TypeOK, MacType
        <3>2. notice' \in NoticeType
            BY DEF TypeOK, NoticeType
        <3>3. stream' \in StreamType
            BY NoStreamType DEF TypeOK, StreamType
        <3>4. switched' \in BOOLEAN /\ avc' \in BOOLEAN
            BY Zenon DEF TypeOK
        <3> QED
            BY <3>1, <3>2, <3>3, <3>4 DEF TypeOK, NewsIsSize, MacType, NoticeType, StreamType
    <2>2. NewsIsSize' /\ RequestInv' /\ NativeAtHome' /\ AwaySwitched'
        BY DEF TypeOK, NewsIsSize, RequestInv, NativeAtHome, AwaySwitched
    <2>3. DesktopMode' /\ SwitchForces' /\ NativeInv'
        BY NativeIsMode DEF TypeOK, RequestInv, NativeAtHome, DesktopMode,
           SwitchForces, AwaySwitched, NativeInv, Native, Asked
    <2>4. UpdatesAvoidSckit'
        BY DEF TypeOK, UpdatesAvoidSckit, NoSckitAfterSwitch, NoStream
    <2> QED
        BY <2>1, <2>2, <2>3, <2>4
<1>7. CASE Stalled
    <2>1. stream.size \in Modes \cup {None} /\ RecreateStream(stream.size)
        BY <1>7 DEF Stalled, IInv, TypeOK
    <2> QED
        BY <2>1, RecreateStep
<1>8. CASE SckitCrashes
    <2> USE <1>8 DEF IInv, SckitCrashes, Free, connVars, NoRequest
    <2>1. TypeOK'
        <3>1. mac' \in MacType
            BY NativeIsMode DEF TypeOK, MacType
        <3>2. notice' \in NoticeType
            BY DEF TypeOK, NoticeType
        <3>3. stream' \in StreamType
            BY NoStreamType DEF TypeOK, StreamType
        <3>4. switched' \in BOOLEAN /\ avc' \in BOOLEAN
            BY Zenon DEF TypeOK
        <3> QED
            BY <3>1, <3>2, <3>3, <3>4 DEF TypeOK, NewsIsSize, MacType, NoticeType, StreamType
    <2>2. NewsIsSize' /\ RequestInv' /\ NativeAtHome' /\ AwaySwitched'
        BY DEF TypeOK, NewsIsSize, RequestInv, NativeAtHome, AwaySwitched
    <2>3. DesktopMode' /\ SwitchForces' /\ NativeInv'
        BY NativeIsMode DEF TypeOK, RequestInv, NativeAtHome, DesktopMode,
           SwitchForces, AwaySwitched, NativeInv, Native, Asked
    <2>4. UpdatesAvoidSckit'
        BY DEF TypeOK, UpdatesAvoidSckit, NoSckitAfterSwitch, NoStream
    <2> QED
        BY <2>1, <2>2, <2>3, <2>4
<1> QED
    BY <1>1, <1>2, <1>3, <1>4, <1>5, <1>6, <1>7, <1>8 DEF Environment

\* So does every step.
LEMMA NextHolds == IInv /\ [Next]_captureVars => IInv'
<1> SUFFICES ASSUME IInv, [Next]_captureVars PROVE IInv'
    OBVIOUS
<1>1. CASE Next
    BY <1>1, RequestStep, ServerStep, OtherStep DEF Next, Step, Runs
<1>2. CASE UNCHANGED captureVars
    BY <1>2 DEF captureVars, connVars, IInv, TypeOK, NewsIsSize, RequestInv, NativeAtHome, DesktopMode,
       SwitchForces, AwaySwitched, NativeInv, UpdatesAvoidSckit, NoSckitAfterSwitch, Free
<1> QED
    BY <1>1, <1>2

\* The invariant is one.
LEMMA Invariance == Spec => []IInv
BY InitHolds, NextHolds, PTL DEF Spec

\* Every variable keeps its type, whatever fails.
THEOREM TypeCorrect == Spec => []TypeOK
<1>1. IInv => TypeOK
    BY DEF IInv
<1> QED
    BY Invariance, <1>1, PTL

\* As long as switches that can succeed do, the streams made by updates() keep
\* away from SCKit once the mode has been switched, for this client and all
\* later ones (display.rs:243).
THEOREM UpdatesAvoidSckitAlways == Spec => []UpdatesAvoidSckit
<1>1. IInv => UpdatesAvoidSckit
    BY DEF IInv
<1> QED
    BY Invariance, <1>1, PTL

\* Under the same condition no native size outlives the mode it was asked in
\* (display.rs:338, 418).
THEOREM NativeIsCurrentAlways == Spec => []NativeIsCurrent
<1>1. IInv => NativeIsCurrent
    BY DEF IInv, NativeInv, NativeIsCurrent, Free, NoRequest
<1> QED
    BY Invariance, <1>1, PTL
==============================================================================
