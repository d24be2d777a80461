-------------------------- MODULE GfxPipelineProofs --------------------------
(***************************************************************************)
(* For any sizes, failures and number of connections an active pipeline    *)
(* has its channel ids; in one connection graphics reach only a client     *)
(* that has opened the channel, on a surface of the size of the frames,    *)
(* and each frame builds on frames the client has, but for those the       *)
(* encoder delivered after its timeout.                                    *)
(***************************************************************************)
EXTENDS GfxPipeline, SequenceTheorems, TLAPS

\* The queue of the writer holds the branches that wait for a write.
QueueInv ==
    \/ queue = <<>> /\ \A b \in Branches : out[b] = Nothing
    \/ \E a \in Branches :
          /\ queue = <<a>> /\ out[a] \in Writes
          /\ \A b \in Branches \ {a} : out[b] = Nothing
    \/ \E a, b \in Branches :
          a # b /\ queue = <<a, b>> /\ out[a] \in Writes /\ out[b] \in Writes

\* Whoever serves a client knows its drdynvc channel, a channel that is open
\* has its id, and nothing is written to nobody.
ChannelInv ==
    /\ phase = "idle" => queue = <<>>
    /\ phase # "idle" => gfx.drdynvc
    /\ opened => gfx.channel /\ gfx.drdynvc
    /\ ActiveHasChannel

IInv == TypeOK /\ QueueInv /\ ChannelInv

\* Before the only client nothing has happened.
OneClient ==
    /\ phase # "idle" => conns = MaxConns
    /\ phase = "idle" /\ conns < MaxConns => gfx.state # "Active" /\ avcOn /\ ~opened

\* Only a client that takes H.264 has an active pipeline, and none that does is
\* ever deactivated: the surface is not resized under a frame.
KindInv ==
    /\ client.kind = "avc" => avcOn
    /\ gfx.state = "Active" => client.kind = "avc"
    /\ phase = "reactivating" \/ (\E b \in Branches : out[b].kind = "deactivate")
          => client.kind # "avc"

\* Everything to do with graphics begins with the client opening the channel.
OpenInv ==
    opened \/ inbox # <<>> \/ gfx.state = "Active" \/ (\E b \in Branches : out[b].kind = "gfx")
        => client.channel # "closed"

\* What a client has, and what it has after a write: a surface, and a decoder
\* with all frames sent so far.
View == [surface |-> client.surface, decodes |-> client.decodes]
After(v, w) ==
    [surface |-> IF w.surface = NoSize THEN v.surface ELSE w.surface,
     decodes |-> CASE w.frame = "key" -> TRUE
                   [] w.surface # NoSize /\ w.frame = "none" -> FALSE
                   [] OTHER -> v.decodes]

\* A write suits a client with view v.
Suits(v, w) ==
    /\ w.frame # "none" => w.size = After(v, w).surface
    /\ w.frame # "broken"
    /\ w.frame = "delta" => w.surface = NoSize
    /\ w.frame \in {"delta", "late"} => v.decodes

\* A GfxServer g believes that the client, while there is one, has view v.
Believes(g, p, v) ==
    g.state = "Active" /\ p # "idle" => v.surface = g.size /\ (g.needsKey \/ v.decodes)

\* The client has the view that the GfxServer believes it has once all writes
\* are done, and each write suits the view it will find.
ViewInv ==
    /\ queue = <<>> => Believes(gfx, phase, View)
    /\ \A a \in Branches : queue = <<a>> =>
          Suits(View, out[a]) /\ Believes(gfx, phase, After(View, out[a]))
    /\ \A a, b \in Branches : queue = <<a, b>> =>
          /\ Suits(View, out[a])
          /\ Suits(After(View, out[a]), out[b])
          /\ Believes(gfx, phase, After(After(View, out[a]), out[b]))

\* After a frame was dropped a keyframe is waited for, and frames of another
\* size begin with one.
KeyInv ==
    gfx.state = "Active" /\ ~gfx.needsKey =>
        /\ gap # "dropped"
        /\ gap = "none" /\ encoder.size # gfx.size => encoder.fresh

SInv ==
    IInv /\ OneClient /\ KindInv /\ OpenInv /\ KeyInv /\ ViewInv /\ OnSurface /\ Decodable

-----------------------------------------------------------------------------
(* Records and the queue. *)

GfxType == [state : {"WaitingCapabilities", "Active"}, channel : BOOLEAN, drdynvc : BOOLEAN,
            size : Sizes, needsKey : BOOLEAN]
ClientType == [kind : AllKinds, channel : {"closed", "open", "advertised", "gone"},
               surface : Sizes \cup {NoSize}, decodes : BOOLEAN, sees : BOOLEAN]

\* What is written is a write, and no write is Nothing.
LEMMA WriteTypes ==
    /\ Nothing \notin Writes
    /\ [Nothing EXCEPT !.kind = "deactivate"] \in Writes
    /\ [Nothing EXCEPT !.kind = "bitmap"] \in Writes
    /\ \A s \in Sizes : [Nothing EXCEPT !.kind = "gfx", !.surface = s] \in Writes
    /\ \A s \in Sizes, t \in Sizes \cup {NoSize}, f \in {"none", "key", "delta", "late", "broken"} :
          [kind |-> "gfx", frame |-> f, size |-> s, surface |-> t] \in Writes
BY DEF Nothing, Writes

\* Queues of at most two branches.
LEMMA Queues ==
    ASSUME NEW a, NEW b
    PROVE  /\ Append(<<>>, a) = <<a>> /\ Append(<<a>>, b) = <<a, b>>
           /\ Head(<<a>>) = a /\ Tail(<<a>>) = <<>>
           /\ Head(<<a, b>>) = a /\ Tail(<<a, b>>) = <<b>>
           /\ <<>> # <<a>> /\ <<>> # <<a, b>>
           /\ \A c : <<c>> # <<a, b>> /\ (<<c>> = <<a>> => c = a)
           /\ \A c, d : <<c, d>> = <<a, b>> => c = a /\ d = b
<1>1. ASSUME NEW c, NEW d, <<c, d>> = <<a, b>> PROVE c = a /\ d = b
    <2>1. <<c, d>>[1] = <<a, b>>[1] /\ <<c, d>>[2] = <<a, b>>[2]
        BY <1>1, Zenon
    <2> QED
        BY <2>1
<1>2. \A c : <<c>> # <<a, b>> /\ (<<c>> = <<a>> => c = a)
    OBVIOUS
<1>3. Append(<<>>, a) = <<a>>
    OBVIOUS
<1>7. Append(<<a>>, b) = <<a, b>>
    <2> DEFINE s == Append(<<a>>, b)
    <2>1. <<a>> \in Seq({a, b}) /\ <<a, b>> \in Seq({a, b}) /\ Len(<<a>>) = 1 /\ <<a>>[1] = a
        OBVIOUS
    <2>2. s \in Seq({a, b}) /\ Len(s) = 2 /\ s[1] = a /\ s[2] = b
        BY <2>1, AppendProperties
    <2>3. Len(<<a, b>>) = 2 /\ <<a, b>>[1] = a /\ <<a, b>>[2] = b
        OBVIOUS
    <2> HIDE DEF s
    <2>4. \A i \in 1 .. 2 : s[i] = <<a, b>>[i]
        BY <2>2, <2>3
    <2>5. s = <<a, b>>
        BY <2>1, <2>2, <2>3, <2>4, SeqEqual, Zenon
    <2> QED
        BY <2>5 DEF s
<1>4. Head(<<a>>) = a /\ Tail(<<a>>) = <<>>
    OBVIOUS
<1>5. Head(<<a, b>>) = a /\ Tail(<<a, b>>) = <<b>>
    OBVIOUS
<1>6. <<>> # <<a>> /\ <<>> # <<a, b>>
    OBVIOUS
<1> QED
    BY <1>1, <1>2, <1>3, <1>4, <1>5, <1>6, <1>7

\* A branch that can run is not in the queue; its write comes last.
LEMMA WriteCases ==
    ASSUME QueueInv, NEW b \in Branches, out[b] = Nothing, NEW w \in Writes, Write(b, w),
           out \in [Branches -> Writes \cup {Nothing}]
    PROVE  /\ QueueInv'
           /\ out' = [out EXCEPT ![b] = w]
           /\ out' \in [Branches -> Writes \cup {Nothing}]
           /\ \/ queue = <<>> /\ queue' = <<b>>
              \/ \E a \in Branches \ {b} : queue = <<a>> /\ queue' = <<a, b>>
<1>1. CASE queue = <<>>
    <2>1. queue' = <<b>> /\ out' = [out EXCEPT ![b] = w]
        BY <1>1, Queues DEF Write
    <2>2. \A c \in Branches : out[c] = Nothing
        BY <1>1, Queues DEF QueueInv
    <2> QED
        BY <1>1, <2>1, <2>2 DEF QueueInv
<1>2. ASSUME NEW a \in Branches, queue = <<a>>, out[a] \in Writes PROVE a # b /\ queue' = <<a, b>>
    BY <1>2, WriteTypes, Queues DEF Write
<1> QED
    BY <1>1, <1>2, WriteTypes, Queues DEF QueueInv, Write, Branches

\* The write at the head of the queue is one, and so is what comes after it.
LEMMA DoneCases ==
    ASSUME QueueInv, queue # <<>>
    PROVE  \E a \in Branches :
              /\ Head(queue) = a /\ out[a] \in Writes
              /\ \/ /\ queue = <<a>> /\ Tail(queue) = <<>>
                    /\ \A b \in Branches \ {a} : out[b] = Nothing
                 \/ \E b \in Branches \ {a} : queue = <<a, b>> /\ Tail(queue) = <<b>> /\ out[b] \in Writes
<1>1. CASE \E a \in Branches :
              queue = <<a>> /\ out[a] \in Writes /\ \A b \in Branches \ {a} : out[b] = Nothing
    BY <1>1, Queues
<1>2. CASE \E a, b \in Branches :
              a # b /\ queue = <<a, b>> /\ out[a] \in Writes /\ out[b] \in Writes
    BY <1>2, Queues
<1> QED
    BY <1>1, <1>2 DEF QueueInv

\* The queues that can be.
LEMMA QueueType ==
    ASSUME QueueInv
    PROVE  queue \in {<<>>, <<"display">>, <<"pdu">>, <<"display", "pdu">>, <<"pdu", "display">>}
BY DEF QueueInv, Branches

\* What the writer keeps, after a write of a branch that can run.
LEMMA WriteHolds ==
    ASSUME TypeOK, QueueInv, NEW b \in Branches, CanRun(b), NEW w \in Writes, Write(b, w)
    PROVE  /\ QueueInv' /\ out' \in [Branches -> Writes \cup {Nothing}]
           /\ queue' \in {<<>>, <<"display">>, <<"pdu">>, <<"display", "pdu">>, <<"pdu", "display">>}
<1>1. QueueInv' /\ out' \in [Branches -> Writes \cup {Nothing}]
    BY WriteCases DEF TypeOK, CanRun
<1>2. QueueInv' => queue' \in {<<>>, <<"display">>, <<"pdu">>, <<"display", "pdu">>, <<"pdu", "display">>}
    BY DEF QueueInv, Branches
<1> QED
    BY <1>1, <1>2

\* And when nothing waits.
LEMMA NothingWaits ==
    ASSUME out' = [b \in Branches |-> Nothing], queue' = <<>>
    PROVE  QueueInv' /\ out' \in [Branches -> Writes \cup {Nothing}]
BY DEF QueueInv

-----------------------------------------------------------------------------
(* Types, the queue and the channel ids, for any number of connections. *)

\* What holds in the beginning.
LEMMA InitHolds == Init => IInv
<1> SUFFICES ASSUME Init PROVE IInv
    OBVIOUS
<1>1. gfx \in GfxType /\ encoder \in [size : Sizes, fresh : BOOLEAN] /\ client \in ClientType
    <2>1. gfx \in GfxType /\ encoder \in [size : Sizes, fresh : BOOLEAN]
        BY DEF Init, GfxType
    <2>2. world.kinds \subseteq AllKinds
        BY GfxAssumption DEF Init, AllWorlds
    <2>3. \A k \in AllKinds : NewClient(k) \in ClientType
        BY DEF NewClient, ClientType
    <2> QED
        BY <2>1, <2>2, <2>3 DEF Init
<1>2. QueueInv /\ out \in [Branches -> Writes \cup {Nothing}]
    BY DEF Init, QueueInv
<1>3. /\ world \in Worlds /\ phase = "idle" /\ conns \in 0 .. MaxConns /\ desk \in Sizes
      /\ gap = "none" /\ queue = <<>> /\ rejected = {} /\ inbox = <<>>
    BY GfxAssumption DEF Init
<1>4. /\ relayout \in BOOLEAN /\ unseen \in BOOLEAN /\ opened \in BOOLEAN /\ avcOn \in BOOLEAN
      /\ forceKey \in BOOLEAN /\ stuck \in BOOLEAN
    BY Zenon DEF Init
<1>5. inbox \in Seq(ClientPdus) /\ Len(inbox) <= MaxInbox
    BY <1>3, EmptySeq, GfxAssumption
<1>6. TypeOK
    BY <1>1, <1>2, <1>3, <1>4, <1>5 DEF TypeOK, GfxType, ClientType
<1>7. ChannelInv
    BY DEF Init, ChannelInv, ActiveHasChannel
<1> QED
    BY <1>2, <1>6, <1>7 DEF IInv

\* A write that is done.
LEMMA WriteDoneHolds ==
    ASSUME IInv, world' = world, WriteDone
    PROVE  IInv'
<1> USE DEF IInv, WriteDone, gfxVars, encVars
<1>1. PICK a \in Branches :
          /\ Head(queue) = a /\ out[a] \in Writes
          /\ \/ queue = <<a>> /\ Tail(queue) = <<>> /\ \A b \in Branches \ {a} : out[b] = Nothing
             \/ \E b \in Branches \ {a} : queue = <<a, b>> /\ Tail(queue) = <<b>> /\ out[b] \in Writes
    BY DoneCases
<1>2. Receive(out[a])
    BY <1>1
<1>3. client' \in ClientType /\ rejected' \subseteq {"channel", "surface", "keyframe", "late"}
    BY <1>1, <1>2 DEF Receive, Rejects, TypeOK, ClientType, Writes
<1>4. QueueInv' /\ out' \in [Branches -> Writes \cup {Nothing}] /\ phase' \in {phase, "reactivating"}
    <2>1. CASE out[a].kind = "deactivate"
        BY <1>1, <2>1, NothingWaits
    <2>2. CASE out[a].kind # "deactivate"
        <3>1. out' = [out EXCEPT ![a] = Nothing] /\ queue' = Tail(queue) /\ phase' = phase
            BY <1>1, <2>2
        <3>2. out' \in [Branches -> Writes \cup {Nothing}]
            BY <3>1 DEF TypeOK
        <3>3. out'[a] = Nothing /\ \A b \in Branches \ {a} : out'[b] = out[b]
            BY <3>1 DEF TypeOK
        <3>4. ASSUME queue' = <<>>, \A b \in Branches \ {a} : out[b] = Nothing PROVE QueueInv'
            <4>1. \A b \in Branches : out'[b] = Nothing
                BY <3>3, <3>4
            <4> QED
                BY <3>4, <4>1 DEF QueueInv
        <3>5. ASSUME NEW b \in Branches \ {a}, queue' = <<b>>, out[b] \in Writes PROVE QueueInv'
            <4>1. \A c \in Branches \ {b} : out'[c] = Nothing
                BY <3>3 DEF Branches
            <4> QED
                BY <3>3, <3>5, <4>1 DEF QueueInv
        <3>6. QueueInv'
            BY <1>1, <3>1, <3>4, <3>5
        <3> QED
            BY <3>1, <3>2, <3>6
    <2> QED
        BY <2>1, <2>2
<1>5. TypeOK'
    BY <1>3, <1>4, QueueType DEF TypeOK, ClientType, QueueInv, Branches
<1>6. ChannelInv'
    <2>1. phase # "idle" /\ phase' # "idle"
        BY <1>4 DEF ChannelInv
    <2> QED
        BY <2>1 DEF ChannelInv, ActiveHasChannel
<1> QED
    BY <1>4, <1>5, <1>6

\* The beginning of client_loop, of a new client or of one that was resized.
LEMMA AcceptHolds ==
    ASSUME IInv, world' = world, NEW resizes \in BOOLEAN, NEW s \in Sizes, NEW cap \in Sizes,
           Accept(resizes, s, cap)
    PROVE  /\ desk' \in Sizes /\ phase' = "loop" /\ gfx' \in GfxType /\ gfx'.drdynvc /\ gap' = "none"
           /\ gfx'.state = gfx.state /\ gfx'.channel = gfx.channel
           /\ relayout' \in BOOLEAN /\ unseen' \in BOOLEAN
           /\ encoder' \in [size : Sizes, fresh : BOOLEAN]
           /\ UNCHANGED <<avcOn, forceKey, writeVars, stuck>>
<1> USE DEF IInv, Accept
<1>1. relayout' \in BOOLEAN /\ unseen' \in BOOLEAN
    BY Zenon DEF TypeOK
<1>2. desk' \in Sizes /\ gfx' \in GfxType /\ encoder' \in [size : Sizes, fresh : BOOLEAN]
    BY DEF TypeOK, GfxType
<1>3. gfx'.drdynvc /\ gfx'.state = gfx.state /\ gfx'.channel = gfx.channel
    BY DEF TypeOK
<1> QED
    BY <1>1, <1>2, <1>3

\* The beginning and the end of a connection, and a layout asked for.
LEMMA ConnectionHolds ==
    ASSUME IInv, world' = world, ClientConnects \/ Reactivate \/ Disconnect \/ RequestLayout
    PROVE  IInv'
<1> USE DEF IInv
<1>1. CASE ClientConnects
    <2> USE <1>1 DEF ClientConnects
    <2>1. queue = <<>>
        BY DEF ChannelInv
    <2>2. PICK resizes \in BOOLEAN, s \in Sizes, cap \in Sizes : Accept(resizes, s, cap)
        OBVIOUS
    <2>3. client' \in ClientType /\ opened' = FALSE /\ inbox' = <<>> /\ conns' \in 0 .. MaxConns
        <3>1. PICK k \in AllKinds : client' = NewClient(k)
            BY GfxAssumption DEF TypeOK, AllWorlds
        <3> QED
            BY <3>1, GfxAssumption DEF TypeOK, ClientType, NewClient
    <2>4. inbox' \in Seq(ClientPdus) /\ Len(inbox') <= MaxInbox
        BY <2>3, EmptySeq, GfxAssumption
    <2>5. TypeOK'
        BY <2>1, <2>2, <2>3, <2>4, AcceptHolds DEF TypeOK, GfxType, ClientType, writeVars
    <2>6. QueueInv' /\ ChannelInv'
        BY <2>1, <2>2, <2>3, AcceptHolds DEF QueueInv, ChannelInv, ActiveHasChannel, writeVars
    <2> QED
        BY <2>5, <2>6
<1>2. CASE Reactivate
    <2> USE <1>2 DEF Reactivate
    <2>1. PICK resizes \in BOOLEAN, cap \in Sizes : Accept(resizes, desk, cap)
        OBVIOUS
    <2>2. desk \in Sizes
        BY DEF TypeOK
    <2>3. inbox' \in Seq(ClientPdus) /\ Len(inbox') <= MaxInbox
        BY SubSeqProperties, GfxAssumption DEF TypeOK
    <2>4. TypeOK'
        BY <2>1, <2>2, <2>3, AcceptHolds DEF TypeOK, GfxType, writeVars
    <2>5. QueueInv' /\ ChannelInv'
        BY <2>1, <2>2, AcceptHolds DEF QueueInv, ChannelInv, ActiveHasChannel, writeVars
    <2> QED
        BY <2>4, <2>5
<1>3. CASE Disconnect
    <2> USE <1>3 DEF Disconnect, gfxVars, encVars
    <2>1. QueueInv' /\ out' \in [Branches -> Writes \cup {Nothing}]
        BY NothingWaits
    <2>2. inbox' \in Seq(ClientPdus) /\ Len(inbox') <= MaxInbox
        BY EmptySeq, GfxAssumption
    <2>3. TypeOK'
        BY <2>1, <2>2 DEF TypeOK
    <2>4. ChannelInv'
        BY DEF ChannelInv, ActiveHasChannel
    <2> QED
        BY <2>1, <2>3, <2>4
<1>4. CASE RequestLayout
    BY <1>4 DEF RequestLayout, gfxVars, encVars, writeVars, clientVars, TypeOK, QueueInv, ChannelInv,
       ActiveHasChannel
<1> QED
    BY <1>1, <1>2, <1>3, <1>4

\* A frame that was encoded, sent or dropped.
LEMMA EncodedHolds ==
    ASSUME IInv, world' = world, NEW key \in BOOLEAN, Encoded(key)
    PROVE  IInv'
<1> USE DEF IInv, Encoded, connVars, clientVars
<1>1. encoder' \in [size : Sizes, fresh : BOOLEAN]
    BY DEF TypeOK
<1>2. CASE DropFrame(key)
    <2> USE <1>2 DEF DropFrame, writeVars
    <2>1. forceKey' \in BOOLEAN /\ gap' = "dropped"
        BY Zenon
    <2>2. TypeOK'
        BY <1>1, <2>1 DEF TypeOK
    <2>3. QueueInv' /\ ChannelInv'
        BY DEF QueueInv, ChannelInv, ActiveHasChannel
    <2> QED
        BY <2>2, <2>3
<1>3. CASE SendFrame(key)
    <2> USE <1>3 DEF SendFrame
    <2>1. /\ gfx' \in GfxType /\ gfx'.state = gfx.state /\ gfx'.channel = gfx.channel
          /\ gfx'.drdynvc = gfx.drdynvc
        <3> DEFINE resize == gfx.size # encoder.size
        <3>1. resize \in BOOLEAN
            BY Zenon
        <3>2. gfx' = [gfx EXCEPT !.size = encoder.size, !.needsKey = resize]
            OBVIOUS
        <3> HIDE DEF resize
        <3> QED
            BY <3>1, <3>2 DEF TypeOK, GfxType
    <2>2. gap' \in {"none", "dropped", "late"}
        BY DEF TypeOK
    <2>3. /\ QueueInv' /\ out' \in [Branches -> Writes \cup {Nothing}]
          /\ queue' \in {<<>>, <<"display">>, <<"pdu">>, <<"display", "pdu">>, <<"pdu", "display">>}
        <3>1. CASE gfx.channel /\ gfx.drdynvc
            <4> DEFINE w == [kind |-> "gfx", frame |-> FrameKind(key), size |-> encoder.size,
                             surface |-> IF gfx.size # encoder.size THEN encoder.size ELSE NoSize]
            <4>1. w \in Writes
                BY DEF Writes, FrameKind, TypeOK
            <4>2. Write("display", w) /\ "display" \in Branches
                BY <3>1 DEF Branches
            <4> QED
                BY <4>1, <4>2, WriteHolds
        <3>2. CASE ~(gfx.channel /\ gfx.drdynvc)
            BY <3>2 DEF writeVars, QueueInv, TypeOK
        <3> QED
            BY <3>1, <3>2
    <2>4. forceKey' \in BOOLEAN
        BY Zenon
    <2>5. TypeOK'
        BY <1>1, <2>1, <2>2, <2>3, <2>4 DEF TypeOK, GfxType
    <2>6. ChannelInv'
        BY <2>1 DEF ChannelInv, ActiveHasChannel, CanRun
    <2> QED
        BY <2>3, <2>5, <2>6
<1> QED
    BY <1>2, <1>3

\* The other steps of the display branch.
LEMMA DisplayHolds ==
    ASSUME IInv, world' = world, DisplayResize \/ DisplayBitmap \/ EncodeTimesOut \/ CaptureResized
    PROVE  IInv'
<1> USE DEF IInv, connVars, gfxVars, encVars, clientVars
<1>1. ASSUME CanRun("display"), NEW w \in Writes, Write("display", w)
      PROVE  /\ QueueInv' /\ out' \in [Branches -> Writes \cup {Nothing}]
             /\ queue' \in {<<>>, <<"display">>, <<"pdu">>, <<"display", "pdu">>, <<"pdu", "display">>}
    BY <1>1, WriteHolds DEF Branches
<1>2. CASE DisplayResize
    <2> USE <1>2 DEF DisplayResize
    <2>1. /\ QueueInv' /\ out' \in [Branches -> Writes \cup {Nothing}]
          /\ queue' \in {<<>>, <<"display">>, <<"pdu">>, <<"display", "pdu">>, <<"pdu", "display">>}
        BY <1>1, WriteTypes DEF writeVars, TypeOK, QueueInv
    <2>2. relayout' \in BOOLEAN
        BY Zenon
    <2>3. TypeOK'
        BY <2>1, <2>2 DEF TypeOK
    <2> QED
        BY <2>1, <2>3 DEF ChannelInv, ActiveHasChannel, CanRun
<1>3. CASE DisplayBitmap
    <2> USE <1>3 DEF DisplayBitmap
    <2>1. /\ QueueInv' /\ out' \in [Branches -> Writes \cup {Nothing}]
          /\ queue' \in {<<>>, <<"display">>, <<"pdu">>, <<"display", "pdu">>, <<"pdu", "display">>}
        BY <1>1, WriteTypes
    <2>2. TypeOK'
        BY <2>1 DEF TypeOK
    <2> QED
        BY <2>1, <2>2 DEF ChannelInv, ActiveHasChannel, CanRun
<1>4. CASE EncodeTimesOut
    <2> USE <1>4 DEF EncodeTimesOut, writeVars
    <2>1. encoder' \in [size : Sizes, fresh : BOOLEAN] /\ gap' \in {"none", "dropped", "late"}
        BY DEF TypeOK
    <2>2. forceKey' \in BOOLEAN
        BY Zenon
    <2>3. TypeOK'
        BY <2>1, <2>2 DEF TypeOK
    <2> QED
        BY <2>3 DEF QueueInv, ChannelInv, ActiveHasChannel
<1>5. CASE CaptureResized
    <2> USE <1>5 DEF CaptureResized, writeVars
    <2>1. encoder' \in [size : Sizes, fresh : BOOLEAN]
        BY DEF TypeOK
    <2>2. TypeOK'
        BY <2>1 DEF TypeOK
    <2> QED
        BY <2>2 DEF QueueInv, ChannelInv, ActiveHasChannel
<1> QED
    BY <1>2, <1>3, <1>4, <1>5

\* A PDU of the client on the graphics channel.
LEMMA PduHolds ==
    ASSUME IInv, world' = world, ProcessPdu
    PROVE  IInv'
<1> USE DEF IInv, ProcessPdu, connVars, encVars
<1>1. inbox' \in Seq(ClientPdus) /\ Len(inbox') <= MaxInbox
    BY HeadTailProperties, GfxAssumption, LenProperties DEF TypeOK
<1>2. CASE GfxLocked
    <2>1. stuck' \in BOOLEAN /\ UNCHANGED <<gfxVars, writeVars>>
        BY <1>2, Zenon
    <2>2. TypeOK'
        BY <1>1, <2>1 DEF TypeOK, gfxVars, writeVars
    <2> QED
        BY <2>1, <2>2 DEF QueueInv, ChannelInv, ActiveHasChannel, gfxVars, writeVars
<1>3. CASE ~GfxLocked /\ CapabilitiesAdvertise
    <2> USE <1>3 DEF CapabilitiesAdvertise
    <2>1. avcOn' \in BOOLEAN
        BY Zenon
    <2>2. /\ gfx' \in GfxType /\ gfx'.channel = gfx.channel /\ gfx'.drdynvc = gfx.drdynvc
          /\ gfx.channel /\ gfx.drdynvc
        BY DEF TypeOK, GfxType, ChannelInv
    <2>3. /\ QueueInv' /\ out' \in [Branches -> Writes \cup {Nothing}]
          /\ queue' \in {<<>>, <<"display">>, <<"pdu">>, <<"display", "pdu">>, <<"pdu", "display">>}
        <3>1. CASE Write("pdu", [Nothing EXCEPT !.kind = "gfx", !.surface = gfx.size])
            <4>1. [Nothing EXCEPT !.kind = "gfx", !.surface = gfx.size] \in Writes
                BY WriteTypes DEF TypeOK
            <4> QED
                BY <3>1, <4>1, WriteHolds DEF Branches
        <3>2. CASE UNCHANGED writeVars
            BY <3>2 DEF TypeOK, QueueInv, writeVars
        <3> QED
            BY <1>3, <3>1, <3>2
    <2>4. TypeOK'
        BY <1>1, <1>3, <2>1, <2>2, <2>3 DEF TypeOK, GfxType
    <2>5. ChannelInv'
        BY <2>2 DEF ChannelInv, ActiveHasChannel, CanRun
    <2> QED
        BY <2>3, <2>4, <2>5
<1>4. CASE ~GfxLocked /\ (Start \/ FrameAcknowledge \/ Close)
    <2> USE <1>4 DEF Start, FrameAcknowledge, Close, gfxVars, writeVars
    <2>1. gfx' \in GfxType /\ gfx'.drdynvc = gfx.drdynvc
        BY DEF TypeOK, GfxType
    <2>2. opened' \in BOOLEAN
        BY Zenon DEF TypeOK
    <2>3. TypeOK'
        BY <1>1, <2>1, <2>2 DEF TypeOK, GfxType
    <2>4. ChannelInv'
        <3>1. phase # "idle"
            BY DEF CanRun
        <3> QED
            BY <2>1, <3>1 DEF TypeOK, ChannelInv, ActiveHasChannel
    <2>5. QueueInv'
        BY DEF QueueInv
    <2> QED
        BY <2>3, <2>4, <2>5
<1> QED
    BY <1>2, <1>3, <1>4

\* The client sends something.
LEMMA ClientHolds ==
    ASSUME IInv, world' = world, Client
    PROVE  IInv'
<1>1. ASSUME NEW pdu \in ClientPdus, NEW channel \in {"open", "advertised", "gone"}, ClientSends(pdu, channel)
      PROVE  IInv'
    <2> USE <1>1 DEF IInv, ClientSends, connVars, gfxVars, encVars, writeVars
    <2>1. inbox' \in Seq(ClientPdus) /\ Len(inbox') <= MaxInbox
        BY AppendProperties, LenProperties, GfxAssumption DEF TypeOK
    <2>2. client' \in ClientType
        BY DEF TypeOK, ClientType
    <2>3. TypeOK'
        BY <2>1, <2>2 DEF TypeOK, ClientType
    <2> QED
        BY <2>3 DEF QueueInv, ChannelInv, ActiveHasChannel
<1> QED
    BY <1>1 DEF Client, ClientOpens, ClientAdvertises, ClientAcknowledges, ClientCloses, ClientPdus

\* Every step.
LEMMA NextHolds == IInv /\ [Next]_vars => IInv'
<1> SUFFICES ASSUME IInv, [Next]_vars PROVE IInv'
    OBVIOUS
<1>1. ASSUME DisplayFrame PROVE \E key \in BOOLEAN : Encoded(key)
    BY <1>1, Zenon DEF DisplayFrame
<1>2. CASE Next
    BY <1>1, <1>2, WriteDoneHolds, ConnectionHolds, EncodedHolds, DisplayHolds, PduHolds, ClientHolds
    DEF Next, Step
<1>3. CASE UNCHANGED vars
    BY <1>3 DEF vars, connVars, gfxVars, encVars, writeVars, clientVars, IInv, TypeOK, QueueInv, ChannelInv,
       ActiveHasChannel
<1> QED
    BY <1>2, <1>3

\* Every variable keeps its type.
THEOREM TypeCorrect == Spec => []TypeOK
<1>1. IInv => TypeOK
    BY DEF IInv
<1> QED
    BY <1>1, InitHolds, NextHolds, PTL DEF Spec

\* An active pipeline knows where to send, for any number of clients after
\* each other and whatever they and the encoder do (gfx.rs).
THEOREM ActiveHasChannelAlways == Spec => []ActiveHasChannel
<1>1. IInv => ActiveHasChannel
    BY DEF IInv, ChannelInv
<1> QED
    BY <1>1, InitHolds, NextHolds, PTL DEF Spec

-----------------------------------------------------------------------------
(* The surface and the decoder of the only client. *)

\* The rest of the invariant when nothing is written.
LEMMA NothingWritten ==
    ASSUME ViewInv, UNCHANGED writeVars, View' = View,
           gfx'.state = "Active" /\ phase' # "idle" =>
               /\ gfx.state = "Active" /\ phase # "idle" /\ gfx'.size = gfx.size
               /\ gfx.needsKey => gfx'.needsKey
    PROVE  ViewInv'
<1>1. \A v : Believes(gfx, phase, v) => Believes(gfx', phase', v)
    BY DEF Believes
<1>2. queue' = queue /\ out' = out
    BY DEF writeVars
<1> QED
    BY <1>1, <1>2 DEF ViewInv

\* A write is added that suits the view the GfxServer believes in.
LEMMA WriteAdded ==
    ASSUME IInv, ViewInv, NEW b \in Branches, CanRun(b), NEW w \in Writes, Write(b, w),
           View' = View,
           \A v : Believes(gfx, phase, v) => Suits(v, w) /\ Believes(gfx', phase', After(v, w))
    PROVE  ViewInv'
<1>1. /\ out' = [out EXCEPT ![b] = w] /\ out \in [Branches -> Writes \cup {Nothing}]
      /\ \/ queue = <<>> /\ queue' = <<b>>
         \/ \E a \in Branches \ {b} : queue = <<a>> /\ queue' = <<a, b>>
    BY WriteCases DEF IInv, TypeOK, CanRun
<1>2. out'[b] = w /\ \A a \in Branches \ {b} : out'[a] = out[a]
    BY <1>1
<1>3. CASE queue = <<>> /\ queue' = <<b>>
    <2>1. Suits(View, w) /\ Believes(gfx', phase', After(View, w))
        BY <1>3 DEF ViewInv
    <2> QED
        BY <1>2, <1>3, <2>1, Queues DEF ViewInv
<1>4. ASSUME NEW a \in Branches \ {b}, queue = <<a>>, queue' = <<a, b>> PROVE ViewInv'
    <2>1. Suits(View, out[a]) /\ Believes(gfx, phase, After(View, out[a]))
        BY <1>4 DEF ViewInv
    <2>2. Suits(After(View, out[a]), w) /\ Believes(gfx', phase', After(After(View, out[a]), w))
        BY <2>1
    <2> QED
        BY <1>2, <1>4, <2>1, <2>2, Queues DEF ViewInv
<1> QED
    BY <1>1, <1>3, <1>4

\* A write that is done: what the client makes of it.
LEMMA WriteDoneServes ==
    ASSUME SInv, world' = world, WriteDone
    PROVE  KindInv' /\ OpenInv' /\ KeyInv' /\ ViewInv' /\ OnSurface' /\ Decodable'
<1> USE DEF SInv, IInv, WriteDone, gfxVars, encVars
<1>1. PICK a \in Branches :
          /\ Head(queue) = a /\ out[a] \in Writes
          /\ \/ queue = <<a>> /\ Tail(queue) = <<>> /\ \A b \in Branches \ {a} : out[b] = Nothing
             \/ \E b \in Branches \ {a} : queue = <<a, b>> /\ Tail(queue) = <<b>> /\ out[b] \in Writes
    BY DoneCases
<1>2. Receive(out[a])
    BY <1>1
<1>3. Suits(View, out[a])
    BY <1>1 DEF ViewInv
<1>4. client.channel # "closed" \/ out[a].kind # "gfx"
    BY DEF OpenInv
<1>5. View' = After(View, out[a]) /\ client'.kind = client.kind /\ client'.channel = client.channel
    <2>1. client \in ClientType
        BY DEF TypeOK, ClientType
    <2>2. /\ client'.kind = client.kind /\ client'.channel = client.channel
          /\ client'.surface = IF out[a].surface = NoSize THEN client.surface ELSE out[a].surface
        BY <1>2, <2>1 DEF Receive, ClientType
    <2>3. client'.decodes = CASE out[a].frame = "key" -> TRUE
                              [] out[a].surface # NoSize /\ out[a].frame = "none" -> FALSE
                              [] OTHER -> client.decodes
        BY <1>2, <2>1 DEF Receive, ClientType
    <2> QED
        BY <2>2, <2>3 DEF View, After
<1>6. OnSurface' /\ Decodable'
    <2>1. /\ out[a].frame # "none" =>
                out[a].size = (IF out[a].surface = NoSize THEN client.surface ELSE out[a].surface)
          /\ out[a].frame # "broken"
          /\ out[a].frame = "delta" => out[a].surface = NoSize
          /\ out[a].frame \in {"delta", "late"} => client.decodes
        BY <1>3 DEF Suits, After, View
    <2>2. rejected' = rejected \cup Rejects(out[a])
        BY <1>2 DEF Receive
    <2>3. Rejects(out[a]) \cap {"channel", "surface", "keyframe"} = {}
        BY <1>4, <2>1 DEF Rejects
    <2> QED
        BY <2>2, <2>3 DEF OnSurface, Decodable
<1>9. KeyInv'
    <2>1. gfx' = gfx /\ gap' = gap /\ encoder' = encoder
        OBVIOUS
    <2> QED
        BY <2>1 DEF KeyInv
<1>7. CASE out[a].kind = "deactivate"
    <2>1. client.kind # "avc" /\ gfx.state # "Active"
        BY <1>7 DEF KindInv
    <2>2. queue' = <<>> /\ \A b \in Branches : out'[b] = Nothing
        BY <1>1, <1>7
    <2>3. KindInv' /\ OpenInv'
        BY <1>5, <2>1, <2>2 DEF KindInv, OpenInv, Nothing
    <2>4. ViewInv'
        BY <2>1, <2>2, Queues DEF ViewInv, Believes
    <2> QED
        BY <1>6, <1>9, <2>3, <2>4
<1>8. CASE out[a].kind # "deactivate"
    <2>1. out' = [out EXCEPT ![a] = Nothing] /\ queue' = Tail(queue) /\ phase' = phase
        BY <1>1, <1>8
    <2>2. out'[a] = Nothing /\ \A b \in Branches \ {a} : out'[b] = out[b]
        BY <2>1 DEF TypeOK
    <2>3. KindInv' /\ OpenInv'
        BY <1>5, <2>1, <2>2 DEF KindInv, OpenInv, Nothing
    <2>4. ASSUME queue = <<a>>, Tail(queue) = <<>> PROVE ViewInv'
        <3>1. Believes(gfx', phase', View')
            BY <1>5, <2>1, <2>4 DEF ViewInv
        <3> QED
            BY <2>1, <2>4, <3>1, Queues DEF ViewInv
    <2>5. ASSUME NEW b \in Branches \ {a}, queue = <<a, b>>, Tail(queue) = <<b>> PROVE ViewInv'
        <3>1. Suits(View', out'[b]) /\ Believes(gfx', phase', After(View', out'[b]))
            BY <1>5, <2>1, <2>2, <2>5 DEF ViewInv
        <3> QED
            BY <2>1, <2>5, <3>1, Queues DEF ViewInv
    <2> QED
        BY <1>1, <1>6, <1>9, <2>3, <2>4, <2>5
<1> QED
    BY <1>7, <1>8

\* The beginning and the end of the connection, and what writes nothing.
LEMMA ConnectionServes ==
    ASSUME SInv, IInv', MaxConns \in 0 .. 1, world' = world,
           ClientConnects \/ Reactivate \/ Disconnect \/ RequestLayout \/ Client
    PROVE  SInv'
<1>0. /\ TypeOK /\ QueueInv /\ ChannelInv /\ OneClient /\ KindInv /\ OpenInv
      /\ KeyInv /\ ViewInv /\ OnSurface /\ Decodable
    BY DEF SInv, IInv
<1>1. CASE ClientConnects
    <2>1. PICK resizes \in BOOLEAN, s, cap \in Sizes : Accept(resizes, s, cap)
        BY <1>1 DEF ClientConnects
    <2>2. /\ phase = "idle" /\ conns < MaxConns /\ conns' = conns + 1 /\ opened' = FALSE
          /\ inbox' = <<>> /\ rejected' = rejected
        BY <1>1 DEF ClientConnects
    <2>3. gfx.state # "Active" /\ avcOn
        BY <1>0, <2>2, Zenon DEF OneClient
    <2>4. conns' = MaxConns
        BY <1>0, <2>2 DEF TypeOK
    <2>5. phase' = "loop" /\ avcOn' = avcOn /\ queue' = queue /\ out' = out
        BY <2>1, Zenon DEF Accept, writeVars
    <2>6. gfx'.state = gfx.state
        BY <1>0, <2>1 DEF Accept, TypeOK
    <2>7. queue' = <<>> /\ \A b \in Branches : out'[b] = Nothing
        BY <1>0, <2>2, <2>5, Queues DEF QueueInv, ChannelInv
    <2>8. OnSurface' /\ Decodable' /\ OneClient'
        BY <1>0, <2>2, <2>3, <2>4, <2>5, <2>6, <2>7 DEF OnSurface, Decodable, OneClient
    <2>10. KeyInv' /\ ViewInv'
        BY <2>3, <2>6, <2>7, Queues DEF KeyInv, ViewInv, Believes
    <2>9. KindInv' /\ OpenInv'
        BY <2>2, <2>3, <2>5, <2>6, <2>7 DEF KindInv, OpenInv, Nothing
    <2> QED
        BY <2>8, <2>9, <2>10 DEF SInv
<1>2. CASE Reactivate
    <2>1. PICK resizes \in BOOLEAN, cap \in Sizes : Accept(resizes, desk, cap)
        BY <1>2 DEF Reactivate
    <2>2. /\ phase = "reactivating" /\ conns' = conns /\ opened' = opened /\ client' = client
          /\ rejected' = rejected
        BY <1>2 DEF Reactivate
    <2>3. phase' = "loop" /\ avcOn' = avcOn /\ queue' = queue /\ out' = out
        BY <2>1, Zenon DEF Accept, writeVars
    <2>4. gfx'.state = gfx.state
        BY <1>0, <2>1 DEF Accept, TypeOK
    <2>5. client.kind # "avc" /\ gfx.state # "Active"
        BY <1>0, <2>2 DEF KindInv
    <2>6. inbox = <<>> => inbox' = <<>>
        <3>1. PICK n \in 0 .. Len(inbox) : inbox' = SubSeq(inbox, n + 1, Len(inbox))
            BY <1>2 DEF Reactivate
        <3>2. ASSUME inbox = <<>> PROVE inbox' = <<>>
            <4>1. Len(inbox) = 0
                BY <3>2, EmptySeq
            <4>2. n = 0
                BY <4>1
            <4>3. inbox' = SubSeq(inbox, 1, 0)
                BY <3>1, <4>1, <4>2
            <4>4. inbox \in Seq(ClientPdus)
                BY <1>0 DEF TypeOK
            <4> QED
                BY <4>1, <4>3, <4>4, SubSeqProperties, EmptySeq
        <3> QED
            BY <3>2
    <2>7. OneClient' /\ OnSurface' /\ Decodable'
        BY <1>0, <2>2, <2>3 DEF OneClient, OnSurface, Decodable
    <2>8. KindInv' /\ OpenInv'
        BY <1>0, <2>2, <2>3, <2>4, <2>5, <2>6 DEF KindInv, OpenInv
    <2>9. KeyInv' /\ ViewInv'
        BY <1>0, <2>2, <2>3, <2>4, <2>5, NothingWritten DEF KeyInv, View, writeVars
    <2> QED
        BY <2>7, <2>8, <2>9 DEF SInv
<1>3. CASE Disconnect
    <2> USE <1>0, <1>3 DEF Disconnect, gfxVars, encVars, SInv
    <2>1. queue' = <<>> /\ \A b \in Branches : out'[b] = Nothing
        OBVIOUS
    <2>2. KindInv' /\ OpenInv' /\ OneClient' /\ OnSurface' /\ Decodable'
        BY <2>1 DEF KindInv, OpenInv, OneClient, OnSurface, Decodable, Nothing
    <2>3. ViewInv' /\ KeyInv'
        BY <2>1, Queues DEF ViewInv, Believes, KeyInv
    <2> QED
        BY <2>2, <2>3
<1>4. CASE RequestLayout
    <2> USE <1>0, <1>4 DEF RequestLayout, gfxVars, encVars, writeVars, clientVars, SInv
    <2>1. KindInv' /\ OpenInv' /\ OneClient' /\ OnSurface' /\ Decodable'
        BY DEF KindInv, OpenInv, OneClient, OnSurface, Decodable
    <2>2. KeyInv' /\ ViewInv'
        BY NothingWritten DEF KeyInv, View
    <2> QED
        BY <2>1, <2>2
<1>5. CASE Client
    <2>1. PICK pdu \in ClientPdus, channel \in {"open", "advertised", "gone"} : ClientSends(pdu, channel)
        BY <1>5 DEF Client, ClientOpens, ClientAdvertises, ClientAcknowledges, ClientCloses, ClientPdus
    <2> USE <1>0, <2>1 DEF ClientSends, connVars, gfxVars, encVars, writeVars, SInv
    <2>2. View' = View /\ client'.kind = client.kind /\ client'.channel = channel
        BY DEF TypeOK, View
    <2>3. KindInv' /\ OpenInv' /\ OneClient' /\ OnSurface' /\ Decodable'
        BY <2>2 DEF KindInv, OpenInv, OneClient, OnSurface, Decodable
    <2>4. KeyInv' /\ ViewInv'
        BY <2>2, NothingWritten DEF KeyInv
    <2> QED
        BY <2>3, <2>4
<1> QED
    BY <1>1, <1>2, <1>3, <1>4, <1>5

\* The display branch.
LEMMA DisplayServes ==
    ASSUME SInv, IInv', world' = world,
           \/ \E key \in BOOLEAN : Encoded(key) /\ (key \/ ~encoder.fresh)
           \/ DisplayResize \/ DisplayBitmap \/ EncodeTimesOut \/ CaptureResized
    PROVE  SInv'
<1> USE DEF SInv, IInv
<1>1. client' = client /\ inbox' = inbox /\ rejected' = rejected /\ phase' = phase /\ conns' = conns
      /\ opened' = opened /\ avcOn' = avcOn /\ phase = "loop"
    BY DEF Encoded, DisplayResize, DisplayBitmap, EncodeTimesOut, CaptureResized, connVars, gfxVars,
       clientVars, CanRun
<1>2. OneClient' /\ OnSurface' /\ Decodable'
    BY <1>1 DEF OneClient, OnSurface, Decodable
<1>v. View' = View
    BY <1>1 DEF View
<1>3. ASSUME UNCHANGED writeVars, gfx' = gfx, KeyInv' PROVE SInv'
    <2>1. KindInv' /\ OpenInv'
        BY <1>1, <1>3 DEF KindInv, OpenInv, writeVars
    <2>2. ViewInv'
        BY <1>1, <1>v, <1>3, NothingWritten
    <2> QED
        BY <1>2, <1>3, <2>1, <2>2
<1>4. ASSUME NEW w \in Writes, CanRun("display"), Write("display", w), gfx'.state = gfx.state,
             w.kind = "gfx" => gfx.state = "Active", w.kind = "deactivate" => client.kind # "avc",
             KeyInv',
             \A s : Believes(gfx, phase, s) => Suits(s, w) /\ Believes(gfx', phase', After(s, w))
      PROVE  SInv'
    <2>1. "display" \in Branches
        BY DEF Branches
    <2>2. ViewInv'
        BY <1>v, <1>4, <2>1, WriteAdded
    <2>3. out'["display"] = w /\ \A b \in Branches \ {"display"} : out'[b] = out[b]
        BY <1>4, <2>1 DEF Write, TypeOK
    <2>4. KindInv' /\ OpenInv'
        BY <1>1, <1>4, <2>1, <2>3 DEF KindInv, OpenInv
    <2> QED
        BY <1>2, <1>4, <2>2, <2>4
<1>5. ASSUME NEW k \in {"bitmap", "deactivate"}, gfx' = gfx,
             NEW s, Believes(gfx, phase, s)
      PROVE  LET w == [Nothing EXCEPT !.kind = k] IN Suits(s, w) /\ Believes(gfx', phase', After(s, w))
    BY <1>1, <1>5 DEF Suits, After, Believes, Nothing
<1>6. ASSUME NEW key \in BOOLEAN, Encoded(key), key \/ ~encoder.fresh PROVE SInv'
    <2> USE <1>6 DEF Encoded
    <2>1. CASE DropFrame(key)
        <3>1. KeyInv'
            BY <2>1 DEF DropFrame, KeyInv
        <3> QED
            BY <1>3, <2>1, <3>1 DEF DropFrame
    <2>2. CASE SendFrame(key)
        <3> USE <2>2 DEF SendFrame
        <3>0. gfx.state = "Active" /\ (key \/ ~gfx.needsKey) /\ phase # "idle"
            BY <1>1
        <3>1. [kind |-> "gfx", frame |-> FrameKind(key), size |-> encoder.size,
               surface |-> IF gfx.size # encoder.size THEN encoder.size ELSE NoSize] \in Writes
            BY DEF Writes, FrameKind, TypeOK
        <3>2. PICK w \in Writes :
                 /\ Write("display", w) /\ w.kind = "gfx" /\ w.size = encoder.size
                 /\ w.surface = IF gfx.size # encoder.size THEN encoder.size ELSE NoSize
                 /\ w.frame = FrameKind(key)
            BY <3>1 DEF ChannelInv, ActiveHasChannel
        <3>3. gfx'.state = gfx.state /\ gfx'.size = encoder.size
            BY DEF TypeOK
        <3>4. encoder.size # NoSize
            BY GfxAssumption DEF TypeOK
        <3>5. gap' = IF key THEN "none" ELSE gap
            BY DEF ChannelInv, ActiveHasChannel
        <3>6. KeyInv'
            <4>1. encoder'.size = encoder.size
                BY DEF TypeOK
            <4> QED
                BY <3>0, <3>3, <3>5, <4>1 DEF KeyInv
        <3>7. IF key THEN w.frame = "key"
              ELSE /\ w.frame \in {"delta", "late"}
                   /\ w.frame = "delta" => w.surface = NoSize
            BY <3>0, <3>2 DEF FrameKind, KeyInv, TypeOK
        <3>8. ASSUME NEW s, Believes(gfx, phase, s) PROVE Suits(s, w) /\ Believes(gfx', phase', After(s, w))
            <4>1. s.surface = gfx.size /\ (gfx.needsKey \/ s.decodes)
                BY <3>0, <3>8 DEF Believes
            <4>2. After(s, w).surface = encoder.size
                BY <3>2, <3>4, <4>1 DEF After
            <4>3. After(s, w).decodes = IF key THEN TRUE ELSE s.decodes
                BY <3>7 DEF After
            <4>4. Suits(s, w)
                BY <3>0, <3>2, <3>7, <4>1, <4>2 DEF Suits
            <4>5. Believes(gfx', phase', After(s, w))
                BY <3>0, <3>3, <4>1, <4>2, <4>3 DEF Believes
            <4> QED
                BY <4>4, <4>5
        <3> QED
            BY <1>4, <3>0, <3>2, <3>3, <3>6, <3>8
    <2> QED
        BY <2>1, <2>2
<1>7. CASE DisplayResize
    <2> USE <1>7 DEF DisplayResize, gfxVars
    <2>0. KeyInv'
        BY DEF encVars, KeyInv
    <2>1. CASE avcOn
        BY <1>3, <2>0, <2>1
    <2>2. CASE ~avcOn
        <3> DEFINE w == [Nothing EXCEPT !.kind = "deactivate"]
        <3>1. w \in Writes /\ w.kind = "deactivate" /\ client.kind # "avc"
            BY <2>2, WriteTypes DEF KindInv, Nothing
        <3> QED
            BY <1>4, <1>5, <2>0, <2>2, <3>1
    <2> QED
        BY <2>1, <2>2
<1>8. CASE DisplayBitmap
    <2> DEFINE w == [Nothing EXCEPT !.kind = "bitmap"]
    <2>1. w \in Writes /\ w.kind = "bitmap"
        BY WriteTypes DEF Nothing
    <2>2. KeyInv'
        BY <1>8 DEF DisplayBitmap, gfxVars, encVars, KeyInv
    <2> QED
        BY <1>4, <1>5, <1>8, <2>1, <2>2 DEF DisplayBitmap, gfxVars
<1>9. CASE EncodeTimesOut \/ CaptureResized
    <2>1. KeyInv'
        BY <1>9 DEF EncodeTimesOut, CaptureResized, gfxVars, KeyInv, TypeOK
    <2> QED
        BY <1>3, <1>9, <2>1 DEF EncodeTimesOut, CaptureResized, gfxVars
<1> QED
    BY <1>6, <1>7, <1>8, <1>9

\* The PDU branch.
LEMMA PduServes ==
    ASSUME SInv, IInv', world' = world, ProcessPdu
    PROVE  SInv'
<1>0. /\ TypeOK /\ QueueInv /\ ChannelInv /\ OneClient /\ KindInv /\ OpenInv
      /\ KeyInv /\ ViewInv /\ OnSurface /\ Decodable
    BY DEF SInv, IInv
<1>1. /\ client' = client /\ rejected' = rejected /\ phase' = phase /\ conns' = conns
      /\ phase = "loop" /\ CanRun("pdu") /\ inbox # <<>>
    BY DEF ProcessPdu, connVars, CanRun
<1>v. View' = View
    BY <1>1 DEF View
<1>k. gap' = gap /\ encoder' = encoder
    BY DEF ProcessPdu, encVars
<1>2. client.channel # "closed"
    BY <1>0, <1>1 DEF OpenInv
<1>3. OneClient' /\ OnSurface' /\ Decodable'
    BY <1>0, <1>1 DEF OneClient, OnSurface, Decodable
<1>4. OpenInv'
    BY <1>1, <1>2 DEF OpenInv
<1>5. ASSUME UNCHANGED writeVars, avcOn' = avcOn, gfx'.size = gfx.size,
             gfx'.state = "Active" => gfx.state = "Active" /\ gfx'.needsKey = gfx.needsKey
      PROVE  SInv'
    <2>1. KindInv'
        BY <1>0, <1>1, <1>5 DEF KindInv, writeVars
    <2>2. ViewInv'
        BY <1>0, <1>1, <1>v, <1>5, NothingWritten
    <2>3. KeyInv'
        BY <1>0, <1>5, <1>k DEF KeyInv
    <2> QED
        BY <1>3, <1>4, <2>1, <2>2, <2>3 DEF SInv
<1>6. CASE GfxLocked
    <2>1. UNCHANGED <<gfxVars, writeVars>>
        BY <1>6 DEF ProcessPdu
    <2>2. writeVars' = writeVars /\ avcOn' = avcOn /\ gfx' = gfx
        BY <2>1, Zenon DEF gfxVars
    <2> QED
        BY <1>5, <2>2
<1>7. CASE ~GfxLocked
    <2>1. Start \/ CapabilitiesAdvertise \/ FrameAcknowledge \/ Close
        BY <1>7 DEF ProcessPdu
    <2>2. CASE Start \/ Close
        <3>1. writeVars' = writeVars /\ avcOn' = avcOn
            BY <2>2, Zenon DEF Start, Close
        <3>2. gfx'.size = gfx.size /\ gfx'.state = "WaitingCapabilities"
            BY <1>0, <2>2 DEF Start, Close, TypeOK
        <3> QED
            BY <1>5, <3>1, <3>2
    <2>3. CASE FrameAcknowledge
        <3>1. writeVars' = writeVars /\ avcOn' = avcOn /\ gfx' = gfx
            BY <2>3, Zenon DEF FrameAcknowledge, gfxVars
        <3> QED
            BY <1>5, <3>1
    <2>4. CASE CapabilitiesAdvertise /\ client.kind = "avc"
        <3>1. avcOn'
            BY <2>4, Zenon DEF CapabilitiesAdvertise
        <3>2. PICK w \in Writes : w.kind = "gfx" /\ w.frame = "none" /\ w.surface = gfx.size /\ Write("pdu", w)
            <4>1. [Nothing EXCEPT !.kind = "gfx", !.surface = gfx.size] \in Writes
                BY <1>0, WriteTypes DEF TypeOK
            <4>2. Write("pdu", [Nothing EXCEPT !.kind = "gfx", !.surface = gfx.size])
                BY <2>4, <3>1 DEF CapabilitiesAdvertise
            <4> QED
                BY <4>1, <4>2 DEF Nothing
        <3>3. gfx'.size = gfx.size /\ gfx.size # NoSize /\ gfx'.needsKey
            BY <1>0, <2>4, <3>1, GfxAssumption DEF CapabilitiesAdvertise, TypeOK
        <3>4. "pdu" \in Branches
            BY DEF Branches
        <3>5. ASSUME NEW s, Believes(gfx, phase, s) PROVE Suits(s, w) /\ Believes(gfx', phase', After(s, w))
            BY <3>2, <3>3 DEF Suits, After, Believes
        <3>6. ViewInv'
            BY <1>0, <1>1, <1>v, <3>2, <3>4, <3>5, WriteAdded DEF SInv
        <3>7. KindInv'
            <4>1. out'["pdu"] = w /\ \A b \in Branches \ {"pdu"} : out'[b] = out[b]
                BY <1>0, <3>2, <3>4 DEF Write, TypeOK
            <4> QED
                BY <1>0, <1>1, <2>4, <3>1, <3>2, <3>4, <4>1 DEF KindInv
        <3> QED
            BY <1>3, <1>4, <3>3, <3>6, <3>7 DEF SInv, KeyInv
    <2>5. CASE CapabilitiesAdvertise /\ client.kind # "avc"
        <3>1. ~avcOn' /\ UNCHANGED <<gfx, writeVars>>
            BY <2>5, Zenon DEF CapabilitiesAdvertise
        <3>2. writeVars' = writeVars /\ gfx' = gfx
            BY <3>1, Zenon
        <3>3. KindInv'
            BY <1>0, <1>1, <2>5, <3>2 DEF KindInv, writeVars
        <3>4. ViewInv'
            BY <1>0, <1>1, <1>v, <3>2, NothingWritten
        <3>5. KeyInv'
            BY <1>0, <1>k, <3>2 DEF KeyInv
        <3> QED
            BY <1>3, <1>4, <3>3, <3>4, <3>5 DEF SInv
    <2> QED
        BY <2>1, <2>2, <2>3, <2>4, <2>5
<1> QED
    BY <1>6, <1>7

\* Every step.
LEMMA SNextHolds == MaxConns \in 0 .. 1 /\ SInv /\ [Next]_vars => SInv'
<1> SUFFICES ASSUME MaxConns \in 0 .. 1, SInv, [Next]_vars PROVE SInv'
    OBVIOUS
<1>1. IInv'
    BY NextHolds DEF SInv
<1>2. ASSUME DisplayFrame PROVE \E key \in BOOLEAN : Encoded(key) /\ (key \/ ~encoder.fresh)
    BY <1>2, Zenon DEF DisplayFrame
<1>3. ASSUME WriteDone, world' = world PROVE SInv'
    <2>1. KindInv' /\ OpenInv' /\ KeyInv' /\ ViewInv' /\ OnSurface' /\ Decodable'
        BY <1>3, WriteDoneServes
    <2>2. conns' = conns /\ opened' = opened /\ avcOn' = avcOn /\ gfx' = gfx
        BY <1>3, Zenon DEF WriteDone, gfxVars
    <2>3. phase # "idle"
        BY <1>3 DEF SInv, IInv, ChannelInv, WriteDone
    <2>4. phase' \in {phase, "reactivating"}
        BY <1>3 DEF WriteDone
    <2> QED
        BY <1>1, <2>1, <2>2, <2>3, <2>4 DEF SInv, OneClient
<1>4. CASE Next
    BY <1>1, <1>2, <1>3, <1>4, ConnectionServes, DisplayServes, PduServes DEF Next, Step
<1>5. CASE UNCHANGED vars
    <2>1. /\ phase' = phase /\ conns' = conns /\ gfx' = gfx /\ out' = out /\ queue' = queue
          /\ client' = client /\ inbox' = inbox /\ rejected' = rejected
          /\ avcOn' = avcOn /\ opened' = opened /\ gap' = gap /\ encoder' = encoder
        BY <1>5, Zenon DEF vars, connVars, gfxVars, encVars, writeVars, clientVars
    <2>2. OneClient' /\ KindInv' /\ OpenInv' /\ KeyInv' /\ OnSurface' /\ Decodable'
        BY <2>1 DEF SInv, OneClient, KindInv, OpenInv, KeyInv, OnSurface, Decodable
    <2>3. ViewInv'
        BY <2>1, NothingWritten DEF SInv, View, writeVars
    <2> QED
        BY <1>1, <2>2, <2>3 DEF SInv
<1> QED
    BY <1>4, <1>5

\* What holds before the only connection.
LEMMA SInitHolds == MaxConns \in 0 .. 1 /\ Init => SInv
<1> SUFFICES ASSUME Init PROVE SInv
    OBVIOUS
<1>1. IInv
    BY InitHolds
<1>2. OneClient /\ KindInv /\ OpenInv
    <2>1. avcOn /\ ~opened /\ phase = "idle" /\ gfx.state # "Active"
        BY Zenon DEF Init
    <2>2. queue = <<>> /\ inbox = <<>> /\ \A b \in Branches : out[b] = Nothing
        BY DEF Init
    <2> QED
        BY <2>1, <2>2 DEF OneClient, KindInv, OpenInv, Nothing
<1>3. KeyInv /\ ViewInv /\ OnSurface /\ Decodable
    BY Queues DEF Init, KeyInv, ViewInv, Believes, OnSurface, Decodable
<1> QED
    BY <1>1, <1>2, <1>3 DEF SInv

\* In the only connection the server ever has, graphics go only to a client
\* that has opened the channel, on a surface of the size of the frames
\* (server.rs:766-825).
THEOREM OnSurfaceAlways ==
    ASSUME MaxConns \in 0 .. 1
    PROVE  Spec => []OnSurface
<1>1. SInv => OnSurface
    BY DEF SInv
<1> QED
    BY <1>1, SInitHolds, SNextHolds, PTL DEF Spec

\* In the only connection every frame that is sent builds on frames the client
\* has, whatever the encoder loses: after a frame that was dropped comes a
\* keyframe, and so it does with a surface of another size (server.rs:754-765).
THEOREM DecodableAlways ==
    ASSUME MaxConns \in 0 .. 1
    PROVE  Spec => []Decodable
<1>1. SInv => Decodable
    BY DEF SInv
<1> QED
    BY <1>1, SInitHolds, SNextHolds, PTL DEF Spec
==============================================================================
