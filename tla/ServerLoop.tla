----------------------------- MODULE ServerLoop -----------------------------
(***************************************************************************)
(* The life of a connection in RdpServer: run, run_connection, the loop of *)
(* accept_finalize over deactivation-reactivation, client_accepted and the *)
(* three branches of client_loop, with the size of the desktop that        *)
(* MacDisplay negotiates through them (bitmap mode).                       *)
(*                                                                         *)
(* A layout of the client becomes request_layout in a detached task        *)
(* (DisplayControlBackend::monitor_layout), which runs whenever it gets    *)
(* the display mutex, whatever the connection does meanwhile.  It answers  *)
(* through a tokio watch channel: MacDisplay keeps one receiver and clones *)
(* it for each stream, and each receiver knows whether it has seen the     *)
(* newest value.  updates() keeps the display mutex from its first await   *)
(* to its end, so for the other tasks it is one step.                      *)
(***************************************************************************)
EXTENDS Naturals, Sequences, FiniteSets

CONSTANTS
    Sizes,       \* desktop sizes
    Native,      \* the size of the display itself
    None,        \* "no size"
    Effective,   \* the desktop size request_layout chooses for a request
    Faults,      \* a subset of AllFaults
    MaxConns,    \* bound on the connections of a behaviour
    MaxLayouts,  \* bound on the layouts the clients ask for in a behaviour
    MaxEvents    \* bound on the clipboard events of a behaviour

AllFaults == {"clientLost",    \* the connection breaks
              "streamFails"}   \* MacDisplayUpdates::start fails

ASSUME ServerLoopAssumption ==
    /\ Native \in Sizes
    /\ None \notin Sizes
    /\ Effective \in [Sizes -> Sizes]
    /\ Faults \subseteq AllFaults
    /\ MaxConns \in Nat
    /\ MaxLayouts \in Nat
    /\ MaxEvents \in Nat

VARIABLES
    phase,       \* where the server's task is, see Phases
    conns,       \* connections accepted so far
    client,      \* the connected client: the size it wishes, whether it can be resized
    demand,      \* the desktop size of the last Demand Active: what the client draws on
    current,     \* MacDisplay::current_size
    value,       \* the value in the watch channel
    mainNew,     \* MacDisplay's receiver has not seen it
    streamNew,   \* the stream's receiver has not seen it
    target,      \* MacDisplayUpdates::target_size
    checked,     \* next_update is past its look at the receiver
    deactivate,  \* the size of the Resize whose DeactivateAll is being written
    frame,       \* the last bitmap sent: its size and the client's desktop then
    layouts,     \* request_layout tasks that wait for the display mutex
    asked,       \* layouts asked for so far
    events,      \* ServerEvents in the channel
    taken,       \* ServerEvents received by dispatch_events
    made,        \* clipboard events made so far
    signalled,   \* the signal task has sent its Quit
    this         \* the branch that holds the mutex around the RdpServer

displayVars == <<current, value, mainNew>>
streamVars == <<streamNew, target, checked, deactivate, frame>>
eventVars == <<events, taken, made, signalled, this>>
layoutVars == <<layouts, asked>>
connVars == <<phase, conns, client, demand>>
vars == <<connVars, displayVars, streamVars, layoutVars, eventVars>>

Phases == {"idle",       \* run waits for a client or an event
           "handshake",  \* the acceptor negotiates, first or again
           "accepted",   \* client_accepted, up to client_loop
           "starting",   \* updates()
           "loop",       \* client_loop
           "leaving",    \* the connection has ended
           "down"}       \* run has returned
NoClient == [wish |-> Native, resizes |-> FALSE]
NoFrame == [size |-> None, desktop |-> None]

TypeOK ==
    /\ phase \in Phases
    /\ conns \in 0 .. MaxConns
    /\ client \in [wish : Sizes, resizes : BOOLEAN]
    /\ demand \in Sizes
    /\ current \in Sizes \cup {None}
    /\ value \in Sizes \cup {None}
    /\ mainNew \in BOOLEAN /\ streamNew \in BOOLEAN /\ checked \in BOOLEAN
    /\ target \in Sizes
    /\ deactivate \in Sizes \cup {None}
    /\ frame \in [size : Sizes, desktop : Sizes] \cup {NoFrame}
    /\ layouts \in Seq(Sizes)
    /\ asked \in 0 .. MaxLayouts
    /\ events \in Seq({"quit", "clipboard"})
    /\ taken \in Seq({"quit", "clipboard"})
    /\ made \in 0 .. MaxEvents
    /\ signalled \in BOOLEAN
    /\ this \in {"free", "pdu", "events"}

Init ==
    /\ phase = "idle"
    /\ conns = 0
    /\ client = NoClient
    /\ demand = Native
    /\ current = None
    /\ value = None
    /\ mainNew = FALSE /\ streamNew = FALSE /\ checked = FALSE
    /\ target = Native
    /\ deactivate = None
    /\ frame = NoFrame
    /\ layouts = <<>>
    /\ asked = 0
    /\ events = <<>> /\ taken = <<>>
    /\ made = 0
    /\ signalled = FALSE
    /\ this = "free"

-----------------------------------------------------------------------------
(* MacDisplay. *)

DisplaySize == IF current = None THEN Native ELSE current

\* Mutant: the size is kept and not sent.
RequestLayoutSilently(s) ==
    /\ current' = Effective[s]
    /\ UNCHANGED <<value, mainNew, streamNew>>

RequestLayout(s) ==
    IF current = Effective[s]
    THEN UNCHANGED <<displayVars, streamNew>>
    ELSE /\ current' = Effective[s]
         /\ value' = Effective[s]
         /\ mainNew' = TRUE
         /\ streamNew' = (phase = "loop")

\* A detached task obtains the display mutex.
LayoutTask ==
    /\ phase # "down"
    /\ layouts # <<>>
    /\ layouts' = Tail(layouts)
    /\ RequestLayout(Head(layouts))
    /\ UNCHANGED <<connVars, target, checked, deactivate, frame, asked, eventVars>>

\* client_disconnected forgets the size, not what the watch channel holds.
ClientDisconnected ==
    /\ phase = "leaving"
    /\ phase' = "idle"
    /\ client' = NoClient
    /\ current' = None
    /\ UNCHANGED <<conns, demand, value, mainNew, streamVars, layoutVars, eventVars>>

-----------------------------------------------------------------------------
(* run and the handshake. *)

\* The acceptor is given the size of the display for its Demand Active.
Connect ==
    /\ phase = "idle"
    /\ conns < MaxConns
    /\ phase' = "handshake"
    /\ conns' = conns + 1
    /\ client' \in [wish : Sizes, resizes : BOOLEAN]
    /\ demand' = DisplaySize
    /\ UNCHANGED <<displayVars, streamVars, layoutVars, eventVars>>

HandshakeDone ==
    /\ phase = "handshake"
    /\ phase' = "accepted"
    /\ UNCHANGED <<conns, client, demand, displayVars, streamVars, layoutVars, eventVars>>

\* The size in the client's Confirm Active is its wish or what it was
\* demanded; if the display has another, a layout is made up for it.
MatchClient ==
    \E confirmed \in {client.wish, demand} :
        IF client.resizes /\ confirmed # DisplaySize
        THEN RequestLayout(confirmed)
        ELSE UNCHANGED <<displayVars, streamNew>>

Accepted ==
    /\ phase = "accepted"
    /\ phase' = "starting"
    /\ MatchClient
    /\ UNCHANGED <<conns, client, demand, target, checked, deactivate, frame>>
    /\ UNCHANGED <<layoutVars, eventVars>>

\* Mutant: MacDisplay's receiver is marked before it is cloned.
StartStreamMarked ==
    /\ phase = "starting"
    /\ phase' = "loop"
    /\ target' = DisplaySize
    /\ streamNew' = FALSE
    /\ mainNew' = FALSE
    /\ UNCHANGED <<conns, client, demand, current, value, checked, deactivate, frame>>
    /\ UNCHANGED <<layoutVars, eventVars>>

\* Mutant: MacDisplay's receiver is not marked.
StartStreamUnmarked ==
    /\ phase = "starting"
    /\ phase' = "loop"
    /\ target' = DisplaySize
    /\ streamNew' = mainNew
    /\ UNCHANGED <<conns, client, demand, displayVars, checked, deactivate, frame>>
    /\ UNCHANGED <<layoutVars, eventVars>>

\* updates(): the stream's receiver is cloned before MacDisplay's own is
\* marked as having seen the value.
StartStream ==
    /\ phase = "starting"
    /\ phase' = "loop"
    /\ target' = DisplaySize
    /\ streamNew' = mainNew
    /\ mainNew' = FALSE
    /\ UNCHANGED <<conns, client, demand, current, value, checked, deactivate, frame>>
    /\ UNCHANGED <<layoutVars, eventVars>>

StreamFails ==
    /\ "streamFails" \in Faults
    /\ phase = "starting"
    /\ phase' = "leaving"
    /\ UNCHANGED <<conns, client, demand, displayVars, streamVars, layoutVars, eventVars>>

-----------------------------------------------------------------------------
(* client_loop: when a branch ends, select! drops the others where they    *)
(* stand, with the events and the locks they hold.                         *)

EndLoop(next) ==
    /\ phase' = next
    /\ streamNew' = FALSE
    /\ checked' = FALSE
    /\ deactivate' = None
    /\ taken' = <<>>
    /\ this' = "free"

\* Mutant: next_update takes the value without asking whether it is new.
CheckResizeTwice ==
    /\ phase = "loop"
    /\ deactivate = None
    /\ ~checked
    /\ target' = value
    /\ checked' = TRUE
    /\ UNCHANGED <<connVars, displayVars, streamNew, deactivate, frame, layoutVars, eventVars>>

\* next_update looks at its receiver first.
CheckResize ==
    /\ phase = "loop"
    /\ deactivate = None
    /\ ~checked
    /\ IF streamNew
       THEN /\ streamNew' = FALSE
            /\ target' = value
            /\ deactivate' = value
            /\ UNCHANGED checked
       ELSE /\ checked' = TRUE
            /\ UNCHANGED <<streamNew, target, deactivate>>
    /\ UNCHANGED <<connVars, displayVars, frame, layoutVars, eventVars>>

\* The frame of this turn goes out.
SendFrame ==
    /\ phase = "loop"
    /\ checked
    /\ checked' = FALSE
    /\ frame' = [size |-> target, desktop |-> demand]
    /\ UNCHANGED <<connVars, displayVars, streamNew, target, deactivate, layoutVars, eventVars>>

\* DeactivateAll is written: the acceptor starts again with the new size.
Deactivated ==
    /\ phase = "loop"
    /\ deactivate # None
    /\ EndLoop("handshake")
    /\ demand' = deactivate
    /\ UNCHANGED <<conns, client, displayVars, target, frame, layoutVars, events, made, signalled>>

\* The client's PDUs: a new layout, something a static channel answers, the
\* end of the connection.
LayoutPdu ==
    /\ phase = "loop"
    /\ this = "free"
    /\ asked < MaxLayouts
    /\ asked' = asked + 1
    /\ \E s \in Sizes :
         /\ layouts' = Append(layouts, s)
         /\ client' = [client EXCEPT !.wish = s]
    /\ UNCHANGED <<phase, conns, demand, displayVars, streamVars, eventVars>>

ChannelPdu ==
    /\ phase = "loop"
    /\ this = "free"
    /\ this' = "pdu"
    /\ UNCHANGED <<connVars, displayVars, streamVars, layoutVars, events, taken, made, signalled>>

ChannelAnswered ==
    /\ phase = "loop"
    /\ this = "pdu"
    /\ this' = "free"
    /\ UNCHANGED <<connVars, displayVars, streamVars, layoutVars, events, taken, made, signalled>>

DisconnectPdu ==
    /\ phase = "loop"
    /\ this = "free"
    /\ EndLoop("leaving")
    /\ UNCHANGED <<conns, client, demand, displayVars, target, frame, layoutVars, events, made,
                   signalled>>

ConnectionLost ==
    /\ "clientLost" \in Faults
    /\ phase \in {"handshake", "accepted", "loop"}
    /\ EndLoop("leaving")
    /\ UNCHANGED <<conns, client, demand, displayVars, target, frame, layoutVars, events, made,
                   signalled>>

-----------------------------------------------------------------------------
(* ServerEvents. *)

\* The one-shot signal task of main.
Signal ==
    /\ ~signalled
    /\ signalled' = TRUE
    /\ events' = Append(events, "quit")
    /\ UNCHANGED <<connVars, displayVars, streamVars, layoutVars, taken, made, this>>

ClipboardEvent ==
    /\ phase = "loop"
    /\ made < MaxEvents
    /\ made' = made + 1
    /\ events' = Append(events, "clipboard")
    /\ UNCHANGED <<connVars, displayVars, streamVars, layoutVars, taken, signalled, this>>

\* run, without a client: Quit ends it, clipboard events are dropped.
IdleEvent ==
    /\ phase = "idle"
    /\ events # <<>>
    /\ events' = Tail(events)
    /\ phase' = IF Head(events) = "quit" THEN "down" ELSE "idle"
    /\ UNCHANGED <<conns, client, demand, displayVars, streamVars, layoutVars, taken, made,
                   signalled, this>>

\* dispatch_events empties the channel, then waits for the RdpServer.
TakeEvents ==
    /\ phase = "loop"
    /\ taken = <<>>
    /\ events # <<>>
    /\ taken' = events
    /\ events' = <<>>
    /\ UNCHANGED <<connVars, displayVars, streamVars, layoutVars, made, signalled, this>>

\* dispatch_server_events keeps the RdpServer until all are written.
DispatchEvent ==
    /\ phase = "loop"
    /\ taken # <<>>
    /\ this \in {"free", "events"}
    /\ IF Head(taken) = "quit"
       THEN EndLoop("leaving")
       ELSE /\ taken' = Tail(taken)
            /\ this' = IF taken' = <<>> THEN "free" ELSE "events"
            /\ UNCHANGED <<phase, streamNew, checked, deactivate>>
    /\ UNCHANGED <<conns, client, demand, displayVars, target, frame, layoutVars, events, made,
                   signalled>>

-----------------------------------------------------------------------------
Task ==
    \/ HandshakeDone
    \/ Accepted
    \/ StartStream
    \/ ClientDisconnected

Branches == CheckResize \/ SendFrame \/ Deactivated

Environment ==
    \/ Connect
    \/ StreamFails
    \/ LayoutPdu
    \/ ChannelPdu
    \/ DisconnectPdu
    \/ ConnectionLost
    \/ Signal
    \/ ClipboardEvent

Events == IdleEvent \/ TakeEvents \/ DispatchEvent

Next == Task \/ LayoutTask \/ Branches \/ ChannelAnswered \/ Events \/ Environment

Spec == Init /\ [][Next]_vars

\* The server's task and the detached tasks run; select! polls every branch;
\* sockets drain; a client finishes the handshakes it is asked for.
Fairness ==
    /\ WF_vars(Task)
    /\ WF_vars(LayoutTask)
    /\ WF_vars(Branches)
    /\ WF_vars(ChannelAnswered)
    /\ WF_vars(IdleEvent)
    /\ WF_vars(TakeEvents)
    /\ SF_vars(DispatchEvent)

FairSpec == Spec /\ Fairness

-----------------------------------------------------------------------------
(* What the server promises. *)

\* Every bitmap has the size of the desktop the client draws on, through
\* layouts, resizes and reactivations ("prevents sending oversized frames
\* that the client can't handle", server.rs:960).
FramesFit == frame.size = frame.desktop

\* A resize settles: layouts do not make the server deactivate and reactivate
\* the client forever ("trigger a spurious resize loop", display.rs:293).
Settles == <>[](phase \in {"idle", "loop", "down"} /\ deactivate = None)

\* The client ends up with a desktop of the size MacDisplay chose for it last.
Follows == <>[](phase = "loop" => demand = DisplaySize)

\* A "quit event so the server loop exits gracefully" (main.rs:153-154).
QuitStops == signalled ~> phase = "down"
==============================================================================
