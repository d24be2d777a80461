-------------------------- MODULE ServerLoopProofs --------------------------
(***************************************************************************)
(* What holds of ServerLoop for all sizes, every request_layout and any    *)
(* number of layouts and events: the type invariant, and, while there is   *)
(* one connection, that every bitmap fits the client's desktop.  The run   *)
(* server_loop_stale shows that a second connection can break the latter.  *)
(***************************************************************************)
EXTENDS ServerLoop, TLAPS

\* A receiver has something to see only after request_layout has sent it.
SomethingSent == mainNew \/ streamNew => value # None

TypeInv == TypeOK /\ SomethingSent

\* Queues begin empty.
LEMMA EmptySeqs == <<>> \in Seq(Sizes) /\ <<>> \in Seq({"quit", "clipboard"})
OBVIOUS

\* What holds in the beginning.
LEMMA TypeInit == Init => TypeInv
<1> SUFFICES ASSUME Init PROVE TypeInv
    OBVIOUS
<1> USE ServerLoopAssumption DEF Init
<1>1. client \in [wish : Sizes, resizes : BOOLEAN]
      BY DEF NoClient
<1>2. layouts \in Seq(Sizes) /\ events \in Seq({"quit", "clipboard"})
      /\ taken \in Seq({"quit", "clipboard"})
      BY EmptySeqs
<1>3. conns \in 0 .. MaxConns /\ asked \in 0 .. MaxLayouts /\ made \in 0 .. MaxEvents
      OBVIOUS
<1> QED
    BY <1>1, <1>2, <1>3 DEF TypeInv, TypeOK, SomethingSent, Phases

\* Every step keeps the types.
LEMMA TypeNext == TypeInv /\ [Next]_vars => TypeInv'
<1> SUFFICES ASSUME TypeInv, [Next]_vars PROVE TypeInv'
    OBVIOUS
<1> USE ServerLoopAssumption
    DEF TypeInv, TypeOK, SomethingSent, Phases, NoClient, connVars, displayVars, streamVars,
        layoutVars, eventVars
<1>0. DisplaySize \in Sizes
      BY DEF DisplaySize
<1>1. CASE HandshakeDone \/ StreamFails
      BY <1>1 DEF HandshakeDone, StreamFails
<1>2. ASSUME NEW s \in Sizes, RequestLayout(s)
      PROVE /\ current' \in Sizes \cup {None} /\ value' \in Sizes \cup {None}
            /\ mainNew' \in BOOLEAN /\ streamNew' \in BOOLEAN
            /\ mainNew' \/ streamNew' => value' # None
      BY <1>2 DEF RequestLayout
<1>3. CASE Accepted
  <2>1. /\ current' \in Sizes \cup {None} /\ value' \in Sizes \cup {None}
        /\ mainNew' \in BOOLEAN /\ streamNew' \in BOOLEAN
        /\ mainNew' \/ streamNew' => value' # None
        BY <1>2, <1>3 DEF Accepted, MatchClient
  <2> QED
      BY <1>3, <2>1 DEF Accepted
<1>4. CASE StartStream
      BY <1>0, <1>4 DEF StartStream
<1>5. CASE ClientDisconnected
      BY <1>5 DEF ClientDisconnected
<1>6. CASE LayoutTask
  <2>1. Head(layouts) \in Sizes /\ layouts' \in Seq(Sizes)
        BY <1>6 DEF LayoutTask
  <2>2. RequestLayout(Head(layouts))
        BY <1>6 DEF LayoutTask
  <2>3. /\ current' \in Sizes \cup {None} /\ value' \in Sizes \cup {None}
        /\ mainNew' \in BOOLEAN /\ streamNew' \in BOOLEAN
        /\ mainNew' \/ streamNew' => value' # None
        BY <1>2, <2>1, <2>2
  <2> QED
      BY <1>6, <2>1, <2>3 DEF LayoutTask
<1>7. CASE CheckResize
      BY <1>7 DEF CheckResize
<1>8. CASE SendFrame
      BY <1>8 DEF SendFrame
<1>9. CASE Deactivated
      BY <1>9, EmptySeqs DEF Deactivated, EndLoop
<1>10. CASE ChannelAnswered \/ ChannelPdu
      BY <1>10 DEF ChannelAnswered, ChannelPdu
<1>11. CASE IdleEvent
      BY <1>11 DEF IdleEvent
<1>12. CASE TakeEvents
      BY <1>12, EmptySeqs DEF TakeEvents
<1>13. CASE DispatchEvent
  <2>1. taken' \in Seq({"quit", "clipboard"})
    <3>1. taken' = <<>> \/ taken' = Tail(taken)
          BY <1>13 DEF DispatchEvent, EndLoop
    <3>2. taken # <<>> /\ taken \in Seq({"quit", "clipboard"})
          BY <1>13 DEF DispatchEvent
    <3>3. Tail(taken) \in Seq({"quit", "clipboard"})
          BY <3>2
    <3> QED
        BY <3>1, <3>3, EmptySeqs
  <2>2. this' \in {"free", "pdu", "events"} /\ phase' \in Phases
        BY <1>13 DEF DispatchEvent, EndLoop
  <2>3. /\ streamNew' \in BOOLEAN /\ checked' \in BOOLEAN
        /\ deactivate' \in Sizes \cup {None}
        /\ streamNew' => streamNew
        BY <1>13 DEF DispatchEvent, EndLoop
  <2> QED
      BY <1>13, <2>1, <2>2, <2>3 DEF DispatchEvent
<1>14. CASE Connect
  <2>1. conns' \in 0 .. MaxConns
        BY <1>14 DEF Connect
  <2> QED
      BY <1>0, <1>14, <2>1 DEF Connect
<1>15. CASE LayoutPdu
  <2>1. PICK s \in Sizes : layouts' = Append(layouts, s) /\ client' = [client EXCEPT !.wish = s]
        BY <1>15 DEF LayoutPdu
  <2>2. layouts' \in Seq(Sizes)
        BY <2>1
  <2>3. client' \in [wish : Sizes, resizes : BOOLEAN]
        BY <2>1
  <2>4. asked' \in 0 .. MaxLayouts
        BY <1>15 DEF LayoutPdu
  <2> QED
      BY <1>15, <2>2, <2>3, <2>4 DEF LayoutPdu
<1>16. CASE DisconnectPdu \/ ConnectionLost
  <2>1. taken' \in Seq({"quit", "clipboard"}) /\ phase' \in Phases
        BY <1>16, EmptySeqs DEF DisconnectPdu, ConnectionLost, EndLoop
  <2>2. CASE DisconnectPdu
        BY <2>1, <2>2 DEF DisconnectPdu, EndLoop
  <2>3. CASE ConnectionLost
        BY <2>1, <2>3 DEF ConnectionLost, EndLoop
  <2> QED
      BY <1>16, <2>2, <2>3
<1>17. CASE Signal
  <2>1. events' \in Seq({"quit", "clipboard"})
        BY <1>17 DEF Signal
  <2> QED
      BY <1>17, <2>1 DEF Signal
<1>18. CASE ClipboardEvent
  <2>1. events' \in Seq({"quit", "clipboard"})
        BY <1>18 DEF ClipboardEvent
  <2> QED
      BY <1>18, <2>1 DEF ClipboardEvent
<1>19. CASE UNCHANGED vars
      BY <1>19 DEF vars
<1> QED
    BY <1>1, <1>3, <1>4, <1>5, <1>6, <1>7, <1>8, <1>9, <1>10, <1>11, <1>12, <1>13, <1>14,
       <1>15, <1>16, <1>17, <1>18, <1>19 DEF Next, Task, Branches, Events, Environment

\* The variables of the server loop keep their types, whatever
\* request_layout grants and however many clients, layouts and events come.
THEOREM TypeCorrect == Spec => []TypeOK
<1>1. TypeInv => TypeOK
      BY DEF TypeInv
<1> QED
    BY TypeInit, TypeNext, <1>1, PTL DEF Spec

-----------------------------------------------------------------------------
(* FramesFit.  A size the client has not been told of is always announced: *)
(* by a receiver that has not seen it, or by a Resize under way.           *)

Connected == phase \in {"handshake", "accepted", "starting", "loop"}

\* Before the first connection nothing has been negotiated.
Untouched ==
    conns = 0 => /\ phase \in {"idle", "down"}
                 /\ layouts = <<>>
                 /\ current = None /\ value = None
                 /\ ~mainNew

\* MacDisplay and the watch channel hold the same size.
WatchAgrees ==
    Connected => /\ value = current
                 /\ mainNew \/ streamNew \/ deactivate # None => current # None

\* Between two streams, MacDisplay's receiver announces what is new.
AnnouncedByMain ==
    phase \in {"handshake", "accepted", "starting"} /\ ~mainNew => demand = DisplaySize

\* In client_loop, the stream's receiver or the Resize under way does.
AnnouncedByStream ==
    phase = "loop" => /\ ~streamNew /\ deactivate = None => demand = DisplaySize
                      /\ ~streamNew /\ deactivate = None => target = demand
                      /\ deactivate # None /\ ~mainNew => deactivate = DisplaySize
                      /\ checked => target = demand /\ deactivate = None

\* Nothing of a stream outlives its loop.
NoStream == phase # "loop" => ~streamNew /\ ~checked /\ deactivate = None

FitInv == FramesFit /\ Untouched /\ NoStream /\ WatchAgrees /\ AnnouncedByMain /\ AnnouncedByStream

\* What holds in the beginning.
LEMMA FitInit == Init => FitInv
<1> SUFFICES ASSUME Init PROVE FitInv
    OBVIOUS
<1> QED
    BY DEF Init, NoFrame, FitInv, FramesFit, Untouched, NoStream, WatchAgrees, Connected, AnnouncedByMain,
           AnnouncedByStream

\* request_layout sends what it decides: afterwards MacDisplay and the watch
\* channel agree, or nothing changed.
LEMMA LayoutSends ==
    ASSUME TypeInv, NEW s \in Sizes, RequestLayout(s)
    PROVE  \/ UNCHANGED <<current, value, mainNew, streamNew>>
           \/ /\ current' = value' /\ current' # None
              /\ mainNew'
              /\ streamNew' <=> phase = "loop"
<1> QED
    BY ServerLoopAssumption DEF RequestLayout, displayVars

\* Every step of the only connection.
LEMMA FitNext == MaxConns = 1 /\ TypeInv /\ FitInv /\ [Next]_vars => FitInv'
<1> SUFFICES ASSUME MaxConns = 1, TypeInv, FitInv, [Next]_vars PROVE FitInv'
    OBVIOUS
<1> USE ServerLoopAssumption
    DEF FitInv, FramesFit, Untouched, NoStream, WatchAgrees, Connected, AnnouncedByMain,
        AnnouncedByStream, DisplaySize
<1>t. TypeOK /\ SomethingSent
      BY DEF TypeInv
<1>c. conns \in {0, 1}
      BY <1>t DEF TypeOK
<1>1. CASE HandshakeDone \/ StreamFails
      BY <1>1 DEF HandshakeDone, StreamFails, displayVars, streamVars, layoutVars
<1>2. CASE Accepted
  <2>1. PICK confirmed \in Sizes :
            RequestLayout(confirmed) \/ UNCHANGED <<current, value, mainNew, streamNew>>
        BY <1>2, <1>t DEF Accepted, MatchClient, TypeOK, displayVars
  <2>2. \/ UNCHANGED <<current, value, mainNew, streamNew>>
        \/ current' = value' /\ current' # None /\ mainNew' /\ ~streamNew'
        BY <1>2, <2>1, LayoutSends DEF Accepted
  <2> QED
      BY <1>2, <2>2 DEF Accepted, layoutVars
<1>3. CASE StartStream
      BY <1>3 DEF StartStream, layoutVars
<1>4. CASE ClientDisconnected
      BY <1>4, <1>c DEF ClientDisconnected, streamVars, layoutVars
<1>5. CASE LayoutTask
  <2>1. Head(layouts) \in Sizes /\ RequestLayout(Head(layouts)) /\ conns # 0
        BY <1>5, <1>t DEF LayoutTask, TypeOK
  <2>2. \/ UNCHANGED <<current, value, mainNew, streamNew>>
        \/ /\ current' = value' /\ current' # None
           /\ mainNew'
           /\ streamNew' <=> phase = "loop"
        BY <2>1, LayoutSends
  <2>3. UNCHANGED <<phase, conns, demand, target, checked, deactivate, frame>>
        BY <1>5 DEF LayoutTask, connVars
  <2> QED
      BY <2>1, <2>2, <2>3
<1>6. CASE CheckResize
      BY <1>6, <1>t DEF CheckResize, SomethingSent, connVars, displayVars, layoutVars
<1>7. CASE SendFrame
      BY <1>7 DEF SendFrame, connVars, displayVars, layoutVars
<1>8. CASE Deactivated
      BY <1>8 DEF Deactivated, EndLoop, displayVars, layoutVars
<1>9. CASE ChannelAnswered \/ ChannelPdu
      BY <1>9 DEF ChannelAnswered, ChannelPdu, connVars, displayVars, streamVars, layoutVars
<1>10. CASE IdleEvent
      BY <1>10 DEF IdleEvent, displayVars, streamVars, layoutVars
<1>11. CASE TakeEvents
      BY <1>11 DEF TakeEvents, connVars, displayVars, streamVars, layoutVars
<1>12. CASE DispatchEvent
      BY <1>12 DEF DispatchEvent, EndLoop, displayVars, layoutVars
<1>13. CASE Connect
  <2>1. conns = 0 /\ conns' = 1
        BY <1>13, <1>c DEF Connect
  <2> QED
      BY <1>13, <2>1 DEF Connect, displayVars, streamVars, layoutVars
<1>14. CASE LayoutPdu
      BY <1>14 DEF LayoutPdu, displayVars, streamVars
<1>15. CASE DisconnectPdu \/ ConnectionLost
      BY <1>15 DEF DisconnectPdu, ConnectionLost, EndLoop, displayVars, layoutVars
<1>16. CASE Signal \/ ClipboardEvent
      BY <1>16 DEF Signal, ClipboardEvent, connVars, displayVars, streamVars, layoutVars
<1>17. CASE UNCHANGED vars
      BY <1>17 DEF vars, connVars, displayVars, streamVars, layoutVars
<1> QED
    BY <1>1, <1>2, <1>3, <1>4, <1>5, <1>6, <1>7, <1>8, <1>9, <1>10, <1>11, <1>12, <1>13, <1>14,
       <1>15, <1>16, <1>17 DEF Next, Task, Branches, Events, Environment

\* In one connection every bitmap has the size of the desktop the client
\* draws on, whatever layouts come at whatever moment, from the client, from
\* detached tasks or from client_accepted itself.
THEOREM FramesFitAlways == ASSUME MaxConns = 1 PROVE Spec => []FramesFit
<1>1. FitInv => FramesFit
      BY DEF FitInv
<1>2. TypeInv /\ FitInv /\ [Next]_vars => FitInv'
      BY FitNext
<1> QED
    BY TypeInit, TypeNext, FitInit, <1>1, <1>2, PTL DEF Spec
==============================================================================
