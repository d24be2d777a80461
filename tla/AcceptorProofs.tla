---------------------------- MODULE AcceptorProofs ----------------------------
(***************************************************************************)
(* What holds of Acceptor for every set of channel ids, every choice of    *)
(* securities, everything an active client may send, and any number of     *)
(* reactivations and of PDUs in flight.                                    *)
(***************************************************************************)
EXTENDS Acceptor, TLAPS

ClientType ==
    [requests : SUBSET {"ssl", "hybrid"}, genuine : BOOLEAN, skipsJoin : BOOLEAN,
     takesLayout : BOOLEAN, sendsKeys : BOOLEAN, active : BOOLEAN, toJoin : SUBSET Ids]

PduType == [kind : ClientPdus, id : Ids \cup {NoId}]

\* How often the channels were started, where the handshake is.
StartedOnce ==
    /\ phase = "accepting" =>
          /\ owner = "acceptor"
          /\ started = IF reactivation THEN 1 ELSE 0
          /\ state # "Consumed"
    /\ phase = "loop" => owner = "server" /\ started = 1 /\ state = "Consumed"
    /\ phase = "failed" => started \in {0, 1}

TypeInv == TypeOK /\ StartedOnce

\* What the client says is typed.
LEMMA PduTyped ==
    /\ \A kind \in ClientPdus : Pdu(kind) \in PduType
    /\ \A i \in Ids : Join(i) \in PduType
BY DEF Pdu, Join, PduType, ClientPdus, ShareControl, NoId

\* The states that send and those that wait for one kind of PDU.
LEMMA Domains ==
    /\ DOMAIN Sending =
          {"InitiationSendConfirm", "BasicSettingsSendResponse", "SendAttachUserConfirm",
           "SendChannelJoinConfirm", "LicensingExchange", "CapabilitiesSendServer",
           "MonitorLayoutSend", "SendSynchronizeConfirm", "SendControlCooperateConfirm",
           "SendGrantedControlConfirm", "SendFontMap"}
    /\ DOMAIN Expecting =
          {"InitiationWaitRequest", "BasicSettingsWaitInitial", "WaitErectDomainRequest",
           "WaitAttachUserRequest"}
BY DEF Sending, Expecting

\* Sending leads from state to state.
LEMMA SendingTyped ==
    ASSUME NEW s \in DOMAIN Sending
    PROVE  /\ Sending[s] \in ServerPdus
           /\ AfterSending(s) \in States \ {"Consumed"}
<1>1. Sending[s] \in ServerPdus
      BY DEF ServerPdus
<1>2. AfterSending(s) \in
          {"SecurityUpgrade", "WaitErectDomainRequest", "RdpSecurityCommencement",
           "WaitChannelJoinRequest", "CapabilitiesSendServer", "MonitorLayoutSend",
           "CapabilitiesWaitConfirm", "SendControlCooperateConfirm",
           "SendGrantedControlConfirm", "SendFontMap", "Accepted"}
      BY Domains DEF AfterSending
<1>3. QED
      BY <1>1, <1>2, Domains DEF States, Waiting

\* So does reading.
LEMMA ExpectingTyped ==
    ASSUME NEW s \in DOMAIN Expecting
    PROVE  Expecting[s].next \in States \ {"Consumed"}
<1>1. Expecting[s].next \in
          {"InitiationSendConfirm", "BasicSettingsSendResponse", "WaitAttachUserRequest",
           "SendAttachUserConfirm"}
      BY DEF Expecting
<1> QED BY <1>1, Domains DEF States, Waiting

\* What is left to read is typed.
LEMMA ReadKeepsType == ASSUME TypeOK, NEW s, Reads(s) PROVE toServer' \in Seq(PduType)
<1>1. toServer \in Seq(PduType) /\ toServer # <<>>
      BY DEF TypeOK, Reads, PduType
<1> QED BY <1>1 DEF Reads

\* What holds in the beginning.
LEMMA TypeInit == Init => TypeInv
<1> SUFFICES ASSUME Init PROVE TypeInv
    OBVIOUS
<1> USE AcceptorAssumption DEF Init
<1>1. toServer \in Seq(PduType)
  <2>1. Pdu("ConnectionRequest") \in PduType
        BY PduTyped DEF ClientPdus
  <2> QED BY <2>1
<1>2. toClient \in Seq(ServerPdus)
      OBVIOUS
<1>3. client \in ClientType
      BY DEF ClientType
<1>4. state \in States
      BY DEF States, Waiting, Expecting
<1>5. /\ phase \in {"accepting", "loop", "failed"}
      /\ security \in AllSecurities
      /\ protocol \in {"none", "ssl", "hybrid"}
      /\ remaining \subseteq Ids
      /\ saved \in BOOLEAN /\ reactivation \in BOOLEAN
      /\ owner \in {"acceptor", "server", "nobody"}
      OBVIOUS
<1>6. started \in 0 .. 1 + MaxReactivations /\ reactivated \in 0 .. MaxReactivations
      OBVIOUS
<1> HIDE DEF Init
<1>7. TypeOK
      BY <1>1, <1>2, <1>3, <1>4, <1>5, <1>6 DEF TypeOK, PduType, ClientType
<1>8. StartedOnce
      BY DEF StartedOnce, Init
<1> QED BY <1>7, <1>8 DEF TypeInv

\* The steps that read a PDU and change nothing but where the handshake is.
LEMMA ReadPreserves ==
    ASSUME TypeInv, NEW s \in States, Reads(s),
           \/ phase' = "failed" /\ state' = state
           \/ phase' = phase /\ state' \in States \ {"Consumed"},
           remaining' \subseteq Ids,
           UNCHANGED <<configVars, resultVars, client, toClient>>
    PROVE  TypeInv'
<1> USE DEF TypeInv, configVars, resultVars
<1>1. toServer' \in Seq(PduType)
      BY ReadKeepsType
<1>2. TypeOK'
      BY <1>1 DEF TypeOK, PduType
<1>3. StartedOnce'
      BY DEF StartedOnce, Reads
<1> QED BY <1>2, <1>3

\* The acceptor's steps.
LEMMA AcceptPreserves == TypeInv /\ Accept => TypeInv'
<1> SUFFICES ASSUME TypeInv, Accept PROVE TypeInv'
    OBVIOUS
<1>0. TypeOK /\ StartedOnce
      BY DEF TypeInv
<1> USE DEF configVars, resultVars, Goto, Fail
<1>1. CASE FastPathLost
  <2>1. toServer' \in Seq(PduType)
    <3>1. toServer \in Seq(PduType) /\ toServer # <<>>
          BY <1>0, <1>1 DEF TypeOK, PduType, FastPathLost
    <3> QED BY <3>1, <1>1 DEF FastPathLost
  <2> QED BY <2>1, <1>0, <1>1 DEF FastPathLost, TypeInv, TypeOK, StartedOnce, PduType
<1>2. CASE ReadExpected
  <2>1. PICK s \in DOMAIN Expecting :
            /\ Reads(s)
            /\ IF Got(Expecting[s].pdu) THEN Goto(Expecting[s].next) ELSE Fail
        BY <1>2 DEF ReadExpected
  <2>2. s \in States /\ Expecting[s].next \in States \ {"Consumed"}
        BY ExpectingTyped DEF States, Waiting
  <2>3. UNCHANGED <<configVars, remaining, resultVars, client, toClient>>
        BY <1>2 DEF ReadExpected
  <2>4. remaining' \subseteq Ids
        BY <2>3, <1>0 DEF TypeOK
  <2> QED BY <2>1, <2>2, <2>3, <2>4, ReadPreserves
<1>3. CASE JoinRequest
  <2>1. Reads("WaitChannelJoinRequest") /\ remaining' \subseteq Ids
        BY <1>3, <1>0 DEF JoinRequest, TypeOK
  <2>2. "WaitChannelJoinRequest" \in States /\ "SendChannelJoinConfirm" \in States
        BY Domains DEF States, Waiting
  <2> QED BY <1>3, <2>1, <2>2, ReadPreserves DEF JoinRequest
<1>4. CASE SecureSettings
  <2>1. "SecureSettingsExchange" \in States /\ "LicensingExchange" \in States
        BY Domains DEF States, Waiting
  <2>2. Reads("SecureSettingsExchange") /\ remaining' \subseteq Ids
        BY <1>4, <1>0 DEF SecureSettings, TypeOK
  <2> QED BY <1>4, <2>1, <2>2, ReadPreserves DEF SecureSettings
<1>5. CASE CapabilitiesConfirm
  <2>1. "CapabilitiesWaitConfirm" \in States /\ "WaitSynchronize" \in States
        BY DEF States, Waiting
  <2>2. Reads("CapabilitiesWaitConfirm") /\ remaining' \subseteq Ids
        BY <1>5, <1>0 DEF CapabilitiesConfirm, TypeOK
  <2>3. \/ phase' = "failed" /\ state' = state
        \/ phase' = phase /\ state' \in {"WaitSynchronize", "CapabilitiesWaitConfirm"}
        BY <1>5, <2>2 DEF CapabilitiesConfirm, Reads
  <2> QED BY <1>5, <2>1, <2>2, <2>3, ReadPreserves DEF CapabilitiesConfirm
<1>6. CASE Finalize
  <2>1. {"WaitSynchronize", "WaitControlCooperate", "WaitRequestControl", "WaitFontList"}
            \subseteq States
        BY DEF States, Waiting
  <2>2. remaining' \subseteq Ids
        BY <1>6, <1>0 DEF Finalize, TypeOK
  <2>3. PICK s \in {"WaitSynchronize", "WaitControlCooperate", "WaitRequestControl"} :
            /\ Reads(s)
            /\ \/ phase' = "failed" /\ state' = state
               \/ phase' = phase
                  /\ state' \in {"WaitControlCooperate", "WaitRequestControl", "WaitFontList"}
        BY <1>6 DEF Finalize
  <2> QED BY <1>6, <2>1, <2>2, <2>3, ReadPreserves DEF Finalize
<1>7. CASE WaitFontList
  <2>1. "WaitFontList" \in States /\ "SendSynchronizeConfirm" \in States
        BY Domains DEF States, Waiting
  <2>2. Reads("WaitFontList") /\ remaining' \subseteq Ids
        BY <1>7, <1>0 DEF WaitFontList, TypeOK
  <2> QED BY <1>7, <2>1, <2>2, ReadPreserves DEF WaitFontList
<1>8. CASE SendReply
  <2>1. /\ Sending[state] \in ServerPdus
        /\ AfterSending(state) \in States \ {"Consumed"}
        BY <1>8, SendingTyped DEF SendReply
  <2>2. \/ phase' = "failed" /\ state' = state /\ toClient' = toClient
        \/ phase' = phase /\ state' = AfterSending(state)
           /\ toClient' = Append(toClient, Sending[state])
        BY <1>8 DEF SendReply
  <2>7. toClient' \in Seq(ServerPdus)
        BY <1>0, <2>1, <2>2 DEF TypeOK
  <2>3. protocol' \in {"none", "ssl", "hybrid"}
        BY <1>8, <1>0 DEF SendReply, TypeOK, Negotiated
  <2>4. remaining' \subseteq Ids /\ saved' \in BOOLEAN
        BY <1>8, <1>0 DEF SendReply, TypeOK
  <2>5. TypeOK'
        BY <1>8, <1>0, <2>1, <2>2, <2>3, <2>4, <2>7 DEF SendReply, TypeOK
  <2>6. StartedOnce'
        BY <1>8, <1>0, <2>1, <2>2 DEF SendReply, StartedOnce
  <2> QED BY <2>5, <2>6 DEF TypeInv
<1>9. CASE SecurityUpgrade
  <2>1. "Credssp" \in States /\ "BasicSettingsWaitInitial" \in States
        BY Domains DEF States, Waiting
  <2> QED BY <1>9, <1>0, <2>1 DEF SecurityUpgrade, TypeInv, TypeOK, StartedOnce
<1>10. CASE PerformCredssp
  <2>1. "BasicSettingsWaitInitial" \in States
        BY Domains DEF States, Waiting
  <2> QED BY <1>10, <1>0, <2>1 DEF PerformCredssp, TypeInv, TypeOK, StartedOnce
<1>11. CASE SecurityCommences
  <2>1. "SecureSettingsExchange" \in States
        BY DEF States, Waiting
  <2> QED BY <1>11, <1>0, <2>1 DEF SecurityCommences, TypeInv, TypeOK, StartedOnce
<1>12. CASE ClientAccepted
  <2>1. "Consumed" \in States
        BY DEF States
  <2>2. started' = 1
        BY <1>12, <1>0 DEF ClientAccepted, StartedOnce
  <2>3. TypeOK'
        BY <1>12, <1>0, <2>1, <2>2, AcceptorAssumption DEF ClientAccepted, TypeOK
  <2> QED BY <1>12, <2>2, <2>3 DEF ClientAccepted, TypeInv, StartedOnce
<1> QED BY <1>1, <1>2, <1>3, <1>4, <1>5, <1>6, <1>7, <1>8, <1>9, <1>10, <1>11, <1>12
        DEF Accept

\* The steps of client_loop.
LEMMA LoopPreserves == TypeInv /\ (Reactivate \/ LoopReads) => TypeInv'
<1> SUFFICES ASSUME TypeInv, Reactivate \/ LoopReads PROVE TypeInv'
    OBVIOUS
<1>0. TypeOK /\ StartedOnce
      BY DEF TypeInv
<1> USE DEF configVars, resultVars, Fail
<1>1. CASE Reactivate
  <2>1. toClient' \in Seq(ServerPdus)
    <3>1. "DeactivateAll" \in ServerPdus
          BY DEF ServerPdus
    <3> QED BY <3>1, <1>0, <1>1 DEF Reactivate, TypeOK
  <2>2. state' \in States /\ phase' \in {"accepting", "failed"}
    <3>1. "CapabilitiesSendServer" \in States
          BY Domains DEF States
    <3> QED BY <3>1, <1>0, <1>1 DEF Reactivate, TypeOK
  <2>3. reactivated' \in 0 .. MaxReactivations
        BY <1>0, <1>1, AcceptorAssumption DEF Reactivate, TypeOK
  <2>4. TypeOK'
        BY <1>0, <1>1, <2>1, <2>2, <2>3 DEF Reactivate, TypeOK
  <2>5. StartedOnce'
        BY <1>0, <1>1 DEF Reactivate, StartedOnce
  <2> QED BY <2>4, <2>5 DEF TypeInv
<1>2. CASE LoopReads
  <2>1. toServer' \in Seq(PduType)
    <3>1. toServer \in Seq(PduType) /\ toServer # <<>>
          BY <1>0, <1>2 DEF TypeOK, PduType, LoopReads
    <3> QED BY <3>1, <1>2 DEF LoopReads
  <2> QED BY <2>1, <1>0, <1>2 DEF LoopReads, TypeInv, TypeOK, StartedOnce, PduType
<1> QED BY <1>1, <1>2

\* What the client answers is typed.
LEMMA SaysTyped ==
    ASSUME toServer \in Seq(PduType), NEW answer \in Seq(PduType), NEW c \in ClientType,
           c.genuine = client.genuine, Says(answer, c)
    PROVE  /\ toServer' \in Seq(PduType)
           /\ client' \in ClientType
           /\ client'.genuine = client.genuine
BY DEF Says

\* What a client does: it may answer, and who it is does not change.
LEMMA ClientSteps ==
    ASSUME TypeOK, ClientAnswers \/ ClientSends
    PROVE  /\ client' \in ClientType
           /\ client'.genuine = client.genuine
           /\ toServer' \in Seq(PduType)
           /\ toClient' \in Seq(ServerPdus)
           /\ UNCHANGED <<phase, state, configVars, remaining, resultVars>>
<1>0. /\ client \in ClientType
      /\ toServer \in Seq(PduType)
      /\ toClient \in Seq(ServerPdus)
      BY DEF TypeOK, ClientType, PduType
<1>1. CASE ClientAnswers
  <2>1. toClient' \in Seq(ServerPdus)
        BY <1>0, <1>1 DEF ClientAnswers
  <2> DEFINE Typed == /\ toServer' \in Seq(PduType)
                      /\ client' \in ClientType
                      /\ client'.genuine = client.genuine
             pdu == Head(toClient)
  <2>2. <<>> \in Seq(PduType) /\ \A p \in PduType : <<p>> \in Seq(PduType)
        OBVIOUS
  <2>3. ASSUME pdu = "ConnectionConfirm" /\ Says(<<Pdu("ConnectInitial")>>, client)
        PROVE  Typed
    <3>1. Pdu("ConnectInitial") \in PduType
          BY PduTyped DEF ClientPdus
    <3> QED BY <2>2, <2>3, <3>1, <1>0, SaysTyped
  <2>4. ASSUME Says(<<Pdu("ErectDomain"), Pdu("AttachUser")>>, client)
        PROVE  Typed
    <3>1. Pdu("ErectDomain") \in PduType /\ Pdu("AttachUser") \in PduType
          BY PduTyped DEF ClientPdus
    <3>2. <<Pdu("ErectDomain"), Pdu("AttachUser")>> \in Seq(PduType)
          BY <3>1
    <3> QED BY <2>4, <3>2, <1>0, SaysTyped
  <2>5. ASSUME Says(<<Pdu("ClientInfo")>>, client)
        PROVE  Typed
    <3>1. Pdu("ClientInfo") \in PduType
          BY PduTyped DEF ClientPdus
    <3> QED BY <2>2, <2>5, <3>1, <1>0, SaysTyped
  <2>6. ASSUME NEW i \in client.toJoin,
               Says(<<Join(i)>>, [client EXCEPT !.toJoin = @ \ {i}])
        PROVE  Typed
    <3>1. <<Join(i)>> \in Seq(PduType)
          BY <1>0, <2>2, PduTyped DEF ClientType
    <3>2. /\ [client EXCEPT !.toJoin = @ \ {i}] \in ClientType
          /\ [client EXCEPT !.toJoin = @ \ {i}].genuine = client.genuine
          BY <1>0 DEF ClientType
    <3> QED BY <2>6, <3>1, <3>2, <1>0, SaysTyped
  <2>7. ASSUME Says(<<Pdu("ConfirmActive"), Pdu("Synchronize"), Pdu("Cooperate"),
                      Pdu("RequestControl")>>
                    \o (IF client.sendsKeys THEN <<Pdu("KeyList")>> ELSE <<>>)
                    \o <<Pdu("FontList")>>, client)
        PROVE  Typed
    <3> DEFINE first == <<Pdu("ConfirmActive"), Pdu("Synchronize"), Pdu("Cooperate"),
                          Pdu("RequestControl")>>
               keys == IF client.sendsKeys THEN <<Pdu("KeyList")>> ELSE <<>>
               last == <<Pdu("FontList")>>
    <3>1. /\ Pdu("ConfirmActive") \in PduType
          /\ Pdu("Synchronize") \in PduType
          /\ Pdu("Cooperate") \in PduType
          /\ Pdu("RequestControl") \in PduType
          /\ Pdu("KeyList") \in PduType
          /\ Pdu("FontList") \in PduType
          BY PduTyped DEF ClientPdus, ShareControl
    <3>2. first \in Seq(PduType) /\ keys \in Seq(PduType) /\ last \in Seq(PduType)
          BY <3>1
    <3>3. first \o keys \o last \in Seq(PduType)
      <4> HIDE DEF first, keys, last
      <4> QED BY <3>2
    <3> QED BY <2>7, <3>3, <1>0, SaysTyped
  <2>8. ASSUME Says(<<>>, [client EXCEPT !.active = TRUE])
               \/ Says(<<>>, [client EXCEPT !.active = FALSE])
               \/ Says(<<>>, client)
        PROVE  Typed
    <3>1. /\ [client EXCEPT !.active = TRUE] \in ClientType
          /\ [client EXCEPT !.active = TRUE].genuine = client.genuine
          /\ [client EXCEPT !.active = FALSE] \in ClientType
          /\ [client EXCEPT !.active = FALSE].genuine = client.genuine
          BY <1>0 DEF ClientType
    <3> QED BY <2>2, <2>8, <3>1, <1>0, SaysTyped
  <2>9. Typed
    <3> HIDE DEF Typed
    <3> QED BY <1>1, <2>3, <2>4, <2>5, <2>6, <2>7, <2>8 DEF ClientAnswers
  <2> QED BY <1>1, <2>1, <2>9 DEF ClientAnswers
<1>2. CASE ClientSends
  <2>1. \A kind \in Stray : Pdu(kind) \in PduType
        BY PduTyped, AcceptorAssumption DEF AllStray, ClientPdus, ShareControl
  <2> QED BY <1>0, <1>2, <2>1 DEF ClientSends
<1> QED BY <1>1, <1>2

\* Every step.
LEMMA TypeNext == TypeInv /\ [Next]_vars => TypeInv'
<1> SUFFICES ASSUME TypeInv, [Next]_vars PROVE TypeInv'
    OBVIOUS
<1>1. CASE Accept
      BY <1>1, AcceptPreserves
<1>2. CASE Reactivate \/ LoopReads
      BY <1>2, LoopPreserves
<1>3. CASE ClientAnswers \/ ClientSends
  <2>1. /\ client' \in ClientType
        /\ toServer' \in Seq(PduType)
        /\ toClient' \in Seq(ServerPdus)
        /\ UNCHANGED <<phase, state, configVars, remaining, resultVars>>
        BY <1>3, ClientSteps DEF TypeInv
  <2>2. TypeOK'
        BY <2>1 DEF TypeInv, TypeOK, ClientType, PduType, configVars, resultVars
  <2>3. StartedOnce'
        BY <2>1 DEF TypeInv, StartedOnce, resultVars
  <2> QED BY <2>2, <2>3 DEF TypeInv
<1>4. CASE UNCHANGED vars
      BY <1>4 DEF vars, configVars, resultVars, TypeInv, TypeOK, StartedOnce
<1> QED BY <1>1, <1>2, <1>3, <1>4 DEF Next

\* The types, and where the channels are and how often they were started
\* (server.rs: client_accepted), for any number of reactivations.
THEOREM TypeInvAlways == Spec => []TypeInv
BY TypeInit, TypeNext, PTL DEF Spec

\* TypeOK of every reachable state, whatever the bounds.
THEOREM TypeCorrect == Spec => []TypeOK
<1>1. TypeInv => TypeOK
      BY DEF TypeInv
<1> QED BY <1>1, TypeInvAlways, PTL

\* client_loop always runs with the static channels, started exactly once
\* (client_accepted and accept_finalize, server.rs:912-934 and 1230-1242).
THEOREM ChannelsServedAlways == Spec => []ChannelsServed
<1>1. TypeInv => ChannelsServed
      BY DEF TypeInv, StartedOnce, ChannelsServed
<1> QED BY <1>1, TypeInvAlways, PTL

-----------------------------------------------------------------------------
(* Admitted is not inductive: that a client served over CredSSP is genuine  *)
(* was found out long before, and a reactivation comes back past licensing  *)
(* because of what was saved there.                                         *)

BeforeNegotiation == {"InitiationWaitRequest", "InitiationSendConfirm"}

SecurityMet == security = "none" \/ protocol # "none"

AdmitInv ==
    /\ phase # "failed" /\ state \notin BeforeNegotiation => SecurityMet
    /\ phase # "failed" /\ protocol = "hybrid"
         /\ state \notin BeforeNegotiation \cup {"SecurityUpgrade", "Credssp"} =>
             client.genuine
    /\ phase # "failed" /\ state \notin Unlicensed => client.genuine
    /\ saved => client.genuine /\ SecurityMet

\* The states before licensing, one by one.
LEMMA UnlicensedStates ==
    Unlicensed = {"InitiationWaitRequest", "BasicSettingsWaitInitial", "WaitErectDomainRequest",
                  "WaitAttachUserRequest", "InitiationSendConfirm", "SecurityUpgrade", "Credssp",
                  "BasicSettingsSendResponse", "SendAttachUserConfirm",
                  "WaitChannelJoinRequest", "SendChannelJoinConfirm",
                  "RdpSecurityCommencement", "SecureSettingsExchange"}
BY Domains DEF Unlicensed

\* Nobody has been admitted in the beginning.
LEMMA AdmitInit == Init => AdmitInv
BY UnlicensedStates DEF Init, AdmitInv, BeforeNegotiation

\* Who the client is and what was negotiated do not change; the handshake
\* stays on the side of negotiation and of licensing where it is, or crosses
\* them with what that takes.
LEMMA AdmitMoves ==
    ASSUME AdmitInv, UNCHANGED <<configVars, saved>>, client'.genuine = client.genuine,
           phase' = "failed" \/ phase # "failed",
           phase' # "failed" /\ state' \notin BeforeNegotiation => state \notin BeforeNegotiation,
           phase' # "failed" /\ state' \notin {"SecurityUpgrade", "Credssp"} =>
               state \notin {"SecurityUpgrade", "Credssp"} \/ protocol # "hybrid"
                   \/ client.genuine,
           phase' # "failed" /\ state' \notin Unlicensed =>
               state \notin Unlicensed \/ client.genuine
    PROVE  AdmitInv'
BY DEF AdmitInv, SecurityMet, configVars

\* The acceptor's steps.
LEMMA AdmitAccept == TypeInv /\ AdmitInv /\ Accept => AdmitInv'
<1> SUFFICES ASSUME TypeInv, AdmitInv, Accept PROVE AdmitInv'
    OBVIOUS
<1>0. saved \in BOOLEAN
      BY DEF TypeInv, TypeOK
<1> USE UnlicensedStates DEF configVars, resultVars, Goto, Fail, BeforeNegotiation
<1>1. CASE FastPathLost
      BY <1>1, AdmitMoves DEF FastPathLost
<1>2. CASE ReadExpected
  <2>0. PICK s \in DOMAIN Expecting :
            /\ Reads(s)
            /\ IF Got(Expecting[s].pdu) THEN Goto(Expecting[s].next) ELSE Fail
        BY <1>2 DEF ReadExpected
  <2>1. /\ phase = "accepting" /\ state = s
        /\ phase' = "failed" \/ (phase' = phase /\ state' = Expecting[s].next)
        BY <2>0 DEF Reads
  <2>2. IF s = "InitiationWaitRequest"
        THEN Expecting[s].next = "InitiationSendConfirm"
        ELSE /\ s \notin {"InitiationSendConfirm", "SecurityUpgrade", "Credssp"}
             /\ Expecting[s].next \in {"BasicSettingsSendResponse", "WaitAttachUserRequest",
                                       "SendAttachUserConfirm"}
        BY DEF Expecting
  <2> QED BY <1>2, <2>1, <2>2, AdmitMoves DEF ReadExpected
<1>3. CASE JoinRequest
      BY <1>3, AdmitMoves DEF JoinRequest, Reads
<1>4. CASE SecureSettings
      BY <1>4, AdmitMoves DEF SecureSettings, Reads, AdmitInv
<1>5. CASE CapabilitiesConfirm
  <2>1. state = "CapabilitiesWaitConfirm" /\ phase = "accepting"
        BY <1>5 DEF CapabilitiesConfirm, Reads
  <2>2. phase' = "failed" \/ (phase' = phase /\ state' \in {"WaitSynchronize", state})
        BY <1>5 DEF CapabilitiesConfirm
  <2> QED BY <1>5, <2>1, <2>2, AdmitMoves DEF CapabilitiesConfirm
<1>6. CASE Finalize
      BY <1>6, AdmitMoves DEF Finalize, Reads
<1>7. CASE WaitFontList
      BY <1>7, AdmitMoves DEF WaitFontList, Reads
<1>8. CASE SendReply
  <2>1. CASE state = "InitiationSendConfirm"
    <3>1. \/ phase' = "failed"
          \/ /\ Negotiates
             /\ protocol' = Negotiated(client.requests)
             /\ state' = "SecurityUpgrade"
      <4>1. \/ phase' = "failed"
            \/ /\ Negotiates
               /\ protocol' = Negotiated(client.requests)
               /\ state' = AfterSending(state)
            BY <1>8, <2>1 DEF SendReply
      <4>2. AfterSending("InitiationSendConfirm") = "SecurityUpgrade"
            BY DEF AfterSending
      <4> QED BY <4>1, <4>2, <2>1
    <3>2. phase' # "failed" => SecurityMet'
          BY <1>8, <3>1 DEF SendReply, Negotiates, SecurityMet
    <3>3. saved' = saved /\ UNCHANGED <<security, client>>
          BY <1>0, <1>8, <2>1 DEF SendReply
    <3>4. phase' = "failed" => protocol' = protocol
          BY <1>8, <2>1 DEF SendReply
    <3> QED BY <3>1, <3>2, <3>3, <3>4 DEF AdmitInv, SecurityMet
  <2>2. CASE state # "InitiationSendConfirm"
    <3>1. /\ phase = "accepting" /\ phase' = phase /\ state' = AfterSending(state)
          /\ UNCHANGED <<security, protocol, client>>
          /\ saved' = (saved \/ state = "LicensingExchange")
          BY <1>8, <2>2 DEF SendReply
    <3>2. /\ state \notin {"InitiationWaitRequest", "SecurityUpgrade", "Credssp"}
          /\ state \in Unlicensed =>
                state' \in {"WaitErectDomainRequest", "RdpSecurityCommencement",
                           "WaitChannelJoinRequest"}
          /\ state \notin Unlicensed => state' \notin Unlicensed
          BY <1>8, <2>2, <3>1, Domains DEF SendReply, AfterSending
    <3>3. saved' => client.genuine /\ SecurityMet
          BY <3>1 DEF AdmitInv
    <3> QED BY <2>2, <3>1, <3>2, <3>3 DEF AdmitInv, SecurityMet
  <2> QED BY <2>1, <2>2
<1>9. CASE SecurityUpgrade
      BY <1>9, AdmitMoves DEF SecurityUpgrade
<1>10. CASE PerformCredssp
      BY <1>10, AdmitMoves DEF PerformCredssp
<1>11. CASE SecurityCommences
      BY <1>11, AdmitMoves DEF SecurityCommences
<1>12. CASE ClientAccepted
      BY <1>12, AdmitMoves DEF ClientAccepted
<1> QED BY <1>1, <1>2, <1>3, <1>4, <1>5, <1>6, <1>7, <1>8, <1>9, <1>10, <1>11, <1>12
        DEF Accept

\* Every step.
LEMMA AdmitNext == TypeInv /\ AdmitInv /\ [Next]_vars => AdmitInv'
<1> SUFFICES ASSUME TypeInv, AdmitInv, [Next]_vars PROVE AdmitInv'
    OBVIOUS
<1>1. CASE Accept
      BY <1>1, AdmitAccept
<1>2. CASE Reactivate
  <2>1. /\ UNCHANGED <<security, protocol, saved, client>>
        /\ phase' = "failed" \/ (saved /\ state' = "CapabilitiesSendServer")
        BY <1>2 DEF Reactivate, Fail, configVars
  <2>2. phase' # "failed" => client.genuine /\ SecurityMet
        BY <2>1 DEF AdmitInv
  <2> QED BY <2>1, <2>2 DEF AdmitInv, SecurityMet, configVars
<1>3. CASE LoopReads
      BY <1>3, AdmitMoves DEF LoopReads, resultVars
<1>4. CASE ClientAnswers \/ ClientSends
  <2>1. /\ client'.genuine = client.genuine
        /\ UNCHANGED <<phase, state, configVars, saved>>
        BY <1>4, ClientSteps DEF TypeInv, resultVars
  <2> QED BY <2>1, AdmitMoves
<1>5. CASE UNCHANGED vars
      BY <1>5, AdmitMoves DEF vars, resultVars
<1> QED BY <1>1, <1>2, <1>3, <1>4, <1>5 DEF Next

\* Nobody is past licensing, the first time or in any reactivation, without a
\* password and the security asked for (connection.rs:327-341 and 541-571).
THEOREM AdmittedAlways == Spec => []Admitted
<1>1. AdmitInv => Admitted
  <2>1. \A s \in BeforeNegotiation : s \in Unlicensed
        BY UnlicensedStates DEF BeforeNegotiation
  <2> QED BY <2>1 DEF AdmitInv, Admitted, SecurityMet
<1>2. Spec => []AdmitInv
      BY AdmitInit, AdmitNext, TypeInvAlways, PTL DEF Spec
<1> QED BY <1>1, <1>2, PTL

-----------------------------------------------------------------------------
(* SidesAgree is not inductive: it takes the order of what the client is   *)
(* still to hear.                                                          *)

\* A client, active or not, that hears all of q in the end is active ...
EndsActive(active, q) ==
    \/ \E k \in 1 .. Len(q) :
          q[k] = "FontMap" /\ \A j \in k + 1 .. Len(q) : q[j] # "DeactivateAll"
    \/ active /\ \A j \in 1 .. Len(q) : q[j] # "DeactivateAll"

\* ... or is not, and every Font Map it hears is taken back.
EndsInactive(active, q) ==
    /\ active => \E j \in 1 .. Len(q) : q[j] = "DeactivateAll"
    /\ \A k \in 1 .. Len(q) :
          q[k] = "FontMap" => \E j \in k + 1 .. Len(q) : q[j] = "DeactivateAll"

AgreeInv ==
    /\ phase = "loop" \/ (phase = "accepting" /\ state = "Accepted") =>
          EndsActive(client.active, toClient)
    /\ phase = "accepting" /\ state # "Accepted" => EndsInactive(client.active, toClient)

\* The server says one more thing.
LEMMA OneMore ==
    ASSUME NEW q \in Seq(ServerPdus), NEW pdu \in ServerPdus, NEW active
    PROVE  /\ pdu = "FontMap" => EndsActive(active, Append(q, pdu))
           /\ pdu = "DeactivateAll" => EndsInactive(active, Append(q, pdu))
           /\ pdu \notin {"FontMap", "DeactivateAll"} /\ EndsInactive(active, q) =>
                 EndsInactive(active, Append(q, pdu))
<1> DEFINE r == Append(q, pdu)
           n == Len(q)
<1>1. /\ n \in Nat /\ Len(r) = n + 1 /\ r[n + 1] = pdu
      /\ \A k \in 1 .. n : r[k] = q[k]
      OBVIOUS
<1> HIDE DEF r, n
<1>2. ASSUME pdu = "FontMap" PROVE EndsActive(active, r)
      BY <1>1, <1>2 DEF EndsActive
<1>3. ASSUME pdu = "DeactivateAll" PROVE EndsInactive(active, r)
  <2>1. n + 1 \in 1 .. Len(r) /\ r[n + 1] = "DeactivateAll"
        BY <1>1, <1>3
  <2>2. \A k \in 1 .. Len(r) : r[k] = "FontMap" => n + 1 \in k + 1 .. Len(r)
        BY <1>1, <1>3
  <2> QED BY <2>1, <2>2 DEF EndsInactive
<1>4. ASSUME pdu \notin {"FontMap", "DeactivateAll"}, EndsInactive(active, q)
      PROVE  EndsInactive(active, r)
  <2>1. active => \E j \in 1 .. n : q[j] = "DeactivateAll"
        BY <1>4 DEF EndsInactive, n
  <2>2. \A k \in 1 .. n : q[k] = "FontMap" => \E j \in k + 1 .. n : q[j] = "DeactivateAll"
        BY <1>4 DEF EndsInactive, n
  <2>3. ASSUME NEW k \in 1 .. Len(r), r[k] = "FontMap"
        PROVE  \E j \in k + 1 .. Len(r) : r[j] = "DeactivateAll"
    <3>1. k \in 1 .. n /\ q[k] = "FontMap"
          BY <1>1, <1>4, <2>3
    <3>2. PICK j \in k + 1 .. n : q[j] = "DeactivateAll"
          BY <2>2, <3>1
    <3> QED BY <1>1, <3>1, <3>2
  <2>4. active => \E j \in 1 .. Len(r) : r[j] = "DeactivateAll"
        BY <1>1, <2>1
  <2> QED BY <2>3, <2>4 DEF EndsInactive
<1> QED BY <1>2, <1>3, <1>4 DEF r

\* The client hears the first of what it is still to hear.
LEMMA OneLess ==
    ASSUME NEW q \in Seq(ServerPdus), q # <<>>, NEW before, NEW after,
           Head(q) = "FontMap" => after,
           Head(q) = "DeactivateAll" => ~after,
           Head(q) \notin {"FontMap", "DeactivateAll"} => (after <=> before)
    PROVE  /\ EndsActive(before, q) => EndsActive(after, Tail(q))
           /\ EndsInactive(before, q) => EndsInactive(after, Tail(q))
<1> DEFINE r == Tail(q)
           n == Len(q)
<1>1. /\ n \in Nat \ {0} /\ Len(r) = n - 1 /\ Head(q) = q[1]
      /\ \A k \in 1 .. n - 1 : r[k] = q[k + 1]
      OBVIOUS
<1> HIDE DEF r, n
<1>2. ASSUME EndsActive(before, q) PROVE EndsActive(after, r)
  <2>1. \/ \E k \in 1 .. n :
              q[k] = "FontMap" /\ \A j \in k + 1 .. n : q[j] # "DeactivateAll"
        \/ before /\ \A j \in 1 .. n : q[j] # "DeactivateAll"
        BY <1>2 DEF EndsActive, n
  <2>2. ASSUME after, \A j \in 2 .. n : q[j] # "DeactivateAll" PROVE EndsActive(after, r)
    <3>1. \A j \in 1 .. Len(r) : r[j] # "DeactivateAll"
          BY <1>1, <2>2
    <3> QED BY <2>2, <3>1 DEF EndsActive
  <2>3. ASSUME NEW k \in 2 .. n, q[k] = "FontMap",
               \A j \in k + 1 .. n : q[j] # "DeactivateAll"
        PROVE  EndsActive(after, r)
    <3>1. k - 1 \in 1 .. Len(r) /\ r[k - 1] = "FontMap"
          BY <1>1, <2>3
    <3>2. \A j \in (k - 1) + 1 .. Len(r) : r[j] # "DeactivateAll"
          BY <1>1, <2>3
    <3> QED BY <3>1, <3>2 DEF EndsActive
  <2>4. ASSUME NEW k \in 1 .. n, q[k] = "FontMap",
               \A j \in k + 1 .. n : q[j] # "DeactivateAll"
        PROVE  EndsActive(after, r)
    <3>1. CASE k = 1
      <4>1. after /\ \A j \in 2 .. n : q[j] # "DeactivateAll"
            BY <1>1, <2>4, <3>1
      <4> QED BY <2>2, <4>1
    <3>2. CASE k # 1
          BY <1>1, <2>3, <2>4, <3>2
    <3> QED BY <3>1, <3>2
  <2>5. ASSUME before, \A j \in 1 .. n : q[j] # "DeactivateAll" PROVE EndsActive(after, r)
    <3>1. Head(q) # "DeactivateAll" /\ \A j \in 2 .. n : q[j] # "DeactivateAll"
          BY <1>1, <2>5
    <3>2. after
          BY <2>5, <3>1
    <3> QED BY <2>2, <3>1, <3>2
  <2> QED BY <2>1, <2>4, <2>5
<1>3. ASSUME EndsInactive(before, q) PROVE EndsInactive(after, r)
  <2>1. /\ before => \E j \in 1 .. n : q[j] = "DeactivateAll"
        /\ \A k \in 1 .. n :
              q[k] = "FontMap" => \E j \in k + 1 .. n : q[j] = "DeactivateAll"
        BY <1>3 DEF EndsInactive, n
  <2>2. ASSUME NEW k \in 1 .. Len(r), r[k] = "FontMap"
        PROVE  \E j \in k + 1 .. Len(r) : r[j] = "DeactivateAll"
    <3>0. k + 1 \in 1 .. n /\ q[k + 1] = "FontMap"
          BY <1>1, <2>2
    <3>1. PICK j \in (k + 1) + 1 .. n : q[j] = "DeactivateAll"
          BY <2>1, <3>0
    <3>2. j - 1 \in k + 1 .. Len(r) /\ r[j - 1] = "DeactivateAll"
          BY <1>1, <3>1
    <3> QED BY <3>2
  <2>3. ASSUME after PROVE \E j \in 1 .. Len(r) : r[j] = "DeactivateAll"
    <3>1. \E j \in 2 .. n : q[j] = "DeactivateAll"
      <4>1. CASE Head(q) = "FontMap"
            BY <1>1, <2>1, <4>1
      <4>2. CASE Head(q) # "FontMap"
        <5>1. Head(q) # "DeactivateAll" /\ before
              BY <2>3, <4>2
        <5>2. PICK j \in 1 .. n : q[j] = "DeactivateAll"
              BY <2>1, <5>1
        <5>3. j # 1
              BY <1>1, <5>1, <5>2
        <5> QED BY <1>1, <5>2, <5>3
      <4> QED BY <4>1, <4>2
    <3>2. PICK j \in 2 .. n : q[j] = "DeactivateAll"
          BY <3>1
    <3>3. j - 1 \in 1 .. Len(r) /\ r[j - 1] = "DeactivateAll"
          BY <1>1, <3>2
    <3> QED BY <3>3
  <2> QED BY <2>2, <2>3 DEF EndsInactive
<1> QED BY <1>2, <1>3 DEF r

\* Steps of the handshake that say nothing and do not end it.
LEMMA QuietSteps ==
    ASSUME AgreeInv, UNCHANGED <<client, toClient>>,
           \/ phase' = "failed"
           \/ phase = "accepting" /\ phase' = phase /\ state # "Accepted" /\ state' # "Accepted"
           \/ phase' = "loop" /\ (phase = "loop" \/ (phase = "accepting" /\ state = "Accepted"))
    PROVE  AgreeInv'
BY DEF AgreeInv

\* The acceptor.
LEMMA AgreeAccept == TypeInv /\ AgreeInv /\ Accept => AgreeInv'
<1> SUFFICES ASSUME TypeInv, AgreeInv, Accept PROVE AgreeInv'
    OBVIOUS
<1> USE DEF Goto, Fail
<1>1. CASE FastPathLost
  <2>1. state # "Accepted"
        BY <1>1, Domains DEF FastPathLost, Waiting
  <2> QED BY <1>1, <2>1, QuietSteps DEF FastPathLost
<1>2. CASE ReadExpected
  <2>1. PICK s \in DOMAIN Expecting :
            Reads(s) /\ IF Got(Expecting[s].pdu) THEN Goto(Expecting[s].next) ELSE Fail
        BY <1>2 DEF ReadExpected
  <2>2. s # "Accepted" /\ Expecting[s].next # "Accepted"
        BY Domains DEF Expecting
  <2> QED BY <1>2, <2>1, <2>2, QuietSteps DEF ReadExpected, Reads
<1>3. CASE JoinRequest \/ SecureSettings
      BY <1>3, QuietSteps DEF JoinRequest, SecureSettings, Reads
<1>4. CASE CapabilitiesConfirm
  <2>1. phase' = "failed" \/ (phase' = phase /\ state' \in {"WaitSynchronize", state})
        BY <1>4 DEF CapabilitiesConfirm
  <2>2. state = "CapabilitiesWaitConfirm" /\ phase = "accepting" /\ UNCHANGED <<client, toClient>>
        BY <1>4 DEF CapabilitiesConfirm, Reads
  <2> QED BY <2>1, <2>2, QuietSteps
<1>5. CASE Finalize \/ WaitFontList
      BY <1>5, QuietSteps DEF Finalize, WaitFontList, Reads
<1>6. CASE SendReply
  <2>1. CASE phase' = "failed"
        BY <2>1 DEF AgreeInv
  <2>2. CASE phase' # "failed"
    <3>1. /\ phase = "accepting" /\ phase' = phase /\ client' = client
          /\ state \in DOMAIN Sending /\ state' = AfterSending(state)
          /\ toClient' = Append(toClient, Sending[state])
          BY <1>6, <2>2 DEF SendReply
    <3>2. toClient \in Seq(ServerPdus) /\ Sending[state] \in ServerPdus
          BY <3>1, SendingTyped DEF TypeInv, TypeOK
    <3>3. state # "Accepted"
          BY <3>1, Domains
    <3>4. EndsInactive(client.active, toClient)
          BY <3>1, <3>3 DEF AgreeInv
    <3>5. IF state = "SendFontMap"
          THEN Sending[state] = "FontMap" /\ AfterSending(state) = "Accepted"
          ELSE Sending[state] \notin {"FontMap", "DeactivateAll"} /\ AfterSending(state) # "Accepted"
          BY <3>1, Domains DEF Sending, AfterSending
    <3>6. CASE state = "SendFontMap"
          BY <3>1, <3>2, <3>5, <3>6, OneMore DEF AgreeInv
    <3>7. CASE state # "SendFontMap"
          BY <3>1, <3>2, <3>4, <3>5, <3>7, OneMore DEF AgreeInv
    <3> QED BY <3>6, <3>7
  <2> QED BY <2>1, <2>2
<1>7. CASE SecurityUpgrade \/ PerformCredssp \/ SecurityCommences
      BY <1>7, QuietSteps DEF SecurityUpgrade, PerformCredssp, SecurityCommences
<1>8. CASE ClientAccepted
      BY <1>8, QuietSteps DEF ClientAccepted
<1> QED BY <1>1, <1>2, <1>3, <1>4, <1>5, <1>6, <1>7, <1>8 DEF Accept

\* Every step.
LEMMA AgreeNext == TypeInv /\ AgreeInv /\ [Next]_vars => AgreeInv'
<1> SUFFICES ASSUME TypeInv, AgreeInv, [Next]_vars PROVE AgreeInv'
    OBVIOUS
<1>0. toClient \in Seq(ServerPdus)
      BY DEF TypeInv, TypeOK
<1>1. CASE Accept
      BY <1>1, AgreeAccept
<1>2. CASE Reactivate
  <2>1. /\ client' = client /\ toClient' = Append(toClient, "DeactivateAll")
        /\ phase' = "failed" \/ (phase' = "accepting" /\ state' = "CapabilitiesSendServer")
        BY <1>2 DEF Reactivate, Fail
  <2>2. EndsInactive(client.active, Append(toClient, "DeactivateAll"))
    <3>1. "DeactivateAll" \in ServerPdus
          BY DEF ServerPdus
    <3> QED BY <1>0, <3>1, OneMore
  <2> QED BY <2>1, <2>2 DEF AgreeInv
<1>3. CASE LoopReads
      BY <1>3, QuietSteps DEF LoopReads
<1>4. CASE ClientAnswers
  <2>1. /\ toClient # <<>> /\ toClient' = Tail(toClient) /\ UNCHANGED <<phase, state>>
        BY <1>4 DEF ClientAnswers
  <2>2. /\ Head(toClient) = "FontMap" => client'.active
        /\ Head(toClient) = "DeactivateAll" => ~client'.active
        /\ Head(toClient) \notin {"FontMap", "DeactivateAll"} => (client'.active <=> client.active)
    <3>1. client \in ClientType
          BY DEF TypeInv, TypeOK, ClientType
    <3>2. ASSUME NEW a, client' = [client EXCEPT !.active = a] PROVE client'.active = a
          BY <3>1, <3>2 DEF ClientType
    <3>3. ASSUME NEW j, client' = [client EXCEPT !.toJoin = j] PROVE client'.active = client.active
          BY <3>1, <3>3 DEF ClientType
    <3> QED BY <1>4, <3>2, <3>3 DEF ClientAnswers, Says
  <2>3. /\ EndsActive(client.active, toClient) => EndsActive(client'.active, toClient')
        /\ EndsInactive(client.active, toClient) => EndsInactive(client'.active, toClient')
        BY <1>0, <2>1, <2>2, OneLess
  <2> QED BY <2>1, <2>3 DEF AgreeInv
<1>5. CASE ClientSends
      BY <1>5 DEF ClientSends, AgreeInv
<1>6. CASE UNCHANGED vars
      BY <1>6 DEF vars, AgreeInv
<1> QED BY <1>1, <1>2, <1>3, <1>4, <1>5, <1>6 DEF Next

\* The two ends agree on whether the client is active, but for what the client
\* is still to hear, in every reactivation (finalization.rs:163).
THEOREM SidesAgreeAlways == Spec => []SidesAgree
<1>1. Init => AgreeInv
  <2> SUFFICES ASSUME Init PROVE AgreeInv
      OBVIOUS
  <2>1. /\ phase = "accepting" /\ state # "Accepted" /\ toClient = <<>> /\ client.active = FALSE
        BY DEF Init
  <2>2. EndsInactive(client.active, toClient)
        BY <2>1 DEF EndsInactive
  <2> QED BY <2>1, <2>2 DEF AgreeInv
<1>2. TypeInv /\ AgreeInv => SidesAgree
  <2> SUFFICES ASSUME TypeInv, AgreeInv PROVE SidesAgree
      OBVIOUS
  <2>1. toClient \in Seq(ServerPdus) /\ phase \in {"accepting", "loop", "failed"}
        BY DEF TypeInv, TypeOK
  <2>2. \A k \in 1 .. Len(toClient) : k \in DOMAIN toClient
        BY <2>1
  <2>3. EndsActive(client.active, toClient) => client.active \/ In("FontMap", toClient)
        BY <2>2 DEF EndsActive, In
  <2>4. EndsInactive(client.active, toClient) /\ client.active => In("DeactivateAll", toClient)
        BY <2>2 DEF EndsInactive, In
  <2> QED BY <2>1, <2>3, <2>4 DEF AgreeInv, SidesAgree
<1>3. Spec => []AgreeInv
      BY <1>1, AgreeNext, TypeInvAlways, PTL DEF Spec
<1> QED BY <1>2, <1>3, TypeInvAlways, PTL

-----------------------------------------------------------------------------
(* InStep takes that a client says its half of the finalization in one     *)
(* breath: what follows a Confirm Active follows it directly, and what     *)
(* comes before it is over when the acceptor has taken it.                 *)

\* Every Confirm Active is followed by what it is followed by in an answer.
Whole(q) ==
    \A k \in 1 .. Len(q) : q[k].kind = "ConfirmActive" =>
        k + 2 <= Len(q) /\ q[k + 1].kind = "Synchronize" /\ q[k + 2].kind = "Cooperate"

StepInv ==
    /\ Whole(toServer)
    /\ state = "WaitSynchronize" =>
          /\ Len(toServer) >= 2
          /\ toServer[1].kind = "Synchronize" /\ toServer[2].kind = "Cooperate"
    /\ state = "WaitControlCooperate" =>
          Len(toServer) >= 1 /\ toServer[1].kind = "Cooperate"

\* The client says more.
LEMMA WholeMore ==
    ASSUME NEW q \in Seq(PduType), NEW answer \in Seq(PduType), Whole(q), Whole(answer)
    PROVE  Whole(q \o answer)
<1> DEFINE r == q \o answer
           n == Len(q)
           m == Len(answer)
<1>1. /\ n \in Nat /\ m \in Nat /\ Len(r) = n + m
      /\ \A k \in 1 .. n : r[k] = q[k]
      /\ \A k \in 1 .. m : r[n + k] = answer[k]
      OBVIOUS
<1>2. /\ \A k \in 1 .. n : q[k].kind = "ConfirmActive" =>
            k + 2 <= n /\ q[k + 1].kind = "Synchronize" /\ q[k + 2].kind = "Cooperate"
      /\ \A k \in 1 .. m : answer[k].kind = "ConfirmActive" =>
            k + 2 <= m /\ answer[k + 1].kind = "Synchronize" /\ answer[k + 2].kind = "Cooperate"
      BY DEF Whole
<1> HIDE DEF r, n, m
<1>3. ASSUME NEW k \in 1 .. Len(r), r[k].kind = "ConfirmActive"
      PROVE  k + 2 <= Len(r) /\ r[k + 1].kind = "Synchronize" /\ r[k + 2].kind = "Cooperate"
  <2>1. CASE k \in 1 .. n
    <3>1. k + 2 <= n /\ q[k + 1].kind = "Synchronize" /\ q[k + 2].kind = "Cooperate"
          BY <1>1, <1>2, <1>3, <2>1
    <3>2. k + 1 \in 1 .. n /\ k + 2 \in 1 .. n
          BY <1>1, <2>1, <3>1
    <3> QED BY <1>1, <3>1, <3>2
  <2>2. CASE k \notin 1 .. n
    <3>1. PICK j \in 1 .. m : k = n + j
      <4>1. k - n \in 1 .. m /\ k = n + (k - n)
            BY <1>1, <2>2
      <4> QED BY <4>1
    <3>2. j + 2 <= m /\ answer[j + 1].kind = "Synchronize" /\ answer[j + 2].kind = "Cooperate"
          BY <1>1, <1>2, <1>3, <3>1
    <3>3. /\ j + 1 \in 1 .. m /\ j + 2 \in 1 .. m
          /\ k + 1 = n + (j + 1) /\ k + 2 = n + (j + 2)
          BY <1>1, <3>1, <3>2
    <3> QED BY <1>1, <3>2, <3>3
  <2> QED BY <2>1, <2>2
<1> QED BY <1>3 DEF Whole, r

\* The server hears one PDU.
LEMMA WholeLess ==
    ASSUME NEW q \in Seq(PduType), q # <<>>, Whole(q)
    PROVE  /\ Whole(Tail(q))
           /\ Head(q) = q[1]
           /\ q[1].kind = "ConfirmActive" =>
                 /\ Len(Tail(q)) >= 2
                 /\ Tail(q)[1].kind = "Synchronize" /\ Tail(q)[2].kind = "Cooperate"
           /\ Len(Tail(q)) = Len(q) - 1
           /\ \A k \in 1 .. Len(q) - 1 : Tail(q)[k] = q[k + 1]
<1> DEFINE r == Tail(q)
           n == Len(q)
<1>1. /\ n \in Nat \ {0} /\ Len(r) = n - 1 /\ Head(q) = q[1]
      /\ \A k \in 1 .. n - 1 : r[k] = q[k + 1]
      OBVIOUS
<1>2. \A k \in 1 .. n : q[k].kind = "ConfirmActive" =>
          k + 2 <= n /\ q[k + 1].kind = "Synchronize" /\ q[k + 2].kind = "Cooperate"
      BY DEF Whole
<1> HIDE DEF r, n
<1>3. ASSUME NEW k \in 1 .. Len(r), r[k].kind = "ConfirmActive"
      PROVE  k + 2 <= Len(r) /\ r[k + 1].kind = "Synchronize" /\ r[k + 2].kind = "Cooperate"
  <2>1. k + 1 \in 1 .. n /\ q[k + 1].kind = "ConfirmActive"
        BY <1>1, <1>3
  <2>2. /\ (k + 1) + 2 <= n
        /\ q[(k + 1) + 1].kind = "Synchronize" /\ q[(k + 1) + 2].kind = "Cooperate"
        BY <1>2, <2>1
  <2>3. k + 1 \in 1 .. n - 1 /\ k + 2 \in 1 .. n - 1
        BY <1>1, <2>2
  <2> QED BY <1>1, <2>2, <2>3
<1>4. ASSUME q[1].kind = "ConfirmActive"
      PROVE  Len(r) >= 2 /\ r[1].kind = "Synchronize" /\ r[2].kind = "Cooperate"
  <2>1. 1 + 2 <= n /\ q[1 + 1].kind = "Synchronize" /\ q[1 + 2].kind = "Cooperate"
        BY <1>1, <1>2, <1>4
  <2>2. 1 \in 1 .. n - 1 /\ 2 \in 1 .. n - 1
        BY <1>1, <2>1
  <2> QED BY <1>1, <2>1, <2>2
<1> QED BY <1>1, <1>3, <1>4 DEF Whole, r, n

\* What the client says, answering or of its own, is whole.
LEMMA ClientIsWhole ==
    ASSUME TypeOK, ClientAnswers \/ ClientSends
    PROVE  \E answer \in Seq(PduType) : toServer' = toServer \o answer /\ Whole(answer)
<1>0. toServer \in Seq(PduType)
      BY DEF TypeOK, PduType
<1> DEFINE Fits(answer) == answer \in Seq(PduType) /\ Whole(answer)
<1>1. ASSUME NEW kind \in ClientPdus \ {"ConfirmActive"} PROVE Fits(<<Pdu(kind)>>)
      BY PduTyped DEF Whole, Pdu
<1>2. Fits(<<>>)
      BY DEF Whole
<1>3. ASSUME NEW i \in Ids PROVE Fits(<<Join(i)>>)
      BY PduTyped DEF Whole, Join
<1>4. Fits(<<Pdu("ErectDomain"), Pdu("AttachUser")>>)
  <2>1. Pdu("ErectDomain") \in PduType /\ Pdu("AttachUser") \in PduType
        BY PduTyped DEF ClientPdus
  <2> QED BY <2>1 DEF Whole, Pdu
<1>5. Fits(<<Pdu("ConfirmActive"), Pdu("Synchronize"), Pdu("Cooperate"), Pdu("RequestControl")>>
           \o (IF client.sendsKeys THEN <<Pdu("KeyList")>> ELSE <<>>)
           \o <<Pdu("FontList")>>)
  <2> DEFINE first == <<Pdu("ConfirmActive"), Pdu("Synchronize"), Pdu("Cooperate"),
                        Pdu("RequestControl")>>
             keys == IF client.sendsKeys THEN <<Pdu("KeyList")>> ELSE <<>>
             last == <<Pdu("FontList")>>
  <2>1. /\ Pdu("ConfirmActive") \in PduType
        /\ Pdu("Synchronize") \in PduType
        /\ Pdu("Cooperate") \in PduType
        /\ Pdu("RequestControl") \in PduType
        BY PduTyped DEF ClientPdus, ShareControl
  <2>2. Fits(first)
    <3>1. /\ Len(first) = 4
          /\ first[1].kind = "ConfirmActive" /\ first[2].kind = "Synchronize"
          /\ first[3].kind = "Cooperate" /\ first[4].kind = "RequestControl"
          BY DEF Pdu
    <3>2. first \in Seq(PduType)
          BY <2>1
    <3> HIDE DEF first
    <3>3. \A k \in 1 .. 4 : first[k].kind = "ConfirmActive" => k = 1
          BY <3>1
    <3> QED BY <3>1, <3>2, <3>3 DEF Whole
  <2>3. Fits(keys)
        BY <1>1, <1>2 DEF ClientPdus, ShareControl
  <2>4. Fits(last)
        BY <1>1 DEF ClientPdus, ShareControl
  <2> HIDE DEF first, keys, last
  <2>5. PICK both : both = first \o keys /\ Fits(both)
    <3>1. first \o keys \in Seq(PduType)
          BY <2>2, <2>3
    <3> QED BY <2>2, <2>3, <3>1, WholeMore
  <2>6. both \o last \in Seq(PduType)
        BY <2>4, <2>5
  <2>7. Fits(both \o last)
        BY <2>4, <2>5, <2>6, WholeMore
  <2>8. Fits(first \o keys \o last)
        BY <2>5, <2>7
  <2> QED BY <2>8 DEF first, keys, last
<1>6. CASE ClientSends
  <2>1. PICK kind \in Stray : toServer' = Append(toServer, Pdu(kind))
        BY <1>6 DEF ClientSends
  <2>2. kind \in ClientPdus \ {"ConfirmActive"}
        BY AcceptorAssumption DEF AllStray, ClientPdus, ShareControl
  <2>3. <<Pdu(kind)>> \in Seq(PduType) /\ Whole(<<Pdu(kind)>>)
        BY <1>1, <2>2
  <2>4. Pdu(kind) \in PduType
        BY <2>2, PduTyped
  <2>5. toServer' = toServer \o <<Pdu(kind)>>
        BY <1>0, <2>1, <2>4
  <2> QED BY <2>3, <2>5
<1>7. CASE ClientAnswers
  <2>1. client.toJoin \subseteq Ids
        BY DEF TypeOK
  <2>2. {"ConnectInitial", "ClientInfo"} \subseteq ClientPdus \ {"ConfirmActive"}
        BY DEF ClientPdus
  <2>3. ASSUME NEW answer, NEW c, Says(answer, c), Fits(answer)
        PROVE  \E a \in Seq(PduType) : toServer' = toServer \o a /\ Whole(a)
        BY <2>3 DEF Says
  <2>4. \E answer, c : Says(answer, c) /\ Fits(answer)
    <3> HIDE DEF Fits
    <3> QED BY <1>1, <1>2, <1>3, <1>4, <1>5, <1>7, <2>1, <2>2 DEF ClientAnswers
  <2> QED BY <2>3, <2>4
<1> QED BY <1>6, <1>7

\* The server reads: it does not look at the first two PDUs of a finalization,
\* but they are what they should be.
LEMMA StepReads ==
    ASSUME TypeInv, StepInv, toServer # <<>>, toServer' = Tail(toServer)
    PROVE  /\ Whole(toServer')
           /\ Got("ConfirmActive") =>
                 /\ Len(toServer') >= 2
                 /\ toServer'[1].kind = "Synchronize" /\ toServer'[2].kind = "Cooperate"
           /\ state = "WaitSynchronize" =>
                 /\ Got("Synchronize")
                 /\ Len(toServer') >= 1 /\ toServer'[1].kind = "Cooperate"
           /\ state = "WaitControlCooperate" => Got("Cooperate")
<1>1. toServer \in Seq(PduType) /\ Whole(toServer)
      BY DEF TypeInv, TypeOK, PduType, StepInv
<1>2. /\ Whole(toServer') /\ Head(toServer) = toServer[1] /\ Len(toServer) \in Nat
      /\ toServer[1].kind = "ConfirmActive" =>
            /\ Len(toServer') >= 2
            /\ toServer'[1].kind = "Synchronize" /\ toServer'[2].kind = "Cooperate"
      /\ Len(toServer') = Len(toServer) - 1
      /\ \A k \in 1 .. Len(toServer) - 1 : toServer'[k] = toServer[k + 1]
      BY <1>1, WholeLess
<1> QED BY <1>2 DEF Got, StepInv

\* A step that neither reads nor goes to one of the two states.
LEMMA StepQuiet ==
    ASSUME StepInv, UNCHANGED toServer,
           state' = state \/ state' \notin {"WaitSynchronize", "WaitControlCooperate"}
    PROVE  StepInv'
BY DEF StepInv

\* The acceptor.
LEMMA StepAccept ==
    ASSUME TypeInv, StepInv, Accept
    PROVE  /\ StepInv'
           /\ state = "WaitSynchronize" /\ state' # state => Got("Synchronize")
           /\ state = "WaitControlCooperate" /\ state' # state => Got("Cooperate")
<1> USE DEF Goto, Fail
<1>1. CASE FastPathLost
  <2>1. toServer # <<>> /\ toServer' = Tail(toServer) /\ state' = state /\ Got("FastPath")
        BY <1>1 DEF FastPathLost
  <2>2. Whole(toServer') /\ state \notin {"WaitSynchronize", "WaitControlCooperate"}
        BY <2>1, StepReads DEF Got
  <2> QED BY <2>1, <2>2 DEF StepInv
<1>2. CASE ReadExpected
  <2>1. PICK s \in DOMAIN Expecting :
            Reads(s) /\ IF Got(Expecting[s].pdu) THEN Goto(Expecting[s].next) ELSE Fail
        BY <1>2 DEF ReadExpected
  <2>2. /\ toServer # <<>> /\ toServer' = Tail(toServer) /\ state = s
        /\ state' \in {s, Expecting[s].next}
        BY <2>1 DEF Reads
  <2>3. {s, Expecting[s].next} \cap {"WaitSynchronize", "WaitControlCooperate"} = {}
        BY Domains DEF Expecting
  <2> QED BY <2>2, <2>3, StepReads DEF StepInv
<1>3. CASE JoinRequest \/ SecureSettings \/ WaitFontList
  <2>1. /\ toServer # <<>> /\ toServer' = Tail(toServer)
        /\ {state, state'} \cap {"WaitSynchronize", "WaitControlCooperate"} = {}
        BY <1>3 DEF JoinRequest, SecureSettings, WaitFontList, Reads
  <2> QED BY <2>1, StepReads DEF StepInv
<1>4. CASE CapabilitiesConfirm
  <2>1. /\ toServer # <<>> /\ toServer' = Tail(toServer) /\ state = "CapabilitiesWaitConfirm"
        /\ state' = state \/ (state' = "WaitSynchronize" /\ Got("ConfirmActive"))
        BY <1>4 DEF CapabilitiesConfirm, Reads
  <2> QED BY <2>1, StepReads DEF StepInv
<1>5. CASE Finalize
  <2>1. /\ toServer # <<>> /\ toServer' = Tail(toServer)
        /\ \/ state = "WaitSynchronize" /\ state' = "WaitControlCooperate"
           \/ state = "WaitControlCooperate" /\ state' = "WaitRequestControl"
           \/ state = "WaitRequestControl" /\ state' \in {state, "WaitFontList"}
        BY <1>5 DEF Finalize, Reads
  <2> QED BY <2>1, StepReads DEF StepInv
<1>6. CASE SendReply
  <2>1. state \in DOMAIN Sending /\ state' \in {state, AfterSending(state)} /\ toServer' = toServer
        BY <1>6 DEF SendReply
  <2>2. {state, AfterSending(state)} \cap {"WaitSynchronize", "WaitControlCooperate"} = {}
        BY <2>1, Domains DEF AfterSending
  <2> QED BY <2>1, <2>2, StepQuiet
<1>7. CASE SecurityUpgrade \/ PerformCredssp \/ SecurityCommences \/ ClientAccepted
  <2>1. /\ toServer' = toServer
        /\ {state, state'} \cap {"WaitSynchronize", "WaitControlCooperate"} = {}
        BY <1>7 DEF SecurityUpgrade, PerformCredssp, SecurityCommences, ClientAccepted
  <2> QED BY <2>1, StepQuiet
<1> QED BY <1>1, <1>2, <1>3, <1>4, <1>5, <1>6, <1>7 DEF Accept

\* Every step.
LEMMA StepNext ==
    ASSUME TypeInv, StepInv, [Next]_vars
    PROVE  /\ StepInv'
           /\ state = "WaitSynchronize" /\ state' # state => Got("Synchronize")
           /\ state = "WaitControlCooperate" /\ state' # state => Got("Cooperate")
<1>1. CASE Accept
      BY <1>1, StepAccept
<1>2. CASE Reactivate
  <2>1. /\ phase = "loop" /\ toServer' = toServer /\ state' \in {state, "CapabilitiesSendServer"}
        BY <1>2 DEF Reactivate, Fail
  <2>2. state = "Consumed"
        BY <2>1 DEF TypeInv, StartedOnce
  <2> QED BY <2>1, <2>2, StepQuiet
<1>3. CASE LoopReads
  <2>1. phase = "loop" /\ toServer # <<>> /\ toServer' = Tail(toServer) /\ state' = state
        BY <1>3 DEF LoopReads
  <2>2. state = "Consumed"
        BY <2>1 DEF TypeInv, StartedOnce
  <2> QED BY <2>1, <2>2, StepReads DEF StepInv
<1>4. CASE ClientAnswers \/ ClientSends
  <2>1. PICK answer \in Seq(PduType) : toServer' = toServer \o answer /\ Whole(answer)
        BY <1>4, ClientIsWhole DEF TypeInv
  <2>2. toServer \in Seq(PduType) /\ state' = state
        BY <1>4 DEF TypeInv, TypeOK, PduType, ClientAnswers, ClientSends
  <2>3. Whole(toServer')
        BY <2>1, <2>2, WholeMore DEF StepInv
  <2>4. Len(toServer') >= Len(toServer) /\ \A k \in 1 .. Len(toServer) : toServer'[k] = toServer[k]
        BY <2>1, <2>2
  <2>5. Len(toServer) \in Nat /\ Len(toServer') \in Nat
        BY <2>1, <2>2
  <2> QED BY <2>2, <2>3, <2>4, <2>5 DEF StepInv
<1>5. CASE UNCHANGED vars
      BY <1>5, StepQuiet DEF vars
<1> QED BY <1>1, <1>2, <1>3, <1>4, <1>5 DEF Next

\* FinalizationSequence takes the first two PDUs of a finalization unseen, and
\* they are the Synchronize and the Cooperate of the client, in every
\* reactivation and whatever was on its way before (finalization.rs:86-98).
THEOREM StaysInStep == Spec => InStep
<1>1. Init => StepInv
  <2> SUFFICES ASSUME Init PROVE StepInv
      OBVIOUS
  <2>1. toServer = <<Pdu("ConnectionRequest")>> /\ state = "InitiationWaitRequest"
        BY DEF Init
  <2>2. Whole(toServer)
        BY <2>1 DEF Whole, Pdu
  <2> QED BY <2>1, <2>2 DEF StepInv
<1>2. TypeInv /\ StepInv /\ [Next]_vars => StepInv'
      BY StepNext
<1>3. TypeInv /\ StepInv /\ [Next]_vars =>
          [/\ state = "WaitSynchronize" /\ state' # state => Got("Synchronize")
           /\ state = "WaitControlCooperate" /\ state' # state => Got("Cooperate")]_vars
      BY StepNext
<1> QED BY <1>1, <1>2, <1>3, TypeInvAlways, PTL DEF Spec, InStep
=============================================================================
