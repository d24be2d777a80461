------------------------------- MODULE Acceptor -------------------------------
(***************************************************************************)
(* The handshake of one connection: the Acceptor of ironrdp-acceptor with  *)
(* its two nested sequences, the steps of RdpServer around it (TLS and     *)
(* CredSSP, get_result, client_accepted, DeactivateAll and                 *)
(* new_deactivation_reactivation), and a client that follows the protocol. *)
(*                                                                         *)
(* A state of ChannelConnectionSequence or FinalizationSequence stands for *)
(* the acceptor's state that holds the sequence.  PDUs arrive in the order *)
(* they were sent; a client that is active may send at any time, so what   *)
(* it sent can still be on its way when the server starts to reactivate.   *)
(***************************************************************************)
EXTENDS Naturals, Sequences, FiniteSets

CONSTANTS
    Ids,              \* channel ids: the user's, the io channel's, the client's
    Securities,       \* RdpServerSecurity of the server, a subset of AllSecurities
    Stray,            \* what an active client may send, a subset of AllStray
    MaxReactivations, \* bound on the reactivations of a connection
    MaxInFlight       \* bound on the PDUs on their way when the client sends one more

AllSecurities == {"none", "tls", "hybrid"}
AllStray == {"Channel",    \* data of a static channel
             "FastPath",   \* fast-path input
             "Data"}       \* a share data PDU: slow-path input, Suppress Output, ...

ASSUME AcceptorAssumption ==
    /\ Ids # {} /\ IsFiniteSet(Ids)
    /\ Securities \subseteq AllSecurities
    /\ Stray \subseteq AllStray
    /\ MaxReactivations \in Nat
    /\ MaxInFlight \in Nat

VARIABLES
    phase,         \* "accepting", "loop" (client_loop) or "failed"
    state,         \* Acceptor::state, with the state of the nested sequence
    security,      \* Acceptor::security
    protocol,      \* the protocol negotiated
    remaining,     \* the ids ChannelConnectionSequence has still to see joined
    saved,         \* Acceptor::saved_for_reactivation is set
    reactivation,  \* Acceptor::reactivation
    owner,         \* who has the static channels
    started,       \* how often the static channels were started
    reactivated,   \* reactivations so far
    client,        \* what the client is like and where it is
    toServer,      \* PDUs on their way to the server
    toClient       \* ... and to the client

configVars == <<security, protocol>>
resultVars == <<saved, reactivation, owner, started, reactivated>>
vars == <<phase, state, configVars, remaining, resultVars, client, toServer, toClient>>

\* States that only send: what they send and the state after it.
Sending ==
    [InitiationSendConfirm       |-> "ConnectionConfirm",
     BasicSettingsSendResponse   |-> "ConnectResponse",
     SendAttachUserConfirm       |-> "AttachUserConfirm",
     SendChannelJoinConfirm      |-> "ChannelJoinConfirm",
     LicensingExchange           |-> "License",
     CapabilitiesSendServer      |-> "DemandActive",
     MonitorLayoutSend           |-> "MonitorLayout",
     SendSynchronizeConfirm      |-> "SynchronizeConfirm",
     SendControlCooperateConfirm |-> "CooperateConfirm",
     SendGrantedControlConfirm   |-> "GrantedControl",
     SendFontMap                 |-> "FontMap"]

\* States that wait for one kind of PDU, and the state after it.
Expecting ==
    [InitiationWaitRequest    |-> [pdu |-> "ConnectionRequest", next |-> "InitiationSendConfirm"],
     BasicSettingsWaitInitial |-> [pdu |-> "ConnectInitial", next |-> "BasicSettingsSendResponse"],
     WaitErectDomainRequest   |-> [pdu |-> "ErectDomain", next |-> "WaitAttachUserRequest"],
     WaitAttachUserRequest    |-> [pdu |-> "AttachUser", next |-> "SendAttachUserConfirm"]]

Waiting == DOMAIN Expecting
    \cup {"WaitChannelJoinRequest", "SecureSettingsExchange", "CapabilitiesWaitConfirm",
          "WaitSynchronize", "WaitControlCooperate", "WaitRequestControl", "WaitFontList"}
States == Waiting \cup DOMAIN Sending
    \cup {"SecurityUpgrade", "Credssp", "RdpSecurityCommencement", "Accepted", "Consumed"}

\* PDUs that decode as a Share Control PDU; Channel data does not.
ShareControl == {"ConfirmActive", "Synchronize", "Cooperate", "RequestControl", "KeyList",
                 "FontList", "Data"}
ClientPdus == ShareControl
    \cup {"ConnectionRequest", "ConnectInitial", "ErectDomain", "AttachUser", "ClientInfo",
          "ChannelJoinRequest", "Channel", "FastPath"}
ServerPdus == {Sending[s] : s \in DOMAIN Sending} \cup {"DeactivateAll"}
NoId == "none"
Pdu(kind) == [kind |-> kind, id |-> NoId]

TypeOK ==
    /\ phase \in {"accepting", "loop", "failed"}
    /\ state \in States
    /\ security \in AllSecurities
    /\ protocol \in {"none", "ssl", "hybrid"}
    /\ remaining \subseteq Ids
    /\ saved \in BOOLEAN
    /\ reactivation \in BOOLEAN
    /\ owner \in {"acceptor", "server", "nobody"}
    /\ started \in 0 .. 1 + MaxReactivations
    /\ reactivated \in 0 .. MaxReactivations
    /\ client \in [requests : SUBSET {"ssl", "hybrid"}, genuine : BOOLEAN, skipsJoin : BOOLEAN,
                   takesLayout : BOOLEAN, sendsKeys : BOOLEAN, active : BOOLEAN,
                   toJoin : SUBSET Ids]
    /\ toServer \in Seq([kind : ClientPdus, id : Ids \cup {NoId}])
    /\ toClient \in Seq(ServerPdus)

Init ==
    /\ phase = "accepting"
    /\ state = "InitiationWaitRequest"
    /\ security \in Securities
    /\ protocol = "none"
    /\ remaining = {}
    /\ saved = FALSE
    /\ reactivation = FALSE
    /\ owner = "acceptor"
    /\ started = 0
    /\ reactivated = 0
    /\ client \in [requests : SUBSET {"ssl", "hybrid"}, genuine : BOOLEAN, skipsJoin : BOOLEAN,
                   takesLayout : BOOLEAN, sendsKeys : BOOLEAN, active : {FALSE}, toJoin : {Ids}]
    /\ toServer = <<Pdu("ConnectionRequest")>>
    /\ toClient = <<>>

-----------------------------------------------------------------------------
(* single_sequence_step: read a PDU if the state hints at one, step, write. *)

\* The PDU the acceptor reads in state s.
Reads(s) ==
    /\ phase = "accepting"
    /\ state = s
    /\ toServer # <<>>
    /\ s = "WaitFontList" \/ Head(toServer).kind # "FastPath"
    /\ toServer' = Tail(toServer)

Got(kind) == Head(toServer).kind = kind

Goto(s) == state' = s /\ UNCHANGED phase
Fail == phase' = "failed" /\ UNCHANGED state

\* X224Hint passes over fast-path PDUs: they are read and lost.
FastPathLost ==
    /\ phase = "accepting"
    /\ state \in Waiting \ {"WaitFontList"}
    /\ toServer # <<>>
    /\ Got("FastPath")
    /\ toServer' = Tail(toServer)
    /\ UNCHANGED <<phase, state, configVars, remaining, resultVars, client, toClient>>

ReadExpected ==
    \E s \in DOMAIN Expecting :
        /\ Reads(s)
        /\ IF Got(Expecting[s].pdu) THEN Goto(Expecting[s].next) ELSE Fail
        /\ UNCHANGED <<configVars, remaining, resultVars, client, toClient>>

JoinRequest ==
    /\ Reads("WaitChannelJoinRequest")
    /\ IF Got("ChannelJoinRequest") /\ Head(toServer).id \in remaining
       THEN remaining' = remaining \ {Head(toServer).id} /\ Goto("SendChannelJoinConfirm")
       ELSE UNCHANGED remaining /\ Fail
    /\ UNCHANGED <<configVars, resultVars, client, toClient>>

\* Mutant: CredSSP is taken to be the only way to authenticate.
SecureSettingsTrusting ==
    /\ Reads("SecureSettingsExchange")
    /\ IF Got("ClientInfo") THEN Goto("LicensingExchange") ELSE Fail
    /\ UNCHANGED <<configVars, remaining, resultVars, client, toClient>>

\* The credentials of ClientInfo count only if CredSSP has not been done.
SecureSettings ==
    /\ Reads("SecureSettingsExchange")
    /\ IF Got("ClientInfo") /\ (protocol = "hybrid" \/ client.genuine)
       THEN Goto("LicensingExchange")
       ELSE Fail
    /\ UNCHANGED <<configVars, remaining, resultVars, client, toClient>>

\* Mutant: any Share Control PDU is taken for the Confirm Active.
CapabilitiesConfirmAny ==
    /\ Reads("CapabilitiesWaitConfirm")
    /\ Goto("WaitSynchronize")
    /\ UNCHANGED <<configVars, remaining, resultVars, client, toClient>>

\* Mutant: a reactivation is no different from a first handshake.
CapabilitiesConfirmStrict ==
    /\ Reads("CapabilitiesWaitConfirm")
    /\ IF Got("ConfirmActive") THEN Goto("WaitSynchronize") ELSE Fail
    /\ UNCHANGED <<configVars, remaining, resultVars, client, toClient>>

\* During a reactivation what does not decode is dropped; what decodes and is
\* not a Confirm Active is an error.  (Other MCS messages, which no client of
\* this model sends, are passed over or, a disconnect, end the connection.)
CapabilitiesConfirm ==
    /\ Reads("CapabilitiesWaitConfirm")
    /\ CASE Got("ConfirmActive") -> Goto("WaitSynchronize")
         [] ~Got("ConfirmActive") /\ Head(toServer).kind \notin ShareControl /\ reactivation ->
                UNCHANGED <<phase, state>>
         [] OTHER -> Fail
    /\ UNCHANGED <<configVars, remaining, resultVars, client, toClient>>

\* FinalizationSequence does not look at what it is sent first and second;
\* the third must be some Share Control PDU.
Finalize ==
    /\ \/ Reads("WaitSynchronize") /\ Goto("WaitControlCooperate")
       \/ Reads("WaitControlCooperate") /\ Goto("WaitRequestControl")
       \/ /\ Reads("WaitRequestControl")
          /\ IF Head(toServer).kind \in ShareControl THEN Goto("WaitFontList") ELSE Fail
    /\ UNCHANGED <<configVars, remaining, resultVars, client, toClient>>

\* Mutant: the server's half of the finalization is forgotten.
WaitFontListOnly ==
    /\ Reads("WaitFontList")
    /\ Goto(IF Got("FontList") THEN "Finished" ELSE "WaitFontList")
    /\ UNCHANGED <<configVars, remaining, resultVars, client, toClient>>

\* Anything but the Font List is kept for handle_input_backlog.
WaitFontList ==
    /\ Reads("WaitFontList")
    /\ Goto(IF Got("FontList") THEN "SendSynchronizeConfirm" ELSE "WaitFontList")
    /\ UNCHANGED <<configVars, remaining, resultVars, client, toClient>>

\* The strongest of the protocols both sides have; without security on the
\* server's side anything the client asks for is ignored.
Negotiated(requests) ==
    CASE security = "hybrid" /\ "hybrid" \in requests -> "hybrid"
      [] security = "tls" /\ "ssl" \in requests -> "ssl"
      [] OTHER -> "none"

Negotiates == security = "none" \/ Negotiated(client.requests) # "none"

\* Where a state that only sends goes next.
AfterSending(s) ==
    CASE s = "InitiationSendConfirm" -> "SecurityUpgrade"
      [] s = "BasicSettingsSendResponse" -> "WaitErectDomainRequest"
      [] s = "SendAttachUserConfirm" ->
             IF client.skipsJoin THEN "RdpSecurityCommencement" ELSE "WaitChannelJoinRequest"
      [] s = "SendChannelJoinConfirm" ->
             IF remaining = {} THEN "RdpSecurityCommencement" ELSE "WaitChannelJoinRequest"
      [] s = "LicensingExchange" -> "CapabilitiesSendServer"
      [] s = "CapabilitiesSendServer" ->
             IF client.takesLayout THEN "MonitorLayoutSend" ELSE "CapabilitiesWaitConfirm"
      [] s = "MonitorLayoutSend" -> "CapabilitiesWaitConfirm"
      [] s = "SendSynchronizeConfirm" -> "SendControlCooperateConfirm"
      [] s = "SendControlCooperateConfirm" -> "SendGrantedControlConfirm"
      [] s = "SendGrantedControlConfirm" -> "SendFontMap"
      [] s = "SendFontMap" -> "Accepted"

SendReply ==
    /\ phase = "accepting"
    /\ state \in DOMAIN Sending
    /\ IF state = "InitiationSendConfirm" /\ ~Negotiates
       THEN Fail /\ UNCHANGED <<toClient, protocol>>
       ELSE /\ Goto(AfterSending(state))
            /\ toClient' = Append(toClient, Sending[state])
            /\ protocol' = IF state = "InitiationSendConfirm"
                           THEN Negotiated(client.requests)
                           ELSE protocol
    /\ remaining' = IF state = "BasicSettingsSendResponse" /\ ~client.skipsJoin
                    THEN Ids
                    ELSE remaining
    /\ saved' = (saved \/ state = "LicensingExchange")
    /\ UNCHANGED <<security, reactivation, owner, started, reactivated, client, toServer>>

-----------------------------------------------------------------------------
(* RdpServer: run_connection, accept_finalize, client_accepted. *)

\* TLS is up, or there is none.
SecurityUpgrade ==
    /\ phase = "accepting"
    /\ state = "SecurityUpgrade"
    /\ Goto(IF protocol = "hybrid" THEN "Credssp" ELSE "BasicSettingsWaitInitial")
    /\ UNCHANGED <<configVars, remaining, resultVars, client, toServer, toClient>>

\* credssp_loop fails for a client that does not know the password.
PerformCredssp ==
    /\ phase = "accepting"
    /\ state = "Credssp"
    /\ IF client.genuine THEN Goto("BasicSettingsWaitInitial") ELSE Fail
    /\ UNCHANGED <<configVars, remaining, resultVars, client, toServer, toClient>>

SecurityCommences ==
    /\ phase = "accepting"
    /\ state = "RdpSecurityCommencement"
    /\ Goto("SecureSettingsExchange")
    /\ UNCHANGED <<configVars, remaining, resultVars, client, toServer, toClient>>

\* Mutant: the channels are started again after a reactivation.
ClientAcceptedAgain ==
    /\ phase = "accepting"
    /\ state = "Accepted"
    /\ state' = "Consumed"
    /\ phase' = "loop"
    /\ owner' = "server"
    /\ started' = started + 1
    /\ UNCHANGED <<configVars, remaining, saved, reactivation, reactivated, client, toServer,
                   toClient>>

\* get_result consumes the state; client_accepted takes the channels and
\* starts them unless this is a reactivation.
ClientAccepted ==
    /\ phase = "accepting"
    /\ state = "Accepted"
    /\ state' = "Consumed"
    /\ phase' = "loop"
    /\ owner' = "server"
    /\ started' = IF reactivation THEN started ELSE started + 1
    /\ UNCHANGED <<configVars, remaining, saved, reactivation, reactivated, client, toServer,
                   toClient>>

\* Mutant: the client is not told.
ReactivateSilently ==
    /\ phase = "loop"
    /\ reactivated < MaxReactivations
    /\ reactivated' = reactivated + 1
    /\ state' = "CapabilitiesSendServer"
    /\ phase' = "accepting"
    /\ reactivation' = TRUE
    /\ owner' = "acceptor"
    /\ UNCHANGED <<configVars, remaining, saved, started, client, toServer, toClient>>

\* A resize: deactivate_all, then new_deactivation_reactivation, which needs
\* the state saved when licensing was done and takes the channels back.
Reactivate ==
    /\ phase = "loop"
    /\ reactivated < MaxReactivations
    /\ reactivated' = reactivated + 1
    /\ toClient' = Append(toClient, "DeactivateAll")
    /\ IF saved
       THEN state' = "CapabilitiesSendServer" /\ phase' = "accepting"
       ELSE Fail
    /\ reactivation' = TRUE
    /\ owner' = "acceptor"
    /\ UNCHANGED <<configVars, remaining, saved, started, client, toServer>>

LoopReads ==
    /\ phase = "loop"
    /\ toServer # <<>>
    /\ toServer' = Tail(toServer)
    /\ UNCHANGED <<phase, state, configVars, remaining, resultVars, client, toClient>>

-----------------------------------------------------------------------------
(* The client. *)

Join(i) == [kind |-> "ChannelJoinRequest", id |-> i]

Says(answer, c) ==
    /\ toServer' = toServer \o answer
    /\ client' = c

\* TLS and CredSSP are not messages here: PerformCredssp knows what comes of them.
ClientAnswers ==
    /\ toClient # <<>>
    /\ toClient' = Tail(toClient)
    /\ LET pdu == Head(toClient) IN
       \/ pdu = "ConnectionConfirm" /\ Says(<<Pdu("ConnectInitial")>>, client)
       \/ pdu = "ConnectResponse" /\ Says(<<Pdu("ErectDomain"), Pdu("AttachUser")>>, client)
       \/ /\ \/ pdu = "AttachUserConfirm" /\ client.skipsJoin
             \/ pdu = "ChannelJoinConfirm" /\ client.toJoin = {}
          /\ Says(<<Pdu("ClientInfo")>>, client)
       \/ /\ \/ pdu = "AttachUserConfirm" /\ ~client.skipsJoin
             \/ pdu = "ChannelJoinConfirm"
          /\ \E i \in client.toJoin :
                Says(<<Join(i)>>, [client EXCEPT !.toJoin = @ \ {i}])
       \/ /\ pdu = "DemandActive"
          /\ Says(<<Pdu("ConfirmActive"), Pdu("Synchronize"), Pdu("Cooperate"),
                    Pdu("RequestControl")>>
                  \o (IF client.sendsKeys THEN <<Pdu("KeyList")>> ELSE <<>>)
                  \o <<Pdu("FontList")>>, client)
       \/ pdu = "FontMap" /\ Says(<<>>, [client EXCEPT !.active = TRUE])
       \/ pdu = "DeactivateAll" /\ Says(<<>>, [client EXCEPT !.active = FALSE])
       \/ /\ pdu \in {"License", "MonitorLayout", "SynchronizeConfirm", "CooperateConfirm",
                      "GrantedControl"}
          /\ Says(<<>>, client)
    /\ UNCHANGED <<phase, state, configVars, remaining, resultVars>>

ClientSends ==
    /\ client.active
    /\ Len(toServer) < MaxInFlight
    /\ \E kind \in Stray : toServer' = Append(toServer, Pdu(kind))
    /\ UNCHANGED <<phase, state, configVars, remaining, resultVars, client, toClient>>

-----------------------------------------------------------------------------
Accept ==
    \/ FastPathLost
    \/ ReadExpected
    \/ JoinRequest
    \/ SecureSettings
    \/ CapabilitiesConfirm
    \/ Finalize
    \/ WaitFontList
    \/ SendReply
    \/ SecurityUpgrade
    \/ PerformCredssp
    \/ SecurityCommences
    \/ ClientAccepted

Next ==
    \/ Accept
    \/ Reactivate
    \/ LoopReads
    \/ ClientAnswers
    \/ ClientSends

Spec == Init /\ [][Next]_vars

\* The server's task runs, and a client answers; nobody has to send more or
\* to resize.
Fairness ==
    /\ WF_vars(Accept)
    /\ WF_vars(LoopReads)
    /\ WF_vars(ClientAnswers)

FairSpec == Spec /\ Fairness

-----------------------------------------------------------------------------
(* What the handshake promises. *)

Unlicensed == DOMAIN Expecting
    \cup {"InitiationSendConfirm", "SecurityUpgrade", "Credssp", "BasicSettingsSendResponse",
          "SendAttachUserConfirm", "WaitChannelJoinRequest", "SendChannelJoinConfirm",
          "RdpSecurityCommencement", "SecureSettingsExchange"}

\* Nobody gets past licensing, or through a reactivation, who has not proved
\* a password, by CredSSP or in the ClientInfo (connection.rs:547-582), over
\* the security the server asks for.
Admitted ==
    phase # "failed" /\ state \notin Unlicensed =>
        /\ client.genuine
        /\ security = "none" \/ protocol # "none"

\* "We must keep the channel state as they were during reactivation"
\* (server.rs:1232-1234): client_loop always has the static channels, and
\* they have been started once.
ChannelsServed == phase = "loop" => owner = "server" /\ started = 1

In(pdu, s) == \E k \in DOMAIN s : s[k] = pdu

\* The two ends agree: a client thinks it is active only while the server
\* serves it, is about to or has told it to stop, and is served only when it
\* has, or is about to get, the last PDU of the handshake (finalization.rs:163).
SidesAgree ==
    /\ client.active /\ phase # "failed" =>
          phase = "loop" \/ state = "Accepted" \/ In("DeactivateAll", toClient)
    /\ phase = "loop" => client.active \/ In("FontMap", toClient)

\* The two states of FinalizationSequence that take whatever they are sent
\* are sent what they stand for: what a client had on its way before it
\* heard of the reactivation does not end up there (finalization.rs:86-98).
InStep ==
    [][/\ state = "WaitSynchronize" /\ state' # state => Got("Synchronize")
       /\ state = "WaitControlCooperate" /\ state' # state => Got("Cooperate")]_vars

\* A client with the password and a protocol in common with the server is
\* served, the first time and after every reactivation.
Serves == phase = "accepting" /\ client.genuine /\ Negotiates ~> client.active
==============================================================================
