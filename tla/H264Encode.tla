----------------------------- MODULE H264Encode -----------------------------
(***************************************************************************)
(* VtH264Encoder (h264.rs): encode hands a frame and a boxed Sender to     *)
(* VideoToolbox and waits, for ENCODE_TIMEOUT at most, for the callback    *)
(* that VideoToolbox runs on a thread of its own.  The box crosses the     *)
(* boundary as a raw pointer: nothing but this protocol says who frees it. *)
(*                                                                         *)
(* Every call of encode has a number, its frame and its channel the same.  *)
(***************************************************************************)
EXTENDS Naturals

CONSTANT MaxCalls  \* bound on the calls of encode
ASSUME MaxCallsAssumption == MaxCalls \in Nat

VARIABLES
    calls,     \* calls of encode so far
    at,        \* "idle", "calling" (in EncodeFrame), "waiting" (recv_timeout)
    encoding,  \* the field of that name
    frameId,   \* the field frame_id
    answer,    \* what the last call returned
    owner,     \* per call, who owns its boxed Sender
    pending,   \* calls VideoToolbox has accepted and not called back for
    mail       \* per call, the frame in its channel, or 0

vars == <<calls, at, encoding, frameId, answer, owner, pending, mail>>

Calls == 1 .. MaxCalls
NoAnswer == [of |-> 0, id |-> 0]

TypeOK ==
    /\ calls \in 0 .. MaxCalls
    /\ at \in {"idle", "calling", "waiting"}
    /\ encoding \in BOOLEAN
    /\ frameId \in Nat
    /\ answer \in [of : Nat, id : Nat]
    /\ owner \in [Calls -> {"none", "caller", "vt", "callback", "freed"}]
    /\ pending \subseteq Calls
    /\ mail \in [Calls -> 0 .. MaxCalls]

Init ==
    /\ calls = 0
    /\ at = "idle"
    /\ encoding = FALSE
    /\ frameId = 0
    /\ answer = NoAnswer
    /\ owner = [c \in Calls |-> "none"]
    /\ pending = {}
    /\ mail = [c \in Calls |-> 0]

Give(c, who) == owner' = [owner EXCEPT ![c] = who]

\* A call made while "encoding" is set returns at once and changes nothing.
Encode ==
    /\ at = "idle"
    /\ calls < MaxCalls
    /\ ~encoding
    /\ encoding' = TRUE
    /\ calls' = calls + 1
    /\ Give(calls', "caller")
    /\ at' = "calling"
    /\ UNCHANGED <<frameId, answer, pending, mail>>

\* VTCompressionSessionEncodeFrame accepts the frame.  The callback may come
\* before it returns; the channel hides the difference.
VtAccepts ==
    /\ at = "calling"
    /\ at' = "waiting"
    /\ Give(calls, "vt")
    /\ pending' = pending \cup {calls}
    /\ UNCHANGED <<calls, encoding, frameId, answer, mail>>

Return(a) ==
    /\ at' = "idle"
    /\ encoding' = FALSE
    /\ answer' = a
    /\ UNCHANGED <<calls, pending, mail>>

\* Mutant: a number taken beforehand is given back.
VtRefusesGivesBack ==
    /\ at = "calling"
    /\ Give(calls, "freed")
    /\ frameId' = frameId - 1
    /\ Return(NoAnswer)

\* EncodeFrame fails: encode takes the box back, no callback comes.
VtRefuses ==
    /\ at = "calling"
    /\ Give(calls, "freed")
    /\ UNCHANGED frameId
    /\ Return(NoAnswer)

\* Mutant: one channel for all calls.
CallbackSharesChannel(c) ==
    /\ c \in pending
    /\ pending' = pending \ {c}
    /\ Give(c, "callback")
    /\ \E frame \in {0, c} : mail' = [mail EXCEPT ![calls] = IF frame = 0 THEN @ ELSE frame]
    /\ UNCHANGED <<calls, at, encoding, frameId, answer>>

\* encoding_callback takes the box, and sends unless VideoToolbox had an
\* error or no data.  A send without a receiver goes nowhere.
Callback(c) ==
    /\ c \in pending
    /\ pending' = pending \ {c}
    /\ Give(c, "callback")
    /\ \E frame \in {0, c} : mail' = [mail EXCEPT ![c] = frame]
    /\ UNCHANGED <<calls, at, encoding, frameId, answer>>

\* Mutant: the error path forgets the box.
CallbackReturnsLeaks(c) ==
    /\ owner[c] = "callback"
    /\ mail[c] # 0
    /\ Give(c, "freed")
    /\ UNCHANGED <<calls, at, encoding, frameId, answer, pending, mail>>

\* The callback returns and the box is dropped.
CallbackReturns(c) ==
    /\ owner[c] = "callback"
    /\ Give(c, "freed")
    /\ UNCHANGED <<calls, at, encoding, frameId, answer, pending, mail>>

Receive ==
    /\ at = "waiting"
    /\ mail[calls] # 0
    /\ frameId' = frameId + 1
    /\ Return([of |-> mail[calls], id |-> frameId])
    /\ UNCHANGED owner

\* The box was dropped without a send: VideoToolbox gave no output.
Disconnected ==
    /\ at = "waiting"
    /\ mail[calls] = 0
    /\ owner[calls] = "freed"
    /\ Return(NoAnswer)
    /\ UNCHANGED <<frameId, owner>>

\* Mutant: encode takes the box back when it has waited long enough.
TimeoutReclaims ==
    /\ at = "waiting"
    /\ mail[calls] = 0
    /\ owner[calls] # "freed"
    /\ Give(calls, "freed")
    /\ Return(NoAnswer)
    /\ UNCHANGED frameId

\* ENCODE_TIMEOUT has passed, or what has come is empty.
Timeout ==
    /\ at = "waiting"
    /\ mail[calls] = 0
    /\ owner[calls] # "freed"
    /\ Return(NoAnswer)
    /\ UNCHANGED <<frameId, owner>>

\* force_keyframe and recreate_stream put a new encoder in the place of this
\* one, whose Drop invalidates the session; calls back that are due still
\* come, with boxes of their own.
Replace ==
    /\ at = "idle"
    /\ frameId' = 0
    /\ encoding' = FALSE
    /\ UNCHANGED <<calls, at, answer, owner, pending, mail>>

Next ==
    \/ Encode
    \/ VtAccepts
    \/ VtRefuses
    \/ \E c \in Calls : Callback(c) \/ CallbackReturns(c)
    \/ Receive
    \/ Disconnected
    \/ Timeout
    \/ Replace

Spec == Init /\ [][Next]_vars

\* VideoToolbox calls back for every frame it accepted ("otherwise, the
\* callback always reclaims it", h264.rs:426); encode waits for a bounded time.
Fairness ==
    /\ WF_vars(VtAccepts \/ VtRefuses)
    /\ \A c \in Calls : WF_vars(Callback(c)) /\ WF_vars(CallbackReturns(c))
    /\ WF_vars(Receive \/ Disconnected \/ Timeout)

FairSpec == Spec /\ Fairness

-----------------------------------------------------------------------------

\* "This guarantees no dangling pointers" (h264.rs:424): the box VideoToolbox
\* will hand to a callback is allocated and nobody else's, however late the
\* callback comes; and encode keeps no box once it has returned.
NoDanglingPointer ==
    /\ \A c \in pending : owner[c] = "vt"
    /\ \A c \in Calls : owner[c] = "caller" => at = "calling" /\ c = calls

\* A call of encode gets the encoding of its own frame or nothing, whatever
\* callbacks of earlier calls and earlier encoders come late.
Service == INSTANCE EncoderService WITH asked <- calls, open <- encoding, next <- frameId, last <- answer
ImplementsService == Service!Spec

\* Once the last call has been made every box comes to be freed, those of calls
\* that timed out and of encoders that were replaced included.
BoxesFreed == <>[](\A c \in Calls : owner[c] \in {"none", "freed"})
==============================================================================
