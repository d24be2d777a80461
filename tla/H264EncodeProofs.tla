-------------------------- MODULE H264EncodeProofs --------------------------
(***************************************************************************)
(* For any number of calls: the boxed Sender of a call has one owner at a  *)
(* time, and encode implements EncoderService.                             *)
(***************************************************************************)
EXTENDS H264Encode, TLAPS

\* What a channel holds is the frame of its own call.
OwnMail == \A c \in Calls : mail[c] \in {0, c}

\* The flag is set exactly while a call is under way.
FlagFollows == encoding <=> at # "idle"

\* The call under way is one of Calls, and owns its box until VideoToolbox
\* has accepted the frame; the boxes of later calls do not exist yet.
BoxesOfCalls ==
    /\ at # "idle" => calls \in Calls
    /\ at = "calling" => owner[calls] = "caller"
    /\ \A c \in Calls : c > calls => owner[c] = "none"

IInv == TypeOK /\ NoDanglingPointer /\ OwnMail /\ FlagFollows /\ BoxesOfCalls

\* Every invariant holds before the first call.
LEMMA InitHolds == Init => IInv
<1> SUFFICES ASSUME Init PROVE IInv
    OBVIOUS
<1>1. TypeOK
    <2>1. answer \in [of : Nat, id : Nat]
        BY DEF Init, NoAnswer
    <2>2. encoding \in BOOLEAN
        BY Zenon DEF Init
    <2> QED
        BY <2>1, <2>2, MaxCallsAssumption DEF Init, TypeOK, Calls
<1>2. FlagFollows
    BY Zenon DEF Init, FlagFollows
<1> QED
    BY <1>1, <1>2 DEF Init, IInv, NoDanglingPointer, OwnMail, BoxesOfCalls, Calls

\* The steps of encode preserve the invariant.
LEMMA CallerStep ==
    ASSUME IInv, Encode \/ VtAccepts \/ VtRefuses \/ Receive \/ Disconnected \/ Timeout \/ Replace
    PROVE  IInv'
<1> USE MaxCallsAssumption
<1>1. CASE Encode
    <2> USE <1>1 DEF IInv, Encode, Give, Calls
    <2>1. TypeOK'
        BY DEF TypeOK, BoxesOfCalls
    <2>2. NoDanglingPointer' /\ OwnMail' /\ BoxesOfCalls'
        BY DEF TypeOK, NoDanglingPointer, OwnMail, BoxesOfCalls
    <2>3. FlagFollows'
        BY Zenon DEF FlagFollows
    <2> QED
        BY <2>1, <2>2, <2>3
<1>2. CASE VtAccepts
    <2> USE <1>2 DEF IInv, VtAccepts, Give, Calls
    <2>1. TypeOK'
        BY DEF TypeOK, BoxesOfCalls
    <2>2. NoDanglingPointer' /\ OwnMail' /\ BoxesOfCalls'
        BY DEF TypeOK, NoDanglingPointer, OwnMail, BoxesOfCalls
    <2>3. FlagFollows'
        BY Zenon DEF FlagFollows
    <2> QED
        BY <2>1, <2>2, <2>3
<1>3. CASE VtRefuses
    <2> USE <1>3 DEF IInv, VtRefuses, Return, NoAnswer, Give, Calls
    <2>1. TypeOK'
        BY DEF TypeOK, BoxesOfCalls
    <2>2. NoDanglingPointer' /\ OwnMail' /\ BoxesOfCalls'
        BY DEF TypeOK, NoDanglingPointer, OwnMail, BoxesOfCalls
    <2>3. FlagFollows'
        BY Zenon DEF FlagFollows
    <2> QED
        BY <2>1, <2>2, <2>3
<1>4. CASE Receive
    <2> USE <1>4 DEF IInv, Receive, Return, NoAnswer, Give, Calls
    <2>1. TypeOK'
        <3>1. mail[calls] \in Nat
            BY DEF TypeOK, BoxesOfCalls
        <3>2. answer' \in [of : Nat, id : Nat]
            BY <3>1 DEF TypeOK
        <3>3. encoding' \in BOOLEAN
            BY Zenon
        <3> QED
            BY <3>2, <3>3 DEF TypeOK
    <2>2. NoDanglingPointer' /\ OwnMail' /\ BoxesOfCalls'
        BY DEF TypeOK, NoDanglingPointer, OwnMail, BoxesOfCalls
    <2>3. FlagFollows'
        BY Zenon DEF FlagFollows
    <2> QED
        BY <2>1, <2>2, <2>3
<1>5. CASE Disconnected
    <2> USE <1>5 DEF IInv, Disconnected, Return, NoAnswer, Give, Calls
    <2>1. TypeOK'
        BY DEF TypeOK, BoxesOfCalls
    <2>2. NoDanglingPointer' /\ OwnMail' /\ BoxesOfCalls'
        BY DEF TypeOK, NoDanglingPointer, OwnMail, BoxesOfCalls
    <2>3. FlagFollows'
        BY Zenon DEF FlagFollows
    <2> QED
        BY <2>1, <2>2, <2>3
<1>6. CASE Timeout
    <2> USE <1>6 DEF IInv, Timeout, Return, NoAnswer, Give, Calls
    <2>1. TypeOK'
        BY DEF TypeOK, BoxesOfCalls
    <2>2. NoDanglingPointer' /\ OwnMail' /\ BoxesOfCalls'
        BY DEF TypeOK, NoDanglingPointer, OwnMail, BoxesOfCalls
    <2>3. FlagFollows'
        BY Zenon DEF FlagFollows
    <2> QED
        BY <2>1, <2>2, <2>3
<1>7. CASE Replace
    <2> USE <1>7 DEF IInv, Replace, Give, Calls
    <2>1. TypeOK'
        BY DEF TypeOK, BoxesOfCalls
    <2>2. NoDanglingPointer' /\ OwnMail' /\ BoxesOfCalls'
        BY DEF TypeOK, NoDanglingPointer, OwnMail, BoxesOfCalls
    <2>3. FlagFollows'
        BY Zenon DEF FlagFollows
    <2> QED
        BY <2>1, <2>2, <2>3
<1> QED
    BY <1>1, <1>2, <1>3, <1>4, <1>5, <1>6, <1>7

\* So do the callback's, for whichever call it comes.
LEMMA CallbackStep ==
    ASSUME NEW c \in Calls, IInv, Callback(c) \/ CallbackReturns(c)
    PROVE  IInv'
<1> USE MaxCallsAssumption DEF IInv, TypeOK, NoDanglingPointer, OwnMail, FlagFollows, BoxesOfCalls,
                               Give, Calls
<1>1. CASE Callback(c)
    BY <1>1 DEF Callback
<1>2. CASE CallbackReturns(c)
    BY <1>2 DEF CallbackReturns
<1> QED
    BY <1>1, <1>2

\* Every step.
LEMMA NextHolds == IInv /\ [Next]_vars => IInv'
<1>1. IInv /\ UNCHANGED vars => IInv'
    BY DEF IInv, TypeOK, NoDanglingPointer, OwnMail, FlagFollows, BoxesOfCalls, vars
<1> QED
    BY <1>1, CallerStep, CallbackStep DEF Next

\* The invariant holds throughout.
LEMMA Invariance == Spec => []IInv
BY InitHolds, NextHolds, PTL DEF Spec

\* The type invariant of the encoder, for any number of calls.
THEOREM TypeCorrect == Spec => []TypeOK
<1>1. IInv => TypeOK
    BY DEF IInv
<1> QED
    BY <1>1, Invariance, PTL

\* The pointer VideoToolbox holds is never dangling and never shared.
THEOREM NoDanglingPointerAlways == Spec => []NoDanglingPointer
<1>1. IInv => NoDanglingPointer
    BY DEF IInv
<1> QED
    BY <1>1, Invariance, PTL

\* VtH264Encoder implements EncoderService: a call is answered with its own
\* frame or with nothing, whatever comes late.
THEOREM Implementation == Spec => ImplementsService
<1>1. Init => Service!Init
    BY DEF Init, Service!Init, NoAnswer, Service!NoAnswer
<1>2. IInv /\ [Next]_vars => [Service!Next]_<<calls, encoding, frameId, answer>>
    <2> SUFFICES ASSUME IInv, [Next]_vars PROVE [Service!Next]_<<calls, encoding, frameId, answer>>
        OBVIOUS
    <2> USE DEF Service!Next, Service!Ask, Service!Answer, Service!Replace
    <2>1. CASE Encode
        BY <2>1 DEF Encode
    <2>2. CASE VtAccepts
        BY <2>2 DEF VtAccepts
    <2>3. CASE VtRefuses \/ Disconnected \/ Timeout
        BY <2>3 DEF VtRefuses, Disconnected, Timeout, Return, NoAnswer, Service!NoAnswer, IInv, FlagFollows
    <2>4. CASE Receive
        <3>1. mail[calls] = calls
            BY <2>4 DEF Receive, IInv, OwnMail, BoxesOfCalls
        <3> QED
            BY <2>4, <3>1 DEF Receive, Return, IInv, FlagFollows
    <2>5. ASSUME NEW c \in Calls, Callback(c) \/ CallbackReturns(c)
          PROVE  UNCHANGED <<calls, encoding, frameId, answer>>
        BY <2>5 DEF Callback, CallbackReturns
    <2>6. CASE Replace
        <3>1. encoding' = encoding
            BY <2>6, Zenon DEF Replace, IInv, TypeOK, FlagFollows
        <3> QED
            BY <2>6, <3>1 DEF Replace, IInv, FlagFollows
    <2>7. CASE UNCHANGED vars
        BY <2>7 DEF vars
    <2> QED
        BY <2>1, <2>2, <2>3, <2>4, <2>5, <2>6, <2>7 DEF Next
<1> QED
    BY <1>1, <1>2, Invariance, PTL DEF Spec, ImplementsService, Service!Spec
==============================================================================
