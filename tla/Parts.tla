-------------------------------- MODULE Parts --------------------------------
(***************************************************************************)
(* Parts of the server that share nothing with each other, in one          *)
(* specification: a behaviour runs one of them and leaves the others at    *)
(* rest.                                                                   *)
(***************************************************************************)
EXTENDS H264Encode, Sequences

CONSTANTS
    Texts, Empty, MaxBackends, MaxCopies, MaxEvents,  \* Clipboard
    Keys, Chars, Buttons, MaxClients,                 \* Input
    Max, Lengths,                                     \* Fragmenter
    Widths, Heights,                                  \* Letterbox
    MaxFrames,                                        \* CgCapture
    Targets, Pool, NoMode, Unit, Tolerance, Slack     \* ModeChoice

VARIABLES
    mac, client, copies, backend, link, known, stop, poller, events, fromClient, noting, theirs,
    raced, newest, late,                              \* Clipboard
    clients, held, flags, left, down, owed, mouse,    \* Input
    length, position, index, assembly,                \* Fragmenter
    frame, target, rect, native,                      \* Letterbox
    turn, turnAt, holds, locked,                      \* CgCapture
    want, listed, rest, best, pass,                   \* ModeChoice
    part                                              \* the one that runs

Clip == INSTANCE Clipboard
In == INSTANCE Input
Frag == INSTANCE Fragmenter
Box == INSTANCE Letterbox
Cg == INSTANCE CgCapture WITH frame <- turn, at <- turnAt
Choice == INSTANCE ModeChoice

\* Texts are told from no text.
ASSUME ClipboardAssumption ==
    MaxBackends \in Nat /\ MaxCopies \in Nat /\ MaxEvents \in Nat /\ Empty \notin Texts

\* Clients send scancodes, and characters that are none.
ASSUME InputAssumption ==
    Keys \subseteq In!Scans /\ Chars \cap In!Scans = {} /\ MaxClients \in Nat

\* A fragment has room for something.
ASSUME FragmenterAssumption == Max \in Nat \ {0} /\ Lengths \subseteq Nat

\* Frames, desktops and windows have pixels.
ASSUME LetterboxAssumption == Widths \subseteq Nat \ {0} /\ Heights \subseteq Nat \ {0}

ASSUME CgCaptureAssumption == MaxFrames \in Nat

\* A client wants pixels, which a mode of the list need not have; the
\* tolerances are positive numbers.
ASSUME ModeChoiceAssumption ==
    /\ Targets \subseteq [w : Nat \ {0}, h : Nat \ {0}]
    /\ Pool \subseteq [w : Nat, h : Nat] /\ NoMode \notin Pool
    /\ Unit \in Nat \ {0} /\ Tolerance \in Nat \ {0} /\ Slack \in Nat \ {0}

clipboardVars == <<mac, client, copies, backend, link, known, stop, poller, events, fromClient,
                   noting, theirs, raced, newest, late>>
keyVars == <<clients, held, flags, left, down, owed, mouse>>
fragmentVars == <<length, position, index, assembly>>
rectVars == <<frame, target, rect, native>>
bufferVars == <<turn, turnAt, holds, locked>>
choiceVars == <<want, listed, rest, best, pass>>
partsVars == <<vars, clipboardVars, keyVars, fragmentVars, rectVars, bufferVars, choiceVars, part>>

PartNames == {"encode", "clipboard", "input", "fragmenter", "letterbox", "capture", "choice"}

\* A part that is at rest has only one initial state.
Any(S) == CHOOSE x \in S : TRUE

PartsInit ==
    /\ part \in PartNames
    /\ Init /\ Clip!Init /\ In!Init /\ Frag!Init /\ Box!Init /\ Cg!Init
    /\ Choice!Init
    /\ part # "clipboard" => mac = Empty
    /\ part # "fragmenter" => length = Any(Lengths)
    /\ part # "choice" => want = Any(Targets) /\ listed = {}

PartsNext ==
    /\ UNCHANGED part
    /\ \/ part = "encode" /\ Next
          /\ UNCHANGED <<clipboardVars, keyVars, fragmentVars, rectVars, bufferVars, choiceVars>>
       \/ part = "clipboard" /\ Clip!Next
          /\ UNCHANGED <<vars, keyVars, fragmentVars, rectVars, bufferVars, choiceVars>>
       \/ part = "input" /\ In!Next
          /\ UNCHANGED <<vars, clipboardVars, fragmentVars, rectVars, bufferVars, choiceVars>>
       \/ part = "fragmenter" /\ Frag!Next
          /\ UNCHANGED <<vars, clipboardVars, keyVars, rectVars, bufferVars, choiceVars>>
       \/ part = "letterbox" /\ Box!Next
          /\ UNCHANGED <<vars, clipboardVars, keyVars, fragmentVars, bufferVars, choiceVars>>
       \/ part = "choice" /\ Choice!Next
          /\ UNCHANGED <<vars, clipboardVars, keyVars, fragmentVars, rectVars, bufferVars>>
       \/ part = "capture" /\ Cg!Next
          /\ UNCHANGED <<vars, clipboardVars, keyVars, fragmentVars, rectVars, choiceVars>>

\* The fairness of the two parts that need some.  Of a part that is at rest it
\* asks nothing, since none of its actions is possible there.
PartsSpec == PartsInit /\ [][PartsNext]_partsVars /\ Fairness /\ Clip!Fairness

-----------------------------------------------------------------------------

\* The type invariants of the parts.
PartsTypeOK == TypeOK /\ Clip!TypeOK /\ In!TypeOK /\ Frag!TypeOK /\ Cg!TypeOK
               /\ Choice!TypeOK


\* What is down on the Mac is held by somebody or its key-up was lost: Input.
HoldersKnown == In!HoldersKnown

\* Boundaries of the arithmetic: the client gets every update whole, and
\* pictures stay inside of their desktop, the mode suits the size that is
\* wanted: Fragmenter, Letterbox, ModeChoice.
SizesFit == Frag!Reassembles /\ Box!Fits /\ Choice!ChoosesWell

\* Pixel buffers are given back: CgCapture.
BuffersReturned == Cg!BuffersReturned
==============================================================================
