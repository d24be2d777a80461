-------------------------------- MODULE Input --------------------------------
(***************************************************************************)
(* MacInputHandler (input.rs): keys and buttons of the clients, injected   *)
(* into the Mac.  The handler lives as long as the server: its modifier    *)
(* flags, and whatever is down on the Mac, outlive a connection.           *)
(*                                                                         *)
(* A client sends a release for what it sent a press for, unless the       *)
(* connection ends first.  An event that cannot be made is not posted, and *)
(* nobody is told.                                                         *)
(***************************************************************************)
EXTENDS Keyboard

CONSTANTS
    Keys,        \* the scancodes clients use, a subset of Scans
    Chars,       \* the Unicode characters they send
    Buttons,     \* mouse buttons: "left", "right", "middle", others unhandled
    MaxClients   \* bound on connections

VARIABLES
    clients,  \* connections so far
    held,     \* scancodes and characters the client holds
    flags,    \* cmd_pressed, alt_pressed, shift_pressed, ctrl_pressed
    left,     \* modifiers of scancodes that clients held when they left
    down,     \* keys that are down on the Mac
    owed,     \* those whose key-up was lost: not posted, or the client left
    mouse     \* the same for buttons: held, down, owed

inputVars == <<clients, held, flags, left, down, owed, mouse>>

Modifiers == {"cmd", "alt", "shift", "ctrl"}

\* The modifier flash_key takes a scancode for.
ModifierOf(code) ==
    CASE code \in {\h5B, \h5C} -> {"cmd"}
      [] code = \h38 -> {"alt"}
      [] code \in {\h2A, \h36} -> {"shift"}
      [] code = \h1D -> {"ctrl"}
      [] OTHER -> {}

Modifier(k) == IF k \in Chars THEN {} ELSE ModifierOf(k.code)

\* The key that is posted: a character goes with key code 0, which is that of
\* the letter A; a scancode without a key posts nothing.
KeyOf(k) == IF k \in Chars THEN "a" ELSE scancode_to_cg[k]
Posted(k) == {KeyOf(k)} \ {NoKey}

TypeOK ==
    /\ clients \in 0 .. MaxClients
    /\ held \subseteq Keys \cup Chars
    /\ flags \subseteq Modifiers /\ left \subseteq Modifiers
    /\ down \subseteq {KeyOf(k) : k \in Keys \cup Chars} \ {NoKey} /\ owed \subseteq down
    /\ mouse \in [held : SUBSET Buttons, down : SUBSET Buttons, owed : SUBSET Buttons]

Init ==
    /\ clients = 0
    /\ held = {}
    /\ flags = {} /\ left = {}
    /\ down = {} /\ owed = {}
    /\ mouse = [held |-> {}, down |-> {}, owed |-> {}]

\* keyboard, Pressed and UnicodePressed, a key that repeats included: the flag
\* is set even if nothing is posted.  Synchronize leaves no trace.
KeyPressed(k) ==
    /\ held' = held \cup {k}
    /\ flags' = flags \cup Modifier(k)
    /\ down' \in {down, down \cup Posted(k)}
    /\ UNCHANGED <<clients, left, owed, mouse>>

\* The client lets go, and the event is posted or cannot be made.
LetsGo(k) ==
    /\ k \in held
    /\ held' = held \ {k}
    /\ left' = left \ Modifier(k)
    /\ UNCHANGED <<clients, mouse>>
Comes(keys) == down' = down \ keys /\ owed' = owed \ keys
Lost(keys) == down' = down /\ owed' = owed \cup (keys \cap down)

\* Mutant: the flag of the right key is left set.
KeyReleasedKeepsFlag(k) ==
    /\ LetsGo(k)
    /\ Comes(Posted(k)) \/ Lost(Posted(k))
    /\ flags' = flags \ (IF k \notin Chars /\ k.code = \h36 THEN {} ELSE Modifier(k))

\* Mutant: the extended bit is ignored.
KeyReleasedPlain(k) ==
    /\ LetsGo(k)
    /\ LET keys == IF k \in Chars THEN Posted(k) ELSE Posted([k EXCEPT !.extended = FALSE]) IN
         Comes(keys) \/ Lost(keys)
    /\ flags' = flags \ Modifier(k)

\* keyboard, Released and UnicodeReleased: the flag is cleared even if nothing
\* is posted.
KeyReleased(k) ==
    /\ LetsGo(k)
    /\ Comes(Posted(k)) \/ Lost(Posted(k))
    /\ flags' = flags \ Modifier(k)

\* mouse: buttons beyond the three are not handled.  Moves and scrolling
\* leave no trace in what is held.
Handled(b) == {b} \cap {"left", "right", "middle"}

ButtonPressed(b) ==
    /\ b \notin mouse.held
    /\ \E pressed \in {{}, Handled(b)} :
          mouse' = [mouse EXCEPT !.held = @ \cup {b}, !.down = @ \cup pressed]
    /\ UNCHANGED <<clients, held, flags, left, down, owed>>

ButtonReleased(b) ==
    /\ b \in mouse.held
    /\ \/ mouse' = [held |-> mouse.held \ {b}, down |-> mouse.down \ Handled(b),
                    owed |-> mouse.owed \ Handled(b)]
       \/ mouse' = [mouse EXCEPT !.held = @ \ {b}, !.owed = @ \cup ({b} \cap mouse.down)]
    /\ UNCHANGED <<clients, held, flags, left, down, owed>>

\* The connection ends and another begins; nobody tells the handler.
ClientGoes ==
    /\ clients < MaxClients
    /\ clients' = clients + 1
    /\ held' = {}
    /\ left' = left \cup (UNION {Modifier(k) : k \in held})
    /\ owed' = owed \cup ({KeyOf(k) : k \in held} \cap down)
    /\ mouse' = [held |-> {}, down |-> mouse.down,
                 owed |-> mouse.owed \cup (mouse.held \cap mouse.down)]
    /\ UNCHANGED <<flags, down>>

Next ==
    \/ \E k \in Keys \cup Chars : KeyPressed(k) \/ KeyReleased(k)
    \/ \E b \in Buttons : ButtonPressed(b) \/ ButtonReleased(b)
    \/ ClientGoes

Spec == Init /\ [][Next]_inputVars

-----------------------------------------------------------------------------

\* What is down on the Mac is held by the client, or its last key-up was lost:
\* the event could not be made, or the client left without sending one.  The
\* next release of the key that is posted, of any scancode or character that
\* shares it, ends that.
NothingStuck ==
    /\ down \subseteq {KeyOf(k) : k \in held} \cup owed
    /\ mouse.down \subseteq mouse.held \cup mouse.owed

\* "Track modifier key state so Cmd+Tab and similar combinations work"
\* (input.rs:18): a key event never carries a modifier whose keys nobody holds,
\* but for those of clients that left, until a key of that modifier is released.
NoGhostModifier == flags \subseteq (UNION {Modifier(k) : k \in held}) \cup left

\* Both.
HoldersKnown == NothingStuck /\ NoGhostModifier
==============================================================================
