----------------------------- MODULE PartsProofs -----------------------------
(***************************************************************************)
(* The parts of Parts, each by an invariant of its own that the steps of   *)
(* the others leave alone: for every set of keys, texts, modes and sizes   *)
(* and any number of clients, calls and frames.                            *)
(***************************************************************************)
EXTENDS Parts, H264EncodeProofs, Integers

\* A step is one of a part, or changes nothing of it.
LEMMA PartSteps ==
    ASSUME [PartsNext]_partsVars
    PROVE  /\ [Next]_vars
           /\ [Clip!Next]_clipboardVars
           /\ [In!Next]_keyVars
           /\ [Frag!Next]_fragmentVars
           /\ [Box!Next]_rectVars
           /\ [Cg!Next]_bufferVars
           /\ [Choice!Next]_choiceVars
<1>1. CASE PartsNext
    BY <1>1, Zenon DEF PartsNext
<1>2. CASE UNCHANGED partsVars
    BY <1>2 DEF partsVars
<1> QED
    BY <1>1, <1>2

\* The encoder's invariant is that of H264EncodeProofs.
LEMMA EncodeInvariance == PartsSpec => []IInv
<1>1. PartsInit => IInv
    BY InitHolds DEF PartsInit
<1>2. IInv /\ [PartsNext]_partsVars => IInv'
    BY PartSteps, NextHolds
<1> QED
    BY <1>1, <1>2, PTL DEF PartsSpec

-----------------------------------------------------------------------------
(* Input. *)

\* Only the three buttons that are handled go down; or the release of another
\* one would leave it there.
OnlyHandled == mouse.down \subseteq {"left", "right", "middle"}

KeyInv == In!TypeOK /\ OnlyHandled /\ In!HoldersKnown

\* What has to do with the keyboard alone.
KeyType ==
    /\ held \subseteq Keys \cup Chars
    /\ flags \subseteq In!Modifiers /\ left \subseteq In!Modifiers
    /\ down \subseteq {In!KeyOf(k) : k \in Keys \cup Chars} \ {In!NoKey} /\ owed \subseteq down

\* A scancode is of one modifier or none, a character of none.
LEMMA ModifierFacts == ASSUME NEW k PROVE In!Modifier(k) \subseteq In!Modifiers
BY DEF In!Modifier, In!ModifierOf, In!Modifiers

\* Nothing is down and nobody holds anything.
LEMMA KeyInit == In!Init => KeyInv
<1> SUFFICES ASSUME In!Init PROVE KeyInv
    OBVIOUS
<1>1. In!TypeOK
    BY InputAssumption DEF In!Init, In!TypeOK
<1>2. OnlyHandled /\ In!HoldersKnown
    BY DEF In!Init, OnlyHandled, In!HoldersKnown, In!NothingStuck, In!NoGhostModifier
<1> QED
    BY <1>1, <1>2 DEF KeyInv

\* A step of the keyboard keeps what it says of the mouse.
LEMMA KeysOnly ==
    ASSUME KeyInv, UNCHANGED <<clients, mouse>>, KeyType',
           down' \subseteq {In!KeyOf(k) : k \in held'} \cup owed',
           flags' \subseteq (UNION {In!Modifier(k) : k \in held'}) \cup left'
    PROVE  KeyInv'
BY DEF KeyInv, KeyType, In!TypeOK, OnlyHandled, In!HoldersKnown, In!NothingStuck, In!NoGhostModifier

\* A step of the mouse keeps what it says of the keyboard.
LEMMA MouseOnly ==
    ASSUME KeyInv, UNCHANGED <<clients, held, flags, left, down, owed>>,
           mouse' \in [held : SUBSET Buttons, down : SUBSET Buttons, owed : SUBSET Buttons],
           mouse'.down \subseteq mouse'.held \cup mouse'.owed,
           mouse'.down \subseteq {"left", "right", "middle"}
    PROVE  KeyInv'
<1>1. In!TypeOK'
    BY DEF KeyInv, In!TypeOK
<1>2. In!HoldersKnown'
    BY DEF KeyInv, In!HoldersKnown, In!NothingStuck, In!NoGhostModifier
<1> QED
    BY <1>1, <1>2 DEF KeyInv, OnlyHandled

\* A press adds what is held to what is down.
LEMMA PressStep ==
    ASSUME KeyInv, NEW k \in Keys \cup Chars, In!KeyPressed(k)
    PROVE  KeyInv'
<1>1. /\ held' = held \cup {k}
      /\ flags' = flags \cup In!Modifier(k)
      /\ down' \subseteq down \cup ({In!KeyOf(k)} \ {In!NoKey}) /\ down \subseteq down'
      /\ UNCHANGED <<clients, left, owed, mouse>>
    BY DEF In!KeyPressed, In!Posted
<1>2. /\ KeyType
      /\ down \subseteq {In!KeyOf(c) : c \in held} \cup owed
      /\ flags \subseteq (UNION {In!Modifier(c) : c \in held}) \cup left
    BY DEF KeyInv, KeyType, In!TypeOK, In!HoldersKnown, In!NothingStuck, In!NoGhostModifier
<1>3. KeyType'
    BY <1>1, <1>2, ModifierFacts DEF KeyType
<1>4. /\ down' \subseteq {In!KeyOf(c) : c \in held'} \cup owed'
      /\ flags' \subseteq (UNION {In!Modifier(c) : c \in held'}) \cup left'
    BY <1>1, <1>2
<1> QED
    BY <1>1, <1>3, <1>4, KeysOnly

\* A release takes away the key and the modifier of one holder, or owes the
\* key.  Whatever else is down is another key's or owed, whatever else is set
\* another modifier's.
LEMMA ReleaseStep ==
    ASSUME KeyInv, NEW k \in Keys \cup Chars, In!KeyReleased(k)
    PROVE  KeyInv'
<1>1. /\ held' = held \ {k}
      /\ flags' = flags \ In!Modifier(k) /\ left' = left \ In!Modifier(k)
      /\ UNCHANGED <<clients, mouse>>
      /\ \/ down' = down \ In!Posted(k) /\ owed' = owed \ In!Posted(k)
         \/ down' = down /\ owed' = owed \cup (In!Posted(k) \cap down)
    BY DEF In!KeyReleased, In!LetsGo, In!Comes, In!Lost
<1>2. /\ KeyType
      /\ down \subseteq {In!KeyOf(c) : c \in held} \cup owed
      /\ flags \subseteq (UNION {In!Modifier(c) : c \in held}) \cup left
    BY DEF KeyInv, KeyType, In!TypeOK, In!HoldersKnown, In!NothingStuck, In!NoGhostModifier
<1>3. KeyType'
    BY <1>1, <1>2 DEF KeyType
<1>4. ASSUME NEW d \in down'
      PROVE  d \in {In!KeyOf(c) : c \in held'} \cup owed'
    <2>1. d \in down
        BY <1>1
    <2>2. CASE d \in In!Posted(k)
        BY <1>1, <2>1, <2>2
    <2>3. CASE d \notin In!Posted(k)
        <3>1. d # In!KeyOf(k)
            BY <1>2, <2>1, <2>3 DEF In!Posted, KeyType
        <3>2. CASE d \in owed
            BY <1>1, <2>3, <3>2
        <3>3. CASE d \notin owed
            <4>1. PICK c \in held : d = In!KeyOf(c)
                BY <1>2, <2>1, <3>3
            <4> QED
                BY <1>1, <3>1, <4>1
        <3> QED
            BY <3>2, <3>3
    <2> QED
        BY <2>2, <2>3
<1>5. ASSUME NEW m \in flags'
      PROVE  m \in (UNION {In!Modifier(c) : c \in held'}) \cup left'
    <2>1. m \in flags /\ m \notin In!Modifier(k)
        BY <1>1
    <2>2. CASE m \in left
        BY <1>1, <2>1, <2>2
    <2>3. CASE m \notin left
        <3>1. PICK c \in held : m \in In!Modifier(c)
            BY <1>2, <2>1, <2>3
        <3>2. c \in held'
            BY <1>1, <2>1, <3>1
        <3> QED
            BY <3>1, <3>2
    <2> QED
        BY <2>2, <2>3
<1> QED
    BY <1>1, <1>3, <1>4, <1>5, KeysOnly

\* The same for buttons.
LEMMA ButtonStep ==
    ASSUME KeyInv, NEW b \in Buttons, In!ButtonPressed(b) \/ In!ButtonReleased(b)
    PROVE  KeyInv'
<1>1. /\ mouse \in [held : SUBSET Buttons, down : SUBSET Buttons, owed : SUBSET Buttons]
      /\ mouse.down \subseteq mouse.held \cup mouse.owed
      /\ mouse.down \subseteq {"left", "right", "middle"}
    BY DEF KeyInv, In!TypeOK, OnlyHandled, In!HoldersKnown, In!NothingStuck
<1>2. UNCHANGED <<clients, held, flags, left, down, owed>>
    BY DEF In!ButtonPressed, In!ButtonReleased
<1>3. CASE In!ButtonPressed(b)
    <2>1. PICK pressed \in {{}, In!Handled(b)} :
             mouse' = [mouse EXCEPT !.held = @ \cup {b}, !.down = @ \cup pressed]
        BY <1>3 DEF In!ButtonPressed
    <2>2. pressed \subseteq {b} /\ pressed \subseteq {"left", "right", "middle"}
        BY DEF In!Handled
    <2>3. /\ mouse' \in [held : SUBSET Buttons, down : SUBSET Buttons, owed : SUBSET Buttons]
          /\ mouse'.held = mouse.held \cup {b} /\ mouse'.owed = mouse.owed
          /\ mouse'.down = mouse.down \cup pressed
        BY <1>1, <2>1, <2>2
    <2>4. mouse'.down \subseteq mouse'.held \cup mouse'.owed /\ mouse'.down \subseteq {"left", "right", "middle"}
        BY <1>1, <2>2, <2>3
    <2> QED
        BY <1>2, <2>3, <2>4, MouseOnly
<1>4. CASE In!ButtonReleased(b)
    <2>1. CASE mouse' = [held |-> mouse.held \ {b}, down |-> mouse.down \ In!Handled(b),
                         owed |-> mouse.owed \ In!Handled(b)]
        <3>1. /\ mouse' \in [held : SUBSET Buttons, down : SUBSET Buttons, owed : SUBSET Buttons]
              /\ mouse'.held = mouse.held \ {b}
              /\ mouse'.down = mouse.down \ ({b} \cap {"left", "right", "middle"})
              /\ mouse'.owed = mouse.owed \ ({b} \cap {"left", "right", "middle"})
            BY <1>1, <2>1 DEF In!Handled
        <3>2. mouse'.down \subseteq mouse'.held \cup mouse'.owed /\ mouse'.down \subseteq mouse.down
            BY <1>1, <3>1
        <3> QED
            BY <1>1, <1>2, <3>1, <3>2, MouseOnly
    <2>2. CASE mouse' = [mouse EXCEPT !.held = @ \ {b}, !.owed = @ \cup ({b} \cap mouse.down)]
        <3>1. /\ mouse' \in [held : SUBSET Buttons, down : SUBSET Buttons, owed : SUBSET Buttons]
              /\ mouse'.held = mouse.held \ {b} /\ mouse'.down = mouse.down
              /\ mouse'.owed = mouse.owed \cup ({b} \cap mouse.down)
            BY <1>1, <2>2
        <3>2. mouse'.down \subseteq mouse'.held \cup mouse'.owed
            BY <1>1, <3>1
        <3> QED
            BY <1>1, <1>2, <3>1, <3>2, MouseOnly
    <2> QED
        BY <1>4, <2>1, <2>2 DEF In!ButtonReleased
<1> QED
    BY <1>3, <1>4

\* What a client held when it left is owed, and its modifiers are left over.
LEMMA GoesStep ==
    ASSUME KeyInv, In!ClientGoes
    PROVE  KeyInv'
<1>1. /\ clients' = clients + 1 /\ clients < MaxClients
      /\ held' = {}
      /\ left' = left \cup (UNION {In!Modifier(k) : k \in held})
      /\ owed' = owed \cup ({In!KeyOf(k) : k \in held} \cap down)
      /\ mouse' = [held |-> {}, down |-> mouse.down,
                   owed |-> mouse.owed \cup (mouse.held \cap mouse.down)]
      /\ UNCHANGED <<flags, down>>
    BY DEF In!ClientGoes
<1>2. /\ clients \in 0 .. MaxClients /\ KeyType
      /\ mouse \in [held : SUBSET Buttons, down : SUBSET Buttons, owed : SUBSET Buttons]
      /\ mouse.down \subseteq {"left", "right", "middle"}
    BY DEF KeyInv, In!TypeOK, KeyType, OnlyHandled
<1>3. /\ down \subseteq {In!KeyOf(k) : k \in held} \cup owed
      /\ mouse.down \subseteq mouse.held \cup mouse.owed
      /\ flags \subseteq (UNION {In!Modifier(k) : k \in held}) \cup left
    BY DEF KeyInv, In!HoldersKnown, In!NothingStuck, In!NoGhostModifier
<1>4. clients' \in 0 .. MaxClients
    BY <1>1, <1>2, InputAssumption
<1>5. (UNION {In!Modifier(k) : k \in held}) \subseteq In!Modifiers
    BY ModifierFacts
<1>6. KeyType'
    BY <1>1, <1>2, <1>5 DEF KeyType
<1>7. /\ mouse' \in [held : SUBSET Buttons, down : SUBSET Buttons, owed : SUBSET Buttons]
      /\ mouse'.down \subseteq mouse'.held \cup mouse'.owed
      /\ mouse'.down \subseteq {"left", "right", "middle"}
    BY <1>1, <1>2, <1>3
<1>8. /\ down' \subseteq {In!KeyOf(k) : k \in held'} \cup owed'
      /\ flags' \subseteq (UNION {In!Modifier(k) : k \in held'}) \cup left'
    BY <1>1, <1>3
<1>9. In!TypeOK'
    BY <1>4, <1>6, <1>7 DEF KeyType, In!TypeOK
<1>10. In!HoldersKnown'
    BY <1>7, <1>8 DEF In!HoldersKnown, In!NothingStuck, In!NoGhostModifier
<1> QED
    BY <1>7, <1>9, <1>10 DEF KeyInv, OnlyHandled

\* Every step.
LEMMA KeyNext == KeyInv /\ [In!Next]_keyVars => KeyInv'
<1> SUFFICES ASSUME KeyInv, [In!Next]_keyVars PROVE KeyInv'
    OBVIOUS
<1>1. CASE In!Next
    BY <1>1, PressStep, ReleaseStep, ButtonStep, GoesStep DEF In!Next
<1>2. CASE UNCHANGED keyVars
    BY <1>2 DEF keyVars, KeyInv, In!TypeOK, In!HoldersKnown, In!NothingStuck, In!NoGhostModifier,
                OnlyHandled
<1> QED
    BY <1>1, <1>2

\* What is down on the Mac.
LEMMA KeyInvariance == PartsSpec => []KeyInv
<1>1. PartsInit => KeyInv
    BY KeyInit DEF PartsInit
<1>2. KeyInv /\ [PartsNext]_partsVars => KeyInv'
    BY PartSteps, KeyNext
<1> QED
    BY <1>1, <1>2, PTL DEF PartsSpec

\* Whatever is posted or not, and whoever leaves with what: a key or button that
\* is down on the Mac is held by the client or its last key-up was lost, and a
\* modifier is of a key that is held or that a client held when it left, with
\* no release of such a key since (input.rs).
THEOREM HoldersKnownAlways == PartsSpec => []HoldersKnown
<1>1. KeyInv => HoldersKnown
    BY DEF KeyInv, HoldersKnown
<1> QED
    BY <1>1, KeyInvariance, PTL

-----------------------------------------------------------------------------
(* CgCapture. *)

\* The turn under way has a buffer of its own.
BufferInv ==
    /\ Cg!TypeOK /\ Cg!BuffersReturned
    /\ turnAt # "tick" => turn # 0

\* Nobody has a buffer.
LEMMA BufferInit == Cg!Init => BufferInv
BY CgCaptureAssumption DEF Cg!Init, BufferInv, Cg!TypeOK, Cg!BuffersReturned, Cg!Frames

\* Every step, the failing ones included.
LEMMA BufferNext == BufferInv /\ [Cg!Next]_bufferVars => BufferInv'
<1> SUFFICES ASSUME BufferInv, [Cg!Next]_bufferVars PROVE BufferInv'
    OBVIOUS
<1> USE CgCaptureAssumption DEF BufferInv, Cg!TypeOK, Cg!BuffersReturned, Cg!Frames, Cg!Step
<1>1. CASE Cg!NoBuffer \/ Cg!Refuse \/ Cg!Bitmap
    BY <1>1 DEF Cg!NoBuffer, Cg!Refuse, Cg!Bitmap
<1>9. CASE Cg!Tick
    <2>1. /\ turn' \in 1 .. MaxFrames /\ turnAt = "tick" /\ turnAt' = "image"
          /\ holds' = holds /\ locked' = locked
        BY <1>9 DEF Cg!Tick
    <2> QED
        BY <2>1
<1>2. CASE Cg!Create
    BY <1>2 DEF Cg!Create, Cg!Hold
<1>3. CASE Cg!LockFails
    BY <1>3 DEF Cg!LockFails, Cg!Release
<1>4. CASE Cg!Draw
    BY <1>4 DEF Cg!Draw, Cg!Wrap
<1>5. CASE Cg!Encode
    BY <1>5 DEF Cg!Encode, Cg!Hold
<1>6. CASE Cg!EndTurn
    BY <1>6 DEF Cg!EndTurn, Cg!Release
<1>7. CASE Cg!VtReleases
    BY <1>7 DEF Cg!VtReleases
<1>8. CASE UNCHANGED bufferVars
    BY <1>8 DEF bufferVars
<1> QED
    BY <1>1, <1>2, <1>3, <1>4, <1>5, <1>6, <1>7, <1>8, <1>9 DEF Cg!Next

\* The buffers of all turns.
LEMMA BufferInvariance == PartsSpec => []BufferInv
<1>1. PartsInit => BufferInv
    BY BufferInit DEF PartsInit
<1>2. BufferInv /\ [PartsNext]_partsVars => BufferInv'
    BY PartSteps, BufferNext
<1> QED
    BY <1>1, <1>2, PTL DEF PartsSpec

\* A buffer is locked only while the wrapper that unlocks it has it, and the
\* server has none left when a turn ends, whichever step of it fails
\* (cg_capture.rs: create_bgra_pixel_buffer and Drop for CVPixelBufferWrapper).
THEOREM BuffersReturnedAlways == PartsSpec => []BuffersReturned
<1>1. BufferInv => BuffersReturned
    BY DEF BufferInv, BuffersReturned
<1> QED
    BY <1>1, BufferInvariance, PTL

-----------------------------------------------------------------------------
(* Fragmenter. *)

\* The first fragment is that of index 0.
FragmentInv ==
    /\ Frag!TypeOK /\ Frag!Reassembles
    /\ index = 0 <=> position = 0

\* Nothing has been sent.
LEMMA FragmentInit == Frag!Init => FragmentInv
BY FragmenterAssumption DEF Frag!Init, FragmentInv, Frag!TypeOK, Frag!Reassembles

\* One more fragment.
LEMMA FragmentNext == FragmentInv /\ [Frag!Next]_fragmentVars => FragmentInv'
<1> SUFFICES ASSUME FragmentInv, [Frag!Next]_fragmentVars PROVE FragmentInv'
    OBVIOUS
<1>0. /\ length \in Nat /\ position \in Nat /\ position <= length /\ index \in Nat
      /\ Max \in Nat \ {0} /\ length \in Lengths
      /\ assembly \in [state : {"empty", "partial", "whole", "broken"}, got : Nat]
      /\ index = 0 <=> position = 0
      /\ assembly.got = position
      /\ position = 0 => assembly.state = "empty"
      /\ position # 0 /\ position # length => assembly.state = "partial"
    BY FragmenterAssumption DEF FragmentInv, Frag!TypeOK, Frag!Reassembles
<1>1. ASSUME NEW kind, NEW size \in Nat \ {0}, Frag!Fragment(kind, size), position + size <= length,
             kind = IF position + size = length
                    THEN IF index > 0 THEN "last" ELSE "single"
                    ELSE IF index > 0 THEN "next" ELSE "first"
      PROVE  FragmentInv'
    <2>1. /\ position' = position + size /\ index' = index + 1 /\ length' = length
          /\ assembly'.got = position'
        BY <1>0, <1>1 DEF Frag!Fragment, Frag!Assemble
    <2>2. assembly'.state = IF position' = length THEN "whole" ELSE "partial"
        <3>1. CASE position = 0
            BY <1>0, <1>1, <2>1, <3>1 DEF Frag!Fragment, Frag!Assemble
        <3>2. CASE position # 0
            <4>1. position # length /\ assembly.state = "partial" /\ index > 0
                BY <1>0, <1>1, <3>2
            <4> QED
                BY <1>0, <1>1, <2>1, <4>1 DEF Frag!Fragment, Frag!Assemble
        <3> QED
            BY <3>1, <3>2
    <2>3. assembly' \in [state : {"empty", "partial", "whole", "broken"}, got : Nat]
        <3>1. assembly' = [got |-> assembly'.got, state |-> assembly'.state]
            BY <1>1 DEF Frag!Fragment, Frag!Assemble
        <3> QED
            BY <1>0, <2>1, <2>2, <3>1
    <2> QED
        BY <1>0, <1>1, <2>1, <2>2, <2>3 DEF FragmentInv, Frag!TypeOK, Frag!Reassembles
<1>2. CASE Frag!Next
    <2>1. CASE length - position \in 1 .. Max
        <3>1. Frag!Fragment(IF index > 0 THEN "last" ELSE "single", length - position)
            BY <1>0, <1>2, <2>1 DEF Frag!Next, Frag!EncodeNext
        <3> QED
            BY <1>0, <1>1, <2>1, <3>1
    <2>2. CASE length - position > Max
        <3>1. Frag!Fragment(IF index > 0 THEN "next" ELSE "first", Max)
            BY <1>0, <1>2, <2>2 DEF Frag!Next, Frag!EncodeNext
        <3> QED
            BY <1>0, <1>1, <2>2, <3>1
    <2> QED
        BY <1>2, <2>1, <2>2 DEF Frag!Next, Frag!EncodeNext
<1>3. CASE UNCHANGED fragmentVars
    BY <1>3 DEF fragmentVars, FragmentInv, Frag!TypeOK, Frag!Reassembles
<1> QED
    BY <1>2, <1>3

\* Every update, whatever its length.
LEMMA FragmentInvariance == PartsSpec => []FragmentInv
<1>1. PartsInit => FragmentInv
    BY FragmentInit DEF PartsInit
<1>2. FragmentInv /\ [PartsNext]_partsVars => FragmentInv'
    BY PartSteps, FragmentNext
<1> QED
    BY <1>1, <1>2, PTL DEF PartsSpec

-----------------------------------------------------------------------------
(* ModeChoice. *)

\* No mode that is large enough has the right shape.
NoneFits == \A m \in listed : ~(Choice!Usable(m) /\ Choice!Fits(m))

\* What is best of the modes looked at, and the wanted size if it is one of
\* them; the second pass is for displays without a mode of the right shape.
ChoiceInv ==
    /\ Choice!TypeOK
    /\ best # NoMode => Choice!Usable(best) /\ (Choice!Fits(best) \/ (NoneFits /\ pass # 1))
    /\ best = NoMode =>
          \A m \in listed \ rest : Choice!Usable(m) => pass = 1 /\ ~Choice!Fits(m)
    /\ pass = 2 => NoneFits
    /\ pass = 3 => rest = {} /\ (best = NoMode => NoneFits)
    /\ want \in listed \ rest => best = want \/ Choice!Twin(best)

\* What comes of multiplying positive numbers.
LEMMA Products ==
    /\ \A m, n \in Nat : m * n \in Nat
    /\ \A m, n \in Nat \ {0} : m * n \in Nat \ {0}
    /\ \A m, n \in Int : m * n \in Int
<1>1. \A m, n \in Int : m * n \in Int
    OBVIOUS
<1>2. ASSUME NEW m \in Nat, NEW n \in Nat PROVE m * n \in Nat
    OBVIOUS
<1>3. ASSUME NEW m \in Nat \ {0}, NEW n \in Nat \ {0} PROVE m * n \in Nat \ {0}
    OBVIOUS
<1> QED
    BY <1>1, <1>2, <1>3

\* Differences of modes are natural numbers, and that of the wanted size to
\* itself is none.
LEMMA ModeFacts ==
    ASSUME want \in Targets
    PROVE  /\ \A m \in Pool :
                 /\ Choice!Off(m) \in Nat /\ Choice!Scale(m) \in Nat /\ Choice!PixelDiff(m) \in Nat
                 /\ Choice!Usable(m) => Choice!Scale(m) # 0
           /\ Choice!Off(want) = 0 /\ Choice!PixelDiff(want) = 0
           /\ Choice!Scale(want) \in Nat \ {0}
           /\ Choice!Usable(want) /\ Choice!Fits(want)
<1>1. want.w \in Nat \ {0} /\ want.h \in Nat \ {0}
    BY ModeChoiceAssumption
<1>2. ASSUME NEW m \in Pool
      PROVE  /\ Choice!Off(m) \in Nat /\ Choice!Scale(m) \in Nat /\ Choice!PixelDiff(m) \in Nat
             /\ Choice!Usable(m) => Choice!Scale(m) # 0
    <2>1. m.w \in Nat /\ m.h \in Nat
        BY ModeChoiceAssumption
    <2>2. /\ m.w * want.h \in Nat /\ want.w * m.h \in Nat /\ m.w * m.h \in Nat
          /\ want.w * want.h \in Nat /\ m.h * want.h \in Nat
          /\ m.h # 0 => m.h * want.h # 0
        BY <1>1, <2>1, Products
    <2> QED
        BY <2>2 DEF Choice!Off, Choice!Scale, Choice!PixelDiff, Choice!Usable, Choice!Abs
<1>3. /\ want.w * want.h \in Nat \ {0} /\ want.h * want.h \in Nat \ {0}
    BY <1>1, Products
<1>4. Choice!Off(want) = 0 /\ Choice!PixelDiff(want) = 0 /\ Choice!Scale(want) \in Nat \ {0}
    BY <1>3 DEF Choice!Off, Choice!Scale, Choice!PixelDiff, Choice!Abs
<1>5. Choice!Usable(want)
    <2>1. 4 * want.w * want.h = 4 * (want.w * want.h)
        BY <1>1
    <2> QED
        BY <1>1, <1>3, <2>1 DEF Choice!Usable
<1>6. Choice!Fits(want)
    <2>1. Tolerance * Choice!Scale(want) \in Nat \ {0} /\ Unit \in Nat
        BY <1>4, ModeChoiceAssumption, Products
    <2> QED
        BY <1>4, <2>1 DEF Choice!Fits
<1> QED
    BY <1>2, <1>4, <1>5, <1>6

\* The two comparisons of Nearer with a mode that differs by nothing (p = 0),
\* or with one that differs from the wanted shape by no more than k.
LEMMA Comparisons ==
    ASSUME NEW p \in Nat, NEW o \in Nat, NEW s \in Nat \ {0}, NEW t \in Nat \ {0},
           NEW u \in Nat \ {0}, NEW k \in Nat \ {0}
    PROVE  /\ o * u > k * s => 0 * s * u < o * t * u + (-k) * t * s
           /\ 0 * s * u < o * t * u + k * t * s
           /\ o * u <= k * s => ~(p * s * u < o * t * u + (-k) * t * s)
<1>1. PICK x \in Nat : x = o * u
    BY Products
<1>2. PICK y \in Nat \ {0} : y = k * s
    BY Products
<1>3. o * t * u = t * x /\ (-k) * t * s = -(t * y) /\ k * t * s = t * y
    BY <1>1, <1>2
<1>4. 0 * s * u = 0 /\ p * s * u \in Nat
    <2>1. p * s \in Nat
        BY Products
    <2> QED
        BY <2>1, Products
<1>5. /\ t * x \in Nat /\ t * y \in Nat \ {0}
      /\ x > y => t * x > t * y
      /\ x <= y => t * x <= t * y
    BY Products
<1> QED
    BY <1>1, <1>2, <1>3, <1>4, <1>5

\* The wanted size is better than any mode but its twins.
LEMMA WantBeats ==
    ASSUME want \in Targets, NEW m \in Pool, Choice!Usable(m), ~Choice!Twin(m)
    PROVE  \/ Choice!Nearer(want, m, -Slack)
           \/ Choice!Nearer(want, m, Slack) /\ Choice!PixelDiff(want) < Choice!PixelDiff(m)
<1>1. /\ Choice!Off(m) \in Nat /\ Choice!Scale(m) \in Nat \ {0} /\ Choice!PixelDiff(m) \in Nat
      /\ Choice!Off(want) = 0 /\ Choice!PixelDiff(want) = 0
      /\ Choice!Scale(want) \in Nat \ {0}
      /\ Unit \in Nat \ {0} /\ Slack \in Nat \ {0}
    BY ModeFacts, ModeChoiceAssumption
<1>2. CASE Choice!Off(m) * Unit <= Slack * Choice!Scale(m)
    <2>1. Choice!PixelDiff(want) < Choice!PixelDiff(m)
        BY <1>1, <1>2 DEF Choice!Twin
    <2>2. Choice!Nearer(want, m, Slack)
        BY <1>1, Comparisons DEF Choice!Nearer
    <2> QED
        BY <2>1, <2>2
<1>3. CASE Choice!Off(m) * Unit > Slack * Choice!Scale(m)
    BY <1>1, <1>3, Comparisons DEF Choice!Nearer
<1>4. Choice!Off(m) * Unit \in Nat /\ Slack * Choice!Scale(m) \in Nat
    BY <1>1, Products
<1> QED
    BY <1>2, <1>3, <1>4

\* No mode is better than the wanted size or than a twin of it.
LEMMA NoneBeats ==
    ASSUME want \in Targets, NEW m \in Pool, Choice!Usable(m), NEW b, b = want \/ b \in Pool,
           Choice!Usable(b), b = want \/ Choice!Twin(b)
    PROVE  ~Choice!Nearer(m, b, -Slack) /\ ~(Choice!PixelDiff(m) < Choice!PixelDiff(b))
<1>1. /\ Choice!Off(m) \in Nat /\ Choice!Scale(m) \in Nat \ {0} /\ Choice!PixelDiff(m) \in Nat
      /\ Choice!Off(b) \in Nat /\ Choice!Scale(b) \in Nat \ {0} /\ Choice!PixelDiff(b) = 0
      /\ Unit \in Nat \ {0} /\ Slack \in Nat \ {0}
    BY ModeFacts, ModeChoiceAssumption DEF Choice!Twin
<1>2. Choice!Off(b) * Unit <= Slack * Choice!Scale(b)
    <2>1. CASE b = want
        <3>1. Slack * Choice!Scale(b) \in Nat /\ Choice!Off(b) = 0
            BY <1>1, <2>1, ModeFacts, Products
        <3> QED
            BY <1>1, <3>1
    <2> QED
        BY <2>1 DEF Choice!Twin
<1> QED
    BY <1>1, <1>2, Comparisons DEF Choice!Nearer

\* The wanted size stays while modes are looked at.
LEMMA SameWant ==
    ASSUME want' = want, listed' = listed, NEW b, b = best'
    PROVE  /\ Choice!Usable(best)' <=> Choice!Usable(b)
           /\ Choice!Fits(best)' <=> Choice!Fits(b)
           /\ Choice!Twin(best)' <=> Choice!Twin(b)
           /\ NoneFits' <=> NoneFits
<1>1. \A m \in listed : /\ Choice!Usable(m)' <=> Choice!Usable(m)
                        /\ Choice!Fits(m)' <=> Choice!Fits(m)
    BY DEF Choice!Usable, Choice!Fits, Choice!Off, Choice!Scale, Choice!Abs
<1>2. /\ Choice!Usable(best)' <=> Choice!Usable(b)
      /\ Choice!Fits(best)' <=> Choice!Fits(b)
      /\ Choice!Twin(best)' <=> Choice!Twin(b)
    BY DEF Choice!Usable, Choice!Fits, Choice!Twin, Choice!Off, Choice!Scale,
           Choice!PixelDiff, Choice!Abs
<1>3. NoneFits' <=> NoneFits
    BY <1>1 DEF NoneFits
<1> QED
    BY <1>1, <1>2, <1>3

\* No mode has been looked at.
LEMMA ChoiceInit == Choice!Init => ChoiceInv
BY DEF Choice!Init, ChoiceInv, Choice!TypeOK

\* One more mode, or one more pass.
LEMMA ChoiceNext == ChoiceInv /\ [Choice!Next]_choiceVars => ChoiceInv'
<1> SUFFICES ASSUME ChoiceInv, [Choice!Next]_choiceVars PROVE ChoiceInv'
    OBVIOUS
<1>0. /\ want \in Targets /\ listed \subseteq Pool /\ rest \subseteq listed
      /\ best \in listed \cup {NoMode} /\ pass \in 1 .. 3 /\ NoMode \notin Pool
    BY ModeChoiceAssumption DEF ChoiceInv, Choice!TypeOK
<1>1. Choice!Usable(want) /\ Choice!Fits(want)
    BY <1>0, ModeFacts
<1>2. want \in listed => ~NoneFits
    BY <1>1 DEF NoneFits
<1>3. want' = want /\ listed' = listed
    BY DEF Choice!Next, Choice!Look, Choice!NextPass, choiceVars
<1>4. PICK b : b = best'
    OBVIOUS
<1> DEFINE Goal ==
               /\ rest' \subseteq listed /\ b \in listed \cup {NoMode} /\ pass' \in 1 .. 3
               /\ b # NoMode => Choice!Usable(b) /\ (Choice!Fits(b) \/ (NoneFits /\ pass' # 1))
               /\ b = NoMode =>
                     \A m \in listed \ rest' : Choice!Usable(m) => pass' = 1 /\ ~Choice!Fits(m)
               /\ pass' = 2 => NoneFits
               /\ pass' = 3 => rest' = {} /\ (b = NoMode => NoneFits)
               /\ want \in listed \ rest' => b = want \/ Choice!Twin(b)
<1>5. SUFFICES Goal
    <2>1. SUFFICES ASSUME Goal PROVE ChoiceInv'
        OBVIOUS
    <2>2. /\ Choice!Usable(best)' <=> Choice!Usable(b)
          /\ Choice!Fits(best)' <=> Choice!Fits(b)
          /\ Choice!Twin(best)' <=> Choice!Twin(b)
          /\ NoneFits' <=> NoneFits
        BY <1>3, <1>4, SameWant
    <2>3. Choice!TypeOK'
        BY <1>0, <1>3, <1>4, <2>1 DEF Choice!TypeOK
    <2>4. best' = NoMode =>
            \A m \in listed' \ rest' : Choice!Usable(m)' => pass' = 1 /\ ~Choice!Fits(m)'
        <3>1. SUFFICES ASSUME b = NoMode, NEW m \in listed \ rest', Choice!Usable(m)'
                       PROVE  pass' = 1 /\ ~Choice!Fits(m)'
            BY <1>3, <1>4, Zenon
        <3>2. Choice!Usable(m)
            BY <1>3, <3>1 DEF Choice!Usable
        <3>3. pass' = 1 /\ ~Choice!Fits(m)
            BY <2>1, <3>1, <3>2, Zenon
        <3>4. Choice!Fits(m)' <=> Choice!Fits(m)
            BY <1>3 DEF Choice!Fits, Choice!Off, Choice!Scale, Choice!Abs
        <3> QED
            BY <3>3, <3>4, Zenon
    <2>5. /\ best' # NoMode =>
               Choice!Usable(best)' /\ (Choice!Fits(best)' \/ (NoneFits' /\ pass' # 1))
          /\ pass' = 2 => NoneFits'
          /\ pass' = 3 => rest' = {} /\ (best' = NoMode => NoneFits')
          /\ want' \in listed' \ rest' => best' = want' \/ Choice!Twin(best)'
        BY <1>3, <1>4, <2>1, <2>2
    <2> QED
        BY <2>3, <2>4, <2>5, Zenon DEF ChoiceInv
<1>6. ASSUME NEW m \in rest, Choice!Look(m), Choice!Better(m) PROVE Goal
    <2>1. b = m /\ rest' = rest \ {m} /\ pass' = pass /\ pass < 3 /\ b # NoMode /\ m \in Pool
        BY <1>0, <1>4, <1>6 DEF Choice!Look
    <2>2. Choice!Usable(m) /\ (pass = 1 => Choice!Fits(m))
        BY <1>6 DEF Choice!Better
    <2>3. pass = 2 => NoneFits
        BY DEF ChoiceInv
    <2>4. ASSUME want \in listed \ rest', m # want PROVE FALSE
        <3>1. want \in listed \ rest /\ pass = 1
            BY <1>0, <1>2, <2>1, <2>3, <2>4
        <3>2. best # NoMode /\ Choice!Usable(best) /\ (best = want \/ Choice!Twin(best))
            BY <1>1, <3>1 DEF ChoiceInv
        <3>3. best \in Pool
            BY <1>0, <3>2
        <3>4. ~Choice!Nearer(m, best, -Slack) /\ ~(Choice!PixelDiff(m) < Choice!PixelDiff(best))
            BY <1>0, <2>1, <2>2, <3>2, <3>3, NoneBeats
        <3> QED
            BY <1>6, <3>1, <3>2, <3>4 DEF Choice!Better
    <2> QED
        BY <1>0, <2>1, <2>2, <2>3, <2>4
<1>7. ASSUME NEW m \in rest, Choice!Look(m), ~Choice!Better(m) PROVE Goal
    <2>1. b = best /\ rest' = rest \ {m} /\ pass' = pass /\ pass < 3 /\ m \in Pool
        BY <1>0, <1>4, <1>7 DEF Choice!Look
    <2>2. best = NoMode => (Choice!Usable(m) => pass = 1 /\ ~Choice!Fits(m))
        BY <1>7 DEF Choice!Better
    <2>3. ASSUME m = want PROVE Choice!Twin(best)
        <3>1. pass = 1
            BY <1>0, <1>2, <2>1, <2>3 DEF ChoiceInv
        <3>2. best # NoMode
            BY <1>1, <2>2, <2>3
        <3>3. best \in Pool /\ Choice!Usable(best)
            BY <1>0, <3>2 DEF ChoiceInv
        <3>4. ASSUME ~Choice!Twin(best) PROVE FALSE
            <4>1. \/ Choice!Nearer(want, best, -Slack)
                  \/ Choice!Nearer(want, best, Slack) /\ Choice!PixelDiff(want) < Choice!PixelDiff(best)
                BY <1>0, <3>3, <3>4, WantBeats
            <4> QED
                BY <1>1, <1>7, <2>3, <3>1, <4>1 DEF Choice!Better
        <3> QED
            BY <3>4
    <2>4. want \in listed \ rest' => best = want \/ Choice!Twin(best)
        BY <2>1, <2>3 DEF ChoiceInv
    <2>5. /\ best # NoMode => Choice!Usable(best) /\ (Choice!Fits(best) \/ (NoneFits /\ pass # 1))
          /\ best = NoMode => \A n \in listed \ rest : Choice!Usable(n) => pass = 1 /\ ~Choice!Fits(n)
          /\ pass = 2 => NoneFits
        BY DEF ChoiceInv
    <2> QED
        BY <1>0, <2>1, <2>2, <2>4, <2>5
<1>8. CASE Choice!NextPass
    <2>1. /\ b = best /\ rest = {} /\ pass < 3
          /\ \/ pass = 1 /\ best = NoMode /\ pass' = 2 /\ rest' = listed
             \/ ~(pass = 1 /\ best = NoMode) /\ pass' = 3 /\ rest' = {}
        BY <1>4, <1>8 DEF Choice!NextPass
    <2>2. /\ best # NoMode => Choice!Usable(best) /\ (Choice!Fits(best) \/ (NoneFits /\ pass # 1))
          /\ best = NoMode => \A m \in listed \ rest : Choice!Usable(m) => pass = 1 /\ ~Choice!Fits(m)
          /\ pass = 2 => NoneFits
          /\ want \in listed \ rest => best = want \/ Choice!Twin(best)
        BY DEF ChoiceInv
    <2>3. pass = 1 /\ best = NoMode => NoneFits
        BY <2>1, <2>2 DEF NoneFits
    <2> QED
        BY <1>0, <2>1, <2>2, <2>3
<1>9. CASE UNCHANGED choiceVars
    <2>1. b = best /\ rest' = rest /\ pass' = pass
        BY <1>4, <1>9 DEF choiceVars
    <2> QED
        BY <1>0, <2>1 DEF ChoiceInv
<1> QED
    BY <1>6, <1>7, <1>8, <1>9 DEF Choice!Next

\* A mode chosen after both passes suits.
LEMMA ChoiceWell == ChoiceInv => Choice!ChoosesWell
<1> SUFFICES ASSUME ChoiceInv, pass = 3 PROVE Choice!ChoosesWell
    BY DEF Choice!ChoosesWell
<1>1. /\ rest = {} /\ best \in listed \cup {NoMode}
      /\ best # NoMode => Choice!Usable(best) /\ (Choice!Fits(best) \/ NoneFits)
      /\ best = NoMode => \A m \in listed : ~Choice!Usable(m)
      /\ want \in listed => best = want \/ Choice!Twin(best)
      /\ NoMode \notin listed
    BY ModeChoiceAssumption DEF ChoiceInv, Choice!TypeOK
<1> QED
    BY <1>1 DEF Choice!ChoosesWell, NoneFits

\* Every order of every list of modes.
LEMMA ChoiceInvariance == PartsSpec => []ChoiceInv
<1>1. PartsInit => ChoiceInv
    BY ChoiceInit DEF PartsInit
<1>2. ChoiceInv /\ [PartsNext]_partsVars => ChoiceInv'
    BY PartSteps, ChoiceNext
<1> QED
    BY <1>1, <1>2, PTL DEF PartsSpec

-----------------------------------------------------------------------------
(* Letterbox. *)

\* The quotient is the largest whole number that fits.
LEMMA Division ==
    ASSUME NEW a \in Int, NEW b \in Nat \ {0}
    PROVE  /\ a \div b \in Int
           /\ b * (a \div b) <= a /\ a < b * (a \div b) + b
OBVIOUS

\* Halving leaves none or one.
LEMMA Remainder ==
    ASSUME NEW x \in Int, NEW d \in Nat, 2 * x <= d, d < 2 * x + 2
    PROVE  d = 2 * x \/ d = 2 * x + 1
OBVIOUS

\* The even number at or below n.
LEMMA EvenFacts ==
    ASSUME NEW n \in Nat
    PROVE  Box!Even(n) \in Nat /\ Box!Even(n) <= n /\ n <= Box!Even(n) + 1
<1>1. n \div 2 \in Int /\ 2 * (n \div 2) <= n /\ n < 2 * (n \div 2) + 2
    BY Division
<1> QED
    BY <1>1 DEF Box!Even

\* Rounding errs by half at most, so what is no longer than m does not become
\* longer.
LEMMA RoundedFacts ==
    ASSUME NEW a \in Nat, NEW b \in Nat \ {0}, NEW m \in Nat, a <= b * m
    PROVE  /\ Box!Rounded(a, b) \in 0 .. m
           /\ 2 * (b * Box!Rounded(a, b)) <= 2 * a + b
           /\ 2 * a < 2 * (b * Box!Rounded(a, b)) + b
<1>1. PICK r : r = Box!Rounded(a, b)
    OBVIOUS
<1>2. r \in Int /\ 2 * b * r <= 2 * a + b /\ 2 * a + b < 2 * b * r + 2 * b
    <2>1. r = (2 * a + b) \div (2 * b) /\ 2 * a + b \in Int /\ 2 * b \in Nat \ {0}
        BY <1>1 DEF Box!Rounded
    <2> QED
        BY <2>1, Division
<1>3. 2 * b * r = 2 * (b * r) /\ b * r \in Int /\ b * m \in Int
    BY <1>2
<1>4. r <= m
    <2>1. r >= m + 1 => b * r >= b * m + b
        BY <1>2
    <2> QED
        BY <1>2, <1>3, <2>1
<1>5. r >= 0
    <2>1. r <= -1 => b * r <= -b
        BY <1>2
    <2> QED
        BY <1>2, <1>3, <2>1
<1> QED
    BY <1>1, <1>2, <1>3, <1>4, <1>5

\* A side that is scaled by a / b and made even stays inside of a desktop of m
\* pixels, in the middle, and is at most two pixels off; it does not vanish
\* from a pixel and a half on.
LEMMA SideFacts ==
    ASSUME NEW a \in Nat, NEW b \in Nat \ {0}, NEW m \in Nat, a <= b * m,
           NEW n, n = Box!Even(Box!Rounded(a, b)), NEW x, x = (m - n) \div 2
    PROVE  /\ n \in 0 .. m /\ x \in 0 .. m /\ x + n <= m
           /\ m - n - 2 * x \in {0, 1}
           /\ n * b - a \in -2 * b .. b
           /\ n = 0 => 2 * a < 3 * b
<1>1. PICK r \in 0 .. m :
        r = Box!Rounded(a, b) /\ 2 * (b * r) <= 2 * a + b /\ 2 * a < 2 * (b * r) + b
    BY RoundedFacts
<1>2. n \in Nat /\ n <= r /\ r <= n + 1
    BY <1>1, EvenFacts
<1>3. x \in Int /\ 2 * x <= m - n /\ m - n < 2 * x + 2
    <2>1. m - n \in Int
        BY <1>2
    <2> QED
        BY <2>1, Division
<1>4. n = r \/ n = r - 1
    BY <1>1, <1>2
<1>5. n * b = b * r \/ n * b = b * r - b
    BY <1>1, <1>4
<1>6. b * r \in Nat
    BY <1>1, Products
<1>7. n * b - a \in -2 * b .. b
    BY <1>1, <1>5, <1>6
<1>8. r <= m
    BY <1>1
<1>9. n \in 0 .. m /\ x \in 0 .. m /\ x + n <= m /\ m - n - 2 * x \in {0, 1}
    <2>1. n <= m /\ m - n \in Nat
        BY <1>2, <1>8
    <2>2. x >= 0 /\ x <= m /\ x + n <= m
        BY <1>2, <1>3, <2>1
    <2>3. m - n - 2 * x = 0 \/ m - n - 2 * x = 1
        <3>1. PICK d \in Nat : d = m - n
            BY <2>1
        <3>2. 2 * x <= d /\ d < 2 * x + 2
            BY <1>3, <3>1
        <3>3. d = 2 * x \/ d = 2 * x + 1
            BY <1>3, <3>2, Remainder
        <3> QED
            BY <1>3, <3>1, <3>3
    <2> QED
        BY <1>2, <1>3, <2>1, <2>2, <2>3
<1>10. n = 0 => 2 * a < 3 * b
    <2> SUFFICES ASSUME n = 0 PROVE 2 * a < 3 * b
        OBVIOUS
    <2>1. n * b = 0
        OBVIOUS
    <2>2. b * r = 0 \/ b * r = b
        BY <1>5, <1>6, <2>1
    <2> QED
        BY <1>1, <1>6, <2>2
<1> QED
    BY <1>7, <1>9, <1>10

\* A sample is of the frame.
LEMMA SampleFacts ==
    ASSUME NEW n \in Nat, NEW of \in Nat \ {0}, NEW i \in 0 .. n - 1
    PROVE  Box!Sample(i, n, of) \in 0 .. of - 1
<1>1. PICK q : q = (i * of) \div n
    OBVIOUS
<1>2. n \in Nat \ {0} /\ i * of \in Nat
    BY Products
<1>3. q \in Int /\ n * q <= i * of /\ i * of < n * q + n
    BY <1>1, <1>2, Division
<1>4. i * of < n * of
    BY <1>2
<1>5. q >= of => n * q >= n * of
    BY <1>2, <1>3
<1>6. q <= -1 => n * q <= -n
    BY <1>2, <1>3
<1>7. n * q \in Int /\ n * of \in Nat
    BY <1>2, <1>3
<1> QED
    BY <1>1, <1>2, <1>3, <1>4, <1>5, <1>6, <1>7 DEF Box!Sample

\* A frame has been placed, or none yet.
BoxInv ==
    \/ frame.w = 0
    \/ /\ frame \in Box!Sizes /\ target \in Box!Sizes
       /\ rect = Box!compute_letterbox_rect(frame, target)
       /\ native = Box!NativeSize(target, frame)

\* Three cases: the shapes agree, bars above and below, bars on the sides.
LEMMA RectFits == BoxInv => Box!IndexesInside /\ Box!KeepsShape /\ Box!Visible
<1> SUFFICES ASSUME BoxInv, frame.w # 0
             PROVE  Box!IndexesInside /\ Box!KeepsShape /\ Box!Visible
    BY DEF Box!IndexesInside, Box!KeepsShape, Box!Visible
<1>1. PICK sw \in Nat \ {0}, sh \in Nat \ {0}, dw \in Nat \ {0}, dh \in Nat \ {0} :
        /\ frame = [w |-> sw, h |-> sh] /\ target = [w |-> dw, h |-> dh]
    BY LetterboxAssumption DEF BoxInv, Box!Sizes
<1>2. /\ dw * sh \in Nat /\ dh * sw \in Nat /\ sw * dh \in Nat /\ sh * dw \in Nat
      /\ sw * dh = dh * sw /\ dw * sh = sh * dw
    BY <1>1, Products
<1>3. SUFFICES /\ rect.x \in 0 .. dw /\ rect.x + rect.w <= dw /\ rect.w \in Nat
               /\ rect.y \in 0 .. dh /\ rect.y + rect.h <= dh /\ rect.h \in Nat
               /\ dw - rect.w - 2 * rect.x \in {0, 1}
               /\ dh - rect.h - 2 * rect.y \in {0, 1}
               /\ \/ Box!SameShape(frame, target)
                  \/ rect.w = dw /\ rect.h * sw - dw * sh \in -2 * sw .. sw
                  \/ rect.h = dh /\ rect.w * sh - dh * sw \in -2 * sh .. sh
               /\ rect.h = 0 => 2 * dw * sh < 3 * sw
               /\ rect.w = 0 => 2 * dh * sw < 3 * sh
    <2>1. \A i \in 0 .. rect.w - 1 : Box!Sample(i, rect.w, sw) \in 0 .. sw - 1
        BY <1>3, SampleFacts
    <2>2. \A i \in 0 .. rect.h - 1 : Box!Sample(i, rect.h, sh) \in 0 .. sh - 1
        BY <1>3, SampleFacts
    <2>3. Box!IndexesInside
        BY <1>1, <1>3, <2>1, <2>2 DEF Box!IndexesInside
    <2>4. Box!KeepsShape
        BY <1>1, <1>3 DEF Box!KeepsShape
    <2>5. Box!Visible
        BY <1>1, <1>3 DEF Box!Visible
    <2> QED
        BY <2>3, <2>4, <2>5
<1>4. CASE Box!SameShape(frame, target)
    <2>1. rect = [x |-> 0, y |-> 0, w |-> dw, h |-> dh]
        BY <1>1, <1>4 DEF BoxInv, Box!compute_letterbox_rect
    <2> QED
        BY <1>4, <2>1
<1>5. CASE ~Box!SameShape(frame, target) /\ sw * dh > dw * sh
    <2>1. PICK n : n = Box!Even(Box!Rounded(dw * sh, sw))
        OBVIOUS
    <2>2. PICK y : y = (dh - n) \div 2
        OBVIOUS
    <2>3. rect = [x |-> 0, y |-> y, w |-> dw, h |-> n]
        BY <1>1, <1>5, <2>1, <2>2 DEF BoxInv, Box!compute_letterbox_rect
    <2>4. /\ n \in 0 .. dh /\ y \in 0 .. dh /\ y + n <= dh /\ dh - n - 2 * y \in {0, 1}
          /\ n * sw - dw * sh \in -2 * sw .. sw
        BY <1>2, <1>5, <2>1, <2>2, SideFacts
    <2>5. n = 0 => 2 * (dw * sh) < 3 * sw
        BY <1>2, <1>5, <2>1, <2>2, SideFacts
    <2>6. /\ rect.h = 0 => 2 * dw * sh < 3 * sw
          /\ rect.w = 0 => 2 * dh * sw < 3 * sh
        <3>1. 2 * dw * sh = 2 * (dw * sh)
            BY <1>1
        <3>2. rect.h = n /\ rect.w = dw /\ dw # 0
            BY <1>1, <2>3
        <3> QED
            BY <2>5, <3>1, <3>2
    <2>7. /\ rect.x \in 0 .. dw /\ rect.x + rect.w <= dw /\ rect.w \in Nat
          /\ rect.y \in 0 .. dh /\ rect.y + rect.h <= dh /\ rect.h \in Nat
          /\ dw - rect.w - 2 * rect.x \in {0, 1}
          /\ dh - rect.h - 2 * rect.y \in {0, 1}
        BY <2>3, <2>4
    <2>8. \/ rect.w = dw /\ rect.h * sw - dw * sh \in -2 * sw .. sw
          \/ rect.h = dh /\ rect.w * sh - dh * sw \in -2 * sh .. sh
        BY <2>3, <2>4
    <2> QED
        BY <2>6, <2>7, <2>8, Zenon
<1>6. CASE ~Box!SameShape(frame, target) /\ ~(sw * dh > dw * sh)
    <2>1. PICK n : n = Box!Even(Box!Rounded(dh * sw, sh))
        OBVIOUS
    <2>2. PICK x : x = (dw - n) \div 2
        OBVIOUS
    <2>3. rect = [x |-> x, y |-> 0, w |-> n, h |-> dh]
        BY <1>1, <1>6, <2>1, <2>2 DEF BoxInv, Box!compute_letterbox_rect
    <2>4. /\ n \in 0 .. dw /\ x \in 0 .. dw /\ x + n <= dw /\ dw - n - 2 * x \in {0, 1}
          /\ n * sh - dh * sw \in -2 * sh .. sh
        BY <1>2, <1>6, <2>1, <2>2, SideFacts
    <2>5. n = 0 => 2 * (dh * sw) < 3 * sh
        BY <1>2, <1>6, <2>1, <2>2, SideFacts
    <2>6. /\ rect.h = 0 => 2 * dw * sh < 3 * sw
          /\ rect.w = 0 => 2 * dh * sw < 3 * sh
        <3>1. 2 * dh * sw = 2 * (dh * sw)
            BY <1>1
        <3>2. rect.w = n /\ rect.h = dh /\ dh # 0
            BY <1>1, <2>3
        <3> QED
            BY <2>5, <3>1, <3>2
    <2>7. /\ rect.x \in 0 .. dw /\ rect.x + rect.w <= dw /\ rect.w \in Nat
          /\ rect.y \in 0 .. dh /\ rect.y + rect.h <= dh /\ rect.h \in Nat
          /\ dw - rect.w - 2 * rect.x \in {0, 1}
          /\ dh - rect.h - 2 * rect.y \in {0, 1}
        BY <2>3, <2>4
    <2>8. \/ rect.w = dw /\ rect.h * sw - dw * sh \in -2 * sw .. sw
          \/ rect.h = dh /\ rect.w * sh - dh * sw \in -2 * sh .. sh
        BY <2>3, <2>4
    <2> QED
        BY <2>6, <2>7, <2>8, Zenon
<1> QED
    BY <1>4, <1>5, <1>6

\* The shorter side is scaled.
LEMMA NativeInside == BoxInv => Box!NativeFits
<1> SUFFICES ASSUME BoxInv, frame.w # 0 PROVE native.w <= target.w /\ native.h <= target.h
    BY DEF Box!NativeFits
<1>1. PICK sw \in Nat \ {0}, sh \in Nat \ {0}, dw \in Nat \ {0}, dh \in Nat \ {0} :
        /\ frame = [w |-> sw, h |-> sh] /\ target = [w |-> dw, h |-> dh]
    BY LetterboxAssumption DEF BoxInv, Box!Sizes
<1>2. /\ dw * sh \in Nat /\ dh * sw \in Nat /\ sw * dh \in Nat /\ sh * dw \in Nat
      /\ sw * dh = dh * sw /\ dw * sh = sh * dw
    BY <1>1, Products
<1>3. CASE dw * sh > sw * dh
    <2>1. Box!Rounded(dh * sw, sh) \in 0 .. dw
        BY <1>2, <1>3, RoundedFacts
    <2>2. native = [w |-> Box!AtLeastOne(Box!Rounded(dh * sw, sh)), h |-> dh]
        BY <1>1, <1>3 DEF BoxInv, Box!NativeSize
    <2> QED
        BY <1>1, <2>1, <2>2 DEF Box!AtLeastOne
<1>4. CASE ~(dw * sh > sw * dh)
    <2>1. Box!Rounded(dw * sh, sw) \in 0 .. dh
        BY <1>2, <1>4, RoundedFacts
    <2>2. native = [w |-> dw, h |-> Box!AtLeastOne(Box!Rounded(dw * sh, sw))]
        BY <1>1, <1>4 DEF BoxInv, Box!NativeSize
    <2> QED
        BY <1>1, <2>1, <2>2 DEF Box!AtLeastOne
<1> QED
    BY <1>3, <1>4

\* A frame is placed once.
LEMMA BoxInvariance == PartsSpec => []BoxInv
<1>1. PartsInit => BoxInv
    BY DEF PartsInit, Box!Init, BoxInv
<1>2. BoxInv /\ [PartsNext]_partsVars => BoxInv'
    <2> SUFFICES ASSUME BoxInv, [Box!Next]_rectVars PROVE BoxInv'
        BY PartSteps
    <2>1. CASE Box!Next
        <3>1. PICK s \in Box!Sizes, d \in Box!Sizes : Box!Compute(s, d)
            BY <2>1 DEF Box!Next
        <3>2. /\ frame' = s /\ target' = d /\ rect' = Box!compute_letterbox_rect(s, d)
              /\ native' = Box!NativeSize(d, s)
            BY <3>1 DEF Box!Compute
        <3> QED
            BY <3>2 DEF BoxInv, Box!Sizes, Box!compute_letterbox_rect, Box!NativeSize,
                        Box!SameShape, Box!Even, Box!Rounded, Box!AtLeastOne
    <2>2. CASE UNCHANGED rectVars
        BY <2>2 DEF rectVars, BoxInv, Box!Sizes, Box!compute_letterbox_rect, Box!NativeSize,
                    Box!SameShape, Box!Even, Box!Rounded, Box!AtLeastOne
    <2> QED
        BY <2>1, <2>2
<1> QED
    BY <1>1, <1>2, PTL DEF PartsSpec

\* Every size of update, of picture and of mode: the client's assembly of the
\* fragments, where letterbox_bgra reads and writes, Native mode, and the mode
\* the helper takes.
THEOREM SizesFitAlways == PartsSpec => []SizesFit
<1>1. FragmentInv => Frag!Reassembles
    BY DEF FragmentInv
<1>2. BoxInv => Box!Fits
    BY RectFits, NativeInside DEF Box!Fits
<1>3. FragmentInv /\ BoxInv /\ ChoiceInv => SizesFit
    BY <1>1, <1>2, ChoiceWell DEF SizesFit
<1> QED
    BY <1>3, FragmentInvariance, BoxInvariance, ChoiceInvariance, PTL

-----------------------------------------------------------------------------
(* Clipboard. *)

\* What is in the queue of the server.
Queued == [kind : {"copy", "paste", "data", "error"}, text : Clip!Contents]

\* What a polling thread has.
Pollers == [at : {"none", "sleeping", "compare"}, got : Clip!Contents, clean : BOOLEAN]

\* The type invariant, with the events the queue really has.
ClipType ==
    /\ mac \in Clip!Contents /\ client \in Clip!Contents /\ noting \in Clip!Contents
    /\ newest \in Clip!Contents
    /\ copies \in 0 .. MaxCopies
    /\ backend \in 0 .. MaxBackends
    /\ link \in {"down", "up", "ready"}
    /\ known \in [Clip!Backends -> Clip!Contents]
    /\ stop \in [Clip!Backends -> BOOLEAN]
    /\ poller \in [Clip!Backends -> Pollers]
    /\ events \in Seq(Queued) /\ Len(events) <= MaxEvents
    /\ fromClient \in Seq(Clip!Msgs)
    /\ theirs \in BOOLEAN /\ raced \in BOOLEAN
    /\ late \in [Clip!Backends -> 0 .. 1]

\* Threads run up to the last connection; those of connections that have ended
\* are told to stop, and end with the event they still send.
LifeInv ==
    /\ link = "down" => backend = 0 \/ stop[backend]
    /\ link # "down" => backend # 0
    /\ \A b \in Clip!Backends :
          /\ b > backend => poller[b].at = "none"
          /\ b < backend => stop[b]
          /\ late[b] # 0 => poller[b].at = "none"
          /\ late[b] # 0 => b <= backend

\* What is noted is on the pasteboard, if it could be written; a poll that overlapped no write has read
\* what is there; and the thread knows the client's text unless a poll
\* overlapped its write.
EchoInv ==
    /\ noting # Empty => link # "down" /\ (theirs => noting = mac)
    /\ link = "down" => ~theirs
    /\ \A b \in Clip!Backends :
          poller[b].at = "compare" /\ poller[b].clean =>
             noting = Empty /\ (theirs => poller[b].got = mac)
    /\ theirs /\ ~raced /\ noting = Empty /\ link # "down" => mac = known[backend]

ClipInv == ClipType /\ LifeInv /\ EchoInv

\* The queue has room for one more event.
LEMMA Sending ==
    ASSUME NEW q \in Seq(Queued), Len(q) < MaxEvents, NEW m \in Queued
    PROVE  Append(q, m) \in Seq(Queued) /\ Len(Append(q, m)) <= MaxEvents
BY ClipboardAssumption

\* The queue has room for what comes with the first format list.
LEMMA SendingMore ==
    ASSUME NEW q \in Seq(Queued), NEW s \in Seq(Queued), Len(q) + Len(s) <= MaxEvents
    PROVE  q \o s \in Seq(Queued) /\ Len(q \o s) = Len(q) + Len(s)
OBVIOUS

\* What clients and threads send.
LEMMA Messages ==
    ASSUME NEW t \in Clip!Contents
    PROVE  /\ Clip!Msg("copy", Empty) \in Queued /\ Clip!Msg("paste", Empty) \in Queued
           /\ Clip!Msg("data", t) \in Queued /\ Clip!Msg("error", Empty) \in Queued
           /\ Clip!Msg("request", Empty) \in Clip!Msgs /\ Clip!Msg("data", t) \in Clip!Msgs
           /\ Clip!Msg("list", t) \in Clip!Msgs
BY DEF Clip!Msg, Clip!Msgs, Queued, Clip!Contents

\* A format list is one message to the queue, or none.
LEMMA Lists ==
    /\ \A s \in Clip!Advertised : s \in Seq(Queued) /\ Len(s) <= 1
    /\ \A t \in Clip!Contents : Clip!Pull(t) \in Seq(Queued) /\ Len(Clip!Pull(t)) <= 1
<1>1. PICK c \in Queued : c = Clip!Msg("copy", Empty)
    BY Messages DEF Clip!Contents
<1>2. PICK p \in Queued : p = Clip!Msg("paste", Empty)
    BY Messages DEF Clip!Contents
<1>3. \A s \in Clip!Advertised : s \in {<<>>, <<c>>}
    BY <1>1 DEF Clip!Advertised
<1>4. \A t \in Clip!Contents : Clip!Pull(t) \in {<<>>, <<p>>}
    BY <1>2 DEF Clip!Pull
<1>5. \A m \in Queued : <<>> \in Seq(Queued) /\ Len(<<>>) <= 1 /\ <<m>> \in Seq(Queued) /\ Len(<<m>>) <= 1
    OBVIOUS
<1>6. \A s \in {<<>>, <<c>>, <<p>>} : s \in Seq(Queued) /\ Len(s) <= 1
    BY <1>5
<1> QED
    BY <1>3, <1>4, <1>6, Zenon

\* Nobody has connected.
LEMMA ClipInit == Clip!Init => ClipInv
<1> SUFFICES ASSUME Clip!Init PROVE ClipInv
    OBVIOUS
<1>1. ClipType
    <2>1. /\ mac \in Clip!Contents /\ client \in Clip!Contents /\ noting \in Clip!Contents
          /\ newest \in Clip!Contents /\ copies \in 0 .. MaxCopies /\ backend \in 0 .. MaxBackends /\ link = "down"
          /\ known \in [Clip!Backends -> Clip!Contents]
        BY ClipboardAssumption DEF Clip!Init, Clip!Contents
    <2>2. stop \in [Clip!Backends -> BOOLEAN] /\ theirs \in BOOLEAN /\ raced \in BOOLEAN
        BY DEF Clip!Init
    <2>3. poller \in [Clip!Backends -> Pollers] /\ late \in [Clip!Backends -> 0 .. 1]
        BY DEF Clip!Init, Clip!Contents, Pollers, Clip!NoPoller
    <2>4. events \in Seq(Queued) /\ Len(events) <= MaxEvents /\ fromClient \in Seq(Clip!Msgs)
        BY ClipboardAssumption DEF Clip!Init
    <2> QED
        BY <2>1, <2>2, <2>3, <2>4 DEF ClipType
<1>2. LifeInv
    BY ClipboardAssumption DEF Clip!Init, LifeInv, Clip!Backends, Clip!NoPoller
<1>3. EchoInv
    BY DEF Clip!Init, EchoInv, Clip!NoPoller
<1> QED
    BY <1>1, <1>2, <1>3 DEF ClipInv

\* Connections come and go.
LEMMA ClipBackend ==
    ASSUME ClipInv, Clip!Build \/ Clip!DropBackend
    PROVE  ClipInv'
<1> USE DEF ClipInv
<1>1. CASE Clip!Build
    <2>1. PICK n \in Clip!Backends : n = backend + 1
        BY <1>1, ClipboardAssumption DEF Clip!Build, ClipType, Clip!Backends
    <2>2. PICK text \in {mac, Empty} :
            /\ backend' = n /\ link' = "up" /\ link = "down" /\ client' \in Clip!Contents
            /\ known' = [known EXCEPT ![n] = text]
            /\ poller' = [poller EXCEPT ![n].at = "sleeping"]
            /\ UNCHANGED <<mac, copies, stop, events, fromClient, noting, theirs, raced, newest, late>>
        BY <1>1, <2>1 DEF Clip!Build
    <2>3. ClipType'
        <3>1. poller' \in [Clip!Backends -> Pollers]
            BY <2>1, <2>2 DEF ClipType, Pollers
        <3>2. known' \in [Clip!Backends -> Clip!Contents] /\ backend' \in 0 .. MaxBackends
            BY <2>1, <2>2 DEF ClipType, Clip!Backends, Clip!Contents
        <3> QED
            BY <2>2, <3>1, <3>2 DEF ClipType
    <2>4. LifeInv'
        BY <2>1, <2>2 DEF ClipType, LifeInv, Pollers, Clip!Backends
    <2>5. EchoInv'
        BY <2>1, <2>2 DEF ClipType, LifeInv, EchoInv, Pollers, Clip!Backends
    <2> QED
        BY <2>3, <2>4, <2>5
<1>2. CASE Clip!DropBackend
    <2>1. /\ link # "down" /\ noting = Empty /\ link' = "down"
          /\ stop' = [stop EXCEPT ![backend] = TRUE]
          /\ fromClient' = <<>> /\ client' = Empty /\ newest' = Empty
          /\ theirs' = FALSE /\ raced' = FALSE
          /\ UNCHANGED <<mac, copies, backend, known, poller, events, noting, late>>
        BY <1>2 DEF Clip!DropBackend
    <2>2. backend \in Clip!Backends
        BY <2>1, ClipboardAssumption DEF ClipType, LifeInv, Clip!Backends
    <2>3. ClipType'
        <3>1. theirs' \in BOOLEAN /\ raced' \in BOOLEAN
            BY <2>1
        <3> QED
            BY <2>1, <2>2, <3>1 DEF ClipType, Clip!Contents
    <2>4. LifeInv'
        BY <2>1, <2>2 DEF ClipType, LifeInv
    <2>5. EchoInv'
        BY <2>1, <2>2 DEF ClipType, EchoInv
    <2> QED
        BY <2>3, <2>4, <2>5
<1> QED
    BY <1>1, <1>2

\* A thread reads, or tells what is new and goes on or ends.
LEMMA ClipPoll ==
    ASSUME ClipInv, NEW b \in Clip!Backends, Clip!Poll(b)
    PROVE  ClipInv'
<1> USE DEF ClipInv
<1>1. CASE Clip!PollReads(b)
    <2>1. PICK c \in BOOLEAN : c = (noting = Empty)
        OBVIOUS
    <2>2. /\ poller[b].at = "sleeping"
          /\ poller' = [poller EXCEPT ![b] = [at |-> "compare", got |-> mac, clean |-> c]]
          /\ UNCHANGED <<mac, client, copies, backend, link, known, stop, events, fromClient,
                         noting, theirs, raced, newest, late>>
        BY <1>1, <2>1 DEF Clip!PollReads
    <2>3. ClipType'
        BY <2>2 DEF ClipType, Pollers
    <2>4. LifeInv'
        BY <2>2 DEF ClipType, LifeInv, Pollers
    <2>5. EchoInv'
        BY <2>1, <2>2 DEF ClipType, EchoInv, Pollers
    <2> QED
        BY <2>3, <2>4, <2>5
<1>2. CASE Clip!PollCompares(b)
    <2>1. /\ poller[b].at = "compare" /\ Len(events) < MaxEvents
          /\ raced' = (theirs /\ (raced \/ (b = backend /\ ~poller[b].clean)))
          /\ poller' = [poller EXCEPT ![b] = [Clip!NoPoller EXCEPT !.at = IF stop[b] THEN "none" ELSE "sleeping"]]
          /\ UNCHANGED <<mac, client, copies, backend, link, stop, fromClient, noting, theirs,
                         newest>>
          /\ \/ /\ poller[b].got # known[b]
                /\ known' = [known EXCEPT ![b] = poller[b].got]
                /\ events' = Append(events, Clip!Msg("copy", Empty))
                /\ late' = [late EXCEPT ![b] = IF stop[b] \/ b # backend THEN @ + 1 ELSE @]
             \/ UNCHANGED <<known, events, late>>
        BY <1>2 DEF Clip!PollCompares, Clip!Loops, Clip!Send
    <2>2. b <= backend /\ late[b] = 0
        BY <2>1 DEF ClipType, LifeInv, Clip!Backends
    <2>3. b # backend => stop[b]
        BY <2>2 DEF ClipType, LifeInv, Clip!Backends
    <2>4. PICK a \in {"none", "sleeping"} :
            /\ a = IF stop[b] THEN "none" ELSE "sleeping"
            /\ poller' = [poller EXCEPT ![b] = [at |-> a, got |-> Empty, clean |-> FALSE]]
        <3>1. ASSUME NEW a
              PROVE  [Clip!NoPoller EXCEPT !.at = a] = [at |-> a, got |-> Empty, clean |-> FALSE]
            <4>1. PICK c : c = FALSE
                OBVIOUS
            <4>2. [[at |-> "none", got |-> Empty, clean |-> c] EXCEPT !.at = a]
                    = [at |-> a, got |-> Empty, clean |-> c]
                OBVIOUS
            <4> QED
                BY <4>1, <4>2, Zenon DEF Clip!NoPoller
        <3>2. CASE stop[b]
            BY <2>1, <3>1, <3>2
        <3>3. CASE ~stop[b]
            BY <2>1, <3>1, <3>3
        <3> QED
            BY <3>2, <3>3
    <2>5. /\ known' \in [Clip!Backends -> Clip!Contents]
          /\ events' \in Seq(Queued) /\ Len(events') <= MaxEvents
        <3>1. poller[b].got \in Clip!Contents /\ Clip!Msg("copy", Empty) \in Queued
            BY Messages DEF ClipType, Pollers, Clip!Contents
        <3>2. CASE UNCHANGED <<known, events, late>>
            BY <3>2 DEF ClipType
        <3>3. CASE /\ known' = [known EXCEPT ![b] = poller[b].got]
                   /\ events' = Append(events, Clip!Msg("copy", Empty))
            BY <2>1, <3>1, <3>3, Sending DEF ClipType
        <3> QED
            BY <2>1, <3>2, <3>3
    <2>6. /\ late' \in [Clip!Backends -> 0 .. 1]
          /\ late'[b] # 0 => a = "none"
          /\ \A d \in Clip!Backends \ {b} : late'[d] = late[d]
        <3>1. CASE UNCHANGED <<known, events, late>>
            BY <2>2, <3>1 DEF ClipType
        <3>2. CASE late' = [late EXCEPT ![b] = IF stop[b] \/ b # backend THEN @ + 1 ELSE @]
            BY <2>2, <2>3, <2>4, <3>2 DEF ClipType
        <3> QED
            BY <2>1, <3>1, <3>2
    <2>7. raced' \in BOOLEAN
        BY <2>1
    <2>8. poller' \in [Clip!Backends -> Pollers]
        BY <2>4 DEF ClipType, Pollers, Clip!Contents
    <2>9. ClipType'
        BY <2>1, <2>5, <2>6, <2>7, <2>8 DEF ClipType
    <2>10. LifeInv'
        BY <2>1, <2>2, <2>4, <2>6 DEF ClipType, LifeInv
    <2>11. theirs /\ ~raced' /\ noting = Empty /\ link # "down" => known'[backend] = mac
        <3> SUFFICES ASSUME theirs, ~raced', noting = Empty, link # "down"
                     PROVE  known'[backend] = mac
            OBVIOUS
        <3>1. ~raced /\ (b = backend => poller[b].clean)
            BY <2>1
        <3>2. mac = known[backend] /\ (b = backend => poller[b].got = mac)
            BY <2>1, <3>1 DEF EchoInv
        <3>3. backend \in Clip!Backends
            BY ClipboardAssumption DEF ClipType, LifeInv, Clip!Backends
        <3>4. CASE b = backend
            BY <2>1, <3>2, <3>4 DEF ClipType
        <3>5. CASE b # backend
            BY <2>1, <3>2, <3>3, <3>5 DEF ClipType
        <3> QED
            BY <3>4, <3>5
    <2>12. EchoInv'
        <3>1. \A d \in Clip!Backends : poller'[d].at = "compare" => d # b /\ poller'[d] = poller[d]
            BY <2>4 DEF ClipType
        <3> QED
            BY <2>1, <2>11, <3>1 DEF EchoInv
    <2> QED
        BY <2>9, <2>10, <2>12
<1> QED
    BY <1>1, <1>2 DEF Clip!Poll

\* Messages go through the queue and to the client, and the pasteboard and the
\* threads stay as they are.
LEMMA ClipQueue ==
    ASSUME ClipInv,
           UNCHANGED <<mac, backend, known, stop, poller, noting, theirs, raced, late>>,
           copies' \in 0 .. MaxCopies, client' \in Clip!Contents, newest' \in Clip!Contents,
           link' \in {"down", "up", "ready"}, link' = "down" <=> link = "down",
           events' \in Seq(Queued), Len(events') <= MaxEvents,
           fromClient' \in Seq(Clip!Msgs)
    PROVE  ClipInv'
<1> USE DEF ClipInv
<1>1. ClipType'
    BY DEF ClipType
<1>2. LifeInv'
    BY DEF LifeInv
<1>3. EchoInv'
    BY DEF EchoInv
<1> QED
    BY <1>1, <1>2, <1>3

\* The channel gets ready, messages of the client other than data, events.
LEMMA ClipMessages ==
    ASSUME ClipInv, \/ Clip!OnReady \/ Clip!Discard \/ Clip!OnRemoteCopy
                    \/ Clip!OnFormatDataRequest \/ Clip!Dispatch \/ Clip!ClientCopies \/ UNCHANGED clipboardVars
    PROVE  ClipInv'
<1>0. /\ newest \in Clip!Contents /\ Empty \in Clip!Contents
      /\ client \in Clip!Contents /\ mac \in Clip!Contents /\ copies \in 0 .. MaxCopies
      /\ link \in {"down", "up", "ready"}
      /\ events \in Seq(Queued) /\ Len(events) <= MaxEvents /\ fromClient \in Seq(Clip!Msgs)
    BY DEF ClipInv, ClipType, Clip!Contents
<1>1. CASE Clip!OnReady
    <2>1. PICK copy \in Clip!Advertised :
            /\ link = "up" /\ link' = "ready" /\ Len(events) + 2 <= MaxEvents
            /\ events' = events \o copy \o Clip!Pull(client)
            /\ newest' = CASE mac = Empty -> client
                           [] client = Empty /\ copy # <<>> -> mac
                           [] OTHER -> Empty
            /\ UNCHANGED <<mac, client, copies, backend, known, stop, poller, fromClient, noting,
                           theirs, raced, late>>
        BY <1>1 DEF Clip!OnReady
    <2>2. events' \in Seq(Queued) /\ Len(events') <= MaxEvents
        <3>1. /\ copy \in Seq(Queued) /\ Len(copy) <= 1
              /\ Clip!Pull(client) \in Seq(Queued) /\ Len(Clip!Pull(client)) <= 1
            BY <1>0, Lists
        <3>2. Len(events) \in Nat /\ Len(copy) \in Nat /\ Len(Clip!Pull(client)) \in Nat
            BY <1>0, <3>1
        <3>3. events \o copy \in Seq(Queued) /\ Len(events \o copy) = Len(events) + Len(copy)
            BY <1>0, <2>1, <3>1, <3>2, SendingMore, ClipboardAssumption
        <3>4. Len(events \o copy) + Len(Clip!Pull(client)) <= MaxEvents
            BY <2>1, <3>1, <3>2, <3>3, ClipboardAssumption
        <3> QED
            BY <2>1, <3>1, <3>2, <3>3, <3>4, SendingMore, ClipboardAssumption
    <2>3. newest' \in Clip!Contents
        BY <1>0, <2>1
    <2> QED
        BY <1>0, <2>1, <2>2, <2>3, ClipQueue
<1>2. CASE Clip!OnRemoteCopy
    <2>1. PICK text : text = Head(fromClient).text
        OBVIOUS
    <2>2. /\ Len(events) < MaxEvents /\ fromClient # <<>> /\ fromClient' = Tail(fromClient)
          /\ events' = events \o Clip!Pull(text)
          /\ UNCHANGED <<mac, client, copies, backend, link, known, stop, poller, noting,
                         theirs, raced, newest, late>>
        BY <1>2, <2>1 DEF Clip!OnRemoteCopy, Clip!Handle, Clip!TaskRuns
    <2>3. fromClient' \in Seq(Clip!Msgs) /\ text \in Clip!Contents
        <3>1. PICK m \in Clip!Msgs : m = Head(fromClient)
            BY <1>0, <2>2
        <3>2. m.text \in Clip!Contents
            BY DEF Clip!Msgs
        <3>3. fromClient' \in Seq(Clip!Msgs)
            BY <1>0, <2>2
        <3> QED
            BY <2>1, <3>1, <3>2, <3>3
    <2>4. events' \in Seq(Queued) /\ Len(events') <= MaxEvents
        <3>1. Clip!Pull(text) \in Seq(Queued) /\ Len(Clip!Pull(text)) <= 1
            BY <2>3, Lists
        <3>2. Len(events) \in Nat /\ Len(Clip!Pull(text)) \in Nat
            BY <1>0, <3>1
        <3>3. Len(events) + Len(Clip!Pull(text)) <= MaxEvents
            BY <2>2, <3>1, <3>2, ClipboardAssumption
        <3> QED
            BY <1>0, <2>2, <3>1, <3>3, SendingMore
    <2> QED
        BY <1>0, <2>2, <2>3, <2>4, ClipQueue
<1>3. CASE Clip!OnFormatDataRequest
    <2>1. /\ Len(events) < MaxEvents /\ fromClient # <<>> /\ fromClient' = Tail(fromClient)
          /\ events' \in {Append(events, Clip!Msg("data", mac)), Append(events, Clip!Msg("error", Empty))}
          /\ newest' \in {newest, Empty}
          /\ UNCHANGED <<mac, client, copies, backend, link, known, stop, poller, noting,
                         theirs, raced, late>>
        BY <1>3 DEF Clip!OnFormatDataRequest, Clip!Handle, Clip!TaskRuns, Clip!Send
    <2>2. events' \in Seq(Queued) /\ Len(events') <= MaxEvents
        BY <1>0, <2>1, Sending, Messages
    <2>3. fromClient' \in Seq(Clip!Msgs) /\ newest' \in Clip!Contents
        BY <1>0, <2>1
    <2> QED
        BY <1>0, <2>1, <2>2, <2>3, ClipQueue
<1>4. CASE Clip!Dispatch
    <2>1. PICK e \in Queued : e = Head(events)
        BY <1>0, <1>4 DEF Clip!Dispatch
    <2>2. /\ events # <<>> /\ events' = Tail(events)
          /\ client' = IF link = "ready" /\ e.kind = "data" THEN e.text ELSE client
          /\ fromClient' = CASE link = "up" \/ e.kind \in {"data", "error"} -> fromClient
                               [] e.kind = "copy" -> Append(fromClient, Clip!Msg("request", Empty))
                               [] e.kind = "paste" -> Append(fromClient, Clip!Msg("data", client))
          /\ UNCHANGED <<mac, copies, backend, link, known, stop, poller, noting, theirs, raced,
                         newest, late>>
        BY <1>4, <2>1 DEF Clip!Dispatch
    <2>3. e.kind \in {"copy", "paste", "data", "error"} /\ e.text \in Clip!Contents
        BY <2>1 DEF Queued
    <2>4. events' \in Seq(Queued) /\ Len(events') <= MaxEvents
        BY <1>0, <2>2, ClipboardAssumption
    <2>5. client' \in Clip!Contents
        BY <1>0, <2>2, <2>3
    <2>6. fromClient' \in Seq(Clip!Msgs)
        <3>1. fromClient' \in {fromClient, Append(fromClient, Clip!Msg("request", Empty)),
                               Append(fromClient, Clip!Msg("data", client))}
            BY <2>2, <2>3
        <3>2. /\ Clip!Msg("request", Empty) \in Clip!Msgs
              /\ Clip!Msg("data", client) \in Clip!Msgs
            BY <1>0, Messages
        <3>3. \A m \in Clip!Msgs : Append(fromClient, m) \in Seq(Clip!Msgs)
            BY <1>0
        <3> QED
            BY <1>0, <3>1, <3>2, <3>3, Zenon
    <2> QED
        BY <1>0, <2>2, <2>4, <2>5, <2>6, ClipQueue
<1>5. CASE Clip!ClientCopies
    <2>1. /\ client' \in Clip!Contents /\ fromClient' = <<Clip!Msg("list", client')>>
          /\ copies < MaxCopies /\ copies' = copies + 1 /\ newest' = client'
          /\ UNCHANGED <<mac, backend, link, known, stop, poller, events, noting, theirs, raced, late>>
        BY <1>5 DEF Clip!ClientCopies, Clip!Copies
    <2>2. PICK t \in Clip!Contents : t = client'
        BY <2>1
    <2>3. Clip!Msg("list", t) \in Clip!Msgs
        BY Messages
    <2>4. fromClient' \in Seq(Clip!Msgs)
        BY <2>1, <2>2, <2>3
    <2>5. copies' \in 0 .. MaxCopies
        BY <1>0, <2>1, ClipboardAssumption
    <2> QED
        BY <1>0, <2>1, <2>4, <2>5, ClipQueue
<1>6. CASE UNCHANGED clipboardVars
    BY <1>0, <1>6, ClipQueue DEF clipboardVars
<1>7. CASE Clip!Discard
    <2>1. /\ link = "down" /\ events # <<>> /\ events' = Tail(events)
          /\ UNCHANGED <<mac, client, copies, backend, link, known, stop, poller, fromClient, noting,
                         theirs, raced, newest, late>>
        BY <1>7 DEF Clip!Discard
    <2>2. events' \in Seq(Queued) /\ Len(events') <= MaxEvents
        BY <1>0, <2>1, ClipboardAssumption
    <2> QED
        BY <1>0, <2>1, <2>2, ClipQueue
<1> QED
    BY <1>1, <1>2, <1>3, <1>4, <1>5, <1>6, <1>7

\* Polls under way overlap the write.
LEMMA Overlapped ==
    ASSUME ClipType, Clip!Overlap
    PROVE  /\ poller' \in [Clip!Backends -> Pollers]
           /\ \A b \in Clip!Backends : poller'[b].at = poller[b].at /\ ~poller'[b].clean
<1>1. PICK c \in BOOLEAN : ~c
    OBVIOUS
<1>2. poller' = [b \in Clip!Backends |-> [poller[b] EXCEPT !.clean = c]]
    BY <1>1, Zenon DEF Clip!Overlap
<1>3. poller' \in [Clip!Backends -> Pollers]
    BY <1>2 DEF ClipType, Pollers
<1>4. \A b \in Clip!Backends : poller'[b].at = poller[b].at /\ poller'[b].clean = c
    BY <1>2 DEF ClipType, Pollers
<1> QED
    BY <1>1, <1>3, <1>4

\* The client's text is written, or is not, and then noted as known.
LEMMA ClipWrite ==
    ASSUME ClipInv, Clip!OnFormatDataResponse \/ Clip!NotesKnown \/ Clip!MacCopies
    PROVE  ClipInv'
<1> USE DEF ClipInv
<1>1. CASE Clip!OnFormatDataResponse
    <2>1. /\ link = "ready" /\ noting = Empty /\ fromClient # <<>> /\ fromClient' = Tail(fromClient)
          /\ UNCHANGED <<client, copies, backend, link, known, stop, late, events>>
        BY <1>1 DEF Clip!OnFormatDataResponse, Clip!Handle, Clip!TaskRuns
    <2>2. fromClient' \in Seq(Clip!Msgs) /\ Head(fromClient).text \in Clip!Contents
        <3>1. PICK m \in Clip!Msgs : m = Head(fromClient)
            BY <2>1 DEF ClipType
        <3>2. m.text \in Clip!Contents
            BY DEF Clip!Msgs
        <3>3. fromClient' \in Seq(Clip!Msgs)
            BY <2>1 DEF ClipType
        <3> QED
            BY <3>1, <3>2, <3>3
    <2>3. CASE UNCHANGED <<mac, poller, noting, theirs, raced, newest>>
        BY <2>1, <2>2, <2>3, ClipQueue DEF ClipType
    <2>4. CASE /\ Head(fromClient).text # Empty /\ noting' = Head(fromClient).text
               /\ raced' = FALSE /\ Clip!Overlap
               /\ \/ mac' = noting' /\ theirs' = TRUE /\ UNCHANGED newest
                  \/ theirs' = FALSE /\ newest' = Empty /\ UNCHANGED mac
        <3>1. /\ poller' \in [Clip!Backends -> Pollers]
              /\ \A b \in Clip!Backends : poller'[b].at = poller[b].at /\ ~poller'[b].clean
            BY <2>4, Overlapped
        <3>2. theirs' \in BOOLEAN /\ raced' \in BOOLEAN
            BY <2>4
        <3>3. ClipType'
            BY <2>1, <2>2, <2>4, <3>1, <3>2 DEF ClipType, Clip!Contents
        <3>4. LifeInv'
            BY <2>1, <3>1 DEF LifeInv
        <3>5. EchoInv'
            BY <2>1, <2>4, <3>1 DEF EchoInv
        <3> QED
            BY <3>3, <3>4, <3>5
    <2> QED
        BY <1>1, <2>3, <2>4 DEF Clip!OnFormatDataResponse
<1>2. CASE Clip!NotesKnown
    <2>1. /\ noting # Empty /\ known' = [known EXCEPT ![backend] = noting] /\ noting' = Empty
          /\ UNCHANGED <<mac, client, copies, backend, link, stop, events, fromClient, theirs,
                         raced, newest, late>>
          /\ Clip!Overlap
        BY <1>2 DEF Clip!NotesKnown
    <2>2. /\ poller' \in [Clip!Backends -> Pollers]
          /\ \A b \in Clip!Backends : poller'[b].at = poller[b].at /\ ~poller'[b].clean
        BY <2>1, Overlapped
    <2>3. /\ link # "down" /\ (theirs => noting = mac) /\ backend \in Clip!Backends
        BY <2>1, ClipboardAssumption DEF EchoInv, LifeInv, ClipType, Clip!Backends
    <2>4. ClipType'
        BY <2>1, <2>2 DEF ClipType, Clip!Contents
    <2>5. LifeInv'
        BY <2>1, <2>2 DEF LifeInv
    <2>6. EchoInv'
        BY <2>1, <2>2, <2>3 DEF ClipType, EchoInv
    <2> QED
        BY <2>4, <2>5, <2>6
<1>3. CASE Clip!MacCopies
    <2>1. /\ mac' \in Clip!Contents /\ theirs' = FALSE /\ raced' = FALSE /\ noting = Empty
          /\ newest' \in {mac', Empty}
          /\ copies < MaxCopies /\ copies' = copies + 1
          /\ UNCHANGED <<client, backend, link, known, stop, poller, events, fromClient, noting,
                         late>>
        BY <1>3 DEF Clip!MacCopies, Clip!Copies, Clip!Quiet
    <2>2. copies' \in 0 .. MaxCopies /\ theirs' \in BOOLEAN /\ raced' \in BOOLEAN
        <3>1. copies' \in 0 .. MaxCopies
            BY <2>1, ClipboardAssumption DEF ClipType
        <3>2. theirs' \in BOOLEAN /\ raced' \in BOOLEAN
            BY <2>1
        <3> QED
            BY <3>1, <3>2
    <2>3. ClipType'
        BY <2>1, <2>2 DEF ClipType, Clip!Contents
    <2>4. LifeInv'
        BY <2>1 DEF LifeInv
    <2>5. EchoInv'
        BY <2>1 DEF EchoInv
    <2> QED
        BY <2>3, <2>4, <2>5
<1> QED
    BY <1>1, <1>2, <1>3

\* Whatever happens on either side.
LEMMA ClipInvariance == PartsSpec => []ClipInv
<1>1. PartsInit => ClipInv
    BY ClipInit DEF PartsInit
<1>2. ClipInv /\ [PartsNext]_partsVars => ClipInv'
    <2> SUFFICES ASSUME ClipInv, [Clip!Next]_clipboardVars PROVE ClipInv'
        BY PartSteps
    <2> QED
        BY ClipBackend, ClipPoll, ClipMessages, ClipWrite DEF Clip!Next, Clip!Task
<1> QED
    BY <1>1, <1>2, PTL DEF PartsSpec

\* Only a comparison sends the thread to sleep.
LEMMA EchoStep == ClipInv /\ [Clip!Next]_clipboardVars =>
    \A b \in Clip!Backends :
       b = backend /\ link = "ready" /\ poller[b].at = "compare" /\ poller'[b].at = "sleeping"
       /\ theirs /\ poller[b].got = mac /\ Len(events') > Len(events)
       => raced'
<1> SUFFICES ASSUME ClipInv, [Clip!Next]_clipboardVars, NEW b \in Clip!Backends, b = backend,
                    link = "ready", poller[b].at = "compare", poller'[b].at = "sleeping", theirs,
                    poller[b].got = mac, Len(events') > Len(events)
             PROVE  raced'
    BY Zenon
<1>0. poller \in [Clip!Backends -> Pollers] /\ Len(events) \in Nat
    BY DEF ClipInv, ClipType
<1>1. poller'[b] # poller[b]
    BY Zenon
<1>2. CASE Clip!PollCompares(b)
    <2>1. raced' = (theirs /\ (raced \/ (b = backend /\ ~poller[b].clean)))
        BY <1>2 DEF Clip!PollCompares
    <2>2. poller[b].got # known[b]
        BY <1>0, <1>2 DEF Clip!PollCompares
    <2>3. raced \/ ~poller[b].clean
        BY <2>2 DEF ClipInv, EchoInv
    <2> QED
        BY <2>1, <2>3
<1>3. CASE Clip!Build
    BY <1>0, <1>1, <1>3 DEF Clip!Build
<1>4. ASSUME NEW d \in Clip!Backends, Clip!Poll(d), ~Clip!PollCompares(b) PROVE FALSE
    BY <1>0, <1>1, <1>4 DEF Clip!Poll, Clip!PollReads, Clip!PollCompares, Clip!Loops
<1>5. CASE Clip!Overlap
    BY <1>5, Overlapped DEF ClipInv
<1> QED
    BY <1>1, <1>2, <1>3, <1>4, <1>5
    DEF Clip!Next, Clip!OnReady, Clip!Discard, Clip!DropBackend, Clip!Task, Clip!NotesKnown, Clip!MacCopies,
        Clip!ClientCopies, Clip!Copies, Clip!OnRemoteCopy, Clip!OnFormatDataRequest,
        Clip!OnFormatDataResponse, Clip!Dispatch, clipboardVars

\* "Suppress the inevitable poll echo" (clipboard.rs:125), for any number of
\* connections, texts and copies: an echo needs a poll that overlaps the write.
THEOREM EchoNeedsRaceAlways == PartsSpec => Clip!EchoNeedsRace
<1>1. ClipInv /\ [PartsNext]_partsVars =>
        [\A b \in Clip!Backends :
            b = backend /\ link = "ready" /\ poller[b].at = "compare" /\ poller'[b].at = "sleeping"
            /\ theirs /\ poller[b].got = mac /\ Len(events') > Len(events)
            => raced']_clipboardVars
    BY PartSteps, EchoStep
<1> QED
    BY <1>1, ClipInvariance, PTL DEF PartsSpec, Clip!EchoNeedsRace, Clip!clipVars, clipboardVars

\* Every variable of every part has its type: the queue of clipboard events and
\* the updates stay bounded, a client that has left sends one event at most.
THEOREM PartsTypeCorrect == PartsSpec => []PartsTypeOK
<1>1. ClipInv => Clip!TypeOK
    <2>1. ASSUME NEW q \in Seq(Queued) PROVE q \in Seq(Clip!Msgs)
        <3>1. Queued \subseteq Clip!Msgs
            BY DEF Queued, Clip!Msgs
        <3> QED
            BY <3>1
    <2>2. SUFFICES ASSUME ClipInv PROVE Clip!TypeOK
        OBVIOUS
    <2>3. events \in Seq(Clip!Msgs)
        BY <2>1, <2>2 DEF ClipInv, ClipType
    <2> QED
        BY <2>2, <2>3 DEF ClipInv, ClipType, Clip!TypeOK, Pollers
<1>2. IInv /\ ClipInv /\ KeyInv /\ FragmentInv /\ BufferInv /\ ChoiceInv => PartsTypeOK
    BY <1>1 DEF PartsTypeOK, IInv, KeyInv, FragmentInv, BufferInv, ChoiceInv
<1> QED
    BY <1>2, EncodeInvariance, ClipInvariance, KeyInvariance, FragmentInvariance, BufferInvariance,
       ChoiceInvariance, PTL
=============================================================================
