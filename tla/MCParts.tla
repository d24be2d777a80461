------------------------------- MODULE MCParts -------------------------------
(* A few calls, copies, keys, fragments and turns, and sizes at every boundary. *)
EXTENDS Parts

CONSTANTS a, b, none, char

MCTexts == {a, b}

\* A left and a right Shift, the keypad's Enter, a code without a key, and the
\* letter that shares its key with every character.
Scan(code, extended) == [code |-> code, extended |-> extended]
MCKeys == {Scan(\h2A, FALSE), Scan(\h36, FALSE), Scan(\h1C, TRUE), Scan(0, FALSE), Scan(\h1E, FALSE)}
MCChars == {char}

MCLengths == 0 .. 10
MCSides == 1 .. 7

\* Modes of the same shape and other sizes, of nearly the same shape and size,
\* of other shapes, two that are twins, some too small, and one of no size.
Mode(w, h) == [w |-> w, h |-> h]
MCTargets == {Mode(8, 6), Mode(16, 9), Mode(21, 20)}
MCPool == MCTargets \cup {Mode(4, 3), Mode(16, 12), Mode(15, 9), Mode(20, 21), Mode(0, 9)}

\* The table of keyboard.rs has no scancode twice, and no two scancodes for a
\* key but for two pairs.
ASSUME In!OneEntryPerScan
ASSUME \A s, t \in In!Scans :
          /\ In!scancode_to_cg[s] = In!scancode_to_cg[t] /\ In!scancode_to_cg[s] # In!NoKey
          /\ s.code < t.code
          => <<s.code, t.code>> \in {<<\h1C, \h4C>>, <<\h37, \h64>>}
==============================================================================
