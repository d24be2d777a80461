------------------------------ MODULE Keyboard ------------------------------
(***************************************************************************)
(* scancode_to_cg of keyboard.rs: which key of the Mac a scancode (set 1)  *)
(* with or without the extended bit is.  The table is a constant, laid out *)
(* as the source lays it out: runs of scancodes that follow each other.    *)
(***************************************************************************)
EXTENDS Naturals, Sequences

Scancodes == 0 .. 127
Scans == [code : Scancodes, extended : BOOLEAN]
NoKey == "none"

\* The keys of the codes first, first + 1, ... with the extended bit in ext.
Row(first, ext, keys) ==
    {[code |-> first + i - 1, extended |-> x, key |-> keys[i]] : i \in 1 .. Len(keys), x \in ext}

Plain == {FALSE}
Extended == {TRUE}
Either == {FALSE, TRUE}

Table ==
    UNION {
      \* digits
      Row(\h29, Either, <<"`">>),
      Row(\h02, Either, <<"1", "2", "3", "4", "5", "6", "7", "8", "9", "0", "-", "=", "delete">>),
      \* letters
      Row(\h0F, Either, <<"tab", "q", "w", "e", "r", "t", "y", "u", "i", "o", "p", "[", "]">>),
      Row(\h2B, Either, <<"backslash">>),
      Row(\h3A, Either, <<"capsLock">>),
      Row(\h1E, Either, <<"a", "s", "d", "f", "g", "h", "j", "k", "l", ";", "'">>),
      Row(\h1C, Plain, <<"return">>), Row(\h1C, Extended, <<"keypadEnter">>),
      Row(\h2A, Either, <<"shift">>),
      Row(\h2C, Either, <<"z", "x", "c", "v", "b", "n", "m", ",", ".">>),
      Row(\h35, Plain, <<"/">>),
      Row(\h36, Either, <<"rightShift">>),
      \* bottom row
      Row(\h1D, Plain, <<"control">>), Row(\h1D, Extended, <<"rightControl">>),
      Row(\h38, Plain, <<"option">>), Row(\h38, Extended, <<"rightOption">>),
      Row(\h39, Either, <<"space">>),
      Row(\h5B, Either, <<"command", "rightCommand">>),
      \* function keys
      Row(\h01, Either, <<"escape">>),
      Row(\h3B, Either, <<"f1", "f2", "f3", "f4", "f5", "f6", "f7", "f8", "f9", "f10">>),
      Row(\h57, Either, <<"f11", "f12">>),
      Row(\h64, Either, <<"f13", "f14", "f15">>),
      \* navigation
      Row(\h47, Extended, <<"home", "up", "pageUp">>), Row(\h4B, Extended, <<"left">>),
      Row(\h4D, Extended, <<"right">>), Row(\h4F, Extended, <<"end", "down", "pageDown", "help", "forwardDelete">>),
      \* numeric keypad
      Row(\h45, Either, <<"keypadClear">>), Row(\h4A, Either, <<"keypad-">>),
      Row(\h37, Plain, <<"keypad*">>), Row(\h35, Extended, <<"keypad/">>),
      Row(\h4E, Either, <<"keypad+">>), Row(\h4C, Either, <<"keypadEnter">>),
      Row(\h47, Plain, <<"keypad7", "keypad8", "keypad9">>), Row(\h4B, Plain, <<"keypad4">>),
      Row(\h4D, Plain, <<"keypad6">>), Row(\h4F, Plain, <<"keypad1", "keypad2", "keypad3", "keypad0", "keypad.">>),
      \* no equivalent
      Row(\h37, Extended, <<"f13">>), Row(\h46, Either, <<"f16">>)
    }

\* None for an unmapped key.
scancode_to_cg ==
    [s \in Scans |->
        IF \E r \in Table : r.code = s.code /\ r.extended = s.extended
        THEN (CHOOSE r \in Table : r.code = s.code /\ r.extended = s.extended).key
        ELSE NoKey]

\* No two entries for one scancode: the order of the match arms is immaterial.
OneEntryPerScan ==
    \A r, q \in Table : r.code = q.code /\ r.extended = q.extended => r = q
==============================================================================
