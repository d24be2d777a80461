------------------------------ MODULE ModeChoice ------------------------------
(***************************************************************************)
(* Which mode the helper process takes for a size a client wants           *)
(* (run_helper, display_mode.rs): it goes through the modes in the order   *)
(* macOS lists them, which may be any, and keeps the best so far; if no    *)
(* mode has nearly the same shape, once more with any shape.  Ratios are   *)
(* compared as fractions, the tolerances are numbers of 1 / Unit.          *)
(***************************************************************************)
EXTENDS Integers

CONSTANTS
    Targets,    \* the sizes clients want
    Pool,       \* modes a display may list
    NoMode,
    Unit,
    Tolerance,  \* ratio_tolerance
    Slack       \* ratios that differ by less count as equal

VARIABLES
    want,    \* target_w, target_h
    listed,  \* all_modes
    rest,    \* those not looked at
    best,    \* best_mode
    pass     \* 1, 2, or 3 when done

choiceVars == <<want, listed, rest, best, pass>>

TypeOK ==
    /\ want \in Targets
    /\ listed \subseteq Pool
    /\ rest \subseteq listed
    /\ best \in listed \cup {NoMode}
    /\ pass \in 1 .. 3

Init ==
    /\ want \in Targets
    /\ listed \in SUBSET Pool
    /\ rest = listed
    /\ best = NoMode
    /\ pass = 1

Abs(n) == IF n < 0 THEN -n ELSE n

\* ratio_diff is Off(m) / Scale(m).
Off(m) == Abs(m.w * want.h - want.w * m.h)
Scale(m) == m.h * want.h
PixelDiff(m) == Abs(m.w * m.h - want.w * want.h)

\* The ratio of m is nearer to the wanted one than that of n plus k units.
Nearer(m, n, k) == Off(m) * Scale(n) * Unit < Off(n) * Scale(m) * Unit + k * Scale(m) * Scale(n)

Usable(m) == m.w # 0 /\ m.h # 0 /\ 4 * m.w * m.h >= want.w * want.h
Fits(m) == Off(m) * Unit < Tolerance * Scale(m)

\* Mutant: the number of pixels does not count.
BetterByRatio(m) ==
    /\ Usable(m)
    /\ pass = 1 => Fits(m)
    /\ best = NoMode \/ Nearer(m, best, 0)

\* The two conditions, of the strict pass and of the relaxed one.
Better(m) ==
    /\ Usable(m)
    /\ pass = 1 => Fits(m)
    /\ \/ best = NoMode
       \/ Nearer(m, best, IF pass = 1 THEN -Slack ELSE 0)
       \/ Nearer(m, best, Slack) /\ PixelDiff(m) < PixelDiff(best)

Look(m) ==
    /\ pass < 3
    /\ rest' = rest \ {m}
    /\ best' = IF Better(m) THEN m ELSE best
    /\ UNCHANGED <<want, listed, pass>>

NextPass ==
    /\ pass < 3
    /\ rest = {}
    /\ IF pass = 1 /\ best = NoMode
       THEN pass' = 2 /\ rest' = listed
       ELSE pass' = 3 /\ UNCHANGED rest
    /\ UNCHANGED <<want, listed, best>>

Next == (\E m \in rest : Look(m)) \/ NextPass

Spec == Init /\ [][Next]_choiceVars

\* A mode the comparison cannot tell from the wanted size: it has as many
\* pixels and nearly the shape.
Twin(m) == PixelDiff(m) = 0 /\ Off(m) * Unit <= Slack * Scale(m)

\* In whatever order the modes are listed: a mode is found if one is large
\* enough, one of the right shape if there is one, and the wanted size itself
\* if it is a mode, unless a twin of it came first.
ChoosesWell ==
    pass = 3 =>
    LET usable == {m \in listed : Usable(m)} IN
      /\ best = NoMode <=> usable = {}
      /\ best # NoMode => best \in usable
      /\ (\E m \in usable : Fits(m)) => best \in {m \in usable : Fits(m)}
      /\ want \in listed => best = want \/ Twin(best)
==============================================================================
