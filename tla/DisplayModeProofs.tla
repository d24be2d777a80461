-------------------------- MODULE DisplayModeProofs --------------------------
(***************************************************************************)
(* What holds of DisplayMode for every set of modes and every number of    *)
(* waiting layouts.  TypeOK holds in every environment; that the user's    *)
(* mode is never forgotten holds in the Benign ones.  A kill between the   *)
(* helper's switch and the write of the file leaves nothing to restore     *)
(* from, so their condition on kills is needed.                            *)
(***************************************************************************)
EXTENDS DisplayMode, TLAPS

\* A switcher that does not exist has switched nothing.
SwitcherExists ==
    switcher.original = Absent => /\ ~switcher.switched
                                  /\ pc \notin {"switching", "switched", "writing"}

TypeInv == TypeOK /\ SwitcherExists

\* What holds in the beginning.
LEMMA TypeInit == Init => TypeInv
<1> SUFFICES ASSUME Init PROVE TypeInv
    OBVIOUS
<1> USE ModeAssumption, WorldAssumption DEF Init
<1>1. switcher \in [original : Modes \cup {NoMode, Absent}, switched : BOOLEAN]
      BY DEF NoSwitcher
<1>2. helper \in [Callers -> Running \cup {NoHelper}]
      OBVIOUS
<1>3. mode \in Modes /\ file \in Modes \cup {NoMode, Absent, Garbage}
      OBVIOUS
<1>4. layouts \in 0 .. MaxLayouts
      OBVIOUS
<1>5. SwitcherExists
      BY DEF SwitcherExists, NoSwitcher
<1> QED
    BY <1>1, <1>2, <1>3, <1>4, <1>5 DEF TypeInv, TypeOK, Pcs

\* Every step keeps the types.
LEMMA TypeNext == TypeInv /\ [Next]_vars => TypeInv'
<1> SUFFICES ASSUME TypeInv, [Next]_vars PROVE TypeInv'
    OBVIOUS
<1>w. world' = world
      BY DEF Next, vars
<1> USE ModeAssumption, WorldAssumption, <1>w
    DEF TypeInv, TypeOK, SwitcherExists, Pcs, Callers, Running, NoHelper, NoSwitcher,
        serverVars, crashVars
<1>1. CASE RestorePending
      BY <1>1 DEF RestorePending, Spawn
<1>2. CASE RestorePendingDone
      BY <1>2 DEF RestorePendingDone, Reap
<1>3. ASSUME NEW target \in Modes, RequestLayout(target) PROVE TypeInv'
  <2> USE <1>3 DEF RequestLayout, Spawn
  <2>1. \/ switcher # NoSwitcher /\ switcher' = switcher
        \/ switcher' \in [original : Modes \cup {NoMode}, switched : {FALSE}]
    <3>1. ASSUME NEW m \in Modes \cup {NoMode}
          PROVE [original |-> m, switched |-> FALSE] \in [original : Modes \cup {NoMode}, switched : {FALSE}]
          OBVIOUS
    <3>2. CASE switcher = NoSwitcher
      <4>1. PICK m \in Modes \cup {NoMode} : switcher' = [original |-> m, switched |-> FALSE]
            BY <3>2
      <4> QED
          BY <4>1, <3>1
    <3> QED
        BY <3>2
  <2>2. helper' \in [Callers -> Running \cup {NoHelper}]
        OBVIOUS
  <2>3. layouts' \in 0 .. MaxLayouts
        OBVIOUS
  <2>4. pc' = pc \/ pc' = "switching"
        OBVIOUS
  <2>5. switcher'.original # Absent
        BY <2>1
  <2>6. switcher' \in [original : Modes \cup {NoMode, Absent}, switched : BOOLEAN]
        BY <2>1
  <2> QED
      BY <2>1, <2>2, <2>3, <2>4, <2>5, <2>6
<1>4. CASE SwitchReturns
      BY <1>4 DEF SwitchReturns, Reap
<1>5. CASE TruncateFile
      BY <1>5 DEF TruncateFile
<1>6. CASE WriteFile
      BY <1>6 DEF WriteFile
<1>7. CASE ClientDisconnected
  <2> USE <1>7 DEF ClientDisconnected, Restore, Spawn
  <2>1. switcher' \in [original : Modes \cup {NoMode, Absent}, switched : BOOLEAN]
        OBVIOUS
  <2>2. switcher'.original = switcher.original /\ ~switcher'.switched
        OBVIOUS
  <2>3. helper' \in [Callers -> Running \cup {NoHelper}]
        OBVIOUS
  <2>4. pc' \in {"idle", "restoring"}
        OBVIOUS
  <2> QED
      BY <2>1, <2>2, <2>3, <2>4
<1>8. CASE RestoreReturns
      BY <1>8 DEF RestoreReturns, Reap
<1>9. ASSUME NEW c \in Callers, Helper(c) PROVE TypeInv'
  <2>1. CASE HelperSwitches(c)
        BY <2>1 DEF HelperSwitches, Exits
  <2>2. CASE HelperSwitchFails(c)
        BY <2>2 DEF HelperSwitchFails, Exits
  <2>3. CASE HelperDies(c)
        BY <2>3 DEF HelperDies, Exits
  <2>4. CASE HelperRestores(c)
        BY <2>4 DEF HelperRestores, Exits
  <2>5. CASE HelperRestoreFails(c)
        BY <2>5 DEF HelperRestoreFails, Exits
  <2>6. QED
        BY <1>9, <2>1, <2>2, <2>3, <2>4, <2>5 DEF Helper
<1>10. CASE OrphanFinishes
      BY <1>10 DEF OrphanFinishes
<1>11. CASE Boot \/ ClientConnects \/ LayoutArrives \/ ClientLeaves
      BY <1>11 DEF Boot, ClientConnects, LayoutArrives, ClientLeaves
<1>12. CASE Quit
      BY <1>12 DEF Quit, Restore, Spawn
<1>13. CASE Kill
  <2> USE <1>13 DEF Kill
  <2>1. \A h \in {helper[c] : c \in Callers} : h.st = "running" => h \in Running
        OBVIOUS
  <2>2. orphans' \in SUBSET Running
        BY <2>1
  <2>3. helper' \in [Callers -> Running \cup {NoHelper}]
        OBVIOUS
  <2>4. switcher' \in [original : Modes \cup {NoMode, Absent}, switched : BOOLEAN]
        OBVIOUS
  <2>5. SwitcherExists'
        OBVIOUS
  <2>6. /\ pc' \in Pcs
        /\ layouts' \in 0 .. MaxLayouts
        /\ mode' = mode /\ file' = file
        OBVIOUS
  <2> QED
      BY <2>2, <2>3, <2>4, <2>5, <2>6
<1>14. CASE Segv
      BY <1>14 DEF Segv
<1>15. CASE CrashHandler
      BY <1>15 DEF CrashHandler, HandlerRestorePending, HandlerRestoreReturns, HandlerRaises,
                   Spawn, Reap
<1>16. CASE UNCHANGED vars
      BY <1>16 DEF vars
<1> QED
    BY <1>1, <1>2, <1>3, <1>4, <1>5, <1>6, <1>7, <1>8, <1>9, <1>10, <1>11, <1>12, <1>13,
       <1>14, <1>15, <1>16 DEF Next, Step, Server

\* The type invariant of DisplayMode, in every environment.
THEOREM TypeCorrect == Spec => []TypeOK
<1>1. TypeInv => TypeOK
      BY DEF TypeInv
<1> QED
    BY TypeInit, TypeNext, <1>1, PTL DEF Spec

-----------------------------------------------------------------------------
(* The user's mode is never forgotten. *)

\* No signal has been raised.
NoCrash == handler = "none" /\ ~frozen /\ helper["handler"] = NoHelper

\* Which helper the server waits for at which point.
HelperOfPc ==
    LET h == helper["server"] IN
    /\ pc = "switching" => h.op = "switch"
    /\ pc \in {"bootRestoring", "restoring", "exiting"} => h.op = "restore" /\ h.to = Home
    /\ pc \notin {"switching", "bootRestoring", "restoring", "exiting"} => h = NoHelper
    /\ h.op = "restore" /\ h.st = "ok" => mode = Home
    /\ pc = "bootRestoring" => h.st # "failed"

\* A helper left behind by a killed server can only go home.
OrphansGoHome == \A h \in orphans : h.op = "restore" /\ h.to = Home

\* The file is unreadable only while it is being written.
FileWritten ==
    /\ file \in {Home, Absent} \/ pc = "writing"
    /\ pc = "writing" => file = Garbage

\* Away from home the file says so, or the switch has just succeeded.
AwayInv ==
    \/ mode = Home
    \/ file = Home
    \/ pc = "switching" /\ helper["server"].st = "ok"
    \/ pc \in {"switched", "writing"}

OriginalInv ==
    /\ switcher.original \in {Home, Absent}
    /\ pc \in {"down", "boot", "bootRestoring", "exiting"} => switcher = NoSwitcher
    /\ pc = "restoring" => switcher.original = Home

IInv ==
    /\ TypeInv
    /\ NoCrash
    /\ HelperOfPc
    /\ OrphansGoHome
    /\ FileWritten
    /\ AwayInv
    /\ OriginalInv
    /\ StartsAtHome

\* What holds in the beginning.
LEMMA SafetyInit == Init => IInv
<1>1. Init => NoCrash /\ HelperOfPc /\ OrphansGoHome /\ FileWritten /\ AwayInv /\ StartsAtHome
      BY DEF Init, NoCrash, HelperOfPc, OrphansGoHome, FileWritten, AwayInv, StartsAtHome,
             Callers, NoHelper
<1>2. Init => OriginalInv
      BY DEF Init, OriginalInv, NoSwitcher
<1> QED
    BY <1>1, <1>2, TypeInit DEF IInv

\* Every step of a benign environment.
LEMMA SafetyNext == Benign /\ IInv /\ [Next]_vars => (Benign /\ IInv)'
<1> SUFFICES ASSUME Benign, IInv, [Next]_vars PROVE (Benign /\ IInv)'
    OBVIOUS
<1>w. Benign'
      BY DEF Benign, Next, vars
<1> SUFFICES IInv'
    BY <1>w
<1>t. TypeInv'
      BY TypeNext DEF IInv
<1>n. \A h \in Running : h # NoHelper
      BY ModeAssumption DEF Running, NoHelper
<1> USE ModeAssumption, <1>t, <1>w
    DEF IInv, TypeInv, TypeOK, SwitcherExists, NoCrash, HelperOfPc, OrphansGoHome, FileWritten,
        AwayInv, OriginalInv, StartsAtHome, Benign, Callers, NoHelper, NoSwitcher,
        serverVars, crashVars
<1>1. CASE RestorePending
      BY <1>1 DEF RestorePending, Spawn
<1>2. CASE RestorePendingDone
  <2>1. helper'["server"] = NoHelper /\ helper'["handler"] = NoHelper
        BY <1>2 DEF RestorePendingDone, Reap
  <2>2. mode = Home /\ switcher = NoSwitcher
        BY <1>2 DEF RestorePendingDone, Returned
  <2>3. file' = Absent /\ pc' = "idle" /\ UNCHANGED <<mode, switcher, orphans, handler, frozen>>
        BY <1>2 DEF RestorePendingDone
  <2> QED
      BY <2>1, <2>2, <2>3
<1>3. ASSUME NEW target \in Modes, RequestLayout(target) PROVE IInv'
      BY <1>3 DEF RequestLayout, Spawn
<1>4. CASE SwitchReturns
  <2>1. helper'["server"] = NoHelper /\ helper'["handler"] = NoHelper
        BY <1>4 DEF SwitchReturns, Reap
  <2>2. /\ pc = "switching" /\ switcher.original = Home
        /\ UNCHANGED <<mode, file, orphans, handler, frozen>>
        BY <1>4 DEF SwitchReturns
  <2>3. CASE pc' = "switched" /\ switcher' = [switcher EXCEPT !.switched = TRUE]
        BY <2>1, <2>2, <2>3
  <2>4. CASE pc' = "idle" /\ switcher' = switcher /\ helper["server"].st = "failed"
        BY <2>1, <2>2, <2>4
  <2> QED
      BY <1>4, <2>3, <2>4 DEF SwitchReturns, Returned
<1>5. CASE TruncateFile
      BY <1>5 DEF TruncateFile
<1>6. CASE WriteFile
      BY <1>6 DEF WriteFile
<1>7. CASE ClientDisconnected
      BY <1>7 DEF ClientDisconnected, Restore, Spawn
<1>8. CASE RestoreReturns
  <2>1. helper'["server"] = NoHelper /\ helper'["handler"] = NoHelper
        BY <1>8 DEF RestoreReturns, Reap
  <2>2. /\ (pc = "restoring" /\ pc' = "idle") \/ (pc = "exiting" /\ pc' = "down")
        /\ UNCHANGED <<mode, switcher, orphans, handler, frozen>>
        BY <1>8 DEF RestoreReturns
  <2>3. (file' = Absent /\ mode = Home) \/ file' = file
        BY <1>8 DEF RestoreReturns, Returned
  <2> QED
      BY <2>1, <2>2, <2>3
<1>9. ASSUME NEW c \in Callers, Helper(c) PROVE IInv'
  <2>1. CASE HelperSwitches(c)
        BY <2>1 DEF HelperSwitches, Exits
  <2>2. CASE HelperSwitchFails(c)
        BY <2>2 DEF HelperSwitchFails, Exits
  <2>3. CASE HelperDies(c)
        BY <2>3 DEF HelperDies
  <2>4. CASE HelperRestores(c)
        BY <2>4 DEF HelperRestores, Exits
  <2>5. CASE HelperRestoreFails(c)
        BY <2>5 DEF HelperRestoreFails, Exits
  <2>6. QED
        BY <1>9, <2>1, <2>2, <2>3, <2>4, <2>5 DEF Helper
<1>10. CASE OrphanFinishes
      BY <1>10 DEF OrphanFinishes
<1>11. CASE Boot \/ ClientConnects \/ LayoutArrives \/ ClientLeaves
      BY <1>11 DEF Boot, ClientConnects, LayoutArrives, ClientLeaves
<1>12. CASE Quit
      BY <1>12 DEF Quit, Restore, Spawn
<1>13. CASE Kill
      BY <1>13 DEF Kill
<1>14. CASE Segv \/ CrashHandler
      BY <1>14 DEF Segv, CrashHandler, HandlerRestorePending, HandlerRestoreReturns, HandlerRaises
<1>15. CASE UNCHANGED vars
      BY <1>15 DEF vars
<1> QED
    BY <1>1, <1>2, <1>3, <1>4, <1>5, <1>6, <1>7, <1>8, <1>9, <1>10, <1>11, <1>12, <1>13,
       <1>14, <1>15 DEF Next, Step, Server

\* The environment does not change, so a behaviour is benign throughout or
\* not at all.
LEMMA BenignOrNot == Spec => [](Benign => IInv)
<1>1. Init => (Benign => IInv)
      BY SafetyInit
<1>2. (Benign => IInv) /\ [Next]_vars => (Benign => IInv)'
  <2>1. [Next]_vars => world' = world
        BY DEF Next, vars
  <2> QED
      BY <2>1, SafetyNext DEF Benign
<1> QED
    BY <1>1, <1>2, PTL DEF Spec

\* A display that is not in the user's mode can always be brought back.
THEOREM RecoverableAlways == Spec => []Recoverable
<1>1. (Benign => IInv) => Recoverable
      BY DEF IInv, AwayInv, Recoverable, HomeKnown, OriginalInv, TypeInv, TypeOK, SwitcherExists
<1> QED
    BY BenignOrNot, <1>1, PTL

\* Neither the switcher nor the file ever names a mode that is not the user's.
THEOREM OriginalIsHomeAlways == Spec => []OriginalIsHome
<1>1. (Benign => IInv) => OriginalIsHome
      BY ModeAssumption DEF IInv, OriginalInv, FileWritten, OriginalIsHome
<1> QED
    BY BenignOrNot, <1>1, PTL

\* After every start the display is back in the user's mode.
THEOREM StartsAtHomeAlways == Spec => []StartsAtHome
<1>1. (Benign => IInv) => StartsAtHome
      BY DEF IInv, StartsAtHome
<1> QED
    BY BenignOrNot, <1>1, PTL

\* The file is given up only at home, or for a switch in progress.
THEOREM FileOutlivesSwitchAlways == Spec => FileOutlivesSwitch
<1>1. (Benign => IInv) /\ [Next]_vars
      => [Benign /\ file = Home /\ file' # Home => mode = Home \/ pc' = "writing"]_vars
  <2> SUFFICES ASSUME Benign, IInv, Next, file = Home, file' # Home
               PROVE mode = Home \/ pc' = "writing"
      OBVIOUS
  <2> USE ModeAssumption
      DEF IInv, TypeInv, TypeOK, NoCrash, HelperOfPc, FileWritten, Benign, Callers, NoHelper
  <2>1. \/ RestorePending \/ RestorePendingDone \/ TruncateFile \/ WriteFile \/ RestoreReturns
        \/ HandlerRestorePending \/ HandlerRestoreReturns
    <3>1. ASSUME NEW target \in Modes PROVE ~RequestLayout(target)
          BY DEF RequestLayout
    <3>2. ASSUME NEW c \in Callers PROVE ~Helper(c)
          BY DEF Helper, HelperSwitches, HelperSwitchFails, HelperDies, HelperRestores, HelperRestoreFails
    <3> QED
        BY <3>1, <3>2 DEF Next, Step, Server, SwitchReturns, ClientDisconnected, OrphanFinishes, Boot,
           ClientConnects, LayoutArrives, ClientLeaves, Quit, Kill, Segv, CrashHandler, HandlerRaises
  <2>2. CASE RestorePending \/ WriteFile \/ HandlerRestorePending \/ HandlerRestoreReturns
        BY <2>2 DEF RestorePending, WriteFile, HandlerRestorePending, HandlerRestoreReturns
  <2>3. CASE TruncateFile
        BY <2>3 DEF TruncateFile
  <2>4. CASE RestorePendingDone \/ RestoreReturns
        BY <2>4 DEF RestorePendingDone, RestoreReturns, Returned
  <2> QED
      BY <2>1, <2>2, <2>3, <2>4
<1> QED
    BY BenignOrNot, <1>1, PTL DEF Spec, FileOutlivesSwitch

-----------------------------------------------------------------------------
(* A client served in a switched mode is covered by the file. *)

Covering == world.faults \cap {"writeFails", "segv"} = {}

SavedInv ==
    /\ TypeInv
    /\ NoCrash
    /\ pc = "writing" => file = Garbage
    /\ pc \in {"down", "boot", "bootRestoring", "restoring", "exiting"} => ~switcher.switched
    /\ pc \in {"idle", "switching"} /\ switcher.switched => file = switcher.original

\* What holds in the beginning.
LEMMA SavedInit == Init => SavedInv
BY TypeInit DEF Init, SavedInv, NoCrash, Callers, NoHelper, NoSwitcher

\* Every step of an environment in which neither writes nor the server fail.
LEMMA SavedNext == Covering /\ SavedInv /\ [Next]_vars => (Covering /\ SavedInv)'
<1> SUFFICES ASSUME Covering, SavedInv, [Next]_vars PROVE (Covering /\ SavedInv)'
    OBVIOUS
<1>w. Covering'
      BY DEF Covering, Next, vars
<1>t. TypeInv'
      BY TypeNext DEF SavedInv
<1> SUFFICES SavedInv'
    BY <1>w
<1> USE ModeAssumption, <1>t
    DEF SavedInv, TypeInv, TypeOK, SwitcherExists, NoCrash, Covering, Callers, NoHelper,
        NoSwitcher, serverVars, crashVars
<1>1. CASE RestorePending \/ RestorePendingDone
      BY <1>1 DEF RestorePending, RestorePendingDone, Spawn, Reap
<1>2. ASSUME NEW target \in Modes, RequestLayout(target) PROVE SavedInv'
      BY <1>2 DEF RequestLayout, Spawn
<1>3. CASE SwitchReturns
  <2>1. helper'["handler"] = NoHelper
        BY <1>3 DEF SwitchReturns, Reap
  <2>2. pc = "switching" /\ UNCHANGED <<file, handler, frozen>>
        BY <1>3 DEF SwitchReturns
  <2>3. pc' = "switched" \/ (pc' = "idle" /\ switcher' = switcher)
        BY <1>3 DEF SwitchReturns
  <2> QED
      BY <2>1, <2>2, <2>3
<1>4. CASE TruncateFile
      BY <1>4 DEF TruncateFile
<1>5. CASE WriteFile
      BY <1>5 DEF WriteFile
<1>6. CASE ClientDisconnected
      BY <1>6 DEF ClientDisconnected, Restore, Spawn
<1>7. CASE RestoreReturns
      BY <1>7 DEF RestoreReturns, Reap
<1>8. ASSUME NEW c \in Callers, Helper(c) PROVE SavedInv'
      BY <1>8 DEF Helper, HelperSwitches, HelperSwitchFails, HelperDies, HelperRestores,
                  HelperRestoreFails, Exits
<1>9. CASE OrphanFinishes \/ Boot \/ ClientConnects \/ LayoutArrives \/ ClientLeaves
      BY <1>9 DEF OrphanFinishes, Boot, ClientConnects, LayoutArrives, ClientLeaves
<1>10. CASE Quit
      BY <1>10 DEF Quit, Restore, Spawn
<1>11. CASE Kill
      BY <1>11 DEF Kill
<1>12. CASE Segv \/ CrashHandler
      BY <1>12 DEF Segv, CrashHandler, HandlerRestorePending, HandlerRestoreReturns, HandlerRaises
<1>13. CASE UNCHANGED vars
      BY <1>13 DEF vars
<1> QED
    BY <1>1, <1>2, <1>3, <1>4, <1>5, <1>6, <1>7, <1>8, <1>9, <1>10, <1>11, <1>12, <1>13
       DEF Next, Step, Server

\* Whoever is killed when, and whatever helpers do: a switched display that
\* serves a client is covered by the file, if the file can be written.
THEOREM SavedWhileSwitchedAlways == Spec => []SavedWhileSwitched
<1>1. Init => (Covering => SavedInv)
      BY SavedInit
<1>2. (Covering => SavedInv) /\ [Next]_vars => (Covering => SavedInv)'
  <2>1. [Next]_vars => world' = world
        BY DEF Next, vars
  <2> QED
      BY <2>1, SavedNext DEF Covering
<1>3. (Covering => SavedInv) => SavedWhileSwitched
      BY DEF SavedInv, Covering, SavedWhileSwitched
<1> QED
    BY <1>1, <1>2, <1>3, PTL DEF Spec
==============================================================================
