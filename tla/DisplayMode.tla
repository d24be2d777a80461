----------------------------- MODULE DisplayMode -----------------------------
(***************************************************************************)
(* Switching the physical display to a mode that suits the client, and     *)
(* giving the user's own mode back: DisplayModeSwitcher and                *)
(* restore_pending of display_mode.rs, the calls MacDisplay makes to them, *)
(* and the crash handler of main.rs.                                       *)
(*                                                                         *)
(* The mode is changed by helper processes the server spawns and waits     *)
(* for.  A helper is a process of its own: it survives the server's death. *)
(* The server's calls are serialised by the mutex around MacDisplay, so    *)
(* one program counter stands for whoever holds it.  The crash handler is  *)
(* a second caller that takes no lock.                                     *)
(***************************************************************************)
EXTENDS Naturals

CONSTANTS
    Modes,       \* the resolutions the display can be driven at
    Home,        \* the one the user had before the server first started
    NoMode,      \* "no resolution": a display that reports 0x0
    Absent,      \* content of the pending-restore file: no file
    Garbage,     \* ... a file restore_pending cannot parse
    Worlds,      \* the environments the server may run in, see AllWorlds
    MaxLayouts   \* bound on layout requests that wait for the mutex

AllFaults == {"restoreFails",     \* a restore helper of a running server fails
              "bootRestoreFails", \* ... the one spawned at startup fails
              "helperDies",       \* a switch helper dies after it switched
              "writeFails",       \* fs::write of the pending-restore file fails
              "noDisplay",        \* the display reports 0x0 to the switcher
              "lateLayout",       \* a layout waits past the end of its client
              "segv"}             \* SIGSEGV in some thread of the server

Pcs == {"down", "boot", "bootRestoring", "idle", "switching", "switched",
        "writing", "restoring", "exiting"}

ASSUME ModeAssumption ==
    /\ Home \in Modes
    /\ NoMode \notin Modes
    /\ Absent \notin Modes \cup {NoMode}
    /\ Garbage \notin Modes \cup {NoMode, Absent}

\* What may go wrong in an environment: the failures that happen in it, and
\* the program counters at which the server may be killed.
AllWorlds == [faults : SUBSET AllFaults, killAt : SUBSET (Pcs \ {"down"})]

ASSUME WorldAssumption ==
    /\ Worlds \subseteq AllWorlds
    /\ MaxLayouts \in Nat

VARIABLES
    world,     \* the environment of this behaviour, which does not change
    mode,      \* the mode the display is in
    file,      \* the pending-restore file
    pc,        \* where the holder of the display mutex is
    switcher,  \* MacDisplay.mode_switcher
    helper,    \* for each caller, the helper it waits for
    orphans,   \* helpers whose server was killed
    client,    \* "none", "on", or "leaving": client_disconnected is due
    layouts,   \* request_layout calls waiting for the mutex
    handler,   \* where the crash handler is, if it runs
    frozen     \* the crashed thread is the one pc stands for

serverVars == <<pc, switcher, client, layouts>>
crashVars == <<handler, frozen>>
vars == <<world, mode, file, pc, switcher, helper, orphans, client, layouts, handler, frozen>>

Callers == {"server", "handler"}
Running == [op : {"switch", "restore"}, to : Modes, st : {"running", "ok", "failed"}]
NoHelper == [op |-> "none", to |-> NoMode, st |-> "none"]
NoSwitcher == [original |-> Absent, switched |-> FALSE]

TypeOK ==
    /\ world \in Worlds
    /\ mode \in Modes
    /\ file \in Modes \cup {NoMode, Absent, Garbage}
    /\ pc \in Pcs
    /\ switcher \in [original : Modes \cup {NoMode, Absent}, switched : BOOLEAN]
    /\ helper \in [Callers -> Running \cup {NoHelper}]
    /\ orphans \in SUBSET Running
    /\ client \in {"none", "on", "leaving"}
    /\ layouts \in 0 .. MaxLayouts
    /\ handler \in {"none", "reading", "restoring", "raising"}
    /\ frozen \in BOOLEAN

Init ==
    /\ world \in Worlds
    /\ mode = Home
    /\ file = Absent
    /\ pc = "down"
    /\ switcher = NoSwitcher
    /\ helper = [c \in Callers |-> NoHelper]
    /\ orphans = {}
    /\ client = "none"
    /\ layouts = 0
    /\ handler = "none"
    /\ frozen = FALSE

-----------------------------------------------------------------------------
(* The helper processes: run_helper. *)

Spawn(c, op, m) == helper' = [helper EXCEPT ![c] = [op |-> op, to |-> m, st |-> "running"]]
Reap(c) == helper' = [helper EXCEPT ![c] = NoHelper]
Returned(c, st) == helper[c].st = st
Exits(c, st) ==
    /\ helper[c].st = "running"
    /\ helper' = [helper EXCEPT ![c].st = st]

\* --display-mode-switch picks the mode that fits the target best, any of
\* Modes as far as this module goes; the display may be in it already.
HelperSwitches(c) ==
    /\ helper[c].op = "switch"
    /\ Exits(c, "ok")
    /\ mode' \in Modes
    /\ UNCHANGED <<file, serverVars, orphans, crashVars>>

\* No modes, no mode that fits, or CoreGraphics refuses the configuration.
HelperSwitchFails(c) ==
    /\ helper[c].op = "switch"
    /\ Exits(c, "failed")
    /\ UNCHANGED <<mode, file, serverVars, orphans, crashVars>>

\* The helper completes the configuration and dies before it prints "OK".
HelperDies(c) ==
    /\ "helperDies" \in world.faults
    /\ helper[c].op = "switch"
    /\ Exits(c, "failed")
    /\ mode' \in Modes
    /\ UNCHANGED <<file, serverVars, orphans, crashVars>>

HelperRestores(c) ==
    /\ helper[c].op = "restore"
    /\ Exits(c, "ok")
    /\ mode' = helper[c].to
    /\ UNCHANGED <<file, serverVars, orphans, crashVars>>

HelperRestoreFails(c) ==
    /\ helper[c].op = "restore"
    /\ IF c = "server" /\ pc = "bootRestoring"
       THEN "bootRestoreFails" \in world.faults
       ELSE "restoreFails" \in world.faults
    /\ Exits(c, "failed")
    /\ UNCHANGED <<mode, file, serverVars, orphans, crashVars>>

\* A helper that outlived its server finishes; nobody reads its answer.
OrphanFinishes ==
    \E h \in orphans :
        /\ orphans' = orphans \ {h}
        /\ IF h.op = "restore" THEN mode' = h.to ELSE mode' \in Modes
        /\ UNCHANGED <<file, serverVars, helper, crashVars>>

Helper(c) ==
    \/ HelperSwitches(c)
    \/ HelperSwitchFails(c)
    \/ HelperDies(c)
    \/ HelperRestores(c)
    \/ HelperRestoreFails(c)

-----------------------------------------------------------------------------
(* Startup. *)

Boot ==
    /\ pc = "down"
    /\ pc' = "boot"
    /\ UNCHANGED <<mode, file, switcher, client, layouts, helper, orphans, crashVars>>

\* Mutant: restore_pending forgets to restore.
RestorePendingForgets ==
    /\ pc = "boot"
    /\ ~frozen
    /\ pc' = "idle"
    /\ file' = Absent
    /\ UNCHANGED <<mode, switcher, client, layouts, helper, orphans, crashVars>>

\* restore_pending up to the helper.  A file that cannot be parsed, or that
\* names a 0x0 mode, is deleted without a helper.
RestorePending ==
    /\ pc = "boot"
    /\ ~frozen
    /\ IF file \in Modes
       THEN /\ Spawn("server", "restore", file)
            /\ pc' = "bootRestoring"
            /\ UNCHANGED file
       ELSE /\ pc' = "idle"
            /\ file' = Absent
            /\ UNCHANGED helper
    /\ UNCHANGED <<mode, switcher, client, layouts, orphans, crashVars>>

\* The file goes whether or not the helper succeeded.
RestorePendingDone ==
    /\ pc = "bootRestoring"
    /\ ~frozen
    /\ Returned("server", "ok") \/ Returned("server", "failed")
    /\ Reap("server")
    /\ file' = Absent
    /\ pc' = "idle"
    /\ UNCHANGED <<mode, switcher, client, layouts, orphans, crashVars>>

-----------------------------------------------------------------------------
(* Requests of the client: request_layout in Fit mode. *)

ClientConnects ==
    /\ pc \notin {"down", "boot", "bootRestoring", "exiting"}
    /\ client = "none"
    /\ client' = "on"
    /\ UNCHANGED <<mode, file, pc, switcher, layouts, helper, orphans, crashVars>>

\* A monitor layout spawns a blocking task that waits for the mutex.
LayoutArrives ==
    /\ client = "on"
    /\ layouts < MaxLayouts
    /\ layouts' = layouts + 1
    /\ UNCHANGED <<mode, file, pc, switcher, client, helper, orphans, crashVars>>

\* Mutant: every request makes a switcher of its own.
RequestLayoutRenews(target) ==
    /\ pc = "idle"
    /\ ~frozen
    /\ layouts > 0
    /\ layouts' = layouts - 1
    /\ switcher' = [original |-> mode, switched |-> switcher.switched]
    /\ IF mode = target
       THEN UNCHANGED <<pc, helper>>
       ELSE Spawn("server", "switch", target) /\ pc' = "switching"
    /\ UNCHANGED <<mode, file, client, orphans, crashVars>>

\* Mutant: a request that is already being served is served again.
RequestLayoutTwice(target) ==
    /\ pc = "idle"
    /\ ~frozen
    /\ client = "on"
    /\ layouts' = layouts - 1
    /\ UNCHANGED <<mode, file, pc, switcher, client, helper, orphans, crashVars>>

\* The switcher is made by the first request and saves the mode of that
\* moment.  A target the display is already at starts no helper and leaves
\* "switched" as it is.
RequestLayout(target) ==
    /\ pc = "idle"
    /\ ~frozen
    /\ layouts > 0
    /\ layouts' = layouts - 1
    /\ IF switcher = NoSwitcher
       THEN \E m \in {mode} \cup (IF "noDisplay" \in world.faults THEN {NoMode} ELSE {}) :
                switcher' = [original |-> m, switched |-> FALSE]
       ELSE UNCHANGED switcher
    /\ IF mode = target
       THEN UNCHANGED <<pc, helper>>
       ELSE Spawn("server", "switch", target) /\ pc' = "switching"
    /\ UNCHANGED <<mode, file, client, orphans, crashVars>>

\* Mutant: the switch is not recorded in the pending-restore file.
SwitchReturnsUnrecorded ==
    /\ pc = "switching"
    /\ ~frozen
    /\ pc' = "idle"
    /\ \/ Returned("server", "ok") /\ switcher' = [switcher EXCEPT !.switched = TRUE]
       \/ Returned("server", "failed") /\ UNCHANGED switcher
    /\ Reap("server")
    /\ UNCHANGED <<mode, file, client, layouts, orphans, crashVars>>

SwitchReturns ==
    /\ pc = "switching"
    /\ ~frozen
    /\ \/ /\ Returned("server", "ok")
          /\ pc' = "switched"
          /\ switcher' = [switcher EXCEPT !.switched = TRUE]
       \/ Returned("server", "failed") /\ pc' = "idle" /\ UNCHANGED switcher
    /\ Reap("server")
    /\ UNCHANGED <<mode, file, client, layouts, orphans, crashVars>>

\* fs::write first creates or truncates the file ...
TruncateFile ==
    /\ pc = "switched"
    /\ ~frozen
    /\ \/ pc' = "writing" /\ file' = Garbage
       \/ "writeFails" \in world.faults /\ pc' = "idle" /\ UNCHANGED file
    /\ UNCHANGED <<mode, switcher, client, layouts, helper, orphans, crashVars>>

\* ... and then writes the mode to go back to, into a file that may have
\* been unlinked since.
WriteFile ==
    /\ pc = "writing"
    /\ ~frozen
    /\ file' = IF file = Absent THEN Absent ELSE switcher.original
    /\ pc' = "idle"
    /\ UNCHANGED <<mode, switcher, client, layouts, helper, orphans, crashVars>>

-----------------------------------------------------------------------------
(* Going back: client_disconnected, Drop, both through restore. *)

ClientLeaves ==
    /\ client = "on"
    /\ "lateLayout" \in world.faults \/ (layouts = 0 /\ pc = "idle")
    /\ client' = "leaving"
    /\ UNCHANGED <<mode, file, pc, switcher, layouts, helper, orphans, crashVars>>

\* restore: nothing to do unless switched; "switched" is cleared before the
\* helper runs; an original mode of 0x0 is an error without a helper.
Restore(waiting, done) ==
    IF ~switcher.switched \/ switcher.original = NoMode
    THEN pc' = done /\ UNCHANGED helper
    ELSE pc' = waiting /\ Spawn("server", "restore", switcher.original)

\* Mutant: the file is removed before the helper has run.
ClientDisconnectedForgets ==
    /\ pc = "idle"
    /\ ~frozen
    /\ client = "leaving"
    /\ client' = "none"
    /\ Restore("restoring", "idle")
    /\ switcher' = [switcher EXCEPT !.switched = FALSE]
    /\ file' = Absent
    /\ UNCHANGED <<mode, layouts, orphans, crashVars>>

\* Mutant: only dropping the switcher restores the mode.
ClientDisconnectedKeeps ==
    /\ pc = "idle"
    /\ ~frozen
    /\ client = "leaving"
    /\ client' = "none"
    /\ UNCHANGED <<mode, file, pc, switcher, layouts, helper, orphans, crashVars>>

ClientDisconnected ==
    /\ pc = "idle"
    /\ ~frozen
    /\ client = "leaving"
    /\ client' = "none"
    /\ Restore("restoring", "idle")
    /\ switcher' = [switcher EXCEPT !.switched = FALSE]
    /\ UNCHANGED <<mode, file, layouts, orphans, crashVars>>

\* The server loop ends, and dropping MacDisplay drops the switcher.
Quit ==
    /\ pc = "idle"
    /\ ~frozen
    /\ client = "none"
    /\ layouts = 0
    /\ Restore("exiting", "down")
    /\ switcher' = NoSwitcher
    /\ UNCHANGED <<mode, file, client, layouts, orphans, crashVars>>

\* Mutant: the file is removed whatever the helper returned.
RestoreReturnsForgets ==
    /\ \/ pc = "restoring" /\ pc' = "idle"
       \/ pc = "exiting" /\ pc' = "down"
    /\ ~frozen
    /\ Returned("server", "ok") \/ Returned("server", "failed")
    /\ file' = Absent
    /\ Reap("server")
    /\ UNCHANGED <<mode, switcher, client, layouts, orphans, crashVars>>

\* The file is removed only after the helper succeeded.
RestoreReturns ==
    /\ \/ pc = "restoring" /\ pc' = "idle"
       \/ pc = "exiting" /\ pc' = "down"
    /\ ~frozen
    /\ \/ Returned("server", "ok") /\ file' = Absent
       \/ Returned("server", "failed") /\ UNCHANGED file
    /\ Reap("server")
    /\ UNCHANGED <<mode, switcher, client, layouts, orphans, crashVars>>

-----------------------------------------------------------------------------
(* The end of the process: SIGKILL and power loss, SIGSEGV and its handler. *)

Kill ==
    /\ pc \in world.killAt
    /\ pc' = "down"
    /\ switcher' = NoSwitcher
    /\ client' = "none"
    /\ layouts' = 0
    /\ orphans' = orphans \cup {h \in {helper[c] : c \in Callers} : h.st = "running"}
    /\ helper' = [c \in Callers |-> NoHelper]
    /\ handler' = "none"
    /\ frozen' = FALSE
    /\ UNCHANGED <<mode, file>>

\* The thread that crashed runs crash_handler; the others go on.
Segv ==
    /\ "segv" \in world.faults
    /\ pc # "down"
    /\ handler = "none"
    /\ handler' = "reading"
    /\ frozen' \in BOOLEAN
    /\ UNCHANGED <<mode, file, serverVars, helper, orphans>>

\* Mutant: the handler re-raises at once.
HandlerOnlyRaises ==
    /\ handler = "reading"
    /\ handler' = "raising"
    /\ UNCHANGED <<mode, file, serverVars, helper, orphans, frozen>>

\* crash_handler calls restore_pending.
HandlerRestorePending ==
    /\ handler = "reading"
    /\ IF file \in Modes
       THEN Spawn("handler", "restore", file) /\ handler' = "restoring" /\ UNCHANGED file
       ELSE handler' = "raising" /\ file' = Absent /\ UNCHANGED helper
    /\ UNCHANGED <<mode, serverVars, orphans, frozen>>

HandlerRestoreReturns ==
    /\ handler = "restoring"
    /\ Returned("handler", "ok") \/ Returned("handler", "failed")
    /\ Reap("handler")
    /\ file' = Absent
    /\ handler' = "raising"
    /\ UNCHANGED <<mode, serverVars, orphans, frozen>>

\* raise(sig) with crash_handler still installed: it was registered without
\* SA_RESETHAND, so the signal is delivered to it again.
HandlerRaises ==
    /\ handler = "raising"
    /\ handler' = "reading"
    /\ UNCHANGED <<mode, file, serverVars, helper, orphans, frozen>>

-----------------------------------------------------------------------------
Server ==
    \/ RestorePending
    \/ RestorePendingDone
    \/ \E target \in Modes : RequestLayout(target)
    \/ SwitchReturns
    \/ TruncateFile
    \/ WriteFile
    \/ ClientDisconnected
    \/ RestoreReturns

CrashHandler == HandlerRestorePending \/ HandlerRestoreReturns \/ HandlerRaises

Step ==
    \/ Server
    \/ \E c \in Callers : Helper(c)
    \/ OrphanFinishes
    \/ Boot
    \/ ClientConnects
    \/ LayoutArrives
    \/ ClientLeaves
    \/ Quit
    \/ Kill
    \/ Segv
    \/ CrashHandler

Next == Step /\ world' = world

Spec == Init /\ [][Next]_vars

\* What is scheduled runs: the server's task, the helpers, the handler.
\* Clients, signals and a restart of the server are not promised.
Fairness ==
    /\ WF_vars(Server /\ world' = world)
    /\ \A c \in Callers : WF_vars(Helper(c) /\ world' = world)
    /\ WF_vars(OrphanFinishes /\ world' = world)
    /\ WF_vars(CrashHandler /\ world' = world)

FairSpec == Spec /\ Fairness

-----------------------------------------------------------------------------
(* What the component promises. *)

\* The environments in which the user's mode is never forgotten: the server
\* is not killed between a switch and the end of the write that records it,
\* and the only failures are those of restore helpers of a running server.
Benign ==
    /\ world.faults \subseteq {"restoreFails", "lateLayout"}
    /\ world.killAt \subseteq {"boot", "bootRestoring", "idle", "restoring", "exiting"}

\* The original mode is known to somebody who will go back to it: the
\* pending-restore file, or a running server in the middle of a switch.
HomeKnown ==
    \/ file = Home
    \/ pc \in {"switching", "switched", "writing"} /\ switcher.original = Home

\* A display that is not in the user's own mode can be brought back: the
\* file that restore_pending reads names that mode, or the server that is
\* about to write it is alive (display_mode.rs switch_to_best_mode, restore).
Recoverable == Benign /\ mode # Home => HomeKnown

\* Nobody takes another mode for the user's: neither the switcher, created
\* lazily from whatever mode the display is in at that moment, nor the file.
OriginalIsHome ==
    Benign => /\ switcher.original \in {Home, Absent}
              /\ file \in Modes => file = Home

\* "The original resolution is recovered" (main.rs:94-95): once startup is
\* over, and before the first request, the display is in the user's mode.
StartsAtHome == Benign /\ pc = "idle" /\ switcher = NoSwitcher => mode = Home

\* While a client is served in a mode that is not its user's, a crash is
\* covered: the file names the mode the switcher would go back to.  Kills at
\* any point and failing helpers do not change that; a file that cannot be
\* written, and a crash handler that deletes it while the server goes on, do.
SavedWhileSwitched ==
    /\ world.faults \cap {"writeFails", "segv"} = {}
    /\ pc = "idle" /\ switcher.switched
    => file = switcher.original

\* The pending-restore file is given up only when the display is back in the
\* user's mode, or to be written anew by a switch in progress.
FileOutlivesSwitch ==
    [][Benign /\ file = Home /\ file' # Home => mode = Home \/ pc' = "writing"]_vars

\* The environments in which the server ends what it has begun: nobody kills
\* it, helpers succeed, and no layout outlives its client.
Finishing == world.faults \subseteq {"segv", "writeFails"} /\ world.killAt = {}

\* "Restored to the original mode in client_disconnected() when a connection
\* ends" (display.rs:111-112): without a client, the display of a server
\* that has not crashed goes back.
ReturnsHome ==
    Finishing /\ client # "on" ~> mode = Home \/ client = "on" \/ handler # "none"

\* "Restore original display mode before dying" (main.rs:63): when the crashed
\* thread is the one that could touch the display, the handler restores it.
CrashRestores ==
    Finishing /\ handler = "reading" /\ frozen /\ file = Home ~> mode = Home
==============================================================================
