--------------------------- MODULE EmulatorAdapter ---------------------------
(***************************************************************************)
(* The Android Emulator adapter: a launch takes a private snapshot of the  *)
(* APK, installs and starts it, forwards a host port to the random local   *)
(* abstract name of the launch and connects.  What fails after the start   *)
(* was confirmed is rolled back: the forward first, then the process,      *)
(* whatever became of the forward.  Other launches of the package, and     *)
(* other users of adb, change the forwards and the app meanwhile.  An adb  *)
(* call that fails may have had its effect; it has none later.             *)
(***************************************************************************)
EXTENDS Integers, FiniteSets

CONSTANTS
    AdbLaunches,    \* launches; each stands for its own local abstract name too
    AdbPorts,       \* host ports adb hands out
    MaxEdits,       \* what other users of adb do in all
    NoLaunch        \* no launch: also the remote of a mapping that is not ours

ASSUME EmuAssumption == NoLaunch \notin AdbLaunches

VARIABLES
    forwards,   \* adb's mappings: port, remote and the time they were made
    made,       \* mappings made so far
    app,        \* the launch whose process runs, if any
    adb,        \* each AndroidPendingLaunch and what it became
    edits       \* what other users did so far

emuVars == <<forwards, made, app, adb, edits>>

AdbFresh ==
    [pc |-> "pending", snapshot |-> FALSE, confirmed |-> FALSE, port |-> 0, original |-> "none",
     bad |-> FALSE, listed |-> 0, result |-> "none", strayed |-> FALSE]

EmuInit ==
    /\ forwards = {} /\ made = 0 /\ app = NoLaunch /\ edits = 0
    /\ adb = [l \in AdbLaunches |-> AdbFresh]

AdbAt(l, pc) == adb[l].pc = pc
AdbGoto(l, pc) == adb' = [adb EXCEPT ![l].pc = pc]
AdbEnd(l, result) == adb' = [adb EXCEPT ![l].pc = "ended", ![l].result = result]

\* The mappings adb lists for a host port or for the name of a launch.
AtPort(port) == {f \in forwards : f.port = port}
ToName(l) == {f \in forwards : f.remote = l}

FreePorts == {p \in AdbPorts : AtPort(p) = {}}
Forward(port, remote) == forwards \cup {[port |-> port, remote |-> remote, time |-> made]}

(***************************************************************************)
(* launch.                                                                 *)
(***************************************************************************)
AdbAbort(l) ==
    /\ AdbAt(l, "pending") /\ AdbEnd(l, "aborted")
    /\ UNCHANGED <<forwards, made, app, edits>>

\* validate_selection, the descriptor's size, and the snapshot: a copy that fails is removed.
TakeSnapshot(l) ==
    /\ AdbAt(l, "pending")
    /\ \/ AdbEnd(l, "Failed")
       \/ adb' = [adb EXCEPT ![l].pc = "ended", ![l].result = "CleanupFailed", ![l].snapshot = TRUE]
       \/ adb' = [adb EXCEPT ![l].pc = "install", ![l].snapshot = TRUE]
    /\ UNCHANGED <<forwards, made, app, edits>>

\* adb install replaces the app; the snapshot goes whatever the outcome.
InstallSnapshot(l) ==
    /\ AdbAt(l, "install")
    /\ app' \in {app, NoLaunch}
    /\ \/ AdbEnd(l, "CleanupFailed")
       \/ adb' = [adb EXCEPT ![l].pc = "ended", ![l].result = "Failed", ![l].snapshot = FALSE]
       \/ adb' = [adb EXCEPT ![l].pc = "start", ![l].snapshot = FALSE]
    /\ UNCHANGED <<forwards, made, edits>>

\* am start -S stops the package and starts it: an answer that is not understood ends the launch.
StartActivity(l) ==
    /\ AdbAt(l, "start")
    /\ \/ app' = l /\ adb' = [adb EXCEPT ![l].pc = "absent", ![l].confirmed = TRUE]
       \/ app' \in {app, NoLaunch, l} /\ AdbEnd(l, "Failed")
    /\ UNCHANGED <<forwards, made, edits>>

\* The way into rollback_after_started, which may not even get a deadline.
RollBack(l, pc) ==
    \/ adb' = [adb EXCEPT ![l].pc = pc, ![l].original = "Failed"]
    \/ AdbEnd(l, "CleanupFailed")

RequireRemoteAbsent(l) ==
    /\ AdbAt(l, "absent")
    /\ \/ ToName(l) = {} /\ AdbGoto(l, "forward")
       \/ RollBack(l, "stop")
    /\ UNCHANGED <<forwards, made, app, edits>>

CreateForward(l) ==
    /\ AdbAt(l, "forward")
    /\ \/ \E port \in FreePorts :
              /\ forwards' = Forward(port, l) /\ made' = made + 1
              /\ \/ adb' = [adb EXCEPT ![l].pc = "exact", ![l].port = port]
                 \/ RollBack(l, "byRemote")
       \/ RollBack(l, "byRemote") /\ UNCHANGED <<forwards, made>>
    /\ UNCHANGED <<app, edits>>

IsExact(l) == \E f \in forwards : AtPort(adb[l].port) = {f} /\ f.remote = l

RequireExactForward(l) ==
    /\ AdbAt(l, "exact")
    /\ \/ IsExact(l) /\ AdbGoto(l, "connect")
       \/ RollBack(l, "byPort")
    /\ UNCHANGED <<forwards, made, app, edits>>

ConnectBootstrap(l) ==
    /\ AdbAt(l, "connect")
    /\ \/ AtPort(adb[l].port) # {} /\ AdbGoto(l, "up")
       \/ RollBack(l, "byPort")
    /\ UNCHANGED <<forwards, made, app, edits>>

(***************************************************************************)
(* The ways down.                                                          *)
(***************************************************************************)
\* What follows the forward: the receipt is done, a rollback stops the process.
AfterForward(l, bad) ==
    IF adb[l].original = "none" THEN AdbEnd(l, IF bad THEN "CleanupFailed" ELSE "ok")
    ELSE adb' = [adb EXCEPT ![l].pc = "stop", ![l].bad = bad]

\* AndroidCleanup
ReceiptCleanup(l) ==
    /\ AdbAt(l, "up") /\ AdbGoto(l, "byPort")
    /\ UNCHANGED <<forwards, made, app, edits>>

RemoveByRemote(l) ==
    /\ AdbAt(l, "byRemote")
    /\ \/ ToName(l) = {} /\ AfterForward(l, FALSE)
       \/ \E f \in ToName(l) :
             /\ ToName(l) = {f}
             /\ adb' = [adb EXCEPT ![l].pc = "byPort", ![l].port = f.port]
       \/ AfterForward(l, TRUE)
    /\ UNCHANGED <<forwards, made, app, edits>>

OwnMapping(l) == IsExact(l)

\* remove_exact: the listing.
RemoveExactLists(l) ==
    /\ AdbAt(l, "byPort")
    /\ \/ AtPort(adb[l].port) = {} /\ AfterForward(l, FALSE)
       \/ OwnMapping(l) /\ adb' = [adb EXCEPT ![l].pc = "remove", ![l].listed = made]
       \/ AfterForward(l, TRUE)
    /\ UNCHANGED <<forwards, made, app, edits>>

\* remove_exact: adb removes what is mapped at the port by then.
RemoveExactRemoves(l) ==
    /\ AdbAt(l, "remove")
    /\ \/ /\ forwards' = forwards \ AtPort(adb[l].port)
          /\ adb' = [adb EXCEPT ![l].pc = "removed",
                ![l].strayed = \E f \in AtPort(adb[l].port) : f.remote # l /\ f.time < adb[l].listed]
       \/ forwards' \in {forwards, forwards \ AtPort(adb[l].port)} /\ AfterForward(l, TRUE)
    /\ UNCHANGED <<made, app, edits>>

RemoveExactConfirms(l) ==
    /\ AdbAt(l, "removed")
    /\ \/ AtPort(adb[l].port) = {} /\ AfterForward(l, FALSE)
       \/ AfterForward(l, TRUE)
    /\ UNCHANGED <<forwards, made, app, edits>>

ForceStop(l) ==
    /\ AdbAt(l, "stop")
    /\ \/ app' = NoLaunch /\ AdbEnd(l, IF adb[l].bad THEN "CleanupFailed" ELSE "Failed")
       \/ app' \in {app, NoLaunch} /\ AdbEnd(l, "CleanupFailed")
    /\ UNCHANGED <<forwards, made, edits>>

(***************************************************************************)
(* Other users of adb.                                                     *)
(***************************************************************************)
Unforward(f) ==
    /\ edits < MaxEdits /\ edits' = edits + 1
    /\ forwards' = forwards \ {f}
    /\ UNCHANGED <<made, app, adb>>

Reforward(port) ==
    /\ edits < MaxEdits /\ edits' = edits + 1
    /\ forwards' = Forward(port, NoLaunch) /\ made' = made + 1
    /\ UNCHANGED <<app, adb>>

AppExits ==
    /\ app # NoLaunch /\ app' = NoLaunch
    /\ UNCHANGED <<forwards, made, adb, edits>>

EmuNext ==
    \/ \E l \in AdbLaunches :
        \/ AdbAbort(l) \/ TakeSnapshot(l) \/ InstallSnapshot(l) \/ StartActivity(l)
        \/ RequireRemoteAbsent(l) \/ CreateForward(l) \/ RequireExactForward(l)
        \/ ConnectBootstrap(l) \/ ReceiptCleanup(l) \/ RemoveByRemote(l)
        \/ RemoveExactLists(l) \/ RemoveExactRemoves(l) \/ RemoveExactConfirms(l) \/ ForceStop(l)
    \/ \E f \in forwards : Unforward(f)
    \/ \E port \in FreePorts : Reforward(port)
    \/ AppExits

EmuSpec == EmuInit /\ [][EmuNext]_emuVars
-----------------------------------------------------------------------------
(***************************************************************************)
(* A launch that reports a plain failure after its start was confirmed has *)
(* stopped its process and removed its forward; one whose cleanup succeeds *)
(* has removed its forward; only a failed cleanup leaves the snapshot.  No *)
(* mapping of others is removed unless it replaced the launch's own after  *)
(* that was listed.                                                        *)
(***************************************************************************)
EmuRollsBack ==
    \A l \in AdbLaunches :
        /\ adb[l].result = "Failed" /\ adb[l].confirmed => app # l
        /\ adb[l].result \in {"Failed", "ok"} => ToName(l) = {}
        /\ adb[l].pc = "ended" /\ adb[l].snapshot => adb[l].result = "CleanupFailed"
        /\ ~adb[l].strayed
=============================================================================
