-------------------------- MODULE SimulatorAdapter --------------------------
(***************************************************************************)
(* The Apple Simulator adapter: launches of one Broker share a ledger of   *)
(* reserved ports, source ports and targets; each walks through simctl     *)
(* calls that may fail, installs the app if it is absent, launches it,     *)
(* proves which process it owns and takes it down again.  The Simulator    *)
(* and its user go on meanwhile: processes exit, the user starts the app,  *)
(* installs or removes it.  A probe and the signal or removal that follows *)
(* it are one step: the adapter's README leaves that window to a residual. *)
(***************************************************************************)
EXTENDS Integers, FiniteSets

CONSTANTS
    Launches,       \* pending launches of the Broker
    SimTargets,     \* pairs of UDID and app id
    SimPorts,       \* loopback ports the system hands out
    Pids,           \* process ids; they are used again
    MaxSimStarts,   \* processes started in all
    MaxMeddling,    \* what the user does in all
    NoLaunchOwner   \* no launch, process or port

\* Processes that were started, now or by then.
SimProcesses == [pid : Pids, start : Nat, path : Nat]

ASSUME SimAssumption == IsFiniteSet(Launches) /\ NoLaunchOwner \notin SimPorts \cup SimProcesses

VARIABLES
    ledger,     \* ReservationLedger
    launch,     \* each ApplePendingLaunch and what it became
    apps,       \* the app installed for each target
    procs,      \* the processes running for each target
    starts,     \* processes started so far: the start time of the next one
    meddled     \* what the user did so far

simVars == <<ledger, launch, apps, procs, starts, meddled>>

NoApp == [content |-> "absent", path |-> 0]

SimFresh ==
    [pc |-> "idle", target |-> NoLaunchOwner, port |-> NoLaunchOwner, keyed |-> FALSE, reserved |-> FALSE,
     failure |-> "none", installed |-> FALSE, path |-> 0, pid |-> NoLaunchOwner, owner |-> NoLaunchOwner,
     src |-> NoLaunchOwner, session |-> NoLaunchOwner, after |-> "none", result |-> "none", sentKill |-> FALSE,
     started |-> NoLaunchOwner, attempted |-> FALSE, took |-> FALSE, signalled |-> {}]

SimInit ==
    /\ ledger = [ports |-> {}, sources |-> [p \in SimPorts |-> 0], targets |-> {}]
    /\ launch = [l \in Launches |-> SimFresh]
    /\ apps \in [SimTargets -> {NoApp, [content |-> "same", path |-> 1], [content |-> "other", path |-> 1]}]
    /\ procs = [t \in SimTargets |-> {}]
    /\ starts = 0 /\ meddled = 0

SimAt(l, pc) == launch[l].pc = pc
SimApp(l) == apps[launch[l].target]
SimProcs(l) == procs[launch[l].target]
\* matching_processes: those that run from the path the app was verified at.
SimRunning(l) == {p \in SimProcs(l) : p.path = launch[l].path}
PidsOf(l) == {p.pid : p \in SimRunning(l)}
SimWorld == <<apps, procs, starts, meddled>>

SimGoto(l, pc) == launch' = [launch EXCEPT ![l].pc = pc]
SimStep(l, pc) == SimGoto(l, pc) /\ UNCHANGED <<ledger, SimWorld>>

\* How a tool call or an artifact check may fail.
SimKinds == {"Failed", "CleanupFailed"}

(***************************************************************************)
(* Reservations.                                                           *)
(***************************************************************************)
SimReleased(g, r) ==
    [g EXCEPT !.ports = @ \ {r.port}, !.targets = IF r.keyed THEN @ \ {r.target} ELSE @]

DropSource(g, port) ==
    IF port = NoLaunchOwner THEN g ELSE [g EXCEPT !.sources[port] = @ - 1]

\* A connection counts its source port, which no launch may have reserved.
TakeSource(g, port) == [g EXCEPT !.sources[port] = @ + 1]

PortFree(port) == port \notin ledger.ports /\ ledger.sources[port] = 0

\* begin_launch: a port, and the target unless a launch holds it already.
BeginLaunch(l, t, port, valid) ==
    LET keyed == valid /\ t \notin ledger.targets
    IN  /\ SimAt(l, "idle") /\ PortFree(port)
        /\ ledger' = [ledger EXCEPT !.ports = @ \cup {port},
                                    !.targets = IF keyed THEN @ \cup {t} ELSE @]
        /\ launch' = [launch EXCEPT ![l] =
              [SimFresh EXCEPT !.pc = "pending", !.target = t, !.port = port, !.keyed = keyed,
                            !.reserved = TRUE, !.failure = IF keyed THEN "none" ELSE "Failed"]]
        /\ UNCHANGED SimWorld

\* No port could be reserved: the launch carries that failure.
BeginUnreserved(l, t) ==
    /\ SimAt(l, "idle")
    /\ launch' = [launch EXCEPT ![l] =
          [SimFresh EXCEPT !.pc = "pending", !.target = t, !.failure = "Failed"]]
    /\ UNCHANGED <<ledger, SimWorld>>

\* The streams of a launch that succeeded belong to the Broker, which drops them when it will.
HandedOver(r) == r.took /\ r.after = "none"

\* The end of a launch: result, own socket dropped, reservation given back or kept.
EndLaunch(l, result, release) ==
    LET r == launch[l]
        g == IF HandedOver(r) THEN ledger ELSE DropSource(ledger, r.src)
    IN  /\ ledger' = IF release /\ r.reserved THEN SimReleased(g, r) ELSE g
        /\ launch' = [launch EXCEPT ![l].pc = "ended", ![l].result = result,
                                    ![l].src = IF HandedOver(r) THEN @ ELSE NoLaunchOwner,
                                    ![l].reserved = r.reserved /\ ~release]
        /\ UNCHANGED SimWorld

\* prelaunch_failure: a failed cleanup keeps the reservation as a tombstone.
PrelaunchFailure(l, kind) == EndLaunch(l, kind, kind # "CleanupFailed")

SimAbort(l) == SimAt(l, "pending") /\ EndLaunch(l, "aborted", TRUE)

(***************************************************************************)
(* launch, up to the tool that launches.                                   *)
(***************************************************************************)
LaunchBegins(l) ==
    /\ SimAt(l, "pending")
    /\ IF launch[l].failure # "none" THEN PrelaunchFailure(l, launch[l].failure)
       ELSE SimStep(l, "prepare")

\* Descriptor size, snapshot, simctl's features and the booted device.
SimPrepare(l) ==
    /\ SimAt(l, "prepare")
    /\ \/ SimStep(l, "present")
       \/ \E kind \in SimKinds : PrelaunchFailure(l, kind)

AppPresent(l) ==
    /\ SimAt(l, "present")
    /\ \/ SimStep(l, IF SimApp(l).content = "absent" THEN "install" ELSE "verify")
       \/ \E kind \in SimKinds : PrelaunchFailure(l, kind)

\* simctl install, after the snapshot was compared; it may fail half-way.
SimInstall(l) ==
    /\ SimAt(l, "install")
    /\ \/ \E kind \in SimKinds : PrelaunchFailure(l, kind)
       \/ /\ apps' = [apps EXCEPT ![launch[l].target] = [content |-> "same", path |-> SimApp(l).path + 1]]
          /\ launch' = [launch EXCEPT ![l].pc = "confirm"]
          /\ UNCHANGED <<ledger, procs, starts, meddled>>
       \/ PrelaunchFailure(l, "CleanupFailed")

\* The app must now be listed.
SimConfirm(l) ==
    /\ SimAt(l, "confirm")
    /\ \/ IF SimApp(l).content = "absent" THEN PrelaunchFailure(l, "CleanupFailed")
          ELSE /\ launch' = [launch EXCEPT ![l].pc = "verify", ![l].installed = TRUE]
               /\ UNCHANGED <<ledger, SimWorld>>
       \/ \E kind \in SimKinds : PrelaunchFailure(l, kind)

\* The kind a refused candidate is reported with.
SimRefused(l) == IF launch[l].installed THEN "CleanupFailed" ELSE "Failed"

\* Where the app is and whether it is the selected one.
VerifyCandidate(l) ==
    /\ SimAt(l, "verify")
    /\ \/ IF SimApp(l).content = "same"
          THEN /\ launch' = [launch EXCEPT ![l].pc = "inventory", ![l].path = SimApp(l).path]
               /\ UNCHANGED <<ledger, SimWorld>>
          ELSE PrelaunchFailure(l, IF SimApp(l).content = "absent" THEN "Failed" ELSE SimRefused(l))
       \/ \E kind \in SimKinds \cup {SimRefused(l)} : PrelaunchFailure(l, kind)

\* No process of the app may run; the snapshot is compared once more.
SimInventory(l) ==
    /\ SimAt(l, "inventory")
    /\ \/ IF SimRunning(l) = {} THEN SimStep(l, "tool") ELSE PrelaunchFailure(l, SimRefused(l))
       \/ \E kind \in SimKinds : PrelaunchFailure(l, kind)

(***************************************************************************)
(* The launch itself.  simctl answers with the process that runs already,  *)
(* if there is one.                                                        *)
(***************************************************************************)
NewProcess(t, pid) == [pid |-> pid, start |-> starts, path |-> apps[t].path]

PidFree(pid) == \A t \in SimTargets : \A p \in procs[t] : p.pid # pid

SimFails(l, pc, kind) ==
    launch' = [launch EXCEPT ![l].pc = pc, ![l].after = kind, ![l].attempted = TRUE]

SimStart(l, pid) ==
    /\ starts < MaxSimStarts /\ PidFree(pid) /\ SimApp(l).content # "absent"
    /\ procs' = [procs EXCEPT ![launch[l].target] = {NewProcess(launch[l].target, pid)}]
    /\ starts' = starts + 1

ToolLaunch(l) ==
    /\ SimAt(l, "tool")
    /\ UNCHANGED <<ledger, apps, meddled>>
    /\ \/ SimProcs(l) # {} /\ \E p \in SimProcs(l) :
              /\ launch' = [launch EXCEPT ![l].pc = "owner", ![l].pid = p.pid, ![l].attempted = TRUE]
              /\ UNCHANGED <<procs, starts>>
       \/ SimProcs(l) = {} /\ \E pid \in Pids :
              /\ SimStart(l, pid)
              /\ \/ launch' = [launch EXCEPT ![l].pc = "owner", ![l].pid = pid,
                        ![l].started = NewProcess(launch[l].target, pid), ![l].attempted = TRUE]
                 \/ launch' = [launch EXCEPT ![l].pc = "uncertain", ![l].after = "Failed",
                        ![l].started = NewProcess(launch[l].target, pid), ![l].attempted = TRUE]
       \/ \E kind \in SimKinds : SimFails(l, "uncertain", kind) /\ UNCHANGED <<procs, starts>>

\* prove_exact_owner: the process listed is the one simctl named.
ProveOwner(l) ==
    /\ SimAt(l, "owner") /\ UNCHANGED <<ledger, SimWorld>>
    /\ \/ /\ PidsOf(l) = {launch[l].pid}
          /\ \E p \in SimRunning(l) : launch' = [launch EXCEPT ![l].pc = "check", ![l].owner = p]
       \/ SimFails(l, "uncertain", "Failed")

\* The installed app is compared again.
SameApp(l) == SimApp(l).content = "same" /\ SimApp(l).path = launch[l].path

CheckLaunched(l) ==
    /\ SimAt(l, "check") /\ UNCHANGED <<ledger, SimWorld>>
    /\ \/ SameApp(l) /\ SimGoto(l, "connect")
       \/ SimFails(l, "terminate", "Failed")

\* The endpoint answers only if the process that was given the descriptor runs.
EndpointAnswers(l) == launch[l].started \in SimProcs(l)

ConnectOwner(l) ==
    /\ SimAt(l, "connect") /\ UNCHANGED SimWorld
    /\ \/ \E port \in SimPorts \ ledger.ports :
              /\ EndpointAnswers(l)
              /\ ledger' = TakeSource(ledger, port)
              /\ launch' = [launch EXCEPT ![l].pc = "recheck", ![l].src = port, ![l].took = TRUE]
       \/ SimFails(l, "uncertain", "Failed") /\ UNCHANGED ledger

\* The sockets are set up and the app is compared for the last time.
SimRecheck(l) ==
    /\ SimAt(l, "recheck") /\ UNCHANGED <<ledger, SimWorld>>
    /\ \/ SameApp(l) /\ SimGoto(l, "up")
       \/ SimFails(l, "terminate", "Failed")

(***************************************************************************)
(* Ways down.  Whatever fails here ends the launch with the reservation    *)
(* kept.                                                                   *)
(***************************************************************************)
CleanupFails(l) == EndLaunch(l, "CleanupFailed", FALSE)

\* The receipt cancels the streams that are registered and takes the app down.
CleanupBegins(l) == SimAt(l, "up") /\ SimStep(l, "terminate")

\* An uncertain launch is never killed: it is over if no process is listed.
SimUncertain(l) ==
    /\ SimAt(l, "uncertain")
    /\ \/ IF SimRunning(l) = {} THEN SimStep(l, "uninstall") ELSE CleanupFails(l)
       \/ CleanupFails(l)

\* Mutant: the process is known by its pid alone.
StillOwnerByPid(l) == PidsOf(l) = {launch[l].owner.pid}

StillOwner(l) == SimRunning(l) = {launch[l].owner}

\* TERM once, KILL once the grace is over; the owner is proved before each.
SimTerminate(l) ==
    /\ SimAt(l, "terminate")
    /\ \/ IF SimRunning(l) = {} THEN SimStep(l, "uninstall")
          ELSE IF ~StillOwner(l) THEN CleanupFails(l)
          ELSE /\ launch' = [launch EXCEPT ![l].pc = "grace", ![l].signalled = @ \cup SimRunning(l)]
               /\ UNCHANGED <<ledger, SimWorld>>
       \/ CleanupFails(l)

SimGrace(l) ==
    /\ SimAt(l, "grace")
    /\ \/ IF SimRunning(l) = {} THEN SimStep(l, "uninstall")
          ELSE IF ~StillOwner(l) THEN CleanupFails(l)
          ELSE /\ ~launch[l].sentKill
               /\ procs' = [procs EXCEPT ![launch[l].target] = @ \ SimRunning(l)]
               /\ launch' = [launch EXCEPT ![l].sentKill = TRUE, ![l].signalled = @ \cup SimRunning(l)]
               /\ UNCHANGED <<ledger, apps, starts, meddled>>
       \/ CleanupFails(l)

\* The launch ends as it was going to, and gives its reservation back.
ReleaseAfter(l) ==
    EndLaunch(l, IF launch[l].after = "none" THEN "ok" ELSE launch[l].after, TRUE)

SimUninstall(l) ==
    /\ SimAt(l, "uninstall")
    /\ \/ /\ ~launch[l].installed \/ SimApp(l).content = "absent"
          /\ ReleaseAfter(l)
       \/ /\ launch[l].installed /\ SimApp(l).content # "absent"
          /\ IF ~SameApp(l) \/ SimRunning(l) # {} THEN CleanupFails(l)
             ELSE /\ apps' = [apps EXCEPT ![launch[l].target] = [NoApp EXCEPT !.path = SimApp(l).path]]
                  /\ launch' = [launch EXCEPT ![l].pc = "gone"]
                  /\ UNCHANGED <<ledger, procs, starts, meddled>>
       \/ launch[l].installed /\ CleanupFails(l)

SimGone(l) ==
    /\ SimAt(l, "gone")
    /\ \/ IF SimApp(l).content = "absent" THEN ReleaseAfter(l) ELSE CleanupFails(l)
       \/ CleanupFails(l)

(***************************************************************************)
(* Streams of a launched app.  The connector may be used while the cleanup *)
(* is on its way.                                                          *)
(***************************************************************************)
ConnectSession(l) ==
    /\ HandedOver(launch[l]) /\ ~SimAt(l, "recheck") /\ launch[l].session = NoLaunchOwner
    /\ EndpointAnswers(l)
    /\ \E port \in SimPorts \ ledger.ports :
          /\ ledger' = TakeSource(ledger, port)
          /\ launch' = [launch EXCEPT ![l].session = port]
    /\ UNCHANGED SimWorld

DropBootstrap(l) ==
    /\ HandedOver(launch[l]) /\ ~SimAt(l, "recheck") /\ launch[l].src # NoLaunchOwner
    /\ ledger' = DropSource(ledger, launch[l].src)
    /\ launch' = [launch EXCEPT ![l].src = NoLaunchOwner]
    /\ UNCHANGED SimWorld

DropSession(l) ==
    /\ launch[l].session # NoLaunchOwner
    /\ ledger' = DropSource(ledger, launch[l].session)
    /\ launch' = [launch EXCEPT ![l].session = NoLaunchOwner]
    /\ UNCHANGED SimWorld

(***************************************************************************)
(* The Simulator and its user.                                             *)
(***************************************************************************)
ProcessExits(t) ==
    /\ procs[t] # {} /\ procs' = [procs EXCEPT ![t] = {}]
    /\ UNCHANGED <<ledger, launch, apps, starts, meddled>>

UserStarts(t, pid) ==
    /\ meddled < MaxMeddling /\ meddled' = meddled + 1
    /\ apps[t].content # "absent" /\ procs[t] = {}
    /\ starts < MaxSimStarts /\ PidFree(pid) /\ starts' = starts + 1
    /\ procs' = [procs EXCEPT ![t] = {NewProcess(t, pid)}]
    /\ UNCHANGED <<ledger, launch, apps>>

UserInstalls(t, content) ==
    /\ meddled < MaxMeddling /\ meddled' = meddled + 1
    /\ apps' = [apps EXCEPT ![t] = [content |-> content, path |-> @.path + 1]]
    /\ procs' = [procs EXCEPT ![t] = {}]
    /\ UNCHANGED <<ledger, launch, starts>>

SimNext ==
    \/ \E l \in Launches :
        \/ \E t \in SimTargets :
              \/ \E port \in SimPorts, valid \in BOOLEAN : BeginLaunch(l, t, port, valid)
              \/ BeginUnreserved(l, t)
        \/ SimAbort(l) \/ LaunchBegins(l) \/ SimPrepare(l) \/ AppPresent(l) \/ SimInstall(l) \/ SimConfirm(l)
        \/ VerifyCandidate(l) \/ SimInventory(l) \/ ToolLaunch(l) \/ ProveOwner(l)
        \/ CheckLaunched(l) \/ ConnectOwner(l) \/ SimRecheck(l) \/ CleanupBegins(l)
        \/ SimUncertain(l) \/ SimTerminate(l) \/ SimGrace(l) \/ SimUninstall(l) \/ SimGone(l)
        \/ ConnectSession(l) \/ DropBootstrap(l) \/ DropSession(l)
    \/ \E t \in SimTargets :
        \/ ProcessExits(t) \/ \E pid \in Pids : UserStarts(t, pid)
        \/ \E content \in {"same", "other", "absent"} : UserInstalls(t, content)

SimSpec == SimInit /\ [][SimNext]_simVars
-----------------------------------------------------------------------------
\* Launches that touch the target: from the first simctl call that reads it to their end.
SimWorking(l) == launch[l].pc \notin {"idle", "pending", "ended"}

(***************************************************************************)
(* The target reservation serialises launches: whoever works on a target   *)
(* holds it, also after a cleanup that failed; ports that are reserved are *)
(* never in use as source ports, and the counts of source ports are those  *)
(* of the sockets that exist.                                              *)
(***************************************************************************)
SimLedgerExact ==
    /\ \A l, k \in Launches : l # k /\ SimWorking(l) /\ SimWorking(k) =>
          launch[l].target # launch[k].target
    /\ \A l \in Launches :
          /\ SimWorking(l) => launch[l].target \in ledger.targets /\ launch[l].port \in ledger.ports
          /\ launch[l].result = "CleanupFailed" /\ launch[l].after # "CleanupFailed" => launch[l].reserved
          /\ launch[l].reserved => launch[l].port \in ledger.ports
    /\ \A port \in SimPorts :
          /\ ledger.sources[port] > 0 => port \notin ledger.ports
          /\ ledger.sources[port] = Cardinality({l \in Launches : launch[l].src = port})
                                  + Cardinality({l \in Launches : launch[l].session = port})

(***************************************************************************)
(* A launch that got as far as simctl launch and gave its reservation back *)
(* has undone it: no process of its own runs from the path where it        *)
(* verified the app, and the app is gone from there if it was the one to   *)
(* install it.  A launch that took the endpoint over signals its own       *)
(* process only, also when the pid is used again; before that it may hit   *)
(* another's (SimNeverKillsOthers).                                        *)
(***************************************************************************)
SimRollsBack ==
    \A l \in Launches :
        /\ launch[l].pc = "ended" /\ launch[l].attempted /\ ~launch[l].reserved =>
              /\ launch[l].started \notin SimRunning(l)
              /\ launch[l].installed => SimApp(l).content = "absent" \/ SimApp(l).path # launch[l].path
        /\ launch[l].took => launch[l].signalled \subseteq {launch[l].started}

(***************************************************************************)
(* "Without endpoint takeover, `simctl launch` may have attached to an     *)
(* existing process and its returned PID is not an owned Target.  Never    *)
(* kill it" (apple-simulator-adapter/src/lib.rs:537).  The code does not   *)
(* keep this: the installed app is compared before the endpoint is tried,  *)
(* and a failure there takes the process down.                             *)
(***************************************************************************)
SimNeverKillsOthers ==
    \A l \in Launches : launch[l].signalled \subseteq {launch[l].started}
=============================================================================
