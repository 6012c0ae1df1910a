-------------------------- MODULE TransportHandle ---------------------------
(***************************************************************************)
(* The C and JNI boundary of the Target transport: supervisors and their   *)
(* outputs live in registries under generation-stamped handles, and any    *)
(* thread may call at any time.  One call drives a supervisor at a time; a *)
(* second one is answered Busy, after its event was latched if it ends the *)
(* lease or a session.  The driving call looks at the latches twice, the   *)
(* second time under the gate that also covers publishing the outcome.     *)
(***************************************************************************)
EXTENDS Integers, Sequences

CONSTANTS
    Threads,
    Tags,               \* events tried: subset of EventTags
    TimerTokens,        \* timer tokens
    MaxCreates,         \* supervisors created
    MaxCalls,           \* calls of all threads
    LastGeneration,     \* 2^32 - 1
    NoEntry             \* no supervisor

ASSUME GenerationsSuffice ==
    /\ {MaxCreates, LastGeneration} \subseteq Nat /\ LastGeneration > MaxCreates
    /\ NoEntry \notin Nat /\ NoEntry \notin Threads

VARIABLES
    slots,      \* registry of supervisors
    outputs,    \* registry of outputs
    entries,    \* the supervisors, by the order of their creation
    threads,    \* the call each thread is in
    calls,      \* calls begun
    owed        \* supervisors with a latched terminal event nobody published yet

handleVars == <<slots, outputs, entries, threads, calls, owed>>

Ids == 1 .. MaxCreates

\* Terminal events and the code they are latched under.
EventTags == {"bytes", "connect", "bad", "eligibility", "cleanup", "lease", "internal", "timer"}
Code == [eligibility |-> 1, cleanup |-> 2, lease |-> 3, internal |-> 4]
TagOf == <<"eligibility", "cleanup", "lease", "internal">>
Reason == [eligibility |-> "EligibilityLost", cleanup |-> "CleanupFailed",
           lease |-> "PeerClosed", internal |-> "InternalError"]

(***************************************************************************)
(* Registries.                                                             *)
(***************************************************************************)
FreeSlot(r) ==
    LET free == {i \in DOMAIN r : r[i].value = NoEntry}
    IN  IF free = {} THEN Len(r) + 1 ELSE CHOOSE i \in free : \A j \in free : i <= j

Insert(r, value) ==
    LET i == FreeSlot(r)
    IN  IF i > Len(r) THEN Append(r, [generation |-> 1, value |-> value])
        ELSE [r EXCEPT ![i].value = value]

\* The handle the value inserted into r gets.
HandleOf(r) ==
    LET i == FreeSlot(r) IN <<i, IF i > Len(r) THEN 1 ELSE r[i].generation>>

Get(r, h) ==
    IF h[1] \in DOMAIN r /\ r[h[1]].generation = h[2] THEN r[h[1]].value ELSE NoEntry

NextGeneration(g) == IF g = LastGeneration THEN 1 ELSE g + 1

\* Mutant: a slot is reused under the generation it had.
VacateKept(slot) == [slot EXCEPT !.value = NoEntry]

Vacate(slot) == [generation |-> NextGeneration(slot.generation), value |-> NoEntry]

Remove(r, h) == IF Get(r, h) = NoEntry THEN r ELSE [r EXCEPT ![h[1]] = Vacate(@)]

\* An output names its owner's handle; serial tells outputs apart.
RemoveOwnedOutputs(r, owner) ==
    [i \in DOMAIN r |->
        IF r[i].value # NoEntry /\ r[i].value[1] = owner THEN Vacate(r[i]) ELSE r[i]]

(***************************************************************************)
(* The supervisor behind a handle, as far as the boundary tells outcomes   *)
(* apart: whether the lease has ended and why, and which timers would end  *)
(* something.  TargetSupervisor has the rest.                              *)
(***************************************************************************)
Supervisor == [term |-> "live", timers |-> TimerTokens]

Ended(reason) == [term |-> reason, timers |-> {}]

OutcomeV1(kind, reason) == [kind |-> kind, reason |-> reason]
LeaseTerminalV1(reason) == OutcomeV1("LeaseTerminal", reason)

Ordinary == {OutcomeV1(k, "none") : k \in {"WriteFrames", "NeedInput", "SessionTerminal", "Error"}}

DriveSupervisor(s, tag, token) ==
    IF s.term # "live" THEN {[s |-> s, out |-> LeaseTerminalV1(s.term)]}
    ELSE CASE tag = "bad" -> {[s |-> s, out |-> OutcomeV1("Error", "none")]}
           [] tag \in DOMAIN Reason ->
                {[s |-> Ended(Reason[tag]), out |-> LeaseTerminalV1(Reason[tag])]}
           [] tag = "timer" ->
                IF token \notin s.timers THEN {[s |-> s, out |-> OutcomeV1("NeedInput", "none")]}
                ELSE {[s |-> Ended("Timeout"), out |-> LeaseTerminalV1("Timeout")],
                      [s |-> [s EXCEPT !.timers = @ \ {token}],
                       out |-> OutcomeV1("SessionTerminal", "none")]}
           [] OTHER ->
                {[s |-> s, out |-> o] : o \in Ordinary}
                    \cup {[s |-> Ended("Malformed"), out |-> LeaseTerminalV1("Malformed")]}

(***************************************************************************)
(* Arbitration between the call's own outcome and what was latched while   *)
(* it ran.                                                                 *)
(***************************************************************************)
\* The outcome already is the one the latched event asks for.
AlreadyApplied(pending, tag, out) ==
    /\ pending \in {1, 2, 4} /\ tag = TagOf[pending]
    /\ out = LeaseTerminalV1(Reason[tag])

Arbitrate(e, tag, liveOnEntry, out) ==
    LET settled == [e EXCEPT !.pending = 0]
        s == IF e.pending = 4 /\ liveOnEntry THEN Ended("InternalError") ELSE e.s
    IN  IF e.pending # 0 /\ ~AlreadyApplied(e.pending, tag, out)
        THEN {[e |-> [settled EXCEPT !.s = r.s, !.terminalTimers = r.s.timers], out |-> r.out] :
                  r \in DriveSupervisor(s, TagOf[e.pending], 0)}
        ELSE IF e.timer = 0 \/ tag = "timer"
             THEN {[e |-> [settled EXCEPT !.timer = 0], out |-> out]}
             ELSE {[e |-> [settled EXCEPT !.timer = 0, !.s = r.s, !.terminalTimers = r.s.timers],
                    out |-> IF r.out.kind \in {"SessionTerminal", "LeaseTerminal", "Error"}
                            THEN r.out ELSE out] :
                       r \in DriveSupervisor(e.s, "timer", e.timer)}

(***************************************************************************)
(* Calls.  A thread's call is where it is, the entry it cloned out of the  *)
(* registry and what it has so far.                                        *)
(***************************************************************************)
Idle == [pc |-> "idle", id |-> NoEntry, handle |-> <<0, 0>>, tag |-> "bytes", token |-> 0,
         live |-> FALSE, out |-> OutcomeV1("none", "none")]

HandleInit ==
    /\ slots = <<>> /\ outputs = <<>> /\ entries = <<>>
    /\ threads = [t \in Threads |-> Idle]
    /\ owed = {} /\ calls = 0

\* A call is over: it was answered, or refused as busy or as an invalid handle.
Return(t) == [threads EXCEPT ![t] = Idle]

Begin(t) == threads[t].pc = "idle" /\ calls < MaxCalls /\ calls' = calls + 1

\* Handles a caller may hold: every one ever issued, live or not.
Issued == {h \in (DOMAIN slots) \X (1 .. MaxCreates) : h[2] <= slots[h[1]].generation}

\* A new supervisor; on Android its EndpointReady carries the endpoint's name
\* as an output.
Create(t) ==
    /\ Begin(t) /\ Len(entries) < MaxCreates
    /\ slots' = Insert(slots, Len(entries) + 1)
    /\ outputs' \in {outputs, Insert(outputs, <<HandleOf(slots), Len(entries) + 1>>)}
    /\ entries' = Append(entries,
           [busy |-> FALSE, retired |-> FALSE, pending |-> 0, timer |-> 0, leaseStream |-> FALSE,
            gate |-> NoEntry, terminalTimers |-> TimerTokens, s |-> Supervisor,
            handle |-> HandleOf(slots), last |-> OutcomeV1("EndpointReady", "none")])
    /\ UNCHANGED <<threads, owed>>

DriveBegin(t, h, tag, token) ==
    /\ Begin(t)
    /\ threads' = IF Get(slots, h) = NoEntry THEN threads
                  ELSE [threads EXCEPT ![t] = [Idle EXCEPT !.pc = "latch", !.id = Get(slots, h),
                           !.handle = h, !.tag = tag, !.token = token]]
    /\ UNCHANGED <<slots, outputs, entries, owed>>

\* What this event latches: the event kinds that end something, and no others.
Latches(e, c) ==
    [terminal |-> IF c.tag \in {"eligibility", "cleanup", "internal"}
                     \/ (c.tag = "lease" /\ e.leaseStream) THEN Code[c.tag] ELSE 0,
     timer |-> IF c.tag = "timer" /\ c.token \in e.terminalTimers THEN c.token ELSE 0]

DriveLatch(t) ==
    LET c == threads[t]
        e == entries[c.id]
        l == Latches(e, c)
    IN  /\ c.pc = "latch"
        /\ l.terminal # 0 \/ l.timer # 0 => e.gate = NoEntry
        /\ entries' = [entries EXCEPT ![c.id].pending = IF @ = 0 THEN l.terminal ELSE @,
                                      ![c.id].timer = IF @ = 0 THEN l.timer ELSE @]
        /\ owed' = IF l.terminal # 0 THEN owed \cup {c.id} ELSE owed
        /\ threads' = [threads EXCEPT ![t].pc = "claim"]
        /\ UNCHANGED <<slots, outputs, calls>>

DriveClaim(t) ==
    LET c == threads[t]
        e == entries[c.id]
    IN  /\ c.pc = "claim"
        /\ IF e.busy THEN threads' = Return(t) /\ UNCHANGED entries
           ELSE IF e.retired THEN threads' = Return(t) /\ UNCHANGED entries
           ELSE /\ entries' = [entries EXCEPT ![c.id].busy = TRUE]
                /\ threads' = [threads EXCEPT ![t].pc = "drive", ![t].live = e.s.term = "live"]
        /\ UNCHANGED <<slots, outputs, calls, owed>>

Drive(t) ==
    LET c == threads[t]
        e == entries[c.id]
    IN  /\ c.pc = "drive"
        /\ \E r \in DriveSupervisor(e.s, c.tag, c.token) :
            /\ entries' = [entries EXCEPT ![c.id].s = r.s, ![c.id].terminalTimers = r.s.timers,
                   ![c.id].leaseStream = @ \/ (c.tag = "connect" /\ r.out.kind = "WriteFrames")]
            /\ threads' = [threads EXCEPT ![t].pc = "arbitrate", ![t].out = r.out]
        /\ UNCHANGED <<slots, outputs, calls, owed>>

\* A panic inside the call, before, during or after the change it makes: the
\* guard frees the supervisor (BusyGuard) while the call is still unwinding.
DrivePanics(t) ==
    LET c == threads[t]
        e == entries[c.id]
    IN  /\ c.pc = "drive"
        /\ \E s \in {e.s, Ended("InternalError")}
                    \cup {r.s : r \in DriveSupervisor(e.s, c.tag, c.token)} :
            entries' = [entries EXCEPT ![c.id].s = s, ![c.id].busy = FALSE]
        /\ threads' = [threads EXCEPT ![t].pc = "terminate"]
        /\ UNCHANGED <<slots, outputs, calls, owed>>

\* ffi_entry has caught it and ends the supervisor (terminate_internal), if the
\* handle still leads there, whoever drives or closes it meanwhile.
DriveTerminates(t) ==
    LET c == threads[t]
    IN  /\ c.pc = "terminate"
        /\ entries' = IF Get(slots, c.handle) = NoEntry THEN entries
                      ELSE [entries EXCEPT ![c.id].s = Ended("InternalError")]
        /\ threads' = Return(t)
        /\ UNCHANGED <<slots, outputs, calls, owed>>

DriveArbitrate(t) ==
    LET c == threads[t]
    IN  /\ c.pc = "arbitrate"
        /\ \E r \in Arbitrate(entries[c.id], c.tag, c.live, c.out) :
            /\ entries' = [entries EXCEPT ![c.id] = r.e]
            /\ threads' = [threads EXCEPT ![t].pc = "publish", ![t].out = r.out]
        /\ UNCHANGED <<slots, outputs, calls, owed>>

\* Mutant: publish what the first arbitration left.
DrivePublishUnchecked(t) ==
    LET c == threads[t]
    IN  /\ c.pc = "publish" /\ entries[c.id].gate = NoEntry
        /\ entries' = [entries EXCEPT ![c.id].gate = t,
                           ![c.id].last = IF c.out.kind = "Error" THEN @ ELSE c.out]
        /\ owed' = IF c.out.kind = "Error" THEN owed ELSE owed \ {c.id}
        /\ outputs' = IF c.out.kind = "WriteFrames"
                      THEN Insert(outputs, <<c.handle, c.id>>) ELSE outputs
        /\ threads' = [threads EXCEPT ![t].pc = "ungate"]
        /\ UNCHANGED <<slots, calls>>

\* Under the gate: arbitrate again and publish.  Frames go out as an output.
DrivePublish(t) ==
    LET c == threads[t]
    IN  /\ c.pc = "publish" /\ entries[c.id].gate = NoEntry
        /\ \E r \in Arbitrate(entries[c.id], c.tag, c.live, c.out) :
            /\ entries' = [entries EXCEPT ![c.id] =
                   [r.e EXCEPT !.gate = t, !.last = IF r.out.kind = "Error" THEN @ ELSE r.out]]
            /\ owed' = IF r.out.kind = "Error" THEN owed ELSE owed \ {c.id}
            /\ outputs' = IF r.out.kind = "WriteFrames"
                          THEN Insert(outputs, <<c.handle, c.id>>) ELSE outputs
            /\ threads' = [threads EXCEPT ![t].pc = "ungate", ![t].out = r.out]
        /\ UNCHANGED <<slots, calls>>

DriveUngate(t) ==
    LET c == threads[t]
    IN  /\ c.pc = "ungate"
        /\ entries' = [entries EXCEPT ![c.id].gate = NoEntry]
        /\ threads' = [threads EXCEPT ![t].pc = "release"]
        /\ UNCHANGED <<slots, outputs, calls, owed>>

DriveRelease(t) ==
    LET c == threads[t]
    IN  /\ c.pc = "release"
        /\ entries' = [entries EXCEPT ![c.id].busy = FALSE]
        /\ threads' = Return(t)
        /\ UNCHANGED <<slots, outputs, calls, owed>>

\* close and drop: clone, claim and retire, then leave the registries.
CloseBegin(t, h) ==
    /\ Begin(t)
    /\ threads' = IF Get(slots, h) = NoEntry THEN threads
                  ELSE [threads EXCEPT ![t] = [Idle EXCEPT !.pc = "retire", !.id = Get(slots, h),
                           !.handle = h]]
    /\ UNCHANGED <<slots, outputs, entries, owed>>

CloseRetire(t) ==
    LET c == threads[t]
    IN  /\ c.pc = "retire"
        /\ IF entries[c.id].busy THEN threads' = Return(t) /\ UNCHANGED entries
           ELSE /\ entries' = [entries EXCEPT ![c.id].busy = TRUE, ![c.id].retired = TRUE,
                                              ![c.id].s = Ended("Normal")]
                /\ threads' = [threads EXCEPT ![t].pc = "remove"]
        /\ UNCHANGED <<slots, outputs, calls, owed>>

CloseRemove(t) ==
    LET c == threads[t]
        there == Get(slots, c.handle) # NoEntry
    IN  /\ c.pc = "remove"
        /\ slots' = Remove(slots, c.handle)
        /\ threads' = IF there THEN [threads EXCEPT ![t].pc = "outputs"]
                      ELSE Return(t)
        /\ entries' = IF there THEN entries ELSE [entries EXCEPT ![c.id].busy = FALSE]
        /\ UNCHANGED <<outputs, calls, owed>>

CloseOutputs(t) ==
    LET c == threads[t]
    IN  /\ c.pc = "outputs"
        /\ outputs' = RemoveOwnedOutputs(outputs, c.handle)
        /\ entries' = [entries EXCEPT ![c.id].busy = FALSE]
        /\ threads' = Return(t)
        /\ owed' = owed \ {c.id}
        /\ UNCHANGED <<slots, calls>>

OutputDrop(t, i) ==
    /\ Begin(t) /\ i \in DOMAIN outputs
    /\ outputs' = Remove(outputs, <<i, outputs[i].generation>>)
    /\ UNCHANGED <<slots, entries, threads, owed>>

HandleNext ==
    \E t \in Threads :
        \/ Create(t)
        \/ \E h \in Issued, tag \in Tags, k \in TimerTokens :
               (tag # "timer" => k = CHOOSE x \in TimerTokens : TRUE) /\ DriveBegin(t, h, tag, k)
        \/ DriveLatch(t) \/ DriveClaim(t) \/ Drive(t) \/ DrivePanics(t) \/ DriveTerminates(t)
        \/ DriveArbitrate(t) \/ DrivePublish(t) \/ DriveUngate(t) \/ DriveRelease(t)
        \/ \E h \in Issued : CloseBegin(t, h)
        \/ CloseRetire(t) \/ CloseRemove(t) \/ CloseOutputs(t)
        \/ \E i \in DOMAIN outputs : OutputDrop(t, i)

HandleSpec == HandleInit /\ [][HandleNext]_handleVars
-----------------------------------------------------------------------------
(***************************************************************************)
(* A terminal event that was latched is in the very next outcome that      *)
(* anyone publishes for the supervisor, also when the latch was set        *)
(* between the two arbitrations or just after the gate was left; and the   *)
(* reason a caller was told stays the reason, unless a call panics.        *)
(***************************************************************************)
LatchedTerminalWins ==
    [][\A id \in DOMAIN entries :
          entries'[id].last # entries[id].last =>
              /\ id \in owed => entries'[id].last.kind = "LeaseTerminal"
              /\ \/ entries[id].last.kind # "LeaseTerminal"
                 \/ entries'[id].last = LeaseTerminalV1("InternalError")]_handleVars

(***************************************************************************)
(* One call at a time works on a supervisor; no output outlives its        *)
(* supervisor's place in the registry, whatever calls were under way when  *)
(* it was closed; a handle that was closed never reaches a later           *)
(* supervisor in the same slot.                                            *)
(***************************************************************************)
HandlesExact ==
    /\ \A id \in DOMAIN entries :
          LET inside == {t \in Threads : threads[t].id = id /\ threads[t].pc \in
                  {"drive", "arbitrate", "publish", "ungate", "release", "remove", "outputs"}}
          IN  \A t, u \in inside : t = u
    /\ \A i \in DOMAIN outputs : outputs[i].value # NoEntry =>
          \/ Get(slots, outputs[i].value[1]) = outputs[i].value[2]
          \/ \E t \in Threads : threads[t].pc = "outputs" /\ threads[t].id = outputs[i].value[2]
    /\ \A id \in DOMAIN entries : Get(slots, entries[id].handle) \in {id, NoEntry}
=============================================================================
