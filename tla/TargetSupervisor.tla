-------------------------- MODULE TargetSupervisor --------------------------
(***************************************************************************)
(* The Target's transport supervisor (transport/crypto-core/src/           *)
(* target_transport.rs): a state machine without I/O that a platform shell *)
(* drives one event at a time.  Each handler is an operator from the state *)
(* and the event to the next state and the outcome the shell must act on.  *)
(*                                                                         *)
(* Cryptography is abstracted to its verdict on a frame, byte chunks to    *)
(* the verdicts of the frames they complete, tokens to what they are       *)
(* compared for (a new timer differs from every scheduled one), durations, *)
(* close reasons and handoff values are left out.                          *)
(***************************************************************************)
EXTENDS Naturals, Sequences, FiniteSets, Functions

CONSTANTS StaleTicks,   \* ticks after which a lease is stale (30 in the code)
          LostTicks     \* ticks without a heartbeat that lose the Broker (4)

ASSUME TicksAssumption == StaleTicks \in Nat \ {0} /\ LostTicks \in Nat \ {0}

\* A timer token: what it times, for which stream, and a serial number.
TimerActions == {"Bootstrap", "BootstrapFrame", "LeaseTick", "LeaseFrame",
                 "SessionPhase", "SessionIdle", "SessionFrame"}

NoTimer == <<"none", 0, 0>>

\* schedule_timer: a token no scheduled timer has.
FreshTimer(timers, action, s) ==
    <<action, s, CHOOSE n \in 0..Cardinality(timers) :
        /\ <<action, s, n>> \notin timers
        /\ \A m \in 0..(n - 1) : <<action, s, m>> \in timers>>

\* What a stream chunk holds: the verdicts on the frames it completes, whether
\* it leaves a frame unfinished, whether the envelope itself is malformed.
\*   good   the frame that is due, an application record that is not the last
\*   app    the last record of an application message
\*   bad    a frame refused without an answer, or the peer's close record
\*   limit  a record limit reached, answered with a close record
Verdicts == {"good", "app", "bad", "limit"}

Chunks ==
    {c \in [frames : UNION {[1..n -> Verdicts] : n \in 0..2}, partial : BOOLEAN, malformed : BOOLEAN] :
        IF c.malformed THEN c.frames = <<>> /\ ~c.partial ELSE c.frames # <<>> \/ c.partial}

Outcome(kind, s, timer) == [kind |-> kind, stream |-> s, deadline |-> timer]

Result(sup, kind, s, timer) == [sup |-> sup, out |-> Outcome(kind, s, timer)]

NeedInput(sup, s, timer) == Result(sup, "NeedInput", s, timer)

WriteFrames(sup, s, timer) == Result(sup, "WriteFrames", s, timer)

\* Err(SupervisorError::WrongPhase).
WrongPhase(sup) == Result(sup, "WrongPhase", 0, NoTimer)

ChildPhases == {"M1Pending", "AwaitM2", "FinishedPending", "AwaitFinished",
                "AwaitApplication", "AwaitRuntime", "ResponsePending", "TerminalPending",
                "Terminal"}

LeasePhases == {"AwaitBootstrap", "BootstrapM1Pending", "BootstrapM2",
                "BootstrapAckPending", "Eligible", "Terminal"}

\* TargetTransport::create.
Created == [phase |-> "AwaitBootstrap", stream |-> 0, write |-> FALSE,
            frameTimer |-> NoTimer, tickTimer |-> NoTimer,
            ticks |-> 0, missed |-> 0, children |-> <<>>, timers |-> {}]

\* Phase::Terminal, by lease_terminal or by close: the timers are cleared and
\* everything the previous phase held is dropped.
Terminated == [Created EXCEPT !.phase = "Terminal"]

LeaseTerminal == Result(Terminated, "LeaseTerminal", 0, NoTimer)

\* child_terminal: the child leaves with both its timers.
ChildTerminal(sup, s) ==
    LET child == sup.children[s] IN
    Result([sup EXCEPT !.children = Restrict(@, DOMAIN @ \ {s}),
                       !.timers = @ \ {child.phaseTimer, child.frameTimer}],
           "SessionTerminal", s, NoTimer)

\* child_core_error: an error that carries a close frame has it written first.
ChildCoreError(sup, s, verdict) ==
    IF verdict = "limit"
    THEN WriteFrames([sup EXCEPT !.children[s].phase = "TerminalPending"], s, NoTimer)
    ELSE ChildTerminal(sup, s)

\* update_frame_timer: an unfinished frame has a timer, a finished one has not.
\* `told' is the new timer, the only one the outcome can carry.
UpdateFrameTimer(slot, partial, timers, action, s) ==
    LET fresh == FreshTimer(timers, action, s) IN
    CASE partial /\ slot = NoTimer -> [slot |-> fresh, timers |-> timers \cup {fresh}, told |-> fresh]
      [] partial /\ slot # NoTimer -> [slot |-> slot, timers |-> timers, told |-> NoTimer]
      [] ~partial -> [slot |-> NoTimer, timers |-> timers \ {slot}, told |-> NoTimer]

\* replace_child_timer: the old phase timer is forgotten, the new one scheduled.
ReplaceChildTimer(sup, s, action) ==
    LET fresh == FreshTimer(sup.timers, action, s) IN
    [sup EXCEPT !.timers = (@ \ {sup.children[s].phaseTimer}) \cup {fresh},
                !.children[s].phaseTimer = fresh]

-----------------------------------------------------------------------------
(* Bootstrap and lease. *)

BootstrapConnected(sup, s) ==
    LET fresh == FreshTimer(sup.timers, "Bootstrap", 0) IN
    IF sup.phase # "AwaitBootstrap" THEN WrongPhase(sup)
    ELSE WriteFrames([sup EXCEPT !.phase = "BootstrapM1Pending", !.stream = s,
                                 !.timers = @ \cup {fresh}], s, fresh)

\* bootstrap_bytes: exactly one frame, the second handshake message.
BootstrapBytes(sup, s, chunk) ==
    LET timer == UpdateFrameTimer(sup.frameTimer, chunk.partial, sup.timers, "BootstrapFrame", 0)
        next == [sup EXCEPT !.frameTimer = timer.slot, !.timers = timer.timers]
    IN CASE chunk.malformed -> LeaseTerminal
         [] ~chunk.malformed /\ chunk.frames = <<>> -> NeedInput(next, s, timer.told)
         [] chunk.frames = <<"good">> ->
                WriteFrames([next EXCEPT !.phase = "BootstrapAckPending"], s, timer.told)
         [] OTHER -> LeaseTerminal

\* The acknowledgement is out: the lease is eligible, its ticks begin.
AckCommitted(sup) ==
    LET kept == {t \in sup.timers : t[1] # "Bootstrap"}
        tick == FreshTimer(sup.timers, "LeaseTick", 0)
    IN Result([sup EXCEPT !.phase = "Eligible", !.timers = kept \cup {tick}, !.tickTimer = tick],
              "LeaseReady", sup.stream, tick)

\* Mutation: a heartbeat makes the lease young again.
LeaseBytesRenews(sup, s, chunk) ==
    LET timer == UpdateFrameTimer(sup.frameTimer, chunk.partial, sup.timers, "LeaseFrame", 0)
        next == [sup EXCEPT !.frameTimer = timer.slot, !.timers = timer.timers]
    IN CASE sup.write -> WrongPhase(sup)
         [] ~sup.write /\ ~chunk.malformed /\ chunk.frames = <<>> -> NeedInput(next, s, timer.told)
         [] ~sup.write /\ chunk.frames = <<"good">> ->
                WriteFrames([next EXCEPT !.write = TRUE, !.missed = 0, !.ticks = 0], s, timer.told)
         [] OTHER -> LeaseTerminal

\* lease_bytes: exactly one heartbeat request, whose reply is written before
\* anything else is read.
LeaseBytes(sup, s, chunk) ==
    LET timer == UpdateFrameTimer(sup.frameTimer, chunk.partial, sup.timers, "LeaseFrame", 0)
        next == [sup EXCEPT !.frameTimer = timer.slot, !.timers = timer.timers]
    IN CASE sup.write -> WrongPhase(sup)
         [] ~sup.write /\ chunk.malformed -> LeaseTerminal
         [] ~sup.write /\ ~chunk.malformed /\ chunk.frames = <<>> -> NeedInput(next, s, timer.told)
         [] ~sup.write /\ chunk.frames = <<"good">> ->
                WriteFrames([next EXCEPT !.write = TRUE, !.missed = 0], s, timer.told)
         [] OTHER -> LeaseTerminal

\* The lease tick: the lease ages, and is lost with the Broker's silence.
LeaseTick(sup) ==
    LET fresh == FreshTimer(sup.timers, "LeaseTick", 0)
        aged == [sup EXCEPT !.ticks = @ + 1, !.missed = @ + 1,
                            !.timers = (@ \ {sup.tickTimer}) \cup {fresh}, !.tickTimer = fresh]
    IN IF aged.ticks >= StaleTicks \/ aged.missed >= LostTicks THEN LeaseTerminal
       ELSE NeedInput(aged, 0, fresh)

-----------------------------------------------------------------------------
(* Sessions, the children of an eligible lease. *)

SessionAccepted(sup, s) ==
    LET fresh == FreshTimer(sup.timers, "SessionPhase", s)
        child == [phase |-> "M1Pending", phaseTimer |-> fresh, frameTimer |-> NoTimer]
        children == [u \in DOMAIN sup.children \cup {s} |-> IF u = s THEN child ELSE sup.children[u]]
    IN IF sup.phase # "Eligible" \/ s = sup.stream \/ s \in DOMAIN sup.children THEN WrongPhase(sup)
       ELSE WriteFrames([sup EXCEPT !.children = children, !.timers = @ \cup {fresh}], s, fresh)

\* Mutation: the idle timer is scheduled, and the outcome does not say so.
CommitChildWriteSilently(sup, s) ==
    LET to(phase) == [sup EXCEPT !.children[s].phase = phase] IN
    IF s \notin DOMAIN sup.children THEN WrongPhase(sup)
    ELSE CASE sup.children[s].phase = "M1Pending" -> NeedInput(to("AwaitM2"), s, NoTimer)
           [] sup.children[s].phase = "FinishedPending" -> NeedInput(to("AwaitFinished"), s, NoTimer)
           [] sup.children[s].phase = "ResponsePending" ->
                  NeedInput(ReplaceChildTimer(to("AwaitApplication"), s, "SessionIdle"), s, NoTimer)
           [] OTHER -> Result(to("Terminal"), "SessionTerminal", s, NoTimer)

\* commit_child_write.  full_write_committed has taken the Eligible phase out
\* of the supervisor while this runs, so its child_terminal finds no session to
\* remove: one whose close record is out is reported terminal, and stays with
\* its timers until one of them fires or its stream is reported closed.
CommitChildWrite(sup, s) ==
    LET to(phase) == [sup EXCEPT !.children[s].phase = phase]
        idle == ReplaceChildTimer(to("AwaitApplication"), s, "SessionIdle")
    IN IF s \notin DOMAIN sup.children THEN WrongPhase(sup)
       ELSE CASE sup.children[s].phase = "M1Pending" -> NeedInput(to("AwaitM2"), s, NoTimer)
              [] sup.children[s].phase = "FinishedPending" -> NeedInput(to("AwaitFinished"), s, NoTimer)
              [] sup.children[s].phase = "ResponsePending" ->
                     NeedInput(idle, s, idle.children[s].phaseTimer)
              [] sup.children[s].phase = "TerminalPending" ->
                     Result(to("Terminal"), "SessionTerminal", s, NoTimer)
              [] OTHER -> WrongPhase(sup)

\* What read_application makes of a run of frames: the first refusal decides,
\* and after a complete message it is not the peer's turn.
ReadApplication(frames) ==
    LET refused == {i \in DOMAIN frames : \/ frames[i] \in {"bad", "limit"}
                                          \/ \E j \in 1..(i - 1) : frames[j] = "app"}
        first == CHOOSE i \in refused : \A j \in refused : i <= j
    IN CASE refused # {} /\ frames[first] = "limit" -> "limit"
         [] refused # {} /\ frames[first] # "limit" -> "bad"
         [] refused = {} /\ \E i \in DOMAIN frames : frames[i] = "app" -> "app"
         [] OTHER -> "more"

\* A session that may hold application records: a complete message goes to the
\* runtime, under the timer of the frame behind it if there is one.
ApplicationBytes(sup, s, frames, told) ==
    LET verdict == ReadApplication(frames)
        handed == [sup EXCEPT !.children[s].phase = "AwaitRuntime"]
        waiting == ReplaceChildTimer(handed, s, "SessionPhase")
    IN CASE verdict \in {"bad", "limit"} -> ChildCoreError(sup, s, verdict)
         [] verdict = "more" ->
                NeedInput([sup EXCEPT !.children[s].phase = "AwaitApplication"], s, told)
         [] verdict = "app" /\ told # NoTimer ->
                Result([handed EXCEPT !.timers = @ \ {sup.children[s].phaseTimer},
                                      !.children[s].phaseTimer = NoTimer],
                       "Application", s, told)
         [] verdict = "app" /\ told = NoTimer ->
                Result(waiting, "Application", s, waiting.children[s].phaseTimer)

\* session_bytes.
SessionBytes(sup, s, chunk) ==
    LET child == sup.children[s]
        timer == UpdateFrameTimer(child.frameTimer, chunk.partial, sup.timers, "SessionFrame", s)
        next == [sup EXCEPT !.children[s].frameTimer = timer.slot, !.timers = timer.timers]
        frames == chunk.frames
    IN CASE chunk.malformed -> ChildTerminal(sup, s)
         [] ~chunk.malformed /\ frames = <<>> -> NeedInput(next, s, timer.told)
         [] frames # <<>> /\ child.phase = "AwaitM2" ->
                IF frames = <<"good">>
                THEN WriteFrames([next EXCEPT !.children[s].phase = "FinishedPending"], s, timer.told)
                ELSE ChildTerminal(next, s)
         [] frames # <<>> /\ child.phase = "AwaitFinished" ->
                IF Head(frames) = "good" THEN ApplicationBytes(next, s, Tail(frames), timer.told)
                ELSE ChildTerminal(next, s)
         [] frames # <<>> /\ child.phase = "AwaitApplication" ->
                ApplicationBytes(next, s, frames, timer.told)
         [] OTHER -> WrongPhase(next)

\* runtime_response: the runtime's answer is written, or refused by the
\* record layer.
RuntimeResponse(sup, s, verdict) ==
    IF s \notin DOMAIN sup.children \/ sup.children[s].phase # "AwaitRuntime" THEN WrongPhase(sup)
    ELSE IF verdict = "good"
         THEN WriteFrames([sup EXCEPT !.children[s].phase = "ResponsePending"], s, NoTimer)
         ELSE ChildCoreError(sup, s, verdict)

-----------------------------------------------------------------------------
(* The events of drive.  The shells stop with the supervisor, so a terminal *)
(* supervisor is driven no further.                                         *)

FullWriteCommitted(sup, s) ==
    CASE sup.phase = "BootstrapM1Pending" /\ sup.stream = s ->
             NeedInput([sup EXCEPT !.phase = "BootstrapM2"], s, NoTimer)
      [] sup.phase = "BootstrapAckPending" /\ sup.stream = s -> AckCommitted(sup)
      [] sup.phase = "Eligible" /\ sup.stream = s ->
             IF sup.write THEN NeedInput([sup EXCEPT !.write = FALSE], s, NoTimer) ELSE WrongPhase(sup)
      [] sup.phase = "Eligible" /\ sup.stream # s -> CommitChildWrite(sup, s)
      [] OTHER -> WrongPhase(sup)

StreamBytes(sup, s, chunk) ==
    CASE sup.phase = "BootstrapM2" /\ sup.stream = s -> BootstrapBytes(sup, s, chunk)
      [] sup.phase = "Eligible" /\ sup.stream = s -> LeaseBytes(sup, s, chunk)
      [] sup.phase = "Eligible" /\ s \in DOMAIN sup.children -> SessionBytes(sup, s, chunk)
      [] OTHER -> WrongPhase(sup)

\* stream_closed, for an end of file and for a failed stream alike.
StreamClosed(sup, s) ==
    CASE sup.phase \notin {"AwaitBootstrap", "Terminal"} /\ sup.stream = s -> LeaseTerminal
      [] sup.phase = "Eligible" /\ s \in DOMAIN sup.children -> ChildTerminal(sup, s)
      [] OTHER -> WrongPhase(sup)

\* timer_fired, for a token that is still scheduled (any other is a no-op).
TimerFired(sup, token) ==
    LET spent == [sup EXCEPT !.timers = @ \ {token}] IN
    CASE token[1] \in {"Bootstrap", "BootstrapFrame", "LeaseFrame"} -> LeaseTerminal
      [] token[1] = "LeaseTick" /\ sup.tickTimer = token -> LeaseTick(sup)
      [] token[1] = "LeaseTick" /\ sup.tickTimer # token -> NeedInput(spent, 0, NoTimer)
      [] token[1] \in {"SessionPhase", "SessionFrame", "SessionIdle"} ->
             IF token[2] \in DOMAIN sup.children THEN ChildTerminal(spent, token[2])
             ELSE NeedInput(spent, 0, NoTimer)
=============================================================================
