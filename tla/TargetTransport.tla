-------------------------- MODULE TargetTransport ---------------------------
(***************************************************************************)
(* The iOS Target transport: the actor AppPilotKitTargetTransport, which   *)
(* drives the supervisor of TargetSupervisor and applies its outcomes, and *)
(* the LoopbackSocketHost it reads and writes through.                     *)
(*                                                                         *)
(* The actor runs one job at a time; it is re-entered only where a job     *)
(* awaits the runtime, which is where jobs are split here.  The host       *)
(* reports each socket event in a task of its own, so reports reach the    *)
(* actor in any order.  Commands to the host are taken as carried out at   *)
(* once: a report made before the host serves a command and one already    *)
(* under way when it does are the same to the actor.                       *)
(***************************************************************************)
EXTENDS TargetSupervisor

CONSTANT MaxStreams     \* connections the listener accepts

ASSUME StreamsAssumption == MaxStreams \in Nat \ {0}

VARIABLES
    status,             \* new, started, listening, stopped
    sup,                \* the supervisor
    bootstrapStream,    \* the first connection, 0 before it
    pendingSession,     \* a connection that came before the lease was ready
    composed,           \* the runtime composition exists
    runtimes,           \* streams that own a runtime
    handling,           \* streams whose runtime.handle is awaited
    pendingWrites,      \* streams with a write whose completion is awaited
    timerTasks,         \* timers the shell will fire
    job,                \* what the running job still has to drive
    tails,              \* streams whose end a job reports after what it awaits
    events,             \* socket reports on their way to the actor
    nextStream,         \* the host's next stream number
    opening,            \* connections not ready yet
    open,               \* connections the host holds open
    receiving,          \* streams with a receive under way
    sending,            \* streams with a send under way
    admitted,           \* history: streams that became sessions
    fault               \* history: the event that failed the transport

shell == <<status, bootstrapStream, pendingSession, composed, runtimes, handling,
           pendingWrites, timerTasks, job, tails>>
host == <<nextStream, opening, open, receiving, sending>>
history == <<admitted, fault>>
vars == <<sup, shell, events, host, history>>

Streams == 1..MaxStreams

NoFault == [stream |-> 0, live |-> FALSE]

Tokens == TimerActions \X (0..MaxStreams) \X (0..2)

TypeOK ==
    /\ status \in {"new", "started", "listening", "stopped"}
    /\ sup.phase \in LeasePhases /\ sup.stream \in 0..MaxStreams /\ sup.write \in BOOLEAN
    /\ sup.ticks \in 0..(StaleTicks - 1) /\ sup.missed \in 0..(LostTicks - 1)
    /\ sup.timers \subseteq Tokens
    /\ {sup.frameTimer, sup.tickTimer} \subseteq Tokens \cup {NoTimer}
    /\ DOMAIN sup.children \subseteq Streams
    /\ \A s \in DOMAIN sup.children :
           sup.children[s] \in [phase : ChildPhases, phaseTimer : Tokens \cup {NoTimer},
                                frameTimer : Tokens \cup {NoTimer}]
    /\ {bootstrapStream, pendingSession} \subseteq 0..MaxStreams
    /\ \A i \in DOMAIN job : job[i] \in [drive : {"response", "end"}, stream : Streams]
    /\ composed \in BOOLEAN
    /\ UNION {runtimes, handling, pendingWrites, tails, opening, open, receiving, sending, admitted}
           \subseteq Streams
    /\ timerTasks \subseteq sup.timers
    /\ events \subseteq [kind : {"accepted", "received", "finished", "written"},
                         stream : Streams, data : BOOLEAN, end : BOOLEAN]
    /\ nextStream \in 1..(MaxStreams + 1)
    /\ fault \in [stream : 0..MaxStreams, live : BOOLEAN]

Init ==
    /\ status = "new" /\ sup = Created
    /\ bootstrapStream = 0 /\ pendingSession = 0 /\ composed = FALSE
    /\ runtimes = {} /\ handling = {} /\ pendingWrites = {} /\ timerTasks = {}
    /\ job = <<>> /\ tails = {} /\ events = {}
    /\ nextStream = 1 /\ opening = {} /\ open = {} /\ receiving = {} /\ sending = {}
    /\ admitted = {} /\ fault = NoFault

Event(kind, s, data, end) == [kind |-> kind, stream |-> s, data |-> data, end |-> end]

-----------------------------------------------------------------------------
(* What the actor does with an outcome.  `ev' and `pw' are the reports and  *)
(* the pending writes the job leaves, `rest' what it has to drive next.     *)

End(s) == <<[drive |-> "end", stream |-> s]>>

Response(s) == <<[drive |-> "response", stream |-> s]>>

\* leaseTerminal and stop: nothing is left, and the supervisor is closed.
LeaseTerminated ==
    /\ status' = "stopped" /\ sup' = Terminated
    /\ timerTasks' = {} /\ pendingWrites' = {} /\ pendingSession' = 0 /\ runtimes' = {}
    /\ opening' = {} /\ open' = {} /\ receiving' = {} /\ sending' = {}
    /\ job' = <<>> /\ tails' = {} /\ events' = {}
    /\ UNCHANGED <<bootstrapStream, composed, handling, nextStream, admitted>>

\* internalFailure: InternalError is driven, and the lease ends.
InternalFailure(s) ==
    /\ LeaseTerminated
    /\ fault' = [stream |-> s, live |-> s # 0 /\ s \in {sup.stream} \cup DOMAIN sup.children]

\* scheduleDeadline.  A task whose timer the supervisor has dropped fires into
\* nothing and is forgotten here.
ScheduleDeadline(next, told) == timerTasks' = (timerTasks \cup told) \cap next.timers

\* sockets.send, for a stream the host may have lost.
Send(s, ev) ==
    IF s \in open THEN sending' = sending \cup {s} /\ events' = ev
    ELSE events' = ev \cup {Event("written", s, FALSE, TRUE)} /\ UNCHANGED sending

Receive(s) == receiving' = IF s \in open THEN receiving \cup {s} ELSE receiving

\* needInput: a session that was pending is so no longer, and is read.
OnNeedInput(r, ev, pw, rest) ==
    /\ r.out.kind = "NeedInput"
    /\ sup' = r.sup /\ ScheduleDeadline(r.sup, {r.out.deadline})
    /\ pendingSession' = IF r.out.stream = pendingSession THEN 0 ELSE pendingSession
    /\ Receive(r.out.stream)
    /\ events' = ev /\ pendingWrites' = pw /\ job' = rest
    /\ UNCHANGED <<status, bootstrapStream, composed, runtimes, handling, tails,
                   nextStream, opening, open, sending, history>>

\* write: one write at a time on a stream.
OnWriteFrames(r, ev, pw, rest) ==
    /\ r.out.kind = "WriteFrames"
    /\ IF r.out.stream \in pw THEN InternalFailure(r.out.stream)
       ELSE /\ sup' = r.sup /\ ScheduleDeadline(r.sup, {r.out.deadline})
            /\ pendingWrites' = pw \cup {r.out.stream}
            /\ Send(r.out.stream, ev)
            /\ admitted' = admitted \cup DOMAIN r.sup.children
            /\ job' = rest
            /\ UNCHANGED <<status, bootstrapStream, pendingSession, composed, runtimes, handling,
                           tails, nextStream, opening, open, receiving, fault>>

\* application: the stream's runtime is called, and awaited.
OnApplication(r, ev, pw, rest) ==
    /\ r.out.kind = "Application"
    /\ IF ~composed THEN InternalFailure(r.out.stream)
       ELSE /\ sup' = r.sup /\ ScheduleDeadline(r.sup, {r.out.deadline})
            /\ runtimes' = runtimes \cup {r.out.stream}
            /\ handling' = handling \cup {r.out.stream}
            /\ tails' = tails \cup {rest[i].stream : i \in DOMAIN rest}
            /\ events' = ev /\ pendingWrites' = pw /\ job' = <<>>
            /\ UNCHANGED <<status, bootstrapStream, pendingSession, composed, host, history>>

\* leaseReady: the composition is made, a connection that waited becomes a
\* session, and the lease stream is read.
OnLeaseReady(r, ev, pw) ==
    LET accepted == SessionAccepted(r.sup, pendingSession)
        next == IF pendingSession = 0 THEN r.sup ELSE accepted.sup
    IN
    /\ r.out.kind = "LeaseReady"
    /\ \/ InternalFailure(0)        \* the factory throws
       \/ /\ composed' = TRUE /\ sup' = next
          /\ ScheduleDeadline(next, {r.out.deadline, accepted.out.deadline})
          /\ pendingWrites' = pw \cup DOMAIN next.children
          /\ admitted' = admitted \cup DOMAIN next.children
          /\ IF pendingSession = 0 THEN events' = ev /\ UNCHANGED sending
             ELSE Send(pendingSession, ev)
          /\ Receive(r.out.stream)
          /\ job' = <<>>
          /\ UNCHANGED <<status, bootstrapStream, pendingSession, runtimes, handling, tails,
                         nextStream, opening, open, fault>>

\* Mutation: sessionTerminal leaves the connection to its peer.
OnSessionTerminalLeavesOpen(r, ev, pw, rest) ==
    /\ r.out.kind = "SessionTerminal"
    /\ sup' = r.sup /\ ScheduleDeadline(r.sup, {})
    /\ pendingSession' = IF pendingSession = r.out.stream THEN 0 ELSE pendingSession
    /\ pendingWrites' = pw \ {r.out.stream}
    /\ runtimes' = runtimes \ {r.out.stream}
    /\ events' = ev /\ job' = rest
    /\ UNCHANGED <<status, bootstrapStream, composed, handling, tails, host, history>>

\* sessionTerminal: the connection is closed and its runtime invalidated,
\* which is awaited.
OnSessionTerminal(r, ev, pw, rest) ==
    LET s == r.out.stream IN
    /\ r.out.kind = "SessionTerminal"
    /\ sup' = r.sup /\ ScheduleDeadline(r.sup, {})
    /\ pendingSession' = IF pendingSession = s THEN 0 ELSE pendingSession
    /\ opening' = opening \ {s} /\ open' = open \ {s} /\ receiving' = receiving \ {s}
    /\ pendingWrites' = pw \ {s}
    /\ runtimes' = runtimes \ {s}
    /\ IF s \in runtimes THEN tails' = tails \cup {rest[i].stream : i \in DOMAIN rest} /\ job' = <<>>
       ELSE job' = rest /\ UNCHANGED tails
    /\ events' = ev
    /\ UNCHANGED <<status, bootstrapStream, composed, handling, nextStream, sending, history>>

\* process, and the failure path of driveAndProcess; `s' is the stream of the
\* event that was driven.
Process(r, ev, pw, s, rest) ==
    \/ OnNeedInput(r, ev, pw, rest)
    \/ OnWriteFrames(r, ev, pw, rest)
    \/ OnApplication(r, ev, pw, rest)
    \/ OnLeaseReady(r, ev, pw)
    \/ OnSessionTerminal(r, ev, pw, rest)
    \/ r.out.kind = "LeaseTerminal" /\ LeaseTerminated /\ UNCHANGED fault
    \/ r.out.kind = "WrongPhase" /\ InternalFailure(s)

-----------------------------------------------------------------------------
(* The actor. *)

ActorFree == status \in {"started", "listening"} /\ job = <<>>

\* activate, up to the await of the lifecycle monitor.
Activate ==
    /\ status = "new" /\ status' = "started"
    /\ UNCHANGED <<sup, bootstrapStream, pendingSession, composed, runtimes, handling,
                   pendingWrites, timerTasks, job, tails, events, host, history>>

\* activate, after sockets.start.
Listen ==
    /\ status = "started"
    /\ \/ /\ status' = "listening"
          /\ UNCHANGED <<sup, bootstrapStream, pendingSession, composed, runtimes, handling,
                         pendingWrites, timerTasks, job, tails, events, host, history>>
       \/ InternalFailure(0)        \* the listener does not start

\* eligibilityLost, and activate without a lifecycle monitor.
EligibilityLost == ActorFree /\ LeaseTerminated /\ UNCHANGED fault

\* stop, by the owner.
Stop == status # "stopped" /\ job = <<>> /\ LeaseTerminated /\ UNCHANGED fault

\* accepted: the first connection bootstraps the lease; one that comes before
\* the lease is ready waits, a second such one is closed; later ones are
\* sessions.
Accepted(e) ==
    LET s == e.stream
        ev == events \ {e}
    IN
    /\ e.kind = "accepted"
    /\ \/ /\ bootstrapStream = 0
          /\ LET r == BootstrapConnected(sup, s) IN
             IF r.out.kind = "WrongPhase" THEN InternalFailure(s)
             ELSE /\ bootstrapStream' = s /\ sup' = r.sup
                  /\ ScheduleDeadline(r.sup, {r.out.deadline})
                  /\ pendingWrites' = pendingWrites \cup {s}
                  /\ Send(s, ev)
                  /\ UNCHANGED <<status, pendingSession, composed, runtimes, handling, job, tails,
                                 nextStream, opening, open, receiving, history>>
       \/ /\ bootstrapStream # 0 /\ ~composed
          /\ IF pendingSession = 0
             THEN pendingSession' = s /\ UNCHANGED <<open, receiving>>
             ELSE open' = open \ {s} /\ receiving' = receiving \ {s} /\ UNCHANGED pendingSession
          /\ events' = ev
          /\ UNCHANGED <<sup, status, bootstrapStream, composed, runtimes, handling, pendingWrites,
                         timerTasks, job, tails, nextStream, opening, sending, history>>
       \/ /\ bootstrapStream # 0 /\ composed
          /\ Process(SessionAccepted(sup, s), ev, pendingWrites, s, <<>>)

\* socketEvent .received: bytes are driven, then the end; a pending session
\* keeps its bytes (no receive is asked of it, so it has none) and is forgotten
\* at its end.
Received(e) ==
    LET s == e.stream
        ev == events \ {e}
    IN
    /\ e.kind \in {"received", "finished"}
    /\ \/ /\ s = pendingSession
          /\ pendingSession' = IF e.end THEN 0 ELSE pendingSession
          /\ events' = ev
          /\ UNCHANGED <<sup, status, bootstrapStream, composed, runtimes, handling, pendingWrites,
                         timerTasks, job, tails, host, history>>
       \/ /\ s # pendingSession /\ e.data
          /\ \E chunk \in Chunks :
                 Process(StreamBytes(sup, s, chunk), ev, pendingWrites, s, IF e.end THEN End(s) ELSE <<>>)
       \/ /\ s # pendingSession /\ ~e.data
          /\ Process(StreamClosed(sup, s), ev, pendingWrites, s, <<>>)

\* socketEvent .writeCompleted: a completion nobody waits for is ignored.
WriteCompleted(e) ==
    LET s == e.stream
        ev == events \ {e}
        result == IF e.end THEN StreamClosed(sup, s) ELSE FullWriteCommitted(sup, s)
    IN
    /\ e.kind = "written"
    /\ IF s \in pendingWrites THEN Process(result, ev, pendingWrites \ {s}, s, <<>>)
       ELSE events' = ev /\ UNCHANGED <<sup, shell, host, history>>

SocketEvent ==
    /\ ActorFree
    /\ \E e \in events : Accepted(e) \/ Received(e) \/ WriteCompleted(e)

\* The rest of a job: the response the runtime gave, the end of a stream whose
\* bytes have been dealt with.
Continue ==
    LET s == Head(job).stream
        drive(r) == Process(r, events, pendingWrites, s, Tail(job))
    IN
    /\ job # <<>>
    /\ \/ Head(job).drive = "end" /\ drive(StreamClosed(sup, s))
       \/ /\ Head(job).drive = "response"
          /\ \E verdict \in {"good", "bad", "limit"} : drive(RuntimeResponse(sup, s, verdict))

\* runtime.handle returns: the response is driven if the session still owns
\* the runtime.
RuntimeReturns(s) ==
    /\ s \in handling /\ job = <<>>
    /\ handling' = handling \ {s} /\ tails' = tails \ {s}
    /\ job' = (IF s \in runtimes THEN Response(s) ELSE <<>>) \o (IF s \in tails THEN End(s) ELSE <<>>)
    /\ UNCHANGED <<sup, status, bootstrapStream, pendingSession, composed, runtimes,
                   pendingWrites, timerTasks, events, host, history>>

\* A job that awaited the invalidation of its session's runtime resumes.
InvalidationReturns(s) ==
    /\ ActorFree /\ s \in tails \ handling
    /\ tails' = tails \ {s} /\ job' = End(s)
    /\ UNCHANGED <<sup, status, bootstrapStream, pendingSession, composed, runtimes, handling,
                   pendingWrites, timerTasks, events, host, history>>

\* listenerStateChanged .failed, after it was ready, and its report.
ListenerFails == ActorFree /\ status = "listening" /\ InternalFailure(0)

\* timerFired.
TimerFires(t) ==
    /\ ActorFree /\ t \in timerTasks
    /\ Process(TimerFired(sup, t), events, pendingWrites, t[2], <<>>)

-----------------------------------------------------------------------------
(* The socket host. *)

Report(e) == events' = events \cup {e}

\* accept: a connection gets a stream number.
Accept ==
    /\ status = "listening" /\ nextStream <= MaxStreams
    /\ opening' = opening \cup {nextStream} /\ nextStream' = nextStream + 1
    /\ UNCHANGED <<sup, shell, events, open, receiving, sending, history>>

\* connectionStateChanged .ready.
ConnectionReady(s) ==
    /\ s \in opening
    /\ opening' = opening \ {s} /\ open' = open \cup {s}
    /\ Report(Event("accepted", s, FALSE, FALSE))
    /\ UNCHANGED <<sup, shell, nextStream, receiving, sending, history>>

\* connectionStateChanged .failed, finishStream.
ConnectionFails(s) ==
    /\ s \in opening \cup open
    /\ opening' = opening \ {s} /\ open' = open \ {s} /\ receiving' = receiving \ {s}
    /\ Report(Event("finished", s, FALSE, TRUE))
    /\ UNCHANGED <<sup, shell, nextStream, sending, history>>

\* beginReceive's completion: bytes, the end of the stream or an error, or
\* bytes with either.
ReceiveCompletes(s) ==
    /\ s \in receiving
    /\ receiving' = receiving \ {s}
    /\ \E data, end \in BOOLEAN : (data \/ end) /\ Report(Event("received", s, data, end))
    /\ UNCHANGED <<sup, shell, nextStream, opening, open, sending, history>>

\* send's completion.
SendCompletes(s) ==
    /\ s \in sending
    /\ sending' = sending \ {s}
    /\ \E failed \in BOOLEAN : Report(Event("written", s, FALSE, failed))
    /\ UNCHANGED <<sup, shell, nextStream, opening, open, receiving, history>>

-----------------------------------------------------------------------------
Host ==
    \/ Accept
    \/ \E s \in Streams :
           ConnectionReady(s) \/ ConnectionFails(s) \/ ReceiveCompletes(s) \/ SendCompletes(s)

Actor ==
    \/ Activate \/ Listen \/ EligibilityLost \/ Stop \/ ListenerFails \/ SocketEvent \/ Continue
    \/ \E s \in Streams : RuntimeReturns(s) \/ InvalidationReturns(s)
    \/ \E t \in timerTasks : TimerFires(t)

Next == Host \/ Actor

Spec == Init /\ [][Next]_vars

\* A timer task sleeps until its deadline and then enters the actor, which
\* takes every job it is given in its turn, however busy sessions keep it.  No
\* peer, runtime or socket owes a step.
FairSpec ==
    /\ Spec /\ WF_vars(Continue)
    /\ SF_vars(\E t \in timerTasks : t[1] = "Bootstrap" /\ TimerFires(t))
    /\ SF_vars(\E t \in timerTasks : t[1] = "LeaseTick" /\ TimerFires(t))

-----------------------------------------------------------------------------
(***************************************************************************)
(* Properties                                                              *)
(***************************************************************************)
Running == status # "stopped"

ChildTimers == UNION {{sup.children[s].phaseTimer, sup.children[s].frameTimer} : s \in DOMAIN sup.children}

\* The sessions that have not ended.  One whose close record was written has,
\* though the supervisor keeps its entry until a timer fires for it.
LiveSessions == {s \in DOMAIN sup.children : sup.children[s].phase # "Terminal"}

\* The supervisor's timer map holds exactly the timers its phases and the
\* entries of its sessions know: no timer of an earlier phase is left behind to
\* end a later one, none that a phase counts on is missing.  An entry outlives
\* its session where a close record was written, and its timers with it.
TimersOwned ==
    LET owned == ({sup.frameTimer, sup.tickTimer} \cup ChildTimers) \ {NoTimer}
        bootstrapping == sup.phase \in {"BootstrapM1Pending", "BootstrapM2", "BootstrapAckPending"}
    IN
    /\ owned \subseteq sup.timers
    /\ \A t \in sup.timers \ owned : t[1] = "Bootstrap" /\ bootstrapping
    /\ bootstrapping => \E t \in sup.timers : t[1] = "Bootstrap"

\* An outcome carries one deadline, and the shell fires only what it was told.
\* Yet whatever waits for a peer has a timer the shell will fire: the
\* bootstrap, the lease and each of its sessions, the entry of an ended one too,
\* so that it goes in the end.
DeadlineArmed ==
    /\ sup.phase \in {"BootstrapM1Pending", "BootstrapM2", "BootstrapAckPending"} =>
           \E t \in timerTasks : t[1] = "Bootstrap"
    /\ sup.phase = "Eligible" => sup.tickTimer \in timerTasks
    /\ \A s \in DOMAIN sup.children :
           timerTasks \cap {sup.children[s].phaseTimer, sup.children[s].frameTimer} # {}

\* No wait without its timer, no timer without its wait.
TimersKept == TypeOK /\ TimersOwned /\ DeadlineArmed

\* The shell reads, writes and calls the runtime exactly when the supervisor
\* expects it: no event of a live stream is refused, in whatever order the
\* reports arrive.
LiveStreamsFit == ~fault.live

\* The shell's books agree with the supervisor's: a stream has a write pending
\* while the supervisor waits for one, a runtime only while its session lives,
\* and a connection the host holds open is the lease's, a living session's, the
\* one that waits, or one the actor has yet to hear of.
BooksAgree ==
    Running =>
        /\ pendingWrites =
               {s \in DOMAIN sup.children : sup.children[s].phase \in
                    {"M1Pending", "FinishedPending", "ResponsePending", "TerminalPending"}}
               \cup (IF sup.write \/ sup.phase \in {"BootstrapM1Pending", "BootstrapAckPending"}
                     THEN {sup.stream} ELSE {})
        /\ runtimes \subseteq LiveSessions
        /\ \A s \in DOMAIN sup.children : sup.children[s].phase = "AwaitRuntime" =>
               s \in runtimes /\ (s \in handling \/ job # <<>>)
        /\ \A s \in open : \/ s \in {bootstrapStream, pendingSession} \cup LiveSessions
                          \/ Event("accepted", s, FALSE, FALSE) \in events

\* Shell and supervisor agree on every stream that lives.
ShellInStep == LiveStreamsFit /\ BooksAgree

\* Once a Broker has connected, the Target does not outlive it: the bootstrap
\* ends or the lease does, however long heartbeats keep coming.
LeaseEnds == (sup.phase \notin {"AwaitBootstrap", "Terminal"}) ~> (status = "stopped")

\* "Session A close/idle/auth failure affects only A" (transport/contracts/v1/
\* README.md:149).  The code does not keep this: an event of a session that has
\* just ended is refused, and the shell ends the lease for it.
SessionFailureIsLocal == fault.stream \notin admitted
=============================================================================
