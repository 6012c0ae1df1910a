---------------------------- MODULE ControlPlane ----------------------------
(* The control plane that production-composition builds around the Broker: the client's one call
   per connection, the Broker process with its accept loop, serving threads, maintenance thread and
   finalizer, and the signals and crashes it meets.  SessionBroker::handle is one step here (its
   inside is BrokerSessions, BrokerPrepare and LeaseLedger): it may refuse, it may hand an exchange
   to the Target and answer or fail.  `target` is what became of that request on the Target. *)
EXTENDS Naturals, FiniteSets

CONSTANTS Clients,                 \* one control connection each
          MaxStarts, MaxCrashes,   \* bounds on Broker processes and on crashes
          Nobody

VARIABLES proc,      \* the Broker process
          serving,   \* per client: its connection on the Broker's side
          call,      \* per client: BrokerControlClient::call
          reply,     \* per client: the result packet its serving thread wrote
          target,    \* per client: whether the Target was handed and has executed its request
          crashes

ASSUME PlaneAssumption == Nobody \notin Clients

planeVars == <<proc, serving, call, reply, target, crashes>>

ErrorKinds == {"TargetSelectionRequired", "TransportAuthenticationRequired", "SessionExpired",
               "Timeout", "InternalError"}
Success(flaw, rpc) == [ok |-> TRUE, kind |-> "", handoff |-> "", flaw |-> flaw, rpc |-> rpc]
Failure(kind, handoff) == [ok |-> FALSE, kind |-> kind, handoff |-> handoff, flaw |-> "none",
                           rpc |-> "none"]
None == Failure("", "")

\* ControlFailure::ipc: what the client makes up itself never says that anything was handed off.
Ipc(kind) == Failure(kind, "NotHandedOff")

-----------------------------------------------------------------------------
(* The Broker process (run_broker). *)

Down == [up |-> FALSE, starts |-> 0, stop |-> FALSE, loop |-> "check", held |-> Nobody,
         maint |-> "out", broker |-> "open", accept |-> "ok", finals |-> 0, exit |-> "none"]
Started(p) == [Down EXCEPT !.up = TRUE, !.starts = p.starts + 1, !.maint = "check"]

\* The process is gone: every connection it still had is reset.
Hangup == serving' = [c \in Clients |-> IF serving[c] \in {"none", "replied"} THEN serving[c] ELSE "gone"]

\* install_shutdown_signals: the handlers only set the flag; a second signal changes nothing.
Signal == /\ proc.up /\ ~proc.stop
          /\ proc' = [proc EXCEPT !.stop = TRUE]
          /\ UNCHANGED <<serving, call, reply, target, crashes>>

\* SIGKILL or a crash at any moment: nothing is left of the process.
Crash == /\ proc.up /\ crashes < MaxCrashes
         /\ crashes' = crashes + 1
         /\ proc' = [Down EXCEPT !.starts = proc.starts, !.exit = "crash"]
         /\ Hangup
         /\ UNCHANGED <<call, reply, target>>

LoopCheck == /\ proc.up /\ proc.loop = "check"
             /\ proc' = [proc EXCEPT !.loop = IF proc.stop THEN "final" ELSE "accept"]
             /\ UNCHANGED <<serving, call, reply, target, crashes>>

Accept(c) == /\ proc.up /\ proc.loop = "accept" /\ serving[c] = "queued"
             /\ proc' = [proc EXCEPT !.loop = "post", !.held = c]
             /\ serving' = [serving EXCEPT ![c] = IF proc.stop THEN "late" ELSE "held"]
             /\ UNCHANGED <<call, reply, target, crashes>>

\* Nothing to accept, or accept() failed: WouldBlock polls again, Interrupted ends the loop well
\* only when the flag is set, every other error ends it.
AcceptNothing ==
    /\ proc.up /\ proc.loop = "accept"
    /\ \/ /\ \A c \in Clients : serving[c] # "queued"
          /\ proc' = [proc EXCEPT !.loop = "check"]
       \/ /\ proc.stop
          /\ proc' = [proc EXCEPT !.loop = "final"]
       \/ proc' = [proc EXCEPT !.loop = "final", !.accept = "error"]
    /\ UNCHANGED <<serving, call, reply, target, crashes>>

PostAcceptUnchecked == FALSE
\* The flag is read again before the accepted stream gets a thread.
PostAcceptStops == proc.stop

PostCheck ==
    /\ proc.up /\ proc.loop = "post"
    /\ LET late == serving[proc.held] = "late" IN
       IF PostAcceptStops
       THEN /\ proc' = [proc EXCEPT !.loop = "final", !.held = Nobody]
            /\ serving' = [serving EXCEPT ![proc.held] = "gone"]
       ELSE /\ proc' = [proc EXCEPT !.loop = "check", !.held = Nobody]
            /\ serving' = [serving EXCEPT ![proc.held] = IF late THEN "admittedLate" ELSE "reading"]
    /\ UNCHANGED <<call, reply, target, crashes>>

\* run_maintenance_loop, one round of it: the flag, then SessionBroker::maintain.
Maintain ==
    /\ proc.up
    /\ \/ proc.maint = "check" /\ proc' = [proc EXCEPT !.maint = IF proc.stop THEN "out" ELSE "tick"]
       \/ proc.maint = "tick" /\ proc' = [proc EXCEPT !.maint = "check"]
    /\ UNCHANGED <<serving, call, reply, target, crashes>>

\* The finalizer: set the flag, join maintenance, shut the Broker down.
FinalStop == /\ proc.up /\ proc.loop = "final"
             /\ proc' = [proc EXCEPT !.stop = TRUE, !.loop = "join", !.finals = @ + 1]
             /\ UNCHANGED <<serving, call, reply, target, crashes>>

FinalJoin == /\ proc.up /\ proc.loop = "join" /\ proc.maint = "out"
             /\ proc' = [proc EXCEPT !.loop = "shutdown", !.broker = "closing"]
             /\ UNCHANGED <<serving, call, reply, target, crashes>>

\* broker.shutdown returns and main ends; serving threads are not joined.  A shutdown error wins
\* over an accept error.
FinalShutdown ==
    /\ proc.up /\ proc.loop = "shutdown"
    /\ \E clean \in BOOLEAN :
         proc' = [proc EXCEPT !.up = FALSE, !.loop = "done",
                              !.broker = IF clean THEN "closed" ELSE "unclean",
                              !.exit = IF clean THEN proc.accept ELSE "error"]
    /\ Hangup
    /\ UNCHANGED <<call, reply, target, crashes>>

-----------------------------------------------------------------------------
(* serve_connection, one thread per stream. *)

Reading(c) == proc.up /\ serving[c] \in {"reading", "admittedLate"}

\* A whole request is decoded; a request cut short, a refused packet or 30 s of silence close the
\* connection without an answer.
ServeRead(c) ==
    /\ Reading(c)
    /\ \/ call[c].whole /\ serving' = [serving EXCEPT ![c] = "handling"]
       \/ ~call[c].whole /\ serving' = [serving EXCEPT ![c] = "gone"]
    /\ UNCHANGED <<proc, call, reply, target, crashes>>

HandleEnds(c, r) == /\ reply' = [reply EXCEPT ![c] = r]
                    /\ serving' = [serving EXCEPT ![c] = "writing"]

\* SessionBroker::handle refuses or fails before anything leaves for the Target.
HandleRefuses(c) ==
    /\ proc.up /\ serving[c] = "handling" /\ ~target[c].handed
    /\ \E kind \in ErrorKinds : HandleEnds(c, Failure(kind, "NotHandedOff"))
    /\ UNCHANGED <<proc, call, target, crashes>>

\* The request is written to the Target; only an exchange's is executed there.
HandleHandsOff(c) ==
    /\ proc.up /\ serving[c] = "handling" /\ ~target[c].handed /\ proc.broker = "open"
    /\ target' = [target EXCEPT ![c].handed = TRUE]
    /\ UNCHANGED <<proc, serving, call, reply, crashes>>

\* The Target runs the mutation, whether or not anybody still waits for the answer.
TargetExecutes(c) ==
    /\ target[c].handed /\ ~target[c].executed /\ call[c].op = "invoke"
    /\ reply[c].rpc \in {"none", "unknown"}                  \* not once it has refused definitely
    /\ target' = [target EXCEPT ![c].executed = TRUE]
    /\ UNCHANGED <<proc, serving, call, reply, crashes>>

OpenFlaws == {"none", "id", "binding", "parse", "session", "version", "capability", "small"}
ReplyFlaws == {"none", "id", "binding", "size", "json", "page"}
\* What a Target may answer; "unknown" is action.outcomeUnknown, "policy" any action.* kind that
\* says nothing was run, "error" every other kind.
Rpc(op) == {"result", "error"}
             \cup (IF op = "invoke" THEN {"unknown", "policy"} ELSE {"stray"})

\* A complete answer: a mutation's result comes only after it ran, a definite error only without.
Answers(c) ==
    CASE call[c].op \in {"prepare", "release"} -> {Success(f, "none") : f \in {"none", "id", "binding"}}
      [] call[c].op = "open" -> {Success(f, "none") : f \in OpenFlaws}
      [] OTHER -> {Success(f, r) : f \in ReplyFlaws,
                     r \in {r \in Rpc(call[c].op) : call[c].op = "invoke" =>
                              IF target[c].executed THEN r \in {"result", "unknown"}
                                                    ELSE r # "result"}}

HandleAnswers(c) ==
    /\ proc.up /\ serving[c] = "handling" /\ target[c].handed
    /\ \E r \in Answers(c) : HandleEnds(c, r)
    /\ UNCHANGED <<proc, call, target, crashes>>

\* The answer never came.  raw_transport keeps HandoffPossibleOrConfirmed once the request was
\* written whole; the lease checks after the exchange answer with fail(), which does not.
HandleFails(c) ==
    /\ proc.up /\ serving[c] = "handling" /\ target[c].handed
    /\ \E kind \in ErrorKinds, handoff \in {"NotHandedOff", "HandoffPossibleOrConfirmed"} :
         HandleEnds(c, Failure(kind, handoff))
    /\ UNCHANGED <<proc, call, target, crashes>>

\* write_control_packet with what is left of the request's deadline, then the stream is dropped.
ServeWrite(c) ==
    /\ proc.up /\ serving[c] = "writing"
    /\ serving' \in {[serving EXCEPT ![c] = s] : s \in {"replied", "gone"}}
    /\ UNCHANGED <<proc, call, reply, target, crashes>>

-----------------------------------------------------------------------------
(* BrokerControlClient::call. *)

Idle == [op |-> "none", step |-> "idle", whole |-> FALSE, outcome |-> None]

\* control_deadline and the connect begin the call.
BeginCall(c, op) ==
    /\ call' = [call EXCEPT ![c] = [Idle EXCEPT !.op = op, !.step = "connect"]]
    /\ serving' = [serving EXCEPT ![c] = "none"]
    /\ reply' = [reply EXCEPT ![c] = None]
    /\ target' = [target EXCEPT ![c] = [handed |-> FALSE, executed |-> FALSE]]

CallEnds(c, r) == call' = [call EXCEPT ![c].step = "done", ![c].outcome = r]

\* CurrentUserConnector: a socket that answers, or one spawned Broker and a second of retries; an
\* executable outside an installed layout has none to spawn.
Connect(c) ==
    /\ call[c].step = "connect"
    /\ IF proc.up
       THEN /\ serving' = [serving EXCEPT ![c] = "queued"]
            /\ call' = [call EXCEPT ![c].step = "write"]
            /\ UNCHANGED proc
       ELSE /\ UNCHANGED serving
            /\ \/ CallEnds(c, Ipc("InternalError")) /\ UNCHANGED proc
               \/ /\ proc.starts < MaxStarts
                  /\ proc' = Started(proc)
                  /\ call' = [call EXCEPT ![c].step = "starting"]
    /\ UNCHANGED <<reply, target, crashes>>

ConnectAgain(c) ==
    /\ call[c].step = "starting"
    /\ \/ /\ proc.up
          /\ serving' = [serving EXCEPT ![c] = "queued"]
          /\ call' = [call EXCEPT ![c].step = "write"]
       \/ CallEnds(c, Ipc("InternalError")) /\ UNCHANGED serving
    /\ UNCHANGED <<proc, reply, target, crashes>>

\* encode_request_packet may refuse its own request; a write may time out or find the peer gone
\* with part of the packet sent.
WriteRequest(c) ==
    /\ call[c].step = "write"
    /\ \/ call' = [call EXCEPT ![c].step = "half", ![c].whole = TRUE] /\ UNCHANGED serving
       \/ /\ \E kind \in {"SessionExpired", "Timeout", "InternalError"} : CallEnds(c, Ipc(kind))
          /\ UNCHANGED serving
    /\ UNCHANGED <<proc, reply, target, crashes>>

\* shutdown(Write): it may fail, with the whole packet sent, once the peer has dropped the stream.
HalfClose(c) ==
    /\ call[c].step = "half"
    /\ \/ call' = [call EXCEPT ![c].step = "read"]
       \/ serving[c] \in {"gone", "replied"} /\ CallEnds(c, Ipc("InternalError"))
    /\ UNCHANGED <<proc, serving, reply, target, crashes>>

\* read_control_result: to the end of the stream, within the same deadline.
ReadDeadlineHits(c) == /\ call[c].step = "read"
                       /\ CallEnds(c, Ipc("Timeout"))
                       /\ UNCHANGED <<proc, serving, reply, target, crashes>>

ReadLost(c) == /\ call[c].step = "read" /\ serving[c] = "gone"
               /\ \E kind \in {"SessionExpired", "InternalError"} : CallEnds(c, Ipc(kind))
               /\ UNCHANGED <<proc, serving, reply, target, crashes>>

\* The result of another request is a binding mismatch.
ReadResult(c) ==
    /\ call[c].step = "read" /\ serving[c] = "replied"
    /\ CallEnds(c, IF reply[c].flaw = "id" THEN Ipc("SessionExpired") ELSE reply[c])
    /\ UNCHANGED <<proc, serving, reply, target, crashes>>

-----------------------------------------------------------------------------
PlaneInit == /\ proc = Down /\ crashes = 0
             /\ serving = [c \in Clients |-> "none"]
             /\ call = [c \in Clients |-> Idle]
             /\ reply = [c \in Clients |-> None]
             /\ target = [c \in Clients |-> [handed |-> FALSE, executed |-> FALSE]]

PlaneNext ==
    \/ Signal \/ Crash \/ LoopCheck \/ AcceptNothing \/ PostCheck \/ Maintain
    \/ FinalStop \/ FinalJoin \/ FinalShutdown
    \/ \E c \in Clients :
         \/ Accept(c) \/ ServeRead(c) \/ HandleRefuses(c) \/ HandleHandsOff(c) \/ TargetExecutes(c)
         \/ HandleAnswers(c) \/ HandleFails(c) \/ ServeWrite(c)
         \/ Connect(c) \/ ConnectAgain(c) \/ WriteRequest(c) \/ HalfClose(c)
         \/ ReadDeadlineHits(c) \/ ReadLost(c) \/ ReadResult(c)

-----------------------------------------------------------------------------
\* Shutdown runs in order: a connection accepted after the signal is never served, the Broker is
\* shut down only once, with the accept loop left and no maintenance round running or still to
\* come, and the process reports success only after a clean shutdown and an orderly accept loop.
ShutdownInOrder ==
    /\ \A c \in Clients : serving[c] # "admittedLate"
    /\ proc.finals <= 1
    /\ proc.broker # "open" => /\ proc.stop /\ proc.maint = "out" /\ proc.held = Nobody
                               /\ proc.loop \in {"shutdown", "done"} /\ proc.finals = 1
    /\ proc.exit = "ok" => proc.broker = "closed" /\ proc.accept = "ok"
    /\ proc.exit \in {"ok", "error"} => proc.broker \in {"closed", "unclean"}
=============================================================================
