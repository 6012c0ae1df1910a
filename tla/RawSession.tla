----------------------------- MODULE RawSession -----------------------------
(***************************************************************************)
(* The Broker's operations on raw streams: open a session, exchange one    *)
(* request, heartbeat, close, bootstrap a lease.  An operation is a fixed  *)
(* row of steps (platform call, frame read, call of the crypto core, frame *)
(* write), each under the deadline of its phase; the first one that fails  *)
(* decides the failure, and what is released then depends on the           *)
(* operation.                                                              *)
(***************************************************************************)
EXTENDS Integers, Sequences

CONSTANTS
    CommandDeadlines,           \* absolute deadlines of a command
    SessionTotalMs, SessionConnectMs, SessionHandshakeMs, SessionOpenResponseMs,
    CleanupMs,
    RequestFrames,              \* frames of a request
    ResponseFrames,             \* most frames of a response
    LastTime                    \* the clock stops here

ASSUME SessionBudgets ==
    /\ {SessionTotalMs, SessionConnectMs, SessionHandshakeMs, SessionOpenResponseMs, CleanupMs}
          \subseteq Nat \ {0}
    /\ RequestFrames \in Nat \ {0} /\ CommandDeadlines \subseteq Nat

VARIABLES
    op,         \* the operation, its place, deadlines and what it has done
    clock

rawVars == <<op, clock>>

(***************************************************************************)
(* The steps.  "budget" enters the next phase.                             *)
(***************************************************************************)
Programs ==
    [open      |-> <<"connect", "handshake", "read", "core", "write", "read", "core", "core",
                     "write", "responseBudget", "core", "frames", "response">>,
     exchange  |-> <<"core", "frames", "response">>,
     heartbeat |-> <<"core", "write", "read", "core">>,
     close     |-> <<"core", "write">>,
     bootstrap |-> <<"read", "core", "write", "read", "core">>]

Kinds == DOMAIN Programs

PhaseDeadlineValue(command, started, budget) ==
    IF command < started + budget THEN command ELSE started + budget

Fresh(kind, command, handoff) ==
    LET overall == IF kind = "open" THEN PhaseDeadlineValue(command, clock, SessionTotalMs)
                   ELSE command
    IN  [kind |-> kind, pc |-> 1, started |-> clock, command |-> command, overall |-> overall,
         deadline |-> IF kind = "open" THEN PhaseDeadlineValue(overall, clock, SessionConnectMs)
                      ELSE command,
         owned |-> kind # "open",       \* a raw stream is held
         sentFrames |-> 0, gotFrames |-> 0, asked |-> handoff,
         out |-> "running", handoff |-> "NotHandedOff",
         cancelled |-> FALSE, cleanups |-> 0, cleanupFailed |-> FALSE]

RawInit == clock = 0 /\ op = [Fresh("open", 0, "NotHandedOff") EXCEPT !.out = "none"]

\* The caller starts an operation; a close names the handoff it knows of.
Start(kind, command, handoff) ==
    /\ op.out = "none"
    /\ kind # "close" => handoff = "NotHandedOff"
    /\ op' = Fresh(kind, command, handoff)
    /\ UNCHANGED clock

Running == op.out = "running"
At(step) == Running /\ Programs[op.kind][op.pc] = step
Late == clock >= op.deadline

(***************************************************************************)
(* How an operation ends.                                                  *)
(***************************************************************************)
WithHandoff(a, b) ==
    IF "HandoffPossibleOrConfirmed" \in {a, b}
    THEN "HandoffPossibleOrConfirmed" ELSE "NotHandedOff"

\* Mutant: only what the peer says counts.
StepHandoffNone(o) == IF o.kind = "close" THEN o.asked ELSE "NotHandedOff"

\* The handoff an operation adds to a failure of its present step.
StepHandoff(o) ==
    CASE Programs[o.kind][o.pc] = "response" -> "HandoffPossibleOrConfirmed"
      [] o.kind = "close" -> o.asked
      [] OTHER -> "NotHandedOff"

\* open, close and bootstrap drop the stream; bootstrap then cleans up.
FailedOp(o, reason, peerSaid) ==
    [o EXCEPT !.out = IF o.kind = "bootstrap" THEN "cleaning" ELSE reason,
              !.handoff = WithHandoff(peerSaid, StepHandoff(o)),
              !.cleanupFailed = reason = "CleanupFailed",
              !.cancelled = o.owned /\ o.kind \in {"open", "close", "bootstrap"},
              !.command = IF o.kind = "bootstrap" THEN clock + CleanupMs ELSE @,
              !.deadline = IF o.kind = "bootstrap" THEN clock + CleanupMs ELSE @]

FailWith(reason, peerSaid) == op' = FailedOp(op, reason, peerSaid) /\ UNCHANGED clock

SucceedOp(o) ==
    [o EXCEPT !.out = "ok", !.cancelled = o.kind = "close",
              !.handoff = IF o.kind \in {"open", "exchange"} THEN "HandoffPossibleOrConfirmed"
                          ELSE @]

Advance(o) == IF o.pc = Len(Programs[o.kind]) THEN SucceedOp(o) ELSE [o EXCEPT !.pc = @ + 1]

PlatformReasons == {"Timeout", "PeerClosed", "BindingMismatch", "CleanupFailed", "InternalError"}
CoreReasons == {"AuthenticationFailed", "Malformed", "SequenceViolation", "Oversize", "RecordLimit"}

(***************************************************************************)
(* Steps.                                                                  *)
(***************************************************************************)
ConnectStep ==
    /\ At("connect")
    /\ \/ Late /\ FailWith("Timeout", "NotHandedOff")
       \/ ~Late /\ op' = Advance([op EXCEPT !.owned = TRUE]) /\ UNCHANGED clock
       \/ \E reason \in PlatformReasons : FailWith(reason, "NotHandedOff")

BudgetStep ==
    /\ Running
    /\ \E step \in {"handshake", "responseBudget"} :
        /\ At(step)
        /\ op' = Advance([op EXCEPT !.deadline = PhaseDeadlineValue(op.overall, clock,
                IF step = "handshake" THEN SessionHandshakeMs ELSE SessionOpenResponseMs)])
    /\ UNCHANGED clock

ReadStep ==
    /\ At("read")
    /\ \/ Late /\ FailWith("Timeout", "NotHandedOff")
       \/ ~Late /\ op' = Advance(op) /\ UNCHANGED clock
       \/ \E reason \in PlatformReasons \cup {"Malformed"} : FailWith(reason, "NotHandedOff")

\* The core refuses a call; a Close it kept in reserve is written on the way.
CoreStep ==
    /\ At("core")
    /\ \/ op' = Advance(op) /\ UNCHANGED clock
       \/ \E reason \in CoreReasons : FailWith(reason, "NotHandedOff")
       \/ op.kind = "heartbeat" /\ op.pc = 4 /\
            \E h \in {"NotHandedOff", "HandoffPossibleOrConfirmed"} : FailWith("PeerClosed", h)

WriteStep ==
    /\ At("write")
    /\ \/ Late /\ FailWith("Timeout", "NotHandedOff")
       \/ ~Late /\ op' = Advance(op) /\ UNCHANGED clock
       \/ \E reason \in PlatformReasons : FailWith(reason, "NotHandedOff")

\* write_frames: one frame of the request.
FrameStep ==
    /\ At("frames")
    /\ \/ Late /\ FailWith("Timeout", "NotHandedOff")
       \/ /\ ~Late
          /\ LET o == [op EXCEPT !.sentFrames = @ + 1]
             IN  op' = IF o.sentFrames = RequestFrames THEN Advance(o) ELSE o
          /\ UNCHANGED clock
       \/ \E reason \in PlatformReasons : FailWith(reason, "NotHandedOff")

\* read_response: one frame of the answer, perhaps the last, perhaps a Close.
ResponseStep ==
    /\ At("response")
    /\ \/ Late /\ FailWith("Timeout", "NotHandedOff")
       \/ /\ ~Late
          /\ \/ op.gotFrames < ResponseFrames - 1 /\ op' = [op EXCEPT !.gotFrames = @ + 1]
             \/ op' = Advance(op)
          /\ UNCHANGED clock
       \/ \E reason \in PlatformReasons \cup CoreReasons : FailWith(reason, "NotHandedOff")
       \/ \E h \in {"NotHandedOff", "HandoffPossibleOrConfirmed"} : FailWith("PeerClosed", h)

\* The rest of a failed bootstrap: the receipt gets a deadline of its own.
CleanupStep ==
    /\ op.out = "cleaning"
    /\ \E failed \in BOOLEAN :
        op' = [op EXCEPT !.out = "failed", !.cleanups = IF Late THEN @ ELSE @ + 1,
                         !.cleanupFailed = @ \/ failed \/ Late]
    /\ UNCHANGED clock

\* External: platform calls return by the deadline they are given.
RawTick ==
    /\ op.out \in {"running", "cleaning"} => clock < op.deadline
    /\ clock < LastTime /\ clock' = clock + 1 /\ UNCHANGED op

RawNext ==
    \/ \E k \in Kinds, d \in CommandDeadlines, h \in {"NotHandedOff", "HandoffPossibleOrConfirmed"} :
            Start(k, d, h)
    \/ ConnectStep \/ BudgetStep \/ ReadStep \/ CoreStep \/ WriteStep \/ FrameStep \/ ResponseStep
    \/ CleanupStep \/ RawTick

RawSpec == RawInit /\ [][RawNext]_rawVars
-----------------------------------------------------------------------------
(***************************************************************************)
(* An operation that ended tells the truth about the request: once every   *)
(* frame of it was written the answer never says "not handed off".  It     *)
(* leaves no stream it opened to its caller after a failure, and a failed  *)
(* bootstrap has given the platform resources back, or says that it could  *)
(* not, on a deadline the command's own one does not shorten.              *)
(***************************************************************************)
RawOutcomeHonest ==
    op.out \notin {"none", "running", "cleaning"} =>
        /\ op.sentFrames = RequestFrames => op.handoff = "HandoffPossibleOrConfirmed"
        /\ op.kind \in {"open", "exchange"} /\ op.out # "ok"
              /\ op.handoff = "HandoffPossibleOrConfirmed" => op.sentFrames = RequestFrames
        /\ op.kind = "open" /\ op.out # "ok" /\ op.owned => op.cancelled
        /\ op.kind = "close" => op.cancelled
        /\ op.kind = "bootstrap" =>
              /\ (op.out = "failed") = op.cancelled
              /\ op.cleanups = (IF op.out = "failed" THEN 1 ELSE 0) \/ op.cleanupFailed

(***************************************************************************)
(* A session being opened never outlasts its total budget nor the command,*)
(* and its handshake cannot borrow from the phases around it.              *)
(***************************************************************************)
OpenWithinBudget ==
    op.kind = "open" /\ Running /\ op.owned =>
        /\ clock <= op.command /\ clock <= op.started + SessionTotalMs
        /\ op.deadline <= op.overall
        /\ op.pc \in 3 .. 9 => op.deadline <= op.started + SessionConnectMs + SessionHandshakeMs

\* What a raw operation owes its caller: the truth, and in time.
RawOperationsHonest == RawOutcomeHonest /\ OpenWithinBudget
=============================================================================
