--------------------------- MODULE BrokerHeartbeat ---------------------------
(***************************************************************************)
(* The encrypted heartbeat of one Ready lease: SessionBroker::heartbeat and *)
(* ReadyProbe (host-runtime/src/broker.rs), called by the maintenance      *)
(* thread when an interval is over and by every prepare that reuses the    *)
(* lease, with the request and the reply of raw_transport.rs and the       *)
(* pending-counter rule of the C1 lease connection.                        *)
(*                                                                         *)
(* The control link is a byte stream with one Target at its end, which     *)
(* answers each request it gets whole, at any later time or never.         *)
(***************************************************************************)
EXTENDS Naturals

CONSTANTS
    Preparers,      \* prepare requests that reuse the lease
    Keeper,         \* the maintenance thread
    Nobody,         \* ReadyProbe.active is false
    Interval,       \* HEARTBEAT_INTERVAL_MS
    MissLimit,      \* HEARTBEAT_MISSES
    MaxWait,        \* the longest deadline of a prepare
    MaxTime,        \* bound: the clock stops here, and no call has a later deadline
    MaxCounter      \* bound: no heartbeat beyond this counter

ASSUME HeartbeatAssumption ==
    /\ Keeper \notin Preparers /\ Nobody \notin Preparers \union {Keeper}
    /\ {Interval, MissLimit, MaxWait, MaxTime, MaxCounter} \subseteq Nat \ {0}
    /\ MaxWait <= Interval

Threads == Preparers \union {Keeper}

VARIABLES
    now,
    lease,      \* the heartbeat part of the Lease
    probe,      \* who holds ReadyProbe
    pending,    \* the lease connection's pending_heartbeat, 0 for None
    poisoned,   \* RawFrameReader.terminal is a Timeout
    wire,       \* the control link and the Target's end of it
    thread      \* the callers of heartbeat

vars == <<now, lease, probe, pending, poisoned, wire, thread>>

Time == 0..MaxTime
Counters == Nat

Leases == [
    state   : {"Ready", "Closing", "None"},
    control : BOOLEAN,      \* lease_crypto and control_reader are Some
    counter : Counters,     \* heartbeat_counter
    misses  : 0..MissLimit, \* heartbeat_misses
    attempt : Time,         \* last_heartbeat_attempt
    success : Time,         \* last_heartbeat_success
    lost    : BOOLEAN]      \* the fourth miss was reported as BrokerLost

Wires == [
    state   : {"quiet", "torn", "asked", "answered"},
    counter : Counters,     \* of the request or reply under way
    seen    : Counters]     \* the last counter the Target accepted

Calls == [
    step     : {"idle", "queueing", "taking", "writing", "reading", "answered", "missed",
                "broken", "sealing"},
    deadline : Time,
    counter  : Counters,
    result   : {"none", "alive", "late", "stale", "terminal"}]

TypeOK ==
    /\ now \in Time
    /\ lease \in Leases
    /\ probe \in Threads \union {Nobody}
    /\ pending \in Counters
    /\ poisoned \in BOOLEAN
    /\ wire \in Wires
    /\ thread \in [Threads -> Calls]

\* commit has exchanged heartbeat 1 and left the lease Ready.
Init ==
    /\ now = 0
    /\ lease = [state |-> "Ready", control |-> TRUE, counter |-> 2, misses |-> 0,
                attempt |-> 0, success |-> 0, lost |-> FALSE]
    /\ probe = Nobody
    /\ pending = 0
    /\ poisoned = FALSE
    /\ wire = [state |-> "quiet", counter |-> 1, seen |-> 1]
    /\ thread = [t \in Threads |->
                   [step |-> "idle", deadline |-> 0, counter |-> 0, result |-> "none"]]

Goto(t, step) == thread' = [thread EXCEPT ![t].step = step]

\* heartbeat returns: its probe guard is dropped.
Return(t, result) ==
    /\ thread' = [thread EXCEPT ![t] = [step |-> "idle", deadline |-> 0, counter |-> 0,
                                        result |-> result]]
    /\ probe' = IF probe = t THEN Nobody ELSE probe

\* The ledger's guards: the callers between taking the control state and
\* settling the outcome.
InLedger(t) == thread[t].step \in {"writing", "reading", "answered", "missed", "broken"}

(***************************************************************************)
(* Mutated steps, used only to show that the properties can fail.          *)
(***************************************************************************)
\* Every attempt writes a request, whatever is still pending.
AttemptAlwaysAsks(misses) == "writing"

\* The read for a pending reply has no deadline.
ReadWithoutDeadline(t) ==
    /\ thread[t].step = "reading"
    /\ poisoned
    /\ Goto(t, "missed")
    /\ UNCHANGED <<now, lease, probe, pending, poisoned, wire>>

-----------------------------------------------------------------------------
(***************************************************************************)
(* Callers                                                                 *)
(***************************************************************************)
Call(t, deadline) ==
    /\ thread[t].step = "idle"
    /\ lease.state = "Ready"
    /\ deadline <= MaxTime /\ lease.counter <= MaxCounter
    /\ thread' = [thread EXCEPT ![t] = [step |-> "queueing", deadline |-> deadline,
                                        counter |-> 0, result |-> "none"]]
    /\ UNCHANGED <<now, lease, probe, pending, poisoned, wire>>

\* maintain: the interval since the last attempt is over
KeeperCalls == now >= lease.attempt + Interval /\ Call(Keeper, now + Interval)

\* prepare with PrepareRoute::Reuse, within its own deadline
PrepareCalls(t) == \E wait \in 1..MaxWait : Call(t, now + wait)

(***************************************************************************)
(* ReadyProbe::enter_until                                                 *)
(***************************************************************************)
EnterProbe(t) ==
    /\ thread[t].step = "queueing"
    /\ probe = Nobody
    /\ probe' = t
    /\ Goto(t, "taking")
    /\ UNCHANGED <<now, lease, pending, poisoned, wire>>

QueueTimeout(t) ==
    /\ thread[t].step = "queueing"
    /\ probe # Nobody
    /\ now >= thread[t].deadline
    /\ Return(t, "late")
    /\ UNCHANGED <<now, lease, pending, poisoned, wire>>

(***************************************************************************)
(* heartbeat: take the control state, exchange, settle                     *)
(***************************************************************************)
\* heartbeat_attempt: with a reply pending, only read.
Attempt(misses) == IF misses = 0 THEN "writing" ELSE "reading"

TakeControl(t) ==
    /\ thread[t].step = "taking"
    /\ \/ /\ lease.state = "Ready" /\ lease.control
          /\ lease' = [lease EXCEPT !.control = FALSE]
          /\ thread' = [thread EXCEPT ![t].step = Attempt(lease.misses),
                                      ![t].counter = lease.counter]
          /\ UNCHANGED probe
       \/ /\ ~(lease.state = "Ready" /\ lease.control)
          /\ Return(t, "stale")
          /\ UNCHANGED lease
    /\ UNCHANGED <<now, pending, poisoned, wire>>

\* write_heartbeat_request refuses a second pending counter, or one that is
\* not beyond the last answered (the Target's last, while none is pending).
Refused(t) == pending # 0 \/ thread[t].counter <= wire.seen

\* write_all: the whole request, or a part of it until the deadline; or an error
WriteRequest(t) ==
    /\ thread[t].step = "writing"
    /\ \/ /\ ~Refused(t)
          /\ pending' = thread[t].counter
          /\ wire' = [wire EXCEPT !.state = "asked", !.counter = thread[t].counter]
          /\ Goto(t, "reading")
       \/ /\ ~Refused(t) /\ now >= thread[t].deadline
          /\ pending' = thread[t].counter
          /\ wire' = [wire EXCEPT !.state = "torn"]
          /\ Goto(t, "missed")
       \/ /\ pending' = IF Refused(t) THEN pending ELSE thread[t].counter
          /\ wire' = [wire EXCEPT !.state = "torn"]
          /\ Goto(t, "broken")
    /\ UNCHANGED <<now, lease, probe, poisoned>>

\* The Target answers the request, or closes on a counter it does not expect.
TargetAnswers ==
    /\ wire.state = "asked"
    /\ wire' = IF wire.counter = wire.seen + 1
               THEN [wire EXCEPT !.state = "answered", !.seen = wire.counter]
               ELSE [wire EXCEPT !.state = "torn"]
    /\ UNCHANGED <<now, lease, probe, pending, poisoned, thread>>

\* heartbeat_reply, and received == counter
ReadReply(t) ==
    /\ thread[t].step = "reading"
    /\ ~poisoned
    /\ now < thread[t].deadline
    /\ wire.state = "answered"
    /\ wire' = [wire EXCEPT !.state = "quiet"]
    /\ pending' = IF wire.counter = pending THEN 0 ELSE pending
    /\ Goto(t, IF wire.counter = pending /\ wire.counter = thread[t].counter
               THEN "answered" ELSE "broken")
    /\ UNCHANGED <<now, lease, probe, poisoned>>

\* The deadline; or the reader gave up on half a frame, now or earlier.
ReadTimeout(t) ==
    /\ thread[t].step = "reading"
    /\ \/ now >= thread[t].deadline /\ UNCHANGED poisoned
       \/ poisoned /\ UNCHANGED poisoned
       \/ wire.state = "answered" /\ ~poisoned /\ poisoned' = TRUE
    /\ Goto(t, "missed")
    /\ UNCHANGED <<now, lease, probe, pending, wire>>

\* EOF, cancellation, a malformed or unauthentic frame
ReadError(t) ==
    /\ thread[t].step = "reading"
    /\ Goto(t, "broken")
    /\ UNCHANGED <<now, lease, probe, pending, poisoned, wire>>

\* The reply is counted, unless the lease is no longer Ready or has outlived
\* its TTLs meanwhile.
SettleAnswered(t) ==
    /\ thread[t].step = "answered"
    /\ \/ /\ lease.state # "Ready"
          /\ Return(t, "stale")
          /\ UNCHANGED lease
       \/ /\ lease.state = "Ready"
          /\ lease' = [lease EXCEPT !.control = TRUE, !.misses = 0, !.attempt = now,
                                    !.success = now, !.counter = thread[t].counter + 1]
          /\ Return(t, "alive")
       \/ /\ lease.state = "Ready"      \* lease_terminal_reason
          /\ lease' = [lease EXCEPT !.control = TRUE]
          /\ Goto(t, "sealing")
          /\ UNCHANGED probe
    /\ UNCHANGED <<now, pending, poisoned, wire>>

SettleMissed(t) ==
    /\ thread[t].step = "missed"
    /\ \/ /\ lease.state # "Ready"
          /\ Return(t, "stale")
          /\ UNCHANGED lease
       \/ /\ lease.state = "Ready"
          /\ lease' = [lease EXCEPT !.control = TRUE, !.misses = @ + 1,
                         !.attempt = IF thread[t].deadline < Interval
                                     THEN 0 ELSE thread[t].deadline - Interval,
                         !.lost = lease.misses + 1 >= MissLimit]
          /\ IF lease.misses + 1 >= MissLimit
             THEN Goto(t, "sealing") /\ UNCHANGED probe
             ELSE Return(t, "late")
    /\ UNCHANGED <<now, pending, poisoned, wire>>

SettleBroken(t) ==
    /\ thread[t].step = "broken"
    /\ lease' = [lease EXCEPT !.control = @ \/ lease.state = "Ready"]
    /\ Goto(t, "sealing")
    /\ UNCHANGED <<now, probe, pending, poisoned, wire>>

\* terminalize_lease, out of the ledger but with the probe in hand
Seal(t) ==
    /\ thread[t].step = "sealing"
    /\ lease' = [lease EXCEPT !.state = IF @ = "Ready" THEN "Closing" ELSE @]
    /\ Return(t, "terminal")
    /\ UNCHANGED <<now, pending, poisoned, wire>>

\* Somebody else closes the lease.
CloseLease ==
    /\ lease.state = "Ready"
    /\ lease' = [lease EXCEPT !.state = "Closing"]
    /\ UNCHANGED <<now, probe, pending, poisoned, wire, thread>>

\* reap_terminal_lease takes what control state there is.
Reap ==
    /\ lease.state = "Closing"
    /\ \A t \in Threads : ~InLedger(t)
    /\ lease' = [lease EXCEPT !.state = "None", !.control = FALSE]
    /\ UNCHANGED <<now, probe, pending, poisoned, wire, thread>>

Tick ==
    /\ now < MaxTime
    /\ now' = now + 1
    /\ UNCHANGED <<lease, probe, pending, poisoned, wire, thread>>

-----------------------------------------------------------------------------
\* What happens by itself, at the deadline at the latest.
Progress(t) ==
    \/ EnterProbe(t) \/ QueueTimeout(t) \/ TakeControl(t) \/ WriteRequest(t) \/ ReadTimeout(t)
    \/ SettleAnswered(t) \/ SettleMissed(t) \/ SettleBroken(t) \/ Seal(t)

Heartbeat(t) == Progress(t) \/ ReadReply(t) \/ ReadError(t)

Next ==
    \/ KeeperCalls
    \/ \E t \in Preparers : PrepareCalls(t)
    \/ \E t \in Threads : Heartbeat(t)
    \/ TargetAnswers \/ CloseLease \/ Reap \/ Tick

Spec == Init /\ [][Next]_vars

\* Threads run, I/O ends at its deadline and time passes.  Neither the Target
\* nor a closer owes a step.
Fairness == (\A t \in Threads : WF_vars(Progress(t))) /\ WF_vars(Tick)

FairSpec == Spec /\ Fairness

-----------------------------------------------------------------------------
(***************************************************************************)
(* Properties                                                              *)
(***************************************************************************)
\* The record state of the control link is in the lease or in one caller's
\* hands, and a Ready lease never loses it, whatever mixture of probes,
\* timeouts, late replies and closes it has been through.
ControlInOneHand ==
    /\ \A t, u \in Threads : InLedger(t) /\ InLedger(u) => t = u
    /\ \A t \in Threads : InLedger(t) => ~lease.control
    /\ lease.state = "Ready" => lease.control \/ \E t \in Threads : InLedger(t)

\* "writing a second request would violate the lease record sequence": a
\* request is written only on a quiet link with nothing pending, and the
\* counter it carries is the one the Target expects next; a reply, however
\* many intervals late, answers the counter its reader waits for.
SequenceKept ==
    \A t \in Threads :
        /\ thread[t].step = "writing" =>
               pending = 0 /\ wire.state = "quiet" /\ thread[t].counter = wire.seen + 1
        /\ thread[t].step = "reading" /\ wire.state = "answered" =>
               wire.counter = pending /\ wire.counter = thread[t].counter

\* Broker and Target stay in step on the one control link.
LinkInStep == TypeOK /\ ControlInOneHand /\ SequenceKept

\* Every call returns, although callers queue for the probe, the probe is
\* held during a close, and the Target may never answer.
CallsReturn == \A t \in Threads : (thread[t].step # "idle") ~> (thread[t].step = "idle")

\* "Missing-heartbeat terminal threshold | 4 intervals / 120,000 ms"
\* (transport/contracts/v1/README.md:104): a lease is lost only after that
\* many intervals without a reply.  The code does not keep this: a prepare's
\* probe counts as an interval however short its deadline.
LostAfterIntervals == lease.lost => now >= lease.success + MissLimit * Interval
=============================================================================
