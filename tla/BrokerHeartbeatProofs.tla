----------------------- MODULE BrokerHeartbeatProofs -----------------------
(***************************************************************************)
(* Proofs about the heartbeat of a Ready lease.  Callers do their I/O with *)
(* only the probe in hand; the invariant says that its holder is the one   *)
(* thread past the queue, where the control link stands for each step of   *)
(* that thread, and where it stands between two of them.                   *)
(***************************************************************************)
EXTENDS BrokerHeartbeat, TLAPS

\* Nothing is under way, and c is the counter the Target expects.
QuietAt(c) == pending = 0 /\ wire.state = "quiet" /\ c = wire.seen + 1

\* The request c, or its reply, is under way, or was torn.
WaitingAt(c) ==
    /\ pending = c
    /\ wire.state \in {"asked", "answered", "torn"}
    /\ wire.state = "asked" => wire.counter = c /\ c = wire.seen + 1
    /\ wire.state = "answered" => wire.counter = c /\ wire.seen = c

\* Past the queue.
Inside(t) == thread[t].step \notin {"idle", "queueing"}

ProbeHeld == \A t \in Threads : Inside(t) <=> probe = t

\* Where the link stands while t is past the queue.
CallInStep(t) ==
    /\ InLedger(t) => ~lease.control /\ thread[t].counter = lease.counter /\ lease.misses < MissLimit
    /\ thread[t].step = "writing" => QuietAt(thread[t].counter)
    /\ thread[t].step \in {"reading", "missed"} => WaitingAt(thread[t].counter)
    /\ thread[t].step = "answered" => QuietAt(thread[t].counter + 1)

\* Where it stands between two calls: a miss leaves its request pending.
LeaseInStep ==
    lease.state = "Ready" =>
        /\ lease.control \/ \E t \in Threads : InLedger(t)
        /\ lease.control /\ (\A t \in Threads : thread[t].step # "sealing") =>
               /\ lease.misses < MissLimit
               /\ IF lease.misses = 0 THEN QuietAt(lease.counter) ELSE WaitingAt(lease.counter)

HeartbeatInv ==
    /\ TypeOK /\ ProbeHeld /\ LeaseInStep
    /\ \A t \in Threads : CallInStep(t)

-----------------------------------------------------------------------------
(***************************************************************************)
(* What the steps have in common                                           *)
(***************************************************************************)
Steps == {"idle", "queueing", "taking", "writing", "reading", "answered", "missed", "broken", "sealing"}
Results == {"none", "alive", "late", "stale", "terminal"}

\* Only thread t moved.
OthersWait(t) ==
    /\ thread' \in [Threads -> Calls]
    /\ \A u \in Threads : u # t => thread'[u] = thread[u]

LEMMA Constants ==
    /\ Interval \in Nat /\ MissLimit \in Nat /\ MissLimit > 0 /\ MaxTime \in Nat
    /\ Nobody \notin Threads /\ Keeper \in Threads
    /\ Time \subseteq Nat /\ 0 \in Time
  BY HeartbeatAssumption DEF Threads, Time

LEMMA GotoShape ==
    ASSUME TypeOK, NEW t \in Threads, NEW step \in Steps, Goto(t, step)
    PROVE  OthersWait(t) /\ thread'[t].step = step /\ thread'[t].counter = thread[t].counter
  <1>1. thread[t] \in Calls /\ thread \in [Threads -> Calls] BY DEF TypeOK
  <1>2. [thread[t] EXCEPT !.step = step] \in Calls BY <1>1 DEF Calls, Steps
  <1>3. thread' = [thread EXCEPT ![t] = [thread[t] EXCEPT !.step = step]] BY DEF Goto
  <1> QED BY <1>1, <1>2, <1>3 DEF OthersWait, Calls

LEMMA ReturnShape ==
    ASSUME TypeOK, NEW t \in Threads, NEW result \in Results, Return(t, result)
    PROVE  /\ OthersWait(t) /\ thread'[t].step = "idle"
           /\ probe' = IF probe = t THEN Nobody ELSE probe
  <1>1. thread \in [Threads -> Calls] BY DEF TypeOK
  <1>2. [step |-> "idle", deadline |-> 0, counter |-> 0, result |-> result] \in Calls
    BY Constants DEF Calls, Results, Counters
  <1> QED BY <1>1, <1>2 DEF OthersWait, Return

\* The holder of the probe moves; nobody else is past the queue.
LEMMA HolderStep ==
    ASSUME HeartbeatInv, NEW t \in Threads, Inside(t), OthersWait(t),
           IF thread'[t].step = "idle" THEN probe' = Nobody ELSE Inside(t)' /\ probe' = probe,
           now' = now, lease' \in Leases, pending' \in Counters, poisoned' \in BOOLEAN, wire' \in Wires,
           CallInStep(t)', LeaseInStep'
    PROVE  HeartbeatInv'
  <1>1. probe = t /\ \A u \in Threads : u # t => ~Inside(u) BY DEF HeartbeatInv, ProbeHeld
  <1>2. \A u \in Threads : u # t => ~Inside(u)' BY <1>1 DEF Inside, OthersWait
  <1>3. probe' \in Threads \union {Nobody} BY <1>1
  <1>4. TypeOK' BY <1>3 DEF HeartbeatInv, TypeOK, OthersWait
  <1>5. ProbeHeld'
    <2>1. Inside(t)' <=> probe' = t BY <1>1, Constants DEF Inside
    <2>2. ASSUME NEW u \in Threads, u # t PROVE Inside(u)' <=> probe' = u
      BY <1>1, <1>2, <2>2, Constants
    <2> QED BY <2>1, <2>2 DEF ProbeHeld
  <1>6. \A u \in Threads : u # t => CallInStep(u)'
    BY <1>2 DEF Inside, CallInStep, InLedger
  <1> QED BY <1>4, <1>5, <1>6 DEF HeartbeatInv

\* A thread that is not past the queue comes and goes unnoticed.
LEMMA QueueStep ==
    ASSUME HeartbeatInv, NEW t \in Threads, ~Inside(t), OthersWait(t), ~Inside(t)',
           UNCHANGED <<now, lease, probe, pending, poisoned, wire>>
    PROVE  HeartbeatInv'
  <1>1. TypeOK' BY DEF HeartbeatInv, TypeOK, OthersWait
  <1>2. ProbeHeld' BY DEF HeartbeatInv, ProbeHeld, OthersWait, Inside
  <1>3. \A u \in Threads : InLedger(u)' <=> InLedger(u)
    BY DEF OthersWait, Inside, InLedger
  <1>4. \A u \in Threads : thread'[u].step = "sealing" <=> thread[u].step = "sealing"
    BY DEF OthersWait, Inside
  <1>5. LeaseInStep'
    BY <1>3, <1>4 DEF HeartbeatInv, LeaseInStep, QuietAt, WaitingAt
  <1>6. ASSUME NEW u \in Threads PROVE CallInStep(u)'
    <2>1. CASE u = t BY <2>1 DEF Inside, CallInStep, InLedger
    <2>2. CASE u # t
      BY <2>2 DEF HeartbeatInv, OthersWait, CallInStep, InLedger, QuietAt, WaitingAt
    <2> QED BY <2>1, <2>2
  <1> QED BY <1>1, <1>2, <1>5, <1>6 DEF HeartbeatInv

\* The lease is untouched while its control state is out.
LEMMA LeaseOut ==
    ASSUME NEW t \in Threads, lease' = lease, ~lease.control, InLedger(t)'
    PROVE  LeaseInStep'
  BY DEF LeaseInStep

(***************************************************************************)
(* Callers and the queue for the probe                                     *)
(***************************************************************************)
LEMMA CallKeeps ==
    ASSUME HeartbeatInv, NEW t \in Threads, NEW deadline \in Nat, Call(t, deadline)
    PROVE  HeartbeatInv'
  <1>1. thread \in [Threads -> Calls] BY DEF HeartbeatInv, TypeOK
  <1>2. [step |-> "queueing", deadline |-> deadline, counter |-> 0, result |-> "none"] \in Calls
    BY HeartbeatAssumption DEF Call, Calls, Counters, Time
  <1>3. OthersWait(t) /\ ~Inside(t)' BY <1>1, <1>2 DEF Call, OthersWait, Inside
  <1>4. ~Inside(t) /\ UNCHANGED <<now, lease, probe, pending, poisoned, wire>>
    BY DEF Call, Inside
  <1> QED BY <1>3, <1>4, QueueStep

LEMMA CallersKeep ==
    ASSUME HeartbeatInv, KeeperCalls \/ \E t \in Preparers : PrepareCalls(t)
    PROVE  HeartbeatInv'
  <1>1. now \in Nat /\ Interval \in Nat /\ MaxWait \in Nat
    BY HeartbeatAssumption DEF HeartbeatInv, TypeOK, Time
  <1>2. CASE KeeperCalls BY <1>1, <1>2, CallKeeps, Constants DEF KeeperCalls
  <1>3. ASSUME NEW t \in Preparers, PrepareCalls(t) PROVE HeartbeatInv'
    <2>1. PICK wait \in 1..MaxWait : Call(t, now + wait) BY <1>3 DEF PrepareCalls
    <2>2. now + wait \in Nat /\ t \in Threads BY <1>1 DEF Threads
    <2> QED BY <2>1, <2>2, CallKeeps
  <1> QED BY <1>2, <1>3

LEMMA EnterProbeKeeps ==
    ASSUME HeartbeatInv, NEW t \in Threads, EnterProbe(t)
    PROVE  HeartbeatInv'
  <1>1. TypeOK /\ UNCHANGED <<now, lease, pending, poisoned, wire>> /\ probe' = t
    BY DEF HeartbeatInv, EnterProbe
  <1>2. OthersWait(t) /\ thread'[t].step = "taking" BY <1>1, GotoShape DEF EnterProbe, Steps
  <1>3. \A u \in Threads : ~Inside(u) BY Constants DEF HeartbeatInv, ProbeHeld, EnterProbe
  <1>4. \A u \in Threads : u # t => ~Inside(u)' BY <1>2, <1>3 DEF OthersWait, Inside
  <1>5. TypeOK' BY <1>1, <1>2 DEF TypeOK, OthersWait
  <1>6. ProbeHeld' BY <1>1, <1>2, <1>4 DEF ProbeHeld, Inside
  <1>7. \A u \in Threads : CallInStep(u)' BY <1>2, <1>4 DEF CallInStep, Inside, InLedger
  <1>8. LeaseInStep'
    <2>1. \A u \in Threads : ~InLedger(u) /\ thread[u].step # "sealing" BY <1>3 DEF Inside, InLedger
    <2> QED BY <1>1, <2>1 DEF HeartbeatInv, LeaseInStep, QuietAt, WaitingAt
  <1> QED BY <1>5, <1>6, <1>7, <1>8 DEF HeartbeatInv

LEMMA QueueTimeoutKeeps ==
    ASSUME HeartbeatInv, NEW t \in Threads, QueueTimeout(t)
    PROVE  HeartbeatInv'
  <1>1. TypeOK /\ ~Inside(t) /\ probe # t /\ UNCHANGED <<now, lease, pending, poisoned, wire>>
    BY DEF HeartbeatInv, QueueTimeout, Inside, ProbeHeld
  <1>2. OthersWait(t) /\ thread'[t].step = "idle" /\ probe' = probe
    BY <1>1, ReturnShape DEF QueueTimeout, Results
  <1> QED BY <1>1, <1>2, QueueStep DEF Inside

(***************************************************************************)
(* The exchange                                                            *)
(***************************************************************************)
LEMMA TakeControlKeeps ==
    ASSUME HeartbeatInv, NEW t \in Threads, TakeControl(t)
    PROVE  HeartbeatInv'
  <1>0. /\ TypeOK /\ lease \in Leases /\ pending \in Counters /\ poisoned \in BOOLEAN /\ wire \in Wires
        /\ Inside(t) /\ probe = t /\ UNCHANGED <<now, pending, poisoned, wire>>
        /\ thread[t] \in Calls /\ thread \in [Threads -> Calls]
    BY DEF HeartbeatInv, TypeOK, TakeControl, Inside, ProbeHeld
  <1>1. \A u \in Threads : ~InLedger(u) /\ thread[u].step # "sealing"
    BY <1>0 DEF HeartbeatInv, ProbeHeld, TakeControl, Inside, InLedger
  <1>2. CASE Return(t, "stale") /\ UNCHANGED lease
    <2>1. OthersWait(t) /\ thread'[t].step = "idle" /\ probe' = Nobody
      BY <1>0, <1>2, ReturnShape DEF Results
    <2>2. CallInStep(t)' BY <2>1 DEF CallInStep, InLedger
    <2>3. \A u \in Threads : thread'[u].step # "sealing" BY <1>1, <2>1 DEF OthersWait
    <2>4. LeaseInStep'
      BY <1>0, <1>1, <1>2, <2>3 DEF HeartbeatInv, LeaseInStep, QuietAt, WaitingAt
    <2> QED BY <1>0, <1>2, <2>1, <2>2, <2>4, HolderStep
  <1>3. CASE /\ lease.state = "Ready" /\ lease.control /\ lease' = [lease EXCEPT !.control = FALSE]
             /\ thread' = [thread EXCEPT ![t].step = Attempt(lease.misses), ![t].counter = lease.counter]
             /\ UNCHANGED probe
    <2>1. PICK step \in {"writing", "reading"} : step = Attempt(lease.misses)
      BY DEF Attempt
    <2>2. thread' = [thread EXCEPT ![t] = [thread[t] EXCEPT !.step = step, !.counter = lease.counter]]
      BY <1>0, <1>3, <2>1
    <2>3. [thread[t] EXCEPT !.step = step, !.counter = lease.counter] \in Calls
      BY <1>0 DEF Calls, Leases
    <2>4. OthersWait(t) /\ thread'[t].step = step /\ thread'[t].counter = lease.counter
      BY <1>0, <2>2, <2>3 DEF OthersWait, Calls
    <2>5. /\ lease' \in Leases /\ ~lease'.control /\ lease'.counter = lease.counter /\ lease'.misses = lease.misses
      BY <1>0, <1>3 DEF Leases
    <2>6. lease.misses < MissLimit /\ IF lease.misses = 0 THEN QuietAt(lease.counter) ELSE WaitingAt(lease.counter)
      BY <1>1, <1>3 DEF HeartbeatInv, LeaseInStep
    <2>7. InLedger(t)' /\ Inside(t)' BY <2>4 DEF InLedger, Inside
    <2>8. CallInStep(t)'
      <3>1. CASE lease.misses = 0
        <4>1. step = "writing" BY <2>1, <3>1 DEF Attempt
        <4> QED BY <1>0, <2>4, <2>5, <2>6, <3>1, <4>1 DEF CallInStep, QuietAt
      <3>2. CASE lease.misses # 0
        <4>1. step = "reading" BY <2>1, <3>2 DEF Attempt
        <4> QED BY <1>0, <2>4, <2>5, <2>6, <3>2, <4>1 DEF CallInStep, WaitingAt
      <3> QED BY <3>1, <3>2
    <2>9. LeaseInStep' BY <2>5, <2>7 DEF LeaseInStep
    <2>10. thread'[t].step # "idle" BY <2>4
    <2> QED BY <1>0, <1>3, <2>4, <2>5, <2>7, <2>8, <2>9, <2>10, HolderStep
  <1> QED BY <1>2, <1>3 DEF TakeControl

LEMMA WriteRequestKeeps ==
    ASSUME HeartbeatInv, NEW t \in Threads, WriteRequest(t)
    PROVE  HeartbeatInv'
  <1>0. /\ TypeOK /\ lease \in Leases /\ pending \in Counters /\ poisoned \in BOOLEAN /\ wire \in Wires
        /\ Inside(t) /\ InLedger(t) /\ CallInStep(t) /\ UNCHANGED <<now, lease, probe, poisoned>>
        /\ thread[t].counter \in Counters /\ QuietAt(thread[t].counter)
    BY DEF HeartbeatInv, TypeOK, WriteRequest, Inside, InLedger, CallInStep, Calls
  <1>1. ~Refused(t) BY <1>0 DEF Refused, QuietAt, Counters, Wires
  <1>2. pending' = thread[t].counter /\ pending' \in Counters BY <1>0, <1>1 DEF WriteRequest
  <1>3. \/ wire' = [wire EXCEPT !.state = "asked", !.counter = thread[t].counter] /\ Goto(t, "reading")
        \/ wire' = [wire EXCEPT !.state = "torn"] /\ (Goto(t, "missed") \/ Goto(t, "broken"))
    BY DEF WriteRequest
  <1>4. wire' \in Wires BY <1>0, <1>3 DEF Wires
  <1>5. \/ WaitingAt(thread[t].counter)' /\ Goto(t, "reading")
        \/ WaitingAt(thread[t].counter)' /\ Goto(t, "missed")
        \/ Goto(t, "broken")
    <2>1. PICK k \in Counters : k = thread[t].counter BY <1>0
    <2>2. thread'[t].counter = k BY <1>0, <1>3, <2>1, GotoShape DEF Steps
    <2>3. CASE wire' = [wire EXCEPT !.state = "asked", !.counter = k] /\ Goto(t, "reading")
      <3>1. wire'.state = "asked" /\ wire'.counter = k /\ wire'.seen = wire.seen
        BY <1>0, <2>3 DEF Wires
      <3> QED BY <1>0, <1>2, <2>1, <2>2, <2>3, <3>1 DEF WaitingAt, QuietAt
    <2>4. CASE wire' = [wire EXCEPT !.state = "torn"] /\ Goto(t, "missed")
      <3>1. wire'.state = "torn" BY <1>0, <2>4 DEF Wires
      <3> QED BY <1>2, <2>1, <2>2, <2>4, <3>1 DEF WaitingAt
    <2> QED BY <1>3, <2>1, <2>3, <2>4
  <1>6. PICK step \in {"reading", "missed", "broken"} :
           Goto(t, step) /\ (step # "broken" => WaitingAt(thread[t].counter)')
    BY <1>5
  <1>7. OthersWait(t) /\ thread'[t].step = step /\ thread'[t].counter = thread[t].counter
    BY <1>0, <1>6, GotoShape DEF Steps
  <1>8. InLedger(t)' /\ Inside(t)' /\ thread'[t].step # "idle" BY <1>7 DEF InLedger, Inside
  <1>9. CallInStep(t)' BY <1>0, <1>6, <1>7 DEF CallInStep
  <1>10. LeaseInStep' BY <1>0, <1>8, LeaseOut DEF CallInStep
  <1> QED BY <1>0, <1>2, <1>4, <1>7, <1>8, <1>9, <1>10, HolderStep

LEMMA ReadReplyKeeps ==
    ASSUME HeartbeatInv, NEW t \in Threads, ReadReply(t)
    PROVE  HeartbeatInv'
  <1>0. /\ TypeOK /\ lease \in Leases /\ pending \in Counters /\ poisoned \in BOOLEAN /\ wire \in Wires
        /\ Inside(t) /\ InLedger(t) /\ CallInStep(t) /\ UNCHANGED <<now, lease, probe, poisoned>>
        /\ WaitingAt(thread[t].counter) /\ wire.state = "answered"
    BY DEF HeartbeatInv, TypeOK, ReadReply, Inside, InLedger, CallInStep
  <1>1. wire.counter = pending /\ wire.counter = thread[t].counter BY <1>0 DEF WaitingAt
  <1>2. Goto(t, "answered") /\ pending' = 0 /\ pending' \in Counters
    BY <1>1 DEF ReadReply, Counters
  <1>3. wire' \in Wires /\ wire'.state = "quiet" /\ wire'.seen = wire.seen
    BY <1>0 DEF ReadReply, Wires
  <1>4. OthersWait(t) /\ thread'[t].step = "answered" /\ thread'[t].counter = thread[t].counter
    BY <1>0, <1>2, GotoShape DEF Steps
  <1>5. InLedger(t)' /\ Inside(t)' /\ thread'[t].step # "idle" BY <1>4 DEF InLedger, Inside
  <1>6. QuietAt(thread[t].counter + 1)'
    BY <1>0, <1>1, <1>2, <1>3, <1>4 DEF QuietAt, WaitingAt
  <1>7. CallInStep(t)' BY <1>0, <1>4, <1>6 DEF CallInStep
  <1>8. LeaseInStep' BY <1>0, <1>5, LeaseOut DEF CallInStep
  <1> QED BY <1>0, <1>2, <1>3, <1>4, <1>5, <1>7, <1>8, HolderStep

\* A read that ends without its reply leaves the link as it was.
LEMMA NoReplyKeeps ==
    ASSUME HeartbeatInv, NEW t \in Threads, ReadTimeout(t) \/ ReadError(t)
    PROVE  HeartbeatInv'
  <1>0. /\ TypeOK /\ lease \in Leases /\ pending \in Counters /\ poisoned' \in BOOLEAN /\ wire \in Wires
        /\ Inside(t) /\ InLedger(t) /\ CallInStep(t) /\ UNCHANGED <<now, lease, probe, pending, wire>>
        /\ WaitingAt(thread[t].counter)
    BY DEF HeartbeatInv, TypeOK, ReadTimeout, ReadError, Inside, InLedger, CallInStep
  <1>1. PICK step \in {"missed", "broken"} : Goto(t, step) BY DEF ReadTimeout, ReadError
  <1>2. OthersWait(t) /\ thread'[t].step = step /\ thread'[t].counter = thread[t].counter
    BY <1>0, <1>1, GotoShape DEF Steps
  <1>3. InLedger(t)' /\ Inside(t)' /\ thread'[t].step # "idle" BY <1>2 DEF InLedger, Inside
  <1>4. WaitingAt(thread[t].counter)' BY <1>0, <1>2 DEF WaitingAt
  <1>5. CallInStep(t)' BY <1>0, <1>2, <1>4 DEF CallInStep
  <1>6. LeaseInStep' BY <1>0, <1>3, LeaseOut DEF CallInStep
  <1> QED BY <1>0, <1>2, <1>3, <1>5, <1>6, HolderStep

(***************************************************************************)
(* The outcome                                                             *)
(***************************************************************************)
\* A lease that is no longer Ready gets nothing back.
LEMMA StaleKeeps ==
    ASSUME HeartbeatInv, NEW t \in Threads, Inside(t), lease.state # "Ready", Return(t, "stale"),
           UNCHANGED <<now, lease, pending, poisoned, wire>>
    PROVE  HeartbeatInv'
  <1>0. /\ TypeOK /\ lease \in Leases /\ pending \in Counters /\ poisoned \in BOOLEAN /\ wire \in Wires /\ probe = t
    BY DEF HeartbeatInv, TypeOK, ProbeHeld
  <1>1. OthersWait(t) /\ thread'[t].step = "idle" /\ probe' = Nobody
    BY <1>0, ReturnShape DEF Results
  <1>2. CallInStep(t)' BY <1>1 DEF CallInStep, InLedger
  <1>3. LeaseInStep' BY DEF LeaseInStep
  <1> QED BY <1>0, <1>1, <1>2, <1>3, HolderStep

\* The lease gets its control state back, and its caller goes on to seal it.
LEMMA ToSealKeeps ==
    ASSUME HeartbeatInv, NEW t \in Threads, Inside(t), Goto(t, "sealing"), lease' \in Leases,
           lease'.control \/ lease.state # "Ready", lease'.state = lease.state,
           UNCHANGED <<now, probe, pending, poisoned, wire>>
    PROVE  HeartbeatInv'
  <1>0. /\ TypeOK /\ pending \in Counters /\ poisoned \in BOOLEAN /\ wire \in Wires /\ probe = t
    BY DEF HeartbeatInv, TypeOK, ProbeHeld
  <1>1. OthersWait(t) /\ thread'[t].step = "sealing" BY <1>0, GotoShape DEF Steps
  <1>2. CallInStep(t)' BY <1>1 DEF CallInStep, InLedger
  <1>3. LeaseInStep' BY <1>1 DEF LeaseInStep
  <1>4. Inside(t)' /\ thread'[t].step # "idle" BY <1>1 DEF Inside
  <1> QED BY <1>0, <1>1, <1>2, <1>3, <1>4, HolderStep

\* The lease gets its control state back, and its caller returns.
LEMMA SettledKeeps ==
    ASSUME HeartbeatInv, NEW t \in Threads, Inside(t), NEW result \in Results, Return(t, result),
           lease' \in Leases, lease'.control, lease'.misses < MissLimit,
           IF lease'.misses = 0 THEN QuietAt(lease'.counter) ELSE WaitingAt(lease'.counter),
           UNCHANGED <<now, pending, poisoned, wire>>
    PROVE  HeartbeatInv'
  <1>0. /\ TypeOK /\ pending \in Counters /\ poisoned \in BOOLEAN /\ wire \in Wires /\ probe = t
    BY DEF HeartbeatInv, TypeOK, ProbeHeld
  <1>1. OthersWait(t) /\ thread'[t].step = "idle" /\ probe' = Nobody
    BY <1>0, ReturnShape
  <1>2. CallInStep(t)' BY <1>1 DEF CallInStep, InLedger
  <1>3. LeaseInStep' BY DEF LeaseInStep, QuietAt, WaitingAt
  <1> QED BY <1>0, <1>1, <1>2, <1>3, HolderStep

LEMMA SettleAnsweredKeeps ==
    ASSUME HeartbeatInv, NEW t \in Threads, SettleAnswered(t)
    PROVE  HeartbeatInv'
  <1>0. /\ Inside(t) /\ CallInStep(t) /\ lease \in Leases /\ now \in Time /\ UNCHANGED <<now, pending, poisoned, wire>>
        /\ QuietAt(thread[t].counter + 1) /\ thread[t].counter + 1 \in Counters
    BY DEF HeartbeatInv, TypeOK, SettleAnswered, Inside, CallInStep, Calls, Counters
  <1>1. CASE lease.state # "Ready" /\ Return(t, "stale") /\ UNCHANGED lease
    BY <1>0, <1>1, StaleKeeps
  <1>2. CASE /\ lease.state = "Ready" /\ Return(t, "alive")
             /\ lease' = [lease EXCEPT !.control = TRUE, !.misses = 0, !.attempt = now,
                                       !.success = now, !.counter = thread[t].counter + 1]
    <2>0. 0 \in 0..MissLimit BY Constants
    <2>1. /\ lease' \in Leases /\ lease'.control /\ lease'.misses = 0
          /\ lease'.counter = thread[t].counter + 1
      BY <1>0, <1>2, <2>0 DEF Leases
    <2>2. lease'.misses < MissLimit BY <2>1, Constants
    <2> QED BY <1>0, <1>2, <2>1, <2>2, SettledKeeps DEF Results
  <1>3. CASE lease.state = "Ready" /\ lease' = [lease EXCEPT !.control = TRUE] /\ Goto(t, "sealing") /\ UNCHANGED probe
    <2>1. lease' \in Leases /\ lease'.control /\ lease'.state = lease.state BY <1>0, <1>3 DEF Leases
    <2> QED BY <1>0, <1>3, <2>1, ToSealKeeps
  <1> QED BY <1>1, <1>2, <1>3 DEF SettleAnswered

LEMMA SettleMissedKeeps ==
    ASSUME HeartbeatInv, NEW t \in Threads, SettleMissed(t)
    PROVE  HeartbeatInv'
  <1>0. /\ Inside(t) /\ CallInStep(t) /\ lease \in Leases /\ UNCHANGED <<now, pending, poisoned, wire>>
        /\ WaitingAt(thread[t].counter) /\ thread[t].deadline \in Time
        /\ thread[t].counter = lease.counter /\ lease.misses < MissLimit /\ lease.misses \in 0..MissLimit
    BY DEF HeartbeatInv, TypeOK, SettleMissed, Inside, CallInStep, InLedger, Calls, Leases
  <1>1. CASE lease.state # "Ready" /\ Return(t, "stale") /\ UNCHANGED lease
    BY <1>0, <1>1, StaleKeeps
  <1>2. CASE /\ lease.state = "Ready"
             /\ lease' = [lease EXCEPT !.control = TRUE, !.misses = @ + 1,
                         !.attempt = IF thread[t].deadline < Interval
                                     THEN 0 ELSE thread[t].deadline - Interval,
                         !.lost = lease.misses + 1 >= MissLimit]
             /\ IF lease.misses + 1 >= MissLimit
                THEN Goto(t, "sealing") /\ UNCHANGED probe
                ELSE Return(t, "late")
    <2>1. PICK at \in Time : at = IF thread[t].deadline < Interval THEN 0 ELSE thread[t].deadline - Interval
      BY <1>0, Constants DEF Time
    <2>2. PICK b \in BOOLEAN : b = (lease.misses + 1 >= MissLimit)
      <3>1. (lease.misses + 1 >= MissLimit) \in BOOLEAN BY <1>0, Constants
      <3> QED BY <3>1, Zenon
    <2>3. PICK m \in 1..MissLimit : m = lease.misses + 1
      BY <1>0, Constants
    <2>4. lease' = [lease EXCEPT !.control = TRUE, !.misses = m, !.attempt = at, !.lost = b]
      BY <1>0, <1>2, <2>1, <2>2, <2>3
    <2>5. m \in 0..MissLimit BY <2>3
    <2>6. lease' \in Leases BY <1>0, <2>4, <2>5 DEF Leases
    <2>7. lease'.control /\ lease'.misses = m /\ lease'.counter = lease.counter /\ lease'.state = lease.state
      BY <1>0, <2>4 DEF Leases
    <2>8. CASE m >= MissLimit
      <3>1. Goto(t, "sealing") /\ UNCHANGED probe BY <1>2, <2>3, <2>8
      <3> QED BY <1>0, <2>6, <2>7, <3>1, ToSealKeeps
    <2>9. CASE ~(m >= MissLimit)
      <3>1. Return(t, "late") BY <1>2, <2>3, <2>9
      <3>2. m < MissLimit /\ m # 0 BY <2>3, <2>9, Constants
      <3> QED BY <1>0, <2>6, <2>7, <3>1, <3>2, SettledKeeps DEF Results
    <2> QED BY <2>8, <2>9
  <1> QED BY <1>1, <1>2 DEF SettleMissed

LEMMA SettleBrokenKeeps ==
    ASSUME HeartbeatInv, NEW t \in Threads, SettleBroken(t)
    PROVE  HeartbeatInv'
  <1>0. /\ Inside(t) /\ lease \in Leases /\ UNCHANGED <<now, probe, pending, poisoned, wire>> /\ Goto(t, "sealing")
    BY DEF HeartbeatInv, TypeOK, SettleBroken, Inside
  <1>1. PICK b \in BOOLEAN : b = (lease.control \/ lease.state = "Ready")
    BY <1>0 DEF Leases
  <1>2. lease' = [lease EXCEPT !.control = b] BY <1>0, <1>1 DEF SettleBroken
  <1>3. lease' \in Leases /\ lease'.control = b /\ lease'.state = lease.state
    BY <1>0, <1>2 DEF Leases
  <1>4. lease'.control \/ lease.state # "Ready" BY <1>1, <1>3
  <1> QED BY <1>0, <1>3, <1>4, ToSealKeeps

LEMMA SealKeeps ==
    ASSUME HeartbeatInv, NEW t \in Threads, Seal(t)
    PROVE  HeartbeatInv'
  <1>0. /\ TypeOK /\ lease \in Leases /\ pending \in Counters /\ poisoned \in BOOLEAN /\ wire \in Wires
        /\ Inside(t) /\ probe = t /\ UNCHANGED <<now, pending, poisoned, wire>>
    BY DEF HeartbeatInv, TypeOK, Seal, Inside, ProbeHeld
  <1>1. lease' \in Leases /\ lease'.state # "Ready" BY <1>0 DEF Seal, Leases
  <1>2. OthersWait(t) /\ thread'[t].step = "idle" /\ probe' = Nobody
    BY <1>0, ReturnShape DEF Seal, Results
  <1>3. CallInStep(t)' BY <1>2 DEF CallInStep, InLedger
  <1>4. LeaseInStep' BY <1>1 DEF LeaseInStep
  <1> QED BY <1>0, <1>1, <1>2, <1>3, <1>4, HolderStep

(***************************************************************************)
(* Everybody else                                                          *)
(***************************************************************************)
LEMMA TargetAnswersKeeps ==
    ASSUME HeartbeatInv, TargetAnswers
    PROVE  HeartbeatInv'
  <1>0. wire \in Wires /\ wire.state = "asked" /\ UNCHANGED <<now, lease, probe, pending, poisoned, thread>>
    BY DEF HeartbeatInv, TypeOK, TargetAnswers
  <1>1. wire' \in Wires BY <1>0 DEF TargetAnswers, Wires
  <1>2. TypeOK' BY <1>0, <1>1 DEF HeartbeatInv, TypeOK
  <1>3. ProbeHeld' BY <1>0 DEF HeartbeatInv, ProbeHeld, Inside
  <1>4. ASSUME NEW c PROVE ~QuietAt(c) BY <1>0 DEF QuietAt
  <1>5. ASSUME NEW c, WaitingAt(c) PROVE pending = c /\ wire' = [wire EXCEPT !.state = "answered", !.seen = wire.counter]
                                         /\ wire.counter = c
    BY <1>0, <1>5 DEF WaitingAt, TargetAnswers
  <1>6. ASSUME NEW c, WaitingAt(c) PROVE pending' = c /\ wire'.state = "answered" /\ wire'.counter = c /\ wire'.seen = c
    BY <1>0, <1>5, <1>6 DEF Wires
  <1>7. \A t \in Threads : CallInStep(t)'
    BY <1>0, <1>4, <1>6 DEF HeartbeatInv, CallInStep, InLedger, WaitingAt
  <1>8. LeaseInStep'
    <2>1. ASSUME WaitingAt(lease.counter) PROVE WaitingAt(lease.counter)'
      BY <1>0, <1>6, <2>1 DEF WaitingAt
    <2> QED BY <1>0, <1>4, <2>1 DEF HeartbeatInv, LeaseInStep, InLedger
  <1> QED BY <1>2, <1>3, <1>7, <1>8 DEF HeartbeatInv

\* The lease leaves Ready by another hand.
LEMMA CloseKeeps ==
    ASSUME HeartbeatInv, CloseLease \/ Reap
    PROVE  HeartbeatInv'
  <1>0. lease \in Leases /\ UNCHANGED <<now, probe, pending, poisoned, wire, thread>>
    BY DEF HeartbeatInv, TypeOK, CloseLease, Reap
  <1>1. /\ lease' \in Leases /\ lease'.state # "Ready" /\ lease'.counter = lease.counter
        /\ lease'.misses = lease.misses
    BY <1>0 DEF CloseLease, Reap, Leases
  <1>2. lease'.control => lease.control
    BY <1>0 DEF CloseLease, Reap, Leases
  <1>3. TypeOK' BY <1>0, <1>1 DEF HeartbeatInv, TypeOK
  <1>4. ProbeHeld' BY <1>0 DEF HeartbeatInv, ProbeHeld, Inside
  <1>5. \A t \in Threads : CallInStep(t)'
    BY <1>0, <1>1, <1>2 DEF HeartbeatInv, CallInStep, InLedger, QuietAt, WaitingAt
  <1>6. LeaseInStep' BY <1>1 DEF LeaseInStep
  <1> QED BY <1>3, <1>4, <1>5, <1>6 DEF HeartbeatInv

LEMMA ClockKeeps ==
    ASSUME HeartbeatInv, now' \in Time, UNCHANGED <<lease, probe, pending, poisoned, wire, thread>>
    PROVE  HeartbeatInv'
  <1>1. TypeOK' BY DEF HeartbeatInv, TypeOK
  <1>2. ProbeHeld' BY DEF HeartbeatInv, ProbeHeld, Inside
  <1>3. \A t \in Threads : CallInStep(t)'
    BY DEF HeartbeatInv, CallInStep, InLedger, QuietAt, WaitingAt
  <1>4. LeaseInStep' BY DEF HeartbeatInv, LeaseInStep, InLedger, QuietAt, WaitingAt
  <1> QED BY <1>1, <1>2, <1>3, <1>4 DEF HeartbeatInv

-----------------------------------------------------------------------------
LEMMA HeartbeatInit == Init => HeartbeatInv
  <1> SUFFICES ASSUME Init PROVE HeartbeatInv
    OBVIOUS
  <1>1. TypeOK
    <2>1. thread \in [Threads -> Calls] BY Constants DEF Init, Calls, Counters
    <2>2. lease \in Leases BY Constants DEF Init, Leases, Counters
    <2>3. wire \in Wires BY DEF Init, Wires, Counters
    <2> QED BY <2>1, <2>2, <2>3, Constants DEF Init, TypeOK, Counters
  <1>2. \A t \in Threads : thread[t].step = "idle" BY DEF Init
  <1>3. ProbeHeld BY <1>2, Constants DEF Init, ProbeHeld, Inside
  <1>4. \A t \in Threads : CallInStep(t) BY <1>2 DEF CallInStep, InLedger
  <1>5. lease.control /\ lease.misses = 0 /\ QuietAt(lease.counter) BY DEF Init, QuietAt
  <1>6. LeaseInStep BY <1>5, Constants DEF LeaseInStep
  <1> QED BY <1>1, <1>3, <1>4, <1>6 DEF HeartbeatInv

LEMMA HeartbeatNext ==
    ASSUME HeartbeatInv, [Next]_vars
    PROVE  HeartbeatInv'
  <1>1. ASSUME NEW t \in Threads, Progress(t) PROVE HeartbeatInv'
    BY <1>1, EnterProbeKeeps, QueueTimeoutKeeps, TakeControlKeeps, WriteRequestKeeps, NoReplyKeeps,
       SettleAnsweredKeeps, SettleMissedKeeps, SettleBrokenKeeps, SealKeeps DEF Progress
  <1>2. ASSUME NEW t \in Threads, Heartbeat(t) PROVE HeartbeatInv'
    BY <1>1, <1>2, ReadReplyKeeps, NoReplyKeeps DEF Heartbeat
  <1>3. CASE KeeperCalls \/ \E t \in Preparers : PrepareCalls(t) BY <1>3, CallersKeep
  <1>4. CASE TargetAnswers BY <1>4, TargetAnswersKeeps
  <1>5. CASE CloseLease \/ Reap BY <1>5, CloseKeeps
  <1>6. CASE Tick
    <2>1. now' \in Time BY <1>6, HeartbeatAssumption DEF HeartbeatInv, TypeOK, Tick, Time
    <2> QED BY <1>6, <2>1, ClockKeeps DEF Tick
  <1>7. CASE UNCHANGED vars
    <2>1. now' \in Time BY <1>7 DEF vars, HeartbeatInv, TypeOK
    <2> QED BY <1>7, <2>1, ClockKeeps DEF vars
  <1> QED BY <1>2, <1>3, <1>4, <1>5, <1>6, <1>7 DEF Next

LEMMA HeartbeatInvSound == HeartbeatInv => LinkInStep
  <1> SUFFICES ASSUME HeartbeatInv PROVE LinkInStep
    OBVIOUS
  <1>1. \A t \in Threads : InLedger(t) => probe = t
    BY DEF HeartbeatInv, ProbeHeld, Inside, InLedger
  <1>2. ControlInOneHand
    <2>1. \A t, u \in Threads : InLedger(t) /\ InLedger(u) => t = u BY <1>1
    <2>2. \A t \in Threads : InLedger(t) => ~lease.control BY DEF HeartbeatInv, CallInStep
    <2>3. lease.state = "Ready" => lease.control \/ \E t \in Threads : InLedger(t)
      BY DEF HeartbeatInv, LeaseInStep
    <2> QED BY <2>1, <2>2, <2>3 DEF ControlInOneHand
  <1>3. SequenceKept BY DEF HeartbeatInv, CallInStep, SequenceKept, QuietAt, WaitingAt
  <1> QED BY <1>2, <1>3 DEF HeartbeatInv, LinkInStep

\* Whatever mixture of probes, timeouts, late replies and closes a lease has
\* been through, its control state is in one hand and never lost while the
\* lease is Ready, a request is written only on a quiet link with the counter
\* the Target expects, and a late reply answers the counter that is awaited.
THEOREM LinkInStepHolds == Spec => []LinkInStep
  <1>1. Init => HeartbeatInv BY HeartbeatInit
  <1>2. HeartbeatInv /\ [Next]_vars => HeartbeatInv' BY HeartbeatNext
  <1> QED BY <1>1, <1>2, HeartbeatInvSound, PTL DEF Spec
=============================================================================
