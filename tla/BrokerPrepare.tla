---------------------------- MODULE BrokerPrepare ----------------------------
(***************************************************************************)
(* SessionBroker::prepare (host-runtime/src/broker.rs) for one platform    *)
(* selection: how a lease is reserved, launched by a worker thread, handed *)
(* over through an OwnedOp, committed, discarded, rejected or reclaimed,   *)
(* how a Ready lease is reused, and how the terminal path and shutdown end *)
(* it.  Selections do not interact: every table is searched by selection.  *)
(*                                                                         *)
(* Each request handler prepares once; the slot it pushes on Core.leases   *)
(* carries its name, for slots are never used twice.  The terminal path of *)
(* a slot is the one LeaseLedger describes, reduced to its stages; session *)
(* operations on a Ready lease are left to LeaseLedger and BrokerSessions. *)
(***************************************************************************)
EXTENDS Naturals, FiniteSets

CONSTANTS
    Preparers,  \* the handlers of Prepare requests
    Digests,    \* artifact digests, the part of PrepareKey beyond the selection
    NoDigest    \* no tombstone

ASSUME NoDigestAssumption == NoDigest \notin Digests

VARIABLES
    slot,       \* the Lease each handler pushed on Core.leases
    failed,     \* Core.failed of the selection: the digest, or NoDigest
    job,        \* the handler's launch worker, its OwnedOp and its platform process
    call,       \* the handler itself
    down        \* shutdown

vars == <<slot, failed, job, call, down>>

Live == {"Preparing", "Ready", "Stale", "Closing"}

Slots == [
    lease   : Live \union {"unused", "None"},
    ref     : {"none", "Pending", "Minted", "Stale"},   \* the initial reference
    guard   : BOOLEAN,      \* prepare's LeaseOperation is in the ledger
    receipt : BOOLEAN,      \* Lease.cleanup is Some
    dirty   : BOOLEAN,      \* Lease.terminal_cleanup_failed
    stage   : {"open", "draining", "reaping", "reaped", "done"},
    verdict : {"none", "ok", "failed"}]                 \* OperationState.completed

Jobs == [
    step     : {"none", "launching", "bootstrapping", "dropping", "publishing",
                "reclaiming", "releasing", "settling", "done"},
    op       : {"none", "PRODUCING", "READY", "TAKEN", "ABANDONED"},
    outcome  : {"none", "prepared", "error"},
    platform : {"none", "launching", "running", "cleaned", "leaked"},
    cleanups : {0, 1}]

Calls == [
    digest : Digests,
    late   : BOOLEAN,       \* the request's deadline has passed
    step   : {"idle", "reserved", "waiting", "checking", "proving", "committing",
              "discarding", "marking", "withdrawing", "dropping", "expired", "rejecting",
              "probing", "minting", "sealing", "following", "done"},
    reused : Preparers,
    answer : {"none", "ready", "error"}]

Shutdowns == [
    step   : {"serving", "sweeping", "following", "awaiting", "done"},
    todo   : SUBSET Preparers,      \* indices not swept yet
    swept  : SUBSET Preparers,
    at     : Preparers,
    owner  : BOOLEAN,               \* shutdown is the terminal owner of `at`
    failed : BOOLEAN]               \* first_failure is Some

TypeOK ==
    /\ slot \in [Preparers -> Slots]
    /\ failed \in Digests \union {NoDigest}
    /\ job \in [Preparers -> Jobs]
    /\ call \in [Preparers -> Calls]
    /\ down \in Shutdowns

Init ==
    /\ slot = [p \in Preparers |->
                 [lease |-> "unused", ref |-> "none", guard |-> FALSE, receipt |-> FALSE,
                  dirty |-> FALSE, stage |-> "open", verdict |-> "none"]]
    /\ failed = NoDigest
    /\ job = [p \in Preparers |->
                [step |-> "none", op |-> "none", outcome |-> "none", platform |-> "none",
                 cleanups |-> 0]]
    /\ \E d \in [Preparers -> Digests] :
          call = [p \in Preparers |->
                    [digest |-> d[p], late |-> FALSE, step |-> "idle", reused |-> p,
                     answer |-> "none"]]
    /\ \E p \in Preparers :
          down = [step |-> "serving", todo |-> {}, swept |-> {}, at |-> p, owner |-> FALSE,
                  failed |-> FALSE]

IsLive(p) == slot[p].lease \in Live

Goto(p, step) == call' = [call EXCEPT ![p].step = step]
Answer(p, what) == call' = [call EXCEPT ![p].step = "done", ![p].answer = what]

\* A platform process is cleaned up, with either result.
CleanUp(p, step) ==
    \E end \in {"cleaned", "leaked"} :
        job' = [job EXCEPT ![p].platform = end, ![p].cleanups = @ + 1, ![p].step = step]

(***************************************************************************)
(* Mutated steps, used only to show that the properties can fail.          *)
(***************************************************************************)
\* reject_with_cleanup at the wait timeout empties the slot at once.
ExpireEmpties(p) ==
    /\ call[p].step = "expired"
    /\ slot' = [slot EXCEPT ![p].lease = IF IsLive(p) /\ @ # "Closing" THEN "None" ELSE @]
    /\ Answer(p, "error")
    /\ UNCHANGED <<failed, job, down>>

\* commit drops the launched target when the slot was sealed meanwhile.
CommitDrops(p) ==
    /\ call[p].step = "committing"
    /\ IF slot[p].lease = "Preparing" /\ slot[p].ref = "Pending"
       THEN slot' = [slot EXCEPT ![p].lease = "Ready", ![p].ref = "Minted",
                                 ![p].receipt = TRUE, ![p].guard = FALSE]
       ELSE slot' = [slot EXCEPT ![p].guard = FALSE]
    /\ Answer(p, IF slot[p].lease = "Preparing" THEN "ready" ELSE "error")
    /\ UNCHANGED <<failed, job, down>>

\* commit stores the receipt in the lease before it looks at its state.
CommitSharesReceipt(p) ==
    /\ call[p].step = "committing"
    /\ \/ /\ slot[p].lease = "Preparing" /\ slot[p].ref = "Pending"
          /\ slot' = [slot EXCEPT ![p].lease = "Ready", ![p].ref = "Minted",
                                  ![p].receipt = TRUE, ![p].guard = FALSE]
          /\ Answer(p, "ready")
       \/ /\ ~(slot[p].lease = "Preparing" /\ slot[p].ref = "Pending")
          /\ slot' = [slot EXCEPT ![p].receipt = IsLive(p)]
          /\ Goto(p, "discarding")
    /\ UNCHANGED <<failed, job, down>>

\* reject_with_cleanup writes Stale over Closing.
WithdrawErases(p) ==
    /\ slot' = [slot EXCEPT ![p].lease = IF IsLive(p) THEN "Stale" ELSE @,
                            ![p].ref = IF IsLive(p) THEN "none" ELSE @]
    /\ failed' = IF job[p].platform = "leaked" THEN call[p].digest ELSE failed

\* reject_with_cleanup: a sealed slot stays Closing, an empty one empty.
Withdraw(p) ==
    /\ slot' = [slot EXCEPT ![p].lease = IF @ \in {"Preparing", "Ready"} THEN "Stale" ELSE @,
                            ![p].ref = IF IsLive(p) THEN "none" ELSE @]
    /\ failed' = IF job[p].platform = "leaked" THEN call[p].digest ELSE failed

(***************************************************************************)
(* prepare, under Core's mutex: refuse, reuse or reserve                   *)
(***************************************************************************)
Occupants == {q \in Preparers : IsLive(q)}
Conflict(p) == \E q \in Occupants : call[q].digest # call[p].digest

Admitted(p) == ~Conflict(p) /\ failed = NoDigest /\ down.step = "serving"

Refuse(p) ==
    /\ call[p].step = "idle"
    /\ ~Admitted(p) \/ \E q \in Occupants : slot[q].lease # "Ready"
    /\ Answer(p, "error")
    /\ UNCHANGED <<slot, failed, job, down>>

\* PrepareRoute::Launch: a Preparing lease with a Pending reference whose
\* ledger the attempt has entered.
Reserve(p) ==
    /\ call[p].step = "idle"
    /\ Admitted(p)
    /\ Occupants = {}
    /\ slot' = [slot EXCEPT ![p].lease = "Preparing", ![p].ref = "Pending", ![p].guard = TRUE]
    /\ Goto(p, "reserved")
    /\ UNCHANGED <<failed, job, down>>

\* PrepareRoute::Reuse(q)
Reuse(p, q) ==
    /\ call[p].step = "idle"
    /\ Admitted(p)
    /\ slot[q].lease = "Ready"
    /\ call' = [call EXCEPT ![p].step = "probing", ![p].reused = q]
    /\ UNCHANGED <<slot, failed, job, down>>

\* The Ready lease has a terminal reason (TTL, heartbeats): it is marked
\* Closing under the decision lock and terminalized after it.
ReuseExpired(p, q) ==
    /\ call[p].step = "idle"
    /\ Admitted(p)
    /\ slot[q].lease = "Ready"
    /\ slot' = [slot EXCEPT ![q].lease = "Closing", ![q].ref = "Stale"]
    /\ call' = [call EXCEPT ![p].step = "sealing", ![p].reused = q]
    /\ UNCHANGED <<failed, job, down>>

(***************************************************************************)
(* prepare, reusing: the authenticated heartbeat, then mint                *)
(***************************************************************************)
\* A reply, no reply in time or a lease that is gone, or a terminal error.
Probe(p) ==
    /\ call[p].step = "probing"
    /\ \/ Goto(p, "minting")
       \/ Answer(p, "error")
       \/ Goto(p, "sealing")
    /\ UNCHANGED <<slot, failed, job, down>>

Mint(p) ==
    /\ call[p].step = "minting"
    /\ \/ /\ call[p].late \/ slot[call[p].reused].lease # "Ready"
          /\ Answer(p, "error")
       \/ /\ ~call[p].late /\ slot[call[p].reused].lease = "Ready"
          /\ Answer(p, "ready") \/ Goto(p, "sealing")
    /\ UNCHANGED <<slot, failed, job, down>>

(***************************************************************************)
(* prepare, launching                                                      *)
(***************************************************************************)
\* begin_launch, the descriptor, the OwnedOp and the worker thread.  The exit
\* before begin_launch when TargetSelection::new finds an empty field cannot
\* be taken: decode_prepare (control.rs:1357-1378) has refused such a body.
Launch(p) ==
    /\ call[p].step = "reserved"
    /\ job' = [job EXCEPT ![p].step = "launching", ![p].op = "PRODUCING",
                          ![p].platform = "launching"]
    /\ Goto(p, "waiting")
    /\ UNCHANGED <<slot, failed, down>>

\* The descriptor cannot be encoded: abort the pending launch, then reject.
AbortLaunch(p) ==
    /\ call[p].step = "reserved"
    /\ CleanUp(p, "none")
    /\ Goto(p, "withdrawing")
    /\ UNCHANGED <<slot, failed, down>>

\* OwnedOp::wait_until delivers what was published ...
Deliver(p) ==
    /\ call[p].step = "waiting"
    /\ job[p].op = "READY"
    /\ job' = [job EXCEPT ![p].op = "TAKEN"]
    /\ Goto(p, IF job[p].outcome = "prepared" THEN "checking" ELSE "rejecting")
    /\ UNCHANGED <<slot, failed, down>>

\* ... or abandons the operation at the deadline.
Expire(p) ==
    /\ call[p].step = "waiting"
    /\ call[p].late
    /\ job[p].op = "PRODUCING"
    /\ job' = [job EXCEPT ![p].op = "ABANDONED"]
    /\ Goto(p, "expired")
    /\ UNCHANGED <<slot, failed, down>>

\* reject(Timeout): the late result is still to come, so no tombstone.
ExpireReject(p) ==
    /\ call[p].step = "expired"
    /\ slot' = [slot EXCEPT ![p].lease = IF @ \in {"Preparing", "Ready"} THEN "Stale" ELSE @,
                            ![p].ref = IF IsLive(p) THEN "none" ELSE @]
    /\ Answer(p, "error")
    /\ UNCHANGED <<failed, job, down>>

\* reject_transport of what the worker published
RejectError(p) ==
    /\ call[p].step = "rejecting"
    /\ Withdraw(p)
    /\ Answer(p, "error")
    /\ UNCHANGED <<job, down>>

(***************************************************************************)
(* commit and discard_prepared                                             *)
(***************************************************************************)
\* The first deadline check and the binding of the acknowledgement.
CommitCheck(p) ==
    /\ call[p].step = "checking"
    /\ \/ Goto(p, "discarding")         \* late, or another target answered
       \/ ~call[p].late /\ Goto(p, "proving")
    /\ UNCHANGED <<slot, failed, job, down>>

\* The initial heartbeat, and the deadline again.
CommitProof(p) ==
    /\ call[p].step = "proving"
    /\ \/ Goto(p, "discarding")
       \/ ~call[p].late /\ Goto(p, "committing")
    /\ UNCHANGED <<slot, failed, job, down>>

CommitReady(p) ==
    /\ call[p].step = "committing"
    /\ \/ /\ slot[p].lease = "Preparing" /\ slot[p].ref = "Pending"
          /\ slot' = [slot EXCEPT ![p].lease = "Ready", ![p].ref = "Minted",
                                  ![p].receipt = TRUE, ![p].guard = FALSE]
          /\ Answer(p, "ready")
       \/ /\ ~(slot[p].lease = "Preparing" /\ slot[p].ref = "Pending")
          /\ Goto(p, "discarding")
          /\ UNCHANGED slot
    /\ UNCHANGED <<failed, job, down>>

DiscardCleanup(p) ==
    /\ call[p].step = "discarding"
    /\ CleanUp(p, job[p].step)
    /\ Goto(p, "marking")
    /\ UNCHANGED <<slot, failed, down>>

DiscardMark(p) ==
    /\ call[p].step = "marking"
    /\ slot' = [slot EXCEPT ![p].dirty = @ \/ (job[p].platform = "leaked" /\ IsLive(p))]
    /\ Goto(p, "withdrawing")
    /\ UNCHANGED <<failed, job, down>>

\* The tombstone before the guard (also the end of an aborted launch).
DiscardReject(p) ==
    /\ call[p].step = "withdrawing"
    /\ Withdraw(p)
    /\ Goto(p, "dropping")
    /\ UNCHANGED <<job, down>>

DropOperation(p) ==
    /\ call[p].step = "dropping"
    /\ slot' = [slot EXCEPT ![p].guard = FALSE]
    /\ Answer(p, "error")
    /\ UNCHANGED <<failed, job, down>>

(***************************************************************************)
(* The worker thread and the reclaim closure of its OwnedOp                *)
(***************************************************************************)
\* A failed launch has cleaned up after itself, or says that it could not.
WorkerLaunch(p) ==
    /\ job[p].step = "launching"
    /\ \/ job' = [job EXCEPT ![p].platform = "running", ![p].step = "bootstrapping"]
       \/ \E end \in {"cleaned", "leaked"} :
             job' = [job EXCEPT ![p].platform = end, ![p].cleanups = @ + 1,
                                ![p].outcome = "error", ![p].step = "dropping"]
    /\ UNCHANGED <<slot, failed, call, down>>

WorkerBootstrap(p) ==
    /\ job[p].step = "bootstrapping"
    /\ \/ job' = [job EXCEPT ![p].outcome = "prepared", ![p].step = "publishing"]
       \/ \E end \in {"cleaned", "leaked"} :
             job' = [job EXCEPT ![p].platform = end, ![p].cleanups = @ + 1,
                                ![p].outcome = "error", ![p].step = "dropping"]
    /\ UNCHANGED <<slot, failed, call, down>>

\* The closure that owned the guard is dropped before the error is published.
WorkerDropGuard(p) ==
    /\ job[p].step = "dropping"
    /\ slot' = [slot EXCEPT ![p].guard = FALSE]
    /\ job' = [job EXCEPT ![p].step = "publishing"]
    /\ UNCHANGED <<failed, call, down>>

Publish(p) ==
    /\ job[p].step = "publishing"
    /\ \/ /\ job[p].op = "PRODUCING"
          /\ job' = [job EXCEPT ![p].op = "READY", ![p].step = "done"]
       \/ /\ job[p].op = "ABANDONED"
          /\ job' = [job EXCEPT ![p].step = IF job[p].outcome = "prepared"
                                            THEN "reclaiming" ELSE "settling"]
    /\ UNCHANGED <<slot, failed, call, down>>

ReclaimCleanup(p) ==
    /\ job[p].step = "reclaiming"
    /\ CleanUp(p, "releasing")
    /\ UNCHANGED <<slot, failed, call, down>>

\* `prepared` goes out of scope, and its guard with it.
ReclaimRelease(p) ==
    /\ job[p].step = "releasing"
    /\ slot' = [slot EXCEPT ![p].guard = FALSE]
    /\ job' = [job EXCEPT ![p].step = "settling"]
    /\ UNCHANGED <<failed, call, down>>

ReclaimSettle(p) ==
    /\ job[p].step = "settling"
    /\ slot' = [slot EXCEPT
                  ![p].lease = IF @ = "Stale" THEN "None" ELSE @,
                  ![p].ref = IF IsLive(p) /\ slot[p].lease # "Stale" THEN "Stale" ELSE @]
    /\ failed' = IF job[p].platform = "leaked" THEN call[p].digest ELSE failed
    /\ job' = [job EXCEPT ![p].step = "done"]
    /\ UNCHANGED <<call, down>>

(***************************************************************************)
(* The terminal path of a slot: terminalize_lease, reap_terminal_lease     *)
(***************************************************************************)
Sealed(q) == [slot EXCEPT ![q].lease = "Closing", ![q].ref = "Stale", ![q].stage = "draining"]

\* close_lease, an expired TTL or a lost heartbeat: Ready leases only.
CloseReady(q) ==
    /\ slot[q].lease = "Ready"
    /\ slot' = Sealed(q)
    /\ UNCHANGED <<failed, job, call, down>>

\* A prepare that found its reused lease terminal.
SealReused(p) ==
    /\ call[p].step = "sealing"
    /\ LET q == call[p].reused IN
       \/ /\ IsLive(q) /\ slot[q].stage = "open"
          /\ slot' = Sealed(q)
          /\ Goto(p, "following")
       \/ /\ IsLive(q) /\ slot[q].stage # "open"
          /\ Goto(p, "following")
          /\ UNCHANGED slot
       \/ /\ ~IsLive(q)
          /\ Answer(p, "error")
          /\ UNCHANGED slot
    /\ UNCHANGED <<failed, job, down>>

\* The close is over, or the bounded wait for it is.
FollowReused(p) ==
    /\ call[p].step = "following"
    /\ Answer(p, "error")
    /\ UNCHANGED <<slot, failed, job, down>>

Drained(q) ==
    /\ slot[q].stage = "draining"
    /\ ~slot[q].guard
    /\ slot' = [slot EXCEPT ![q].stage = "reaping"]
    /\ UNCHANGED <<failed, job, call, down>>

\* Takes the receipt and runs it; without one there is nothing to clean.
ReapCleanup(q) ==
    /\ slot[q].stage = "reaping"
    /\ slot[q].lease = "Closing"
    /\ LET bad == slot[q].dirty \/ failed = call[q].digest IN
       \/ /\ slot[q].receipt /\ ~slot[q].dirty
          /\ \E end \in {"cleaned", "leaked"} :
                /\ job' = [job EXCEPT ![q].platform = end, ![q].cleanups = @ + 1]
                /\ slot' = [slot EXCEPT ![q].receipt = FALSE, ![q].stage = "reaped",
                                        ![q].verdict = IF bad \/ end = "leaked"
                                                       THEN "failed" ELSE "ok"]
       \/ /\ ~slot[q].receipt \/ slot[q].dirty
          /\ slot' = [slot EXCEPT ![q].receipt = FALSE, ![q].stage = "reaped",
                                  ![q].verdict = IF bad THEN "failed" ELSE "ok"]
          /\ UNCHANGED job
    /\ UNCHANGED <<failed, call, down>>

\* The slot is emptied and finish_close announces the verdict.
ReapPublish(q) ==
    /\ slot[q].stage = "reaped"
    /\ slot' = [slot EXCEPT ![q].lease = "None", ![q].stage = "done"]
    /\ failed' = IF slot[q].verdict = "failed" THEN call[q].digest ELSE failed
    /\ UNCHANGED <<job, call, down>>

(***************************************************************************)
(* shutdown                                                                *)
(***************************************************************************)
\* The admission gate and the snapshot share Core's mutex.
ShutdownBegin ==
    /\ down.step = "serving"
    /\ down' = [down EXCEPT !.step = "sweeping", !.todo = Occupants, !.swept = Occupants]
    /\ UNCHANGED <<slot, failed, job, call>>

\* terminalize_lease of the next index; Stale when the slot is gone.
ShutdownSeal(q) ==
    /\ down.step = "sweeping"
    /\ q \in down.todo
    /\ \/ /\ ~IsLive(q)
          /\ down' = [down EXCEPT !.todo = @ \ {q}]
          /\ UNCHANGED slot
       \/ /\ IsLive(q) /\ slot[q].stage = "open"
          /\ down' = [down EXCEPT !.todo = @ \ {q}, !.at = q, !.owner = TRUE,
                                  !.step = "following"]
          /\ slot' = Sealed(q)
       \/ /\ IsLive(q) /\ slot[q].stage # "open"
          /\ down' = [down EXCEPT !.todo = @ \ {q}, !.at = q, !.owner = FALSE,
                                  !.step = "following"]
          /\ UNCHANGED slot
    /\ UNCHANGED <<failed, job, call>>

ShutdownClosed ==
    /\ down.step = "following"
    /\ slot[down.at].stage = "done"
    /\ down' = [down EXCEPT !.step = "sweeping",
                            !.failed = @ \/ slot[down.at].verdict = "failed"]
    /\ UNCHANGED <<slot, failed, job, call>>

\* The drain it owns, or the owner it follows, is overdue: CleanupFailed.
ShutdownOverdue ==
    /\ down.step = "following"
    /\ IF down.owner
       THEN /\ slot[down.at].stage = "draining" /\ slot[down.at].guard
            /\ failed' = call[down.at].digest
       ELSE /\ slot[down.at].stage # "done"
            /\ UNCHANGED failed
    /\ down' = [down EXCEPT !.step = "awaiting", !.failed = TRUE]
    /\ UNCHANGED <<slot, job, call>>

\* operations.wait_for_close()
ShutdownAwait ==
    /\ down.step = "awaiting"
    /\ slot[down.at].stage = "done"
    /\ down' = [down EXCEPT !.step = "sweeping"]
    /\ UNCHANGED <<slot, failed, job, call>>

ShutdownReturn ==
    /\ down.step = "sweeping"
    /\ down.todo = {}
    /\ down' = [down EXCEPT !.step = "done"]
    /\ UNCHANGED <<slot, failed, job, call>>

(***************************************************************************)
(* The clock, and prune in every handle and maintain                       *)
(***************************************************************************)
DeadlinePasses(p) ==
    /\ ~call[p].late
    /\ call[p].step \notin {"idle", "done"}
    /\ call' = [call EXCEPT ![p].late = TRUE]
    /\ UNCHANGED <<slot, failed, job, down>>

\* A Pending reference expires with its request.
Prune(p) ==
    /\ call[p].late
    /\ slot[p].ref = "Pending"
    /\ slot' = [slot EXCEPT ![p].ref = "none"]
    /\ UNCHANGED <<failed, job, call, down>>

-----------------------------------------------------------------------------
Handler(p) ==
    \/ Probe(p) \/ Mint(p) \/ SealReused(p) \/ FollowReused(p)
    \/ Launch(p) \/ AbortLaunch(p) \/ Deliver(p) \/ Expire(p) \/ ExpireReject(p)
    \/ RejectError(p) \/ CommitCheck(p) \/ CommitProof(p) \/ CommitReady(p)
    \/ DiscardCleanup(p) \/ DiscardMark(p) \/ DiscardReject(p) \/ DropOperation(p)

Worker(p) ==
    \/ WorkerLaunch(p) \/ WorkerBootstrap(p) \/ WorkerDropGuard(p) \/ Publish(p)
    \/ ReclaimCleanup(p) \/ ReclaimRelease(p) \/ ReclaimSettle(p)

Terminal(q) == Drained(q) \/ ReapCleanup(q) \/ ReapPublish(q)

Shutdown == (\E q \in Preparers : ShutdownSeal(q)) \/ ShutdownClosed \/ ShutdownAwait
            \/ ShutdownReturn

Request(p) ==
    \/ Refuse(p) \/ Reserve(p)
    \/ \E q \in Preparers : Reuse(p, q) \/ ReuseExpired(p, q)

\* The process may stay idle with every request answered.
Quiet ==
    /\ \A p \in Preparers : call[p].step = "done" /\ job[p].step \in {"none", "done"}
    /\ down.step = "done"
    /\ UNCHANGED vars

Next ==
    \/ \E p \in Preparers : Request(p) \/ Handler(p) \/ Worker(p) \/ Terminal(p)
                            \/ CloseReady(p) \/ DeadlinePasses(p) \/ Prune(p)
    \/ ShutdownBegin \/ Shutdown \/ ShutdownOverdue
    \/ Quiet

Spec == Init /\ [][Next]_vars

\* Handlers, workers, the terminal path and shutdown are threads that run;
\* the adapters' launch and cleanup return; time passes.  Nobody has to
\* close a lease, expire a reference, or shut down.
Fairness ==
    /\ \A p \in Preparers :
          /\ WF_vars(Handler(p)) /\ WF_vars(Worker(p)) /\ WF_vars(Terminal(p))
          /\ WF_vars(DeadlinePasses(p))
    /\ WF_vars(Shutdown)

FairSpec == Spec /\ Fairness

-----------------------------------------------------------------------------
(***************************************************************************)
(* Properties                                                              *)
(***************************************************************************)
OnDevice(p) == job[p].platform \in {"launching", "running"}

\* No thread will act on the attempt any more.
Settled(p) ==
    /\ call[p].step = "done"
    /\ job[p].step \in {"none", "done"}
    /\ slot[p].stage \in {"open", "done"}
    /\ \A q \in Preparers : ~(call[q].step = "sealing" /\ call[q].reused = p)

\* "It must never create a second launch attempt" (SelectionKey): however
\* timeouts, late results and closes interleave, the selection never has two
\* attempts on the device.
SingleLaunch == \A p, q \in Preparers : OnDevice(p) /\ OnDevice(q) => p = q

\* A target that runs when all threads of its attempt are through belongs to
\* a Ready lease that holds its receipt: no timeout, late result, refused
\* commit or shutdown orphans a process.
NoOrphan ==
    \A p \in Preparers :
        Settled(p) /\ OnDevice(p) => slot[p].lease = "Ready" /\ slot[p].receipt

\* A platform cleanup that failed leaves a tombstone that refuses the
\* selection, whichever of the five parties ran it.
LeakRefused ==
    \A p \in Preparers : Settled(p) /\ job[p].platform = "leaked" => failed # NoDigest

\* The receipt of one launch is consumed at most once, although worker,
\* handler, reclaim closure and terminal path can each be its owner.
CleanedOnce == [][\A p \in Preparers :
    job[p].platform \in {"cleaned", "leaked"} => job'[p].platform = job[p].platform
                                                 /\ job'[p].cleanups = job[p].cleanups]_vars

\* A Ready lease has its target running and its receipt in place, its
\* prepare attempt has left the ledger, and nobody has begun to close it.
ReadyIsWhole ==
    \A p \in Preparers : slot[p].lease = "Ready" =>
        /\ job[p].platform = "running" /\ slot[p].receipt
        /\ ~slot[p].guard /\ slot[p].stage = "open"

\* When shutdown returns, nothing the Broker started is on the device, in
\* flight launches and abandoned workers included.
ShutdownLeavesNothing == down.step = "done" => \A p \in Preparers : ~OnDevice(p)

\* The selection's one attempt, and what a lease that is Ready can rely on.
LaunchesInOrder == TypeOK /\ SingleLaunch /\ ReadyIsWhole

\* Whatever a launch left behind is owned, refused or gone.
NothingForgotten == NoOrphan /\ LeakRefused /\ ShutdownLeavesNothing

\* Every prepare is answered, and a shutdown that began returns.
EveryCallReturns ==
    /\ \A p \in Preparers : (call[p].step # "idle") ~> (call[p].step = "done")
    /\ (down.step = "sweeping") ~> (down.step = "done")

\* "terminal reaping observes that sticky result rather than success"
\* (broker.rs:1134): a shutdown that swept a lease whose cleanup failed says
\* so.  The code does not keep this.
ShutdownReportsLeak ==
    down.step = "done" /\ ~down.failed => \A p \in down.swept : job[p].platform # "leaked"
=============================================================================
