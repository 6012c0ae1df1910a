---------------------------- MODULE LeaseLedger ----------------------------
(***************************************************************************)
(* The terminal path of one Ready lease of the Session Broker              *)
(* (host-runtime/src/broker.rs): the operation ledger every request that   *)
(* can block on raw I/O enters, terminalize_lease with its unique owner    *)
(* and its followers, the detached reaper of an overdue drain,             *)
(* reap_terminal_lease, and shutdown.                                      *)
(*                                                                         *)
(* An action is the code under one acquisition of Core's or the ledger's   *)
(* mutex.  A bounded wait may time out at any moment while what it waits   *)
(* for has not happened; the length of the bound is abstracted away.       *)
(***************************************************************************)
EXTENDS FiniteSets

CONSTANTS
    Threads,    \* request handlers and the maintenance thread
    Supervisor, \* the thread that calls shutdown
    Reaper      \* the detached thread terminalize_lease may spawn

ASSUME DistinctActors ==
    /\ Supervisor \notin Threads
    /\ Reaper \notin Threads
    /\ Supervisor # Reaper

Actors == Threads \union {Supervisor, Reaper}

VARIABLES
    accepting,  \* OperationState.accepting
    active,     \* the threads holding a LeaseOperation guard
    cancelled,  \* the threads whose operation has been cancelled
    completed,  \* OperationState.completed
    slot,       \* the lease's entry in Core.leases: "Ready", "Closing", "None"
    receipt,    \* the CleanupReceipt: "held", "taken", "cleaned", "broken"
    failed,     \* a CleanupFailed tombstone for the selection in Core.failed
    tainted,    \* terminal_already_failed, as the reaping actor read it
    pc,         \* where each actor is
    result      \* what terminalize_lease returned to it

vars == <<accepting, active, cancelled, completed, slot, receipt, failed, tainted,
          pc, result>>

\* The steps of an operation, of the terminal owner and of the other callers.
Operating == {"io", "leaving", "leavingToClose"}
Owning    == {"cancelling", "draining", "overdue", "reaping", "cleaning",
              "publishing", "finishing"}
Steps     == Operating \union Owning \union
             {"idle", "capturing", "closing", "following", "awaiting", "returned",
              "unspawned"}

TypeOK ==
    /\ accepting \in BOOLEAN
    /\ active \in SUBSET Threads
    /\ cancelled \in SUBSET Threads
    /\ completed \in {"none", "ok", "failed"}
    /\ slot \in {"Ready", "Closing", "None"}
    /\ receipt \in {"held", "taken", "cleaned", "broken"}
    /\ failed \in BOOLEAN
    /\ tainted \in BOOLEAN
    /\ pc \in [Actors -> Steps]
    /\ result \in [Actors -> {"none", "ok", "failed", "stale"}]

\* A committed lease: prepare's own operation has left the ledger.
Init ==
    /\ accepting = TRUE
    /\ active = {}
    /\ cancelled = {}
    /\ completed = "none"
    /\ slot = "Ready"
    /\ receipt = "held"
    /\ failed = FALSE
    /\ tainted = FALSE
    /\ pc = [x \in Actors |-> IF x = Reaper THEN "unspawned" ELSE "idle"]
    /\ result = [x \in Actors |-> "none"]

Goto(x, step) == pc' = [pc EXCEPT ![x] = step]

\* terminalize_lease returns r to x.  shutdown then waits out a failure.
Return(x, r) ==
    /\ Goto(x, IF x = Supervisor /\ r = "failed" THEN "awaiting" ELSE "returned")
    /\ result' = [result EXCEPT ![x] = r]

(***************************************************************************)
(* Mutated steps, used only to show that the properties can fail.          *)
(***************************************************************************)
\* begin_close forgets to refuse later operations.
SealOpen(x) ==
    /\ pc[x] \in {"idle", "closing"}
    /\ slot # "None"
    /\ accepting
    /\ slot' = "Closing"
    /\ Goto(x, "cancelling")
    /\ UNCHANGED <<accepting, active, cancelled, completed, receipt, failed, tainted, result>>

\* A follower reports success without waiting for the owner.
FollowOptimistic(x) ==
    /\ pc[x] = "following"
    /\ Return(x, "ok")
    /\ UNCHANGED <<accepting, active, cancelled, completed, slot, receipt, failed, tainted>>

\* The owner reaps at the drain deadline although operations are active.
DrainTimeoutReaps(x) ==
    /\ pc[x] = "draining"
    /\ active # {}
    /\ Goto(x, "reaping")
    /\ UNCHANGED <<accepting, active, cancelled, completed, slot, receipt, failed, tainted,
                   result>>

\* An operation that fails terminally calls terminalize_lease with its own
\* guard still in the ledger.
LeaveToCloseHolding(t) ==
    /\ pc[t] = "leavingToClose"
    /\ Goto(t, "closing")
    /\ UNCHANGED <<accepting, active, cancelled, completed, slot, receipt, failed, tainted,
                   result>>

(***************************************************************************)
(* An operation: open, exchange, close_session, expire_session, heartbeat. *)
(* Under Core's mutex it checks the lease and enters the ledger; it does   *)
(* its raw I/O with no lock; it takes Core's mutex again; and its guard is *)
(* dropped, before terminalize_lease when it found a terminal condition.   *)
(***************************************************************************)
Enter(t) ==
    /\ pc[t] = "idle"
    /\ slot = "Ready"
    /\ accepting
    /\ active' = active \union {t}
    /\ cancelled' = cancelled \ {t}     \* a new Cancellation per operation
    /\ Goto(t, "io")
    /\ UNCHANGED <<accepting, completed, slot, receipt, failed, tainted, result>>

\* The raw I/O ends, by itself or because it was cancelled, and the
\* operation applies its outcome to the lease it finds.
FinishIO(t) ==
    /\ pc[t] = "io"
    /\ \E next \in {"leaving", "leavingToClose"} : Goto(t, next)
    /\ UNCHANGED <<accepting, active, cancelled, completed, slot, receipt, failed, tainted,
                   result>>

\* Drop for LeaseOperation
Leave(t) ==
    /\ pc[t] = "leaving"
    /\ active' = active \ {t}
    /\ Goto(t, "idle")
    /\ UNCHANGED <<accepting, cancelled, completed, slot, receipt, failed, tainted, result>>

LeaveToClose(t) ==
    /\ pc[t] = "leavingToClose"
    /\ active' = active \ {t}
    /\ Goto(t, "closing")
    /\ UNCHANGED <<accepting, cancelled, completed, slot, receipt, failed, tainted, result>>

(***************************************************************************)
(* terminalize_lease                                                       *)
(***************************************************************************)
\* The slot was already reaped: Err(Stale).
CloseReaped(x) ==
    /\ pc[x] \in {"idle", "closing"}
    /\ slot = "None"
    /\ Return(x, "stale")
    /\ UNCHANGED <<accepting, active, cancelled, completed, slot, receipt, failed, tainted>>

\* A prepare that finds the Ready lease past its life closes the slot under
\* the lock it decided with, and only then calls terminalize_lease: the slot
\* is Closing while the ledger still accepts and nobody owns the close.
CloseSlot(t) ==
    /\ pc[t] = "idle"
    /\ slot = "Ready"
    /\ slot' = "Closing"
    /\ Goto(t, "closing")
    /\ UNCHANGED <<accepting, active, cancelled, completed, receipt, failed, tainted, result>>

\* begin_close succeeds for one caller, the terminal owner.
Seal(x) ==
    /\ pc[x] \in {"idle", "closing"}
    /\ slot # "None"
    /\ accepting
    /\ accepting' = FALSE
    /\ slot' = "Closing"
    /\ Goto(x, "cancelling")
    /\ UNCHANGED <<active, cancelled, completed, receipt, failed, tainted, result>>

\* begin_close returns None to every other caller, which then follows.
Follow(x) ==
    /\ pc[x] \in {"idle", "closing"}
    /\ slot # "None"
    /\ ~accepting
    /\ Goto(x, "following")
    /\ UNCHANGED <<accepting, active, cancelled, completed, slot, receipt, failed, tainted,
                   result>>

\* The registered cancellations and the raw links of the lease.
CancelOperations(x) ==
    /\ pc[x] = "cancelling"
    /\ cancelled' = cancelled \union active
    /\ Goto(x, "draining")
    /\ UNCHANGED <<accepting, active, completed, slot, receipt, failed, tainted, result>>

\* wait_for_drain_until, and wait_for_drain in the detached reaper
Drained(x) ==
    /\ pc[x] = "draining"
    /\ active = {}
    /\ Goto(x, "reaping")
    /\ UNCHANGED <<accepting, active, cancelled, completed, slot, receipt, failed, tainted,
                   result>>

DrainTimeout(x) ==
    /\ pc[x] = "draining"
    /\ x # Reaper       \* wait_for_drain has no deadline
    /\ active # {}
    /\ Goto(x, "overdue")
    /\ UNCHANGED <<accepting, active, cancelled, completed, slot, receipt, failed, tainted,
                   result>>

\* The tombstone goes in before the reaper is spawned.
GiveUp(x) ==
    /\ pc[x] = "overdue"
    /\ failed' = TRUE
    /\ pc' = [pc EXCEPT ![x] = IF x = Supervisor THEN "awaiting" ELSE "returned",
                        ![Reaper] = "draining"]
    /\ result' = [result EXCEPT ![x] = "failed"]
    /\ UNCHANGED <<accepting, active, cancelled, completed, slot, receipt, tainted>>

(***************************************************************************)
(* reap_terminal_lease, in the owner or in the detached reaper             *)
(***************************************************************************)
ReapBegin(x) ==
    /\ pc[x] = "reaping"
    /\ slot = "Closing"
    /\ receipt' = "taken"
    /\ tainted' = failed
    /\ Goto(x, "cleaning")
    /\ UNCHANGED <<accepting, active, cancelled, completed, slot, failed, result>>

\* close_lease on the wire (its result is ignored), then the receipt.
Cleanup(x) ==
    /\ pc[x] = "cleaning"
    /\ receipt' \in {"cleaned", "broken"}
    /\ Goto(x, "publishing")
    /\ UNCHANGED <<accepting, active, cancelled, completed, slot, failed, tainted, result>>

Verdict == IF tainted \/ receipt = "broken" THEN "failed" ELSE "ok"

ReapPublish(x) ==
    /\ pc[x] = "publishing"
    /\ failed' = (failed \/ Verdict = "failed")
    /\ slot' = "None"
    /\ Goto(x, "finishing")
    /\ UNCHANGED <<accepting, active, cancelled, completed, receipt, tainted, result>>

FinishClose(x) ==
    /\ pc[x] = "finishing"
    /\ completed' = Verdict
    /\ Return(x, Verdict)
    /\ UNCHANGED <<accepting, active, cancelled, slot, receipt, failed, tainted>>

(***************************************************************************)
(* wait_for_close_until, for a caller that is not the owner                *)
(***************************************************************************)
FollowDone(x) ==
    /\ pc[x] = "following"
    /\ completed # "none"
    /\ Return(x, completed)
    /\ UNCHANGED <<accepting, active, cancelled, completed, slot, receipt, failed, tainted>>

FollowTimeout(x) ==
    /\ pc[x] = "following"
    /\ completed = "none"
    /\ Return(x, "failed")
    /\ UNCHANGED <<accepting, active, cancelled, completed, slot, receipt, failed, tainted>>

(***************************************************************************)
(* shutdown, for this lease.  A slot it finds empty was reaped by others;  *)
(* `operations` is None only then, so it needs no variable.                *)
(***************************************************************************)
ShutdownSnapshot ==
    /\ pc[Supervisor] = "idle"
    /\ IF slot = "None"
       THEN /\ Goto(Supervisor, "returned")
            /\ result' = [result EXCEPT ![Supervisor] = "stale"]
       ELSE /\ Goto(Supervisor, "capturing")
            /\ UNCHANGED result
    /\ UNCHANGED <<accepting, active, cancelled, completed, slot, receipt, failed, tainted>>

ShutdownCapture ==
    /\ pc[Supervisor] = "capturing"
    /\ Goto(Supervisor, "closing")
    /\ UNCHANGED <<accepting, active, cancelled, completed, slot, receipt, failed, tainted,
                   result>>

\* wait_for_close after a CleanupFailed
AwaitClose ==
    /\ pc[Supervisor] = "awaiting"
    /\ completed # "none"
    /\ Goto(Supervisor, "returned")
    /\ UNCHANGED <<accepting, active, cancelled, completed, slot, receipt, failed, tainted,
                   result>>

-----------------------------------------------------------------------------
Operation(t) == Enter(t) \/ FinishIO(t) \/ Leave(t) \/ LeaveToClose(t) \/ CloseSlot(t)

\* terminalize_lease may be called out of the blue by a thread; the
\* supervisor calls it after its snapshot.
Call(x) ==
    /\ x = Supervisor => pc[x] = "closing"
    /\ CloseReaped(x) \/ Seal(x) \/ Follow(x)

Progress(x) ==
    \/ CancelOperations(x) \/ Drained(x) \/ DrainTimeout(x) \/ GiveUp(x)
    \/ ReapBegin(x) \/ Cleanup(x) \/ ReapPublish(x) \/ FinishClose(x)
    \/ FollowDone(x) \/ FollowTimeout(x)

Shutdown == ShutdownSnapshot \/ ShutdownCapture \/ AwaitClose

\* Every thread has closed the lease; nothing is left to happen.
Finished ==
    /\ \A x \in Actors : pc[x] \in {"returned", "unspawned"}
    /\ UNCHANGED vars

Next ==
    \/ \E t \in Threads : Operation(t)
    \/ \E x \in Threads \union {Supervisor} : Call(x)
    \/ \E x \in Actors : Progress(x)
    \/ Shutdown
    \/ Finished

Spec == Init /\ [][Next]_vars

\* A runnable thread runs; an operation that was cancelled ends its I/O; the
\* platform cleanup returns (the adapters bound it).  Nothing is assumed of
\* an operation nobody cancelled, or of when a bounded wait times out.
Fairness ==
    /\ \A t \in Threads :
          /\ WF_vars(t \in cancelled /\ FinishIO(t))
          /\ WF_vars(Leave(t) \/ LeaveToClose(t))
          /\ WF_vars(pc[t] = "closing" /\ Call(t))
    /\ \A x \in Actors : WF_vars(Progress(x))
    /\ WF_vars(Shutdown)
    /\ WF_vars(Call(Supervisor))

FairSpec == Spec /\ Fairness

-----------------------------------------------------------------------------
(***************************************************************************)
(* Properties                                                              *)
(***************************************************************************)

\* The platform receipt is consumed only when no operation can still be
\* using the lease's links, keys or process.
ReceiptExclusive == receipt # "held" => active = {} /\ ~accepting

\* An operation inside the ledger finds its lease in its slot when it takes
\* Core's mutex again: terminal cleanup never empties a slot under it.
OperationKeepsSlot == \A t \in Threads : pc[t] \in Operating => slot # "None"

\* "It cannot manufacture a successful close" (terminalize_lease): whoever is
\* told Ok is told so because the owner's one cleanup worked and no bounded
\* drain had already reported it failed.
NoManufacturedSuccess ==
    \A x \in Actors : result[x] = "ok" =>
        receipt = "cleaned" /\ completed = "ok" /\ ~failed

\* A CleanupFailed that any owner reported is never downgraded: the detached
\* reaper completes the close as failed and the selection stays refused.
FailureIsSticky ==
    /\ completed = "failed" => failed
    /\ pc[Reaper] # "unspawned" => failed /\ completed # "ok"

\* shutdown does not return, so the process does not exit, while anybody
\* still owns an unconsumed receipt.
ShutdownOutlivesCleanup ==
    pc[Supervisor] = "returned" => receipt \in {"cleaned", "broken"} /\ active = {}

\* What terminalize_lease, reap_terminal_lease and shutdown promise together:
\* the receipt is used alone, no slot is emptied under an operation, no close
\* is called a success that is none, a failure stays one and the process does
\* not leave before the cleanup.
TerminalSafety ==
    /\ ReceiptExclusive /\ OperationKeepsSlot
    /\ NoManufacturedSuccess /\ FailureIsSticky
    /\ ShutdownOutlivesCleanup

\* Every operation the owner still waits for after its cancellations has
\* been cancelled: nothing slipped in between the seal and the cancels.
StragglersCancelled ==
    \A x \in Actors : pc[x] \in Owning \ {"cancelling"} => active \subseteq cancelled

\* A sealed lease is announced and everybody who closes it returns, however
\* the bounded waits turn out, although an operation nobody cancels may block
\* for ever.
CloseCompletes ==
    /\ (slot = "Closing") ~> (completed # "none")
    /\ \A x \in Threads \union {Supervisor} :
           (pc[x] \in Owning \union {"closing", "following", "awaiting"}) ~> (pc[x] = "returned")

(***************************************************************************)
(* The inductive invariant behind the safety properties: what every step   *)
(* of the terminal path may rely on.                                       *)
(***************************************************************************)
Consumed == {"cleaned", "broken"}

\* The ledger's guards are exactly the operations in progress, only threads
\* hold guards, and there is one terminal owner at a time.
LedgerOwners ==
    /\ active = {t \in Threads : pc[t] \in Operating}
    /\ \A x \in Actors : pc[x] \in Operating => x \in Threads
    /\ \A x, y \in Actors : pc[x] \in Owning /\ pc[y] \in Owning => x = y

\* Before the seal nothing terminal has happened, except that a prepare may
\* have closed the slot and still has to call terminalize_lease; after the
\* seal the slot says so.
SealedOnce ==
    /\ accepting => /\ slot # "None" /\ receipt = "held" /\ completed = "none"
                    /\ pc[Reaper] = "unspawned"
                    /\ \A x \in Actors : pc[x] \notin Owning
    /\ accepting /\ slot = "Closing" => \E t \in Threads : pc[t] = "closing"
    /\ ~accepting => slot # "Ready"

\* How far the owner has come, and what it has done to lease and receipt.
OwnerProgress ==
    \A x \in Actors :
        /\ pc[x] \in Owning => completed = "none"
        /\ pc[x] \in {"cancelling", "draining", "overdue", "reaping"} =>
              slot = "Closing" /\ receipt = "held"
        /\ pc[x] = "cleaning" => slot = "Closing" /\ receipt = "taken"
        /\ pc[x] = "publishing" => slot = "Closing" /\ receipt \in Consumed
        /\ pc[x] \in {"cleaning", "publishing"} => tainted = failed
        /\ pc[x] = "finishing" =>
              slot = "None" /\ receipt \in Consumed /\ failed = (Verdict = "failed")
        /\ pc[x] \in {"reaping", "cleaning", "publishing", "finishing"} => active = {}

\* What is left when the close is over.
CloseOver ==
    /\ receipt # "held" => active = {} /\ ~accepting
    /\ slot = "None" => receipt \in Consumed
    /\ completed # "none" =>
          slot = "None" /\ completed = Verdict /\ failed = (completed = "failed")
    /\ \A x \in Actors : result[x] = "ok" => completed = "ok"

\* The detached reaper exists only behind its tombstone, and shutdown has
\* returned only from a reaped slot.
Bystanders ==
    /\ pc[Reaper] \in {"unspawned", "returned"} \union (Owning \ {"cancelling", "overdue"})
    /\ pc[Reaper] # "unspawned" => failed
    /\ pc[Supervisor] = "returned" => slot = "None"

\* Ties the whole terminal path of broker.rs together: each conjunct is what
\* one party of terminalize_lease and reap_terminal_lease relies on.
IInv == TypeOK /\ LedgerOwners /\ SealedOnce /\ OwnerProgress /\ CloseOver /\ Bystanders
        /\ StragglersCancelled

(***************************************************************************)
(* The ledger implements the abstract lease.                               *)
(***************************************************************************)
Lifecycle == INSTANCE LeaseLifecycle WITH
    phase   <- IF accepting THEN "open"
               ELSE IF receipt = "held" THEN "sealed" ELSE "released",
    users   <- active,
    outcome <- completed

\* Ledger, owner, followers, reaper and shutdown implement LeaseLifecycle.
Implements == Lifecycle!Spec
=============================================================================
