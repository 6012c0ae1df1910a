------------------------- MODULE LeaseLedgerProofs -------------------------
(***************************************************************************)
(* Proofs about the terminal path of one lease, for every set of threads.  *)
(*                                                                         *)
(* IInv is inductive: one lemma per kind of step says that the step keeps  *)
(* it.  The safety properties follow from it, and so does the refinement   *)
(* of LeaseLifecycle, whose Release step needs the ledger to be empty when *)
(* the receipt is taken.                                                   *)
(***************************************************************************)
EXTENDS LeaseLedger, TLAPS

\* The committed lease that prepare leaves behind satisfies the invariant.
LEMMA InitIInv == Init => IInv
  BY DistinctActors
  DEF Init, IInv, TypeOK, LedgerOwners, SealedOnce, OwnerProgress, CloseOver, Bystanders,
      StragglersCancelled, Actors, Steps, Operating, Owning, Consumed, Verdict

\* A step that changes nothing keeps the invariant.
LEMMA StutterIInv ==
  ASSUME IInv, UNCHANGED vars
  PROVE  IInv'
  BY DEF vars, IInv, TypeOK, LedgerOwners, SealedOnce, OwnerProgress, CloseOver, Bystanders,
         StragglersCancelled, Verdict

\* Operations enter and leave the ledger only around the terminal path.
LEMMA OperationIInv ==
  ASSUME IInv, NEW t \in Threads, Operation(t)
  PROVE  IInv'
<1> USE DistinctActors
    DEF IInv, TypeOK, LedgerOwners, SealedOnce, OwnerProgress, CloseOver, Bystanders,
        StragglersCancelled, Goto, Actors, Steps, Operating, Owning, Consumed, Verdict
<1>1. CASE Enter(t)
  \* The gate is open, so nobody is in the terminal path.
  <2>1. accepting /\ \A x \in Actors : pc[x] \notin Owning
    BY <1>1 DEF Enter
  <2>2. TypeOK' /\ LedgerOwners'
    BY <1>1 DEF Enter
  <2>3. SealedOnce' /\ OwnerProgress' /\ CloseOver' /\ Bystanders' /\ StragglersCancelled'
    BY <1>1, <2>1 DEF Enter
  <2> QED
    BY <2>2, <2>3
<1>2. CASE FinishIO(t)
  BY <1>2 DEF FinishIO
<1>3. CASE Leave(t)
  BY <1>3 DEF Leave
<1>4. CASE LeaveToClose(t)
  BY <1>4 DEF LeaveToClose
<1>5. CASE CloseSlot(t)
  \* The thread that closed the slot is the one that still has to seal.
  BY <1>5 DEF CloseSlot
<1> QED
  BY <1>1, <1>2, <1>3, <1>4, <1>5 DEF Operation

\* A call of terminalize_lease finds the slot empty, seals it, or follows.
LEMMA CallIInv ==
  ASSUME IInv, NEW x \in Threads \union {Supervisor}, Call(x)
  PROVE  IInv'
<1> USE DistinctActors
    DEF IInv, TypeOK, LedgerOwners, SealedOnce, OwnerProgress, CloseOver, Bystanders,
        StragglersCancelled, Goto, Actors, Steps, Operating, Owning, Consumed, Verdict
<1>1. CASE CloseReaped(x)
  BY <1>1 DEF CloseReaped, Return
<1>2. CASE Seal(x)
  \* Before the seal nobody owns the close: x becomes the only owner.
  <2>1. \A y \in Actors : pc'[y] \in Owning => y = x
    BY <1>2 DEF Seal
  <2>2. TypeOK' /\ LedgerOwners' /\ SealedOnce'
    BY <1>2, <2>1 DEF Seal
  <2>3. OwnerProgress' /\ CloseOver' /\ Bystanders' /\ StragglersCancelled'
    BY <1>2, <2>1 DEF Seal
  <2> QED
    BY <2>2, <2>3
<1>3. CASE Follow(x)
  BY <1>3 DEF Follow
<1> QED
  BY <1>1, <1>2, <1>3 DEF Call

\* The owner drains the ledger or hands the drain to the detached reaper.
LEMMA DrainIInv ==
  ASSUME IInv, NEW x \in Actors,
         CancelOperations(x) \/ Drained(x) \/ DrainTimeout(x) \/ GiveUp(x)
  PROVE  IInv'
<1> USE DistinctActors
    DEF IInv, TypeOK, LedgerOwners, SealedOnce, OwnerProgress, CloseOver, Bystanders,
        StragglersCancelled, Goto, Actors, Steps, Operating, Owning, Consumed, Verdict
<1>1. CASE CancelOperations(x)
  BY <1>1 DEF CancelOperations
<1>2. CASE Drained(x)
  BY <1>2 DEF Drained
<1>3. CASE DrainTimeout(x)
  BY <1>3 DEF DrainTimeout
<1>4. CASE GiveUp(x)
  \* The reaper was not the overdue owner, so ownership moves and stays unique.
  <2>1. x # Reaper /\ \A y \in Actors : pc'[y] \in Owning => y = Reaper
    BY <1>4 DEF GiveUp
  <2>2. TypeOK' /\ LedgerOwners' /\ SealedOnce'
    BY <1>4, <2>1 DEF GiveUp
  <2>3. OwnerProgress' /\ CloseOver' /\ Bystanders' /\ StragglersCancelled'
    BY <1>4, <2>1 DEF GiveUp
  <2> QED
    BY <2>2, <2>3
<1> QED
  BY <1>1, <1>2, <1>3, <1>4

\* reap_terminal_lease consumes the receipt, empties the slot and announces.
LEMMA ReapIInv ==
  ASSUME IInv, NEW x \in Actors,
         ReapBegin(x) \/ Cleanup(x) \/ ReapPublish(x) \/ FinishClose(x)
  PROVE  IInv'
<1> USE DistinctActors
    DEF IInv, TypeOK, LedgerOwners, SealedOnce, OwnerProgress, CloseOver, Bystanders,
        StragglersCancelled, Goto, Actors, Steps, Operating, Owning, Consumed, Verdict
<1>1. CASE ReapBegin(x)
  BY <1>1 DEF ReapBegin
<1>2. CASE Cleanup(x)
  BY <1>2 DEF Cleanup
<1>3. CASE ReapPublish(x)
  BY <1>3 DEF ReapPublish
<1>4. CASE FinishClose(x)
  \* The only owner leaves, so nobody owns the announced close.
  <2>1. \A y \in Actors : pc'[y] \notin Owning
    BY <1>4 DEF FinishClose, Return
  <2>2. TypeOK' /\ LedgerOwners' /\ SealedOnce' /\ OwnerProgress'
    BY <1>4, <2>1 DEF FinishClose, Return
  <2>3. CloseOver' /\ Bystanders' /\ StragglersCancelled'
    BY <1>4, <2>1 DEF FinishClose, Return
  <2> QED
    BY <2>2, <2>3
<1> QED
  BY <1>1, <1>2, <1>3, <1>4

\* Followers and shutdown only look at the ledger.
LEMMA BystanderIInv ==
  ASSUME IInv, Shutdown \/ \E x \in Actors : FollowDone(x) \/ FollowTimeout(x)
  PROVE  IInv'
<1> USE DistinctActors
    DEF IInv, TypeOK, LedgerOwners, SealedOnce, OwnerProgress, CloseOver, Bystanders,
        StragglersCancelled, Goto, Actors, Steps, Operating, Owning, Consumed, Verdict
<1>1. ASSUME NEW x \in Actors, FollowDone(x) \/ FollowTimeout(x)
      PROVE  IInv'
  BY <1>1 DEF FollowDone, FollowTimeout, Return
<1>2. CASE ShutdownSnapshot
  BY <1>2 DEF ShutdownSnapshot
<1>3. CASE ShutdownCapture
  BY <1>3 DEF ShutdownCapture
<1>4. CASE AwaitClose
  BY <1>4 DEF AwaitClose
<1> QED
  BY <1>1, <1>2, <1>3, <1>4 DEF Shutdown

\* Every step of the Broker on this lease keeps the invariant.
LEMMA NextIInv == IInv /\ [Next]_vars => IInv'
<1> SUFFICES ASSUME IInv, [Next]_vars PROVE IInv'
  OBVIOUS
<1>1. ASSUME NEW t \in Threads, Operation(t) PROVE IInv'
  BY <1>1, OperationIInv
<1>2. ASSUME NEW x \in Threads \union {Supervisor}, Call(x) PROVE IInv'
  BY <1>2, CallIInv
<1>3. ASSUME NEW x \in Actors, Progress(x) PROVE IInv'
  <2>1. CASE CancelOperations(x) \/ Drained(x) \/ DrainTimeout(x) \/ GiveUp(x)
    BY <2>1, DrainIInv
  <2>2. CASE ReapBegin(x) \/ Cleanup(x) \/ ReapPublish(x) \/ FinishClose(x)
    BY <2>2, ReapIInv
  <2>3. CASE FollowDone(x) \/ FollowTimeout(x)
    BY <2>3, BystanderIInv
  <2> QED
    BY <1>3, <2>1, <2>2, <2>3 DEF Progress
<1>4. CASE Shutdown
  BY <1>4, BystanderIInv
<1>5. CASE UNCHANGED vars
  BY <1>5, StutterIInv
<1> QED
  BY <1>1, <1>2, <1>3, <1>4, <1>5 DEF Next, Finished

\* The invariant of the whole terminal path, types included, holds in every
\* behaviour of the ledger, terminalize_lease, the reaper and shutdown.
THEOREM InvariantHolds == Spec => []IInv
  BY InitIInv, NextIInv, PTL DEF Spec

-----------------------------------------------------------------------------
\* terminalize_lease hands the platform receipt to one owner, which consumes
\* it only after the ledger has drained.
THEOREM ReceiptExclusiveHolds == Spec => []ReceiptExclusive
<1>1. IInv => ReceiptExclusive
  BY DEF IInv, CloseOver, ReceiptExclusive
<1> QED
  BY <1>1, InvariantHolds, PTL

\* An operation that takes Core's mutex again after its raw I/O finds its
\* lease still in its slot.
THEOREM OperationKeepsSlotHolds == Spec => []OperationKeepsSlot
<1>1. IInv => OperationKeepsSlot
  <2> SUFFICES ASSUME IInv, NEW t \in Threads, pc[t] \in Operating
               PROVE  slot # "None"
    BY DEF OperationKeepsSlot
  <2>1. active # {}
    BY DEF IInv, LedgerOwners
  <2> QED
    BY <2>1 DEF IInv, CloseOver, Consumed
<1> QED
  BY <1>1, InvariantHolds, PTL

\* No caller of terminalize_lease is told Ok unless the one cleanup worked
\* and nobody was told that it failed at the drain.
THEOREM NoManufacturedSuccessHolds == Spec => []NoManufacturedSuccess
<1>1. IInv => NoManufacturedSuccess
  <2> SUFFICES ASSUME IInv, NEW x \in Actors, result[x] = "ok"
               PROVE  receipt = "cleaned" /\ completed = "ok" /\ ~failed
    BY DEF NoManufacturedSuccess
  <2>1. completed = "ok" /\ Verdict = "ok" /\ slot = "None"
    BY DEF IInv, CloseOver
  <2>2. receipt \in Consumed /\ failed = (completed = "failed") /\ failed \in BOOLEAN
    BY <2>1 DEF IInv, CloseOver, TypeOK
  <2> QED
    BY <2>1, <2>2 DEF Verdict, Consumed
<1> QED
  BY <1>1, InvariantHolds, PTL

\* A cleanup failure that was reported stays one in Core.failed and in the
\* outcome the ledger announces.
THEOREM FailureIsStickyHolds == Spec => []FailureIsSticky
<1>1. IInv => FailureIsSticky
  <2> SUFFICES ASSUME IInv PROVE FailureIsSticky
    OBVIOUS
  <2>1. completed = "failed" => failed
    BY DEF IInv, CloseOver
  <2>2. pc[Reaper] # "unspawned" => failed /\ completed # "ok"
    BY DEF IInv, CloseOver, Bystanders
  <2> QED
    BY <2>1, <2>2 DEF FailureIsSticky
<1> QED
  BY <1>1, InvariantHolds, PTL

\* The process cannot exit through shutdown with an unconsumed receipt.
THEOREM ShutdownOutlivesCleanupHolds == Spec => []ShutdownOutlivesCleanup
<1>1. IInv => ShutdownOutlivesCleanup
  BY DEF IInv, CloseOver, Bystanders, Consumed, ShutdownOutlivesCleanup
<1> QED
  BY <1>1, InvariantHolds, PTL

\* The five promises of the terminal path together, as one state predicate.
THEOREM TerminalSafetyHolds == Spec => []TerminalSafety
<1>1. ReceiptExclusive /\ OperationKeepsSlot /\ NoManufacturedSuccess
        /\ FailureIsSticky /\ ShutdownOutlivesCleanup => TerminalSafety
  BY DEF TerminalSafety
<1> QED
  BY <1>1, ReceiptExclusiveHolds, OperationKeepsSlotHolds, NoManufacturedSuccessHolds,
     FailureIsStickyHolds, ShutdownOutlivesCleanupHolds, PTL

-----------------------------------------------------------------------------
\* Ledger, terminal owner, followers, detached reaper and shutdown implement
\* the abstract life of a lease: sealed once, released when nobody uses it,
\* announced once.
THEOREM LedgerImplementsLifecycle == Spec => Implements
<1> USE DEF Lifecycle!vars
<1>1. Init => Lifecycle!Init
  BY DEF Init, Lifecycle!Init
<1>2. ASSUME IInv, [Next]_vars PROVE [Lifecycle!Next]_(Lifecycle!vars)
  <2> USE <1>2
  <2>1. ASSUME NEW t \in Threads, Enter(t) PROVE Lifecycle!Join(t)
    BY <2>1 DEF Enter, Lifecycle!Join, IInv, SealedOnce
  <2>2. ASSUME NEW t \in Threads, Leave(t) \/ LeaveToClose(t) PROVE Lifecycle!Depart(t)
    BY <2>2 DEF Leave, LeaveToClose, Lifecycle!Depart
  <2>3. ASSUME NEW x \in Threads \union {Supervisor}, Seal(x) PROVE Lifecycle!Seal
    BY <2>3 DEF Seal, Lifecycle!Seal, IInv, SealedOnce
  <2>4. ASSUME NEW x \in Actors, ReapBegin(x) PROVE Lifecycle!Release
    <3>1. active = {} /\ receipt = "held" /\ ~accepting
      BY <2>4 DEF ReapBegin, IInv, TypeOK, OwnerProgress, SealedOnce, Owning
    <3> QED
      BY <2>4, <3>1 DEF ReapBegin, Lifecycle!Release
  <2>5. ASSUME NEW x \in Actors, FinishClose(x) PROVE Lifecycle!Announce
    <3>1. receipt # "held" /\ ~accepting /\ completed = "none"
      BY <2>5 DEF FinishClose, IInv, OwnerProgress, CloseOver, Consumed, Owning
    <3> QED
      BY <2>5, <3>1 DEF FinishClose, Lifecycle!Announce, Verdict
  <2>6. ASSUME NEW x \in Actors, Cleanup(x) PROVE UNCHANGED Lifecycle!vars
    BY <2>6 DEF Cleanup, IInv, OwnerProgress
  <2>7. CASE UNCHANGED <<accepting, receipt, active, completed>>
    BY <2>7
  <2>8. \/ \E t \in Threads : Enter(t) \/ Leave(t) \/ LeaveToClose(t)
        \/ \E x \in Threads \union {Supervisor} : Seal(x)
        \/ \E x \in Actors : ReapBegin(x) \/ FinishClose(x) \/ Cleanup(x)
        \/ UNCHANGED <<accepting, receipt, active, completed>>
    BY DEF Next, Operation, Call, Progress, Shutdown, Finished, vars, FinishIO, CloseSlot,
           CloseReaped, Follow, CancelOperations, Drained, DrainTimeout, GiveUp, ReapPublish, FollowDone,
           FollowTimeout, ShutdownSnapshot, ShutdownCapture, AwaitClose
  <2> QED
    BY <2>1, <2>2, <2>3, <2>4, <2>5, <2>6, <2>7, <2>8 DEF Lifecycle!Next
<1> QED
  BY <1>1, <1>2, InvariantHolds, PTL DEF Spec, Implements, Lifecycle!Spec
=============================================================================
