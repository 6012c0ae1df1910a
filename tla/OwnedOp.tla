------------------------------ MODULE OwnedOp ------------------------------
(***************************************************************************)
(* The single-result handoff of host-runtime/src/owned_op.rs.  One         *)
(* producer thread publishes one owned resource; one consumer takes it, or *)
(* gives up at its deadline, in which case the late producer runs the      *)
(* reaper.  The state word is an atomic, the cell is behind a mutex, and   *)
(* the condition variable belongs to that mutex, but publish changes the   *)
(* state word and notifies without holding it.                             *)
(*                                                                         *)
(* Each action is the code between two points at which the other thread    *)
(* can run.  Time is one bit: the consumer's deadline has passed or not.   *)
(***************************************************************************)
EXTENDS Naturals

VARIABLES
    state,      \* Shared.state, the AtomicU8
    cell,       \* Shared.cell: TRUE iff it holds Some(value)
    cellLock,   \* who holds the mutex of the cell
    cancelled,  \* Shared.cancellation
    timeUp,     \* Instant::now() >= deadline
    ppc,        \* where the producer is in publish
    cpc,        \* where the consumer is in take, abandon or wait_until
    received,   \* how many values the consumer was given
    disposed    \* how many values the reaper was given

vars == <<state, cell, cellLock, cancelled, timeUp, ppc, cpc, received, disposed>>

States == {"PRODUCING", "READY", "TAKEN", "ABANDONED", "REAPING", "REAPED",
           "CLEANUP_FAILED"}

\* A thread's own program counters.
ProducerSteps == {"working", "publishing", "notifying", "claiming", "emptying",
                  "fetching", "reaping", "announcing", "finished"}
ConsumerSteps == {"idle", "taking", "cancelling", "checking", "timing", "expiring",
                  "sleeping", "waiting", "woken", "cancelLocked", "gotValue", "gaveUp"}

TypeOK ==
    /\ state \in States
    /\ cell \in BOOLEAN
    /\ cellLock \in {"free", "consumer"}
    /\ cancelled \in BOOLEAN
    /\ timeUp \in BOOLEAN
    /\ ppc \in ProducerSteps
    /\ cpc \in ConsumerSteps
    /\ received \in {0, 1}
    /\ disposed \in {0, 1}

\* OwnedOp::new
Init ==
    /\ state = "PRODUCING"
    /\ cell = FALSE
    /\ cellLock = "free"
    /\ cancelled = FALSE
    /\ timeUp = FALSE
    /\ ppc = "working"
    /\ cpc = "idle"
    /\ received = 0
    /\ disposed = 0

(***************************************************************************)
(* Mutated steps, used only to show that the properties can fail.          *)
(***************************************************************************)

\* wait_until stores ABANDONED at the deadline instead of comparing first.
WaitExpireStores ==
    /\ cpc = "expiring"
    /\ state' = "ABANDONED"
    /\ cpc' = "cancelLocked"
    /\ UNCHANGED <<cell, cellLock, cancelled, timeUp, ppc, received, disposed>>

\* wait_until looks at the cell instead of the state word.
WaitCheckCell ==
    /\ cpc = "checking"
    /\ \/ /\ cell
          /\ cell' = FALSE
          /\ received' = received + 1
          /\ cellLock' = "free"
          /\ cpc' = "gotValue"
       \/ /\ ~cell
          /\ cpc' = "timing"
          /\ UNCHANGED <<cell, received, cellLock>>
    /\ UNCHANGED <<state, cancelled, timeUp, ppc, disposed>>

\* changed.wait(cell) in place of changed.wait_timeout(cell, remaining).
WaitNoTimeout == FALSE /\ UNCHANGED vars

(***************************************************************************)
(* OwnedOpProducer::publish                                                *)
(***************************************************************************)
\* The scoped lock that fills the cell before READY is published.
FillCell ==
    /\ ppc = "working"
    /\ cellLock = "free"
    /\ cell' = TRUE
    /\ ppc' = "publishing"
    /\ UNCHANGED <<state, cellLock, cancelled, timeUp, cpc, received, disposed>>

\* compare_exchange(PRODUCING, READY), outside the cell's mutex.
PublishReady ==
    /\ ppc = "publishing"
    /\ \/ /\ state = "PRODUCING"
          /\ state' = "READY"
          /\ ppc' = "notifying"
       \/ /\ state = "ABANDONED"
          /\ state' = state
          /\ ppc' = "claiming"
    /\ UNCHANGED <<cell, cellLock, cancelled, timeUp, cpc, received, disposed>>

\* changed.notify_all(): it reaches a consumer that is waiting now, no other.
Wake == cpc' = IF cpc = "waiting" THEN "woken" ELSE cpc

NotifyPublished ==
    /\ ppc = "notifying"
    /\ Wake
    /\ ppc' = "finished"
    /\ UNCHANGED <<state, cell, cellLock, cancelled, timeUp, received, disposed>>

\* Err(ABANDONED): the late producer owns reaping.
ClaimReaping ==
    /\ ppc = "claiming"
    /\ state' = "REAPING"
    /\ ppc' = "emptying"
    /\ UNCHANGED <<cell, cellLock, cancelled, timeUp, cpc, received, disposed>>

EmptyCell ==
    /\ ppc = "emptying"
    /\ cellLock = "free"
    /\ cell     \* .expect("late result is present")
    /\ cell' = FALSE
    /\ ppc' = "fetching"
    /\ UNCHANGED <<state, cellLock, cancelled, timeUp, cpc, received, disposed>>

\* The reaper is taken out of its own mutex: it can run once.
FetchReaper ==
    /\ ppc = "fetching"
    /\ ppc' = "reaping"
    /\ UNCHANGED <<state, cell, cellLock, cancelled, timeUp, cpc, received, disposed>>

\* It disposes of the value and says whether that worked.
RunReaper ==
    /\ ppc = "reaping"
    /\ disposed' = disposed + 1
    /\ state' \in {"REAPED", "CLEANUP_FAILED"}
    /\ ppc' = "announcing"
    /\ UNCHANGED <<cell, cellLock, cancelled, timeUp, cpc, received>>

NotifyReaped ==
    /\ ppc = "announcing"
    /\ Wake
    /\ ppc' = "finished"
    /\ UNCHANGED <<state, cell, cellLock, cancelled, timeUp, received, disposed>>

(***************************************************************************)
(* OwnedOp::take and OwnedOp::abandon, which do not hold the cell's mutex  *)
(* when they move the state word.  A take that fails changes nothing.      *)
(***************************************************************************)
Take ==
    /\ cpc = "idle"
    /\ state = "READY"
    /\ state' = "TAKEN"
    /\ cpc' = "taking"
    /\ UNCHANGED <<cell, cellLock, cancelled, timeUp, ppc, received, disposed>>

TakeCell ==
    /\ cpc = "taking"
    /\ cellLock = "free"
    /\ cell' = FALSE
    /\ received' = received + (IF cell THEN 1 ELSE 0)
    /\ cpc' = "gotValue"
    /\ UNCHANGED <<state, cellLock, cancelled, timeUp, ppc, disposed>>

Abandon ==
    /\ cpc = "idle"
    /\ state = "PRODUCING"
    /\ state' = "ABANDONED"
    /\ cpc' = "cancelling"
    /\ UNCHANGED <<cell, cellLock, cancelled, timeUp, ppc, received, disposed>>

AbandonCancel ==
    /\ cpc = "cancelling"
    /\ cancelled' = TRUE
    /\ cpc' = "gaveUp"
    /\ UNCHANGED <<state, cell, cellLock, timeUp, ppc, received, disposed>>

(***************************************************************************)
(* OwnedOp::wait_until holds the cell's mutex except while it waits.       *)
(***************************************************************************)
WaitBegin ==
    /\ cpc \in {"idle", "woken"}
    /\ cellLock = "free"
    /\ cellLock' = "consumer"
    /\ cpc' = "checking"
    /\ UNCHANGED <<state, cell, cancelled, timeUp, ppc, received, disposed>>

\* compare_exchange(READY, TAKEN), then cell.take() under the held mutex.
WaitCheck ==
    /\ cpc = "checking"
    /\ \/ /\ state = "READY"
          /\ state' = "TAKEN"
          /\ cell' = FALSE
          /\ received' = received + (IF cell THEN 1 ELSE 0)
          /\ cellLock' = "free"
          /\ cpc' = "gotValue"
       \/ /\ state # "READY"
          /\ cpc' = "timing"
          /\ UNCHANGED <<state, cell, received, cellLock>>
    /\ UNCHANGED <<cancelled, timeUp, ppc, disposed>>

\* if Instant::now() >= deadline
WaitClock ==
    /\ cpc = "timing"
    /\ cpc' = IF timeUp THEN "expiring" ELSE "sleeping"
    /\ UNCHANGED <<state, cell, cellLock, cancelled, timeUp, ppc, received, disposed>>

\* compare_exchange(PRODUCING, ABANDONED), or `continue` when it fails.
WaitExpire ==
    /\ cpc = "expiring"
    /\ \/ /\ state = "PRODUCING"
          /\ state' = "ABANDONED"
          /\ cpc' = "cancelLocked"
       \/ /\ state # "PRODUCING"
          /\ state' = state
          /\ cpc' = "checking"
    /\ UNCHANGED <<cell, cellLock, cancelled, timeUp, ppc, received, disposed>>

WaitCancel ==
    /\ cpc = "cancelLocked"
    /\ cancelled' = TRUE
    /\ cellLock' = "free"
    /\ cpc' = "gaveUp"
    /\ UNCHANGED <<state, cell, timeUp, ppc, received, disposed>>

\* changed.wait_timeout(cell, remaining): unlock and wait in one step.
WaitSleep ==
    /\ cpc = "sleeping"
    /\ cellLock' = "free"
    /\ cpc' = "waiting"
    /\ UNCHANGED <<state, cell, cancelled, timeUp, ppc, received, disposed>>

\* A wait ends without a notification at the deadline, or spuriously.
WaitTimeout ==
    /\ cpc = "waiting"
    /\ timeUp
    /\ cpc' = "woken"
    /\ UNCHANGED <<state, cell, cellLock, cancelled, timeUp, ppc, received, disposed>>

WaitSpurious ==
    /\ cpc = "waiting"
    /\ ~timeUp
    /\ cpc' = "woken"
    /\ UNCHANGED <<state, cell, cellLock, cancelled, timeUp, ppc, received, disposed>>

DeadlinePasses ==
    /\ ~timeUp
    /\ timeUp' = TRUE
    /\ UNCHANGED <<state, cell, cellLock, cancelled, ppc, cpc, received, disposed>>

Producer ==
    FillCell \/ PublishReady \/ NotifyPublished \/ ClaimReaping \/ EmptyCell
    \/ FetchReaper \/ RunReaper \/ NotifyReaped

Wait == WaitBegin \/ WaitCheck \/ WaitClock \/ WaitExpire \/ WaitCancel \/ WaitSleep
        \/ WaitTimeout

Consumer == Take \/ TakeCell \/ Abandon \/ AbandonCancel \/ Wait

\* Both halves have returned and nobody waits for the clock.
Done ==
    /\ ppc = "finished" /\ cpc \in {"gotValue", "gaveUp"} /\ timeUp
    /\ UNCHANGED vars

Next == Producer \/ Consumer \/ WaitSpurious \/ DeadlinePasses \/ Done

Spec == Init /\ [][Next]_vars

\* Threads are scheduled and time passes.  A spurious wake-up is never owed.
FairSpec == Spec /\ WF_vars(Producer) /\ WF_vars(Consumer) /\ WF_vars(DeadlinePasses)

-----------------------------------------------------------------------------
(***************************************************************************)
(* Properties                                                              *)
(***************************************************************************)

\* The published resource reaches at most one of its two possible owners, at
\* most once: the consumer (take, wait_until) or the reaper (late publish).
SingleOwner == received + disposed <= 1

\* Once both halves returned, exactly one of them ended up with the resource,
\* the cell is empty, the consumer that got None is the one whose producer
\* reaped, and the work was cancelled exactly if it was abandoned.
NothingStranded ==
    ppc = "finished" /\ cpc \in {"gotValue", "gaveUp"} =>
        /\ received + disposed = 1
        /\ (received = 1) <=> (cpc = "gotValue")
        /\ cancelled <=> (cpc = "gaveUp")
        /\ ~cell

\* What the state word says of the two halves: READY or an abandonment is
\* decided once, by whoever moves the word away from PRODUCING, and from then
\* on it tells in whose hands the value is, although publish, take and
\* wait_until move it in and out of the cell in steps of their own.
Deferred == {"ABANDONED", "REAPING", "REAPED", "CLEANUP_FAILED"}

WordTellsOwner ==
    /\ ppc \in {"working", "publishing"} => state \in {"PRODUCING", "ABANDONED"}
    /\ ppc = "notifying" => state \in {"READY", "TAKEN"}
    /\ ppc = "claiming" => state = "ABANDONED"
    /\ ppc \in {"emptying", "fetching", "reaping"} => state = "REAPING"
    /\ ppc = "announcing" => state \in {"REAPED", "CLEANUP_FAILED"}
    /\ ppc = "finished" => state \notin {"PRODUCING", "ABANDONED", "REAPING"}
    /\ state = "TAKEN" <=> cpc \in {"taking", "gotValue"}
    /\ state \in Deferred <=> cpc \in {"cancelling", "cancelLocked", "gaveUp"}
    /\ cell <=> \/ ppc \in {"publishing", "claiming", "emptying"}
                \/ state = "READY" \/ cpc = "taking"
    /\ received = (IF cpc = "gotValue" THEN 1 ELSE 0)
    /\ disposed = (IF state \in {"REAPED", "CLEANUP_FAILED"} THEN 1 ELSE 0)
    /\ cancelled <=> cpc = "gaveUp"
    /\ cellLock = "consumer" <=> cpc \in {"checking", "timing", "expiring", "sleeping",
                                         "cancelLocked"}

\* At every moment at most one owner, in the end exactly one.
OneOwner == TypeOK /\ SingleOwner /\ NothingStranded /\ WordTellsOwner

\* A consumer that started waiting returns, and the resource of a producer
\* that finished its work gets an owner, whatever the deadline does.
EveryoneReturns ==
    <>(ppc = "finished" /\ cpc \in {"gotValue", "gaveUp"})

\* "Waits for publication" (owned_op.rs:94): once the producer has returned
\* from publish, no consumer sleeps on a READY result.  The code does not
\* keep this: publish moves the state word and notifies without the cell's
\* mutex, so both can fall between the consumer's check and its wait.
PublicationEndsWait ==
    ~(ppc = "finished" /\ state = "READY" /\ cpc = "waiting")

-----------------------------------------------------------------------------
(***************************************************************************)
(* What the handoff promises, and how it implements it: the resource is    *)
(* either still owed by the producer, held for the consumer, or settled.   *)
(***************************************************************************)
Stage == CASE state = "PRODUCING"                -> "owed"
           [] state = "READY"                    -> "offered"
           [] state = "TAKEN"                    -> IF received = 0 THEN "offered"
                                                    ELSE "consumed"
           [] state \in {"ABANDONED", "REAPING"} -> "refused"
           [] state = "REAPED"                   -> "reclaimed"
           [] state = "CLEANUP_FAILED"           -> "leaked"

Abstract == INSTANCE OwnedResult WITH stage <- Stage

\* wait_until, take, abandon and publish together implement the one-result
\* protocol of OwnedResult, its fairness included.
Refines == Abstract!FairSpec

=============================================================================
