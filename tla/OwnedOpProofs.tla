--------------------------- MODULE OwnedOpProofs ----------------------------
(***************************************************************************)
(* Proofs about the owned-result handoff.  What the state word says of the *)
(* two halves (WordTellsOwner) is inductive; that the value has one owner  *)
(* and is never stranded follows from it, and so does every step of the    *)
(* abstract handoff OwnedResult.                                           *)
(***************************************************************************)
EXTENDS OwnedOp, TLAPS

\* The facts about types and phases that every step keeps.
Phases == TypeOK /\ WordTellsOwner

\* Whoever the state word names is the only owner, and the last one to return
\* leaves nothing in the cell.
LEMMA PhasesOneOwner == Phases => OneOwner
<1> SUFFICES ASSUME Phases PROVE OneOwner
  OBVIOUS
<1> USE DEF Phases, TypeOK, WordTellsOwner, States, ProducerSteps, ConsumerSteps, Deferred
<1>1. SingleOwner
  BY DEF SingleOwner
<1>2. NothingStranded
  BY DEF NothingStranded
<1> QED
  BY <1>1, <1>2 DEF OneOwner

\* Every step of publish, notification and reaping included, keeps the phases.
LEMMA ProducerPhases ==
  ASSUME Phases, Producer
  PROVE  Phases'
<1> USE DEF Phases, TypeOK, WordTellsOwner, States, ProducerSteps, ConsumerSteps, Deferred
<1>1. CASE FillCell
  BY <1>1 DEF FillCell
<1>2. CASE PublishReady
  BY <1>2 DEF PublishReady
<1>3. CASE NotifyPublished
  BY <1>3 DEF NotifyPublished, Wake
<1>4. CASE ClaimReaping
  BY <1>4 DEF ClaimReaping
<1>5. CASE EmptyCell
  BY <1>5 DEF EmptyCell
<1>6. CASE FetchReaper
  BY <1>6 DEF FetchReaper
<1>7. CASE RunReaper
  BY <1>7 DEF RunReaper
<1>8. CASE NotifyReaped
  BY <1>8 DEF NotifyReaped, Wake
<1> QED
  BY <1>1, <1>2, <1>3, <1>4, <1>5, <1>6, <1>7, <1>8 DEF Producer

\* So does every step of take, abandon and wait_until.
LEMMA ConsumerPhases ==
  ASSUME Phases, Consumer \/ WaitSpurious
  PROVE  Phases'
<1> USE DEF Phases, TypeOK, WordTellsOwner, States, ProducerSteps, ConsumerSteps, Deferred
<1>1. CASE Take
  BY <1>1 DEF Take
<1>2. CASE TakeCell
  <2>1. cell = TRUE /\ received = 0
    BY <1>2 DEF TakeCell
  <2>2. received' = 1
    BY <1>2, <2>1 DEF TakeCell
  <2> QED
    BY <1>2, <2>1, <2>2 DEF TakeCell
<1>3. CASE Abandon
  BY <1>3 DEF Abandon
<1>4. CASE AbandonCancel
  BY <1>4 DEF AbandonCancel
<1>5. CASE WaitBegin
  BY <1>5 DEF WaitBegin
<1>6. CASE WaitCheck
  <2>1. CASE state = "READY"
    <3>1. cell = TRUE /\ received = 0
      BY <2>1, <1>6 DEF WaitCheck
    <3>2. received' = 1
      BY <1>6, <2>1, <3>1 DEF WaitCheck
    <3> QED
      BY <1>6, <2>1, <3>1, <3>2 DEF WaitCheck
  <2>2. CASE state # "READY"
    BY <1>6, <2>2 DEF WaitCheck
  <2> QED
    BY <2>1, <2>2
<1>7. CASE WaitClock
  BY <1>7 DEF WaitClock
<1>8. CASE WaitExpire
  BY <1>8 DEF WaitExpire
<1>9. CASE WaitCancel
  BY <1>9 DEF WaitCancel
<1>10. CASE WaitSleep
  BY <1>10 DEF WaitSleep
<1>11. CASE WaitTimeout \/ WaitSpurious
  BY <1>11 DEF WaitTimeout, WaitSpurious
<1> QED
  BY <1>1, <1>2, <1>3, <1>4, <1>5, <1>6, <1>7, <1>8, <1>9, <1>10, <1>11 DEF Consumer, Wait

\* Every step of the two halves and of the clock keeps the phases.
LEMMA NextPhases == Phases /\ [Next]_vars => Phases'
<1> SUFFICES ASSUME Phases, [Next]_vars PROVE Phases'
  OBVIOUS
<1>1. CASE Producer
  BY <1>1, ProducerPhases
<1>2. CASE Consumer \/ WaitSpurious
  BY <1>2, ConsumerPhases
<1>3. CASE DeadlinePasses
  BY <1>3 DEF DeadlinePasses, Phases, TypeOK, WordTellsOwner
<1>4. CASE UNCHANGED vars
  BY <1>4 DEF vars, Phases, TypeOK, WordTellsOwner
<1> QED
  BY <1>1, <1>2, <1>3, <1>4 DEF Next, Done

\* A new OwnedOp is owed by its producer.
LEMMA InitPhases == Init => Phases
  BY DEF Init, Phases, TypeOK, WordTellsOwner, States, ProducerSteps, ConsumerSteps, Deferred

\* The phases hold throughout.
LEMMA PhasesHold == Spec => []Phases
  BY InitPhases, NextPhases, PTL DEF Spec

\* The value that publish hands over has at most one owner at every moment and
\* exactly one when both halves have returned, whoever wins the race between
\* READY and ABANDONED and wherever the deadline falls.
THEOREM OneOwnerHolds == Spec => []OneOwner
  BY PhasesHold, PhasesOneOwner, PTL

-----------------------------------------------------------------------------
\* publish, take, abandon and wait_until implement the one-result handoff:
\* every step settles it as OwnedResult allows or leaves it as it was.
THEOREM HandoffImplementsResult == Spec => Abstract!Spec
<1>1. Init => Abstract!Init
  BY DEF Init, Stage, Abstract!Init
<1>2. ASSUME Phases, [Next]_vars PROVE [Abstract!Next]_Stage
  <2> USE DEF Stage
  <2>1. CASE PublishReady
    BY <2>1 DEF PublishReady, Abstract!Next, Abstract!Offer
  <2>2. CASE Abandon \/ WaitExpire
    BY <2>2 DEF Abandon, WaitExpire, Abstract!Next, Abstract!Refuse
  <2>3. CASE TakeCell
    <3>1. state = "TAKEN" /\ received = 0 /\ cell = TRUE
      BY <1>2, <2>3 DEF TakeCell, Phases, TypeOK, WordTellsOwner
    <3>2. state' = "TAKEN" /\ received' = 1
      BY <2>3, <3>1 DEF TakeCell
    <3> QED
      BY <3>1, <3>2 DEF Abstract!Next, Abstract!Consume
  <2>4. CASE WaitCheck
    <3>1. CASE state = "READY"
      <4>1. received = 0 /\ cell = TRUE
        BY <1>2, <2>4, <3>1 DEF WaitCheck, Phases, TypeOK, WordTellsOwner
      <4>2. state' = "TAKEN" /\ received' = 1
        BY <2>4, <3>1, <4>1 DEF WaitCheck
      <4> QED
        BY <3>1, <4>2 DEF Abstract!Next, Abstract!Consume
    <3> QED
      BY <2>4, <3>1 DEF WaitCheck
  <2>5. CASE RunReaper
    <3>1. state = "REAPING"
      BY <1>2, <2>5 DEF RunReaper, Phases, WordTellsOwner
    <3> QED
      BY <2>5, <3>1 DEF RunReaper, Abstract!Next, Abstract!Reclaim
  <2>6. CASE ClaimReaping
    <3>1. state = "ABANDONED"
      BY <1>2, <2>6 DEF ClaimReaping, Phases, WordTellsOwner
    <3> QED
      BY <2>6, <3>1 DEF ClaimReaping
  <2>7. CASE Take
    <3>1. received = 0
      BY <1>2, <2>7 DEF Take, Phases, WordTellsOwner
    <3> QED
      BY <2>7, <3>1 DEF Take
  <2>8. CASE UNCHANGED <<state, received>>
    BY <2>8
  <2>9. FillCell \/ NotifyPublished \/ EmptyCell \/ FetchReaper \/ NotifyReaped
          \/ AbandonCancel \/ WaitBegin \/ WaitClock \/ WaitCancel \/ WaitSleep
          \/ WaitTimeout \/ WaitSpurious \/ DeadlinePasses \/ UNCHANGED vars
        => UNCHANGED <<state, received>>
    BY DEF FillCell, NotifyPublished, EmptyCell, FetchReaper, NotifyReaped, AbandonCancel,
           WaitBegin, WaitClock, WaitCancel, WaitSleep, WaitTimeout, WaitSpurious,
           DeadlinePasses, vars
  <2> QED
    BY <1>2, <2>1, <2>2, <2>3, <2>4, <2>5, <2>6, <2>7, <2>8, <2>9
    DEF Next, Producer, Consumer, Wait, Done
<1> QED
  BY <1>1, <1>2, PhasesHold, PTL DEF Spec, Abstract!Spec
=============================================================================
