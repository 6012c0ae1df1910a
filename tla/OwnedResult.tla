---------------------------- MODULE OwnedResult ----------------------------
(***************************************************************************)
(* What the owned-result handoff of host-runtime promises: one resource    *)
(* that is owed by a producer is settled exactly once, by the consumer it  *)
(* was offered to or, when the consumer no longer wants it, by a reclaim   *)
(* that reports whether it succeeded.                                      *)
(***************************************************************************)
VARIABLE stage

Settled == {"consumed", "reclaimed", "leaked"}

Init == stage = "owed"

Offer == stage = "owed" /\ stage' = "offered"

\* Only a result that was not offered yet can be refused.
Refuse == stage = "owed" /\ stage' = "refused"

Consume == stage = "offered" /\ stage' = "consumed"

Reclaim == stage = "refused" /\ stage' \in {"reclaimed", "leaked"}

Next == Offer \/ Refuse \/ Consume \/ Reclaim

Spec == Init /\ [][Next]_stage

FairSpec == Spec /\ WF_stage(Next)
=============================================================================
