-------------------------- MODULE LeaseLifecycle --------------------------
(***************************************************************************)
(* What the Broker promises about one lease: operations use it while it is *)
(* open; it is sealed once; its platform receipt is released only after    *)
(* every user has left; and one outcome of the release is announced.       *)
(***************************************************************************)
CONSTANT Threads

VARIABLES
    phase,      \* "open", "sealed", "released"
    users,      \* the threads whose operation uses the lease
    outcome     \* "none" until announced, then "ok" or "failed"

vars == <<phase, users, outcome>>

Init ==
    /\ phase = "open"
    /\ users = {}
    /\ outcome = "none"

Join(t) ==
    /\ phase = "open"
    /\ users' = users \union {t}
    /\ UNCHANGED <<phase, outcome>>

Depart(t) ==
    /\ users' = users \ {t}
    /\ UNCHANGED <<phase, outcome>>

Seal ==
    /\ phase = "open"
    /\ phase' = "sealed"
    /\ UNCHANGED <<users, outcome>>

Release ==
    /\ phase = "sealed"
    /\ users = {}
    /\ phase' = "released"
    /\ UNCHANGED <<users, outcome>>

Announce ==
    /\ phase = "released"
    /\ outcome = "none"
    /\ outcome' \in {"ok", "failed"}
    /\ UNCHANGED <<phase, users>>

Next ==
    \/ \E t \in Threads : Join(t) \/ Depart(t)
    \/ Seal \/ Release \/ Announce

Spec == Init /\ [][Next]_vars
=============================================================================
