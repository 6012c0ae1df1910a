--------------------------- MODULE MCBrokerSessions ---------------------------
(* Small instances of BrokerSessions for TLC. *)
EXTENDS BrokerSessions, TLC

Symmetry == Permutations(Clients) \union Permutations(Ids)
=============================================================================
