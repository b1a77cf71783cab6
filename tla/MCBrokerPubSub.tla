--------------------------- MODULE MCBrokerPubSub ---------------------------
(* Model of BrokerPubSub for TLC: the sessions are interchangeable. *)
EXTENDS BrokerPubSub, TLC

SessionSymmetry == Permutations(Sessions)
=============================================================================
