----------------------------- MODULE MCGateway -----------------------------
(* Model of Gateway for TLC: one channel id, shared by three instances and *)
(* by a guest, or as many of them as the configuration has. *)
EXTENDS Gateway

MCIdOf == [c \in Chans |-> CHOOSE i \in Ids : TRUE]
=============================================================================
