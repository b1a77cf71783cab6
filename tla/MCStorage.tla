----------------------------- MODULE MCStorage -----------------------------
(* What the processes keep in SQLite, on small instances, in one run: the   *)
(* tables of the broker (BrokerPubSub) and the database of a session        *)
(* (ShortTermMemory).  They share no variable, so a behaviour belongs to    *)
(* one of them; the other stays in an initial state.                        *)
EXTENDS MCBrokerPubSub, ShortTermMemory

(* The session: who takes part in which behaviours. *)
CONSTANTS w1, w2, q1, x1, x2, k1, k2, a1, a2

MCRoomOrder == <<"context">>
MCCasts ==
    {{w1, w2, k1}, {w1, x1, k1}, {x1, x2, k1}, {w1, q1, k1}, {w1, k1, a1}, {w1, a1, a2}, {w1, k1, k2}}

-----------------------------------------------------------------------------
VARIABLE part

Parts == {"broker", "session"}
storageVars == <<part, pubsubVars, stmVars>>

(* One of the initial states, for the behaviours of the broker. *)
SessionIdle == cast = CHOOSE c \in Casts : TRUE

StorageInit ==
    /\ part \in Parts
    /\ PubSubInit /\ StmInit
    /\ part = "session" \/ SessionIdle

BrokerPart ==
    /\ part = "broker" /\ PubSubNext
    /\ UNCHANGED <<part, stmVars>>
SessionPart ==
    /\ part = "session" /\ StmNext
    /\ UNCHANGED <<part, pubsubVars>>

StorageNext == BrokerPart \/ SessionPart
StorageSpec == StorageInit /\ [][StorageNext]_storageVars

-----------------------------------------------------------------------------
(* The types of both. *)
StorageTypeOK == PubSubTypeOK /\ StmTypeOK
=============================================================================
