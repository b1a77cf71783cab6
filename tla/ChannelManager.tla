--------------------------- MODULE ChannelManager ---------------------------
(***************************************************************************)
(* The registry of notification channels of one process                    *)
(* (internal/channel/manager.go) and its health check.  Every operation    *)
(* holds m.mu and is one action, except that expireStale closes the        *)
(* channels it removed after it has unlocked.  Get, AllAliveIDs and Notify *)
(* change nothing here and are left out.                                   *)
(*                                                                         *)
(* Times only matter by their distance from now: age[s] is the time since  *)
(* the last heartbeat of session s, and stops one above the timeout.       *)
(***************************************************************************)
EXTENDS Integers, FiniteSets

CONSTANTS
    Chans,       \* channel instances
    SessionIds,  \* session ids
    Ids,         \* channel ids
    IdOf,        \* IdOf[c]: the id of an instance; several may share one
    Timeout      \* three health check intervals, in units of the clock

ASSUME ManagerAssumption ==
    /\ IdOf \in [Chans -> Ids]
    /\ Timeout \in Nat

VARIABLES
    entries,     \* m.channels: pairs of an instance and a session
    age,         \* m.lastHB, Unknown if there is no heartbeat
    local,       \* m.local
    alive,       \* BaseChannel.alive of the instances
    stale,       \* removed by expireStale, which has yet to close them
    health       \* the health check goroutine

managerVars == <<entries, age, local, alive, stale, health>>

Unknown == -1
Overdue == Timeout + 1

ManagerTypeOK ==
    /\ entries \subseteq [chan : Chans, session : SessionIds]
    /\ age \in [SessionIds -> Unknown .. Overdue]
    /\ local \subseteq SessionIds
    /\ alive \in [Chans -> BOOLEAN]
    /\ stale \subseteq Chans
    /\ health \in {"off", "on", "cancelled"}

ManagerInit ==
    /\ entries = {}
    /\ age = [s \in SessionIds |-> Unknown]
    /\ local = {}
    /\ alive = [c \in Chans |-> TRUE]
    /\ stale = {}
    /\ health = "off"

SessionsOf(es) == {e.session : e \in es}

-----------------------------------------------------------------------------
(* A session that is known already only gets a new heartbeat. *)
RegisterSession(c, s) ==
    /\ entries' = IF age[s] = Unknown THEN entries \cup {[chan |-> c, session |-> s]}
                                      ELSE entries
    /\ age' = [age EXCEPT ![s] = 0]
    /\ UNCHANGED <<local, alive, stale, health>>

(* Mutant: the heartbeat is kept. *)
UnregisterSession_KeepsHeartbeat(id, s) ==
    LET found == {e \in entries : IdOf[e.chan] = id /\ e.session = s} IN
    /\ IF found = {} THEN entries' = entries
                     ELSE \E e \in found : entries' = entries \ {e}
    /\ local' = IF s \in SessionsOf(entries') THEN local ELSE local \ {s}
    /\ UNCHANGED <<age, alive, stale, health>>

(* The first entry of the session under this id is removed; the heartbeat  *)
(* and the local mark go unless the session has an entry elsewhere.        *)
UnregisterSession(id, s) ==
    LET found == {e \in entries : IdOf[e.chan] = id /\ e.session = s} IN
    /\ IF found = {} THEN entries' = entries
                     ELSE \E e \in found : entries' = entries \ {e}
    /\ IF s \in SessionsOf(entries')
       THEN UNCHANGED <<age, local>>
       ELSE age' = [age EXCEPT ![s] = Unknown] /\ local' = local \ {s}
    /\ UNCHANGED <<alive, stale, health>>

(* "session not registered" when there was no heartbeat before. *)
SessionHeartbeat(s) ==
    /\ age[s] # Unknown
    /\ age' = [age EXCEPT ![s] = 0]
    /\ UNCHANGED <<entries, local, alive, stale, health>>

MarkLocal(s) ==
    /\ local' = local \cup {s}
    /\ UNCHANGED <<entries, age, alive, stale, health>>

(* Channel.Close: TryClose, the second call does nothing. *)
Close(c) ==
    /\ alive' = [alive EXCEPT ![c] = FALSE]
    /\ UNCHANGED <<entries, age, local, stale, health>>

-----------------------------------------------------------------------------
(* The health check *)

StartHealthCheck ==
    /\ health = "off"
    /\ health' = "on"
    /\ UNCHANGED <<entries, age, local, alive, stale>>

(* StopHealthCheck cancels and waits ... *)
StopHealthCheck ==
    /\ health = "on"
    /\ health' = "cancelled"
    /\ UNCHANGED <<entries, age, local, alive, stale>>

(* ... until the goroutine has returned, between two calls of expireStale. *)
HealthCheckExit ==
    /\ health = "cancelled"
    /\ stale = {}
    /\ health' = "off"
    /\ UNCHANGED <<entries, age, local, alive, stale>>

(* Mutant: local sessions expire like the others. *)
Expired_LocalToo == {e \in entries : age[e.session] \in {Unknown, Overdue}}

Expired ==
    {e \in entries : e.session \notin local /\ age[e.session] \in {Unknown, Overdue}}

(* Mutant: a removed channel is forgotten before it was closed. *)
ExpireStale_Forgets ==
    /\ health # "off"
    /\ stale = {}
    /\ entries' = entries \ Expired
    /\ age' = [s \in SessionIds |-> IF s \in SessionsOf(Expired) THEN Unknown ELSE age[s]]
    /\ UNCHANGED <<alive, local, stale, health>>

(* expireStale, the part under m.mu.  The ticker may win against a context *)
(* that is cancelled.                                                      *)
ExpireStale ==
    /\ health # "off"
    /\ stale = {}
    /\ entries' = entries \ Expired
    /\ age' = [s \in SessionIds |-> IF s \in SessionsOf(Expired) THEN Unknown ELSE age[s]]
    /\ local' = local \ SessionsOf(Expired)
    /\ stale' = {e.chan : e \in Expired}
    /\ UNCHANGED <<alive, health>>

CloseStale ==
    \E c \in stale :
        /\ alive' = [alive EXCEPT ![c] = FALSE]
        /\ stale' = stale \ {c}
        /\ UNCHANGED <<entries, age, local, health>>

ManagerTick ==
    /\ age' = [s \in SessionIds |-> IF age[s] \in {Unknown, Overdue} THEN age[s] ELSE age[s] + 1]
    /\ UNCHANGED <<entries, local, alive, stale, health>>

HealthCheck == StartHealthCheck \/ StopHealthCheck \/ HealthCheckExit \/ ExpireStale \/ CloseStale

-----------------------------------------------------------------------------
(* The two maps of the manager describe the same sessions: a session has   *)
(* an entry exactly as long as it has a heartbeat, and only one.  Without  *)
(* it Register would drop a channel, or expireStale would never see one.   *)
EntryIffHeartbeat ==
    \A s \in SessionIds :
        Cardinality({e \in entries : e.session = s}) = IF age[s] = Unknown THEN 0 ELSE 1
=============================================================================
