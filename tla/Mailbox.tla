------------------------------ MODULE Mailbox ------------------------------
(***************************************************************************)
(* What the session registry and the publish/subscribe part of the Broker  *)
(* interface promise to a registered session: everything published on its  *)
(* channel while it is registered stays pending for it until it acks it.   *)
(* Mail leaves a mailbox in no other way than by the owner's ack, with a   *)
(* member that leaves or was silent for longer than SessionTTL, or by age. *)
(* There are no tables, no receipts and no clean-up here; BrokerPubSub is  *)
(* shown to implement this specification.                                  *)
(***************************************************************************)
EXTENDS Integers

CONSTANTS Sessions, Channels, NoChannel, SessionTTL, MessageTTL

VARIABLES
    clock,
    member,      \* member[s]: the channel s is registered on, or NoChannel
    seen,        \* seen[s]: when s last registered or sent a heartbeat
    pending,     \* pending[s]: the messages s has yet to ack
    fetched,     \* fetched[s]: ids of messages that s was given and has not acked
    lastId       \* id of the last message posted

mailboxVars == <<clock, member, seen, pending, fetched, lastId>>

Init ==
    /\ clock = 0
    /\ member = [s \in Sessions |-> NoChannel]
    /\ seen = [s \in Sessions |-> 0]
    /\ pending = [s \in Sessions |-> {}]
    /\ fetched = [s \in Sessions |-> {}]
    /\ lastId = 0

Gone(s) ==
    /\ member'[s] = NoChannel
    /\ seen'[s] = 0
    /\ pending'[s] = {}

Same(s) ==
    /\ member'[s] = member[s]
    /\ seen'[s] = seen[s]
    /\ pending'[s] = pending[s]

(* s registers on a channel.  It may find older mail there; if it is on    *)
(* that channel already its mailbox stays as it is. *)
Join(s) ==
    /\ member'[s] \in Channels
    /\ member'[s] = member[s] => pending'[s] = pending[s]
    /\ \A m \in pending'[s] : m.id <= lastId
    /\ seen'[s] <= clock
    /\ \A r \in Sessions \ {s} : Same(r)
    /\ UNCHANGED <<clock, fetched, lastId>>

Beat(s) ==
    /\ member[s] # NoChannel
    /\ seen'[s] <= clock
    /\ \A r \in Sessions \ {s} : seen'[r] = seen[r]
    /\ UNCHANGED <<clock, member, pending, fetched, lastId>>

Leave(s) ==
    /\ Gone(s)
    /\ \A r \in Sessions \ {s} : Same(r)
    /\ UNCHANGED <<clock, fetched, lastId>>

(* Members are dropped, but only after SessionTTL of silence. *)
Evict ==
    /\ \A s \in Sessions : Same(s) \/ (Gone(s) /\ seen[s] + SessionTTL < clock)
    /\ UNCHANGED <<clock, fetched, lastId>>

(* A message with a fresh id reaches every member of its channel. *)
Post(c) ==
    /\ lastId' = lastId + 1
    /\ \E m \in [id : {lastId'}, channel : {c}, created : 0 .. clock] :
          \A s \in Sessions :
             pending'[s] = IF member[s] = c THEN pending[s] \cup {m} ELSE pending[s]
    /\ UNCHANGED <<clock, member, seen, fetched>>

(* s is given some messages. *)
Fetch(s) ==
    /\ fetched[s] \subseteq fetched'[s]
    /\ \A id \in fetched'[s] \ fetched[s] : id <= lastId
    /\ \A r \in Sessions \ {s} : fetched'[r] = fetched[r]
    /\ UNCHANGED <<clock, member, seen, pending, lastId>>

(* s acks some of what it was given; just that is no longer pending. *)
Ack(s) ==
    /\ fetched'[s] \subseteq fetched[s]
    /\ pending'[s] = {m \in pending[s] : m.id \notin fetched[s] \ fetched'[s]}
    /\ \A r \in Sessions \ {s} : fetched'[r] = fetched[r] /\ pending'[r] = pending[r]
    /\ UNCHANGED <<clock, member, seen, lastId>>

(* Messages older than MessageTTL disappear. *)
Expire ==
    /\ \A s \in Sessions :
          /\ pending'[s] \subseteq pending[s]
          /\ \A m \in pending[s] \ pending'[s] : m.created + MessageTTL < clock
    /\ UNCHANGED <<clock, member, seen, fetched, lastId>>

Elapse == clock' = clock + 1 /\ UNCHANGED <<member, seen, pending, fetched, lastId>>

Next ==
    \/ \E s \in Sessions : Join(s) \/ Beat(s) \/ Leave(s) \/ Fetch(s) \/ Ack(s)
    \/ \E c \in Channels : Post(c)
    \/ Evict \/ Expire \/ Elapse

Spec == Init /\ [][Next]_mailboxVars
=============================================================================
