------------------------------ MODULE Gateway ------------------------------
(***************************************************************************)
(* The gateway (internal/gateway/gateway.go) on top of the channel         *)
(* manager: RegisterChannel and the DELETE handler, which run in the       *)
(* goroutines of HTTP requests and take g.mu and m.mu several times each,  *)
(* and the inbound path with its dedup map, which runs in the goroutines   *)
(* of the platform connections.  Beside the gateway's own channels there   *)
(* are guests: channels of the same process that register with the manager *)
(* directly, such as the TUI.                                              *)
(*                                                                         *)
(* The session of the gateway's channel x is the string "gateway:x"; here  *)
(* it is x itself.  The session of a guest is the guest.  What a handler   *)
(* does with a message is not modelled, nor are the read-only requests.    *)
(***************************************************************************)
EXTENDS ChannelManager

CONSTANTS
    GwChans,     \* instances handed to RegisterChannel, each once
    HTTPChans,   \* those that have a webhook
    Guests,      \* instances registered by somebody else
    NoChan,      \* no instance
    Callbacks,   \* slots for callbacks that run at the same time
    Messages,    \* message ids; the empty one is never recorded
    PruneEvery,  \* one minute, in units of the clock
    DedupTTL     \* thirty minutes

ASSUME GatewayAssumption ==
    /\ GwChans \cup Guests = Chans /\ GwChans \cap Guests = {}
    /\ HTTPChans \subseteq GwChans
    /\ Ids \cup Guests = SessionIds /\ Ids \cap Guests = {}
    /\ NoChan \notin Chans
    /\ PruneEvery \in Nat /\ DedupTTL \in Nat

VARIABLES
    registered,  \* g.registered
    webhook,     \* g.webhookHandlers
    reg,         \* reg[c]: where RegisterChannel(c) is
    del,         \* del[c]: where the removal of c is
    guest,       \* guest[g]: what the guest has done
    call,        \* call[d]: where the callback in slot d is
    dedup,       \* g.dedup: the age of every record
    pruneAge,    \* time since g.dedupLastPrune
    last         \* the age of the last record of a key, also if it was pruned

inboundVars == <<call, dedup, pruneAge, last>>
adminVars == <<registered, webhook, reg, del, guest>>
gatewayVars == <<managerVars, adminVars, inboundVars>>

Keys == Ids \X Messages
Forgotten == DedupTTL + 1

RegSteps == {"none", "claimed", "started", "hooked", "managed", "done", "refused", "failed"}
NoCallback == [at |-> "idle"]
Callback == [at : {"record", "store"}, key : Keys, age : 0 .. Forgotten]

GatewayTypeOK ==
    /\ ManagerTypeOK
    /\ registered \in [Ids -> GwChans \cup {NoChan}]
    /\ webhook \in [Ids -> HTTPChans \cup {NoChan}]
    /\ reg \in [GwChans -> RegSteps]
    /\ del \in [GwChans -> {"none", "unregister", "close", "closed"}]
    /\ guest \in [Guests -> {"new", "in", "closed", "out"}]
    /\ call \in [Callbacks -> Callback \cup {NoCallback}]
    /\ dedup \in [Keys -> Unknown .. Forgotten]
    /\ pruneAge \in 0 .. PruneEvery + 1
    /\ last \in [Keys -> Unknown .. Forgotten]

GatewayInit ==
    /\ ManagerInit
    /\ registered = [i \in Ids |-> NoChan]
    /\ webhook = [i \in Ids |-> NoChan]
    /\ reg = [c \in GwChans |-> "none"]
    /\ del = [c \in GwChans |-> "none"]
    /\ guest = [g \in Guests |-> "new"]
    /\ call = [d \in Callbacks |-> NoCallback]
    /\ dedup = [k \in Keys |-> Unknown]
    /\ pruneAge = PruneEvery + 1
    /\ last = [k \in Keys |-> Unknown]

-----------------------------------------------------------------------------
(* RegisterChannel *)

(* The id is claimed under g.mu, then the callback is wired. *)
RegisterClaim(c) ==
    /\ reg[c] = "none"
    /\ IF registered[IdOf[c]] = NoChan
       THEN /\ registered' = [registered EXCEPT ![IdOf[c]] = c]
            /\ reg' = [reg EXCEPT ![c] = "claimed"]
       ELSE /\ reg' = [reg EXCEPT ![c] = "refused"]
            /\ UNCHANGED registered
    /\ UNCHANGED <<managerVars, webhook, del, guest, inboundVars>>

(* ch.Start *)
RegisterStart(c) ==
    /\ reg[c] = "claimed"
    /\ reg' = [reg EXCEPT ![c] = "started"]
    /\ UNCHANGED <<managerVars, registered, webhook, del, guest, inboundVars>>

(* ch.Start failed: the channel is closed, and the id stays claimed. *)
RegisterFails(c) ==
    /\ reg[c] = "claimed"
    /\ reg' = [reg EXCEPT ![c] = "failed"]
    /\ Close(c)
    /\ UNCHANGED <<registered, webhook, del, guest, inboundVars>>

(* Mutant: every channel is taken for an HTTPChannel. *)
RegisterWebhook_Always(c) ==
    /\ reg[c] = "started"
    /\ webhook' = [webhook EXCEPT ![IdOf[c]] = c]
    /\ reg' = [reg EXCEPT ![c] = "hooked"]
    /\ UNCHANGED <<managerVars, registered, del, guest, inboundVars>>

RegisterWebhook(c) ==
    /\ reg[c] = "started"
    /\ webhook' = IF c \in HTTPChans THEN [webhook EXCEPT ![IdOf[c]] = c] ELSE webhook
    /\ reg' = [reg EXCEPT ![c] = "hooked"]
    /\ UNCHANGED <<managerVars, registered, del, guest, inboundVars>>

RegisterManaged(c) ==
    /\ reg[c] = "hooked"
    /\ RegisterSession(c, IdOf[c])
    /\ reg' = [reg EXCEPT ![c] = "managed"]
    /\ UNCHANGED <<registered, webhook, del, guest, inboundVars>>

RegisterLocal(c) ==
    /\ reg[c] = "managed"
    /\ MarkLocal(IdOf[c])
    /\ reg' = [reg EXCEPT ![c] = "done"]
    /\ UNCHANGED <<registered, webhook, del, guest, inboundVars>>

-----------------------------------------------------------------------------
(* UnregisterChannel and unregisterChannelAPI: the maps of the gateway     *)
(* under g.mu, then the manager, then the channel.                         *)

RemoveClaim(i) ==
    /\ registered[i] # NoChan
    /\ registered' = [registered EXCEPT ![i] = NoChan]
    /\ webhook' = [webhook EXCEPT ![i] = NoChan]
    /\ del' = [del EXCEPT ![registered[i]] = "unregister"]
    /\ UNCHANGED <<managerVars, reg, guest, inboundVars>>

RemoveManaged(c) ==
    /\ del[c] = "unregister"
    /\ UnregisterSession(IdOf[c], IdOf[c])
    /\ del' = [del EXCEPT ![c] = "close"]
    /\ UNCHANGED <<registered, webhook, reg, guest, inboundVars>>

RemoveClose(c) ==
    /\ del[c] = "close"
    /\ Close(c)
    /\ del' = [del EXCEPT ![c] = "closed"]
    /\ UNCHANGED <<registered, webhook, reg, guest, inboundVars>>

-----------------------------------------------------------------------------
(* Guests: they register, may be marked as local or send heartbeats, and   *)
(* at the end close and unregister. *)

GuestMove(g, from, to) == guest[g] = from /\ guest' = [guest EXCEPT ![g] = to]

GuestJoin(g) == GuestMove(g, "new", "in") /\ RegisterSession(g, g)
GuestLocal(g) == GuestMove(g, "in", "in") /\ MarkLocal(g)
GuestBeat(g) == GuestMove(g, "in", "in") /\ SessionHeartbeat(g)
GuestClose(g) == GuestMove(g, "in", "closed") /\ Close(g)
GuestLeave(g) == GuestMove(g, "closed", "out") /\ UnregisterSession(IdOf[g], g)

GuestStep(g) ==
    /\ GuestJoin(g) \/ GuestLocal(g) \/ GuestBeat(g) \/ GuestClose(g) \/ GuestLeave(g)
    /\ UNCHANGED <<registered, webhook, reg, del, inboundVars>>

-----------------------------------------------------------------------------
(* The inbound path.  recordDedup runs without a lock: other callbacks may *)
(* come between its look at the map and its write.  (The Go runtime ends   *)
(* the process when it catches two operations on a map in the act, which   *)
(* ends the behaviour.)                                                    *)

(* The platform calls the callback that RegisterChannel wired.  It does so *)
(* again when it believes that a message was lost. *)
Deliver(d, c, m) ==
    /\ call[d] = NoCallback
    /\ reg[c] \notin {"none", "refused", "failed"}
    /\ call' = [call EXCEPT ![d] = [at |-> "record", key |-> <<IdOf[c], m>>, age |-> 0]]
    /\ UNCHANGED <<managerVars, adminVars, dedup, pruneAge, last>>

(* Mutant: records are pruned one unit too early. *)
Pruned_Early ==
    [k \in Keys |-> IF pruneAge > PruneEvery /\ dedup[k] >= DedupTTL THEN Unknown ELSE dedup[k]]

(* The map after the pruning that the first call of every minute does. *)
Pruned ==
    [k \in Keys |-> IF pruneAge > PruneEvery /\ dedup[k] > DedupTTL THEN Unknown ELSE dedup[k]]

RecordCheck(d) ==
    /\ call[d].at = "record"
    /\ dedup' = Pruned
    /\ pruneAge' = IF pruneAge > PruneEvery THEN 0 ELSE pruneAge
    /\ IF Pruned[call[d].key] # Unknown
       THEN call' = [call EXCEPT ![d] = NoCallback]
       ELSE call' = [call EXCEPT ![d].at = "store"]
    /\ UNCHANGED <<managerVars, adminVars, last>>

(* g.dedup[key] = now, with the time read at the start; then the message   *)
(* goes to a command or to the agent. *)
RecordStore(d) ==
    /\ call[d].at = "store"
    /\ dedup' = [dedup EXCEPT ![call[d].key] = call[d].age]
    /\ last' = [last EXCEPT ![call[d].key] = call[d].age]
    /\ call' = [call EXCEPT ![d] = NoCallback]
    /\ UNCHANGED <<managerVars, adminVars, pruneAge>>

-----------------------------------------------------------------------------
Older(n, limit) == IF n \in {Unknown, limit} THEN n ELSE n + 1

GatewayTick ==
    /\ ManagerTick
    /\ dedup' = [k \in Keys |-> Older(dedup[k], Forgotten)]
    /\ last' = [k \in Keys |-> Older(last[k], Forgotten)]
    /\ pruneAge' = Older(pruneAge, PruneEvery + 1)
    /\ call' = [d \in Callbacks |->
                   IF call[d].at = "store" THEN [call[d] EXCEPT !.age = Older(@, Forgotten)]
                                           ELSE call[d]]
    /\ UNCHANGED adminVars

RegisterStep(c) ==
    \/ RegisterClaim(c) \/ RegisterStart(c) \/ RegisterFails(c)
    \/ RegisterWebhook(c) \/ RegisterManaged(c) \/ RegisterLocal(c)

CheckHealth == HealthCheck /\ UNCHANGED <<adminVars, inboundVars>>

GatewayNext ==
    \/ GatewayTick
    \/ CheckHealth
    \/ \E i \in Ids : RemoveClaim(i)
    \/ \E c \in GwChans : RegisterStep(c) \/ RemoveManaged(c) \/ RemoveClose(c)
    \/ \E g \in Guests : GuestStep(g)
    \/ \E d \in Callbacks :
          \/ \E c \in GwChans, m \in Messages : Deliver(d, c, m)
          \/ RecordCheck(d) \/ RecordStore(d)

GatewaySpec == GatewayInit /\ [][GatewayNext]_gatewayVars

-----------------------------------------------------------------------------
(* Properties *)

(* "mark as local so health check doesn't expire it" (RegisterChannel):    *)
(* the health check never removes a channel whose registration is          *)
(* complete, whatever registrations and removals of the same id go on.     *)
HealthCheckSparesGateway ==
    [][\A c \in GwChans : c \in stale' \ stale => reg[c] # "done"]_gatewayVars

(* "Dead channels are closed and unregistered" (StartHealthCheck), both or *)
(* neither: until a guest closes its channel itself, the channel is alive  *)
(* exactly as long as notifications reach it or the health check is about  *)
(* to close it.  None is dropped and left open, or closed and kept.        *)
GuestAliveIffManaged ==
    \A g \in Guests :
        guest[g] = "in" =>
            (alive[g] <=> [chan |-> g, session |-> g] \in entries \/ g \in stale)

(* A message that was recorded less than DedupTTL ago is recognised when   *)
(* the platform delivers it again, also after the map was pruned and after *)
(* the channel was replaced by another one with its id.                    *)
ReplaysDropped ==
    [][\A d \in Callbacks :
          call[d].at = "record" /\ call'[d].at = "store"
              => last[call[d].key] \in {Unknown, Forgotten}]_gatewayVars

(* "It is called with dedupMu held by the caller" (recordDedup): so no     *)
(* message is recorded, and handled, twice within DedupTTL.                *)
RecordedOnce ==
    [][\A d \in Callbacks :
          RecordStore(d) => last[call[d].key] \in {Unknown, Forgotten}]_gatewayVars
=============================================================================
