---------------------------- MODULE GatewayProofs ----------------------------
(***************************************************************************)
(* Proofs about the gateway and the channel manager below it, for any      *)
(* channels, ids, guests, callbacks and times.                             *)
(*                                                                         *)
(* The argument has three parts that need little of one another: the maps  *)
(* of the manager agree (ManagerInv), which makes the marks of completed   *)
(* registrations and the state of guests last (AdminInv); and the dedup    *)
(* map forgets only what is old (InboundInv).                              *)
(***************************************************************************)
EXTENDS Gateway, FiniteSetTheorems, TLAPS

(* The session under which an instance is registered. *)
SessionOf(c) == IF c \in Guests THEN c ELSE IdOf[c]

HasEntry(s) == \E e \in entries : e.session = s

ManagerInv ==
    /\ ManagerTypeOK
    /\ \A s \in SessionIds : age[s] # Unknown <=> HasEntry(s)
    /\ \A e, f \in entries : e.session = f.session => e = f
    /\ \A e \in entries : e.session = SessionOf(e.chan)

AdminTypes ==
    /\ registered \in [Ids -> GwChans \cup {NoChan}]
    /\ webhook \in [Ids -> HTTPChans \cup {NoChan}]
    /\ reg \in [GwChans -> RegSteps]
    /\ del \in [GwChans -> {"none", "unregister", "close", "closed"}]
    /\ guest \in [Guests -> {"new", "in", "closed", "out"}]

(* A channel whose registration is complete is marked as local for as long *)
(* as it is in the manager: a removal under its id that takes the mark     *)
(* takes the entry, too. *)
DoneIsLocal ==
    \A e \in entries :
        e.chan \in GwChans /\ reg[e.chan] = "done" => e.session \in local

(* A guest has an entry, or is about to be closed, or is closed. *)
GuestsKept ==
    \A g \in Guests :
        /\ guest[g] = "new" => alive[g] /\ ~HasEntry(g) /\ g \notin stale
        /\ g \in stale => ~HasEntry(g)
        /\ guest[g] = "in" => (alive[g] <=> HasEntry(g) \/ g \in stale)

AdminInv == AdminTypes /\ DoneIsLocal /\ GuestsKept

InboundTypes ==
    /\ call \in [Callbacks -> Callback \cup {NoCallback}]
    /\ dedup \in [Keys -> Unknown .. Forgotten]
    /\ pruneAge \in 0 .. PruneEvery + 1
    /\ last \in [Keys -> Unknown .. Forgotten]

(* A record is missing only when it was too old to matter. *)
InboundInv ==
    /\ InboundTypes
    /\ \A k \in Keys : dedup[k] = last[k] \/ (dedup[k] = Unknown /\ last[k] = Forgotten)

-----------------------------------------------------------------------------
(* The maps of the manager *)

LEMMA SessionOfChan ==
    /\ \A c \in Chans : SessionOf(c) \in SessionIds
    /\ \A c \in GwChans : c \in Chans /\ SessionOf(c) = IdOf[c] /\ IdOf[c] \in Ids
    /\ \A g \in Guests : g \in Chans /\ SessionOf(g) = g /\ IdOf[g] \in Ids
    /\ Ids \cup Guests = SessionIds /\ Ids \cap Guests = {}
BY ManagerAssumption, GatewayAssumption DEF SessionOf

LEMMA RegisterKeepsManager ==
    ASSUME ManagerInv, NEW c \in Chans, RegisterSession(c, SessionOf(c))
    PROVE  ManagerInv'
<1>. DEFINE s == SessionOf(c)
<1>1. s \in SessionIds
  BY SessionOfChan
<1>2. age' = [age EXCEPT ![s] = 0] /\ UNCHANGED <<local, alive, stale, health>>
  BY DEF RegisterSession
<1>3. CASE age[s] = Unknown
  <2>1. entries' = entries \cup {[chan |-> c, session |-> s]}
    BY <1>3 DEF RegisterSession
  <2>2. ManagerTypeOK'
    BY <1>1, <1>2, <2>1, ManagerAssumption DEF ManagerInv, ManagerTypeOK, Overdue, Unknown
  <2>3. \A e \in entries : e.session # s
    BY <1>1, <1>3 DEF ManagerInv, HasEntry
  <2>4. \A t \in SessionIds : age'[t] # Unknown <=> HasEntry(t)'
    <3>. SUFFICES ASSUME NEW t \in SessionIds PROVE age'[t] # Unknown <=> HasEntry(t)'
      OBVIOUS
    <3>1. CASE t = s
      <4>1. age'[t] # Unknown
        BY <1>1, <1>2, <3>1 DEF ManagerInv, ManagerTypeOK, Unknown
      <4>2. [chan |-> c, session |-> s] \in entries' /\ [chan |-> c, session |-> s].session = t
        BY <2>1, <3>1
      <4>3. HasEntry(t)'
        BY <4>2 DEF HasEntry
      <4>. QED BY <4>1, <4>3
    <3>2. CASE t # s
      BY <1>1, <1>2, <2>1, <3>2 DEF ManagerInv, ManagerTypeOK, HasEntry
    <3>. QED BY <3>1, <3>2
  <2>5. \A e, f \in entries' : e.session = f.session => e = f
    BY <2>1, <2>3 DEF ManagerInv
  <2>6. \A e \in entries' : e.session = SessionOf(e.chan)
    BY <2>1 DEF ManagerInv
  <2>. QED BY <2>2, <2>4, <2>5, <2>6 DEF ManagerInv
<1>4. CASE age[s] # Unknown
  <2>1. entries' = entries
    BY <1>4 DEF RegisterSession
  <2>2. ManagerTypeOK'
    BY <1>1, <1>2, <2>1, ManagerAssumption DEF ManagerInv, ManagerTypeOK, Overdue, Unknown
  <2>3. \A t \in SessionIds : age'[t] # Unknown <=> HasEntry(t)'
    BY <1>1, <1>2, <1>4, <2>1 DEF ManagerInv, ManagerTypeOK, HasEntry, Unknown
  <2>. QED BY <2>1, <2>2, <2>3 DEF ManagerInv
<1>. QED BY <1>3, <1>4

LEMMA UnregisterKeepsManager ==
    ASSUME ManagerInv, NEW id \in Ids, NEW s \in SessionIds, UnregisterSession(id, s)
    PROVE  /\ ManagerInv'
           /\ entries' \subseteq entries /\ local' \subseteq local
           /\ \A e \in entries \ entries' : e.session = s
           /\ \A t \in local \ local' : ~HasEntry(t)'
           /\ UNCHANGED <<alive, stale, health>>
<1>. DEFINE found == {e \in entries : IdOf[e.chan] = id /\ e.session = s}
<1>1. UNCHANGED <<alive, stale, health>>
  BY DEF UnregisterSession
<1>2. CASE found = {}
  <2>1. entries' = entries
    BY <1>2 DEF UnregisterSession
  <2>2. CASE HasEntry(s)
    <3>1. UNCHANGED <<age, local>>
      BY <2>1, <2>2 DEF UnregisterSession, SessionsOf, HasEntry
    <3>. QED BY <1>1, <2>1, <3>1 DEF ManagerInv, ManagerTypeOK, HasEntry
  <2>3. CASE ~HasEntry(s)
    <3>1. age' = [age EXCEPT ![s] = Unknown] /\ local' = local \ {s}
      BY <2>1, <2>3 DEF UnregisterSession, SessionsOf, HasEntry
    <3>2. ManagerTypeOK'
      BY <1>1, <2>1, <3>1, ManagerAssumption DEF ManagerInv, ManagerTypeOK, Overdue, Unknown
    <3>. QED BY <1>1, <2>1, <2>3, <3>1, <3>2 DEF ManagerInv, ManagerTypeOK, HasEntry
  <2>. QED BY <2>2, <2>3
<1>3. CASE found # {}
  <2>1. PICK e \in found : entries' = entries \ {e}
    BY <1>3 DEF UnregisterSession
  <2>2. \A f \in entries' : f.session # s
    BY <2>1 DEF ManagerInv
  <2>3. age' = [age EXCEPT ![s] = Unknown] /\ local' = local \ {s}
    BY <2>2 DEF UnregisterSession, SessionsOf
  <2>4. ManagerTypeOK'
    BY <1>1, <2>1, <2>3, ManagerAssumption DEF ManagerInv, ManagerTypeOK, Overdue, Unknown
  <2>5. \A t \in SessionIds : age'[t] # Unknown <=> HasEntry(t)'
    BY <2>1, <2>2, <2>3 DEF ManagerInv, ManagerTypeOK, HasEntry
  <2>. QED BY <1>1, <2>1, <2>2, <2>3, <2>4, <2>5 DEF ManagerInv, HasEntry
<1>. QED BY <1>2, <1>3

(* What is removed as stale is what is not local any more or never was. *)
LEMMA ExpireKeepsManager ==
    ASSUME ManagerInv, ExpireStale
    PROVE  /\ ManagerInv'
           /\ entries' = entries \ Expired /\ local' = local
           /\ \A e \in Expired : e.session \notin local /\ ~HasEntry(e.session)'
<1>1. \A e \in Expired : e \in entries /\ e.session \notin local
  BY DEF Expired
<1>2. entries' = entries \ Expired /\ local' = local
  BY <1>1 DEF ExpireStale, SessionsOf
<1>3. ManagerTypeOK'
  <2>1. age' \in [SessionIds -> Unknown .. Overdue]
    BY ManagerAssumption DEF ManagerInv, ManagerTypeOK, ExpireStale, Overdue, Unknown
  <2>2. stale' \subseteq Chans
    BY <1>1 DEF ManagerInv, ManagerTypeOK, ExpireStale
  <2>. QED BY <1>2, <2>1, <2>2 DEF ManagerInv, ManagerTypeOK, ExpireStale
<1>4. \A e \in Expired : ~HasEntry(e.session)'
  BY <1>1, <1>2 DEF ManagerInv, HasEntry
<1>5. \A s \in SessionIds : age'[s] # Unknown <=> HasEntry(s)'
  <2>. SUFFICES ASSUME NEW s \in SessionIds PROVE age'[s] # Unknown <=> HasEntry(s)'
    OBVIOUS
  <2>1. CASE s \in SessionsOf(Expired)
    BY <1>4, <2>1 DEF ExpireStale, SessionsOf
  <2>2. CASE s \notin SessionsOf(Expired)
    <3>1. age'[s] = age[s]
      BY <2>2 DEF ExpireStale
    <3>2. HasEntry(s)' <=> HasEntry(s)
      BY <1>2, <2>2 DEF HasEntry, SessionsOf
    <3>. QED BY <3>1, <3>2 DEF ManagerInv
  <2>. QED BY <2>1, <2>2
<1>. QED BY <1>1, <1>2, <1>3, <1>4, <1>5 DEF ManagerInv

(* The other operations leave the entries alone and keep who is known. *)
LEMMA OtherKeepsManager ==
    ASSUME ManagerInv,
           \/ ManagerTick
           \/ StartHealthCheck \/ StopHealthCheck \/ HealthCheckExit \/ CloseStale
           \/ \E s \in SessionIds : MarkLocal(s) \/ SessionHeartbeat(s)
           \/ \E c \in Chans : Close(c)
    PROVE  ManagerInv'
<1>1. entries' = entries
  BY DEF ManagerTick, StartHealthCheck, StopHealthCheck, HealthCheckExit, CloseStale, MarkLocal,
     SessionHeartbeat, Close
<1>2. CASE ManagerTick
  <2>1. age' \in [SessionIds -> Unknown .. Overdue]
    BY <1>2, ManagerAssumption DEF ManagerInv, ManagerTypeOK, ManagerTick, Overdue, Unknown
  <2>2. \A s \in SessionIds : age'[s] # Unknown <=> age[s] # Unknown
    BY <1>2, ManagerAssumption DEF ManagerInv, ManagerTypeOK, ManagerTick, Overdue, Unknown
  <2>. QED BY <1>1, <1>2, <2>1, <2>2 DEF ManagerInv, ManagerTypeOK, ManagerTick, HasEntry
<1>3. CASE StartHealthCheck \/ StopHealthCheck \/ HealthCheckExit \/ CloseStale
  BY <1>1, <1>3 DEF ManagerInv, ManagerTypeOK, HasEntry, StartHealthCheck, StopHealthCheck,
     HealthCheckExit, CloseStale
<1>4. ASSUME NEW s \in SessionIds, MarkLocal(s) PROVE ManagerInv'
  BY <1>1, <1>4 DEF ManagerInv, ManagerTypeOK, HasEntry, MarkLocal
<1>5. ASSUME NEW s \in SessionIds, SessionHeartbeat(s) PROVE ManagerInv'
  BY <1>1, <1>5, ManagerAssumption
  DEF ManagerInv, ManagerTypeOK, HasEntry, SessionHeartbeat, Overdue, Unknown
<1>6. ASSUME NEW c \in Chans, Close(c) PROVE ManagerInv'
  BY <1>1, <1>6 DEF ManagerInv, ManagerTypeOK, HasEntry, Close
<1>. QED BY <1>2, <1>3, <1>4, <1>5, <1>6

LEMMA SameManager == ManagerInv /\ UNCHANGED managerVars => ManagerInv'
BY DEF ManagerInv, ManagerTypeOK, HasEntry, managerVars

LEMMA ManagerInitInv == GatewayInit => ManagerInv
BY ManagerAssumption
DEF GatewayInit, ManagerInit, ManagerInv, ManagerTypeOK, HasEntry, Unknown, Overdue

LEMMA ManagerStepInv == ManagerInv /\ [GatewayNext]_gatewayVars => ManagerInv'
<1>. SUFFICES ASSUME ManagerInv, [GatewayNext]_gatewayVars PROVE ManagerInv'
  OBVIOUS
<1>1. CASE GatewayTick
  BY <1>1, OtherKeepsManager DEF GatewayTick
<1>2. CASE CheckHealth
  BY <1>2, OtherKeepsManager, ExpireKeepsManager DEF CheckHealth, HealthCheck
<1>3. ASSUME NEW c \in GwChans, RegisterStep(c) PROVE ManagerInv'
  <2>1. CASE RegisterClaim(c) \/ RegisterStart(c) \/ RegisterWebhook(c)
    BY <2>1, SameManager DEF RegisterClaim, RegisterStart, RegisterWebhook
  <2>2. CASE RegisterFails(c)
    BY <2>2, OtherKeepsManager, SessionOfChan DEF RegisterFails
  <2>3. CASE RegisterManaged(c)
    BY <2>3, RegisterKeepsManager, SessionOfChan DEF RegisterManaged
  <2>4. CASE RegisterLocal(c)
    BY <2>4, OtherKeepsManager, SessionOfChan DEF RegisterLocal
  <2>. QED BY <1>3, <2>1, <2>2, <2>3, <2>4 DEF RegisterStep
<1>4. ASSUME NEW i \in Ids, RemoveClaim(i) PROVE ManagerInv'
  BY <1>4, SameManager DEF RemoveClaim
<1>5. ASSUME NEW c \in GwChans, RemoveManaged(c) PROVE ManagerInv'
  BY <1>5, UnregisterKeepsManager, SessionOfChan DEF RemoveManaged
<1>6. ASSUME NEW c \in GwChans, RemoveClose(c) PROVE ManagerInv'
  BY <1>6, OtherKeepsManager, SessionOfChan DEF RemoveClose
<1>7. ASSUME NEW g \in Guests, GuestStep(g) PROVE ManagerInv'
  <2>1. g \in Chans /\ g \in SessionIds /\ SessionOf(g) = g /\ IdOf[g] \in Ids
    BY SessionOfChan
  <2>2. CASE GuestJoin(g)
    BY <2>1, <2>2, RegisterKeepsManager DEF GuestJoin
  <2>3. CASE GuestLeave(g)
    BY <2>1, <2>3, UnregisterKeepsManager DEF GuestLeave
  <2>4. CASE GuestLocal(g) \/ GuestBeat(g) \/ GuestClose(g)
    BY <2>1, <2>4, OtherKeepsManager DEF GuestLocal, GuestBeat, GuestClose
  <2>. QED BY <1>7, <2>2, <2>3, <2>4 DEF GuestStep
<1>8. ASSUME NEW d \in Callbacks,
             \/ \E c \in GwChans, m \in Messages : Deliver(d, c, m)
             \/ RecordCheck(d) \/ RecordStore(d)
      PROVE ManagerInv'
  BY <1>8, SameManager DEF Deliver, RecordCheck, RecordStore
<1>9. CASE UNCHANGED gatewayVars
  BY <1>9, SameManager DEF gatewayVars
<1>. QED BY <1>1, <1>2, <1>3, <1>4, <1>5, <1>6, <1>7, <1>8, <1>9 DEF GatewayNext

(* The two maps of the manager agree. *)
THEOREM ManagerInvariant == GatewaySpec => []ManagerInv
BY ManagerInitInv, ManagerStepInv, PTL DEF GatewaySpec

(* A session has an entry exactly as long as it has a heartbeat, and only  *)
(* one. *)
THEOREM EntriesMatchHeartbeats == GatewaySpec => []EntryIffHeartbeat
<1>1. ManagerInv => EntryIffHeartbeat
  <2>. SUFFICES ASSUME ManagerInv, NEW s \in SessionIds
                PROVE  Cardinality({e \in entries : e.session = s})
                         = IF age[s] = Unknown THEN 0 ELSE 1
    BY DEF EntryIffHeartbeat
  <2>1. CASE age[s] = Unknown
    <3>1. {e \in entries : e.session = s} = {}
      BY <2>1 DEF ManagerInv, HasEntry
    <3>. QED BY <2>1, <3>1, FS_EmptySet
  <2>2. CASE age[s] # Unknown
    <3>1. PICK e \in entries : e.session = s
      BY <2>2 DEF ManagerInv, HasEntry
    <3>2. {f \in entries : f.session = s} = {e}
      BY <3>1 DEF ManagerInv
    <3>. QED BY <2>2, <3>2, FS_Singleton
  <2>. QED BY <2>1, <2>2
<1>. QED BY <1>1, ManagerInvariant, PTL

-----------------------------------------------------------------------------
(* Registrations, removals and guests *)

LEMMA ChanOfGuest ==
    ASSUME ManagerInv, NEW e \in entries, NEW g \in Guests
    PROVE  e.session = g <=> e.chan = g
BY SessionOfChan, ManagerAssumption, GatewayAssumption DEF ManagerInv, ManagerTypeOK, SessionOf

LEMMA SameAdmin ==
    ASSUME AdminInv, UNCHANGED <<entries, local, alive, stale, adminVars>>
    PROVE  AdminInv'
BY DEF AdminInv, AdminTypes, DoneIsLocal, GuestsKept, HasEntry, adminVars

LEMMA HealthKeepsAdmin ==
    ASSUME ManagerInv, AdminInv, CheckHealth
    PROVE  AdminInv'
<1>1. UNCHANGED adminVars
  BY DEF CheckHealth
<1>2. CASE StartHealthCheck \/ StopHealthCheck \/ HealthCheckExit
  BY <1>1, <1>2, SameAdmin DEF StartHealthCheck, StopHealthCheck, HealthCheckExit
<1>3. CASE CloseStale
  <2>1. PICK c \in stale : alive' = [alive EXCEPT ![c] = FALSE] /\ stale' = stale \ {c}
    BY <1>3 DEF CloseStale
  <2>2. UNCHANGED <<entries, local>>
    BY <1>3 DEF CloseStale
  <2>3. \A g \in Guests : HasEntry(g)' <=> HasEntry(g)
    BY <2>2 DEF HasEntry
  <2>4. \A g \in Guests : g # c => alive'[g] = alive[g] /\ (g \in stale' <=> g \in stale)
    BY <2>1, SessionOfChan DEF ManagerInv, ManagerTypeOK
  <2>5. c \in Guests => alive'[c] = FALSE /\ c \in stale /\ c \notin stale'
    BY <2>1 DEF ManagerInv, ManagerTypeOK
  <2>6. GuestsKept'
    BY <1>1, <2>3, <2>4, <2>5 DEF AdminInv, GuestsKept, adminVars
  <2>. QED BY <1>1, <2>2, <2>6 DEF AdminInv, AdminTypes, DoneIsLocal, adminVars
<1>4. CASE ExpireStale
  <2>1. /\ entries' = entries \ Expired /\ local' = local /\ UNCHANGED alive
        /\ stale = {} /\ stale' = {e.chan : e \in Expired}
        /\ Expired \subseteq entries
        /\ \A e \in Expired : ~HasEntry(e.session)'
    BY <1>4, ExpireKeepsManager DEF ExpireStale, Expired
  <2>2. \A g \in Guests : g \in stale' => HasEntry(g) /\ ~HasEntry(g)'
    BY <2>1, ChanOfGuest DEF HasEntry
  <2>3. \A g \in Guests : g \notin stale' => (HasEntry(g) <=> HasEntry(g)')
    BY <2>1, ChanOfGuest DEF HasEntry
  <2>4. GuestsKept'
    BY <1>1, <2>1, <2>2, <2>3 DEF AdminInv, GuestsKept, adminVars
  <2>. QED BY <1>1, <2>1, <2>4 DEF AdminInv, AdminTypes, DoneIsLocal, adminVars
<1>. QED BY <1>2, <1>3, <1>4 DEF CheckHealth, HealthCheck

(* A channel of the gateway has nothing to do with the sessions of guests. *)
LEMMA RegisterKeepsAdmin ==
    ASSUME ManagerInv, AdminInv, NEW c \in GwChans, RegisterStep(c)
    PROVE  AdminInv'
<1>1. c \in Chans /\ c \notin Guests /\ IdOf[c] \in Ids /\ SessionOf(c) = IdOf[c]
  BY SessionOfChan, GatewayAssumption
<1>2. AdminTypes'
  BY <1>1 DEF AdminInv, AdminTypes, RegisterStep, RegisterClaim, RegisterStart, RegisterFails,
     RegisterWebhook, RegisterManaged, RegisterLocal, RegSteps
<1>3. CASE RegisterClaim(c) \/ RegisterStart(c) \/ RegisterWebhook(c)
  <2>1. UNCHANGED <<entries, local, alive, stale, guest>>
    BY <1>3 DEF RegisterClaim, RegisterStart, RegisterWebhook, managerVars
  <2>2. \A d \in GwChans : reg'[d] = "done" => reg[d] = "done"
    BY <1>3 DEF AdminInv, AdminTypes, RegisterClaim, RegisterStart, RegisterWebhook
  <2>. QED BY <1>2, <2>1, <2>2 DEF AdminInv, DoneIsLocal, GuestsKept, HasEntry
<1>4. CASE RegisterFails(c)
  <2>1. UNCHANGED <<entries, local, stale, guest>> /\ alive' = [alive EXCEPT ![c] = FALSE]
    BY <1>4 DEF RegisterFails, Close
  <2>2. \A d \in GwChans : reg'[d] = "done" => reg[d] = "done"
    BY <1>4 DEF AdminInv, AdminTypes, RegisterFails
  <2>3. \A g \in Guests : alive'[g] = alive[g]
    BY <1>1, <2>1, SessionOfChan DEF ManagerInv, ManagerTypeOK
  <2>. QED BY <1>2, <2>1, <2>2, <2>3 DEF AdminInv, DoneIsLocal, GuestsKept, HasEntry
<1>5. CASE RegisterManaged(c)
  <2>1. /\ UNCHANGED <<local, alive, stale, guest>>
        /\ entries' = entries \/ entries' = entries \cup {[chan |-> c, session |-> IdOf[c]]}
        /\ reg' = [reg EXCEPT ![c] = "managed"]
    BY <1>5 DEF RegisterManaged, RegisterSession
  <2>2. \A g \in Guests : HasEntry(g)' <=> HasEntry(g)
    BY <1>1, <2>1, SessionOfChan DEF HasEntry
  <2>3. GuestsKept'
    BY <2>1, <2>2 DEF AdminInv, GuestsKept
  <2>4. DoneIsLocal'
    BY <2>1 DEF AdminInv, AdminTypes, DoneIsLocal
  <2>. QED BY <1>2, <2>3, <2>4 DEF AdminInv
<1>6. CASE RegisterLocal(c)
  <2>1. /\ UNCHANGED <<entries, alive, stale, guest>>
        /\ local' = local \cup {IdOf[c]} /\ reg' = [reg EXCEPT ![c] = "done"]
    BY <1>6 DEF RegisterLocal, MarkLocal
  <2>2. DoneIsLocal'
    <3>. SUFFICES ASSUME NEW e \in entries, e.chan \in GwChans, reg'[e.chan] = "done"
                  PROVE  e.session \in local'
      BY <2>1 DEF DoneIsLocal
    <3>1. CASE e.chan = c
      BY <1>1, <2>1, <3>1 DEF ManagerInv
    <3>2. CASE e.chan # c
      BY <2>1, <3>2 DEF AdminInv, AdminTypes, DoneIsLocal
    <3>. QED BY <3>1, <3>2
  <2>. QED BY <1>2, <2>1, <2>2 DEF AdminInv, GuestsKept, HasEntry
<1>. QED BY <1>3, <1>4, <1>5, <1>6 DEF RegisterStep

LEMMA RemoveKeepsAdmin ==
    ASSUME ManagerInv, AdminInv,
           \/ \E i \in Ids : RemoveClaim(i)
           \/ \E c \in GwChans : RemoveManaged(c) \/ RemoveClose(c)
    PROVE  AdminInv'
<1>1. ASSUME NEW i \in Ids, RemoveClaim(i) PROVE AdminInv'
  <2>1. UNCHANGED <<entries, local, alive, stale, reg, guest>>
    BY <1>1 DEF RemoveClaim, managerVars
  <2>2. AdminTypes'
    BY <1>1 DEF AdminInv, AdminTypes, RemoveClaim
  <2>. QED BY <2>1, <2>2 DEF AdminInv, DoneIsLocal, GuestsKept, HasEntry
<1>2. ASSUME NEW c \in GwChans, RemoveManaged(c) PROVE AdminInv'
  <2>1. IdOf[c] \in Ids /\ IdOf[c] \in SessionIds /\ IdOf[c] \notin Guests
    BY SessionOfChan
  <2>2. /\ entries' \subseteq entries /\ local' \subseteq local
        /\ \A e \in entries \ entries' : e.session = IdOf[c]
        /\ \A t \in local \ local' : ~HasEntry(t)'
        /\ UNCHANGED <<alive, stale>>
    BY <1>2, <2>1, UnregisterKeepsManager DEF RemoveManaged
  <2>3. UNCHANGED <<reg, guest>>
    BY <1>2 DEF RemoveManaged
  <2>4. AdminTypes'
    BY <1>2 DEF AdminInv, AdminTypes, RemoveManaged
  <2>5. DoneIsLocal'
    BY <2>2, <2>3 DEF AdminInv, DoneIsLocal, HasEntry
  <2>6. \A g \in Guests : HasEntry(g)' <=> HasEntry(g)
    BY <2>1, <2>2 DEF HasEntry
  <2>7. GuestsKept'
    BY <2>2, <2>3, <2>6 DEF AdminInv, GuestsKept
  <2>. QED BY <2>4, <2>5, <2>7 DEF AdminInv
<1>3. ASSUME NEW c \in GwChans, RemoveClose(c) PROVE AdminInv'
  <2>1. UNCHANGED <<entries, local, stale, reg, guest>> /\ alive' = [alive EXCEPT ![c] = FALSE]
    BY <1>3 DEF RemoveClose, Close
  <2>2. \A g \in Guests : alive'[g] = alive[g]
    <3>1. c \notin Guests /\ Guests \subseteq Chans
      BY GatewayAssumption
    <3>. QED BY <2>1, <3>1 DEF ManagerInv, ManagerTypeOK
  <2>3. AdminTypes'
    BY <1>3 DEF AdminInv, AdminTypes, RemoveClose
  <2>. QED BY <2>1, <2>2, <2>3 DEF AdminInv, DoneIsLocal, GuestsKept, HasEntry
<1>. QED BY <1>1, <1>2, <1>3

LEMMA GuestKeepsAdmin ==
    ASSUME ManagerInv, AdminInv, NEW g \in Guests, GuestStep(g)
    PROVE  AdminInv'
<1>1. /\ g \in Chans /\ g \in SessionIds /\ g \notin GwChans /\ g \notin Ids /\ IdOf[g] \in Ids
      /\ UNCHANGED <<registered, webhook, reg, del>>
  BY SessionOfChan, GatewayAssumption DEF GuestStep
<1>2. AdminTypes'
  BY <1>1 DEF AdminInv, AdminTypes, GuestStep, GuestJoin, GuestLocal, GuestBeat, GuestClose,
     GuestLeave, GuestMove
<1>3. CASE GuestJoin(g)
  <2>1. guest[g] = "new" /\ guest' = [guest EXCEPT ![g] = "in"]
    BY <1>3 DEF GuestJoin, GuestMove
  <2>2. ~HasEntry(g) /\ alive[g] /\ g \notin stale
    BY <2>1 DEF AdminInv, GuestsKept
  <2>3. /\ entries' = entries \cup {[chan |-> g, session |-> g]}
        /\ UNCHANGED <<local, alive, stale>>
    BY <1>1, <1>3, <2>2 DEF GuestJoin, RegisterSession, ManagerInv
  <2>4. DoneIsLocal'
    BY <1>1, <2>3 DEF AdminInv, DoneIsLocal
  <2>5. HasEntry(g)'
    <3>1. [chan |-> g, session |-> g] \in entries' /\ [chan |-> g, session |-> g].session = g
      BY <2>3
    <3>. QED BY <3>1 DEF HasEntry
  <2>6. \A h \in Guests : h # g => (HasEntry(h)' <=> HasEntry(h))
    BY <2>3 DEF HasEntry
  <2>7. GuestsKept'
    <3>. SUFFICES ASSUME NEW h \in Guests
                  PROVE  /\ guest'[h] = "new" => alive'[h] /\ ~HasEntry(h)' /\ h \notin stale'
                         /\ h \in stale' => ~HasEntry(h)'
                         /\ guest'[h] = "in" => (alive'[h] <=> HasEntry(h)' \/ h \in stale')
      BY DEF GuestsKept
    <3>1. CASE h = g
      BY <2>1, <2>2, <2>3, <2>5, <3>1 DEF AdminInv, AdminTypes
    <3>2. CASE h # g
      BY <2>1, <2>3, <2>6, <3>2 DEF AdminInv, AdminTypes, GuestsKept
    <3>. QED BY <3>1, <3>2
  <2>. QED BY <1>2, <2>4, <2>7 DEF AdminInv
<1>4. CASE GuestLocal(g) \/ GuestBeat(g)
  <2>1. guest[g] = "in" /\ guest' = [guest EXCEPT ![g] = "in"]
    BY <1>4 DEF GuestLocal, GuestBeat, GuestMove
  <2>2. guest' = guest
    BY <2>1 DEF AdminInv, AdminTypes
  <2>3. local \subseteq local' /\ UNCHANGED <<entries, alive, stale>>
    BY <1>4 DEF GuestLocal, GuestBeat, MarkLocal, SessionHeartbeat
  <2>. QED BY <1>1, <1>2, <2>2, <2>3 DEF AdminInv, DoneIsLocal, GuestsKept, HasEntry
<1>5. CASE GuestClose(g)
  <2>1. /\ guest' = [guest EXCEPT ![g] = "closed"] /\ guest[g] = "in"
        /\ alive' = [alive EXCEPT ![g] = FALSE] /\ UNCHANGED <<entries, local, stale>>
    BY <1>5 DEF GuestClose, GuestMove, Close
  <2>2. \A h \in Guests : h # g => guest'[h] = guest[h] /\ alive'[h] = alive[h]
    BY <2>1, SessionOfChan DEF AdminInv, AdminTypes, ManagerInv, ManagerTypeOK
  <2>3. guest'[g] = "closed"
    BY <2>1 DEF AdminInv, AdminTypes
  <2>4. \A h \in Guests : HasEntry(h)' <=> HasEntry(h)
    BY <2>1 DEF HasEntry
  <2>5. GuestsKept'
    BY <2>1, <2>2, <2>3, <2>4 DEF AdminInv, GuestsKept
  <2>. QED BY <1>1, <1>2, <2>1, <2>5 DEF AdminInv, DoneIsLocal
<1>6. CASE GuestLeave(g)
  <2>1. guest' = [guest EXCEPT ![g] = "out"]
    BY <1>6 DEF GuestLeave, GuestMove
  <2>2. /\ entries' \subseteq entries /\ local' \subseteq local
        /\ \A e \in entries \ entries' : e.session = g
        /\ \A t \in local \ local' : ~HasEntry(t)'
        /\ UNCHANGED <<alive, stale>>
    BY <1>1, <1>6, UnregisterKeepsManager DEF GuestLeave
  <2>3. DoneIsLocal'
    BY <1>1, <2>2 DEF AdminInv, DoneIsLocal, HasEntry
  <2>4. \A h \in Guests : h # g => (HasEntry(h)' <=> HasEntry(h)) /\ guest'[h] = guest[h]
    BY <2>1, <2>2 DEF HasEntry, AdminInv, AdminTypes
  <2>5. guest'[g] = "out" /\ (HasEntry(g)' => HasEntry(g))
    BY <2>1, <2>2 DEF HasEntry, AdminInv, AdminTypes
  <2>6. GuestsKept'
    BY <2>2, <2>4, <2>5 DEF AdminInv, GuestsKept
  <2>. QED BY <1>2, <2>3, <2>6 DEF AdminInv
<1>. QED BY <1>3, <1>4, <1>5, <1>6 DEF GuestStep

LEMMA AdminInitInv == GatewayInit => AdminInv
BY SessionOfChan
DEF GatewayInit, ManagerInit, AdminInv, AdminTypes, DoneIsLocal, GuestsKept, HasEntry, RegSteps

LEMMA AdminStepInv == ManagerInv /\ AdminInv /\ [GatewayNext]_gatewayVars => AdminInv'
<1>. SUFFICES ASSUME ManagerInv, AdminInv, [GatewayNext]_gatewayVars PROVE AdminInv'
  OBVIOUS
<1>1. CASE GatewayTick
  BY <1>1, SameAdmin DEF GatewayTick, ManagerTick
<1>2. CASE CheckHealth
  BY <1>2, HealthKeepsAdmin
<1>3. CASE \E c \in GwChans : RegisterStep(c)
  BY <1>3, RegisterKeepsAdmin
<1>4. CASE \/ \E i \in Ids : RemoveClaim(i)
           \/ \E c \in GwChans : RemoveManaged(c) \/ RemoveClose(c)
  BY <1>4, RemoveKeepsAdmin
<1>5. CASE \E g \in Guests : GuestStep(g)
  BY <1>5, GuestKeepsAdmin
<1>6. ASSUME NEW d \in Callbacks,
             \/ \E c \in GwChans, m \in Messages : Deliver(d, c, m)
             \/ RecordCheck(d) \/ RecordStore(d)
      PROVE AdminInv'
  BY <1>6, SameAdmin DEF Deliver, RecordCheck, RecordStore, managerVars
<1>7. CASE UNCHANGED gatewayVars
  BY <1>7, SameAdmin DEF gatewayVars, managerVars
<1>. QED BY <1>1, <1>2, <1>3, <1>4, <1>5, <1>6, <1>7 DEF GatewayNext

(* Completed registrations stay marked, and guests are kept or closed. *)
THEOREM AdminInvariant == GatewaySpec => []AdminInv
BY AdminInitInv, AdminStepInv, ManagerInvariant, PTL DEF GatewaySpec

(* A guest's channel is alive exactly as long as notifications reach it or *)
(* the health check is about to close it. *)
THEOREM GuestsAliveWhileManaged == GatewaySpec => []GuestAliveIffManaged
<1>1. ManagerInv /\ AdminInv => GuestAliveIffManaged
  <2>. SUFFICES ASSUME ManagerInv, AdminInv, NEW g \in Guests, guest[g] = "in"
                PROVE  alive[g] <=> [chan |-> g, session |-> g] \in entries \/ g \in stale
    BY DEF GuestAliveIffManaged
  <2>1. HasEntry(g) => [chan |-> g, session |-> g] \in entries
    <3>1. SUFFICES ASSUME NEW e \in entries, e.session = g
                   PROVE  e = [chan |-> g, session |-> g]
      BY DEF HasEntry
    <3>2. e.chan = g /\ e \in [chan : Chans, session : SessionIds]
      BY <3>1, ChanOfGuest DEF ManagerInv, ManagerTypeOK
    <3>. QED BY <3>1, <3>2
  <2>2. [chan |-> g, session |-> g] \in entries => HasEntry(g)
    <3>1. [chan |-> g, session |-> g].session = g
      OBVIOUS
    <3>. QED BY <3>1 DEF HasEntry
  <2>. QED BY <2>1, <2>2 DEF AdminInv, GuestsKept
<1>. QED BY <1>1, ManagerInvariant, AdminInvariant, PTL

(* The health check never removes a channel whose registration is          *)
(* complete. *)
THEOREM HealthCheckSparesRegistered == GatewaySpec => HealthCheckSparesGateway
<1>1. ManagerInv /\ AdminInv /\ [GatewayNext]_gatewayVars
        => [\A c \in GwChans : c \in stale' \ stale => reg[c] # "done"]_gatewayVars
  <2>. SUFFICES ASSUME ManagerInv, AdminInv, GatewayNext, NEW c \in GwChans, c \in stale' \ stale
                PROVE  reg[c] # "done"
    OBVIOUS
  <2>1. ExpireStale
    BY DEF GatewayNext, GatewayTick, ManagerTick, CheckHealth, HealthCheck, StartHealthCheck,
       StopHealthCheck, HealthCheckExit, CloseStale, RemoveClaim, RegisterStep, RegisterClaim,
       RegisterStart, RegisterFails, RegisterWebhook, RegisterManaged, RegisterLocal,
       RegisterSession, MarkLocal, Close, RemoveManaged, UnregisterSession, RemoveClose,
       GuestStep, GuestJoin, GuestLocal, GuestBeat, GuestClose, GuestLeave, SessionHeartbeat,
       Deliver, RecordCheck, RecordStore, managerVars
  <2>2. PICK e \in Expired : e.chan = c
    BY <2>1 DEF ExpireStale
  <2>3. e \in entries /\ e.session \notin local
    BY <2>2 DEF Expired
  <2>. QED BY <2>2, <2>3 DEF AdminInv, DoneIsLocal
<1>. QED BY <1>1, ManagerInvariant, AdminInvariant, PTL DEF GatewaySpec, HealthCheckSparesGateway

-----------------------------------------------------------------------------
(* The inbound path *)

LEMMA InboundInitInv == GatewayInit => InboundInv
BY GatewayAssumption DEF GatewayInit, InboundInv, InboundTypes, Unknown, Forgotten

LEMMA InboundStepInv == InboundInv /\ [GatewayNext]_gatewayVars => InboundInv'
<1>. SUFFICES ASSUME InboundInv, [GatewayNext]_gatewayVars PROVE InboundInv'
  OBVIOUS
<1>1. CASE UNCHANGED inboundVars
  BY <1>1 DEF InboundInv, InboundTypes, inboundVars
<1>2. CASE GatewayTick
  <2>1. \A n \in Unknown .. Forgotten :
           /\ Older(n, Forgotten) \in Unknown .. Forgotten
           /\ n = Unknown => Older(n, Forgotten) = Unknown
           /\ n = Forgotten => Older(n, Forgotten) = Forgotten
           /\ n >= 0 => Older(n, Forgotten) >= 0
    BY GatewayAssumption DEF Older, Unknown, Forgotten
  <2>2. /\ dedup' \in [Keys -> Unknown .. Forgotten]
        /\ last' \in [Keys -> Unknown .. Forgotten]
    BY <1>2, <2>1 DEF GatewayTick, InboundInv, InboundTypes
  <2>3. pruneAge' \in 0 .. PruneEvery + 1
    BY <1>2, GatewayAssumption DEF GatewayTick, InboundInv, InboundTypes, Older, Unknown
  <2>4. call' \in [Callbacks -> Callback \cup {NoCallback}]
    <3>. SUFFICES ASSUME NEW d \in Callbacks, call[d].at = "store"
                  PROVE  [call[d] EXCEPT !.age = Older(@, Forgotten)] \in Callback
      BY <1>2 DEF GatewayTick, InboundInv, InboundTypes
    <3>1. call[d] \in Callback
      BY DEF InboundInv, InboundTypes, NoCallback
    <3>2. Older(call[d].age, Forgotten) \in 0 .. Forgotten
      BY <2>1, <3>1, GatewayAssumption DEF Callback, Unknown, Forgotten
    <3>. QED BY <3>1, <3>2 DEF Callback
  <2>5. \A k \in Keys : dedup'[k] = last'[k] \/ (dedup'[k] = Unknown /\ last'[k] = Forgotten)
    BY <1>2, <2>1 DEF GatewayTick, InboundInv, InboundTypes
  <2>. QED BY <2>2, <2>3, <2>4, <2>5 DEF InboundInv, InboundTypes
<1>3. ASSUME NEW d \in Callbacks, NEW c \in GwChans, NEW m \in Messages, Deliver(d, c, m)
      PROVE InboundInv'
  <2>1. IdOf[c] \in Ids
    BY SessionOfChan
  <2>2. [at |-> "record", key |-> <<IdOf[c], m>>, age |-> 0] \in Callback
    BY <2>1, GatewayAssumption DEF Callback, Keys, Forgotten
  <2>. QED BY <1>3, <2>2 DEF Deliver, InboundInv, InboundTypes
<1>4. ASSUME NEW d \in Callbacks, RecordCheck(d) PROVE InboundInv'
  <2>1. call[d] \in Callback
    BY <1>4 DEF InboundInv, InboundTypes, NoCallback, RecordCheck
  <2>2. call' \in [Callbacks -> Callback \cup {NoCallback}]
    BY <1>4, <2>1 DEF InboundInv, InboundTypes, RecordCheck, Callback
  <2>3. Pruned \in [Keys -> Unknown .. Forgotten]
    BY GatewayAssumption DEF InboundInv, InboundTypes, Pruned, Unknown, Forgotten
  <2>4. \A k \in Keys : Pruned[k] = last[k] \/ (Pruned[k] = Unknown /\ last[k] = Forgotten)
    BY GatewayAssumption DEF InboundInv, InboundTypes, Pruned, Unknown, Forgotten
  <2>5. pruneAge' \in 0 .. PruneEvery + 1
    BY <1>4, GatewayAssumption DEF InboundInv, InboundTypes, RecordCheck
  <2>. QED BY <1>4, <2>2, <2>3, <2>4, <2>5 DEF RecordCheck, InboundInv, InboundTypes
<1>5. ASSUME NEW d \in Callbacks, RecordStore(d) PROVE InboundInv'
  <2>1. call[d] \in Callback /\ call[d].key \in Keys /\ call[d].age \in Unknown .. Forgotten
    BY <1>5, GatewayAssumption
    DEF InboundInv, InboundTypes, NoCallback, RecordStore, Callback, Unknown, Forgotten
  <2>. QED BY <1>5, <2>1 DEF RecordStore, InboundInv, InboundTypes
<1>6. CASE \/ CheckHealth
           \/ \E i \in Ids : RemoveClaim(i)
           \/ \E c \in GwChans : RegisterStep(c) \/ RemoveManaged(c) \/ RemoveClose(c)
           \/ \E g \in Guests : GuestStep(g)
  <2>1. UNCHANGED inboundVars
    BY <1>6 DEF CheckHealth, RemoveClaim, RegisterStep, RegisterClaim, RegisterStart,
       RegisterFails, RegisterWebhook, RegisterManaged, RegisterLocal, RemoveManaged,
       RemoveClose, GuestStep
  <2>. QED BY <1>1, <2>1
<1>. QED BY <1>1, <1>2, <1>3, <1>4, <1>5, <1>6 DEF GatewayNext, gatewayVars

(* The dedup map has every record that is not too old. *)
THEOREM InboundInvariant == GatewaySpec => []InboundInv
BY InboundInitInv, InboundStepInv, PTL DEF GatewaySpec

(* A message that was recorded less than DedupTTL ago is recognised. *)
THEOREM ReplaysAreDropped == GatewaySpec => ReplaysDropped
<1>1. InboundInv /\ [GatewayNext]_gatewayVars
        => [\A d \in Callbacks :
               call[d].at = "record" /\ call'[d].at = "store"
                  => last[call[d].key] \in {Unknown, Forgotten}]_gatewayVars
  <2>. SUFFICES ASSUME InboundInv, GatewayNext, NEW d \in Callbacks,
                       call[d].at = "record", call'[d].at = "store"
                PROVE  last[call[d].key] \in {Unknown, Forgotten}
    OBVIOUS
  <2>1. call[d] \in Callback /\ call[d].key \in Keys
    BY DEF InboundInv, InboundTypes, NoCallback, Callback
  <2>2. call'[d] # call[d]
    OBVIOUS
  <2>3. ~GatewayTick
    BY DEF GatewayTick, InboundInv, InboundTypes
  <2>4. PICK b \in Callbacks :
           \/ \E c \in GwChans, m \in Messages : Deliver(b, c, m)
           \/ RecordCheck(b) \/ RecordStore(b)
    BY <2>2, <2>3
    DEF GatewayNext, CheckHealth, RemoveClaim, RegisterStep, RegisterClaim, RegisterStart,
       RegisterFails, RegisterWebhook, RegisterManaged, RegisterLocal, RemoveManaged,
       RemoveClose, GuestStep, inboundVars
  <2>5. b = d
    BY <2>2, <2>4 DEF Deliver, RecordCheck, RecordStore, InboundInv, InboundTypes
  <2>6. RecordCheck(d)
    BY <2>4, <2>5 DEF Deliver, RecordStore, InboundInv, InboundTypes, NoCallback
  <2>7. Pruned[call[d].key] = Unknown
    BY <2>6 DEF RecordCheck, InboundInv, InboundTypes, NoCallback
  <2>. QED BY <2>1, <2>7, GatewayAssumption
       DEF Pruned, InboundInv, InboundTypes, Unknown, Forgotten
<1>. QED BY <1>1, InboundInvariant, PTL DEF GatewaySpec, ReplaysDropped

-----------------------------------------------------------------------------
(* Types of the gateway, the manager and the inbound path. *)
THEOREM GatewayTypes == GatewaySpec => []GatewayTypeOK
<1>1. ManagerInv /\ AdminInv /\ InboundInv => GatewayTypeOK
  BY DEF ManagerInv, AdminInv, AdminTypes, InboundInv, InboundTypes, GatewayTypeOK
<1>. QED BY <1>1, ManagerInvariant, AdminInvariant, InboundInvariant, PTL
=============================================================================
