------------------------- MODULE BrokerPubSubProofs -------------------------
(***************************************************************************)
(* The publish/subscribe tables implement Mailbox, for any number of       *)
(* sessions, channels and concurrent Cleanups, any time-to-live and any    *)
(* bound on the time a statement waits.                                    *)
(*                                                                         *)
(* PubSubInv is what the proof needs to know of the tables: nothing refers *)
(* to a message id that has not been given out yet (otherwise a message    *)
(* could be published that somebody seems to have acked), and the time a   *)
(* Cleanup works with is not ahead of the clock (otherwise it would drop   *)
(* sessions and messages too early).                                       *)
(***************************************************************************)
EXTENDS BrokerPubSub, TLAPS

IdsGivenOut ==
    /\ nextId >= 1
    /\ \A m \in messages : m.id < nextId
    /\ \A r \in receipts : r[1] < nextId
    /\ \A s \in Sessions : \A id \in inbox[s] : id < nextId

CleanersBehind == \A k \in Cleaners : cleaner[k].now <= clock

PubSubInv == PubSubTypeOK /\ IdsGivenOut /\ CleanersBehind

-----------------------------------------------------------------------------
(* The invariant *)

(* Consume returns ids of rows of the table. *)
LEMMA BatchFromTable ==
    ASSUME NEW topic, NEW c, NEW s, NEW now, NEW limit
    PROVE  Batch(topic, c, s, now, limit) \subseteq {m.id : m \in messages}
BY DEF Batch, FirstById, Consumable

LEMMA SampledRange == ASSUME clock \in Nat PROVE Sampled \subseteq 0 .. clock
BY DEF Sampled

LEMMA RegistryKeepsInv ==
    ASSUME PubSubInv, NEW s \in Sessions,
           (\E c \in Channels : Register(s, c)) \/ Unregister(s) \/ Heartbeat(s)
    PROVE  PubSubInv'
<1>. USE DEF PubSubInv, PubSubTypeOK, IdsGivenOut, CleanersBehind
<1>0. Sampled \subseteq Nat
  BY SampledRange
<1>1. CASE \E c \in Channels : Register(s, c)
  BY <1>0, <1>1 DEF Register
<1>2. CASE Unregister(s)
  BY <1>2 DEF Unregister, NoSession
<1>3. CASE Heartbeat(s)
  BY <1>0, <1>3 DEF Heartbeat
<1>. QED BY <1>1, <1>2, <1>3

LEMMA PublishKeepsInv ==
    ASSUME PubSubInv, NEW topic \in Topics, NEW c \in Channels, Publish(topic, c)
    PROVE  PubSubInv'
<1>. USE DEF PubSubInv, PubSubTypeOK, IdsGivenOut, CleanersBehind
<1>1. PICK t \in Sampled :
         messages' = messages \cup
             {[id |-> nextId, topic |-> topic, channel |-> c, created |-> t]}
  BY DEF Publish
<1>2. t \in Nat
  BY SampledRange
<1>3. [id |-> nextId, topic |-> topic, channel |-> c, created |-> t] \in Message
  BY <1>2 DEF Message
<1>4. messages' \subseteq Message
  BY <1>1, <1>3
<1>5. \A m \in messages : m.id \in Nat
  BY DEF Message
<1>6. \A m \in messages' : m.id < nextId'
  BY <1>1, <1>5 DEF Publish
<1>. QED BY <1>4, <1>6 DEF Publish

LEMMA ConsumeKeepsInv ==
    ASSUME PubSubInv, NEW topic, NEW c, NEW s \in Sessions, Consume(topic, c, s, ConsumeLimit)
    PROVE  PubSubInv'
<1>. USE DEF PubSubInv, PubSubTypeOK, IdsGivenOut, CleanersBehind
<1>1. PICK t \in Sampled :
         inbox' = [inbox EXCEPT ![s] = @ \cup Batch(topic, c, s, t, ConsumeLimit)]
  BY DEF Consume
<1>2. \A id \in Batch(topic, c, s, t, ConsumeLimit) : id \in Nat /\ id < nextId
  BY BatchFromTable DEF Message
<1>. QED BY <1>1, <1>2 DEF Consume

LEMMA AckKeepsInv ==
    ASSUME PubSubInv, NEW s \in Sessions, NEW ids \in SUBSET inbox[s], AckAll(s, ids)
    PROVE  PubSubInv'
<1>. USE DEF PubSubInv, PubSubTypeOK, IdsGivenOut, CleanersBehind
<1>1. ids \X {s} \subseteq Nat \X Sessions
  OBVIOUS
<1>2. \A r \in ids \X {s} : r[1] < nextId
  OBVIOUS
<1>. QED BY <1>1, <1>2 DEF AckAll

LEMMA CleanupKeepsInv ==
    ASSUME PubSubInv, NEW k \in Cleaners, CleanupStep(k)
    PROVE  PubSubInv'
<1>. USE DEF PubSubInv, PubSubTypeOK, IdsGivenOut, CleanersBehind, CleanerSteps
<1>1. CASE CleanupBegin(k)
  BY <1>1, SampledRange DEF CleanupBegin
<1>2. CASE CleanupSessions(k)
  BY <1>2 DEF CleanupSessions, NoSession
<1>3. CASE CleanupExpired(k)
  BY <1>3 DEF CleanupExpired
<1>4. CASE CleanupAcked(k)
  <2>1. \/ cleaner' = [cleaner EXCEPT ![k].batch = @ + 1]
        \/ cleaner' = [cleaner EXCEPT ![k].step = "orphans"]
    BY <1>4 DEF CleanupAcked
  <2>. QED BY <1>4, <2>1 DEF CleanupAcked
<1>5. CASE CleanupOrphans(k)
  BY <1>5 DEF CleanupOrphans, Idle
<1>6. CASE CleanupFails(k)
  BY <1>6 DEF CleanupFails, Idle
<1>7. CASE CleanupCancelled(k)
  BY <1>7 DEF CleanupCancelled, Idle
<1>. QED BY <1>1, <1>2, <1>3, <1>4, <1>5, <1>6, <1>7 DEF CleanupStep

LEMMA InvStep ==
    ASSUME PubSubInv, [PubSubNext]_pubsubVars
    PROVE  PubSubInv'
<1>1. CASE PubSubTick
  BY <1>1 DEF PubSubTick, PubSubInv, PubSubTypeOK, IdsGivenOut, CleanersBehind
<1>2. CASE CleanStaleReceipts
  BY <1>2 DEF CleanStaleReceipts, PubSubInv, PubSubTypeOK, IdsGivenOut, CleanersBehind
<1>3. CASE UNCHANGED pubsubVars
  BY <1>3 DEF pubsubVars, PubSubInv, PubSubTypeOK, IdsGivenOut, CleanersBehind
<1>. QED
  BY <1>1, <1>2, <1>3, RegistryKeepsInv, PublishKeepsInv, ConsumeKeepsInv, AckKeepsInv,
     CleanupKeepsInv
  DEF PubSubNext

LEMMA InvInit == PubSubInit => PubSubInv
BY DEF PubSubInit, PubSubInv, PubSubTypeOK, IdsGivenOut, CleanersBehind, NoSession, Idle,
       CleanerSteps

(* Ids in the tables and in the inboxes were given out by AUTOINCREMENT,   *)
(* and a Cleanup works with a time that is not in the future. *)
THEOREM PubSubInvariant == PubSubSpec => []PubSubInv
BY InvInit, InvStep, PTL DEF PubSubSpec

(* The rows of the three tables, the inboxes and the Cleanups keep their   *)
(* types. *)
THEOREM PubSubTypes == PubSubSpec => []PubSubTypeOK
BY PubSubInvariant, PTL DEF PubSubInv
-----------------------------------------------------------------------------
(* Refinement *)

(* PendingFor, by its members. *)
LEMMA PendingMember ==
    ASSUME NEW s, NEW x
    PROVE  x \in PendingFor(s) <=> \E m \in Wanted(s) : x = Letter(m)
BY DEF PendingFor

LEMMA SamePending ==
    ASSUME NEW s, Wanted(s)' = Wanted(s)
    PROVE  PendingFor(s)' = PendingFor(s)
BY DEF PendingFor, Letter

(* A session without a row wants nothing. *)
LEMMA NobodyWants ==
    ASSUME PubSubTypeOK, NEW s \in Sessions, ~Registered(s)
    PROVE  Wanted(s) = {} /\ PendingFor(s) = {}
BY PubSubAssumption DEF PubSubTypeOK, Registered, Wanted, Message, PendingFor

(* What is not visible to Mailbox: a step that leaves what every session   *)
(* wants alone. *)
LEMMA Invisible ==
    ASSUME UNCHANGED <<clock, sess, nextId, inbox>>,
           \A s \in Sessions : Wanted(s)' = Wanted(s)
    PROVE  UNCHANGED M!mailboxVars
BY SamePending DEF M!mailboxVars

LEMMA TickRefines ==
    ASSUME PubSubTick PROVE M!Elapse
<1>1. \A s \in Sessions : PendingFor(s)' = PendingFor(s)
  BY SamePending DEF PubSubTick, Wanted, Acked
<1>. QED BY <1>1 DEF PubSubTick, M!Elapse

LEMMA PurgeIsInvisible ==
    ASSUME PubSubInv, CleanStaleReceipts
    PROVE  UNCHANGED M!mailboxVars
<1>1. ASSUME NEW s \in Sessions
      PROVE  Wanted(s)' = Wanted(s)
  <2>1. CASE Registered(s)
    BY <2>1 DEF CleanStaleReceipts, Wanted, Acked, Registered, PubSubInv, PubSubTypeOK
  <2>2. CASE ~Registered(s)
    <3>1. Wanted(s) = {}
      BY <2>2, NobodyWants DEF PubSubInv
    <3>2. Wanted(s)' = {}
      BY <2>2, PubSubAssumption
      DEF CleanStaleReceipts, Wanted, Registered, PubSubInv, PubSubTypeOK, Message
    <3>. QED BY <3>1, <3>2
  <2>. QED BY <2>1, <2>2
<1>. QED BY <1>1, Invisible DEF CleanStaleReceipts

LEMMA PublishRefines ==
    ASSUME PubSubInv, NEW topic \in Topics, NEW c \in Channels, Publish(topic, c)
    PROVE  M!Post(c)
<1>. USE DEF PubSubInv, PubSubTypeOK, IdsGivenOut
<1>1. PICK t \in Sampled :
         messages' = messages \cup
             {[id |-> nextId, topic |-> topic, channel |-> c, created |-> t]}
  BY DEF Publish
<1>. DEFINE new == [id |-> nextId, topic |-> topic, channel |-> c, created |-> t]
<1>2. t \in 0 .. clock
  BY SampledRange
<1>3. \A s \in Sessions : <<nextId, s>> \notin receipts
  BY DEF Publish
<1>4. ASSUME NEW s \in Sessions
      PROVE  Wanted(s)' = IF sess[s].channel = c THEN Wanted(s) \cup {new} ELSE Wanted(s)
  <2>1. <<new.id, s>> \notin receipts
    BY <1>3
  <2>2. new.channel = c
    OBVIOUS
  <2>3. messages' = messages \cup {new}
    BY <1>1
  <2>. HIDE DEF new
  <2>. QED BY <2>1, <2>2, <2>3 DEF Publish, Wanted, Acked
<1>5. ASSUME NEW s \in Sessions
      PROVE  PendingFor(s)' = IF sess[s].channel = c
                              THEN PendingFor(s) \cup {Letter(new)} ELSE PendingFor(s)
  BY <1>4 DEF PendingFor, Letter
<1>6. Letter(new) \in [id : {nextId}, channel : {c}, created : 0 .. clock]
  BY <1>2 DEF Letter
<1>7. nextId' - 1 = (nextId - 1) + 1 /\ nextId' - 1 = nextId
  BY DEF Publish
<1>. QED
  <2>. HIDE DEF new
  <2>. QED BY <1>5, <1>6, <1>7 DEF Publish, M!Post

LEMMA RegisterRefines ==
    ASSUME PubSubInv, NEW s \in Sessions, NEW c \in Channels, Register(s, c)
    PROVE  M!Join(s)
<1>. USE DEF PubSubInv, PubSubTypeOK, IdsGivenOut
<1>1. PICK t \in Sampled : sess' = [sess EXCEPT ![s] = [channel |-> c, hb |-> t]]
  BY DEF Register
<1>2. t \in 0 .. clock
  BY SampledRange
<1>3. \A r \in Sessions \ {s} : sess'[r] = sess[r] /\ PendingFor(r)' = PendingFor(r)
  BY <1>1, SamePending DEF Register, Wanted, Acked
<1>4. sess'[s].channel = c /\ sess'[s].hb = t
  BY <1>1
<1>5. sess[s].channel = c => PendingFor(s)' = PendingFor(s)
  BY <1>4, SamePending DEF Register, Wanted, Acked
<1>6. \A x \in PendingFor(s)' : x.id <= nextId - 1
  <2>1. \A m \in messages : m.id \in Nat /\ m.id < nextId
    BY DEF Message
  <2>2. \A m \in Wanted(s)' : m \in messages
    BY DEF Register, Wanted
  <2>. QED BY <2>1, <2>2 DEF PendingFor, Letter
<1>. QED BY <1>2, <1>3, <1>4, <1>5, <1>6 DEF Register, M!Join, M!Same

LEMMA UnregisterRefines ==
    ASSUME PubSubInv, NEW s \in Sessions, Unregister(s)
    PROVE  M!Leave(s)
<1>. USE DEF PubSubInv, PubSubTypeOK
<1>1. sess'[s].channel = NoChannel /\ sess'[s].hb = 0
  BY DEF Unregister, NoSession
<1>2. PendingFor(s)' = {}
  BY <1>1, PubSubAssumption DEF Unregister, PendingFor, Wanted, Message
<1>3. \A r \in Sessions \ {s} : sess'[r] = sess[r] /\ PendingFor(r)' = PendingFor(r)
  BY SamePending DEF Unregister, Wanted, Acked
<1>. QED BY <1>1, <1>2, <1>3 DEF Unregister, M!Leave, M!Gone, M!Same

LEMMA HeartbeatRefines ==
    ASSUME PubSubInv, NEW s \in Sessions, Heartbeat(s)
    PROVE  M!Beat(s)
<1>. USE DEF PubSubInv, PubSubTypeOK
<1>1. PICK t \in Sampled : sess' = [sess EXCEPT ![s].hb = t]
  BY DEF Heartbeat
<1>2. t \in 0 .. clock
  BY SampledRange
<1>3. \A r \in Sessions : sess'[r].channel = sess[r].channel /\ PendingFor(r)' = PendingFor(r)
  BY <1>1, SamePending DEF Heartbeat, Wanted, Acked
<1>4. /\ \A r \in Sessions \ {s} : sess'[r].hb = sess[r].hb
      /\ sess'[s].hb = t
  BY <1>1
<1>. QED BY <1>2, <1>3, <1>4 DEF Heartbeat, Registered, M!Beat

LEMMA ConsumeRefines ==
    ASSUME PubSubInv, NEW topic, NEW c, NEW s \in Sessions, Consume(topic, c, s, ConsumeLimit)
    PROVE  M!Fetch(s)
<1>. USE DEF PubSubInv, PubSubTypeOK, IdsGivenOut
<1>1. PICK t \in Sampled :
         inbox' = [inbox EXCEPT ![s] = @ \cup Batch(topic, c, s, t, ConsumeLimit)]
  BY DEF Consume
<1>2. \A id \in Batch(topic, c, s, t, ConsumeLimit) : id <= nextId - 1
  <2>1. \A m \in messages : m.id \in Nat /\ m.id < nextId
    BY DEF Message
  <2>. QED BY <2>1, BatchFromTable
<1>3. \A r \in Sessions : PendingFor(r)' = PendingFor(r)
  BY SamePending DEF Consume, Wanted, Acked
<1>. QED BY <1>1, <1>2, <1>3 DEF Consume, M!Fetch

LEMMA AckRefines ==
    ASSUME PubSubInv, NEW s \in Sessions, NEW ids \in SUBSET inbox[s], AckAll(s, ids)
    PROVE  M!Ack(s)
<1>. USE DEF PubSubInv, PubSubTypeOK
<1>1. /\ inbox'[s] = inbox[s] \ ids
      /\ \A r \in Sessions \ {s} : inbox'[r] = inbox[r]
  BY DEF AckAll
<1>2. Wanted(s)' = {m \in Wanted(s) : m.id \notin ids}
  BY DEF AckAll, Wanted, Acked
<1>3. \A m : Letter(m)' = Letter(m) /\ Letter(m).id = m.id
  BY DEF Letter
<1>4. PendingFor(s)' = {x \in PendingFor(s) : x.id \notin inbox[s] \ inbox'[s]}
  <2>1. inbox[s] \ inbox'[s] = ids
    BY <1>1
  <2>. QED BY <1>2, <1>3, <2>1 DEF PendingFor
<1>5. \A r \in Sessions \ {s} : PendingFor(r)' = PendingFor(r)
  BY SamePending DEF AckAll, Wanted, Acked
<1>. QED BY <1>1, <1>4, <1>5 DEF AckAll, M!Ack

LEMMA CleanupSessionsRefines ==
    ASSUME PubSubInv, NEW k \in Cleaners, CleanupSessions(k)
    PROVE  M!Evict
<1>. USE DEF PubSubInv, PubSubTypeOK
<1>1. ASSUME NEW s \in Sessions, Registered(s), Silent(s, cleaner[k].now)
      PROVE  M!Gone(s) /\ sess[s].hb + SessionTTL < clock
  <2>1. sess'[s].channel = NoChannel /\ sess'[s].hb = 0
    BY <1>1 DEF CleanupSessions, NoSession
  <2>2. PendingFor(s)' = {}
    BY <2>1, PubSubAssumption DEF CleanupSessions, PendingFor, Wanted, Message
  <2>3. sess[s].hb + SessionTTL < clock
    <3>1. sess[s].hb \in Nat /\ cleaner[k].now \in Nat /\ cleaner[k].now <= clock
      BY DEF CleanersBehind
    <3>. QED BY <3>1, <1>1, PubSubAssumption DEF Silent
  <2>. QED BY <2>1, <2>2, <2>3 DEF M!Gone
<1>2. ASSUME NEW s \in Sessions, ~(Registered(s) /\ Silent(s, cleaner[k].now))
      PROVE  M!Same(s)
  <2>1. sess'[s] = sess[s]
    BY <1>2 DEF CleanupSessions
  <2>2. PendingFor(s)' = PendingFor(s)
    BY <2>1, SamePending DEF CleanupSessions, Wanted, Acked
  <2>. QED BY <2>1, <2>2 DEF M!Same
<1>3. UNCHANGED <<clock, nextId, inbox>>
  BY DEF CleanupSessions
<1>4. \A s \in Sessions : [q \in Sessions |-> sess[q].hb][s] = sess[s].hb
  OBVIOUS
<1>. QED BY <1>1, <1>2, <1>3, <1>4 DEF M!Evict

LEMMA CleanupExpiredRefines ==
    ASSUME PubSubInv, NEW k \in Cleaners, CleanupExpired(k)
    PROVE  M!Expire
<1>. USE DEF PubSubInv, PubSubTypeOK
<1>1. cleaner[k].now \in Nat /\ cleaner[k].now <= clock
  BY DEF CleanersBehind
<1>2. ASSUME NEW s \in Sessions
      PROVE  /\ PendingFor(s)' \subseteq PendingFor(s)
             /\ \A x \in PendingFor(s) \ PendingFor(s)' : x.created + MessageTTL < clock
  <2>1. Wanted(s)' \subseteq Wanted(s)
    BY DEF CleanupExpired, Wanted, Acked
  <2>2. \A m \in Wanted(s) \ Wanted(s)' : m.created + MessageTTL < clock
    <3>1. \A m \in Wanted(s) \ Wanted(s)' : m.created < cleaner[k].now - MessageTTL
      BY DEF CleanupExpired, Wanted, Acked
    <3>2. \A m \in Wanted(s) : m.created \in Nat
      BY DEF Wanted, Message
    <3>. QED BY <1>1, <3>1, <3>2, PubSubAssumption
  <2>. QED BY <2>1, <2>2 DEF PendingFor, Letter
<1>. QED BY <1>2 DEF CleanupExpired, M!Expire

(* Deleting what no session has yet to ack takes nothing from anybody. *)
LEMMA CleanupAckedIsInvisible ==
    ASSUME PubSubInv, NEW k \in Cleaners, CleanupAcked(k)
    PROVE  UNCHANGED M!mailboxVars
<1>1. PICK B \in CleanupBatches : messages' = messages \ B
  BY DEF CleanupAcked
<1>2. \A m \in B, s \in Sessions : m \notin Wanted(s)
  BY DEF CleanupBatches, FullyDelivered, Deliverable, Wanted
<1>3. \A s \in Sessions : Wanted(s)' = Wanted(s)
  BY <1>1, <1>2 DEF CleanupAcked, Wanted, Acked
<1>. QED BY <1>3, Invisible DEF CleanupAcked

(* Receipts without a message acknowledge nothing. *)
LEMMA CleanupOrphansIsInvisible ==
    ASSUME PubSubInv, NEW k \in Cleaners, CleanupOrphans(k)
    PROVE  UNCHANGED M!mailboxVars
<1>1. \A s \in Sessions : Wanted(s)' = Wanted(s)
  BY DEF CleanupOrphans, Wanted, Acked
<1>. QED BY <1>1, Invisible DEF CleanupOrphans

LEMMA QuietStepIsInvisible ==
    ASSUME UNCHANGED <<clock, sess, messages, nextId, receipts, inbox>>
    PROVE  UNCHANGED M!mailboxVars
<1>1. \A s \in Sessions : Wanted(s)' = Wanted(s)
  BY DEF Wanted, Acked
<1>. QED BY <1>1, Invisible

(* A step that Mailbox does not see evicts nobody. *)
LEMMA InvisibleEvictsNobody ==
    ASSUME UNCHANGED M!mailboxVars
    PROVE  M!Evict
BY DEF M!mailboxVars, M!Evict, M!Same

LEMMA CleanupRefines ==
    ASSUME PubSubInv, NEW k \in Cleaners, CleanupStep(k)
    PROVE  M!Evict \/ M!Expire
<1>1. CASE CleanupSessions(k)
  BY <1>1, CleanupSessionsRefines
<1>2. CASE CleanupExpired(k)
  BY <1>2, CleanupExpiredRefines
<1>3. CASE CleanupAcked(k)
  BY <1>3, CleanupAckedIsInvisible, InvisibleEvictsNobody
<1>4. CASE CleanupOrphans(k)
  BY <1>4, CleanupOrphansIsInvisible, InvisibleEvictsNobody
<1>5. CASE CleanupBegin(k) \/ CleanupFails(k) \/ CleanupCancelled(k)
  BY <1>5, QuietStepIsInvisible, InvisibleEvictsNobody
  DEF CleanupBegin, CleanupFails, CleanupCancelled
<1>. QED BY <1>1, <1>2, <1>3, <1>4, <1>5 DEF CleanupStep

LEMMA StepRefines ==
    ASSUME PubSubInv, [PubSubNext]_pubsubVars
    PROVE  [M!Next]_(M!mailboxVars)
<1>1. CASE PubSubTick
  BY <1>1, TickRefines DEF M!Next
<1>2. CASE CleanStaleReceipts
  BY <1>2, PurgeIsInvisible
<1>3. CASE \E topic \in Topics, c \in Channels : Publish(topic, c)
  BY <1>3, PublishRefines DEF M!Next
<1>4. CASE \E s \in Sessions, c \in Channels : Register(s, c)
  BY <1>4, RegisterRefines DEF M!Next
<1>5. CASE \E s \in Sessions : Unregister(s) \/ Heartbeat(s)
  BY <1>5, UnregisterRefines, HeartbeatRefines DEF M!Next
<1>6. CASE \E s \in Sessions, topic \in Topics, c \in Channels \cup {NoChannel} :
              Consume(topic, c, s, ConsumeLimit)
  BY <1>6, ConsumeRefines DEF M!Next
<1>7. CASE \E s \in Sessions : \E ids \in SUBSET inbox[s] : AckAll(s, ids)
  BY <1>7, AckRefines DEF M!Next
<1>8. CASE \E k \in Cleaners : CleanupStep(k)
  BY <1>8, CleanupRefines DEF M!Next
<1>9. CASE UNCHANGED pubsubVars
  BY <1>9, QuietStepIsInvisible DEF pubsubVars
<1>. QED BY <1>1, <1>2, <1>3, <1>4, <1>5, <1>6, <1>7, <1>8, <1>9 DEF PubSubNext

LEMMA InitRefines == PubSubInit => M!Init
BY DEF PubSubInit, M!Init, PendingFor, Wanted, NoSession

(* The sessions, messages and receipts tables of internal/broker/sqlite.go *)
(* implement Mailbox: no interleaving of Publish, Ack, registrations, the  *)
(* statements of any number of Cleanups and the purge at start-up loses or *)
(* resurrects mail of a session that is registered and alive. *)
THEOREM PubSubRefinesMailbox == PubSubSpec => ImplementsMailbox
BY PubSubInvariant, InitRefines, StepRefines, PTL DEF PubSubSpec, ImplementsMailbox, M!Spec

(* Every statement of Cleanup, with the old time it works with and among   *)
(* whatever other steps, evicts silent sessions only, deletes old mail     *)
(* only, or is not visible to any session. *)
THEOREM PubSubCleanupIsLawful == PubSubSpec => CleanupIsLawful
<1>1. PubSubInv /\ [PubSubNext]_pubsubVars
        => [\A k \in Cleaners : CleanupStep(k) => M!Evict \/ M!Expire]_pubsubVars
  BY CleanupRefines
<1>. QED BY <1>1, PubSubInvariant, PTL DEF PubSubSpec, CleanupIsLawful
=============================================================================
