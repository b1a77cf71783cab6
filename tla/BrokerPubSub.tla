---------------------------- MODULE BrokerPubSub ----------------------------
(***************************************************************************)
(* The tables sessions, messages and receipts of the coordination database *)
(* coord.db and the operations on them (internal/broker/sqlite.go):        *)
(* registry of processes, publish/consume/ack, and Cleanup, which a leader *)
(* runs periodically and which is a sequence of separate statements that   *)
(* interleave with everything else.  Every other operation is a single     *)
(* statement or a single transaction, hence atomic; one that fails changes *)
(* nothing and is not a step.                                              *)
(*                                                                         *)
(* Go reads the clock before the statement gets the database, so a         *)
(* statement works with a time up to MaxLag old (Sampled).                 *)
(***************************************************************************)
EXTENDS Integers, FiniteSets

CONSTANTS
    Sessions,        \* session ids
    Channels,        \* channel ids
    NoChannel,       \* no row for the session; in Consume: channelID = ""
    Topics,          \* message topics
    Cleaners,        \* processes that run Cleanup (leaders, also stale ones)
    SessionTTL,      \* sessionTTL, in units of the clock
    MessageTTL,      \* messageTTL
    ConsumeLimit,    \* the limit passed to Consume
    CleanupBatch,    \* messages deleted by one statement of Cleanup (1000)
    MaxBatches,      \* such statements in one Cleanup (100)
    MaxLag,          \* how long a statement may wait for the database (bound)
    MaxMessages,     \* messages ever published (bound)
    MaxClock         \* bound on the clock

ASSUME PubSubAssumption ==
    /\ NoChannel \notin Channels
    /\ SessionTTL \in Nat /\ MessageTTL \in Nat
    /\ ConsumeLimit \in Nat \ {0}
    /\ CleanupBatch \in Nat \ {0} /\ MaxBatches \in Nat \ {0}
    /\ MaxLag \in Nat /\ MaxMessages \in Nat /\ MaxClock \in Nat

VARIABLES
    clock,
    sess,        \* the sessions table: channel_id and last_heartbeat
    messages,    \* the messages table, a set of rows
    nextId,      \* the AUTOINCREMENT counter
    receipts,    \* the receipts table: pairs <<message_id, session_id>>
    inbox,       \* ids that Consume returned to a session and it has not acked
    cleaner      \* where the Cleanup run by a process is

pubsubVars == <<clock, sess, messages, nextId, receipts, inbox, cleaner>>

Message == [id : Nat, topic : Topics, channel : Channels, created : Nat]
NoSession == [channel |-> NoChannel, hb |-> 0]
CleanerSteps == {"idle", "sessions", "expired", "acked", "orphans"}
Idle == [step |-> "idle", now |-> 0, batch |-> 0]

Registered(s) == sess[s].channel # NoChannel
Sampled == {t \in 0 .. clock : clock - t <= MaxLag}
Acked(m, s) == <<m.id, s>> \in receipts

PubSubTypeOK ==
    /\ clock \in Nat
    /\ sess \in [Sessions -> [channel : Channels \cup {NoChannel}, hb : Nat]]
    /\ messages \subseteq Message
    /\ nextId \in Nat
    /\ receipts \subseteq Nat \X Sessions
    /\ inbox \in [Sessions -> SUBSET Nat]
    /\ cleaner \in [Cleaners -> [step : CleanerSteps, now : Nat, batch : Nat]]

PubSubInit ==
    /\ clock = 0
    /\ sess = [s \in Sessions |-> NoSession]
    /\ messages = {}
    /\ nextId = 1
    /\ receipts = {}
    /\ inbox = [s \in Sessions |-> {}]
    /\ cleaner = [k \in Cleaners |-> Idle]

-----------------------------------------------------------------------------
(* Session registry *)

Register(s, c) ==
    /\ \E t \in Sampled : sess' = [sess EXCEPT ![s] = [channel |-> c, hb |-> t]]
    /\ UNCHANGED <<clock, messages, nextId, receipts, inbox, cleaner>>

(* One transaction: the receipts, then the session. *)
Unregister(s) ==
    /\ receipts' = {r \in receipts : r[2] # s}
    /\ sess' = [sess EXCEPT ![s] = NoSession]
    /\ UNCHANGED <<clock, messages, nextId, inbox, cleaner>>

(* Mutant: the threshold of the clean-up is stored as the heartbeat. *)
Heartbeat_Threshold(s) ==
    /\ Registered(s)
    /\ \E t \in Sampled : sess' = [sess EXCEPT ![s].hb = t - SessionTTL]
    /\ UNCHANGED <<clock, messages, nextId, receipts, inbox, cleaner>>

(* "session not found" when there is no row: then nothing changes. *)
Heartbeat(s) ==
    /\ Registered(s)
    /\ \E t \in Sampled : sess' = [sess EXCEPT ![s].hb = t]
    /\ UNCHANGED <<clock, messages, nextId, receipts, inbox, cleaner>>

-----------------------------------------------------------------------------
(* Publish, Consume, Ack *)

Publish(topic, c) ==
    /\ nextId <= MaxMessages
    /\ \E t \in Sampled :
          messages' = messages \cup
              {[id |-> nextId, topic |-> topic, channel |-> c, created |-> t]}
    /\ nextId' = nextId + 1
    /\ UNCHANGED <<clock, sess, receipts, inbox, cleaner>>

(* The rows Consume selects from, before ORDER BY id LIMIT. *)
Consumable(topic, c, s, now) ==
    {m \in messages : /\ m.topic = topic
                      /\ c = NoChannel \/ m.channel = c
                      /\ m.created > now - MessageTTL
                      /\ ~Acked(m, s)}

(* Mutant: off by one. *)
FirstById_OneLess(rows, limit) ==
    {m \in rows : Cardinality({k \in rows : k.id < m.id}) < limit - 1}

(* ORDER BY id ASC LIMIT limit *)
FirstById(rows, limit) ==
    {m \in rows : Cardinality({k \in rows : k.id < m.id}) < limit}

Batch(topic, c, s, now, limit) ==
    {m.id : m \in FirstById(Consumable(topic, c, s, now), limit)}

Consume(topic, c, s, limit) ==
    /\ \E t \in Sampled :
          inbox' = [inbox EXCEPT ![s] = @ \cup Batch(topic, c, s, t, limit)]
    /\ UNCHANGED <<clock, sess, messages, nextId, receipts, cleaner>>

(* Ack and AckAll: one transaction, receipts that exist are left alone. *)
AckAll(s, ids) ==
    /\ receipts' = receipts \cup (ids \X {s})
    /\ inbox' = [inbox EXCEPT ![s] = @ \ ids]
    /\ UNCHANGED <<clock, sess, messages, nextId, cleaner>>

-----------------------------------------------------------------------------
(* NewSQLiteBroker: every process that opens the database purges the       *)
(* receipts of sessions that have no row.                                  *)
CleanStaleReceipts ==
    /\ receipts' = {r \in receipts : Registered(r[2])}
    /\ UNCHANGED <<clock, sess, messages, nextId, inbox, cleaner>>

-----------------------------------------------------------------------------
(* Cleanup, one action per statement. *)

CleanupBegin(k) ==
    /\ cleaner[k] = Idle
    /\ \E t \in Sampled :
          cleaner' = [cleaner EXCEPT ![k] = [step |-> "sessions", now |-> t, batch |-> 0]]
    /\ UNCHANGED <<clock, sess, messages, nextId, receipts, inbox>>

(* Mutant: the comparison is not strict. *)
Silent_AtThreshold(r, now) == sess[r].hb <= now - SessionTTL

(* DELETE FROM sessions WHERE last_heartbeat < threshold *)
Silent(r, now) == sess[r].hb < now - SessionTTL

CleanupSessions(k) ==
    /\ cleaner[k].step = "sessions"
    /\ sess' = [r \in Sessions |->
                   IF Registered(r) /\ Silent(r, cleaner[k].now) THEN NoSession ELSE sess[r]]
    /\ cleaner' = [cleaner EXCEPT ![k].step = "expired"]
    /\ UNCHANGED <<clock, messages, nextId, receipts, inbox>>

(* DELETE FROM messages WHERE created_at < messageTTLThreshold *)
CleanupExpired(k) ==
    /\ cleaner[k].step = "expired"
    /\ messages' = {m \in messages : ~(m.created < cleaner[k].now - MessageTTL)}
    /\ cleaner' = [cleaner EXCEPT ![k].step = "acked"]
    /\ UNCHANGED <<clock, sess, nextId, receipts, inbox>>

(* Mutant: one receipt of any session is enough. *)
Deliverable_AnyReceipt(m) ==
    \E r \in Sessions : sess[r].channel = m.channel /\ \A q \in Sessions : ~Acked(m, q)

(* Messages that no session of their channel has yet to ack; those of a    *)
(* channel without sessions are among them. *)
Deliverable(m) == \E r \in Sessions : sess[r].channel = m.channel /\ ~Acked(m, r)

FullyDelivered == {m \in messages : ~Deliverable(m)}

(* At most CleanupBatch of them; SQLite picks which. *)
CleanupBatches ==
    {B \in SUBSET FullyDelivered :
        \/ B = FullyDelivered /\ Cardinality(B) < CleanupBatch
        \/ Cardinality(B) = CleanupBatch}

(* The loop goes on while it deletes full batches. *)
CleanupAcked(k) ==
    /\ cleaner[k].step = "acked"
    /\ \E B \in CleanupBatches :
          /\ messages' = messages \ B
          /\ cleaner' = IF Cardinality(B) = CleanupBatch /\ cleaner[k].batch + 1 < MaxBatches
                        THEN [cleaner EXCEPT ![k].batch = @ + 1]
                        ELSE [cleaner EXCEPT ![k].step = "orphans"]
    /\ UNCHANGED <<clock, sess, nextId, receipts, inbox>>

(* DELETE FROM receipts WHERE message_id NOT IN (SELECT id FROM messages) *)
CleanupOrphans(k) ==
    /\ cleaner[k].step = "orphans"
    /\ receipts' = {r \in receipts : \E m \in messages : m.id = r[1]}
    /\ cleaner' = [cleaner EXCEPT ![k] = Idle]
    /\ UNCHANGED <<clock, sess, messages, nextId, inbox>>

(* A statement of Cleanup fails: the error is kept and the next statement  *)
(* is tried.                                                               *)
CleanupFails(k) ==
    /\ cleaner[k].step # "idle"
    /\ cleaner' = [cleaner EXCEPT ![k] =
          CASE @.step = "sessions" -> [@ EXCEPT !.step = "expired"]
            [] @.step = "expired" -> [@ EXCEPT !.step = "acked"]
            [] @.step = "acked" -> [@ EXCEPT !.step = "orphans"]
            [] OTHER -> Idle]
    /\ UNCHANGED <<clock, sess, messages, nextId, receipts, inbox>>

(* The context is cancelled, or the process dies. *)
CleanupCancelled(k) ==
    /\ cleaner[k].step # "idle"
    /\ cleaner' = [cleaner EXCEPT ![k] = Idle]
    /\ UNCHANGED <<clock, sess, messages, nextId, receipts, inbox>>

CleanupStep(k) ==
    \/ CleanupBegin(k) \/ CleanupSessions(k) \/ CleanupExpired(k)
    \/ CleanupAcked(k) \/ CleanupOrphans(k)
    \/ CleanupFails(k) \/ CleanupCancelled(k)

-----------------------------------------------------------------------------
PubSubTick ==
    /\ clock < MaxClock
    /\ clock' = clock + 1
    /\ UNCHANGED <<sess, messages, nextId, receipts, inbox, cleaner>>

PubSubNext ==
    \/ PubSubTick
    \/ CleanStaleReceipts
    \/ \E topic \in Topics, c \in Channels : Publish(topic, c)
    \/ \E s \in Sessions :
          \/ \E c \in Channels : Register(s, c)
          \/ Unregister(s) \/ Heartbeat(s)
          \/ \E topic \in Topics, c \in Channels \cup {NoChannel} :
                Consume(topic, c, s, ConsumeLimit)
          \/ \E ids \in SUBSET inbox[s] : AckAll(s, ids)
    \/ \E k \in Cleaners : CleanupStep(k)

PubSubSpec == PubSubInit /\ [][PubSubNext]_pubsubVars

-----------------------------------------------------------------------------
(* The messages a registered session has yet to ack, with the fields that  *)
(* Mailbox knows of.                                                       *)
Wanted(s) == {m \in messages : m.channel = sess[s].channel /\ ~Acked(m, s)}
Letter(m) == [id |-> m.id, channel |-> m.channel, created |-> m.created]
PendingFor(s) == {Letter(m) : m \in Wanted(s)}

M == INSTANCE Mailbox WITH
        member <- [s \in Sessions |-> sess[s].channel],
        seen <- [s \in Sessions |-> sess[s].hb],
        pending <- [s \in Sessions |-> PendingFor(s)],
        fetched <- inbox,
        lastId <- nextId - 1

(* The tables implement the mailbox: Cleanup, with its statements          *)
(* interleaved with publications, acks, registrations and other Cleanups,  *)
(* and the purge of receipts at every start of a process, take nothing     *)
(* from a registered session, and give nothing back to it.                 *)
ImplementsMailbox == M!Spec

(* What a statement of Cleanup does is never mistaken for something the    *)
(* sessions did themselves: it drops sessions that were silent for longer  *)
(* than SessionTTL, or mail older than MessageTTL, or is invisible to all  *)
(* of them.  It works with a time it read before its first statement, so a *)
(* session that sent a heartbeat since then must not be caught.            *)
CleanupIsLawful ==
    [][\A k \in Cleaners : CleanupStep(k) => M!Evict \/ M!Expire]_pubsubVars
=============================================================================
