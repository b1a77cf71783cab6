---------------------------- MODULE CronResults ----------------------------
(***************************************************************************)
(* Delivery of cron results (internal/cron/consumer.go) through the        *)
(* publish/subscribe tables (BrokerPubSub).  The process that runs a job   *)
(* publishes its result; the consumeLoop of every process fetches results  *)
(* in batches, notifies its own channels and acks the batch; the leader    *)
(* runs Cleanup; a process that starts purges receipts when it opens the   *)
(* database and then acks what is already there without notifying.         *)
(*                                                                         *)
(* A process consumes under the session id of its Scheduler, a fresh uuid. *)
(* No code registers that session: the sessions table stays empty.         *)
(* Messages do not get old here (the clock stands still).                  *)
(***************************************************************************)
EXTENDS BrokerPubSub

CONSTANTS
    CronResult,      \* cobot.MessageTypeCronResult
    Unrouted,        \* the empty ChannelID: a result nobody is told about
    DrainLimit,      \* batch of ackAllExisting (100)
    MaxAckMessages,  \* maxAckMessages
    MaxFaults        \* failed statements and panics (bound)

ASSUME ResultsAssumption ==
    /\ CronResult \in Topics
    /\ Unrouted \in Channels
    /\ DrainLimit \in Nat \ {0} /\ MaxAckMessages \in Nat /\ MaxFaults \in Nat
    /\ Cleaners = Sessions   \* any process may lead, and the leader cleans up

VARIABLES
    proc,        \* where the consumeLoop of a process is
    leading,     \* the process runs jobs and Cleanup
    drained,     \* messages counted by ackAllExisting
    todo,        \* messages of the batch that consumeOnce has yet to handle
    faults,      \* failed statements and panics so far
    old,         \* old[p]: ids that were in the table when p started
    owed,        \* owed[p]: ids published while p was consuming
    told,        \* told[p][id]: how often p notified its channels, up to 2
    excused      \* pairs <<p, id>>: p's ack of id failed, or was purged

loopVars == <<proc, leading, drained, todo, faults, old, owed, told, excused>>
resultsVars == <<pubsubVars, loopVars>>

ProcStates == {"off", "draining", "drainAck", "running", "notifying", "gone"}
Ids == 1 .. MaxMessages
Live(p) == proc[p] \notin {"off", "gone"}
Consuming(p) == proc[p] \in {"running", "notifying"}
IdsOf(rows) == {m.id : m \in rows}
Available(p) == Batch(CronResult, NoChannel, p, clock, DrainLimit)

ResultsTypeOK ==
    /\ PubSubTypeOK
    /\ proc \in [Sessions -> ProcStates]
    /\ leading \in [Sessions -> BOOLEAN]
    /\ drained \in [Sessions -> Nat]
    /\ todo \in [Sessions -> SUBSET Message]
    /\ faults \in 0 .. MaxFaults
    /\ old \in [Sessions -> SUBSET Ids]
    /\ owed \in [Sessions -> SUBSET Ids]
    /\ told \in [Sessions -> [Ids -> 0 .. 2]]
    /\ excused \subseteq Sessions \X Ids

Init ==
    /\ PubSubInit
    /\ proc = [p \in Sessions |-> "off"]
    /\ leading = [p \in Sessions |-> FALSE]
    /\ drained = [p \in Sessions |-> 0]
    /\ todo = [p \in Sessions |-> {}]
    /\ faults = 0
    /\ old = [p \in Sessions |-> {}]
    /\ owed = [p \in Sessions |-> {}]
    /\ told = [p \in Sessions |-> [id \in Ids |-> 0]]
    /\ excused = {}

Fault == faults < MaxFaults /\ faults' = faults + 1
Move(p, to) == proc' = [proc EXCEPT ![p] = to]
Excuse(p, ids) == excused' = excused \cup ({p} \X (ids \cap Ids))

-----------------------------------------------------------------------------
(* Setup: NewSQLiteBroker purges receipts, then Start; p leads if nobody   *)
(* does.                                                                   *)
Open(p) ==
    /\ proc[p] = "off"
    /\ Move(p, "draining")
    /\ \/ CleanStaleReceipts /\ UNCHANGED faults
       \/ Fault /\ UNCHANGED pubsubVars
    /\ excused' = excused \cup {<<r[2], r[1]>> : r \in receipts \ receipts'}
    /\ leading' = [leading EXCEPT ![p] = \A q \in Sessions : ~(Live(q) /\ leading[q])]
    /\ old' = [old EXCEPT ![p] = IdsOf(messages)]
    /\ UNCHANGED <<drained, todo, owed, told>>

-----------------------------------------------------------------------------
(* ackAllExisting *)

DrainFetch(p) ==
    /\ proc[p] = "draining"
    /\ Available(p) # {}
    /\ Consume(CronResult, NoChannel, p, DrainLimit)
    /\ Move(p, "drainAck")
    /\ UNCHANGED <<leading, drained, todo, faults, old, owed, told, excused>>

(* Mutant: the drain stops with messages left. *)
DrainDone_TooEarly(p) ==
    /\ proc[p] = "draining"
    /\ Move(p, "running")
    /\ UNCHANGED <<pubsubVars, leading, drained, todo, faults, old, owed, told, excused>>

(* Nothing left, or Consume failed: what was not acked will be delivered. *)
DrainDone(p) ==
    /\ proc[p] = "draining"
    /\ \/ Available(p) = {} /\ UNCHANGED <<faults, excused>>
       \/ Fault /\ Excuse(p, old[p])
    /\ Move(p, "running")
    /\ UNCHANGED <<pubsubVars, leading, drained, todo, old, owed, told>>

(* Mutant: the counter runs the wrong way. *)
DrainAck_CountsDown(p) ==
    /\ proc[p] = "drainAck"
    /\ AckAll(p, inbox[p])
    /\ drained' = [drained EXCEPT ![p] = @ - Cardinality(inbox[p])]
    /\ Move(p, "draining")
    /\ UNCHANGED <<leading, todo, faults, old, owed, told, excused>>

(* The loop counts the messages it fetched, also when AckAll failed. *)
DrainAck(p) ==
    /\ proc[p] = "drainAck"
    /\ \/ AckAll(p, inbox[p]) /\ UNCHANGED faults
       \/ /\ Fault
          /\ inbox' = [inbox EXCEPT ![p] = {}]
          /\ UNCHANGED <<clock, sess, messages, nextId, receipts, cleaner>>
    /\ drained' = [drained EXCEPT ![p] = @ + Cardinality(inbox[p])]
    /\ IF drained'[p] >= MaxAckMessages
       THEN Move(p, "running") /\ Excuse(p, old[p])
       ELSE Move(p, "draining") /\ UNCHANGED excused
    /\ UNCHANGED <<leading, todo, old, owed, told>>

-----------------------------------------------------------------------------
(* consumeOnce *)

ConsumeBatch(p) ==
    /\ proc[p] = "running"
    /\ Available(p) # {}
    /\ Consume(CronResult, NoChannel, p, ConsumeLimit)
    /\ todo' = [todo EXCEPT ![p] = {m \in messages : m.id \in inbox'[p]}]
    /\ Move(p, "notifying")
    /\ UNCHANGED <<leading, drained, faults, old, owed, told, excused>>

(* One turn of the loop over the batch, in the order of the ids.  A result *)
(* without a channel is acked but nobody is told. *)
NotifyOne(p) ==
    /\ proc[p] = "notifying"
    /\ \E m \in todo[p] :
          /\ \A k \in todo[p] : m.id <= k.id
          /\ todo' = [todo EXCEPT ![p] = @ \ {m}]
          /\ told' = IF m.channel = Unrouted
                     THEN told
                     ELSE [told EXCEPT ![p][m.id] = IF @ < 2 THEN @ + 1 ELSE 2]
    /\ UNCHANGED <<pubsubVars, proc, leading, drained, faults, old, owed, excused>>

(* Mutant: the batch is not acked. *)
AckBatch_Forgotten(p) ==
    /\ proc[p] = "notifying"
    /\ todo[p] = {}
    /\ inbox' = [inbox EXCEPT ![p] = {}]
    /\ Move(p, "running")
    /\ UNCHANGED <<clock, sess, messages, nextId, receipts, cleaner>>
    /\ UNCHANGED <<leading, drained, todo, faults, old, owed, told, excused>>

(* AckAll of the whole batch; if it fails the batch comes again. *)
AckBatch(p) ==
    /\ proc[p] = "notifying"
    /\ todo[p] = {}
    /\ \/ AckAll(p, inbox[p]) /\ UNCHANGED <<faults, excused>>
       \/ /\ Fault
          /\ Excuse(p, inbox[p])
          /\ inbox' = [inbox EXCEPT ![p] = {}]
          /\ UNCHANGED <<clock, sess, messages, nextId, receipts, cleaner>>
    /\ Move(p, "running")
    /\ UNCHANGED <<leading, drained, todo, old, owed, told>>

(* Notify panics: consumeOnce recovers and returns without acking. *)
NotifyPanics(p) ==
    /\ proc[p] = "notifying"
    /\ todo[p] # {}
    /\ Fault
    /\ Excuse(p, inbox[p])
    /\ inbox' = [inbox EXCEPT ![p] = {}]
    /\ todo' = [todo EXCEPT ![p] = {}]
    /\ Move(p, "running")
    /\ UNCHANGED <<clock, sess, messages, nextId, receipts, cleaner>>
    /\ UNCHANGED <<leading, drained, old, owed, told>>

-----------------------------------------------------------------------------
(* publishJobResult, by the process that ran the job. *)
PublishResult(p, c) ==
    /\ Live(p) /\ leading[p]
    /\ Publish(CronResult, c)
    /\ owed' = [q \in Sessions |->
                  IF Consuming(q) /\ c # Unrouted THEN owed[q] \cup {nextId} ELSE owed[q]]
    /\ UNCHANGED <<proc, leading, drained, todo, faults, old, told, excused>>

(* cleanupLoop of the leader. *)
LeaderCleanup(p) ==
    /\ Live(p) /\ leading[p]
    /\ CleanupStep(p)
    /\ UNCHANGED loopVars

(* Stop or crash, at any point. *)
Exit(p) ==
    /\ Live(p)
    /\ Move(p, "gone")
    /\ leading' = [leading EXCEPT ![p] = FALSE]
    /\ inbox' = [inbox EXCEPT ![p] = {}]
    /\ todo' = [todo EXCEPT ![p] = {}]
    /\ cleaner' = [cleaner EXCEPT ![p] = Idle]
    /\ UNCHANGED <<clock, sess, messages, nextId, receipts>>
    /\ UNCHANGED <<drained, faults, old, owed, told, excused>>

ConsumerStep(p) ==
    \/ DrainFetch(p) \/ DrainDone(p) \/ DrainAck(p)
    \/ ConsumeBatch(p) \/ NotifyOne(p) \/ AckBatch(p) \/ NotifyPanics(p)

Next ==
    \E p \in Sessions :
        \/ Open(p) \/ ConsumerStep(p) \/ LeaderCleanup(p) \/ Exit(p)
        \/ \E c \in Channels : PublishResult(p, c)

Spec == Init /\ [][Next]_resultsVars

(* The ticker of consumeLoop keeps firing. *)
LiveSpec == Spec /\ \A p \in Sessions : WF_resultsVars(ConsumerStep(p))

-----------------------------------------------------------------------------
(* Properties *)

(* A process tells its channels of a result once, whatever the batches and *)
(* the other processes do, unless it notified a batch that it then failed  *)
(* to ack, or another process purged its receipts.                         *)
NotifiedOnce ==
    \A p \in Sessions, id \in Ids : told[p][id] >= 2 => <<p, id>> \in excused

(* ackAllExisting: a process does not report results that were there when  *)
(* it started, unless the drain broke off or its receipts were purged.     *)
OldResultsSilent ==
    \A p \in Sessions : \A id \in old[p] : told[p][id] > 0 => <<p, id>> \in excused

(* Every result published while a process is consuming reaches its         *)
(* channels, as long as the row stays in the table and the process lives.  *)
EveryResultHeard ==
    \A p \in Sessions, id \in Ids :
        id \in owed[p] ~> \/ told[p][id] > 0
                          \/ ~Live(p)
                          \/ id \notin IdsOf(messages)

(* "Cleanup deletes expired sessions and fully delivered messages": a      *)
(* message that Cleanup deletes has been acked by every process that is    *)
(* consuming.                                                              *)
CleanupSparesUndelivered ==
    [][\A p \in Sessions : LeaderCleanup(p) =>
          \A m \in messages \ messages' :
             \A q \in Sessions : Consuming(q) => Acked(m, q)]_resultsVars
=============================================================================
