----------------------------- MODULE TuiStreams -----------------------------
(***************************************************************************)
(* The conversation in the terminal (cmd/cobot/tui.go, tui_stream.go): the *)
(* prompts that a user enters, cancels and queues, the streams of the      *)
(* agent that answer them, and the commands that wait for one event of a   *)
(* stream and bring it to Update as a message.                             *)
(*                                                                         *)
(* Bubble Tea runs every command in a goroutine of its own.  A message     *)
(* does not say which stream it came from, and a command that waits for    *)
(* the next event is not told when its stream is cancelled.  Prompts and   *)
(* their streams are numbered as they are entered.                         *)
(***************************************************************************)
EXTENDS Integers, Sequences, Bags

CONSTANTS
    MaxPrompts,    \* prompts that the user enters (bound)
    MaxEvents      \* events of one stream besides its end (bound)

ASSUME TuiAssumption == MaxPrompts \in Nat \ {0} /\ MaxEvents \in Nat

VARIABLES
    entered,   \* number of prompts entered
    current,   \* the stream of m.streamCh, 0 if m.streaming is false
    queue,     \* m.pending
    reads,     \* commands under way: the stream they read and what they got
    agent,     \* agent[s]: where the goroutine of Agent.Stream is
    emitted,   \* emitted[s]: number of events besides the end
    feed,      \* feed[s]: the channel of events
    halted,    \* streams whose context is cancelled
    order      \* the prompts in the order in which startStream got them

tuiVars == <<entered, current, queue, reads, agent, emitted, feed, halted, order>>

StreamIds == 1 .. MaxPrompts
Endings == {"done", "error"}
EventTypes == Endings \cup {"text", "subDone"}

(* Types of the prompts, the streams and the commands under way. *)
TuiTypeOK ==
    /\ entered \in 0 .. MaxPrompts
    /\ current \in 0 .. MaxPrompts
    /\ queue \in Seq(StreamIds)
    /\ IsABag(reads)
    /\ DOMAIN reads \subseteq [of : StreamIds, got : EventTypes \cup {"waiting", "closed"}]
    /\ agent \in [StreamIds -> {"none", "waiting", "running", "ending", "closed"}]
    /\ emitted \in [StreamIds -> 0 .. MaxEvents]
    /\ feed \in [StreamIds -> Seq(EventTypes)]
    /\ halted \subseteq StreamIds
    /\ order \in Seq(StreamIds)

TuiInit ==
    /\ entered = 0 /\ current = 0 /\ queue = <<>> /\ reads = EmptyBag
    /\ agent = [s \in StreamIds |-> "none"]
    /\ emitted = [s \in StreamIds |-> 0]
    /\ feed = [s \in StreamIds |-> <<>>]
    /\ halted = {} /\ order = <<>>

Command(s, got) == SetToBag({[of |-> s, got |-> got]})
Waiting(s) == Command(s, "waiting")
Without(r) == reads (-) SetToBag({r})

-----------------------------------------------------------------------------
(* Update: the order in which these change the model is the order of the   *)
(* messages. *)

(* startStream, with the commands under way before it.  There is a         *)
(* provider: without one Stream returns an error, and nothing streams. *)
StartStream(s, others) ==
    /\ current' = s
    /\ order' = Append(order, s)
    /\ agent' = [agent EXCEPT ![s] = "waiting"]
    /\ reads' = others (+) Waiting(s)

(* Mutant: the queue is left alone. *)
FinishAndDrain_LeavesQueue(others) ==
    /\ halted' = halted \cup ({current} \ {0})
    /\ current' = 0 /\ reads' = others
    /\ UNCHANGED <<queue, agent, order>>

(* Mutant: the queue is a stack. *)
FinishAndDrain_Last(others) ==
    /\ halted' = halted \cup ({current} \ {0})
    /\ IF queue = <<>>
       THEN current' = 0 /\ reads' = others /\ UNCHANGED <<queue, agent, order>>
       ELSE /\ queue' = SubSeq(queue, 1, Len(queue) - 1)
            /\ StartStream(queue[Len(queue)], others)

(* finishStream and drainPending *)
FinishAndDrain(others) ==
    /\ halted' = halted \cup ({current} \ {0})
    /\ IF queue = <<>>
       THEN current' = 0 /\ reads' = others /\ UNCHANGED <<queue, agent, order>>
       ELSE queue' = Tail(queue) /\ StartStream(Head(queue), others)

Enter ==
    /\ entered < MaxPrompts
    /\ entered' = entered + 1
    /\ IF current # 0
       THEN queue' = Append(queue, entered') /\ UNCHANGED <<current, reads, agent, order>>
       ELSE StartStream(entered', reads) /\ UNCHANGED queue
    /\ UNCHANGED <<emitted, feed, halted>>

CtrlC ==
    /\ current # 0
    /\ FinishAndDrain(reads)
    /\ UNCHANGED <<entered, emitted, feed>>

(* handleStreamMsg: an event that goes on waits for the next one of what   *)
(* is the current stream now, or of a nil channel, for ever. *)
HandleStreamMsg(r) ==
    /\ r.got # "waiting"
    /\ IF r.got = "text"
       THEN /\ reads' = IF current = 0 THEN Without(r) ELSE Without(r) (+) Waiting(current)
            /\ UNCHANGED <<current, queue, agent, halted, order>>
       ELSE FinishAndDrain(Without(r))
    /\ UNCHANGED <<entered, emitted, feed>>

-----------------------------------------------------------------------------
(* readNextEvent *)

ReadNextEvent(r) ==
    LET s == r.of IN
    /\ r.got = "waiting"
    /\ \/ /\ feed[s] # <<>>
          /\ reads' = Without(r) (+) Command(s, Head(feed[s]))
          /\ feed' = [feed EXCEPT ![s] = Tail(@)]
       \/ /\ feed[s] = <<>> /\ agent[s] = "closed"
          /\ reads' = Without(r) (+) Command(s, "closed")
          /\ UNCHANGED feed
    /\ UNCHANGED <<entered, current, queue, agent, emitted, halted, order>>

-----------------------------------------------------------------------------
(* The goroutine of Agent.Stream *)

Send(s, type) == feed' = [feed EXCEPT ![s] = Append(@, type)]
AgentGoto(s, where) == agent' = [agent EXCEPT ![s] = where]

(* streamMu; the wait does not end when the context is cancelled. *)
TakesTurn(s) ==
    /\ agent[s] = "waiting"
    /\ \A q \in StreamIds : agent[q] \notin {"running", "ending"}
    /\ AgentGoto(s, "running")
    /\ UNCHANGED <<emitted, feed>>

(* Of the events only the Done of a sub-agent matters here, which          *)
(* DelegateTool.ExecuteStream forwards; the others are all "text". *)
Emits(s) ==
    /\ agent[s] = "running" /\ emitted[s] < MaxEvents
    /\ emitted' = [emitted EXCEPT ![s] = @ + 1]
    /\ \E type \in {"text", "subDone"} : Send(s, type)
    /\ UNCHANGED agent

(* The final response, an error, or the turns are used up.  With the       *)
(* context cancelled, sendEvent may give up instead. *)
Ends(s) ==
    /\ agent[s] = "running"
    /\ AgentGoto(s, "ending")
    /\ \/ \E e \in Endings : Send(s, e)
       \/ s \in halted /\ UNCHANGED feed
    /\ UNCHANGED emitted

ClosesChannel(s) ==
    /\ agent[s] = "ending"
    /\ AgentGoto(s, "closed")
    /\ UNCHANGED <<emitted, feed>>

AgentStep(s) ==
    /\ TakesTurn(s) \/ Emits(s) \/ Ends(s) \/ ClosesChannel(s)
    /\ UNCHANGED <<entered, current, queue, reads, halted, order>>

-----------------------------------------------------------------------------
TuiNext ==
    \/ Enter \/ CtrlC
    \/ \E r \in DOMAIN reads : HandleStreamMsg(r) \/ ReadNextEvent(r)
    \/ \E s \in StreamIds : AgentStep(s)

TuiSpec == TuiInit /\ [][TuiNext]_tuiVars

(* Update handles every message, a command that can go on does, and every  *)
(* stream ends (EveryCallEnds of AgentSession). *)
TuiFairness ==
    /\ WF_tuiVars(\E r \in DOMAIN reads : HandleStreamMsg(r))
    /\ WF_tuiVars(\E r \in DOMAIN reads : ReadNextEvent(r))
    /\ \A s \in StreamIds : WF_tuiVars(AgentStep(s))

-----------------------------------------------------------------------------
(* Properties *)

(* A prompt is never overtaken: whatever is cancelled, fails or ends late, *)
(* the prompts go to the agent in the order in which they were entered.    *)
PromptsInOrder == order = [i \in 1 .. Len(order) |-> i]

(* No prompt is stuck in the queue: "(queued)" means that it will be sent. *)
QueueDrains == <>[](\A s \in StreamIds : entered >= s => agent[s] # "none")
=============================================================================
