----------------------------- MODULE Delegation -----------------------------
(***************************************************************************)
(* One call of the tool delegate_task (internal/tools/delegate.go): a      *)
(* sub-agent of this program, or an external one behind ACPSubAgent        *)
(* (acp.go), which is a process that prints the URL of its server, answers *)
(* one request and is killed with the context of the call.  DelegateTool   *)
(* makes a new sub-agent for every call and never closes it.               *)
(*                                                                         *)
(* A streamed call has three goroutines: one reads the sub-agent's answer  *)
(* into a channel, the agent's loop ranges over it and forwards events to  *)
(* the agent's own channel, and the reader of that may cancel everything.  *)
(* Events other than the end are counted; what they say is left out.       *)
(***************************************************************************)
EXTENDS Integers, Sequences

CONSTANTS
    MaxSaid,       \* events of the sub-agent before its answer ends or breaks off (bound)
    SubCap,        \* capacity of the sub-agent's channel: 16, or 1024 for an agent
    ParentCap      \* capacity of the agent's channel, 1024

ASSUME DelegationAssumption ==
    MaxSaid \in Nat /\ SubCap \in Nat \ {0} /\ ParentCap \in Nat \ {0}

VARIABLES
    kind,      \* the sub-agent is "internal" or "external"
    streamed,  \* ExecuteStream, not Execute
    phase,     \* where the call is
    outcome,   \* what it returned
    lapsed,    \* its context was done before it returned
    quit,      \* the context of the agent's stream or prompt is cancelled
    process,   \* of the external agent
    sub,       \* the goroutine that reads the answer
    item,      \* the event it is sending
    buffer,    \* its channel, closed when sub is "ended"
    said,      \* number of events the sub-agent has sent
    ending,    \* how its answer ended
    content,   \* number of events that went into the result
    feedLen    \* number of events in the agent's channel

callVars == <<kind, streamed, phase, outcome, lapsed, quit, process, sub, item,
              buffer, said, ending, content, feedLen>>

Items == {"event", "done", "error"}

(* Types of the two streams and of the goroutine between them. *)
DelegationTypeOK ==
    /\ kind \in {"internal", "external"} /\ streamed \in BOOLEAN
    /\ phase \in {"launch", "url", "kill", "request", "range", "forward", "result", "done", "gone"}
    /\ outcome \in {"none", "ok", "error"}
    /\ lapsed \in BOOLEAN /\ quit \in BOOLEAN
    /\ process \in {"none", "up", "dead", "reaped"}
    /\ sub \in {"none", "open", "sending", "ended"}
    /\ item \in Items
    /\ buffer \in Seq(Items) /\ Len(buffer) <= SubCap
    /\ said \in 0 .. MaxSaid + 1 /\ content \in 0 .. MaxSaid + 1
    /\ ending \in {"none", "done", "error", "broken"}
    /\ feedLen \in 0 .. ParentCap

DelegationRest(where, result) ==
    /\ phase = where /\ outcome = result
    /\ lapsed = FALSE /\ quit = FALSE
    /\ process = "none" /\ sub = "none" /\ item = "event" /\ buffer = <<>>
    /\ said = 0 /\ ending = "none" /\ content = 0 /\ feedLen = 0

(* setupSubAgent; parameters that are not valid are an error at once.      *)
DelegationInit ==
    /\ kind \in {"internal", "external"} /\ streamed \in BOOLEAN
    /\ DelegationRest(IF kind = "external" THEN "launch" ELSE "request", "none")

setUp == <<kind, streamed>>
answer == <<sub, item, buffer, said, ending>>

(* The deadline, the agent's context, or the cancel when the tool returns. *)
ContextDone == lapsed \/ outcome # "none"

ToolReturns(result) ==
    /\ phase' = "result" /\ outcome' = result

-----------------------------------------------------------------------------
(* ACPSubAgent.start, killLocked *)

Launch ==
    /\ phase = "launch"
    /\ \/ process' = "up" /\ phase' = "url" /\ UNCHANGED outcome
       \/ process' = "none" /\ ToolReturns("error")
    /\ UNCHANGED <<setUp, lapsed, quit, answer, content, feedLen>>

UrlFound ==
    /\ phase = "url" /\ process = "up"
    /\ phase' = "request"
    /\ UNCHANGED <<setUp, outcome, lapsed, quit, process, answer, content, feedLen>>

(* Five seconds, or the context. *)
UrlTimesOut ==
    /\ phase = "url"
    /\ phase' = "kill"
    /\ UNCHANGED <<setUp, outcome, lapsed, quit, process, answer, content, feedLen>>

(* Interrupt, and Kill after two seconds; this is the only Wait.           *)
Killed ==
    /\ phase = "kill"
    /\ process' = "reaped"
    /\ ToolReturns("error")
    /\ UNCHANGED <<setUp, lapsed, quit, answer, content, feedLen>>

ProcessDies ==
    /\ process = "up"
    /\ process' = "dead"
    /\ UNCHANGED <<setUp, phase, outcome, lapsed, quit, answer, content, feedLen>>

(* Mutant: the process does not belong to the context of the call.         *)
ProcessContextDone_Never == FALSE

(* exec.CommandContext, in the sandbox or not *)
ProcessContextDone == ContextDone

ContextKills ==
    /\ process = "up" /\ ProcessContextDone
    /\ process' = "dead"
    /\ UNCHANGED <<setUp, phase, outcome, lapsed, quit, answer, content, feedLen>>

-----------------------------------------------------------------------------
(* The request *)

ServerUp == kind = "external" => process = "up"

RequestRefused ==
    /\ phase = "request"
    /\ ToolReturns("error")
    /\ UNCHANGED <<setUp, lapsed, quit, process, answer, content, feedLen>>

(* Prompt: one answer, or an error. *)
PromptAnswered ==
    /\ phase = "request" /\ ~streamed /\ ~ContextDone /\ ServerUp
    /\ ending' = "done"
    /\ ToolReturns("ok")
    /\ UNCHANGED <<setUp, lapsed, quit, process, sub, item, buffer, said, content, feedLen>>

StreamOpened ==
    /\ phase = "request" /\ streamed /\ ~ContextDone /\ ServerUp
    /\ sub' = "open" /\ phase' = "range"
    /\ UNCHANGED <<setUp, outcome, lapsed, quit, process, item, buffer, said, ending,
                   content, feedLen>>

-----------------------------------------------------------------------------
(* The goroutine that reads the answer *)

restOfCall == <<setUp, phase, outcome, lapsed, quit, process, content, feedLen>>

(* What has arrived is read though the process is dead, and sent on or not *)
(* though the context is done; only an agent looks at its context first.   *)
SubSays ==
    /\ sub = "open"
    /\ \/ said < MaxSaid /\ said' = said + 1 /\ item' = "event" /\ UNCHANGED ending
       \/ \E e \in {"done", "error"} :
             /\ e = "done" => kind = "external" \/ ~ContextDone
             /\ ending' = e /\ item' = e /\ UNCHANGED said
    /\ sub' = "sending"
    /\ UNCHANGED <<restOfCall, buffer>>

(* The response of an agent's provider breaks off.  The provider makes a   *)
(* last chunk of it, the text of the error marked Done (ProviderStream),   *)
(* and the agent's loop a text event and, if the turn has no tool calls,   *)
(* an EventDone: the answer ends like a finished one.  If the context is   *)
(* done the loop has looked at it first, and sends the error.              *)
AgentBreaks ==
    /\ kind = "internal"
    /\ IF ContextDone
       THEN ending' = "error" /\ item' = "error" /\ UNCHANGED said
       ELSE ending' = "broken" /\ item' = "event" /\ said' = said + 1
    /\ sub' = "sending"
    /\ UNCHANGED buffer

(* The connection to an external agent ends.  ACPSubAgent says Done if the *)
(* context is not done and there is room; its channel is closed anyway.    *)
ServerBreaks ==
    /\ kind = "external"
    /\ ending' = "broken" /\ sub' = "ended"
    /\ buffer' = IF ~ContextDone /\ Len(buffer) < SubCap THEN Append(buffer, "done") ELSE buffer
    /\ UNCHANGED <<item, said>>

SubBreaks ==
    /\ sub = "open"
    /\ AgentBreaks \/ ServerBreaks
    /\ UNCHANGED restOfCall

(* After the text of an error comes the Done.                              *)
Deliver ==
    /\ sub = "sending"
    /\ \/ /\ Len(buffer) < SubCap
          /\ buffer' = Append(buffer, item)
          /\ \/ item = "event" /\ ending = "none" /\ sub' = "open" /\ UNCHANGED item
             \/ item = "event" /\ ending = "broken" /\ item' = "done" /\ UNCHANGED sub
             \/ item # "event" /\ sub' = "ended" /\ UNCHANGED item
       \/ ContextDone /\ sub' = "ended" /\ UNCHANGED <<buffer, item>>
    /\ UNCHANGED <<restOfCall, said, ending>>

-----------------------------------------------------------------------------
(* DelegateTool.ExecuteStream *)

(* Mutant: an error is an event like any other. *)
TakeEvent_Any ==
    /\ phase = "range" /\ buffer # <<>>
    /\ buffer' = Tail(buffer)
    /\ phase' = "forward"
    /\ content' = IF Head(buffer) = "event" THEN content + 1 ELSE content
    /\ UNCHANGED <<setUp, outcome, lapsed, quit, process, sub, item, said, ending, feedLen>>

TakeEvent ==
    /\ phase = "range" /\ buffer # <<>>
    /\ buffer' = Tail(buffer)
    /\ IF Head(buffer) = "error"
       THEN ToolReturns("error") /\ UNCHANGED content
       ELSE /\ phase' = "forward"
            /\ content' = IF Head(buffer) = "event" THEN content + 1 ELSE content
            /\ UNCHANGED outcome
    /\ UNCHANGED <<setUp, lapsed, quit, process, sub, item, said, ending, feedLen>>

Forward ==
    /\ phase = "forward"
    /\ \/ /\ feedLen < ParentCap
          /\ feedLen' = feedLen + 1 /\ phase' = "range"
          /\ UNCHANGED outcome
       \/ ContextDone /\ ToolReturns("error") /\ UNCHANGED feedLen
    /\ UNCHANGED <<setUp, lapsed, quit, process, answer, content>>

(* The channel is closed: whatever has come is the result. *)
AnswerEnds ==
    /\ phase = "range" /\ buffer = <<>> /\ sub = "ended"
    /\ ToolReturns("ok")
    /\ UNCHANGED <<setUp, lapsed, quit, process, answer, content, feedLen>>

(* The tool's result as an event, and as a message of the session.         *)
ResultShown ==
    /\ phase = "result"
    /\ IF streamed
       THEN \/ feedLen < ParentCap /\ feedLen' = feedLen + 1 /\ phase' = "done"
            \/ quit /\ phase' = "gone" /\ UNCHANGED feedLen
       ELSE phase' = "done" /\ UNCHANGED feedLen
    /\ UNCHANGED <<setUp, outcome, lapsed, quit, process, answer, content>>

-----------------------------------------------------------------------------
(* What ends the contexts, and the reader of the agent's channel           *)

(* delegateTimeout, or the timeout of the external agent *)
DeadlinePasses ==
    /\ ~ContextDone
    /\ lapsed' = TRUE
    /\ UNCHANGED <<setUp, phase, outcome, quit, process, answer, content, feedLen>>

UserCancels ==
    /\ ~quit /\ phase \notin {"done", "gone"}
    /\ quit' = TRUE /\ lapsed' = (lapsed \/ outcome = "none")
    /\ UNCHANGED <<setUp, phase, outcome, process, answer, content, feedLen>>

EventRead ==
    /\ feedLen > 0
    /\ feedLen' = feedLen - 1
    /\ UNCHANGED <<setUp, phase, outcome, lapsed, quit, process, answer, content>>

-----------------------------------------------------------------------------
StartStep == Launch \/ UrlTimesOut \/ Killed
ToolStep == TakeEvent \/ Forward \/ AnswerEnds \/ ResultShown

DelegationNext ==
    \/ Launch \/ UrlFound \/ UrlTimesOut \/ Killed
    \/ ProcessDies \/ ContextKills
    \/ RequestRefused \/ PromptAnswered \/ StreamOpened
    \/ SubSays \/ SubBreaks \/ Deliver
    \/ TakeEvent \/ Forward \/ AnswerEnds \/ ResultShown
    \/ DeadlinePasses \/ UserCancels \/ EventRead

DelegationSpec == DelegationInit /\ [][DelegationNext]_callVars

(* Neither the process nor its server need ever say anything. *)
DelegationFairness ==
    /\ WF_callVars(StartStep) /\ WF_callVars(ToolStep)
    /\ WF_callVars(ContextKills)
    /\ WF_callVars(ContextDone /\ RequestRefused)
    /\ WF_callVars((ContextDone \/ process = "dead") /\ SubBreaks) /\ WF_callVars(Deliver)
    /\ WF_callVars(DeadlinePasses)
    /\ WF_callVars(EventRead)

-----------------------------------------------------------------------------
(* Properties *)

(* A success reported in time holds every event of the sub-agent, however  *)
(* slow the two readers were, and an error event is never taken for one;   *)
(* if the context ended before, at most the last event is missing.  It     *)
(* does not say that the answer was finished: one that broke off passes    *)
(* for one that ended, with the text of the error as its last event if the *)
(* sub-agent is internal and without a word if it is external; and once    *)
(* the context is done even an error may be lost on the way. *)
SuccessHoldsAnswer ==
    outcome = "ok" =>
        /\ content >= said - 1
        /\ ~lapsed => content = said /\ ending \in {"done", "broken"}

(* A call leaves nothing behind: it returns, the goroutine that reads the  *)
(* answer ends, and the external process is dead, whoever stopped first    *)
(* and whatever was waiting for room or for an answer. *)
NothingLeftRunning ==
    <>[](phase \in {"done", "gone"} /\ sub \in {"none", "ended"} /\ process # "up")
=============================================================================
