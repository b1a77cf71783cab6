--------------------------- MODULE ProviderStream ---------------------------
(***************************************************************************)
(* One streamed response of a language model: the events of the server,    *)
(* SSEScanner with its watchdog (internal/llm/base/stream.go), readStream  *)
(* of the OpenAI or the Anthropic provider, which assembles tool calls     *)
(* from fragments, the channel of chunks, and the turn of the agent that   *)
(* ranges over it and sends events on to the reader of the stream.         *)
(*                                                                         *)
(* A text or a fragment of arguments is counted, not spelled.  The server  *)
(* may fall silent, break off or send garbage at any point; an event that  *)
(* was sent but is not read yet is no different from one that was not sent *)
(* yet.  Token usage only matters as a chunk that takes room.              *)
(***************************************************************************)
EXTENDS Integers, Sequences, FiniteSets

CONSTANTS
    Indices,       \* indices of the tool calls in a response
    MaxFragments,  \* fragments of the arguments of one call (bound)
    MaxText,       \* texts and malformed events in a response (bound)
    ChunkCap,      \* capacity of the channel of chunks, 64
    EventCap       \* capacity of the channel of events, 1024

ASSUME SseAssumption ==
    /\ Indices \subseteq Nat /\ IsFiniteSet(Indices)
    /\ MaxFragments \in Nat \ {0} /\ MaxText \in Nat
    /\ ChunkCap \in Nat \ {0} /\ EventCap \in Nat \ {0}

VARIABLES
    flavour,   \* which provider
    stage,     \* what the server has sent of the frame of the response
    spoken,    \* number of texts and malformed events it has sent
    sent,      \* sent[c]: fragments it has sent, -1 before the call is announced
    pending,   \* readStream's map of PendingToolCall; -1 for no entry
    prod,      \* the goroutine of Stream: what it has yet to send, and whether it then ends
    watch,     \* the watchdog: "watching", "fired" (s.err is set) or "gone"
    body,      \* the body of the response is open
    chunks,    \* the channel of chunks
    closed,    \* it is closed
    turn,      \* where executeTurn is
    held,      \* the chunk it is working on
    calls,     \* toolCalls
    events,    \* number of events in the agent's channel
    stopped    \* the context is cancelled

sseVars == <<flavour, stage, spoken, sent, pending, prod, watch, body, chunks,
             closed, turn, held, calls, events, stopped>>

NoArgs == -1
Chunk == [kind : {"text", "blank", "done", "error"}, idx : {NoArgs}, args : {NoArgs}]
         \cup [kind : {"call"}, idx : Indices, args : 0 .. MaxFragments]
Plain(kind) == [kind |-> kind, idx |-> NoArgs, args |-> NoArgs]
Nothing == Plain("blank")

(* Types of the response, its readers and the assembled calls. *)
SseTypeOK ==
    /\ flavour \in {"openai", "anthropic"}
    /\ stage \in {"open", "tool_calls", "stop", "over"}
    /\ spoken \in 0 .. MaxText
    /\ sent \in [Indices -> NoArgs .. MaxFragments]
    /\ pending \in [Indices -> NoArgs .. MaxFragments]
    /\ prod \in [todo : Seq(Chunk), ends : BOOLEAN]
    /\ watch \in {"watching", "fired", "gone"}
    /\ body \in BOOLEAN /\ closed \in BOOLEAN /\ stopped \in BOOLEAN
    /\ chunks \in Seq(Chunk) /\ Len(chunks) <= ChunkCap
    /\ turn \in {"asking", "receiving", "sending", "again", "final", "tools", "failed"}
    /\ held \in Chunk
    /\ calls \in Seq(Chunk)
    /\ events \in 0 .. EventCap

(* The rest state of a response that nobody has asked for. *)
SseRest(where) ==
    /\ stage = "open" /\ spoken = 0
    /\ sent = [c \in Indices |-> NoArgs]
    /\ pending = [c \in Indices |-> NoArgs]
    /\ prod = [todo |-> <<>>, ends |-> TRUE]
    /\ watch = "gone" /\ body = FALSE
    /\ chunks = <<>> /\ closed = TRUE
    /\ turn = where /\ held = Nothing /\ calls = <<>>
    /\ events = 0 /\ stopped = FALSE

SseInit == flavour \in {"openai", "anthropic"} /\ SseRest("asking")

serverVars == <<stage, spoken, sent>>
turnVars == <<turn, held, calls, events>>

-----------------------------------------------------------------------------
(* DoRequest and Stream *)

RequestFails ==
    /\ turn = "asking"
    /\ turn' = "failed"
    /\ UNCHANGED <<flavour, serverVars, pending, prod, watch, body, chunks, closed,
                   held, calls, events, stopped>>

StreamBegins ==
    /\ turn = "asking" /\ ~stopped
    /\ turn' = "receiving"
    /\ body' = TRUE /\ watch' = "watching" /\ closed' = FALSE
    /\ prod' = [todo |-> <<>>, ends |-> FALSE]
    /\ UNCHANGED <<flavour, serverVars, pending, chunks, held, calls, events, stopped>>

-----------------------------------------------------------------------------
(* readStream *)

Reading == turn # "asking" /\ ~closed /\ prod.todo = <<>> /\ ~prod.ends

(* What is read becomes these chunks, after which readStream may return.   *)
Yield(todo, ends) == prod' = [todo |-> todo, ends |-> ends]

Text ==
    /\ stage = "open" /\ spoken < MaxText
    /\ spoken' = spoken + 1
    /\ Yield(<<Plain("text")>>, FALSE)
    /\ UNCHANGED <<stage, sent, pending>>

(* Anthropic's readStream skips a malformed event, OpenAI's shows it. *)
Malformed ==
    /\ stage = "open" /\ spoken < MaxText
    /\ spoken' = spoken + 1
    /\ Yield(IF flavour = "openai" THEN <<Plain("text")>> ELSE <<>>, FALSE)
    /\ UNCHANGED <<stage, sent, pending>>

(* The first fragment makes the entry in pending.  For OpenAI the choice   *)
(* that holds a fragment becomes a chunk without content. *)
Fragment(c) ==
    /\ stage = "open" /\ sent[c] < MaxFragments
    /\ sent' = [sent EXCEPT ![c] = @ + 1]
    /\ pending' = [pending EXCEPT ![c] = @ + 1]
    /\ Yield(IF flavour = "openai" THEN <<Nothing>> ELSE <<>>, FALSE)
    /\ UNCHANGED <<stage, spoken>>

(* The numbers of S, least first (slices.Sorted). *)
Lists(S) == {s \in [1 .. Cardinality(S) -> S] :
                /\ \A c \in S : \E i \in DOMAIN s : s[i] = c
                /\ \A i, j \in DOMAIN s : i < j => s[i] < s[j]}
Ascending(S) == CHOOSE s \in Lists(S) : TRUE

Known == {c \in Indices : pending[c] # NoArgs}
Assembled(c) == [kind |-> "call", idx |-> c, args |-> pending[c]]
Flushed == [i \in 1 .. Cardinality(Known) |-> Assembled(Ascending(Known)[i])]

(* finish_reason, or message_delta with a stop_reason.  A stop_reason that *)
(* is not where messageDelta expects it is not seen. *)
Finish(reason) ==
    /\ stage = "open"
    /\ reason = "tool_calls" => \E c \in Indices : sent[c] # NoArgs
    /\ stage' = reason
    /\ \/ Yield((IF reason = "tool_calls" THEN Flushed ELSE <<>>)
                \o (IF flavour = "openai" THEN <<Plain("done")>> ELSE <<>>), FALSE)
       \/ flavour = "anthropic" /\ Yield(<<>>, FALSE)
    /\ UNCHANGED <<spoken, sent, pending>>

(* [DONE], with the usage if there was one, or message_stop. *)
Over ==
    /\ stage \in {"tool_calls", "stop"}
    /\ stage' = "over"
    /\ \/ Yield(<<Plain("done")>>, TRUE)
       \/ flavour = "openai" /\ Yield(<<>>, TRUE)
    /\ UNCHANGED <<spoken, sent, pending>>

ReadEvent ==
    /\ Reading /\ body
    /\ \/ Text \/ Malformed \/ Over
       \/ \E c \in Indices : Fragment(c)
       \/ \E reason \in {"tool_calls", "stop"} : Finish(reason)
    /\ UNCHANGED <<flavour, watch, body, chunks, closed, turnVars, stopped>>

(* Mutant: what is pending is sent when the stream breaks off. *)
ReadBroken_Flushes ==
    /\ Reading
    /\ \/ Yield(Flushed \o <<Plain("error")>>, TRUE)
       \/ watch # "fired" /\ Yield(Flushed, TRUE)
    /\ UNCHANGED <<flavour, serverVars, pending, watch, body, chunks, closed, turnVars, stopped>>

(* The connection breaks or the watchdog has closed the body: a last chunk *)
(* with the error as its text.  A server that just hangs up gives io.EOF.  *)
ReadBroken ==
    /\ Reading
    /\ \/ Yield(<<Plain("error")>>, TRUE)
       \/ watch # "fired" /\ Yield(<<>>, TRUE)
    /\ UNCHANGED <<flavour, serverVars, pending, watch, body, chunks, closed, turnVars, stopped>>

(* ch <- chunk: nothing but room in the channel ends the wait. *)
Push ==
    /\ prod.todo # <<>> /\ Len(chunks) < ChunkCap
    /\ chunks' = Append(chunks, Head(prod.todo))
    /\ prod' = [prod EXCEPT !.todo = Tail(@)]
    /\ UNCHANGED <<flavour, serverVars, pending, watch, body, closed, turnVars, stopped>>

(* sse.Close(), close(ch) *)
StreamCloses ==
    /\ ~closed /\ prod.todo = <<>> /\ prod.ends
    /\ closed' = TRUE
    /\ body' = FALSE /\ watch' = "gone"
    /\ UNCHANGED <<flavour, serverVars, pending, prod, chunks, turnVars, stopped>>

-----------------------------------------------------------------------------
(* The watchdog *)

(* Mutant: a silent server is waited for. *)
IdleFires_NotWhenSilent ==
    /\ watch = "watching"
    /\ prod.todo # <<>> /\ Len(chunks) = ChunkCap
    /\ watch' = "fired" /\ body' = FALSE
    /\ UNCHANGED <<flavour, serverVars, pending, prod, chunks, closed, turnVars, stopped>>

(* Nothing is scanned for idleTimeout: the server is silent, or readStream *)
(* waits for room in the channel. *)
IdleFires ==
    /\ watch = "watching"
    /\ Reading \/ (prod.todo # <<>> /\ Len(chunks) = ChunkCap)
    /\ watch' = "fired" /\ body' = FALSE
    /\ UNCHANGED <<flavour, serverVars, pending, prod, chunks, closed, turnVars, stopped>>

CancelSeen ==
    /\ watch = "watching" /\ stopped
    /\ watch' = "gone" /\ body' = FALSE
    /\ UNCHANGED <<flavour, serverVars, pending, prod, chunks, closed, turnVars, stopped>>

-----------------------------------------------------------------------------
(* executeTurn of Agent.Stream *)

(* After an event was sent, or none had to be. *)
Handled(c) ==
    IF c.kind \in {"done", "error"} /\ calls = <<>> THEN turn' = "final" ELSE turn' = "receiving"

Receive ==
    /\ turn = "receiving" /\ chunks # <<>>
    /\ chunks' = Tail(chunks)
    /\ held' = Head(chunks)
    /\ IF stopped
       THEN turn' = "failed" /\ UNCHANGED calls
       ELSE /\ calls' = IF Head(chunks).kind = "call" THEN Append(calls, Head(chunks)) ELSE calls
            /\ IF Head(chunks).kind \in {"text", "error", "call"}
               THEN turn' = "sending"
               ELSE Handled(Head(chunks))
    /\ UNCHANGED <<flavour, serverVars, pending, prod, watch, body, closed, events, stopped>>

(* sendEvent *)
SendEvent ==
    /\ turn = "sending"
    /\ \/ events < EventCap /\ events' = events + 1 /\ Handled(held)
       \/ stopped /\ turn' = "failed" /\ UNCHANGED events
    /\ UNCHANGED <<flavour, serverVars, pending, prod, watch, body, chunks, closed,
                   held, calls, stopped>>

(* The channel of chunks is closed and empty.  Without a final chunk and   *)
(* without calls the text is dropped, and the next turn asks again. *)
RangeEnds ==
    /\ turn = "receiving" /\ chunks = <<>> /\ closed
    /\ turn' = IF calls # <<>> THEN "tools" ELSE "again"
    /\ UNCHANGED <<flavour, serverVars, pending, prod, watch, body, chunks, closed,
                   held, calls, events, stopped>>

(* The reader takes an event, or gives up and cancels. *)
ReaderTakes ==
    /\ events > 0
    /\ events' = events - 1
    /\ UNCHANGED <<flavour, serverVars, pending, prod, watch, body, chunks, closed,
                   turn, held, calls, stopped>>

ReaderCancels ==
    /\ ~stopped /\ turn \in {"receiving", "sending"}
    /\ stopped' = TRUE
    /\ UNCHANGED <<flavour, serverVars, pending, prod, watch, body, chunks, closed, turnVars>>

-----------------------------------------------------------------------------
Producer == ReadBroken \/ Push \/ StreamCloses
Watchdog == IdleFires \/ CancelSeen
Consumer == Receive \/ SendEvent \/ RangeEnds \/ RequestFails \/ StreamBegins

SseNext ==
    \/ ReadEvent \/ ReadBroken \/ Push \/ StreamCloses
    \/ IdleFires \/ CancelSeen
    \/ Receive \/ SendEvent \/ RangeEnds \/ RequestFails \/ StreamBegins
    \/ ReaderTakes \/ ReaderCancels

SseSpec == SseInit /\ [][SseNext]_sseVars

(* Nothing is asked of the server while the body is open: that it goes on  *)
(* is up to it.  Once the body is closed, a read fails. *)
SseFairness ==
    /\ WF_sseVars(Push \/ StreamCloses)
    /\ WF_sseVars(~body /\ ReadBroken)
    /\ WF_sseVars(Watchdog)
    /\ WF_sseVars(Consumer)
    /\ WF_sseVars(ReaderTakes)

SseLiveSpec == SseSpec /\ SseFairness

-----------------------------------------------------------------------------
(* Properties *)

(* A tool is never called with arguments that were cut off: whatever the   *)
(* server interleaves, and wherever the stream breaks, the calls that the  *)
(* loop executes are all that the model made, each once, in the order of   *)
(* their indices, each with every fragment of its arguments. *)
CallsAreWhole ==
    turn = "tools" =>
        /\ stage \in {"tool_calls", "over"}
        /\ {calls[i].idx : i \in DOMAIN calls} = {c \in Indices : sent[c] # NoArgs}
        /\ \A i, j \in DOMAIN calls : i < j => calls[i].idx < calls[j].idx
        /\ \A i \in DOMAIN calls : calls[i].args = sent[calls[i].idx]

(* A turn ends whatever the server does, and when nobody has cancelled it, *)
(* the goroutine that read the response has ended too: what it sends after *)
(* the chunk that the turn ends with always finds room. *)
StreamEnds ==
    <>[](turn \notin {"asking", "receiving", "sending"} /\ (stopped \/ closed))
=============================================================================
