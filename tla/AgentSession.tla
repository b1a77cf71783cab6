---------------------------- MODULE AgentSession ----------------------------
(***************************************************************************)
(* The conversation of an agent (internal/agent): the messages of its      *)
(* Session, the loops of Prompt and Stream calls that append to them, and  *)
(* the goroutines that compress them in the background.  Stream calls are  *)
(* serialised by streamMu; Prompt calls are not.  A compression works for  *)
(* as long as its calls of the language model take with the messages that  *)
(* checkAndCompress copied, and then replaces the first part of a session  *)
(* that has moved on.                                                      *)
(*                                                                         *)
(* A message is its number and the call that appended it.  No code puts a  *)
(* system message into a session (buildMessages adds it to the request),   *)
(* so the branches for one are never taken.  What a summary says, token    *)
(* usage and the memory stores are left out; how far usage has come is a   *)
(* choice of Check.                                                        *)
(***************************************************************************)
EXTENDS Integers, Sequences, Functions

CONSTANTS
    Prompts,         \* calls of Prompt and Stream
    Streams,         \* those that are calls of Stream
    Summarizer,      \* the author of summaries
    Compressions,    \* slots for goroutines of runCompress (bound)
    MaxTurns,        \* config.MaxTurns
    MaxCalls,        \* tool calls in one response (bound)
    MaxMessages,     \* maxMessages
    SummarizeTurns   \* sessionCfg.SummarizeTurns

ASSUME AgentAssumption ==
    /\ Streams \subseteq Prompts
    /\ Summarizer \notin Prompts
    /\ MaxTurns \in Nat \ {0} /\ MaxCalls \in Nat /\ SummarizeTurns \in Nat
    /\ MaxMessages \in Nat \ {0}

VARIABLES
    session,     \* session.messages
    lastId,      \* number of messages appended so far
    turnCount,   \* sm.turnCount, counted up to SummarizeTurns
    loop,        \* loop[p]: where runLoop of the call is
    comp,        \* comp[k]: where runCompress is, and the snapshot it works on
    intact,      \* compressions since whose snapshot messages were only appended
    spoke        \* the stream that appended last

agentVars == <<session, lastId, turnCount, loop, comp, intact, spoke>>

Message == [id : Nat, by : Prompts \cup {Summarizer}]
Summary == [id |-> 0, by |-> Summarizer]

Loop == [at : {"new", "waiting", "ask", "tools", "count", "done"},
         turn : 0 .. MaxTurns - 1,   \* the turn of this call
         left : 0 .. MaxCalls,       \* tool results to come
         stop : BOOLEAN]             \* the response was a final one

Actions == {"none", "summarize", "full"}
CompState == [at : {"free", "ready", "working", "replaced"},
              action : Actions, msgs : Seq(Message), upTo : Nat]
Free == [at |-> "free", action |-> "none", msgs |-> <<>>, upTo |-> 0]

AgentTypeOK ==
    /\ session \in Seq(Message)
    /\ lastId \in Nat
    /\ turnCount \in 0 .. SummarizeTurns
    /\ loop \in [Prompts -> Loop]
    /\ comp \in [Compressions -> CompState]
    /\ intact \subseteq Compressions
    /\ spoke \in Streams \cup {Summarizer}

Init ==
    /\ session = <<>>
    /\ lastId = 0
    /\ turnCount = 0
    /\ loop = [p \in Prompts |-> [at |-> "new", turn |-> 0, left |-> 0, stop |-> FALSE]]
    /\ comp = [k \in Compressions |-> Free]
    /\ intact = {}
    /\ spoke = Summarizer

-----------------------------------------------------------------------------
(* Session.AddMessage: only the newest MaxMessages are kept. *)
AddMessage(p) ==
    LET longer == Append(session, [id |-> lastId + 1, by |-> p])
        excess == Len(longer) - MaxMessages IN
    /\ session' = IF excess > 0 THEN SubSeq(longer, excess + 1, Len(longer)) ELSE longer
    /\ lastId' = lastId + 1
    /\ intact' = IF excess > 0 THEN {} ELSE intact
    /\ spoke' = IF p \in Streams THEN p ELSE spoke

At(p, where) == loop[p].at = where
Goto(p, where) == loop' = [loop EXCEPT ![p].at = where]

-----------------------------------------------------------------------------
(* Prompt and Stream *)

Call(p) ==
    /\ At(p, "new")
    /\ Goto(p, "waiting")
    /\ UNCHANGED <<session, lastId, turnCount, comp, intact, spoke>>

(* Mutant: a stream that has ended keeps the mutex. *)
StreamMuHeldBy_Ended(q) == q \in Streams /\ loop[q].at \notin {"new", "waiting"}

(* Mutant: there is no mutex. *)
StreamMuHeldBy_Nobody(q) == FALSE

(* streamMu is held from before the prompt is appended until runLoop has   *)
(* returned, with or without an error. *)
StreamMuHeldBy(q) == q \in Streams /\ loop[q].at \in {"ask", "tools", "count"}

(* The user's message. *)
Begin(p) ==
    /\ At(p, "waiting")
    /\ p \in Streams => \A q \in Prompts \ {p} : ~StreamMuHeldBy(q)
    /\ AddMessage(p)
    /\ Goto(p, "ask")
    /\ UNCHANGED <<turnCount, comp>>

(* The provider fails, or the context is cancelled. *)
ProviderError(p) ==
    /\ At(p, "ask")
    /\ Goto(p, "done")
    /\ UNCHANGED <<session, lastId, turnCount, comp, intact, spoke>>

(* A response without tool calls is the last one. *)
FinalResponse(p) ==
    /\ At(p, "ask")
    /\ AddMessage(p)
    /\ loop' = [loop EXCEPT ![p].at = "count", ![p].stop = TRUE]
    /\ UNCHANGED <<turnCount, comp>>

ToolCalls(p, n) ==
    /\ At(p, "ask")
    /\ AddMessage(p)
    /\ loop' = [loop EXCEPT ![p].at = "tools", ![p].left = n]
    /\ UNCHANGED <<turnCount, comp>>

(* A stream that is closed without a Done chunk: nothing is appended and   *)
(* the loop goes on. *)
EmptyStream(p) ==
    /\ At(p, "ask")
    /\ p \in Streams
    /\ Goto(p, "count")
    /\ UNCHANGED <<session, lastId, turnCount, comp, intact, spoke>>

(* The results are appended one after the other. *)
ToolResult(p) ==
    /\ At(p, "tools")
    /\ AddMessage(p)
    /\ loop' = [loop EXCEPT ![p].left = @ - 1,
                            ![p].at = IF loop[p].left = 1 THEN "count" ELSE "tools"]
    /\ UNCHANGED <<turnCount, comp>>

(* sendEvent of a stream fails when the context is cancelled: the rest of  *)
(* the results is not appended.  Prompt appends them, as errors. *)
ToolsCancelled(p) ==
    /\ At(p, "tools")
    /\ p \in Streams
    /\ loop' = [loop EXCEPT ![p].at = "done", ![p].left = 0]
    /\ UNCHANGED <<session, lastId, turnCount, comp, intact, spoke>>

-----------------------------------------------------------------------------
(* The end of a turn *)

(* Compressor.Check, for a model whose context window is known: usage may  *)
(* have come to any threshold. *)
Check(turns) ==
    IF SummarizeTurns > 0 /\ turns >= SummarizeTurns THEN {"summarize", "full"} ELSE Actions

Working == \E k \in Compressions : comp[k].at \in {"working", "replaced"}

(* checkAndCompress copies the messages and starts a goroutine.  One that  *)
(* finds compressMu taken at once leaves no trace and needs no slot. *)
StartCompress(action) ==
    \/ /\ Working
       /\ UNCHANGED <<comp, intact>>
    \/ \E k \in Compressions :
          /\ comp[k].at = "free"
          /\ comp' = [comp EXCEPT ![k] = [at |-> "ready", action |-> action,
                                          msgs |-> session, upTo |-> lastId]]
          /\ intact' = intact \cup {k}

(* Mutant: turn <= MaxTurns. *)
NextTurn_OneMore(p) ==
    IF loop[p].stop \/ loop[p].turn + 1 > MaxTurns
    THEN Goto(p, "done")
    ELSE loop' = [loop EXCEPT ![p].at = "ask", ![p].turn = @ + 1]

(* return nil, the next turn, or ErrMaxTurnsExceeded *)
NextTurn(p) ==
    IF loop[p].stop \/ loop[p].turn + 1 >= MaxTurns
    THEN Goto(p, "done")
    ELSE loop' = [loop EXCEPT ![p].at = "ask", ![p].turn = @ + 1]

CountTurn(p) ==
    /\ At(p, "count")
    /\ turnCount' = IF turnCount < SummarizeTurns THEN turnCount + 1 ELSE turnCount
    /\ \E action \in Check(turnCount') :
          IF action = "none" THEN UNCHANGED <<comp, intact>> ELSE StartCompress(action)
    /\ NextTurn(p)
    /\ UNCHANGED <<session, lastId, spoke>>

-----------------------------------------------------------------------------
(* runCompress *)

Release(k) ==
    /\ comp' = [comp EXCEPT ![k] = Free]
    /\ intact' = intact \ {k}

(* compressMu.TryLock() *)
CompressTryLock(k) ==
    /\ comp[k].at = "ready"
    /\ IF Working
       THEN Release(k)
       ELSE comp' = [comp EXCEPT ![k].at = "working"] /\ UNCHANGED intact
    /\ UNCHANGED <<session, lastId, turnCount, loop, spoke>>

(* Summarize or Compress failed. *)
CompressFails(k) ==
    /\ comp[k].at = "working"
    /\ Release(k)
    /\ UNCHANGED <<session, lastId, turnCount, loop, spoke>>

(* Compressor.Summarize keeps the most recent third, at least two; a short *)
(* session is kept whole.  Compressor.Compress keeps nothing. *)
Kept(action, msgs) ==
    LET n == Len(msgs)
        keepCount == IF n \div 3 < 2 THEN 2 ELSE n \div 3 IN
    IF action = "full" THEN <<>>
    ELSE IF n < 4 THEN msgs
    ELSE SubSeq(msgs, n - keepCount + 1, n)

(* Mutant: off by one. *)
PostSnapshot_LosesOne(snapshotLen) == SubSeq(session, snapshotLen + 2, Len(session))

PostSnapshot(snapshotLen) == SubSeq(session, snapshotLen + 1, Len(session))

(* replaceSessionMessages.  The mutex is kept while the summary is stored. *)
Replace(k) ==
    /\ comp[k].at = "working"
    /\ session' = <<Summary>> \o Kept(comp[k].action, comp[k].msgs)
                              \o PostSnapshot(Len(comp[k].msgs))
    /\ comp' = [comp EXCEPT ![k].at = "replaced"]
    /\ intact' = {}
    /\ UNCHANGED <<lastId, turnCount, loop, spoke>>

CompressDone(k) ==
    /\ comp[k].at = "replaced"
    /\ Release(k)
    /\ UNCHANGED <<session, lastId, turnCount, loop, spoke>>

-----------------------------------------------------------------------------
LoopStep(p) ==
    \/ Begin(p)
    \/ ProviderError(p) \/ FinalResponse(p) \/ EmptyStream(p)
    \/ \E n \in 1 .. MaxCalls : ToolCalls(p, n)
    \/ ToolResult(p) \/ ToolsCancelled(p)
    \/ CountTurn(p)

CompressStep(k) == CompressTryLock(k) \/ CompressFails(k) \/ Replace(k) \/ CompressDone(k)

Next ==
    \/ \E p \in Prompts : Call(p) \/ LoopStep(p)
    \/ \E k \in Compressions : CompressStep(k)

Spec == Init /\ [][Next]_agentVars

(* Providers and tools answer or fail, the reader of a stream takes its    *)
(* events or cancels it, and what can run does run. *)
LiveSpec ==
    /\ Spec
    /\ \A p \in Prompts : WF_agentVars(LoopStep(p))
    /\ \A k \in Compressions : WF_agentVars(CompressStep(k))

-----------------------------------------------------------------------------
(* Properties *)

(* The messages in the session that were appended after k's snapshot. *)
News(k) == {m \in Range(session) : m.id > comp[k].upTo}

(* A compression puts its summary in front of a suffix of the session that *)
(* has everything appended while the language model worked: nothing new is *)
(* lost, doubled or moved, as long as nothing but appends came between.    *)
ReplaceKeepsNews ==
    [][\A k \in Compressions :
          Replace(k) /\ k \in intact =>
              /\ \E first \in 1 .. Len(session) + 1 :
                    session' = <<Summary>> \o SubSeq(session, first, Len(session))
              /\ News(k) \subseteq Range(session')]_agentVars

(* "serializes concurrent Stream calls" (streamMu): once a stream has      *)
(* appended its prompt, no other stream appends anything before it ends,   *)
(* through turns, tool calls, cancellations and errors.                    *)
StreamsDoNotMix ==
    \A p \in Streams : loop[p].at \in {"ask", "tools", "count"} => spoke = p

(* Every call ends: the loop is bounded, and no stream waits for ever for  *)
(* one that has ended.  (Each call is made once.)                          *)
EveryCallEnds == <>[](\A p \in Prompts : At(p, "new") \/ At(p, "done"))

(* "This allows callers to later merge any messages appended after the     *)
(* snapshot was taken" (MessagesSnapshot): a compression loses none.       *)
NewsMerged ==
    [][\A k \in Compressions :
          Replace(k) => News(k) \subseteq Range(session')]_agentVars
=============================================================================
