------------------------- MODULE AgentSessionProofs -------------------------
(***************************************************************************)
(* Proofs about an agent's conversation, for any number of calls, turns,   *)
(* tool calls and compressions: the state keeps its types, the messages of *)
(* two streams do not mix, and a compression keeps what was appended since *)
(* its snapshot as long as nothing but appends came between.               *)
(***************************************************************************)
EXTENDS AgentSession, SequenceTheorems, TLAPS

(* AddMessage and Replace build a sequence of messages again. *)
LEMMA SubSeqType ==
    ASSUME NEW s \in Seq(Message), NEW m \in Nat
    PROVE  SubSeq(s, m + 1, Len(s)) \in Seq(Message)
  OBVIOUS

LEMMA AddMessageType ==
    ASSUME AgentTypeOK, NEW p \in Prompts, AddMessage(p)
    PROVE  /\ session' \in Seq(Message)
           /\ lastId' \in Nat
           /\ intact' \subseteq Compressions
           /\ spoke' \in Streams \cup {Summarizer}
<1> DEFINE new == [id |-> lastId + 1, by |-> p]
           longer == Append(session, new)
           excess == Len(longer) - MaxMessages
<1>1. new \in Message
  BY DEF AgentTypeOK, Message
<1>2. longer \in Seq(Message) /\ Len(longer) \in Nat
  BY <1>1 DEF AgentTypeOK
<1>3. excess \in Int
  BY <1>2, AgentAssumption
<1> HIDE DEF new, longer, excess
<1>4. session' = IF excess > 0 THEN SubSeq(longer, excess + 1, Len(longer)) ELSE longer
  BY DEF AddMessage, new, longer, excess
<1>5. session' \in Seq(Message)
  BY <1>2, <1>3, <1>4, SubSeqType
<1>6. lastId \in Nat /\ intact \subseteq Compressions /\ spoke \in Streams \cup {Summarizer}
  BY DEF AgentTypeOK
<1>7. /\ lastId' = lastId + 1
      /\ intact' \in {{}, intact}
      /\ spoke' = IF p \in Streams THEN p ELSE spoke
  BY DEF AddMessage
<1> QED
  BY <1>5, <1>6, <1>7

(* Summarize and Compress keep an end of the snapshot. *)
LEMMA KeptIsEnd ==
    ASSUME NEW msgs \in Seq(Message), NEW action
    PROVE  \E m \in 0 .. Len(msgs) : Kept(action, msgs) = SubSeq(msgs, m + 1, Len(msgs))
<1> DEFINE n == Len(msgs)
           keepCount == IF n \div 3 < 2 THEN 2 ELSE n \div 3
<1>1. n \in Nat
  OBVIOUS
<1>2. CASE action = "full"
  <2>1. SubSeq(msgs, n + 1, n) = <<>>
    BY <1>1
  <2> QED
    BY <1>1, <1>2, <2>1 DEF Kept
<1>3. CASE action # "full" /\ n < 4
  <2>1. SubSeq(msgs, 0 + 1, n) = msgs
    BY <1>1
  <2> QED
    BY <1>1, <1>3, <2>1 DEF Kept
<1>4. CASE action # "full" /\ ~(n < 4)
  <2>1. n - keepCount \in 0 .. n
    BY <1>1, <1>4
  <2> QED
    BY <1>4, <2>1 DEF Kept
<1> QED
  BY <1>2, <1>3, <1>4

LEMMA KeptType ==
    ASSUME NEW msgs \in Seq(Message), NEW action
    PROVE  Kept(action, msgs) \in Seq(Message)
<1>1. PICK m \in 0 .. Len(msgs) : Kept(action, msgs) = SubSeq(msgs, m + 1, Len(msgs))
  BY KeptIsEnd
<1>2. m \in Nat
  OBVIOUS
<1> QED
  BY <1>1, <1>2, SubSeqType

-----------------------------------------------------------------------------
(* The state keeps its types: no call takes more than MaxTurns turns or    *)
(* waits for a tool result that was not asked for. *)
ToolsLeft == \A p \in Prompts : loop[p].at = "tools" => loop[p].left > 0

AgentInv == AgentTypeOK /\ ToolsLeft

LEMMA LoopKept ==
    ASSUME AgentInv, NEW p \in Prompts, LoopStep(p) \/ Call(p)
    PROVE  loop' \in [Prompts -> Loop] /\ ToolsLeft'
<1> USE AgentAssumption DEF Loop, ToolsLeft, At, Goto
<1>1. loop \in [Prompts -> Loop] /\ ToolsLeft
  BY DEF AgentInv, AgentTypeOK
<1>2. CASE Call(p) \/ Begin(p) \/ ProviderError(p) \/ EmptyStream(p)
  BY <1>1, <1>2 DEF Call, Begin, ProviderError, EmptyStream
<1>3. CASE FinalResponse(p)
  BY <1>1, <1>3 DEF FinalResponse
<1>4. ASSUME NEW n \in 1 .. MaxCalls, ToolCalls(p, n)
      PROVE  loop' \in [Prompts -> Loop] /\ ToolsLeft'
  <2>1. loop' = [loop EXCEPT ![p].at = "tools", ![p].left = n]
    BY <1>4 DEF ToolCalls
  <2>2. n \in 0 .. MaxCalls /\ n > 0
    BY <1>4
  <2>3. loop' \in [Prompts -> Loop]
    BY <1>1, <2>1, <2>2
  <2>4. ToolsLeft'
    BY <1>1, <2>1, <2>2
  <2> QED
    BY <2>3, <2>4
<1>5. CASE ToolResult(p)
  <2>1. loop' = [loop EXCEPT ![p].left = @ - 1,
                             ![p].at = IF loop[p].left = 1 THEN "count" ELSE "tools"]
    BY <1>5 DEF ToolResult
  <2>2. loop[p].left \in 0 .. MaxCalls /\ loop[p].left > 0
    BY <1>1, <1>5 DEF ToolResult
  <2>3. loop[p].left - 1 \in 0 .. MaxCalls
    BY <2>2
  <2>4. loop' \in [Prompts -> Loop]
    BY <1>1, <2>1, <2>3
  <2>5. ToolsLeft'
    BY <1>1, <2>1, <2>2
  <2> QED
    BY <2>4, <2>5
<1>6. CASE ToolsCancelled(p)
  BY <1>1, <1>6 DEF ToolsCancelled
<1>7. CASE CountTurn(p)
  BY <1>1, <1>7 DEF CountTurn, NextTurn
<1> QED
  BY <1>2, <1>3, <1>4, <1>5, <1>6, <1>7 DEF LoopStep

LEMMA DataKept ==
    ASSUME AgentTypeOK, [Next]_agentVars
    PROVE  /\ comp' \in [Compressions -> CompState]
           /\ intact' \subseteq Compressions
           /\ turnCount' \in 0 .. SummarizeTurns
           /\ session' \in Seq(Message)
           /\ lastId' \in Nat
           /\ spoke' \in Streams \cup {Summarizer}
<1>1. /\ comp \in [Compressions -> CompState]
      /\ intact \subseteq Compressions
      /\ session \in Seq(Message) /\ lastId \in Nat
      /\ turnCount \in 0 .. SummarizeTurns
      /\ spoke \in Streams \cup {Summarizer}
  BY DEF AgentTypeOK
<1>2. Free \in CompState
  BY DEF Free, CompState, Actions
<1>3. CASE UNCHANGED agentVars
  BY <1>1, <1>3 DEF agentVars
<1>4. ASSUME NEW p \in Prompts,
             Begin(p) \/ FinalResponse(p) \/ ToolResult(p) \/ \E n \in 1 .. MaxCalls : ToolCalls(p, n)
      PROVE  /\ AddMessage(p)
             /\ UNCHANGED <<turnCount, comp>>
  BY <1>4 DEF Begin, FinalResponse, ToolResult, ToolCalls
<1>5. ASSUME NEW p \in Prompts,
             Call(p) \/ ProviderError(p) \/ EmptyStream(p) \/ ToolsCancelled(p)
      PROVE  UNCHANGED <<session, lastId, turnCount, comp, intact, spoke>>
  BY <1>5 DEF Call, ProviderError, EmptyStream, ToolsCancelled
<1>6. ASSUME NEW p \in Prompts, CountTurn(p)
      PROVE  /\ comp' \in [Compressions -> CompState]
             /\ intact' \subseteq Compressions
             /\ turnCount' \in 0 .. SummarizeTurns
             /\ UNCHANGED <<session, lastId, spoke>>
  <2>1. turnCount' \in 0 .. SummarizeTurns
    BY <1>1, <1>6, AgentAssumption DEF CountTurn
  <2>2. PICK action \in Actions :
           IF action = "none" THEN UNCHANGED <<comp, intact>> ELSE StartCompress(action)
    BY <1>6 DEF CountTurn, Check, Actions
  <2>3. CASE UNCHANGED <<comp, intact>>
    BY <1>1, <1>6, <2>1, <2>3 DEF CountTurn
  <2>4. ASSUME NEW k \in Compressions,
               comp' = [comp EXCEPT ![k] = [at |-> "ready", action |-> action,
                                            msgs |-> session, upTo |-> lastId]],
               intact' = intact \cup {k}
        PROVE  comp' \in [Compressions -> CompState] /\ intact' \subseteq Compressions
    <3>1. [at |-> "ready", action |-> action, msgs |-> session, upTo |-> lastId] \in CompState
      BY <1>1 DEF CompState
    <3> QED
      BY <1>1, <2>4, <3>1
  <2> QED
    BY <1>1, <1>6, <2>1, <2>2, <2>3, <2>4 DEF CountTurn, StartCompress
<1>7. ASSUME NEW k \in Compressions, CompressTryLock(k) \/ CompressFails(k) \/ CompressDone(k)
      PROVE  /\ comp' \in [Compressions -> CompState]
             /\ intact' \subseteq Compressions
             /\ UNCHANGED <<session, lastId, turnCount, spoke>>
  <2>1. CASE Release(k)
    BY <1>1, <1>2, <1>7, <2>1 DEF CompressTryLock, CompressFails, CompressDone, Release
  <2>2. CASE comp' = [comp EXCEPT ![k].at = "working"] /\ UNCHANGED intact
    BY <1>1, <1>7, <2>2 DEF CompressTryLock, CompressFails, CompressDone, CompState
  <2> QED
    BY <1>7, <2>1, <2>2 DEF CompressTryLock, CompressFails, CompressDone
<1>8. ASSUME NEW k \in Compressions, Replace(k)
      PROVE  /\ comp' \in [Compressions -> CompState]
             /\ intact' \subseteq Compressions
             /\ session' \in Seq(Message)
             /\ UNCHANGED <<lastId, turnCount, spoke>>
  <2>1. comp[k].msgs \in Seq(Message) /\ Len(comp[k].msgs) \in Nat
    BY <1>1 DEF CompState
  <2>2. Kept(comp[k].action, comp[k].msgs) \in Seq(Message)
    BY <2>1, KeptType
  <2>3. PostSnapshot(Len(comp[k].msgs)) \in Seq(Message)
    BY <1>1, <2>1, SubSeqType DEF PostSnapshot
  <2>4. <<Summary>> \in Seq(Message)
    BY DEF Summary, Message
  <2>5. session' \in Seq(Message)
    BY <1>8, <2>2, <2>3, <2>4 DEF Replace
  <2>6. comp' \in [Compressions -> CompState]
    BY <1>1, <1>8 DEF Replace, CompState
  <2> QED
    BY <1>8, <2>5, <2>6 DEF Replace
<1> QED
  <2>1. CASE \E p \in Prompts : Call(p) \/ LoopStep(p)
    BY <1>1, <1>4, <1>5, <1>6, <2>1, AddMessageType DEF LoopStep
  <2>2. CASE \E k \in Compressions : CompressStep(k)
    BY <1>1, <1>7, <1>8, <2>2 DEF CompressStep
  <2> QED
    BY <1>3, <2>1, <2>2 DEF Next

LEMMA AgentInitInv == Init => AgentInv
  BY AgentAssumption DEF Init, AgentInv, AgentTypeOK, ToolsLeft, Loop, CompState, Free, Actions

LEMMA AgentStepInv ==
    ASSUME AgentInv, [Next]_agentVars
    PROVE  AgentInv'
<1>1. loop' \in [Prompts -> Loop] /\ ToolsLeft'
  <2>1. CASE \E p \in Prompts : Call(p) \/ LoopStep(p)
    BY <2>1, LoopKept
  <2>2. CASE UNCHANGED loop
    BY <2>2 DEF AgentInv, AgentTypeOK, ToolsLeft
  <2>3. ASSUME NEW k \in Compressions, CompressStep(k)
        PROVE  UNCHANGED loop
    BY <2>3 DEF CompressStep, CompressTryLock, CompressFails, Replace, CompressDone
  <2> QED
    BY <2>1, <2>2, <2>3 DEF Next, agentVars
<1>2. AgentTypeOK'
  BY <1>1, DataKept DEF AgentInv, AgentTypeOK
<1> QED
  BY <1>1, <1>2 DEF AgentInv

(* The state keeps its types: a call never takes more than MaxTurns turns  *)
(* nor waits for a tool result that was not asked for. *)
THEOREM AgentTypeCorrect == Spec => []AgentTypeOK
<1>1. AgentInv /\ [Next]_agentVars => AgentInv'
  BY AgentStepInv
<1> QED
  BY <1>1, AgentInitInv, PTL DEF Spec, AgentInv

-----------------------------------------------------------------------------
(* Streams of one agent do not mix their messages, because streamMu is     *)
(* held from the prompt to the end of the loop; calls of Prompt, which do  *)
(* not take the mutex, are free to append in between. *)
THEOREM StreamsAreSerialised == Spec => []StreamsDoNotMix
<1>1. Init => StreamsDoNotMix
  BY AgentAssumption DEF Init, StreamsDoNotMix
<1>2. AgentTypeOK /\ StreamsDoNotMix /\ [Next]_agentVars => StreamsDoNotMix'
  <2> SUFFICES ASSUME AgentTypeOK, StreamsDoNotMix, [Next]_agentVars
               PROVE  StreamsDoNotMix'
    OBVIOUS
  <2>1. loop \in [Prompts -> Loop] /\ Streams \subseteq Prompts
    BY AgentAssumption DEF AgentTypeOK
  <2>2. CASE UNCHANGED <<loop, spoke>>
    BY <2>2 DEF StreamsDoNotMix
  <2>3. ASSUME NEW p \in Prompts, Begin(p)
        PROVE  StreamsDoNotMix'
    BY <2>1, <2>3 DEF Begin, StreamMuHeldBy, AddMessage, At, Goto, Loop, StreamsDoNotMix
  <2>4. ASSUME NEW p \in Prompts, At(p, "ask") \/ At(p, "tools") \/ At(p, "count"),
               \A q \in Prompts \ {p} : loop'[q] = loop[q],
               AddMessage(p) \/ UNCHANGED spoke
        PROVE  StreamsDoNotMix'
    BY <2>1, <2>4 DEF AddMessage, At, StreamsDoNotMix
  <2>5. ASSUME NEW p \in Prompts, LoopStep(p), ~Begin(p)
        PROVE  /\ At(p, "ask") \/ At(p, "tools") \/ At(p, "count")
               /\ \A q \in Prompts \ {p} : loop'[q] = loop[q]
               /\ AddMessage(p) \/ UNCHANGED spoke
    BY <2>1, <2>5 DEF LoopStep, ProviderError, FinalResponse, EmptyStream, ToolCalls,
                      ToolResult, ToolsCancelled, CountTurn, NextTurn, Goto
  <2>6. ASSUME NEW p \in Prompts, Call(p)
        PROVE  StreamsDoNotMix'
    BY <2>1, <2>6 DEF Call, At, Goto, Loop, StreamsDoNotMix
  <2>7. ASSUME NEW k \in Compressions, CompressStep(k)
        PROVE  UNCHANGED <<loop, spoke>>
    BY <2>7 DEF CompressStep, CompressTryLock, CompressFails, Replace, CompressDone
  <2> QED
    BY <2>2, <2>3, <2>4, <2>5, <2>6, <2>7 DEF Next, agentVars
<1> QED
  BY <1>1, <1>2, AgentTypeCorrect, PTL DEF Spec

-----------------------------------------------------------------------------
(* What replaceSessionMessages relies on when it cuts the session at the   *)
(* length of the snapshot. *)
IdsUpTo(s, n) == \A i \in 1 .. Len(s) : s[i].id <= n

SessionIds == IdsUpTo(session, lastId)

SnapshotIds == \A k \in Compressions : IdsUpTo(comp[k].msgs, lastId)

SnapshotIsPrefix ==
    \A k \in intact :
        /\ Len(comp[k].msgs) <= Len(session)
        /\ comp[k].upTo <= lastId
        /\ \A i \in 1 .. Len(comp[k].msgs) :
              session[i] = comp[k].msgs[i] /\ comp[k].msgs[i].id <= comp[k].upTo

SnapshotInv == SessionIds /\ SnapshotIds /\ SnapshotIsPrefix

LEMMA IdsOfParts ==
    ASSUME NEW s \in Seq(Message), NEW t \in Seq(Message), NEW n \in Nat,
           IdsUpTo(s, n), IdsUpTo(t, n)
    PROVE  /\ IdsUpTo(s \o t, n)
           /\ IdsUpTo(s, n + 1)
           /\ \A m \in Nat : IdsUpTo(SubSeq(s, m + 1, Len(s)), n)
<1>1. Len(s) \in Nat /\ Len(t) \in Nat
  OBVIOUS
<1>2. IdsUpTo(s \o t, n)
  BY <1>1 DEF IdsUpTo
<1>3. IdsUpTo(s, n + 1)
  <2>1. \A i \in 1 .. Len(s) : s[i] \in Message
    OBVIOUS
  <2>2. \A m \in Message : m.id \in Nat
    BY DEF Message
  <2> QED
    BY <2>1, <2>2 DEF IdsUpTo
<1>4. \A m \in Nat : IdsUpTo(SubSeq(s, m + 1, Len(s)), n)
  BY <1>1 DEF IdsUpTo
<1> QED
  BY <1>2, <1>3, <1>4

(* An appended message changes nothing in front of it, unless the session  *)
(* is cut. *)
LEMMA AppendKeepsPrefix ==
    ASSUME AgentTypeOK, SnapshotInv, NEW p \in Prompts, AddMessage(p), UNCHANGED comp
    PROVE  SnapshotInv'
<1> DEFINE new == [id |-> lastId + 1, by |-> p]
           longer == Append(session, new)
           excess == Len(longer) - MaxMessages
<1>1. session \in Seq(Message) /\ Len(session) \in Nat /\ lastId \in Nat /\ MaxMessages \in Nat
  BY AgentAssumption DEF AgentTypeOK
<1>2. /\ Len(longer) = Len(session) + 1
      /\ longer[Len(session) + 1] = new
      /\ \A i \in 1 .. Len(session) : longer[i] = session[i]
  BY <1>1
<1>3. new.id = lastId + 1
  OBVIOUS
<1>4. \A i \in 1 .. Len(session) : session[i].id \in Nat
  <2>1. \A i \in 1 .. Len(session) : session[i] \in Message
    BY <1>1
  <2>2. \A m \in Message : m.id \in Nat
    BY DEF Message
  <2> QED
    BY <2>1, <2>2
<1>5. \A i \in 1 .. Len(longer) : longer[i].id <= lastId + 1
  BY <1>1, <1>2, <1>3, <1>4 DEF SnapshotInv, SessionIds, IdsUpTo
<1> HIDE DEF new, longer, excess
<1>6. /\ session' = IF excess > 0 THEN SubSeq(longer, excess + 1, Len(longer)) ELSE longer
      /\ lastId' = lastId + 1
      /\ intact' = IF excess > 0 THEN {} ELSE intact
  BY DEF AddMessage, new, longer, excess
<1>7. excess \in Int /\ excess <= Len(longer) /\ Len(longer) \in Nat
  BY <1>1, <1>2 DEF excess
<1>8. SnapshotIds'
  <2>1. \A k \in Compressions : comp[k].msgs \in Seq(Message)
    BY DEF AgentTypeOK, CompState
  <2> QED
    BY <1>1, <1>6, <2>1, IdsOfParts DEF SnapshotInv, SnapshotIds
<1>9. CASE excess > 0
  <2>1. /\ Len(session') = Len(longer) - excess
        /\ \A i \in 1 .. Len(session') : session'[i] = longer[i + excess]
    BY <1>6, <1>7, <1>9
  <2>2. SessionIds'
    BY <1>5, <1>6, <1>7, <1>9, <2>1 DEF SessionIds, IdsUpTo
  <2>3. SnapshotIsPrefix'
    BY <1>6, <1>9 DEF SnapshotIsPrefix
  <2> QED
    BY <1>8, <2>2, <2>3 DEF SnapshotInv
<1>10. CASE ~(excess > 0)
  <2>1. session' = longer /\ intact' = intact
    BY <1>6, <1>10
  <2>2. SessionIds'
    BY <1>5, <1>6, <2>1 DEF SessionIds, IdsUpTo
  <2>3. ASSUME NEW k \in intact
        PROVE  /\ Len(comp[k].msgs) <= Len(longer)
               /\ comp[k].upTo <= lastId + 1
               /\ \A i \in 1 .. Len(comp[k].msgs) :
                     longer[i] = comp[k].msgs[i] /\ comp[k].msgs[i].id <= comp[k].upTo
    <3>1. k \in Compressions /\ comp[k].msgs \in Seq(Message) /\ comp[k].upTo \in Nat
      BY DEF AgentTypeOK, CompState
    <3>2. Len(comp[k].msgs) \in Nat
      BY <3>1
    <3> QED
      BY <1>1, <1>2, <3>1, <3>2 DEF SnapshotInv, SnapshotIsPrefix
  <2>4. SnapshotIsPrefix'
    BY <1>6, <2>1, <2>3 DEF SnapshotIsPrefix
  <2> QED
    BY <1>8, <2>2, <2>4 DEF SnapshotInv
<1> QED
  BY <1>9, <1>10

LEMMA KeptIds ==
    ASSUME NEW msgs \in Seq(Message), NEW n \in Nat, NEW action, IdsUpTo(msgs, n)
    PROVE  IdsUpTo(Kept(action, msgs), n)
<1>1. PICK m \in 0 .. Len(msgs) : Kept(action, msgs) = SubSeq(msgs, m + 1, Len(msgs))
  BY KeptIsEnd
<1>2. m \in Nat
  OBVIOUS
<1> QED
  BY <1>1, <1>2, IdsOfParts

(* SnapshotInv is invariant. *)
LEMMA SnapshotKept ==
    ASSUME AgentTypeOK, SnapshotInv, [Next]_agentVars
    PROVE  SnapshotInv'
<1>1. /\ comp \in [Compressions -> CompState] /\ intact \subseteq Compressions
      /\ session \in Seq(Message) /\ Len(session) \in Nat /\ lastId \in Nat
  BY DEF AgentTypeOK
<1>2. CASE UNCHANGED <<session, lastId, comp, intact>>
  BY <1>2 DEF SnapshotInv, SessionIds, SnapshotIds, SnapshotIsPrefix
<1>3. ASSUME NEW p \in Prompts,
             Begin(p) \/ FinalResponse(p) \/ ToolResult(p) \/ \E n \in 1 .. MaxCalls : ToolCalls(p, n)
      PROVE  AddMessage(p) /\ UNCHANGED comp
  BY <1>3 DEF Begin, FinalResponse, ToolResult, ToolCalls
<1>4. ASSUME NEW p \in Prompts,
             Call(p) \/ ProviderError(p) \/ EmptyStream(p) \/ ToolsCancelled(p)
      PROVE  UNCHANGED <<session, lastId, comp, intact>>
  BY <1>4 DEF Call, ProviderError, EmptyStream, ToolsCancelled
<1>5. ASSUME NEW p \in Prompts, CountTurn(p), ~UNCHANGED <<session, lastId, comp, intact>>
      PROVE  SnapshotInv'
  <2>1. PICK k \in Compressions, action \in Actions :
           /\ comp' = [comp EXCEPT ![k] = [at |-> "ready", action |-> action,
                                           msgs |-> session, upTo |-> lastId]]
           /\ intact' = intact \cup {k}
    BY <1>5 DEF CountTurn, StartCompress, Check, Actions
  <2>2. UNCHANGED <<session, lastId>>
    BY <1>5 DEF CountTurn
  <2>3. /\ comp'[k].msgs = session /\ comp'[k].upTo = lastId
        /\ \A l \in Compressions \ {k} : comp'[l] = comp[l]
    BY <1>1, <2>1
  <2>4. SnapshotIds' /\ SessionIds'
    BY <1>1, <2>1, <2>2, <2>3 DEF SnapshotInv, SessionIds, SnapshotIds
  <2>5. SnapshotIsPrefix'
    BY <1>1, <2>1, <2>2, <2>3 DEF SnapshotInv, SessionIds, SnapshotIsPrefix, IdsUpTo
  <2> QED
    BY <2>4, <2>5 DEF SnapshotInv
<1>6. ASSUME NEW k \in Compressions, CompressTryLock(k) \/ CompressFails(k) \/ CompressDone(k)
      PROVE  SnapshotInv'
  <2>1. UNCHANGED <<session, lastId>>
    BY <1>6 DEF CompressTryLock, CompressFails, CompressDone
  <2>2. /\ intact' \subseteq intact
        /\ \A l \in intact' : comp'[l].msgs = comp[l].msgs /\ comp'[l].upTo = comp[l].upTo
    BY <1>1, <1>6 DEF CompressTryLock, CompressFails, CompressDone, Release, CompState
  <2>3. \A l \in Compressions : comp'[l].msgs = comp[l].msgs \/ comp'[l].msgs = <<>>
    <3>1. CASE Release(k)
      BY <1>1, <3>1 DEF Release, Free
    <3>2. CASE comp' = [comp EXCEPT ![k].at = "working"]
      BY <1>1, <3>2 DEF CompState
    <3> QED
      BY <1>6, <3>1, <3>2 DEF CompressTryLock, CompressFails, CompressDone
  <2>4. SnapshotIds' /\ SessionIds'
    BY <2>1, <2>3 DEF SnapshotInv, SessionIds, SnapshotIds, IdsUpTo
  <2> QED
    BY <2>1, <2>2, <2>4 DEF SnapshotInv, SnapshotIsPrefix
<1>7. ASSUME NEW k \in Compressions, Replace(k)
      PROVE  SnapshotInv'
  <2> DEFINE msgs == comp[k].msgs
             kept == Kept(comp[k].action, msgs)
             post == PostSnapshot(Len(msgs))
  <2>1. msgs \in Seq(Message) /\ Len(msgs) \in Nat /\ IdsUpTo(msgs, lastId)
    BY <1>1 DEF CompState, SnapshotInv, SnapshotIds
  <2>2. kept \in Seq(Message) /\ IdsUpTo(kept, lastId)
    BY <1>1, <2>1, KeptType, KeptIds
  <2>3. post \in Seq(Message) /\ IdsUpTo(post, lastId)
    BY <1>1, <2>1, SubSeqType, IdsOfParts DEF PostSnapshot, SnapshotInv, SessionIds
  <2>4. <<Summary>> \in Seq(Message) /\ IdsUpTo(<<Summary>>, lastId)
    BY <1>1 DEF Summary, Message, IdsUpTo
  <2>5. session' = <<Summary>> \o kept \o post
    BY <1>7 DEF Replace
  <2>6. /\ UNCHANGED lastId
        /\ intact' = {}
        /\ \A l \in Compressions : comp'[l].msgs = comp[l].msgs
    BY <1>1, <1>7 DEF Replace, CompState
  <2> HIDE DEF msgs, kept, post
  <2>7. SessionIds'
    <3> DEFINE front == <<Summary>> \o kept
    <3>1. front \in Seq(Message)
      BY <2>2, <2>4
    <3>2. IdsUpTo(front, lastId)
      <4> DEFINE first == <<Summary>>
      <4>1. first \in Seq(Message) /\ IdsUpTo(first, lastId)
        BY <2>4
      <4> HIDE DEF first
      <4>2. IdsUpTo(first \o kept, lastId)
        BY <1>1, <2>2, <4>1, IdsOfParts
      <4> QED
        BY <4>2 DEF first
    <3>3. session' = front \o post
      BY <2>5
    <3> HIDE DEF front
    <3> QED
      BY <1>1, <2>3, <2>6, <3>1, <3>2, <3>3, IdsOfParts DEF SessionIds
  <2> QED
    BY <2>6, <2>7 DEF SnapshotInv, SnapshotIds, SnapshotIsPrefix
<1> QED
  <2>1. CASE \E p \in Prompts : Call(p) \/ LoopStep(p)
    BY <1>2, <1>3, <1>4, <1>5, <2>1, AppendKeepsPrefix DEF LoopStep
  <2>2. CASE \E k \in Compressions : CompressStep(k)
    BY <1>6, <1>7, <2>2 DEF CompressStep
  <2> QED
    BY <1>2, <2>1, <2>2 DEF Next, agentVars

(* A compression whose snapshot is still the front of the session replaces *)
(* a front of it by the summary, and loses nothing that was appended while *)
(* the language model worked, whatever the lengths are.                    *)
THEOREM ReplaceKeepsWhatIsNew == Spec => ReplaceKeepsNews
<1>1. Init => SnapshotInv
  BY DEF Init, Free, SnapshotInv, SessionIds, SnapshotIds, SnapshotIsPrefix, IdsUpTo
<1>2. AgentTypeOK /\ SnapshotInv /\ [Next]_agentVars => SnapshotInv'
  BY SnapshotKept
<1>3. ASSUME AgentTypeOK, SnapshotInv, NEW k \in intact, Replace(k)
      PROVE  /\ \E first \in 1 .. Len(session) + 1 :
                   session' = <<Summary>> \o SubSeq(session, first, Len(session))
             /\ News(k) \subseteq Range(session')
  <2> DEFINE msgs == comp[k].msgs
             L == Len(msgs)
             N == Len(session)
             kept == Kept(comp[k].action, msgs)
  <2>1. /\ msgs \in Seq(Message) /\ L \in Nat
        /\ session \in Seq(Message) /\ N \in Nat
        /\ comp[k].upTo \in Nat
    BY <1>3 DEF AgentTypeOK, CompState
  <2>2. /\ L <= N
        /\ \A i \in 1 .. L : session[i] = msgs[i] /\ msgs[i].id <= comp[k].upTo
    BY <1>3 DEF SnapshotInv, SnapshotIsPrefix
  <2>3. PICK m \in 0 .. L : kept = SubSeq(msgs, m + 1, L)
    BY <2>1, KeptIsEnd
  <2>4. session' = <<Summary>> \o kept \o SubSeq(session, L + 1, N)
    BY <1>3 DEF Replace, PostSnapshot
  <2>5. Len(session) = N /\ Len(msgs) = L
    OBVIOUS
  <2> HIDE DEF msgs, L, N, kept
  <2>6. kept \o SubSeq(session, L + 1, N) = SubSeq(session, m + 1, N)
    <3>1. SubSeq(msgs, m + 1, L) = SubSeq(session, m + 1, L)
      BY <2>1, <2>2, <2>5
    <3>2. SubSeq(session, m + 1, L) \o SubSeq(session, L + 1, N) = SubSeq(session, m + 1, N)
      <4>1. /\ m + 1 \in 1 .. Len(session) + 1
            /\ L \in (m + 1) - 1 .. Len(session)
            /\ N \in L .. Len(session)
        BY <2>1, <2>2, <2>5
      <4> QED
        BY <2>1, <4>1, ConcatAdjacentSubSeq
    <3> QED
      BY <2>3, <3>1, <3>2
  <2>7. session' = <<Summary>> \o SubSeq(session, m + 1, N)
    <3>1. <<Summary>> \in Seq(Message)
      BY DEF Summary, Message
    <3>2. kept \in Seq(Message) /\ SubSeq(session, L + 1, N) \in Seq(Message)
      BY <2>1, <2>5, KeptType, SubSeqType DEF kept
    <3> DEFINE front == <<Summary>>
               post == SubSeq(session, L + 1, N)
    <3>3. front \in Seq(Message) /\ kept \in Seq(Message) /\ post \in Seq(Message)
      BY <3>1, <3>2
    <3>4. session' = (front \o kept) \o post
      BY <2>4
    <3> HIDE DEF front, post
    <3>5. (front \o kept) \o post = front \o (kept \o post)
      BY <3>3, ConcatAssociative
    <3> QED
      BY <2>6, <3>4, <3>5 DEF front, post
  <2>8. m + 1 \in 1 .. N + 1
    BY <2>1, <2>2
  <2>9. ASSUME NEW i \in 1 .. N, session[i].id > comp[k].upTo
        PROVE  i - m + 1 \in DOMAIN session' /\ session'[i - m + 1] = session[i]
    <3>1. session[i].id \in Nat
      <4>1. session[i] \in Message
        BY <2>1, <2>5
      <4> QED
        BY <4>1 DEF Message
    <3>2. i > L
      BY <2>1, <2>2, <2>9, <3>1
    <3>3. i - m + 1 \in 2 .. N - m + 1
      BY <2>1, <2>2, <3>2
    <3> QED
      BY <2>1, <2>2, <2>5, <2>7, <3>3
  <2>10. \A n \in News(k) : n \in Range(session')
    BY <2>1, <2>5, <2>9 DEF News, Range
  <2> QED
    BY <2>5, <2>7, <2>8, <2>10
<1>4. AgentTypeOK /\ SnapshotInv /\ [Next]_agentVars =>
          [\A k \in Compressions :
              Replace(k) /\ k \in intact =>
                  /\ \E first \in 1 .. Len(session) + 1 :
                        session' = <<Summary>> \o SubSeq(session, first, Len(session))
                  /\ News(k) \subseteq Range(session')]_agentVars
  BY <1>3
<1> QED
  BY <1>1, <1>2, <1>4, AgentTypeCorrect, PTL DEF Spec, ReplaceKeepsNews
=============================================================================
