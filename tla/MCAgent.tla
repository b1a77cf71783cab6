------------------------------ MODULE MCAgent ------------------------------
(* A conversation from the message to the reply, on small instances, in one *)
(* run: the channel it comes from (FeishuChannel) or the terminal           *)
(* (TuiStreams), the loop of the agent (AgentSession), the response of a    *)
(* provider (ProviderStream) and a delegated task (Delegation).  They share *)
(* no variable, so a behaviour belongs to one of them; the others rest.     *)
EXTENDS AgentSession, ProviderStream, Delegation, FeishuChannel, TuiStreams

VARIABLE part

Parts == {"agent", "provider", "delegation", "feishu", "terminal"}

ConversationInit ==
    /\ part \in Parts
    /\ Init /\ FeishuInit /\ TuiInit
    /\ IF part = "provider" THEN SseInit ELSE flavour = "openai" /\ SseRest("failed")
    /\ IF part = "delegation" THEN DelegationInit
       ELSE kind = "internal" /\ streamed = FALSE /\ DelegationRest("done", "error")

AgentPart ==
    /\ part = "agent" /\ Next
    /\ UNCHANGED <<part, sseVars, callVars, feishuVars, tuiVars>>
ProviderPart ==
    /\ part = "provider" /\ SseNext
    /\ UNCHANGED <<part, agentVars, callVars, feishuVars, tuiVars>>
DelegationPart ==
    /\ part = "delegation" /\ DelegationNext
    /\ UNCHANGED <<part, agentVars, sseVars, feishuVars, tuiVars>>
FeishuPart ==
    /\ part = "feishu" /\ FeishuNext
    /\ UNCHANGED <<part, agentVars, sseVars, callVars, tuiVars>>
TerminalPart ==
    /\ part = "terminal" /\ TuiNext
    /\ UNCHANGED <<part, agentVars, sseVars, callVars, feishuVars>>

ConversationNext == AgentPart \/ ProviderPart \/ DelegationPart \/ FeishuPart \/ TerminalPart
conversationVars == <<part, agentVars, sseVars, callVars, feishuVars, tuiVars>>

(* What the modules ask of their own behaviours: in the rest state of a     *)
(* module nothing that its fairness names can happen.                       *)
ConversationSpec ==
    /\ ConversationInit /\ [][ConversationNext]_conversationVars
    /\ \A p \in Prompts : WF_agentVars(LoopStep(p))
    /\ \A k \in Compressions : WF_agentVars(CompressStep(k))
    /\ SseFairness /\ DelegationFairness /\ FeishuFairness /\ TuiFairness

-----------------------------------------------------------------------------
(* The types of all five. *)
ConversationTypeOK ==
    AgentTypeOK /\ SseTypeOK /\ DelegationTypeOK /\ FeishuTypeOK /\ TuiTypeOK
=============================================================================
