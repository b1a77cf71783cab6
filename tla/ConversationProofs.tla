------------------------- MODULE ConversationProofs -------------------------
(***************************************************************************)
(* Proofs about a conversation: the tokens of the Feishu channel, the      *)
(* prompts of the terminal, the stream of a provider and a delegated task; *)
(* then the types of these and of the loop of the agent (proved in         *)
(* AgentSessionProofs), as MCAgent composes them.                          *)
(***************************************************************************)
EXTENDS MCAgent, AgentSessionProofs, FiniteSetTheorems, WellFoundedInduction

-----------------------------------------------------------------------------
(***************************************************************************)
(* Proofs about the tokens of a Feishu channel, for any number of messages *)
(* and tokens and any times that satisfy FeishuAssumption.                 *)
(*                                                                         *)
(* The cache counts from the moment at which an answer came, the platform  *)
(* from the moment at which it gave the token: the cache believes in a     *)
(* token for up to MaxWait too long (CacheBehind).  A reply takes up to    *)
(* MaxWait more.  The margin covers both.                                  *)
(***************************************************************************)

(* Whoever is about to fetch a token holds the lock, and the cache is no   *)
(* use: nobody but the holder changes it. *)
RefresherHolds ==
    \A e \in Inbound :
        /\ MsgAt(e, "ask") \/ MsgAt(e, "answer") => refresher = e
        /\ MsgAt(e, "ask") => ~Fresh

CacheBehind ==
    cache.token # 0 => valid[cache.token] + MaxWait >= cache.left

(* A token in an answer has lost no more than the answer took. *)
AnswersInTime ==
    \A e \in Inbound :
        MsgAt(e, "answer") => /\ msg[e].token # 0
                              /\ valid[msg[e].token] + waited[e] >= Life

(* A token in a reply outlives the time that the reply has left. *)
PostsInTime ==
    \A e \in Inbound :
        MsgAt(e, "post") => /\ msg[e].token # 0
                            /\ valid[msg[e].token] + waited[e] > MaxWait

FeishuInv ==
    /\ FeishuTypeOK
    /\ RefresherHolds
    /\ CacheBehind
    /\ AnswersInTime
    /\ PostsInTime
    /\ RepliesAreAuthorised

-----------------------------------------------------------------------------
LEMMA FeishuInitInv == FeishuInit => FeishuInv
BY FeishuAssumption DEF FeishuInit, FeishuInv, FeishuTypeOK, RefresherHolds, CacheBehind,
   AnswersInTime, PostsInTime, RepliesAreAuthorised, MsgAt, MsgSteps

(* Types are kept by every step. *)
LEMMA ConnectionKeepsInv ==
    ASSUME FeishuInv,
           \/ FeishuStart \/ SocketEnds
           \/ \E c \in Closers : FeishuClose(c) \/ FeishuCloseReturns(c)
    PROVE  FeishuInv'
BY DEF FeishuInv, FeishuTypeOK, RefresherHolds, CacheBehind, AnswersInTime, PostsInTime,
   RepliesAreAuthorised, FeishuStart, SocketEnds, FeishuClose, FeishuCloseReturns,
   tokenVars, MsgAt, Fresh

(* A message that moves on without the cache: it gives nothing up. *)
LEMMA GotoKeepsInv ==
    ASSUME FeishuInv, NEW e \in Inbound, NEW where \in MsgSteps \ {"ask", "answer", "post", "refused"},
           MsgGoto(e, where), UNCHANGED <<channelState, cache, valid, issued>>,
           \/ UNCHANGED refresher
           \/ refresher' = NoMsg /\ (MsgAt(e, "ask") \/ MsgAt(e, "answer"))
    PROVE  FeishuInv'
<1>1. FeishuTypeOK'
  BY FeishuAssumption DEF FeishuInv, FeishuTypeOK, MsgGoto, channelState, MsgSteps
<1>2. RefresherHolds'
  BY DEF FeishuInv, FeishuTypeOK, RefresherHolds, MsgGoto, MsgAt, Fresh
<1>3. CacheBehind'
  BY DEF FeishuInv, CacheBehind
<1>4. AnswersInTime' /\ PostsInTime'
  BY DEF FeishuInv, FeishuTypeOK, AnswersInTime, PostsInTime, MsgGoto, MsgAt
<1>5. RepliesAreAuthorised'
  BY DEF FeishuInv, FeishuTypeOK, RepliesAreAuthorised, MsgGoto, MsgAt
<1>. QED BY <1>1, <1>2, <1>3, <1>4, <1>5 DEF FeishuInv

(* A message that takes a token from a fresh cache can use it. *)
LEMMA FreshKeepsInv ==
    ASSUME FeishuInv, NEW e \in Inbound, Fresh, HasToken(e, cache.token),
           UNCHANGED <<channelState, tokenVars>>
    PROVE  FeishuInv'
<1>1. FeishuTypeOK'
  BY FeishuAssumption DEF FeishuInv, FeishuTypeOK, HasToken, channelState, tokenVars, MsgSteps
<1>2. RefresherHolds' /\ CacheBehind' /\ AnswersInTime' /\ RepliesAreAuthorised'
  BY DEF FeishuInv, FeishuTypeOK, RefresherHolds, CacheBehind, AnswersInTime,
     RepliesAreAuthorised, HasToken, MsgAt, Fresh, tokenVars
<1>3. valid[cache.token] > MaxWait
  BY FeishuAssumption DEF FeishuInv, FeishuTypeOK, CacheBehind, Fresh
<1>4. PostsInTime'
  <2>. SUFFICES ASSUME NEW d \in Inbound, MsgAt(d, "post")'
                PROVE  /\ msg'[d].token # 0
                       /\ valid'[msg'[d].token] + waited'[d] > MaxWait
    BY DEF PostsInTime
  <2>1. CASE d = e
    BY <2>1, <1>3, FeishuAssumption DEF FeishuInv, FeishuTypeOK, HasToken, Fresh, tokenVars
  <2>2. CASE d # e
    BY <2>2 DEF FeishuInv, FeishuTypeOK, PostsInTime, HasToken, MsgAt, tokenVars
  <2>. QED BY <2>1, <2>2
<1>. QED BY <1>1, <1>2, <1>4 DEF FeishuInv

LEMMA LockCacheKeepsInv ==
    ASSUME FeishuInv, NEW e \in Inbound, LockCache(e)
    PROVE  FeishuInv'
<1>1. CASE Fresh
  BY <1>1, FreshKeepsInv DEF LockCache, tokenVars
<1>2. CASE ~Fresh
  <2>1. /\ refresher = NoMsg /\ refresher' = e /\ MsgGoto(e, "ask")
        /\ UNCHANGED <<channelState, cache, valid, issued>>
    BY <1>2 DEF LockCache
  <2>2. FeishuTypeOK'
    <3>1. msg' \in [Inbound -> [at : MsgSteps, token : 0 .. MaxTokens]]
      BY <2>1 DEF FeishuInv, FeishuTypeOK, MsgGoto, MsgSteps
    <3>2. waited' \in [Inbound -> 0 .. MaxWait]
      BY <2>1, FeishuAssumption DEF FeishuInv, FeishuTypeOK, MsgGoto
    <3>. QED BY <2>1, <3>1, <3>2 DEF FeishuInv, FeishuTypeOK, channelState
  <2>3. \A d \in Inbound : ~MsgAt(d, "ask") /\ ~MsgAt(d, "answer")
    <3>1. NoMsg \notin Inbound /\ RefresherHolds /\ refresher = NoMsg
      BY <2>1, FeishuAssumption DEF FeishuInv
    <3>. QED BY <3>1 DEF RefresherHolds
  <2>4. RefresherHolds'
    BY <2>1, <2>3, <1>2 DEF FeishuInv, FeishuTypeOK, RefresherHolds, MsgGoto, MsgAt, Fresh
  <2>5. CacheBehind' /\ AnswersInTime' /\ PostsInTime' /\ RepliesAreAuthorised'
    BY <2>1 DEF FeishuInv, FeishuTypeOK, CacheBehind, AnswersInTime, PostsInTime,
       RepliesAreAuthorised, MsgGoto, MsgAt
  <2>. QED BY <2>2, <2>4, <2>5 DEF FeishuInv
<1>. QED BY <1>1, <1>2

LEMMA IssueKeepsInv ==
    ASSUME FeishuInv, NEW e \in Inbound, IssueToken(e)
    PROVE  FeishuInv'
<1>1. issued' \in 1 .. MaxTokens /\ issued' = issued + 1
  BY FeishuAssumption DEF FeishuInv, FeishuTypeOK, IssueToken
<1>2. FeishuTypeOK'
  BY <1>1, FeishuAssumption DEF FeishuInv, FeishuTypeOK, IssueToken, channelState, MsgSteps
<1>3. \A n \in 1 .. MaxTokens : valid'[n] >= valid[n]
  BY <1>1, FeishuAssumption DEF FeishuInv, FeishuTypeOK, IssueToken
<1>4. RefresherHolds' /\ RepliesAreAuthorised'
  BY DEF FeishuInv, FeishuTypeOK, RefresherHolds, RepliesAreAuthorised, IssueToken, MsgAt, Fresh
<1>5. CacheBehind'
  BY <1>2, <1>3, FeishuAssumption DEF FeishuInv, FeishuTypeOK, CacheBehind, IssueToken
<1>6. AnswersInTime'
  <2>. SUFFICES ASSUME NEW d \in Inbound, MsgAt(d, "answer")'
                PROVE  /\ msg'[d].token # 0
                       /\ valid'[msg'[d].token] + waited'[d] >= Life
    BY DEF AnswersInTime
  <2>1. CASE d = e
    BY <2>1, <1>1, FeishuAssumption DEF FeishuInv, FeishuTypeOK, IssueToken
  <2>2. CASE d # e
    BY <2>2, <1>2, <1>3, FeishuAssumption
    DEF FeishuInv, FeishuTypeOK, AnswersInTime, IssueToken, MsgAt
  <2>. QED BY <2>1, <2>2
<1>7. PostsInTime'
  BY <1>2, <1>3, FeishuAssumption
  DEF FeishuInv, FeishuTypeOK, PostsInTime, IssueToken, MsgAt
<1>. QED BY <1>2, <1>4, <1>5, <1>6, <1>7 DEF FeishuInv

LEMMA StoreKeepsInv ==
    ASSUME FeishuInv, NEW e \in Inbound, StoreToken(e)
    PROVE  FeishuInv'
<1>. DEFINE n == msg[e].token
<1>1. n # 0 /\ n \in 1 .. MaxTokens /\ valid[n] + waited[e] >= Life
  BY FeishuAssumption DEF FeishuInv, FeishuTypeOK, AnswersInTime, StoreToken
<1>2. valid[n] + MaxWait >= Life /\ valid[n] > MaxWait
  BY <1>1, FeishuAssumption DEF FeishuInv, FeishuTypeOK
<1>3. FeishuTypeOK'
  BY <1>1, FeishuAssumption
  DEF FeishuInv, FeishuTypeOK, StoreToken, HasToken, channelState, MsgSteps
<1>4. RefresherHolds'
  BY DEF FeishuInv, FeishuTypeOK, RefresherHolds, StoreToken, HasToken, MsgAt, NoMsg
<1>5. CacheBehind'
  BY <1>2 DEF CacheBehind, StoreToken
<1>6. AnswersInTime' /\ RepliesAreAuthorised'
  BY DEF FeishuInv, FeishuTypeOK, AnswersInTime, RepliesAreAuthorised, StoreToken, HasToken, MsgAt
<1>7. PostsInTime'
  <2>. SUFFICES ASSUME NEW d \in Inbound, MsgAt(d, "post")'
                PROVE  /\ msg'[d].token # 0
                       /\ valid'[msg'[d].token] + waited'[d] > MaxWait
    BY DEF PostsInTime
  <2>1. CASE d = e
    BY <2>1, <1>1, <1>2, FeishuAssumption DEF FeishuInv, FeishuTypeOK, StoreToken, HasToken
  <2>2. CASE d # e
    BY <2>2 DEF FeishuInv, FeishuTypeOK, PostsInTime, StoreToken, HasToken, MsgAt
  <2>. QED BY <2>1, <2>2
<1>. QED BY <1>3, <1>4, <1>5, <1>6, <1>7 DEF FeishuInv

(* The platform looks at a token that is valid. *)
LEMMA PostKeepsInv ==
    ASSUME FeishuInv, NEW e \in Inbound, PostReply(e)
    PROVE  FeishuInv'
<1>1. valid[msg[e].token] # 0
  BY FeishuAssumption DEF FeishuInv, FeishuTypeOK, PostsInTime, PostReply
<1>2. MsgGoto(e, "react") /\ UNCHANGED <<channelState, tokenVars>>
  BY <1>1 DEF PostReply
<1>. QED BY <1>2, GotoKeepsInv DEF tokenVars, MsgSteps

LEMMA MsgStepKeepsInv ==
    ASSUME FeishuInv, NEW e \in Inbound, HandleMessage(e) \/ MsgStep(e)
    PROVE  FeishuInv'
<1>1. CASE HandleMessage(e) \/ SendsNoReply(e) \/ SendsReply(e) \/ React(e)
  BY <1>1, GotoKeepsInv
  DEF HandleMessage, SendsNoReply, SendsReply, React, tokenVars, MsgSteps
<1>2. CASE ReadCache(e)
  BY <1>2, FreshKeepsInv, GotoKeepsInv DEF ReadCache, tokenVars, MsgSteps
<1>3. CASE LockCache(e)
  BY <1>3, LockCacheKeepsInv
<1>4. CASE IssueToken(e)
  BY <1>4, IssueKeepsInv
<1>5. CASE StoreToken(e)
  BY <1>5, StoreKeepsInv
<1>6. CASE RefreshFails(e)
  BY <1>6, GotoKeepsInv DEF RefreshFails, tokenVars, MsgSteps
<1>7. CASE PostReply(e)
  BY <1>7, PostKeepsInv
<1>. QED BY <1>1, <1>2, <1>3, <1>4, <1>5, <1>6, <1>7 DEF MsgStep

(* What passes at the platform passes for the request, too. *)
LEMMA TickKeepsInv ==
    ASSUME FeishuInv, FeishuTick
    PROVE  FeishuInv'
<1>1. /\ \A n \in 1 .. MaxTokens : valid'[n] \in 0 .. Life /\ valid'[n] + 1 >= valid[n]
      /\ cache'.left \in 0 .. Life /\ cache'.left <= cache.left
      /\ cache.left > 0 => cache'.left + 1 = cache.left
      /\ cache'.token = cache.token
  BY FeishuAssumption DEF FeishuInv, FeishuTypeOK, FeishuTick, Elapsed
<1>2. \A e \in Inbound : OnTheWire(e) => waited'[e] = waited[e] + 1 /\ waited'[e] <= MaxWait
  BY FeishuAssumption DEF FeishuInv, FeishuTypeOK, FeishuTick
<1>3. FeishuTypeOK'
  <2>1. valid' \in [1 .. MaxTokens -> 0 .. Life]
    BY <1>1 DEF FeishuTick
  <2>2. cache' \in [token : 0 .. MaxTokens, left : 0 .. Life]
    BY <1>1 DEF FeishuInv, FeishuTypeOK, FeishuTick
  <2>3. waited' \in [Inbound -> 0 .. MaxWait]
    BY FeishuAssumption DEF FeishuInv, FeishuTypeOK, FeishuTick
  <2>. QED BY <2>1, <2>2, <2>3 DEF FeishuInv, FeishuTypeOK, FeishuTick, channelState
<1>4. RefresherHolds' /\ RepliesAreAuthorised'
  BY <1>1, FeishuAssumption
  DEF FeishuInv, FeishuTypeOK, RefresherHolds, RepliesAreAuthorised, FeishuTick, MsgAt, Fresh
<1>5. CacheBehind'
  BY <1>1, FeishuAssumption DEF FeishuInv, FeishuTypeOK, CacheBehind
<1>6. AnswersInTime'
  BY <1>1, <1>2, FeishuAssumption
  DEF FeishuInv, FeishuTypeOK, AnswersInTime, FeishuTick, MsgAt, OnTheWire
<1>7. PostsInTime'
  BY <1>1, <1>2, FeishuAssumption
  DEF FeishuInv, FeishuTypeOK, PostsInTime, FeishuTick, MsgAt, OnTheWire
<1>. QED BY <1>3, <1>4, <1>5, <1>6, <1>7 DEF FeishuInv

-----------------------------------------------------------------------------
LEMMA FeishuStepInv == FeishuInv /\ [FeishuNext]_feishuVars => FeishuInv'
<1>. SUFFICES ASSUME FeishuInv, [FeishuNext]_feishuVars PROVE FeishuInv'
  OBVIOUS
<1>1. CASE FeishuTick
  BY <1>1, TickKeepsInv
<1>2. CASE \/ FeishuStart \/ SocketEnds
           \/ \E c \in Closers : FeishuClose(c) \/ FeishuCloseReturns(c)
  BY <1>2, ConnectionKeepsInv
<1>3. CASE \E e \in Inbound : HandleMessage(e) \/ MsgStep(e)
  BY <1>3, MsgStepKeepsInv
<1>4. CASE UNCHANGED feishuVars
  BY <1>4 DEF FeishuInv, FeishuTypeOK, RefresherHolds, CacheBehind, AnswersInTime, PostsInTime,
     RepliesAreAuthorised, feishuVars, MsgAt, Fresh
<1>. QED BY <1>1, <1>2, <1>3, <1>4 DEF FeishuNext

(* The invariant: tokens in the cache, in answers and in replies live as   *)
(* long as they have to. *)
THEOREM FeishuInvariant == FeishuSpec => []FeishuInv
BY FeishuInitInv, FeishuStepInv, PTL DEF FeishuSpec

(* No reply comes to the platform with a token that is not valid any more, *)
(* whatever the times are, as long as the margin of getTenantToken covers  *)
(* a request and a reply. *)
THEOREM RepliesAlwaysAuthorised == FeishuSpec => []RepliesAreAuthorised
<1>1. FeishuInv => RepliesAreAuthorised
  BY DEF FeishuInv
<1>. QED BY <1>1, FeishuInvariant, PTL

(* Messages that wait for one another at tokenCache.mu fetch one token     *)
(* between them. *)
THEOREM OneRefreshOnly == FeishuSpec => OneRefresh
<1>1. FeishuInv /\ [FeishuNext]_feishuVars => [issued' # issued => ~Fresh]_feishuVars
  <2>. SUFFICES ASSUME FeishuInv, FeishuNext, issued' # issued PROVE ~Fresh
    OBVIOUS
  <2>1. PICK e \in Inbound : IssueToken(e)
    BY DEF FeishuNext, MsgStep, FeishuTick, FeishuStart, SocketEnds, FeishuClose,
       FeishuCloseReturns, HandleMessage, SendsNoReply, SendsReply, ReadCache, LockCache,
       StoreToken, RefreshFails, PostReply, React, tokenVars
  <2>. QED BY <2>1 DEF FeishuInv, RefresherHolds, IssueToken
<1>. QED BY <1>1, FeishuInvariant, PTL DEF FeishuSpec, OneRefresh

-----------------------------------------------------------------------------
(***************************************************************************)
(* Proofs about the prompts of the terminal, for any number of prompts and *)
(* of events.  Whatever messages of old streams do to the current one, the *)
(* prompts that were sent and those in the queue are together the prompts  *)
(* that were entered, in order: nothing but their division matters.        *)
(***************************************************************************)

(* The prompts sent are the first ones, those in the queue follow; and     *)
(* prompts wait only behind a stream. *)
SentThenQueued ==
    /\ entered \in Nat
    /\ order \in Seq(Nat) /\ queue \in Seq(Nat)
    /\ Len(order) + Len(queue) = entered
    /\ \A i \in 1 .. Len(order) : order[i] = i
    /\ \A i \in 1 .. Len(queue) : queue[i] = Len(order) + i
    /\ current = 0 => queue = <<>>

promptVars == <<entered, order, queue, current>>

-----------------------------------------------------------------------------
LEMMA TuiInitInv == TuiInit => SentThenQueued
BY DEF TuiInit, SentThenQueued

LEMMA SamePrompts == SentThenQueued /\ UNCHANGED promptVars => SentThenQueued'
BY DEF SentThenQueued, promptVars

(* startStream with the next prompt. *)
LEMMA SendNext ==
    ASSUME SentThenQueued, NEW s, NEW q \in Seq(Nat), s = Len(order) + 1,
           order' = Append(order, s), queue' = q, current' = s, entered' \in Nat,
           Len(order) + 1 + Len(q) = entered',
           \A i \in 1 .. Len(q) : q[i] = Len(order) + 1 + i
    PROVE  SentThenQueued'
<1>1. order' \in Seq(Nat) /\ Len(order') = Len(order) + 1
  BY DEF SentThenQueued
<1>2. \A i \in 1 .. Len(order') : order'[i] = i
  BY DEF SentThenQueued
<1>3. current' # 0
  BY DEF SentThenQueued
<1>. QED BY <1>1, <1>2, <1>3 DEF SentThenQueued

(* The end of a stream sends the prompt at the head of the queue, if any.  *)
LEMMA FinishKeepsOrder ==
    ASSUME SentThenQueued, NEW others, FinishAndDrain(others), entered' = entered
    PROVE  SentThenQueued'
<1>1. CASE queue = <<>>
  BY <1>1 DEF SentThenQueued, FinishAndDrain
<1>2. CASE queue # <<>>
  <2>1. /\ Head(queue) = Len(order) + 1
        /\ Tail(queue) \in Seq(Nat) /\ Len(Tail(queue)) = Len(queue) - 1
        /\ \A i \in 1 .. Len(Tail(queue)) : Tail(queue)[i] = queue[i + 1]
    BY <1>2 DEF SentThenQueued
  <2>2. \A i \in 1 .. Len(Tail(queue)) : Tail(queue)[i] = Len(order) + 1 + i
    BY <2>1 DEF SentThenQueued
  <2>3. /\ queue' = Tail(queue) /\ order' = Append(order, Head(queue))
        /\ current' = Head(queue)
    BY <1>2 DEF FinishAndDrain, StartStream
  <2>4. Len(order) + 1 + Len(Tail(queue)) = entered' /\ entered' \in Nat
    <3>1. /\ Len(order) \in Nat /\ Len(queue) \in Nat
          /\ Len(order) + Len(queue) = entered /\ entered \in Nat
      BY DEF SentThenQueued
    <3>. QED BY <2>1, <3>1
  <2>. QED BY <2>1, <2>2, <2>3, <2>4, SendNext
<1>. QED BY <1>1, <1>2

LEMMA EnterKeepsOrder ==
    ASSUME SentThenQueued, Enter
    PROVE  SentThenQueued'
<1>1. entered' = entered + 1 /\ entered' \in Nat
  BY DEF SentThenQueued, Enter
<1>2. CASE current # 0
  <2>1. queue' = Append(queue, entered') /\ order' = order /\ current' = current
    BY <1>2 DEF Enter
  <2>2. queue' \in Seq(Nat) /\ Len(queue') = Len(queue) + 1
    BY <2>1, <1>1 DEF SentThenQueued
  <2>3. \A i \in 1 .. Len(queue') : queue'[i] = Len(order) + i
    <3>. SUFFICES ASSUME NEW i \in 1 .. Len(queue') PROVE queue'[i] = Len(order) + i
      OBVIOUS
    <3>1. CASE i <= Len(queue)
      BY <2>1, <2>2, <3>1 DEF SentThenQueued
    <3>2. CASE i = Len(queue) + 1
      <4>1. queue'[i] = entered'
        BY <2>1, <1>1, <3>2 DEF SentThenQueued
      <4>2. Len(order) \in Nat /\ Len(queue) \in Nat /\ entered = Len(order) + Len(queue)
        BY DEF SentThenQueued
      <4>. QED BY <4>1, <4>2, <1>1, <3>2
    <3>3. Len(queue) \in Nat
      BY DEF SentThenQueued
    <3>. QED BY <2>2, <3>1, <3>2, <3>3
  <2>. QED BY <1>1, <1>2, <2>1, <2>2, <2>3 DEF SentThenQueued
<1>3. CASE current = 0
  <2>1. /\ queue = <<>> /\ queue' = <<>>
        /\ order' = Append(order, entered') /\ current' = entered'
    BY <1>3 DEF SentThenQueued, Enter, StartStream
  <2>2. entered' = Len(order) + 1
    BY <1>1, <2>1 DEF SentThenQueued
  <2>. QED BY <1>1, <2>1, <2>2, SendNext DEF SentThenQueued
<1>. QED BY <1>2, <1>3

LEMMA TuiStepInv == SentThenQueued /\ [TuiNext]_tuiVars => SentThenQueued'
<1>. SUFFICES ASSUME SentThenQueued, [TuiNext]_tuiVars PROVE SentThenQueued'
  OBVIOUS
<1>1. CASE Enter
  BY <1>1, EnterKeepsOrder
<1>2. CASE CtrlC
  BY <1>2, FinishKeepsOrder DEF CtrlC
<1>3. ASSUME NEW r \in DOMAIN reads, HandleStreamMsg(r) PROVE SentThenQueued'
  <2>1. CASE r.got = "text"
    BY <1>3, <2>1, SamePrompts DEF HandleStreamMsg, promptVars
  <2>2. CASE r.got # "text"
    BY <1>3, <2>2, FinishKeepsOrder DEF HandleStreamMsg
  <2>. QED BY <2>1, <2>2
<1>4. ASSUME NEW r \in DOMAIN reads, ReadNextEvent(r) PROVE SentThenQueued'
  BY <1>4, SamePrompts DEF ReadNextEvent, promptVars
<1>5. ASSUME NEW s \in StreamIds, AgentStep(s) PROVE SentThenQueued'
  BY <1>5, SamePrompts DEF AgentStep, promptVars
<1>6. CASE UNCHANGED tuiVars
  BY <1>6, SamePrompts DEF tuiVars, promptVars
<1>. QED BY <1>1, <1>2, <1>3, <1>4, <1>5, <1>6 DEF TuiNext

-----------------------------------------------------------------------------
(* The invariant: what was sent and what is queued is what was entered.    *)
THEOREM QueueInvariant == TuiSpec => []SentThenQueued
BY TuiInitInv, TuiStepInv, PTL DEF TuiSpec

(* Prompts reach the agent in the order in which they were entered, and    *)
(* none is lost, whatever is cancelled, fails or ends late. *)
THEOREM PromptsSentInOrder == TuiSpec => []PromptsInOrder
<1>1. SentThenQueued => PromptsInOrder
  BY DEF SentThenQueued, PromptsInOrder
<1>. QED BY <1>1, QueueInvariant, PTL

-----------------------------------------------------------------------------
(* Types *)

CommandType == [of : StreamIds, got : EventTypes \cup {"waiting", "closed"}]
ReadsOK(B) == IsABag(B) /\ DOMAIN B \subseteq CommandType

LEMMA OneMore ==
    ASSUME NEW B, IsABag(B), NEW x
    PROVE  IsABag(B (+) SetToBag({x})) /\ DOMAIN (B (+) SetToBag({x})) = DOMAIN B \cup {x}
<1>. DEFINE C == B (+) SetToBag({x})
<1>1. DOMAIN C = DOMAIN B \cup {x}
  BY DEF SetToBag, (+)
<1>2. ASSUME NEW e \in DOMAIN C PROVE C[e] \in {n \in Nat : n > 0}
  BY <1>2 DEF SetToBag, (+), IsABag
<1>3. C = [e \in DOMAIN C |-> C[e]]
  BY DEF (+)
<1>. QED
  <2>. HIDE DEF C
  <2>1. IsABag(C)
    BY <1>2, <1>3 DEF IsABag
  <2>. QED BY <1>1, <2>1 DEF C

LEMMA OneLess ==
    ASSUME NEW B, IsABag(B), NEW x
    PROVE  IsABag(B (-) SetToBag({x})) /\ DOMAIN (B (-) SetToBag({x})) \subseteq DOMAIN B
<1>. DEFINE C == B (-) SetToBag({x})
<1>1. DOMAIN C \subseteq DOMAIN B
  BY DEF SetToBag, (-)
<1>2. ASSUME NEW e \in DOMAIN C PROVE C[e] \in {n \in Nat : n > 0}
  BY <1>2 DEF SetToBag, (-), IsABag
<1>3. C = [e \in DOMAIN C |-> C[e]]
  BY DEF (-)
<1>. QED
  <2>. HIDE DEF C
  <2>1. IsABag(C)
    BY <1>2, <1>3 DEF IsABag
  <2>. QED BY <1>1, <2>1 DEF C

LEMMA ReadsGrow ==
    ASSUME NEW B, ReadsOK(B), NEW s \in StreamIds, NEW got \in EventTypes \cup {"waiting", "closed"}
    PROVE  ReadsOK(B (+) Command(s, got))
<1>1. [of |-> s, got |-> got] \in CommandType
  BY DEF CommandType
<1>2. /\ IsABag(B (+) SetToBag({[of |-> s, got |-> got]}))
      /\ DOMAIN (B (+) SetToBag({[of |-> s, got |-> got]})) = DOMAIN B \cup {[of |-> s, got |-> got]}
  BY OneMore DEF ReadsOK
<1>. QED BY <1>1, <1>2 DEF ReadsOK, Command

LEMMA ReadsShrink ==
    ASSUME ReadsOK(reads), NEW r
    PROVE  ReadsOK(Without(r))
BY OneLess DEF ReadsOK, Without

LEMMA FinishTypes ==
    ASSUME TuiTypeOK, NEW others, ReadsOK(others), FinishAndDrain(others),
           UNCHANGED <<entered, emitted, feed>>
    PROVE  TuiTypeOK'
<1>1. halted' \subseteq StreamIds
  <2>1. {current} \ {0} \subseteq StreamIds
    BY TuiAssumption DEF TuiTypeOK, StreamIds
  <2>2. halted' = halted \cup ({current} \ {0}) /\ halted \subseteq StreamIds
    BY DEF FinishAndDrain, TuiTypeOK
  <2>. QED BY <2>1, <2>2
<1>2. CASE queue = <<>>
  <2>1. current' = 0 /\ reads' = others /\ UNCHANGED <<queue, agent, order>>
    BY <1>2 DEF FinishAndDrain
  <2>2. current' \in 0 .. MaxPrompts
    BY <2>1, TuiAssumption
  <2>. QED BY <1>1, <2>1, <2>2 DEF TuiTypeOK, ReadsOK, CommandType
<1>3. CASE queue # <<>>
  <2>1. Head(queue) \in StreamIds /\ Tail(queue) \in Seq(StreamIds)
    BY <1>3 DEF TuiTypeOK
  <2>2. ReadsOK(others (+) Waiting(Head(queue)))
    BY <2>1, ReadsGrow DEF Waiting
  <2>3. /\ queue' = Tail(queue) /\ current' = Head(queue)
        /\ order' = Append(order, Head(queue))
        /\ agent' = [agent EXCEPT ![Head(queue)] = "waiting"]
        /\ reads' = others (+) Waiting(Head(queue))
    BY <1>3 DEF FinishAndDrain, StartStream
  <2>4. order' \in Seq(StreamIds) /\ current' \in 0 .. MaxPrompts
    BY <2>1, <2>3, TuiAssumption DEF TuiTypeOK, StreamIds
  <2>5. agent' \in [StreamIds -> {"none", "waiting", "running", "ending", "closed"}]
    BY <2>3 DEF TuiTypeOK
  <2>6. IsABag(reads') /\ DOMAIN reads' \subseteq [of : StreamIds, got : EventTypes \cup {"waiting", "closed"}]
    BY <2>2, <2>3 DEF ReadsOK, CommandType
  <2>. QED BY <1>1, <2>1, <2>3, <2>4, <2>5, <2>6 DEF TuiTypeOK
<1>. QED BY <1>2, <1>3

LEMMA EnterTypes ==
    ASSUME TuiTypeOK, Enter
    PROVE  TuiTypeOK'
<1>1. entered' \in 0 .. MaxPrompts /\ entered' \in StreamIds
  BY TuiAssumption DEF TuiTypeOK, Enter, StreamIds
<1>2. CASE current # 0
  <2>1. queue' \in Seq(StreamIds)
    <3>1. \A s \in StreamIds : Append(queue, s) \in Seq(StreamIds)
      BY DEF TuiTypeOK
    <3>. QED BY <1>1, <1>2, <3>1 DEF Enter
  <2>. QED BY <1>1, <1>2, <2>1 DEF Enter, TuiTypeOK
<1>3. CASE current = 0
  <2>1. /\ current' = entered' /\ order' = Append(order, entered')
        /\ agent' = [agent EXCEPT ![entered'] = "waiting"]
        /\ reads' = reads (+) Waiting(entered')
        /\ UNCHANGED <<queue, emitted, feed, halted>>
    BY <1>3 DEF Enter, StartStream
  <2>2. order' \in Seq(StreamIds)
    <3>1. \A s \in StreamIds : Append(order, s) \in Seq(StreamIds)
      BY DEF TuiTypeOK
    <3>. QED BY <1>1, <2>1, <3>1
  <2>3. agent' \in [StreamIds -> {"none", "waiting", "running", "ending", "closed"}]
    BY <2>1 DEF TuiTypeOK
  <2>4. ReadsOK(reads')
    <3>1. ReadsOK(reads)
      BY DEF TuiTypeOK, ReadsOK, CommandType
    <3>. QED BY <1>1, <2>1, <3>1, ReadsGrow DEF Waiting
  <2>. QED BY <1>1, <2>1, <2>2, <2>3, <2>4 DEF TuiTypeOK, ReadsOK, CommandType
<1>. QED BY <1>2, <1>3

LEMMA CommandTypes ==
    ASSUME TuiTypeOK, NEW r \in DOMAIN reads, HandleStreamMsg(r) \/ ReadNextEvent(r)
    PROVE  TuiTypeOK'
<1>1. ReadsOK(reads) /\ ReadsOK(Without(r)) /\ r \in CommandType
  BY ReadsShrink DEF TuiTypeOK, ReadsOK, CommandType
<1>2. CASE HandleStreamMsg(r) /\ r.got # "text"
  BY <1>1, <1>2, FinishTypes DEF HandleStreamMsg
<1>3. CASE HandleStreamMsg(r) /\ r.got = "text"
  <2>1. /\ reads' = (IF current = 0 THEN Without(r) ELSE Without(r) (+) Waiting(current))
        /\ UNCHANGED <<entered, current, queue, agent, emitted, feed, halted, order>>
    BY <1>3 DEF HandleStreamMsg
  <2>2. ReadsOK(reads')
    <3>1. CASE current = 0
      BY <1>1, <2>1, <3>1
    <3>2. CASE current # 0
      <4>1. current \in StreamIds
        BY <3>2, TuiAssumption DEF TuiTypeOK, StreamIds
      <4>. QED BY <1>1, <2>1, <3>2, <4>1, ReadsGrow DEF Waiting
    <3>. QED BY <3>1, <3>2
  <2>. QED BY <2>1, <2>2 DEF TuiTypeOK, ReadsOK, CommandType
<1>4. CASE ReadNextEvent(r)
  <2>. DEFINE s == r.of
  <2>1. s \in StreamIds /\ feed[s] \in Seq(EventTypes)
    BY <1>1 DEF CommandType, TuiTypeOK
  <2>2. UNCHANGED <<entered, current, queue, agent, emitted, halted, order>>
    BY <1>4 DEF ReadNextEvent
  <2>3. CASE feed[s] # <<>> /\ reads' = Without(r) (+) Command(s, Head(feed[s]))
             /\ feed' = [feed EXCEPT ![s] = Tail(@)]
    <3>1. Head(feed[s]) \in EventTypes /\ Tail(feed[s]) \in Seq(EventTypes)
      BY <2>1, <2>3
    <3>2. ReadsOK(reads')
      BY <1>1, <2>1, <2>3, <3>1, ReadsGrow
    <3>3. feed' \in [StreamIds -> Seq(EventTypes)]
      BY <2>1, <2>3, <3>1 DEF TuiTypeOK
    <3>. QED BY <2>2, <3>2, <3>3 DEF TuiTypeOK, ReadsOK, CommandType
  <2>4. CASE reads' = Without(r) (+) Command(s, "closed") /\ UNCHANGED feed
    <3>1. ReadsOK(reads')
      BY <1>1, <2>1, <2>4, ReadsGrow
    <3>. QED BY <2>2, <2>4, <3>1 DEF TuiTypeOK, ReadsOK, CommandType
  <2>. QED BY <1>4, <2>3, <2>4 DEF ReadNextEvent
<1>. QED BY <1>2, <1>3, <1>4

LEMMA AgentStepTypes ==
    ASSUME TuiTypeOK, NEW s \in StreamIds, AgentStep(s)
    PROVE  TuiTypeOK'
<1>1. UNCHANGED <<entered, current, queue, reads, halted, order>>
  BY DEF AgentStep
<1>2. agent' \in [StreamIds -> {"none", "waiting", "running", "ending", "closed"}]
  <2>1. UNCHANGED agent \/ \E where \in {"running", "ending", "closed"} : AgentGoto(s, where)
    BY DEF AgentStep, TakesTurn, Emits, Ends, ClosesChannel
  <2>. QED BY <2>1 DEF AgentGoto, TuiTypeOK
<1>3. emitted' \in [StreamIds -> 0 .. MaxEvents]
  <2>1. \/ UNCHANGED emitted
        \/ emitted[s] < MaxEvents /\ emitted' = [emitted EXCEPT ![s] = @ + 1]
    BY DEF AgentStep, TakesTurn, Emits, Ends, ClosesChannel
  <2>2. emitted \in [StreamIds -> 0 .. MaxEvents]
    BY DEF TuiTypeOK
  <2>3. CASE emitted[s] < MaxEvents /\ emitted' = [emitted EXCEPT ![s] = @ + 1]
    <3>1. emitted[s] + 1 \in 0 .. MaxEvents
      BY <2>2, <2>3, TuiAssumption
    <3>. QED BY <2>2, <2>3, <3>1
  <2>. QED BY <2>1, <2>2, <2>3
<1>4. feed' \in [StreamIds -> Seq(EventTypes)]
  <2>1. feed \in [StreamIds -> Seq(EventTypes)]
    BY DEF TuiTypeOK
  <2>2. UNCHANGED feed \/ \E type \in EventTypes : Send(s, type)
    BY DEF AgentStep, TakesTurn, Emits, Ends, ClosesChannel, EventTypes
  <2>3. ASSUME NEW type \in EventTypes, Send(s, type) PROVE feed' \in [StreamIds -> Seq(EventTypes)]
    <3>1. Append(feed[s], type) \in Seq(EventTypes)
      BY <2>1
    <3>. QED BY <2>1, <2>3, <3>1 DEF Send
  <2>. QED BY <2>1, <2>2, <2>3
<1>. QED BY <1>1, <1>2, <1>3, <1>4 DEF TuiTypeOK

LEMMA TuiInitTypes ==
    ASSUME TuiInit
    PROVE  TuiTypeOK
<1>1. IsABag(reads) /\ DOMAIN reads = {}
  BY DEF TuiInit, EmptyBag, SetToBag, IsABag
<1>2. feed \in [StreamIds -> Seq(EventTypes)]
  BY DEF TuiInit
<1>3. entered \in 0 .. MaxPrompts /\ current \in 0 .. MaxPrompts
  BY TuiAssumption DEF TuiInit
<1>4. emitted \in [StreamIds -> 0 .. MaxEvents]
  BY TuiAssumption DEF TuiInit
<1>. QED BY <1>1, <1>2, <1>3, <1>4 DEF TuiInit, TuiTypeOK

LEMMA TuiStepTypes ==
    ASSUME TuiTypeOK, [TuiNext]_tuiVars
    PROVE  TuiTypeOK'
<1>1. CASE CtrlC
  <2>1. ReadsOK(reads)
    BY DEF TuiTypeOK, ReadsOK, CommandType
  <2>. QED BY <1>1, <2>1, FinishTypes DEF CtrlC
<1>2. CASE UNCHANGED tuiVars
  BY <1>2 DEF tuiVars, TuiTypeOK
<1>. QED BY <1>1, <1>2, EnterTypes, CommandTypes, AgentStepTypes DEF TuiNext

-----------------------------------------------------------------------------
(***************************************************************************)
(* Proofs about the stream of a provider, for any number of calls and      *)
(* fragments of a call and any capacity of the channels.                   *)
(*                                                                         *)
(* readStream keeps the calls of the model in a map until the stream ends, *)
(* and the turn executes what has reached it by then.  The invariant       *)
(* follows them on their way: either none has left readStream, or all      *)
(* have, and they stand one after the other between the calls that the     *)
(* turn has and the end of what is still to be sent (Together).            *)
(***************************************************************************)

(* What is on its way to the turn: the channel, then what readStream has   *)
(* yet to send. *)
Size == Len(chunks) + Len(prod.todo)
Line(j) == IF j <= Len(chunks) THEN chunks[j] ELSE prod.todo[j - Len(chunks)]

(* No call has left readStream. *)
NoneYet == calls = <<>> /\ \A j \in 1 .. Size : Line(j).kind # "call"

(* They have, together: those the turn has are the first, the others       *)
(* follow each other on the way, d chunks behind its head. *)
Left == Cardinality(Known) - Len(calls)
Follow(d) ==
    /\ d + Left <= Size
    /\ \A j \in 1 .. Size : Line(j).kind = "call" => d < j /\ j <= d + Left
    /\ \A i \in 1 .. Left : Line(d + i) = Flushed[Len(calls) + i]

Together ==
    /\ stage \in {"tool_calls", "over"}
    /\ Left \in Nat
    /\ \A i \in 1 .. Len(calls) : calls[i] = Flushed[i]
    /\ \E d \in Nat : Follow(d)

SseInv ==
    /\ SseTypeOK
    /\ pending = sent
    /\ closed => prod.todo = <<>>
    /\ turn = "asking" => closed /\ stage = "open" /\ chunks = <<>> /\ calls = <<>>
    /\ turn = "tools" => closed /\ chunks = <<>> /\ calls # <<>>
    /\ turn # "failed" => NoneYet \/ Together

-----------------------------------------------------------------------------
(* Every finite set of numbers can be listed: the smallest one that could  *)
(* not has a least element, and the list of the others starts after it. *)
LEMMA ListsExist ==
    ASSUME NEW S, S \subseteq Nat, IsFiniteSet(S)
    PROVE  Lists(S) # {}
<1>. DEFINE Bad == {T \in SUBSET S : Lists(T) = {}}
            sizes == {Cardinality(T) : T \in Bad}
<1>1. SUFFICES ASSUME Lists(S) = {} PROVE FALSE
  OBVIOUS
<1>2. S \in Bad /\ \A T \in SUBSET S : IsFiniteSet(T) /\ Cardinality(T) \in Nat
  BY <1>1, FS_Subset, FS_CardinalityType
<1>3. sizes \subseteq Nat /\ sizes # {}
  BY <1>2
<1>4. PICK n \in sizes : \A k \in sizes : ~(<<k, n>> \in OpToRel(<, Nat))
  BY <1>3, NatLessThanWellFounded, WFMin
<1>5. PICK T \in Bad : n = Cardinality(T)
  OBVIOUS
<1>6. IsFiniteSet(T) /\ T \subseteq Nat /\ n \in Nat
  BY <1>2, <1>5
<1>7. CASE T = {}
  <2>1. n = 0
    BY <1>5, <1>7, FS_EmptySet
  <2>2. 1 .. Cardinality(T) = {}
    BY <1>5, <2>1
  <2>. DEFINE e == [i \in {} |-> 0]
  <2>3. e \in [1 .. Cardinality(T) -> T] /\ DOMAIN e = {}
    BY <2>2
  <2>4. e \in Lists(T)
    <3>. HIDE DEF e
    <3>. QED BY <1>7, <2>3 DEF Lists
  <2>. QED BY <2>4
<1>8. CASE T # {}
  <2>1. PICK m \in T : \A k \in T : ~(<<k, m>> \in OpToRel(<, Nat))
    BY <1>6, <1>8, NatLessThanWellFounded, WFMin
  <2>2. \A k \in T \ {m} : m < k
    <3>1. \A k \in T : ~(k < m)
      BY <1>6, <2>1 DEF OpToRel
    <3>2. \A k \in T : k \in Nat
      BY <1>6
    <3>. QED BY <3>1, <3>2
  <2>. DEFINE U == T \ {m}
  <2>3. IsFiniteSet(U) /\ Cardinality(U) = n - 1 /\ n - 1 \in Nat
    <3>1. IsFiniteSet(U) /\ Cardinality(U) = n - 1
      BY <1>5, <1>6, FS_RemoveElement
    <3>. QED BY <3>1, FS_CardinalityType
  <2>4. PICK s : s \in Lists(U)
    <3>1. U \notin Bad
      <4>. SUFFICES ASSUME U \in Bad PROVE FALSE
        OBVIOUS
      <4>1. n - 1 \in sizes
        BY <2>3
      <4>2. <<n - 1, n>> \in OpToRel(<, Nat)
        BY <1>6, <2>3 DEF OpToRel
      <4>. HIDE DEF sizes
      <4>. QED BY <1>4, <4>1, <4>2
    <3>. QED BY <3>1
  <2>5. /\ s \in [1 .. n - 1 -> U]
        /\ \A c \in U : \E i \in 1 .. n - 1 : s[i] = c
        /\ \A i, j \in 1 .. n - 1 : i < j => s[i] < s[j]
    BY <2>3, <2>4 DEF Lists
  <2>. DEFINE t == [i \in 1 .. n |-> IF i = 1 THEN m ELSE s[i - 1]]
  <2>6. t \in [1 .. n -> T]
    BY <1>6, <2>3, <2>5
  <2>7. ASSUME NEW c \in T PROVE \E i \in 1 .. n : t[i] = c
    <3>1. CASE c = m
      <4>1. 1 \in 1 .. n /\ t[1] = m
        BY <1>6, <2>3
      <4>. QED BY <3>1, <4>1
    <3>2. CASE c # m
      <4>1. PICK i \in 1 .. n - 1 : s[i] = c
        BY <2>5, <3>2
      <4>2. i + 1 \in 1 .. n /\ t[i + 1] = c
        BY <1>6, <4>1
      <4>. QED BY <4>2
    <3>. QED BY <3>1, <3>2
  <2>8. ASSUME NEW i \in 1 .. n, NEW j \in 1 .. n, i < j PROVE t[i] < t[j]
    <3>1. j - 1 \in 1 .. n - 1 /\ t[j] = s[j - 1]
      BY <1>6, <2>8
    <3>2. CASE i = 1
      BY <2>2, <2>5, <3>1, <3>2
    <3>3. CASE i # 1
      BY <1>6, <2>5, <2>8, <3>1, <3>3
    <3>. QED BY <3>2, <3>3
  <2>9. t \in Lists(T)
    <3>. HIDE DEF t
    <3>1. DOMAIN t = 1 .. n
      BY <2>6
    <3>. QED BY <1>5, <2>6, <2>7, <2>8, <3>1 DEF Lists
  <2>. QED BY <2>9
<1>. QED BY <1>7, <1>8

(* What readStream flushes: every call that was announced, each once, in   *)
(* the order of the indices, with what was assembled of its arguments. *)
LEMMA FlushedCalls ==
    ASSUME SseTypeOK
    PROVE  /\ Cardinality(Known) \in Nat
           /\ Flushed \in Seq(Chunk) /\ Len(Flushed) = Cardinality(Known)
           /\ \A i \in 1 .. Cardinality(Known) :
                 /\ Flushed[i].kind = "call" /\ Flushed[i].idx \in Known
                 /\ Flushed[i].args = pending[Flushed[i].idx]
           /\ \A i, j \in 1 .. Cardinality(Known) : i < j => Flushed[i].idx < Flushed[j].idx
           /\ \A c \in Known : \E i \in 1 .. Cardinality(Known) : Flushed[i].idx = c
<1>. DEFINE n == Cardinality(Known)
            a == Ascending(Known)
<1>1. Known \subseteq Nat /\ Known \subseteq Indices /\ IsFiniteSet(Known) /\ n \in Nat
  <2>1. Known \subseteq Indices /\ Indices \subseteq Nat /\ IsFiniteSet(Indices)
    BY SseAssumption DEF Known
  <2>2. IsFiniteSet(Known)
    BY <2>1, FS_Subset
  <2>. QED BY <2>1, <2>2, FS_CardinalityType
<1>2. a \in Lists(Known)
  BY <1>1, ListsExist DEF Ascending
<1>3. /\ a \in [1 .. n -> Known]
      /\ \A c \in Known : \E i \in 1 .. n : a[i] = c
      /\ \A i, j \in 1 .. n : i < j => a[i] < a[j]
  BY <1>2 DEF Lists
<1>4. \A c \in Known : pending[c] \in 0 .. MaxFragments
  BY SseAssumption DEF SseTypeOK, Known, NoArgs
<1>5. \A c \in Known : /\ Assembled(c).kind = "call" /\ Assembled(c).idx = c
                       /\ Assembled(c).args = pending[c]
                       /\ Assembled(c) \in Chunk
  BY <1>1, <1>4 DEF Assembled, Chunk
<1>. HIDE DEF n, a
<1>6. Flushed = [i \in 1 .. n |-> Assembled(a[i])]
  BY DEF Flushed, n, a
<1>7. \A i \in 1 .. n : Flushed[i] = Assembled(a[i]) /\ a[i] \in Known
  BY <1>3, <1>6
<1>8. Flushed \in Seq(Chunk) /\ Len(Flushed) = n
  <2>1. Flushed \in [1 .. n -> Chunk]
    BY <1>3, <1>5, <1>6
  <2>. QED BY <1>1, <2>1
<1>9. \A i \in 1 .. n : /\ Flushed[i].kind = "call" /\ Flushed[i].idx = a[i]
                        /\ Flushed[i].args = pending[a[i]]
  BY <1>5, <1>7
<1>10. \A i, j \in 1 .. n : i < j => Flushed[i].idx < Flushed[j].idx
  BY <1>3, <1>9
<1>11. \A c \in Known : \E i \in 1 .. n : Flushed[i].idx = c
  BY <1>3, <1>9
<1>. QED BY <1>1, <1>7, <1>8, <1>9, <1>10, <1>11 DEF n

LEMMA SameFlush ==
    ASSUME UNCHANGED pending
    PROVE  UNCHANGED <<Flushed, Cardinality(Known)>>
BY DEF Flushed, Known, Assembled

-----------------------------------------------------------------------------
(* What is on the way *)

LineTypes == chunks \in Seq(Chunk) /\ prod.todo \in Seq(Chunk) /\ calls \in Seq(Chunk)

(* Nothing but plain chunks joins the end of the line. *)
LEMMA LineGrows ==
    ASSUME LineTypes, LineTypes', NoneYet \/ Together,
           UNCHANGED <<calls, pending>>, stage' = stage \/ stage' = "over",
           Size <= Size',
           \A j \in 1 .. Size : Line(j)' = Line(j),
           \A j \in 1 .. Size' : j > Size => Line(j)'.kind # "call"
    PROVE  NoneYet' \/ Together'
<1>0. Size \in Nat /\ Size' \in Nat
  BY DEF LineTypes, Size
<1>1. CASE NoneYet
  <2>1. \A j \in 1 .. Size' : Line(j)'.kind # "call"
    BY <1>0, <1>1 DEF NoneYet
  <2>. QED BY <1>1, <2>1 DEF NoneYet
<1>2. CASE Together
  <2>1. UNCHANGED <<Flushed, Cardinality(Known), Left>>
    BY SameFlush DEF Left
  <2>2. PICK d \in Nat : Follow(d)
    BY <1>2 DEF Together
  <2>3. Left \in Nat
    BY <1>2 DEF Together
  <2>4. Follow(d)'
    <3>1. d + Left' <= Size'
      BY <1>0, <2>1, <2>2, <2>3 DEF Follow
    <3>2. \A j \in 1 .. Size' : Line(j)'.kind = "call" => d < j /\ j <= d + Left'
      BY <1>0, <2>1, <2>2, <2>3 DEF Follow
    <3>3. \A i \in 1 .. Left' : Line(d + i)' = Flushed'[Len(calls') + i]
      <4>. SUFFICES ASSUME NEW i \in 1 .. Left PROVE Line(d + i)' = Flushed[Len(calls) + i]
        BY <2>1
      <4>1. d + i \in 1 .. Size
        BY <1>0, <2>2, <2>3 DEF Follow
      <4>2. Line(d + i)' = Line(d + i)
        BY <4>1
      <4>. QED BY <2>2, <4>2 DEF Follow
    <3>. QED BY <3>1, <3>2, <3>3 DEF Follow
  <2>. QED BY <1>2, <2>1, <2>4 DEF Together
<1>. QED BY <1>1, <1>2

(* The head of the line reaches the turn: a call is the next one of those  *)
(* that were flushed. *)
LEMMA LineMoves ==
    ASSUME SseTypeOK, LineTypes, LineTypes', NoneYet \/ Together,
           chunks # <<>>, chunks' = Tail(chunks), UNCHANGED <<prod, pending, stage>>,
           calls' = IF Head(chunks).kind = "call" THEN Append(calls, Head(chunks)) ELSE calls
    PROVE  NoneYet' \/ Together'
<1>0. Size \in Nat /\ Size' = Size - 1 /\ Size' \in Nat /\ 1 \in 1 .. Size /\ Line(1) = Head(chunks)
  BY DEF LineTypes, Size, Line
<1>1. \A j \in 1 .. Size' : Line(j)' = Line(j + 1)
  BY DEF LineTypes, Size, Line
<1>2. CASE NoneYet
  <2>1. calls' = <<>>
    BY <1>0, <1>2 DEF NoneYet
  <2>2. \A j \in 1 .. Size' : Line(j)'.kind # "call"
    BY <1>0, <1>1, <1>2 DEF NoneYet
  <2>. QED BY <2>1, <2>2 DEF NoneYet
<1>3. CASE Together
  <2>1. UNCHANGED <<Flushed, Cardinality(Known)>>
    BY SameFlush
  <2>2. PICK d \in Nat : Follow(d)
    BY <1>3 DEF Together
  <2>3. Left \in Nat /\ Len(calls) \in Nat /\ Cardinality(Known) \in Nat
    BY <1>3, FlushedCalls DEF Together, LineTypes
  <2>4. CASE Head(chunks).kind = "call"
    <3>1. d = 0 /\ Left >= 1
      BY <1>0, <2>2, <2>3, <2>4 DEF Follow
    <3>2. Head(chunks) = Flushed[Len(calls) + 1]
      <4>1. 1 \in 1 .. Left /\ Line(0 + 1) = Flushed[Len(calls) + 1]
        BY <2>2, <2>3, <3>1 DEF Follow
      <4>. QED BY <1>0, <4>1
    <3>3. /\ calls' = Append(calls, Head(chunks)) /\ Len(calls') = Len(calls) + 1
          /\ Head(chunks) \in Chunk
      BY <2>4 DEF LineTypes
    <3>4. Left' = Left - 1 /\ Left' \in Nat
      BY <2>1, <2>3, <3>1, <3>3 DEF Left
    <3>5. \A i \in 1 .. Len(calls') : calls'[i] = Flushed[i]
      <4>. SUFFICES ASSUME NEW i \in 1 .. Len(calls') PROVE calls'[i] = Flushed[i]
        OBVIOUS
      <4>1. CASE i <= Len(calls)
        <5>1. calls'[i] = calls[i]
          BY <3>3, <4>1 DEF LineTypes
        <5>. QED BY <1>3, <4>1, <5>1, <2>3 DEF Together
      <4>2. CASE i = Len(calls) + 1
        <5>1. calls'[i] = Head(chunks)
          BY <3>3, <4>2 DEF LineTypes
        <5>. QED BY <3>2, <4>2, <5>1
      <4>. QED BY <2>3, <3>3, <4>1, <4>2
    <3>6. Follow(0)'
      <4>1. 0 + Left' <= Size'
        BY <1>0, <2>2, <2>3, <3>1, <3>4 DEF Follow
      <4>2. \A j \in 1 .. Size' : Line(j)'.kind = "call" => 0 < j /\ j <= 0 + Left'
        BY <1>0, <1>1, <2>2, <2>3, <3>1, <3>4 DEF Follow
      <4>3. \A i \in 1 .. Left' : Line(0 + i)' = Flushed'[Len(calls') + i]
        <5>. SUFFICES ASSUME NEW i \in 1 .. Left' PROVE Line(i)' = Flushed[Len(calls) + 1 + i]
          BY <2>1, <2>3, <3>3
        <5>1. Line(i)' = Line(i + 1)
          BY <1>0, <1>1, <3>4, <4>1
        <5>2. i + 1 \in 1 .. Left /\ 0 + (i + 1) = i + 1 /\ Len(calls) + (i + 1) = Len(calls) + 1 + i
          BY <2>3, <3>4
        <5>3. Line(0 + (i + 1)) = Flushed[Len(calls) + (i + 1)]
          BY <2>2, <3>1, <5>2 DEF Follow
        <5>. QED BY <5>1, <5>2, <5>3
      <4>. QED BY <4>1, <4>2, <4>3 DEF Follow
    <3>. QED BY <1>3, <2>1, <3>4, <3>5, <3>6 DEF Together
  <2>5. CASE Head(chunks).kind # "call"
    <3>1. calls' = calls /\ Left' = Left
      BY <2>1, <2>5 DEF Left
    <3>2. CASE Left = 0
      <4>1. Follow(0)'
        BY <1>0, <1>1, <2>1, <2>2, <2>3, <3>1, <3>2 DEF Follow
      <4>. QED BY <1>3, <2>1, <3>1, <4>1 DEF Together
    <3>3. CASE Left > 0
      <4>1. d > 0
        <5>1. 1 \in 1 .. Left /\ Len(calls) + 1 \in 1 .. Cardinality(Known)
          BY <2>3, <3>3 DEF Left
        <5>2. Line(d + 1) = Flushed[Len(calls) + 1] /\ Flushed[Len(calls) + 1].kind = "call"
          BY <2>2, <5>1, FlushedCalls DEF Follow
        <5>. QED BY <1>0, <2>5, <5>2
      <4>2. Follow(d - 1)' /\ d - 1 \in Nat
        <5>1. d - 1 \in Nat /\ (d - 1) + Left' <= Size'
          BY <1>0, <2>2, <2>3, <3>1, <4>1 DEF Follow
        <5>2. \A j \in 1 .. Size' : Line(j)'.kind = "call" => d - 1 < j /\ j <= d - 1 + Left'
          BY <1>0, <1>1, <2>2, <2>3, <3>1, <4>1 DEF Follow
        <5>3. \A i \in 1 .. Left' : Line(d - 1 + i)' = Flushed'[Len(calls') + i]
          <6>. SUFFICES ASSUME NEW i \in 1 .. Left PROVE Line(d - 1 + i)' = Flushed[Len(calls) + i]
            BY <2>1, <3>1
          <6>1. d - 1 + i \in 1 .. Size' /\ (d - 1 + i) + 1 = d + i
            BY <1>0, <2>3, <3>1, <5>1
          <6>2. Line(d - 1 + i)' = Line(d + i)
            BY <1>1, <6>1
          <6>. QED BY <2>2, <6>2 DEF Follow
        <5>. QED BY <5>1, <5>2, <5>3 DEF Follow
      <4>. QED BY <1>3, <2>1, <3>1, <4>2 DEF Together
    <3>. QED BY <2>3, <3>2, <3>3
  <2>. QED BY <2>4, <2>5
<1>. QED BY <1>2, <1>3

(* finish_reason "tool_calls": all calls join the line at once. *)
LEMMA LineFlushed ==
    ASSUME SseTypeOK, LineTypes, NoneYet, UNCHANGED <<chunks, calls, pending>>,
           stage' = "tool_calls", prod.todo = <<>>,
           NEW rest \in Seq(Chunk), \A i \in 1 .. Len(rest) : rest[i].kind # "call",
           prod'.todo = Flushed \o rest
    PROVE  Together'
<1>. DEFINE n == Cardinality(Known)
<1>1. /\ n \in Nat /\ Len(Flushed) = n /\ Flushed \in Seq(Chunk)
      /\ UNCHANGED <<Flushed, Cardinality(Known)>>
  BY FlushedCalls, SameFlush
<1>. HIDE DEF n
<1>2. /\ Len(prod'.todo) = n + Len(rest)
      /\ \A i \in 1 .. n : prod'.todo[i] = Flushed[i]
      /\ \A i \in 1 .. Len(rest) : prod'.todo[n + i] = rest[i]
  <2>1. ASSUME NEW F \in Seq(Chunk), NEW i \in 1 .. Len(F) + Len(rest)
        PROVE  (F \o rest)[i] = IF i <= Len(F) THEN F[i] ELSE rest[i - Len(F)]
    OBVIOUS
  <2>2. Len(Flushed \o rest) = n + Len(rest)
    <3>1. ASSUME NEW F \in Seq(Chunk) PROVE Len(F \o rest) = Len(F) + Len(rest)
      OBVIOUS
    <3>. QED BY <1>1, <3>1
  <2>3. \A i \in 1 .. n : (Flushed \o rest)[i] = Flushed[i]
    BY <1>1, <2>1
  <2>4. ASSUME NEW i \in 1 .. Len(rest) PROVE (Flushed \o rest)[n + i] = rest[i]
    <3>1. n + i \in 1 .. n + Len(rest) /\ ~(n + i <= n) /\ (n + i) - n = i
      BY <1>1
    <3>. QED BY <1>1, <2>1, <3>1
  <2>. QED BY <2>2, <2>3, <2>4
<1>3. Len(chunks) \in Nat /\ Len(rest) \in Nat /\ Size = Len(chunks) /\ Size' = Len(chunks) + n + Len(rest)
  BY <1>1, <1>2 DEF LineTypes, Size
<1>4. \A j \in 1 .. Len(chunks) : Line(j)' = Line(j) /\ Line(j).kind # "call"
  BY <1>3 DEF Line, NoneYet, LineTypes
<1>5. \A i \in 1 .. n : Line(Len(chunks) + i)' = Flushed[i]
  BY <1>1, <1>2, <1>3 DEF Line
<1>6. ASSUME NEW j \in 1 .. Size', j > Len(chunks) + n PROVE Line(j)'.kind # "call"
  <2>1. ASSUME NEW c \in Nat, NEW r \in Nat, NEW k \in 1 .. c + n + r, k > c + n
        PROVE  ~(k <= c) /\ \E i \in 1 .. r : n + i = k - c
    <3>1. k - c - n \in 1 .. r /\ n + (k - c - n) = k - c
      BY <1>1, <2>1
    <3>. QED BY <1>1, <2>1, <3>1
  <2>2. PICK i \in 1 .. Len(rest) : n + i = j - Len(chunks)
    BY <1>3, <1>6, <2>1
  <2>3. Line(j)' = prod'.todo[j - Len(chunks)]
    <3>1. ~(j <= Len(chunks))
      BY <1>3, <1>6, <2>1
    <3>. QED BY <3>1 DEF Line
  <2>. QED BY <1>2, <2>2, <2>3
<1>7. Left' = n /\ Len(calls') = 0
  BY <1>1 DEF Left, NoneYet, n
<1>8. Follow(Len(chunks))'
  <2>1. \A j \in 1 .. Size' : Line(j)'.kind = "call" => Len(chunks) < j /\ j <= Len(chunks) + n
    <3>. SUFFICES ASSUME NEW j \in 1 .. Size', Line(j)'.kind = "call"
                  PROVE  Len(chunks) < j /\ j <= Len(chunks) + n
      OBVIOUS
    <3>1. CASE j <= Len(chunks)
      BY <1>3, <1>4, <3>1
    <3>2. ~(j > Len(chunks) + n)
      BY <1>6
    <3>. QED BY <1>1, <1>3, <3>1, <3>2
  <2>2. \A i \in 1 .. n : Line(Len(chunks) + i)' = Flushed'[0 + i]
    BY <1>1, <1>5
  <2>. QED BY <1>1, <1>3, <1>7, <2>1, <2>2 DEF Follow
<1>9. \A i \in 1 .. Len(calls') : calls'[i] = Flushed'[i]
  BY <1>7
<1>. QED BY <1>1, <1>3, <1>7, <1>8, <1>9 DEF Together

-----------------------------------------------------------------------------
(* Types *)

LEMMA PlainChunks ==
    /\ \A k \in {"text", "blank", "done", "error"} : Plain(k) \in Chunk /\ Plain(k).kind = k
    /\ Nothing \in Chunk /\ Nothing.kind = "blank"
BY DEF Plain, Nothing, Chunk

(* What readStream yields at an event, except where it flushes. *)
PlainLists == {<<>>, <<Plain("text")>>, <<Nothing>>, <<Plain("done")>>, <<Plain("error")>>}

LEMMA PlainListsType ==
    ASSUME NEW new \in PlainLists
    PROVE  /\ new \in Seq(Chunk) /\ Len(new) \in {0, 1}
           /\ \A i \in 1 .. Len(new) : new[i].kind # "call"
<1>1. ASSUME NEW c \in Chunk, c.kind # "call"
      PROVE  <<c>> \in Seq(Chunk) /\ Len(<<c>>) = 1 /\ \A i \in 1 .. 1 : <<c>>[i].kind # "call"
  BY <1>1
<1>2. new = <<>> \/ \E c \in Chunk : c.kind # "call" /\ new = <<c>>
  BY PlainChunks DEF PlainLists
<1>3. CASE new = <<>>
  BY <1>3
<1>4. ASSUME NEW c \in Chunk, c.kind # "call", new = <<c>>
      PROVE  /\ new \in Seq(Chunk) /\ Len(new) \in {0, 1}
             /\ \A i \in 1 .. Len(new) : new[i].kind # "call"
  <2>1. new \in Seq(Chunk) /\ Len(new) = 1 /\ \A i \in 1 .. 1 : new[i].kind # "call"
    BY <1>1, <1>4
  <2>. QED BY <2>1
<1>. QED BY <1>2, <1>3, <1>4

LEMMA Yielded ==
    ASSUME NEW new \in Seq(Chunk), NEW ends \in BOOLEAN, Yield(new, ends)
    PROVE  prod' \in [todo : Seq(Chunk), ends : BOOLEAN] /\ prod'.todo = new
BY DEF Yield

LEMMA ReadsPlain ==
    ASSUME ReadBroken \/ Text \/ Malformed \/ Over \/ \E c \in Indices : Fragment(c)
    PROVE  /\ prod' \in [todo : Seq(Chunk), ends : BOOLEAN]
           /\ prod'.todo \in PlainLists
<1>1. PICK new \in PlainLists, ends \in BOOLEAN : Yield(new, ends)
  BY DEF ReadBroken, Text, Malformed, Over, Fragment, PlainLists
<1>. QED BY <1>1, PlainListsType, Yielded

(* finish_reason: the calls, if there are any, and the end. *)
LEMMA FinishYields ==
    ASSUME SseTypeOK, NEW reason \in {"tool_calls", "stop"}, Finish(reason)
    PROVE  /\ prod' \in [todo : Seq(Chunk), ends : BOOLEAN]
           /\ \E rest \in PlainLists :
                 \/ prod'.todo = rest
                 \/ reason = "tool_calls" /\ prod'.todo = Flushed \o rest
<1>1. PICK rest \in PlainLists :
         \/ Yield(rest, FALSE)
         \/ Yield((IF reason = "tool_calls" THEN Flushed ELSE <<>>) \o rest, FALSE)
  BY DEF Finish, PlainLists
<1>2. rest \in Seq(Chunk) /\ Flushed \in Seq(Chunk)
  BY PlainListsType, FlushedCalls
<1>3. \A f \in Seq(Chunk) : f \o rest \in Seq(Chunk) /\ <<>> \o rest = rest
  BY <1>2
<1>. QED BY <1>1, <1>2, <1>3, Yielded

LEMMA ReadTypes ==
    ASSUME SseTypeOK, pending = sent, ReadEvent \/ ReadBroken
    PROVE  SseTypeOK'
<1>1. CASE ReadBroken
  <2>1. prod' \in [todo : Seq(Chunk), ends : BOOLEAN]
    BY <1>1, ReadsPlain
  <2>. QED BY <1>1, <2>1 DEF ReadBroken, serverVars, turnVars, SseTypeOK
<1>2. CASE ReadEvent
  <2>1. UNCHANGED <<flavour, watch, body, chunks, closed, turn, held, calls, events, stopped>>
    BY <1>2 DEF ReadEvent, turnVars
  <2>2. ASSUME prod' \in [todo : Seq(Chunk), ends : BOOLEAN],
               stage' \in {"open", "tool_calls", "stop", "over"},
               spoken' \in 0 .. MaxText,
               sent' \in [Indices -> NoArgs .. MaxFragments],
               pending' \in [Indices -> NoArgs .. MaxFragments]
        PROVE  SseTypeOK'
    BY <2>1, <2>2 DEF SseTypeOK
  <2>3. CASE Text \/ Malformed
    <3>1. prod' \in [todo : Seq(Chunk), ends : BOOLEAN]
      BY <2>3, ReadsPlain
    <3>2. spoken' \in 0 .. MaxText
      <4>1. spoken < MaxText /\ spoken' = spoken + 1
        BY <2>3 DEF Text, Malformed
      <4>2. spoken \in 0 .. MaxText
        BY DEF SseTypeOK
      <4>. QED BY <4>1, <4>2, SseAssumption
    <3>. QED BY <2>2, <2>3, <3>1, <3>2 DEF Text, Malformed, SseTypeOK
  <2>4. ASSUME NEW c \in Indices, Fragment(c) PROVE SseTypeOK'
    <3>1. prod' \in [todo : Seq(Chunk), ends : BOOLEAN]
      BY <2>4, ReadsPlain
    <3>2. sent[c] + 1 \in NoArgs .. MaxFragments
      BY <2>4, SseAssumption DEF Fragment, SseTypeOK, NoArgs
    <3>3. sent' \in [Indices -> NoArgs .. MaxFragments]
      BY <2>4, <3>2 DEF Fragment, SseTypeOK
    <3>4. pending' \in [Indices -> NoArgs .. MaxFragments]
      BY <2>4, <3>2 DEF Fragment, SseTypeOK
    <3>. QED BY <2>2, <2>4, <3>1, <3>3, <3>4 DEF Fragment, SseTypeOK
  <2>5. ASSUME NEW reason \in {"tool_calls", "stop"}, Finish(reason) PROVE SseTypeOK'
    <3>1. prod' \in [todo : Seq(Chunk), ends : BOOLEAN]
      BY <2>5, FinishYields
    <3>. QED BY <2>2, <2>5, <3>1 DEF Finish, SseTypeOK
  <2>6. CASE Over
    <3>1. prod' \in [todo : Seq(Chunk), ends : BOOLEAN]
      BY <2>6, ReadsPlain
    <3>. QED BY <2>2, <2>6, <3>1 DEF Over, SseTypeOK
  <2>. QED BY <1>2, <2>3, <2>4, <2>5, <2>6 DEF ReadEvent
<1>. QED BY <1>1, <1>2

LEMMA PushTypes ==
    ASSUME SseTypeOK, Push
    PROVE  /\ SseTypeOK'
           /\ prod'.todo = Tail(prod.todo)
           /\ chunks' = Append(chunks, Head(prod.todo))
<1>1. prod = [todo |-> prod.todo, ends |-> prod.ends] /\ prod.todo \in Seq(Chunk) /\ prod.ends \in BOOLEAN
  BY DEF SseTypeOK
<1>2. prod' = [todo |-> Tail(prod.todo), ends |-> prod.ends]
  BY <1>1 DEF Push
<1>3. Head(prod.todo) \in Chunk /\ Tail(prod.todo) \in Seq(Chunk)
  BY <1>1 DEF Push
<1>4. chunks' \in Seq(Chunk) /\ Len(chunks') <= ChunkCap
  BY <1>3, SseAssumption DEF Push, SseTypeOK
<1>5. prod' \in [todo : Seq(Chunk), ends : BOOLEAN] /\ prod'.todo = Tail(prod.todo)
  BY <1>1, <1>2, <1>3
<1>. QED BY <1>4, <1>5 DEF Push, serverVars, turnVars, SseTypeOK

LEMMA TurnTypes ==
    ASSUME SseTypeOK, Receive \/ SendEvent \/ RangeEnds \/ ReaderTakes \/ ReaderCancels
    PROVE  SseTypeOK'
<1>1. CASE Receive
  <2>1. Head(chunks) \in Chunk /\ Tail(chunks) \in Seq(Chunk) /\ Len(Tail(chunks)) <= ChunkCap
    BY <1>1, SseAssumption DEF Receive, SseTypeOK
  <2>2. calls' \in Seq(Chunk)
    <3>1. calls' = calls \/ calls' = Append(calls, Head(chunks))
      BY <1>1 DEF Receive
    <3>2. calls \in Seq(Chunk)
      BY DEF SseTypeOK
    <3>. QED BY <2>1, <3>1, <3>2
  <2>3. turn' \in {"receiving", "sending", "final", "failed"}
    BY <1>1 DEF Receive, Handled
  <2>. QED BY <1>1, <2>1, <2>2, <2>3 DEF Receive, serverVars, SseTypeOK
<1>2. CASE SendEvent
  <2>1. turn' \in {"receiving", "final", "failed"}
    BY <1>2 DEF SendEvent, Handled
  <2>2. events' \in 0 .. EventCap
    BY <1>2, SseAssumption DEF SendEvent, SseTypeOK
  <2>. QED BY <1>2, <2>1, <2>2 DEF SendEvent, serverVars, SseTypeOK
<1>3. CASE RangeEnds
  BY <1>3 DEF RangeEnds, serverVars, SseTypeOK
<1>4. CASE ReaderTakes
  <2>1. events' \in 0 .. EventCap
    BY <1>4, SseAssumption DEF ReaderTakes, SseTypeOK
  <2>. QED BY <1>4, <2>1 DEF ReaderTakes, serverVars, SseTypeOK
<1>5. CASE ReaderCancels
  BY <1>5 DEF ReaderCancels, serverVars, turnVars, SseTypeOK
<1>. QED BY <1>1, <1>2, <1>3, <1>4, <1>5

LEMMA StreamTypes ==
    ASSUME SseTypeOK, StreamCloses \/ IdleFires \/ CancelSeen \/ RequestFails \/ StreamBegins
    PROVE  SseTypeOK'
<1>1. CASE StreamBegins
  <2>1. prod' \in [todo : Seq(Chunk), ends : BOOLEAN]
    BY <1>1 DEF StreamBegins
  <2>. QED BY <1>1, <2>1 DEF StreamBegins, serverVars, SseTypeOK
<1>2. CASE StreamCloses \/ IdleFires \/ CancelSeen \/ RequestFails
  BY <1>2 DEF StreamCloses, IdleFires, CancelSeen, RequestFails, serverVars, turnVars, SseTypeOK
<1>. QED BY <1>1, <1>2

-----------------------------------------------------------------------------
(* The invariant *)

LEMMA SseLine == SseTypeOK => LineTypes
BY DEF SseTypeOK, LineTypes

(* readStream has nothing left to send and reads on: what it then yields   *)
(* comes after what is in the channel. *)
LEMMA YieldsPlain ==
    ASSUME SseInv, SseTypeOK', Reading, turn # "failed",
           NEW new \in Seq(Chunk), \A i \in 1 .. Len(new) : new[i].kind # "call",
           prod'.todo = new, UNCHANGED <<chunks, calls, pending>>,
           stage' = stage \/ stage' = "over"
    PROVE  NoneYet' \/ Together'
<1>1. LineTypes /\ LineTypes'
  BY SseLine DEF SseInv, SseTypeOK, LineTypes
<1>2. Size = Len(chunks) /\ Size' = Len(chunks) + Len(new) /\ Len(chunks) \in Nat /\ Len(new) \in Nat
  BY <1>1 DEF Reading, Size, LineTypes
<1>3. \A j \in 1 .. Size : Line(j)' = Line(j)
  BY <1>2 DEF Line
<1>4. ASSUME NEW j \in 1 .. Size', j > Size PROVE Line(j)'.kind # "call"
  <2>1. Line(j)' = new[j - Len(chunks)]
    <3>1. ~(j <= Len(chunks))
      BY <1>2, <1>4
    <3>. QED BY <3>1 DEF Line
  <2>2. j - Len(chunks) \in 1 .. Len(new)
    BY <1>2, <1>4
  <2>. QED BY <2>1, <2>2
<1>. QED BY <1>1, <1>2, <1>3, <1>4, LineGrows DEF SseInv

LEMMA ReadKeeps ==
    ASSUME SseInv, ReadEvent \/ ReadBroken
    PROVE  SseInv'
<1>1. SseTypeOK /\ SseTypeOK'
  BY ReadTypes DEF SseInv
<1>2. /\ Reading
      /\ UNCHANGED <<chunks, closed, turn, calls>>
  BY DEF ReadEvent, ReadBroken, turnVars
<1>3. pending' = sent'
  <2>1. CASE ReadBroken
    BY <2>1 DEF ReadBroken, serverVars, SseInv
  <2>2. ASSUME NEW c \in Indices, Fragment(c) PROVE pending' = sent'
    BY <2>2 DEF Fragment, SseInv
  <2>3. CASE UNCHANGED <<sent, pending>>
    BY <2>3 DEF SseInv
  <2>. QED BY <2>1, <2>2, <2>3 DEF ReadEvent, Text, Malformed, Finish, Over
<1>4. ASSUME turn # "failed" PROVE NoneYet' \/ Together'
  <2>1. CASE ReadBroken \/ Text \/ Malformed \/ Over
    <3>1. UNCHANGED pending /\ (stage' = stage \/ stage' = "over")
      BY <2>1 DEF ReadBroken, Text, Malformed, Over, serverVars
    <3>2. prod'.todo \in PlainLists
      BY <2>1, ReadsPlain
    <3>3. prod'.todo \in Seq(Chunk) /\ \A i \in 1 .. Len(prod'.todo) : prod'.todo[i].kind # "call"
      BY <3>2, PlainListsType
    <3>. QED BY <1>1, <1>2, <1>4, <3>1, <3>3, YieldsPlain
  <2>4. ASSUME NEW c \in Indices, Fragment(c) PROVE NoneYet'
    <3>1. NoneYet /\ prod.todo = <<>>
      BY <1>2, <1>4, <2>4 DEF Fragment, SseInv, Together, Reading
    <3>2. prod'.todo \in PlainLists /\ Len(prod'.todo) \in {0, 1}
      BY <2>4, ReadsPlain, PlainListsType
    <3>3. Len(chunks) \in Nat /\ Size = Len(chunks) /\ Size' = Len(chunks) + Len(prod'.todo)
      BY <1>1, <1>2, <3>1 DEF Size, SseTypeOK
    <3>4. ASSUME NEW j \in 1 .. Size' PROVE Line(j)'.kind # "call"
      <4>1. CASE j <= Len(chunks)
        <5>1. Line(j)' = Line(j)
          BY <1>2, <4>1 DEF Line
        <5>. QED BY <3>1, <3>3, <4>1, <5>1 DEF NoneYet
      <4>2. CASE j > Len(chunks)
        <5>1. Line(j)' = prod'.todo[j - Len(chunks)]
          <6>1. ~(j <= Len(chunks))
            BY <3>2, <3>3, <4>2
          <6>. QED BY <1>2, <6>1 DEF Line
        <5>2. j - Len(chunks) \in 1 .. Len(prod'.todo)
          BY <3>2, <3>3, <4>2
        <5>. QED BY <3>2, <5>1, <5>2, PlainListsType
      <4>. QED BY <3>2, <3>3, <4>1, <4>2
    <3>. QED BY <1>2, <3>1, <3>4 DEF NoneYet
  <2>5. ASSUME NEW reason \in {"tool_calls", "stop"}, Finish(reason)
        PROVE  NoneYet' \/ Together'
    <3>1. NoneYet /\ prod.todo = <<>> /\ UNCHANGED pending
      BY <1>2, <1>4, <2>5 DEF Finish, SseInv, Together, Reading
    <3>2. PICK rest \in PlainLists :
             prod'.todo = rest \/ (reason = "tool_calls" /\ prod'.todo = Flushed \o rest)
      BY <1>1, <2>5, FinishYields
    <3>3. rest \in Seq(Chunk) /\ \A i \in 1 .. Len(rest) : rest[i].kind # "call"
      BY PlainListsType
    <3>4. CASE prod'.todo = rest
      <4>1. LineTypes /\ LineTypes' /\ Len(chunks) \in Nat /\ Len(rest) \in Nat
        BY <1>1, <3>3, SseLine DEF SseTypeOK, LineTypes
      <4>2. Size = Len(chunks) /\ Size' = Len(chunks) + Len(rest)
        BY <1>2, <3>1, <3>4 DEF Size
      <4>3. ASSUME NEW j \in 1 .. Size' PROVE Line(j)'.kind # "call"
        <5>1. CASE j <= Len(chunks)
          <6>1. Line(j)' = Line(j)
            BY <1>2, <5>1 DEF Line
          <6>. QED BY <3>1, <4>1, <4>2, <5>1, <6>1 DEF NoneYet
        <5>2. CASE ~(j <= Len(chunks))
          <6>1. Line(j)' = rest[j - Len(chunks)] /\ j - Len(chunks) \in 1 .. Len(rest)
            BY <1>2, <3>4, <4>1, <4>2, <5>2 DEF Line
          <6>. QED BY <3>3, <6>1
        <5>. QED BY <5>1, <5>2
      <4>. QED BY <1>2, <3>1, <4>3 DEF NoneYet
    <3>5. CASE reason = "tool_calls" /\ prod'.todo = Flushed \o rest
      <4>1. stage' = "tool_calls"
        BY <2>5, <3>5 DEF Finish
      <4>. QED BY <1>1, <1>2, <3>1, <3>3, <3>5, <4>1, LineFlushed, SseLine
    <3>. QED BY <3>2, <3>4, <3>5
  <2>. QED BY <2>1, <2>4, <2>5 DEF ReadEvent
<1>5. turn # "asking" /\ ~closed
  BY <1>2 DEF Reading
<1>. QED BY <1>1, <1>2, <1>3, <1>4, <1>5 DEF SseInv

LEMMA PushKeeps ==
    ASSUME SseInv, Push
    PROVE  SseInv'
<1>1. SseTypeOK /\ LineTypes /\ SseTypeOK' /\ LineTypes'
  BY PushTypes, SseLine DEF SseInv, SseTypeOK, LineTypes
<1>2. /\ prod.todo # <<>> /\ prod'.todo = Tail(prod.todo)
      /\ chunks' = Append(chunks, Head(prod.todo))
  BY <1>1, PushTypes DEF Push
<1>3. UNCHANGED <<stage, sent, pending, closed, turn, calls>>
  BY DEF Push, serverVars, turnVars
<1>4. Size' = Size /\ Size \in Nat
  <2>1. Len(prod'.todo) = Len(prod.todo) - 1 /\ Len(chunks') = Len(chunks) + 1
    BY <1>1, <1>2 DEF LineTypes
  <2>2. Len(prod.todo) \in Nat /\ Len(chunks) \in Nat
    BY <1>1 DEF LineTypes
  <2>3. \A a, b \in Nat : (a + 1) + (b - 1) = a + b
    OBVIOUS
  <2>4. Size' = Len(chunks') + Len(prod'.todo) /\ Size = Len(chunks) + Len(prod.todo)
    BY DEF Size
  <2>5. Size' = (Len(chunks) + 1) + (Len(prod.todo) - 1)
    BY <2>1, <2>4
  <2>6. Size \in Nat
    BY <2>2, <2>4
  <2>. QED BY <2>2, <2>3, <2>4, <2>5, <2>6
<1>5. ASSUME NEW j \in 1 .. Size PROVE Line(j)' = Line(j)
  <2>1. /\ Len(chunks) \in Nat /\ Len(prod.todo) \in Nat /\ Len(chunks') = Len(chunks) + 1
        /\ Size = Len(chunks) + Len(prod.todo)
    BY <1>1, <1>2 DEF LineTypes, Size
  <2>2. CASE j <= Len(chunks)
    <3>1. chunks'[j] = chunks[j] /\ j <= Len(chunks')
      BY <1>1, <1>2, <2>1, <2>2 DEF LineTypes
    <3>. QED BY <2>2, <3>1 DEF Line
  <2>3. CASE j = Len(chunks) + 1
    <3>1. chunks'[j] = Head(prod.todo) /\ j <= Len(chunks') /\ ~(j <= Len(chunks))
      BY <1>1, <1>2, <2>1, <2>3 DEF LineTypes
    <3>2. j - Len(chunks) = 1
      BY <2>1, <2>3
    <3>3. Head(prod.todo) = prod.todo[1]
      BY <1>1, <1>2 DEF LineTypes
    <3>. QED BY <3>1, <3>2, <3>3 DEF Line
  <2>4. CASE j > Len(chunks) + 1
    <3>1. ~(j <= Len(chunks)) /\ ~(j <= Len(chunks'))
      BY <2>1, <2>4
    <3>2. /\ (j - Len(chunks')) + 1 = j - Len(chunks)
          /\ j - Len(chunks') \in 1 .. Len(prod.todo) - 1
      BY <2>1, <2>4
    <3>3. \A i \in 1 .. Len(prod.todo) - 1 : Tail(prod.todo)[i] = prod.todo[i + 1]
      BY <1>1, <1>2 DEF LineTypes
    <3>4. prod'.todo[j - Len(chunks')] = prod.todo[j - Len(chunks)]
      BY <1>2, <3>2, <3>3
    <3>. QED BY <3>1, <3>4 DEF Line
  <2>. QED BY <2>1, <2>2, <2>3, <2>4
<1>6. ASSUME turn # "failed" PROVE NoneYet' \/ Together'
  BY <1>1, <1>3, <1>4, <1>5, <1>6, LineGrows DEF SseInv
<1>7. ~closed
  BY <1>2 DEF SseInv
<1>. QED BY <1>1, <1>2, <1>3, <1>6, <1>7 DEF SseInv

LEMMA ReceiveKeeps ==
    ASSUME SseInv, Receive
    PROVE  SseInv'
<1>1. SseTypeOK /\ LineTypes /\ SseTypeOK' /\ LineTypes'
  BY TurnTypes, SseLine DEF SseInv, SseTypeOK, LineTypes
<1>2. /\ turn = "receiving" /\ chunks # <<>> /\ chunks' = Tail(chunks)
      /\ UNCHANGED <<stage, sent, pending, prod, closed>>
  BY DEF Receive, serverVars
<1>3. turn' \in {"receiving", "sending", "final", "failed"}
  BY DEF Receive, Handled
<1>4. ASSUME turn' # "failed" PROVE NoneYet' \/ Together'
  <2>1. calls' = IF Head(chunks).kind = "call" THEN Append(calls, Head(chunks)) ELSE calls
    BY <1>4 DEF Receive
  <2>. QED BY <1>1, <1>2, <2>1, LineMoves DEF SseInv
<1>. QED BY <1>1, <1>2, <1>3, <1>4 DEF SseInv

(* The other steps leave the line as it is. *)
LEMMA LineRests ==
    ASSUME SseInv, SseTypeOK', prod'.todo = prod.todo,
           UNCHANGED <<stage, sent, pending, chunks, calls>>,
           turn' = turn \/ turn' \notin {"asking", "tools"} \/ RangeEnds,
           turn = "failed" => turn' = "failed",
           closed' = closed \/ (closed' /\ prod.todo = <<>>)
    PROVE  SseInv'
<1>1. LineTypes /\ LineTypes'
  BY SseLine DEF SseInv, SseTypeOK, LineTypes
<1>2. UNCHANGED Size /\ Size \in Nat
  BY <1>1 DEF Size, LineTypes
<1>3. \A j \in 1 .. Size : Line(j)' = Line(j)
  BY DEF Line
<1>4. ASSUME turn # "failed" PROVE NoneYet' \/ Together'
  BY <1>1, <1>2, <1>3, <1>4, LineGrows DEF SseInv
<1>5. turn' = "tools" => closed' /\ chunks' = <<>> /\ calls' # <<>>
  BY DEF SseInv, RangeEnds
<1>6. turn' = "asking" => turn = "asking"
  BY DEF RangeEnds
<1>. QED BY <1>4, <1>5, <1>6 DEF SseInv

LEMMA OthersKeepSse ==
    ASSUME SseInv,
           \/ SendEvent \/ RangeEnds \/ ReaderTakes \/ ReaderCancels
           \/ StreamCloses \/ IdleFires \/ CancelSeen \/ RequestFails \/ StreamBegins
    PROVE  SseInv'
<1>1. SseTypeOK'
  BY TurnTypes, StreamTypes DEF SseInv
<1>2. UNCHANGED <<stage, sent, pending, chunks, calls>>
  BY DEF SendEvent, RangeEnds, ReaderTakes, ReaderCancels, StreamCloses, IdleFires, CancelSeen,
     RequestFails, StreamBegins, serverVars, turnVars
<1>3. CASE SendEvent \/ RangeEnds \/ ReaderTakes \/ ReaderCancels \/ RequestFails
  BY <1>1, <1>2, <1>3, LineRests DEF SendEvent, RangeEnds, ReaderTakes, ReaderCancels,
     RequestFails, Handled, turnVars
<1>4. CASE IdleFires \/ CancelSeen
  BY <1>1, <1>2, <1>4, LineRests DEF IdleFires, CancelSeen, turnVars
<1>5. CASE StreamCloses
  BY <1>1, <1>2, <1>5, LineRests DEF StreamCloses, turnVars
<1>6. CASE StreamBegins
  <2>1. turn = "asking" /\ turn' = "receiving" /\ ~closed' /\ prod'.todo = <<>>
    BY <1>6 DEF StreamBegins
  <2>2. LineTypes /\ LineTypes'
    BY <1>1, SseLine DEF SseInv, SseTypeOK, LineTypes
  <2>3. chunks' = <<>> /\ calls' = <<>>
    BY <1>2, <2>1 DEF SseInv
  <2>4. NoneYet'
    BY <2>1, <2>3 DEF NoneYet, Size
  <2>. QED BY <1>1, <1>2, <2>1, <2>4 DEF SseInv
<1>. QED BY <1>3, <1>4, <1>5, <1>6

LEMMA SseInitInv ==
    ASSUME NEW where \in {"asking", "failed"}, flavour \in {"openai", "anthropic"}, SseRest(where)
    PROVE  SseInv
<1>1. /\ prod = [todo |-> <<>>, ends |-> TRUE] /\ chunks = <<>> /\ calls = <<>>
      /\ turn \in {"asking", "failed"} /\ stage = "open" /\ pending = sent /\ closed
  BY DEF SseRest
<1>2. SseTypeOK
  <2>1. prod \in [todo : Seq(Chunk), ends : BOOLEAN]
    BY <1>1
  <2>2. sent \in [Indices -> NoArgs .. MaxFragments]
    BY SseAssumption DEF SseRest, NoArgs
  <2>3. spoken \in 0 .. MaxText /\ events \in 0 .. EventCap
    BY SseAssumption DEF SseRest
  <2>4. Len(chunks) <= ChunkCap /\ chunks \in Seq(Chunk) /\ calls \in Seq(Chunk)
    BY <1>1, SseAssumption
  <2>5. held \in Chunk
    BY PlainChunks DEF SseRest
  <2>. QED BY <1>1, <2>1, <2>2, <2>3, <2>4, <2>5 DEF SseRest, SseTypeOK
<1>3. NoneYet
  BY <1>1 DEF NoneYet, Size
<1>. QED BY <1>1, <1>2, <1>3 DEF SseInv

LEMMA SseStepInv == SseInv /\ [SseNext]_sseVars => SseInv'
<1>. SUFFICES ASSUME SseInv, [SseNext]_sseVars PROVE SseInv'
  OBVIOUS
<1>1. CASE UNCHANGED sseVars
  <2>1. SseTypeOK'
    BY <1>1 DEF sseVars, SseInv, SseTypeOK
  <2>. QED BY <1>1, <2>1, LineRests DEF sseVars
<1>. QED BY <1>1, ReadKeeps, PushKeeps, ReceiveKeeps, OthersKeepSse DEF SseNext

(* The invariant: the calls are flushed together, and what has reached the *)
(* turn is always the first part of them. *)
THEOREM StreamInvariant == SseSpec => []SseInv
<1>1. SseInit => SseInv
  BY SseInitInv DEF SseInit
<1>. QED BY <1>1, SseStepInv, PTL DEF SseSpec

(* The turn executes every call that the model made, once, in order and    *)
(* with all its arguments, or none of them: for any number of calls and    *)
(* fragments, any capacity of the channel, and wherever the stream breaks. *)
THEOREM CallsNeverCut == SseSpec => []CallsAreWhole
<1>1. SseInv => CallsAreWhole
  <2>. SUFFICES ASSUME SseInv, turn = "tools"
                PROVE  /\ stage \in {"tool_calls", "over"}
                       /\ {calls[i].idx : i \in DOMAIN calls} = {c \in Indices : sent[c] # NoArgs}
                       /\ \A i, j \in DOMAIN calls : i < j => calls[i].idx < calls[j].idx
                       /\ \A i \in DOMAIN calls : calls[i].args = sent[calls[i].idx]
    BY DEF CallsAreWhole
  <2>1. SseTypeOK /\ Together /\ Size = 0
    BY DEF SseInv, NoneYet, Size
  <2>. DEFINE n == Cardinality(Known)
  <2>2. n \in Nat /\ Len(calls) \in Nat /\ DOMAIN calls = 1 .. Len(calls)
    BY <2>1, FlushedCalls DEF SseTypeOK
  <2>3. Len(calls) = n
    BY <2>1, <2>2 DEF Together, Follow, Left
  <2>4. \A i \in 1 .. n : calls[i] = Flushed[i]
    BY <2>1, <2>3 DEF Together
  <2>5. Known = {c \in Indices : sent[c] # NoArgs}
    BY DEF SseInv, Known
  <2>6. {calls[i].idx : i \in DOMAIN calls} = Known
    BY <2>1, <2>2, <2>3, <2>4, FlushedCalls
  <2>7. \A i, j \in 1 .. n : i < j => calls[i].idx < calls[j].idx
    BY <2>1, <2>4, FlushedCalls
  <2>8. \A i \in 1 .. n : calls[i].args = sent[calls[i].idx]
    BY <2>1, <2>4, FlushedCalls DEF SseInv
  <2>. QED BY <2>1, <2>2, <2>3, <2>5, <2>6, <2>7, <2>8 DEF Together
<1>. QED BY <1>1, StreamInvariant, PTL

-----------------------------------------------------------------------------
(***************************************************************************)
(* Proofs about a delegated task, for any number of events and any         *)
(* capacities of the two channels.                                         *)
(*                                                                         *)
(* That a success holds the whole answer needs two facts about the way     *)
(* from the sub-agent to the result: no event is lost there while the      *)
(* context lasts, and at most the last one after that (AllOnTheWay), and   *)
(* an answer that ended with an error leaves it to be taken before the     *)
(* channel is seen to be closed (EndingShows).                             *)
(***************************************************************************)

(* The buffer ends with the end of the answer, and has events before it. *)
HasEnd == sub = "ended" /\ buffer # <<>> /\ buffer[Len(buffer)] # "event"

EventsThenEnd ==
    \A i \in 1 .. Len(buffer) : buffer[i] = "event" \/ (sub = "ended" /\ i = Len(buffer))

(* Events on their way from the sub-agent into the result. *)
Queued == IF HasEnd THEN Len(buffer) - 1 ELSE Len(buffer)
InHand == IF sub = "sending" /\ item = "event" THEN 1 ELSE 0

AllOnTheWay ==
    /\ content + Queued + InHand \in {said - 1, said}
    /\ ~ContextDone \/ sub # "ended" => content + Queued + InHand = said

(* How the answer ended shows in what is still to be taken. *)
Finished == ending \in {"done", "broken"}

EndingShows ==
    /\ ending # "broken" => said <= MaxSaid
    /\ sub = "open" => ending = "none"
    /\ sub = "sending" /\ item = "event" => ending \in {"none", "broken"}
    /\ sub = "sending" /\ item = "done" => Finished
    /\ sub = "ended" /\ ~ContextDone =>
          Finished \/ (buffer # <<>> /\ buffer[Len(buffer)] = "error")

PhaseFits ==
    /\ phase \in {"launch", "url", "kill", "request"} =>
          /\ outcome = "none" /\ sub = "none" /\ ending = "none"
          /\ said = 0 /\ content = 0 /\ buffer = <<>>
    /\ phase \in {"range", "forward"} => outcome = "none"
    /\ outcome = "ok" => sub \in {"none", "ended"}

DelegationInv ==
    DelegationTypeOK /\ EventsThenEnd /\ AllOnTheWay /\ EndingShows /\ PhaseFits /\ SuccessHoldsAnswer
-----------------------------------------------------------------------------
LEMMA DelegationInitInv ==
    ASSUME NEW where \in {"launch", "request", "done"}, NEW result \in {"none", "error"},
           kind \in {"internal", "external"}, streamed \in BOOLEAN,
           where = "done" <=> result = "error", DelegationRest(where, result)
    PROVE  DelegationInv
<1>1. DelegationTypeOK /\ buffer = <<>>
  <2>1. buffer = <<>> /\ buffer \in Seq(Items) /\ Len(buffer) = 0
    BY DEF DelegationRest
  <2>2. phase \in {"launch", "request", "done"} /\ outcome \in {"none", "error"}
    BY DEF DelegationRest
  <2>3. said = 0 /\ content = 0 /\ feedLen = 0
    BY DEF DelegationRest
  <2>4. said \in 0 .. MaxSaid + 1 /\ content \in 0 .. MaxSaid + 1 /\ feedLen \in 0 .. ParentCap
    BY <2>3, DelegationAssumption
  <2>5. Len(buffer) <= SubCap
    BY <2>1, DelegationAssumption
  <2>. QED BY <2>1, <2>2, <2>4, <2>5 DEF DelegationRest, DelegationTypeOK, Items
<1>2. /\ sub = "none" /\ said = 0 /\ content = 0 /\ ending = "none"
      /\ phase \in {"launch", "request"} => outcome = "none"
      /\ phase \in {"launch", "request", "done"} /\ outcome \in {"none", "error"}
  BY DEF DelegationRest
<1>3. EventsThenEnd
  BY <1>1 DEF EventsThenEnd
<1>4. Queued = 0 /\ InHand = 0
  BY <1>1, <1>2 DEF Queued, InHand, HasEnd
<1>5. AllOnTheWay
  BY <1>2, <1>4 DEF AllOnTheWay
<1>6. EndingShows /\ PhaseFits /\ SuccessHoldsAnswer
  BY <1>1, <1>2, DelegationAssumption DEF EndingShows, PhaseFits, SuccessHoldsAnswer
<1>. QED BY <1>1, <1>3, <1>5, <1>6 DEF DelegationInv

LEMMA DelegationStarts == DelegationInit => DelegationInv
<1>. DEFINE where == IF kind = "external" THEN "launch" ELSE "request"
<1>. SUFFICES ASSUME DelegationInit PROVE DelegationInv
  OBVIOUS
<1>1. where \in {"launch", "request", "done"} /\ where # "done"
  OBVIOUS
<1>2. DelegationRest(where, "none") /\ kind \in {"internal", "external"} /\ streamed \in BOOLEAN
  BY DEF DelegationInit
<1>. QED
  <2>. HIDE DEF where
  <2>. QED BY <1>1, <1>2, DelegationInitInv

(* The invariant is about the answer, its taker and the call as a whole. *)
LEMMA AnswerUntouched ==
    ASSUME DelegationInv, UNCHANGED <<kind, sub, item, buffer, said, ending, content>>,
           ContextDone => ContextDone'
    PROVE  EventsThenEnd' /\ AllOnTheWay' /\ EndingShows'
<1>1. HasEnd' = HasEnd /\ Finished' = Finished
  BY DEF HasEnd, Finished
<1>2. Queued' = Queued /\ InHand' = InHand
  BY <1>1 DEF Queued, InHand
<1>3. EventsThenEnd'
  BY DEF DelegationInv, EventsThenEnd
<1>4. AllOnTheWay'
  BY <1>2 DEF DelegationInv, AllOnTheWay
<1>5. EndingShows'
  BY <1>1 DEF DelegationInv, EndingShows
<1>. QED BY <1>3, <1>4, <1>5

(* The process of an external agent, and the reader of the agent's channel. *)
LEMMA ProcessKeepsInv ==
    ASSUME DelegationInv, UrlFound \/ UrlTimesOut \/ ProcessDies \/ ContextKills \/ EventRead
    PROVE  DelegationInv'
<1>1. /\ UNCHANGED <<kind, sub, item, buffer, said, ending, content, outcome, lapsed>>
      /\ phase' = phase \/ (phase = "url" /\ phase' \in {"kill", "request"})
      /\ DelegationTypeOK'
  BY DelegationAssumption
  DEF UrlFound, UrlTimesOut, ProcessDies, ContextKills, EventRead, setUp, answer, DelegationInv,
      DelegationTypeOK
<1>2. EventsThenEnd' /\ AllOnTheWay' /\ EndingShows'
  BY <1>1, AnswerUntouched DEF ContextDone
<1>3. PhaseFits' /\ SuccessHoldsAnswer'
  BY <1>1 DEF DelegationInv, PhaseFits, SuccessHoldsAnswer
<1>. QED BY <1>1, <1>2, <1>3 DEF DelegationInv

(* The call goes on, returns an error, or loses its context. *)
LEMMA CallKeepsInv ==
    ASSUME DelegationInv,
           \/ Launch \/ Killed \/ RequestRefused \/ Forward \/ ResultShown
           \/ DeadlinePasses \/ UserCancels
    PROVE  DelegationInv'
<1>1. UNCHANGED <<kind, streamed, sub, item, buffer, said, ending, content>>
  BY DEF Launch, Killed, RequestRefused, Forward, ResultShown, DeadlinePasses, UserCancels, setUp,
         answer
<1>2. \/ UNCHANGED <<outcome, lapsed>>
            /\ \/ phase = "launch" /\ phase' = "url"
               \/ phase = "forward" /\ phase' = "range"
               \/ phase' \in {"done", "gone"}
      \/ outcome' = "error" /\ phase' = "result" /\ UNCHANGED lapsed
            /\ phase \in {"launch", "kill", "request", "forward"}
      \/ UNCHANGED <<outcome, phase>> /\ lapsed' \in BOOLEAN /\ (lapsed => lapsed')
            /\ (outcome = "none" \/ lapsed' = lapsed)
  <2>1. CASE Launch \/ Killed \/ RequestRefused
    BY <2>1 DEF Launch, Killed, RequestRefused, ToolReturns
  <2>2. CASE Forward
    BY <2>2 DEF Forward, ToolReturns
  <2>3. CASE ResultShown
    BY <2>3 DEF ResultShown
  <2>4. CASE DeadlinePasses \/ UserCancels
    BY <2>4 DEF DeadlinePasses, UserCancels, ContextDone, DelegationInv, DelegationTypeOK
  <2>. QED BY <2>1, <2>2, <2>3, <2>4
<1>3. EventsThenEnd' /\ AllOnTheWay' /\ EndingShows'
  <2>1. ContextDone => ContextDone'
    BY <1>2 DEF ContextDone, DelegationInv, DelegationTypeOK
  <2>. QED BY <1>1, <2>1, AnswerUntouched
<1>4. DelegationTypeOK'
  <2>1. process' \in {"none", "up", "dead", "reaped"} /\ quit' \in BOOLEAN /\ feedLen' \in 0 .. ParentCap
    <3>1. CASE Launch \/ Killed \/ RequestRefused \/ DeadlinePasses \/ UserCancels
      BY <3>1 DEF Launch, Killed, RequestRefused, DeadlinePasses, UserCancels, DelegationInv,
                  DelegationTypeOK
    <3>2. CASE Forward \/ ResultShown
      BY <3>2, DelegationAssumption DEF Forward, ResultShown, DelegationInv, DelegationTypeOK
    <3>. QED BY <3>1, <3>2
  <2>. QED BY <1>1, <1>2, <2>1 DEF DelegationInv, DelegationTypeOK
<1>5. PhaseFits' /\ SuccessHoldsAnswer'
  BY <1>1, <1>2 DEF DelegationInv, PhaseFits, SuccessHoldsAnswer, DelegationTypeOK
<1>. QED BY <1>3, <1>4, <1>5 DEF DelegationInv

LEMMA RequestKeepsInv ==
    ASSUME DelegationInv, PromptAnswered \/ StreamOpened
    PROVE  DelegationInv'
<1>1. sub = "none" /\ said = 0 /\ content = 0 /\ buffer = <<>> /\ outcome = "none"
  BY DEF PromptAnswered, StreamOpened, DelegationInv, PhaseFits
<1>2. UNCHANGED <<kind, buffer, said, content, lapsed>>
      /\ \/ sub' = "none" /\ ending' = "done" /\ outcome' = "ok" /\ phase' = "result"
         \/ sub' = "open" /\ ending' = ending /\ outcome' = "none" /\ phase' = "range"
            /\ ending = "none"
  BY <1>1 DEF PromptAnswered, StreamOpened, setUp, ToolReturns, DelegationInv, EndingShows, PhaseFits
<1>3. DelegationTypeOK'
  BY DEF PromptAnswered, StreamOpened, setUp, ToolReturns, DelegationInv, DelegationTypeOK
<1>4. EventsThenEnd' /\ Queued' = 0 /\ InHand' = 0
  BY <1>1, <1>2 DEF EventsThenEnd, Queued, InHand, HasEnd
<1>5. AllOnTheWay' /\ EndingShows' /\ PhaseFits' /\ SuccessHoldsAnswer'
  BY <1>1, <1>2, <1>4, DelegationAssumption DEF AllOnTheWay, EndingShows, PhaseFits, SuccessHoldsAnswer, Finished
<1>. QED BY <1>3, <1>4, <1>5 DEF DelegationInv

(* The end of the sub-agent's answer, or one more event of it. *)
LEMMA SaysKeepsInv ==
    ASSUME DelegationInv, SubSays
    PROVE  DelegationInv'
<1>1. /\ sub = "open" /\ sub' = "sending" /\ ending = "none"
      /\ UNCHANGED <<restOfCall, buffer>>
      /\ \/ said' = said + 1 /\ item' = "event" /\ ending' = "none" /\ said < MaxSaid
         \/ said' = said /\ item' = "done" /\ ending' = "done"
         \/ said' = said /\ item' = "error" /\ ending' = "error"
  BY DEF SubSays, DelegationInv, EndingShows
<1>2. DelegationTypeOK'
  <2>1. said' \in 0 .. MaxSaid + 1
    BY <1>1, DelegationAssumption DEF DelegationInv, DelegationTypeOK
  <2>. QED BY <1>1, <2>1 DEF DelegationInv, DelegationTypeOK, restOfCall, setUp, Items
<1>3. EventsThenEnd'
  BY <1>1 DEF DelegationInv, EventsThenEnd
<1>4. AllOnTheWay'
  <2>1. Queued' = Queued /\ InHand = 0 /\ InHand' = said' - said
    BY <1>1 DEF Queued, HasEnd, InHand, DelegationInv, DelegationTypeOK
  <2>2. Queued \in Int
    BY DEF Queued, DelegationInv, DelegationTypeOK
  <2>. QED BY <1>1, <2>1, <2>2
       DEF DelegationInv, AllOnTheWay, restOfCall, setUp, ContextDone, DelegationTypeOK
<1>5. EndingShows' /\ PhaseFits' /\ SuccessHoldsAnswer'
  BY <1>1, DelegationAssumption
  DEF DelegationInv, EndingShows, PhaseFits, SuccessHoldsAnswer, restOfCall, setUp, ContextDone,
      Finished, DelegationTypeOK
<1>. QED BY <1>2, <1>3, <1>4, <1>5 DEF DelegationInv

(* The channel with one item more, and closed if that is not an event. *)
LEMMA AppendedKeepsInv ==
    ASSUME DelegationInv, NEW i \in Items, buffer' = Append(buffer, i), Len(buffer) < SubCap,
           sub \in {"open", "sending"}, UNCHANGED <<restOfCall, said>>,
           ending' \in {ending, "broken"},
           \/ sub' = "open" /\ i = "event" /\ InHand = 1 /\ ending' = "none" /\ item' = item
           \/ sub' = "sending" /\ i = "event" /\ InHand = 1 /\ ending' = "broken" /\ item' = "done"
           \/ sub' = "ended" /\ i # "event" /\ InHand = 0 /\ item' = item
              /\ (i = "error" \/ Finished')
    PROVE  DelegationInv'
<1>1. /\ buffer' \in Seq(Items) /\ Len(buffer') = Len(buffer) + 1 /\ Len(buffer) \in Nat
      /\ buffer'[Len(buffer')] = i
      /\ \A n \in 1 .. Len(buffer) : buffer'[n] = buffer[n] /\ buffer[n] = "event"
  BY DEF DelegationInv, DelegationTypeOK, EventsThenEnd
<1>2. DelegationTypeOK'
  <2>1. Len(buffer') <= SubCap
    BY <1>1, DelegationAssumption
  <2>. QED BY <1>1, <2>1 DEF DelegationInv, DelegationTypeOK, restOfCall, setUp, Items
<1>3. EventsThenEnd'
  BY <1>1 DEF EventsThenEnd
<1>4. AllOnTheWay'
  <2>1. Queued = Len(buffer)
    BY DEF Queued, HasEnd
  <2>2. InHand' = 0 /\ Queued' = Len(buffer) + InHand
    BY <1>1 DEF Queued, HasEnd, InHand
  <2>. QED BY <1>1, <2>1, <2>2
       DEF DelegationInv, AllOnTheWay, restOfCall, setUp, ContextDone, DelegationTypeOK
<1>5. EndingShows' /\ PhaseFits' /\ SuccessHoldsAnswer'
  <2>1. phase \notin {"launch", "url", "kill", "request"} /\ outcome # "ok"
    BY DEF DelegationInv, PhaseFits
  <2>2. buffer' # <<>>
    BY <1>1
  <2>. QED BY <1>1, <2>1, <2>2
       DEF DelegationInv, EndingShows, PhaseFits, SuccessHoldsAnswer, restOfCall, setUp, ContextDone,
           Finished
<1>. QED BY <1>2, <1>3, <1>4, <1>5 DEF DelegationInv

(* The channel is closed with nothing in it but events. *)
LEMMA ClosedKeepsInv ==
    ASSUME DelegationInv, sub \in {"open", "sending"}, sub' = "ended",
           UNCHANGED <<restOfCall, said, item, buffer>>,
           ending' \in {ending, "broken"},
           ContextDone \/ (Finished' /\ InHand = 0)
    PROVE  DelegationInv'
<1>1. \A n \in 1 .. Len(buffer) : buffer[n] = "event"
  BY DEF DelegationInv, EventsThenEnd
<1>2. DelegationTypeOK' /\ EventsThenEnd'
  BY <1>1 DEF DelegationInv, DelegationTypeOK, EventsThenEnd, restOfCall, setUp
<1>3. AllOnTheWay'
  <2>1. Len(buffer) \in Nat /\ (buffer # <<>> => Len(buffer) \in 1 .. Len(buffer))
    BY DEF DelegationInv, DelegationTypeOK
  <2>2. Queued = Len(buffer) /\ Queued' = Len(buffer)
    BY <1>1, <2>1 DEF Queued, HasEnd
  <2>3. InHand' = 0 /\ InHand \in 0 .. 1
    BY DEF InHand
  <2>. QED BY <2>1, <2>2, <2>3
       DEF DelegationInv, AllOnTheWay, restOfCall, setUp, ContextDone, DelegationTypeOK
<1>4. EndingShows' /\ PhaseFits' /\ SuccessHoldsAnswer'
  <2>1. phase \notin {"launch", "url", "kill", "request"} /\ outcome # "ok"
    BY DEF DelegationInv, PhaseFits
  <2>. QED BY <2>1
       DEF DelegationInv, EndingShows, PhaseFits, SuccessHoldsAnswer, restOfCall, setUp, ContextDone,
           Finished
<1>. QED BY <1>2, <1>3, <1>4 DEF DelegationInv

LEMMA BreaksKeepsInv ==
    ASSUME DelegationInv, SubBreaks
    PROVE  DelegationInv'
<1>1. InHand = 0 /\ sub = "open" /\ ending = "none" /\ UNCHANGED restOfCall
  BY DEF SubBreaks, InHand, DelegationInv, EndingShows
<1>2. CASE AgentBreaks
  <2>1. /\ sub' = "sending" /\ UNCHANGED buffer
        /\ \/ ~ContextDone /\ ending' = "broken" /\ item' = "event" /\ said' = said + 1
           \/ ending' = "error" /\ item' = "error" /\ said' = said
    BY <1>2 DEF AgentBreaks
  <2>2. said' \in 0 .. MaxSaid + 1
    <3>1. said + 1 \in 0 .. MaxSaid + 1
      BY <1>1, DelegationAssumption DEF DelegationInv, DelegationTypeOK, PhaseFits, EndingShows
    <3>. QED BY <2>1, <3>1 DEF DelegationInv, DelegationTypeOK
  <2>3. DelegationTypeOK' /\ EventsThenEnd'
    BY <1>1, <2>1, <2>2
    DEF DelegationInv, DelegationTypeOK, EventsThenEnd, restOfCall, setUp, Items
  <2>4. Queued' = Queued /\ InHand' = said' - said /\ Queued \in Int
    BY <1>1, <2>1 DEF Queued, HasEnd, InHand, DelegationInv, DelegationTypeOK
  <2>5. AllOnTheWay'
    BY <1>1, <2>1, <2>4
    DEF DelegationInv, AllOnTheWay, restOfCall, setUp, ContextDone, DelegationTypeOK
  <2>6. EndingShows' /\ PhaseFits' /\ SuccessHoldsAnswer'
    BY <1>1, <2>1
    DEF DelegationInv, EndingShows, PhaseFits, SuccessHoldsAnswer, restOfCall, setUp, ContextDone,
        Finished
  <2>. QED BY <2>3, <2>5, <2>6 DEF DelegationInv
<1>3. CASE ServerBreaks
  <2>1. sub' = "ended" /\ ending' = "broken" /\ item' = item /\ said' = said /\ Finished'
    BY <1>3 DEF ServerBreaks, Finished
  <2>2. CASE ~ContextDone /\ Len(buffer) < SubCap
    <3>1. buffer' = Append(buffer, "done") /\ "done" \in Items
      BY <1>3, <2>2 DEF ServerBreaks, Items
    <3>. QED BY <1>1, <2>1, <2>2, <3>1, AppendedKeepsInv
  <2>3. CASE ~(~ContextDone /\ Len(buffer) < SubCap)
    <3>1. buffer' = buffer
      BY <1>3, <2>3 DEF ServerBreaks
    <3>. QED BY <1>1, <2>1, <3>1, ClosedKeepsInv
  <2>. QED BY <2>2, <2>3
<1>. QED BY <1>2, <1>3 DEF SubBreaks

LEMMA DeliverKeepsInv ==
    ASSUME DelegationInv, Deliver
    PROVE  DelegationInv'
<1>1. /\ sub = "sending" /\ UNCHANGED <<restOfCall, said, ending>> /\ item \in Items
      /\ ending \in {"none", "done", "error", "broken"}
  BY DEF Deliver, DelegationInv, DelegationTypeOK
<1>2. item = "event" => InHand = 1
  BY <1>1 DEF InHand
<1>3. item # "event" => InHand = 0 /\ (item = "error" \/ Finished')
  BY <1>1 DEF InHand, DelegationInv, EndingShows, Finished, Items
<1>4. CASE Len(buffer) < SubCap /\ buffer' = Append(buffer, item)
           /\ \/ item = "event" /\ ending = "none" /\ sub' = "open" /\ UNCHANGED item
              \/ item = "event" /\ ending = "broken" /\ item' = "done" /\ UNCHANGED sub
              \/ item # "event" /\ sub' = "ended" /\ UNCHANGED item
  BY <1>1, <1>2, <1>3, <1>4, AppendedKeepsInv
<1>5. CASE ContextDone /\ sub' = "ended" /\ UNCHANGED <<buffer, item>>
  BY <1>1, <1>5, ClosedKeepsInv
<1>. QED BY <1>4, <1>5 DEF Deliver

LEMMA TakeKeepsInv ==
    ASSUME DelegationInv, TakeEvent
    PROVE  DelegationInv'
<1>1. /\ phase = "range" /\ buffer # <<>> /\ buffer' = Tail(buffer)
      /\ outcome = "none" /\ sub' = sub
      /\ UNCHANGED <<setUp, lapsed, quit, process, sub, item, said, ending, feedLen>>
  BY DEF TakeEvent, DelegationInv, PhaseFits
<1>2. /\ Len(buffer) \in Nat \ {0} /\ Len(buffer') = Len(buffer) - 1 /\ buffer' \in Seq(Items)
      /\ \A n \in 1 .. Len(buffer') : buffer'[n] = buffer[n + 1]
      /\ Head(buffer) = buffer[1] /\ buffer[1] \in Items
  BY <1>1 DEF DelegationInv, DelegationTypeOK
<1>3. /\ \A n \in 1 .. Len(buffer) : buffer[n] = "event" \/ (sub = "ended" /\ n = Len(buffer))
      /\ buffer' # <<>> => buffer'[Len(buffer')] = buffer[Len(buffer)]
      /\ buffer' = <<>> <=> Len(buffer) = 1
  BY <1>2 DEF DelegationInv, EventsThenEnd
<1>4. EventsThenEnd'
  <2>1. \A n \in 1 .. Len(buffer') : n + 1 \in 1 .. Len(buffer)
                                    /\ (n + 1 = Len(buffer) => n = Len(buffer'))
    BY <1>2
  <2>2. \A n \in 1 .. Len(buffer') : buffer'[n] = "event" \/ (sub' = "ended" /\ n = Len(buffer'))
    BY <1>1, <1>2, <1>3, <2>1
  <2>. QED BY <2>2 DEF EventsThenEnd
<1>5. InHand' = InHand /\ InHand \in 0 .. 1
  BY <1>1 DEF InHand
<1>6. CASE Head(buffer) = "event"
  <2>1. /\ content' = content + 1 /\ phase' = "forward" /\ outcome' = outcome
    BY <1>6 DEF TakeEvent
  <2>2. Queued \in Nat /\ Queued' = Queued - 1
    <3>1. HasEnd' <=> HasEnd
      BY <1>1, <1>2, <1>3, <1>6 DEF HasEnd
    <3>2. HasEnd => Len(buffer) > 1
      BY <1>2, <1>6 DEF HasEnd
    <3>. QED BY <1>2, <3>1, <3>2 DEF Queued
  <2>3. AllOnTheWay'
    BY <1>1, <1>5, <2>1, <2>2, DelegationAssumption
    DEF DelegationInv, AllOnTheWay, ContextDone, DelegationTypeOK
  <2>4. DelegationTypeOK'
    <3>1. content + 1 \in 0 .. MaxSaid + 1
      <4>1. content + Queued + InHand <= said /\ Queued >= 1
        BY <2>2, <1>2, <1>5, <1>6
        DEF DelegationInv, AllOnTheWay, Queued, HasEnd, DelegationTypeOK
      <4>. QED BY <4>1, <1>5, <2>2, DelegationAssumption DEF DelegationInv, DelegationTypeOK
    <3>. QED BY <1>1, <1>2, <2>1, <3>1, DelegationAssumption
         DEF DelegationInv, DelegationTypeOK, setUp
  <2>5. EndingShows'
    BY <1>1, <1>2, <1>3, <1>6, <2>1 DEF DelegationInv, EndingShows, ContextDone, Finished, setUp
  <2>6. PhaseFits' /\ SuccessHoldsAnswer'
    BY <1>1, <2>1 DEF PhaseFits, SuccessHoldsAnswer
  <2>. QED BY <1>4, <2>3, <2>4, <2>5, <2>6 DEF DelegationInv
<1>7. CASE Head(buffer) # "event"
  <2>1. sub = "ended" /\ Len(buffer) = 1 /\ buffer' = <<>>
    BY <1>2, <1>3, <1>7
  <2>2. Queued = 0 /\ Queued' = 0
    BY <1>1, <1>2, <1>7, <2>1 DEF Queued, HasEnd
  <2>3. content' = content /\ phase' \in {"forward", "result"}
        /\ (Head(buffer) = "error" => outcome' = "error" /\ phase' = "result")
        /\ (Head(buffer) # "error" => outcome' = "none")
    BY <1>1, <1>7 DEF TakeEvent, ToolReturns
  <2>4. phase' = "forward" => outcome' = "none"
    BY <1>1 DEF TakeEvent, ToolReturns
  <2>5. AllOnTheWay'
    BY <1>1, <1>5, <2>2, <2>3 DEF DelegationInv, AllOnTheWay, ContextDone
  <2>6. DelegationTypeOK'
    BY <1>1, <1>2, <2>3, DelegationAssumption DEF DelegationInv, DelegationTypeOK, setUp
  <2>7. EndingShows'
    BY <1>1, <1>2, <2>1, <2>3 DEF DelegationInv, EndingShows, ContextDone, Finished, setUp
  <2>8. PhaseFits' /\ SuccessHoldsAnswer'
    BY <1>1, <2>1, <2>3, <2>4 DEF PhaseFits, SuccessHoldsAnswer
  <2>. QED BY <1>4, <2>5, <2>6, <2>7, <2>8 DEF DelegationInv
<1>. QED BY <1>6, <1>7

(* Here the result is made: everything has been taken. *)
LEMMA EndKeepsInv ==
    ASSUME DelegationInv, AnswerEnds
    PROVE  DelegationInv'
<1>1. /\ phase = "range" /\ buffer = <<>> /\ sub = "ended" /\ outcome = "none"
      /\ phase' = "result" /\ outcome' = "ok"
      /\ UNCHANGED <<setUp, lapsed, quit, process, answer, content, feedLen>>
  BY DEF AnswerEnds, ToolReturns, DelegationInv, PhaseFits
<1>2. UNCHANGED <<kind, sub, item, buffer, said, ending, content>> /\ ContextDone'
  BY <1>1 DEF setUp, answer, ContextDone
<1>3. EventsThenEnd' /\ AllOnTheWay' /\ EndingShows'
  BY <1>2, AnswerUntouched
<1>4. DelegationTypeOK'
  BY <1>1, <1>2 DEF DelegationInv, DelegationTypeOK, setUp
<1>5. SuccessHoldsAnswer'
  <2>1. Queued = 0 /\ InHand = 0
    BY <1>1 DEF Queued, HasEnd, InHand
  <2>2. content \in {said - 1, said} /\ (~lapsed => content = said /\ Finished)
    BY <1>1, <2>1 DEF DelegationInv, AllOnTheWay, EndingShows, ContextDone, DelegationTypeOK
  <2>. QED BY <1>1, <1>2, <2>2 DEF SuccessHoldsAnswer, Finished
<1>6. PhaseFits'
  BY <1>1, <1>2 DEF PhaseFits
<1>. QED BY <1>3, <1>4, <1>5, <1>6 DEF DelegationInv

LEMMA DelegationStepInv == DelegationInv /\ [DelegationNext]_callVars => DelegationInv'
<1>. SUFFICES ASSUME DelegationInv, [DelegationNext]_callVars PROVE DelegationInv'
  OBVIOUS
<1>1. CASE UNCHANGED callVars
  <2>1. UNCHANGED <<kind, sub, item, buffer, said, ending, content, outcome, lapsed, phase>>
    BY <1>1 DEF callVars
  <2>2. EventsThenEnd' /\ AllOnTheWay' /\ EndingShows'
    BY <2>1, AnswerUntouched DEF ContextDone
  <2>3. DelegationTypeOK' /\ PhaseFits' /\ SuccessHoldsAnswer'
    BY <1>1 DEF callVars, DelegationInv, DelegationTypeOK, PhaseFits, SuccessHoldsAnswer
  <2>. QED BY <2>2, <2>3 DEF DelegationInv
<1>. QED BY <1>1, ProcessKeepsInv, CallKeepsInv, RequestKeepsInv, SaysKeepsInv, BreaksKeepsInv,
            DeliverKeepsInv, TakeKeepsInv, EndKeepsInv DEF DelegationNext

THEOREM DelegationInvariant == DelegationSpec => []DelegationInv
BY DelegationStarts, DelegationStepInv, PTL DEF DelegationSpec

(* delegate_task: a success reported in time holds every event that the    *)
(* sub-agent has sent and no error event, and a later one lacks at most    *)
(* the last, for any length of the answer and any capacities of the        *)
(* channels.  An answer that broke off is a success too. *)
THEOREM SuccessesHoldAnswers == DelegationSpec => []SuccessHoldsAnswer
<1>1. DelegationInv => SuccessHoldsAnswer
  BY DEF DelegationInv
<1>. QED BY <1>1, DelegationInvariant, PTL

-----------------------------------------------------------------------------
(* The conversation as a whole *)

ConversationInv == AgentInv /\ SseInv /\ DelegationInv /\ FeishuInv /\ TuiTypeOK

LEMMA ConversationInitInv == ConversationInit => ConversationInv
<1>. SUFFICES ASSUME ConversationInit PROVE ConversationInv
  OBVIOUS
<1>1. AgentInv /\ FeishuInv /\ TuiTypeOK
  BY AgentInitInv, FeishuInitInv, TuiInitTypes DEF ConversationInit
<1>2. SseInv
  BY SseInitInv DEF ConversationInit, SseInit
<1>3. DelegationInv
  <2>1. CASE part = "delegation"
    BY <2>1, DelegationStarts DEF ConversationInit
  <2>2. CASE part # "delegation"
    BY <2>2, DelegationInitInv DEF ConversationInit
  <2>. QED BY <2>1, <2>2
<1>. QED BY <1>1, <1>2, <1>3 DEF ConversationInv

(* A step of one part is a stuttering step of the others. *)
LEMMA ConversationSteps ==
    ASSUME [ConversationNext]_conversationVars
    PROVE  /\ [Next]_agentVars /\ [SseNext]_sseVars /\ [DelegationNext]_callVars
           /\ [FeishuNext]_feishuVars /\ [TuiNext]_tuiVars
BY DEF ConversationNext, conversationVars,
       AgentPart, ProviderPart, DelegationPart, FeishuPart, TerminalPart

(* The variables of all five parts keep their types. *)
THEOREM ConversationTypes == ConversationSpec => []ConversationTypeOK
<1>1. ConversationInv /\ [ConversationNext]_conversationVars => ConversationInv'
  BY ConversationSteps, AgentStepInv, SseStepInv, DelegationStepInv, FeishuStepInv, TuiStepTypes
  DEF ConversationInv
<1>2. ConversationInv => ConversationTypeOK
  BY DEF ConversationInv, AgentInv, SseInv, DelegationInv, FeishuInv, ConversationTypeOK
<1>. QED BY <1>1, <1>2, ConversationInitInv, PTL DEF ConversationSpec
=============================================================================
