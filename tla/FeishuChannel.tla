---------------------------- MODULE FeishuChannel ----------------------------
(***************************************************************************)
(* A Feishu channel (internal/channel/feishu.go): the messages that its    *)
(* websocket delivers, each handled in a goroutine of its own, the replies *)
(* to them, the tenant token that replies share through tokenCache, and    *)
(* Close.  A refresh of the token holds the write lock of the cache while  *)
(* it waits for the platform.                                              *)
(*                                                                         *)
(* Time is counted in units of which a request takes at most MaxWait (the  *)
(* timeout of httpClient, 10 s).  What the cache believes and what is true *)
(* at the platform differ by the time an answer takes.  Messages sent and  *)
(* reactions added by the SDK use the SDK's own token; what messages say   *)
(* and how their content is taken apart is left out.                       *)
(***************************************************************************)
EXTENDS Integers

CONSTANTS
    Inbound,     \* messages that the platform delivers
    Closers,     \* goroutines that call Close
    Life,        \* how long a token is valid, in units of the clock
    Margin,      \* 30 s: a token this close to its end is replaced
    MaxWait,     \* how long a request and its answer take at most
    MaxTokens    \* tokens that the platform issues (bound)

NoMsg == "none"

ASSUME FeishuAssumption ==
    /\ NoMsg \notin Inbound
    /\ Life \in Nat /\ Margin \in Nat /\ MaxWait \in Nat /\ MaxTokens \in Nat \ {0}
    /\ Margin >= 2 * MaxWait /\ Life > 2 * MaxWait

VARIABLES
    feishuOpen,  \* BaseChannel.alive
    socket,      \* the goroutine of wsClient.Start
    closer,      \* closer[c]: where the call of Close is
    msg,         \* msg[e]: where the goroutine of the message is, and its token
    waited,      \* waited[e]: time since its request was sent
    cache,       \* tokenCache: the token, 0 if there is none, and its time left
    valid,       \* valid[n]: the time left of token n at the platform
    issued,      \* number of tokens issued
    refresher    \* the message that holds tokenCache.mu for writing, or NoMsg

feishuVars == <<feishuOpen, socket, closer, msg, waited, cache, valid, issued, refresher>>
tokenVars == <<cache, valid, issued, refresher>>

MsgSteps == {"new", "handler", "cache", "lock", "ask", "answer", "post", "refused", "react", "done"}

(* Types of the connection, the token cache and the messages. *)
FeishuTypeOK ==
    /\ feishuOpen \in BOOLEAN
    /\ socket \in {"off", "up", "ended"}
    /\ closer \in [Closers -> {"idle", "wait", "returned"}]
    /\ msg \in [Inbound -> [at : MsgSteps, token : 0 .. MaxTokens]]
    /\ waited \in [Inbound -> 0 .. MaxWait]
    /\ cache \in [token : 0 .. MaxTokens, left : 0 .. Life]
    /\ valid \in [1 .. MaxTokens -> 0 .. Life]
    /\ issued \in 0 .. MaxTokens
    /\ refresher \in Inbound \cup {NoMsg}

FeishuInit ==
    /\ feishuOpen = TRUE /\ socket = "off"
    /\ closer = [c \in Closers |-> "idle"]
    /\ msg = [e \in Inbound |-> [at |-> "new", token |-> 0]]
    /\ waited = [e \in Inbound |-> 0]
    /\ cache = [token |-> 0, left |-> 0]
    /\ valid = [n \in 1 .. MaxTokens |-> 0]
    /\ issued = 0 /\ refresher = NoMsg

MsgAt(e, where) == msg[e].at = where

MsgGoto(e, where) ==
    /\ msg' = [msg EXCEPT ![e].at = where]
    /\ waited' = [waited EXCEPT ![e] = 0]

-----------------------------------------------------------------------------
(* Start and Close.  The context of the connection is never cancelled, so  *)
(* the connection ends when the SDK gives up, if ever. *)

FeishuStart ==
    /\ socket = "off" /\ feishuOpen
    /\ socket' = "up"
    /\ UNCHANGED <<feishuOpen, closer, msg, waited, tokenVars>>

SocketEnds ==
    /\ socket = "up"
    /\ socket' = "ended"
    /\ UNCHANGED <<feishuOpen, closer, msg, waited, tokenVars>>

(* TryClose *)
FeishuClose(c) ==
    /\ closer[c] = "idle"
    /\ closer' = [closer EXCEPT ![c] = IF feishuOpen THEN "wait" ELSE "returned"]
    /\ feishuOpen' = FALSE
    /\ UNCHANGED <<socket, msg, waited, tokenVars>>

(* bgWg.Wait() *)
FeishuCloseReturns(c) ==
    /\ closer[c] = "wait" /\ socket # "up"
    /\ closer' = [closer EXCEPT ![c] = "returned"]
    /\ UNCHANGED <<feishuOpen, socket, msg, waited, tokenVars>>

-----------------------------------------------------------------------------
(* handleReceive, SendMessage *)

channelState == <<feishuOpen, socket, closer>>

(* Messages are delivered to a closed channel too. *)
HandleMessage(e) ==
    /\ MsgAt(e, "new") /\ socket = "up"
    /\ MsgGoto(e, "handler")
    /\ UNCHANGED <<channelState, tokenVars>>

(* The handler says nothing, its answer is refused or goes through the SDK *)
(* (pictures, files, or no message to reply to); the channel may be closed.*)
SendsNoReply(e) ==
    /\ MsgAt(e, "handler")
    /\ MsgGoto(e, "react")
    /\ UNCHANGED <<channelState, tokenVars>>

(* sendReplyTo *)
SendsReply(e) ==
    /\ MsgAt(e, "handler") /\ feishuOpen
    /\ MsgGoto(e, "cache")
    /\ UNCHANGED <<channelState, tokenVars>>

(* Mutant: a token is used to its end. *)
Fresh_ToTheEnd == cache.token # 0 /\ cache.left > 0

(* time.Now().Before(expire.Add(-30 s)); the zero time is long past. *)
Fresh == cache.token # 0 /\ cache.left > Margin

HasToken(e, n) ==
    /\ msg' = [msg EXCEPT ![e] = [at |-> "post", token |-> n]]
    /\ waited' = [waited EXCEPT ![e] = 0]

(* getTenantToken, under RLock *)
ReadCache(e) ==
    /\ MsgAt(e, "cache") /\ refresher = NoMsg
    /\ IF Fresh THEN HasToken(e, cache.token) ELSE MsgGoto(e, "lock")
    /\ UNCHANGED <<channelState, tokenVars>>

(* Mutant: no second look. *)
LockCache_NoRecheck(e) ==
    /\ MsgAt(e, "lock") /\ refresher = NoMsg
    /\ refresher' = e /\ MsgGoto(e, "ask")
    /\ UNCHANGED <<channelState, cache, valid, issued>>

(* The write lock, and a second look. *)
LockCache(e) ==
    /\ MsgAt(e, "lock") /\ refresher = NoMsg
    /\ IF Fresh
       THEN HasToken(e, cache.token) /\ UNCHANGED refresher
       ELSE refresher' = e /\ MsgGoto(e, "ask")
    /\ UNCHANGED <<channelState, cache, valid, issued>>

IssueToken(e) ==
    /\ MsgAt(e, "ask") /\ issued < MaxTokens
    /\ issued' = issued + 1
    /\ valid' = [valid EXCEPT ![issued'] = Life]
    /\ msg' = [msg EXCEPT ![e] = [at |-> "answer", token |-> issued']]
    /\ UNCHANGED <<channelState, waited, cache, refresher>>

StoreToken(e) ==
    /\ MsgAt(e, "answer")
    /\ cache' = [token |-> msg[e].token, left |-> Life]
    /\ refresher' = NoMsg
    /\ HasToken(e, msg[e].token)
    /\ UNCHANGED <<channelState, valid, issued>>

(* Mutant: the lock is kept after an error. *)
RefreshFails_KeepsLock(e) ==
    /\ MsgAt(e, "ask") \/ MsgAt(e, "answer")
    /\ MsgGoto(e, "react")
    /\ UNCHANGED <<channelState, tokenVars>>

(* The request fails or takes too long, or the answer is an error. *)
RefreshFails(e) ==
    /\ MsgAt(e, "ask") \/ MsgAt(e, "answer")
    /\ refresher' = NoMsg
    /\ MsgGoto(e, "react")
    /\ UNCHANGED <<channelState, cache, valid, issued>>

(* The request comes to the platform, which looks at the token, or fails. *)
PostReply(e) ==
    /\ MsgAt(e, "post")
    /\ MsgGoto(e, IF valid[msg[e].token] = 0 THEN "refused" ELSE "react")
    /\ UNCHANGED <<channelState, tokenVars>>

(* The reaction comes after the handler, in another goroutine. *)
React(e) ==
    /\ MsgAt(e, "react") \/ MsgAt(e, "refused")
    /\ MsgGoto(e, "done")
    /\ UNCHANGED <<channelState, tokenVars>>

-----------------------------------------------------------------------------
OnTheWire(e) == msg[e].at \in {"ask", "answer", "post"}
Elapsed(n) == IF n = 0 THEN 0 ELSE n - 1

FeishuTick ==
    /\ \A e \in Inbound : OnTheWire(e) => waited[e] < MaxWait
    /\ waited' = [e \in Inbound |-> IF OnTheWire(e) THEN waited[e] + 1 ELSE 0]
    /\ cache' = [cache EXCEPT !.left = Elapsed(@)]
    /\ valid' = [n \in 1 .. MaxTokens |-> Elapsed(valid[n])]
    /\ UNCHANGED <<channelState, msg, issued, refresher>>

MsgStep(e) ==
    \/ SendsNoReply(e) \/ SendsReply(e)
    \/ ReadCache(e) \/ LockCache(e)
    \/ IssueToken(e) \/ StoreToken(e) \/ RefreshFails(e)
    \/ PostReply(e) \/ React(e)

FeishuNext ==
    \/ FeishuTick \/ FeishuStart \/ SocketEnds
    \/ \E c \in Closers : FeishuClose(c) \/ FeishuCloseReturns(c)
    \/ \E e \in Inbound : HandleMessage(e) \/ MsgStep(e)

FeishuSpec == FeishuInit /\ [][FeishuNext]_feishuVars

(* Requests come back within httpClient's timeout, handlers return, and a  *)
(* RWMutex lets everybody in: it passes nobody over for ever. *)
FeishuFairness ==
    \A e \in Inbound :
        /\ WF_feishuVars(MsgStep(e))
        /\ SF_feishuVars(ReadCache(e) \/ LockCache(e))

-----------------------------------------------------------------------------
(* Properties *)

(* "returns a cached tenant_access_token, refreshing if expired"           *)
(* (getTenantToken): no reply comes to the platform with a token that is   *)
(* no longer valid there, however long the token's answer and the reply    *)
(* were under way and whoever fetched it. *)
RepliesAreAuthorised == \A e \in Inbound : ~MsgAt(e, "refused")

(* "Re-check after acquiring write lock": replies that found the same old  *)
(* token fetch one new token between them. *)
OneRefresh == [][issued' # issued => ~Fresh]_feishuVars

(* Every message is done with: a refresh that fails or hangs keeps nobody  *)
(* waiting for the cache for ever. *)
EveryMessageEnds == <>[](\A e \in Inbound : MsgAt(e, "new") \/ MsgAt(e, "done"))
=============================================================================
