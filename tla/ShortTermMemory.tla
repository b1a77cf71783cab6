-------------------------- MODULE ShortTermMemory --------------------------
(***************************************************************************)
(* The short-term memory of one session (internal/memory/stm.go) and what  *)
(* empties it into the long-term memory or deletes it: the promotions that *)
(* an agent starts in the background (promoteSTMBackground), Close of the  *)
(* agent, and the archival goroutines of other processes, which delete the *)
(* database files of sessions that look inactive.                          *)
(*                                                                         *)
(* The process that owns the session stores drawers (items) from several   *)
(* goroutines, with one SQL statement per step.  It keeps its handle of    *)
(* the database until Close, also when the file is deleted meanwhile.  An  *)
(* item is a number and a room; what it says, and the order of the items,  *)
(* is left out.  A language model answers with insights that cover what it *)
(* was given, or with nothing (an error, a timeout, "NONE").               *)
(*                                                                         *)
(* Who stores: the loop of a stream, the loop of a prompt, and a           *)
(* compression.  Messages go to "history" under a context of their own     *)
(* (persistMessage); everything else is stored under the agent's context,  *)
(* which Close cancels first.  Close waits for the streams and the         *)
(* promotions, neither for a prompt nor for a compression.                 *)
(***************************************************************************)
EXTENDS Integers, Sequences, FiniteSets

CONSTANTS
    Streams,     \* calls of Stream on the owner's agent
    Prompts,     \* calls of Prompt on it (cobot prompts only agents without a memory)
    Compressors, \* goroutines of runCompress
    Background,  \* slots for promotions of the owner
    Archivers,   \* archival goroutines of other processes
    RoomOrder,   \* the rooms that are promoted, ORDER BY name
    Casts,       \* sets of goroutines, one of which takes part in a behaviour (bound)
    MaxItems,    \* items stored (bound)
    Threshold,   \* stmPromoteThreshold
    MaxFaults    \* failed statements and expired deadlines (bound)

Writers == Streams \cup Prompts \cup Compressors
Promotable == {RoomOrder[i] : i \in DOMAIN RoomOrder}
Rooms == Promotable \cup {"history", "compressed"}

ASSUME StmAssumption ==
    /\ IsFiniteSet(Writers) /\ Streams \cap Prompts = {}
    /\ RoomOrder \in Seq(STRING) /\ "context" \in Promotable
    /\ Promotable \cap {"history", "compressed", "wing"} = {}
    /\ Background \cap Archivers = {}
    /\ Casts \subseteq SUBSET (Writers \cup Background \cup Archivers)
    /\ MaxItems \in Nat /\ Threshold \in Nat \ {0} /\ MaxFaults \in Nat

VARIABLES
    cast,     \* the goroutines that take part
    owner,    \* where the process of the session is
    opened,   \* it has a handle in stmDBs
    path,     \* what the name of the database file leads to
    made,     \* wing and rooms of the session's database
    drawers,  \* its items
    writer,   \* writer[w]: the store in progress
    prom,     \* prom[k]: SummarizeAndPromoteSTM in progress
    farewell, \* what PromoteToLongTerm read
    ltm,      \* items that are in the long-term memory, as such or in an insight
    acked,    \* items whose store returned without an error
    lost,     \* lost[r]: items that went for reason r
    drained,  \* Close has seen the streams and the promotions end
    late,     \* items stored after Close had read the rooms
    faults    \* failed statements and expired deadlines so far

stmVars == <<cast, owner, opened, path, made, drawers, writer, prom,
             farewell, ltm, acked, lost, drained, late, faults>>

Item == [id : 1 .. MaxItems, room : Rooms]

(* Why an item that was stored may be gone without a copy.                 *)
(*   cleared:  a promotion cleared its room, and it had been stored since  *)
(*             the room was read, or its insight could not be stored while *)
(*             another one was (stm.go:399-405)                            *)
(*   archived: the archive deleted its file, having promoted nothing or    *)
(*             not all: the session had too few items or none in "history" *)
(*             or "context", a statement failed, or the item was stored    *)
(*             after the archive had read its room                         *)
(*   history:  the archive deleted the file of a message: it never copies  *)
(*             the history that the promotion leaves where it is           *)
(*   inUse:    the archive deleted the file while the owner had it open    *)
Reasons == {"cleared", "archived", "history", "inUse"}

Quiet == [at |-> "idle", room |-> "history"]
Writer == [at : {"idle", "peek", "wing", "newWing", "room", "newRoom", "clear", "insert"},
           room : Rooms]

NoPromotion == [at |-> "idle", rooms |-> {}, read |-> {}, clear |-> {}, parts |-> {},
                good |-> FALSE, failed |-> {}]
Promotion == [at : {"idle", "check", "open", "read", "insights", "copy", "clear", "delete"},
              rooms : SUBSET Promotable,      \* rooms to read
              read : SUBSET Item,             \* allDrawers
              clear : SUBSET Promotable,      \* roomIDsToClear
              parts : SUBSET (SUBSET Item),   \* insights to store
              good : BOOLEAN,                 \* insightsStored > 0
              failed : SUBSET Item]           \* what it has read and could not store

(* Types of the session database, its users and the long-term memory. *)
StmTypeOK ==
    /\ cast \in Casts
    /\ owner \in {"up", "closing", "reading", "copying", "expired", "closed", "crashed"}
    /\ opened \in BOOLEAN
    /\ path \in {"none", "empty", "blank", "session"}
    /\ made \subseteq Rooms \cup {"wing"}
    /\ drawers \subseteq Item
    /\ writer \in [Writers -> Writer]
    /\ prom \in [Background \cup Archivers -> Promotion]
    /\ farewell \subseteq Item
    /\ ltm \subseteq Item /\ acked \subseteq Item /\ late \subseteq Item
    /\ lost \in [Reasons -> SUBSET Item] /\ drained \in BOOLEAN
    /\ faults \in 0 .. MaxFaults

StmInit ==
    /\ cast \in Casts
    /\ owner = "up" /\ opened = FALSE /\ path = "none"
    /\ made = {} /\ drawers = {}
    /\ writer = [w \in Writers |-> Quiet]
    /\ prom = [k \in Background \cup Archivers |-> NoPromotion]
    /\ farewell = {}
    /\ ltm = {} /\ acked = {} /\ late = {}
    /\ lost = [r \in Reasons |-> {}] /\ drained = FALSE
    /\ faults = 0

Fails == faults < MaxFaults /\ faults' = faults + 1
Exited == owner \in {"closed", "crashed"}
InRoom(r) == {i \in drawers : i.room = r}
Reachable == IF path = "session" \/ opened THEN drawers ELSE {}

storeVars == <<made, drawers, acked, late>>
fileVars == <<opened, path>>

-----------------------------------------------------------------------------
(* StoreShortTerm and StoreShortTermCompressed *)

StoreGoto(w, where) == writer' = [writer EXCEPT ![w].at = where]

(* Mutant: there is no mutex. *)
CompressMuFree_Always == TRUE

(* compressMu is held from the calls of the language model to the store.   *)
CompressMuFree == \A w \in Writers : writer[w].at = "idle" \/ writer[w].room # "compressed"

(* The agent's context, or none for a message.                              *)
Uncut(r) == owner = "up" \/ r = "history"

(* A stream that Close has not waited for, and a prompt, may still add a   *)
(* message while Close reads and copies.  (One that a prompt begins to     *)
(* store when the databases are closed, which opens the file anew, is left *)
(* out.)                                                                   *)
MayStore(w, r) ==
    /\ r = "compressed" <=> w \in Compressors
    /\ Uncut(r) /\ ~Exited
    /\ w \in Prompts \/ ~drained

(* getSTMDB opens the database, and creates it, on the first call.         *)
StoreBegin(w, r) ==
    /\ MayStore(w, r)
    /\ writer[w].at = "idle"
    /\ Cardinality(acked) + Cardinality({v \in Writers : writer[v].at # "idle"}) < MaxItems
    /\ r = "compressed" => CompressMuFree
    /\ writer' = [writer EXCEPT ![w] = [at |-> IF r = "compressed" THEN "peek" ELSE "wing",
                                        room |-> r]]
    /\ opened' = TRUE
    /\ path' = IF opened THEN path ELSE "session"
    /\ UNCHANGED <<owner, storeVars, prom, farewell, ltm, lost, drained, faults>>

(* StoreShortTermCompressed looks for wing and room, and goes the common   *)
(* way when one is missing. *)
Peek(w) ==
    /\ writer[w].at = "peek"
    /\ StoreGoto(w, IF {"wing", "compressed"} \subseteq made THEN "clear" ELSE "wing")
    /\ UNCHANGED storeVars

LookUp(w) ==
    /\ \/ /\ writer[w].at = "wing"
          /\ StoreGoto(w, IF "wing" \in made THEN "room" ELSE "newWing")
       \/ /\ writer[w].at = "room"
          /\ StoreGoto(w, IF writer[w].room \in made THEN "insert" ELSE "newRoom")
    /\ UNCHANGED storeVars

(* The names are UNIQUE: an INSERT that comes second is an error, and the  *)
(* item is not stored. *)
Make(w) ==
    LET name == IF writer[w].at = "newWing" THEN "wing" ELSE writer[w].room
        next == IF writer[w].at = "newWing" THEN "room" ELSE "insert" IN
    /\ writer[w].at \in {"newWing", "newRoom"}
    /\ StoreGoto(w, IF name \in made THEN "idle" ELSE next)
    /\ made' = made \cup {name}
    /\ UNCHANGED <<drawers, acked, late>>

(* The old summary is deleted before the new one is inserted. *)
ClearSummary(w) ==
    /\ writer[w].at = "clear"
    /\ drawers' = drawers \ InRoom("compressed")
    /\ StoreGoto(w, "insert")
    /\ UNCHANGED <<made, acked, late>>

Insert(w) ==
    LET item == [id |-> Cardinality(acked) + 1, room |-> writer[w].room] IN
    /\ writer[w].at = "insert"
    /\ drawers' = drawers \cup {item}
    /\ acked' = acked \cup {item}
    /\ late' = IF owner \in {"copying", "expired"} THEN late \cup {item} ELSE late
    /\ StoreGoto(w, "idle")
    /\ UNCHANGED made

StoreStep(w) ==
    /\ Uncut(writer[w].room) /\ ~Exited
    /\ Peek(w) \/ LookUp(w) \/ Make(w) \/ ClearSummary(w) \/ Insert(w)
    /\ UNCHANGED <<owner, opened, path, prom, farewell, ltm, lost, drained, faults>>

(* The context is cancelled, or the database is closed: the next statement *)
(* of a store fails. *)
StoreCut(w) ==
    /\ writer[w].at # "idle"
    /\ owner = "closed" \/ ~Uncut(writer[w].room)
    /\ StoreGoto(w, "idle")
    /\ UNCHANGED <<owner, fileVars, storeVars, prom, farewell, ltm, lost, drained, faults>>

-----------------------------------------------------------------------------
(* SummarizeAndPromoteSTM, by a goroutine of the owner or by an archiver   *)

PromGoto(k, where) == prom' = [prom EXCEPT ![k].at = where]

(* return nil: an archiver goes on to delete the files. *)
PromReturn(k) ==
    prom' = [prom EXCEPT ![k] = IF k \in Archivers THEN [@ EXCEPT !.at = "delete"]
                                                   ELSE NoPromotion]

(* The context of the owner's promotions is cancelled by Close, which then *)
(* closes the databases. *)
Cancelled(k) == k \in Background /\ owner # "up"
MayFail(k) == (Cancelled(k) /\ UNCHANGED faults) \/ Fails
Works(k) == ~Cancelled(k) /\ UNCHANGED faults

RoomsToRead == Promotable \cap made

(* promoteSTMBackground: stmPromoteMu is free again as soon as the         *)
(* goroutine has been started. *)
PromoteStart(k) ==
    /\ owner = "up" /\ opened
    /\ k \in Background /\ prom[k].at = "idle"
    /\ RoomsToRead # {}
    /\ prom' = [prom EXCEPT ![k].at = "read", ![k].rooms = RoomsToRead]
    /\ UNCHANGED <<owner, fileVars, storeVars, writer, farewell, ltm, lost, drained, faults>>

IsNext(r, rooms) ==
    \E i \in DOMAIN RoomOrder : r = RoomOrder[i] /\ \A j \in 1 .. i - 1 : RoomOrder[j] \notin rooms

(* A room that cannot be read is skipped, and not cleared later. *)
ReadRoom(k) ==
    /\ prom[k].at = "read"
    /\ \E r \in prom[k].rooms :
          /\ IsNext(r, prom[k].rooms)
          /\ \/ /\ Works(k)
                /\ prom' = [prom EXCEPT ![k].rooms = @ \ {r},
                                        ![k].read = @ \cup InRoom(r),
                                        ![k].clear = @ \cup {r}]
             \/ MayFail(k) /\ prom' = [prom EXCEPT ![k].rooms = @ \ {r}]
    /\ UNCHANGED <<drawers, ltm, lost>>

TooFew(k) == Cardinality(prom[k].read) < Threshold

NotWorthIt(k) ==
    /\ prom[k].at = "read" /\ prom[k].rooms = {}
    /\ TooFew(k)
    /\ PromReturn(k)
    /\ UNCHANGED <<drawers, ltm, lost, faults>>

(* Summarize: one insight, or two of which one may fail, or none. *)
Summarise(k) ==
    /\ prom[k].at = "read" /\ prom[k].rooms = {}
    /\ ~TooFew(k)
    /\ \/ PromGoto(k, "copy")
       \/ \E one \in (SUBSET prom[k].read) \ {{}} :
             prom' = [prom EXCEPT ![k].at = "insights",
                                  ![k].parts = {one, prom[k].read \ one} \ {{}}]
    /\ UNCHANGED <<drawers, ltm, lost, faults>>

StoreInsight(k) ==
    /\ prom[k].at = "insights"
    /\ \E part \in prom[k].parts :
          \/ /\ Works(k)
             /\ ltm' = ltm \cup part
             /\ prom' = [prom EXCEPT ![k].parts = @ \ {part}, ![k].good = TRUE]
          \/ /\ MayFail(k)
             /\ prom' = [prom EXCEPT ![k].parts = @ \ {part}, ![k].failed = @ \cup part]
             /\ UNCHANGED ltm
    /\ UNCHANGED <<drawers, lost>>

(* Mutant: the rooms are cleared whatever was stored. *)
InsightsStored_Always(k) ==
    /\ prom[k].at = "insights" /\ prom[k].parts = {}
    /\ PromGoto(k, "clear")
    /\ UNCHANGED <<drawers, ltm, lost, faults>>

(* insightsStored > 0 *)
InsightsStored(k) ==
    /\ prom[k].at = "insights" /\ prom[k].parts = {}
    /\ IF prom[k].good THEN PromGoto(k, "clear") ELSE PromReturn(k)
    /\ UNCHANGED <<drawers, ltm, lost, faults>>

(* dumbCopyToFacts, drawer by drawer; what it copied stays in the rooms.   *)
DumbCopy(k) ==
    /\ prom[k].at = "copy"
    /\ \/ Works(k) /\ ltm' = ltm \cup prom[k].read /\ PromReturn(k)
       \/ /\ MayFail(k)
          /\ \E got \in SUBSET prom[k].read :
                /\ ltm' = ltm \cup got
                /\ prom' = [prom EXCEPT
                     ![k] = IF k \in Archivers
                            THEN [@ EXCEPT !.at = "delete", !.failed = prom[k].read \ got]
                            ELSE NoPromotion]
    /\ UNCHANGED <<drawers, lost>>

(* insightsStored > 0 and fewer than there were. *)
Uncovered(k, r) == IF prom[k].good THEN InRoom(r) \cap prom[k].failed ELSE {}

(* DELETE of everything in a room: also what was stored since the room was *)
(* read, and what no stored insight covers. *)
ClearRoom(k) ==
    /\ prom[k].at = "clear" /\ prom[k].clear # {}
    /\ \E r \in prom[k].clear :
          /\ prom' = [prom EXCEPT ![k].clear = @ \ {r}]
          /\ \/ /\ Works(k)
                /\ drawers' = drawers \ InRoom(r)
                /\ lost' = [lost EXCEPT !["cleared"] =
                                @ \cup (InRoom(r) \ prom[k].read) \cup Uncovered(k, r)]
             \/ MayFail(k) /\ UNCHANGED <<drawers, lost>>
    /\ UNCHANGED ltm

Cleared(k) ==
    /\ prom[k].at = "clear" /\ prom[k].clear = {}
    /\ PromReturn(k)
    /\ UNCHANGED <<drawers, ltm, lost, faults>>

PromoteStep(k) ==
    /\ \/ ReadRoom(k) \/ NotWorthIt(k) \/ Summarise(k) \/ StoreInsight(k)
       \/ InsightsStored(k) \/ DumbCopy(k) \/ ClearRoom(k) \/ Cleared(k)
    /\ k \in Background => owner # "crashed"
    /\ UNCHANGED <<owner, fileVars, made, writer, farewell, acked, drained, late>>

-----------------------------------------------------------------------------
(* ArchiveInactiveSessions of another process                              *)

(* os.ReadDir, and a modification time before the cutoff.  A write to the  *)
(* session goes to its write-ahead log and need not touch the file, so the *)
(* file may look old at any time. *)
ArchiveFind(a) ==
    /\ prom[a].at = "idle"
    /\ path # "none"
    /\ PromGoto(a, "check")
    /\ UNCHANGED <<path, lost>>

Content == InRoom("history") \cup InRoom("context")

(* sessionHasContent opens the file anew: when it is gone, an empty one    *)
(* takes its place, and a file without tables is an error. *)
ArchiveCheck(a) ==
    /\ prom[a].at = "check"
    /\ \/ /\ path \in {"none", "empty"}
          /\ path' = "empty"
          /\ PromGoto(a, "idle")
       \/ /\ path = "blank" \/ (path = "session" /\ Content = {})
          /\ PromGoto(a, "delete")
          /\ UNCHANGED path
       \/ /\ path = "session" /\ Content # {}
          /\ PromGoto(a, "open")
          /\ UNCHANGED path
    /\ UNCHANGED lost

(* getSTMDB: a file that is gone or empty becomes a database without wing. *)
ArchiveOpen(a) ==
    /\ prom[a].at = "open"
    /\ \/ /\ path = "session"
          /\ prom' = [prom EXCEPT ![a].at = "read", ![a].rooms = RoomsToRead]
          /\ UNCHANGED path
       \/ /\ path # "session"
          /\ path' = "blank"
          /\ PromGoto(a, "delete")
    /\ UNCHANGED lost

(* What the archive has promoted of the session. *)
Copied(a) == IF TooFew(a) THEN {} ELSE prom[a].read \ prom[a].failed

(* deleteSessionFiles, whatever the promotion did, and with the history    *)
(* that no promotion reads.  A process that has the file open keeps using  *)
(* it. *)
ArchiveDelete(a) ==
    /\ prom[a].at = "delete"
    /\ path' = "none"
    /\ prom' = [prom EXCEPT ![a] = NoPromotion]
    /\ lost' = IF opened THEN lost
               ELSE [lost EXCEPT !["history"] = @ \cup InRoom("history"),
                                 !["archived"] = @ \cup (drawers \ (InRoom("history") \cup Copied(a)))]

ArchiveStep(a) ==
    /\ ArchiveFind(a) \/ ArchiveCheck(a) \/ ArchiveOpen(a) \/ ArchiveDelete(a)
    /\ UNCHANGED <<owner, opened, storeVars, writer, farewell, ltm, drained, faults>>

-----------------------------------------------------------------------------
(* Agent.Close *)

(* The agent's context is cancelled. *)
CloseBegin ==
    /\ owner = "up"
    /\ owner' = "closing"
    /\ UNCHANGED <<fileVars, writer, prom, farewell, ltm, lost, drained, faults>>

(* What streamWg and bgWg count. *)
AtRest ==
    /\ \A w \in Streams : writer[w].at = "idle"
    /\ \A k \in Background : prom[k].at = "idle"

(* Mutant: Close does not wait. *)
CloseWaited_NotAtAll ==
    /\ owner = "closing"
    /\ owner' = "reading" /\ drained' = TRUE
    /\ UNCHANGED <<fileVars, writer, prom, farewell, ltm, lost, faults>>

(* streamWg and bgWg, or thirty seconds. *)
CloseWaited ==
    /\ owner = "closing"
    /\ owner' = "reading"
    /\ \/ AtRest /\ drained' = TRUE /\ UNCHANGED faults
       \/ ~AtRest /\ Fails /\ UNCHANGED drained
    /\ UNCHANGED <<fileVars, writer, prom, farewell, ltm, lost>>

(* PromoteToLongTerm reads all rooms, of which only the history can change *)
(* now, and asks the language model, under one deadline of thirty seconds: *)
(* a model that does not answer uses it up and leaves no time for the copy.*)
CloseRead ==
    /\ owner = "reading"
    /\ farewell' = IF opened THEN drawers ELSE {}
    /\ \/ owner' = "copying" /\ UNCHANGED faults
       \/ owner' = "expired" /\ Fails
    /\ UNCHANGED <<fileVars, writer, prom, ltm, lost, drained>>

(* The last handle of a deleted file is gone, and the file with it. *)
LetGo ==
    /\ opened' = FALSE
    /\ lost' = IF path = "session" THEN lost ELSE [lost EXCEPT !["inUse"] = @ \cup drawers]

CloseCopy ==
    /\ owner \in {"copying", "expired"}
    /\ ltm' = IF owner = "copying" THEN ltm \cup farewell ELSE ltm
    /\ owner' = "closed"
    /\ LetGo
    /\ farewell' = {}
    /\ UNCHANGED <<path, writer, prom, drained, faults>>

Crash ==
    /\ ~Exited
    /\ owner' = "crashed"
    /\ LetGo
    /\ writer' = [w \in Writers |-> Quiet]
    /\ prom' = [k \in DOMAIN prom |-> IF k \in Background THEN NoPromotion ELSE prom[k]]
    /\ farewell' = {}
    /\ UNCHANGED <<path, ltm, drained, faults>>

CloseStep ==
    /\ CloseBegin \/ CloseWaited \/ CloseRead \/ CloseCopy \/ Crash
    /\ UNCHANGED storeVars

StmNext ==
    /\ \/ \E w \in Writers \cap cast :
             StoreStep(w) \/ StoreCut(w) \/ \E r \in Rooms : StoreBegin(w, r)
       \/ \E k \in Background \cap cast : PromoteStart(k)
       \/ \E k \in (Background \cup Archivers) \cap cast : PromoteStep(k)
       \/ \E a \in Archivers \cap cast : ArchiveStep(a)
       \/ CloseStep
    /\ UNCHANGED cast

StmSpec == StmInit /\ [][StmNext]_stmVars

-----------------------------------------------------------------------------
(* Properties *)

(* No item that was stored disappears without a trace: it can be read in   *)
(* the session's database, or it is in the long-term memory, or it went    *)
(* for a reason the code leaves open (Reasons): a message only with a file *)
(* that the archive deleted, and another item also with the clearing of a  *)
(* room to which it came late or whose insight failed.  Whatever the       *)
(* promotions, the close, crashes and archives do to one another.          *)
NothingForgotten ==
    \A i \in acked : i.room # "compressed" =>
        \/ i \in Reachable \cup ltm \cup lost["archived"] \cup lost["inUse"]
        \/ i \in (IF i.room = "history" THEN lost["history"] ELSE lost["cleared"])

(* "at most one drawer (the latest summary) exists"                        *)
OneSummary == Cardinality(InRoom("compressed")) <= 1

(* When Close has returned and no statement failed and no deadline passed, *)
(* everything that was stored has been copied to the long-term memory, but *)
(* for what a promotion cleared and for old summaries.  Only a message of  *)
(* a prompt, which Close does not wait for, can come too late for it, and  *)
(* then NothingForgotten keeps it in the session's file: a stream loses    *)
(* nothing, and a compression cannot store any more. *)
CloseKeepsAll ==
    owner = "closed" /\ faults = 0 =>
        \A i \in acked :
            \/ i \in ltm \cup lost["cleared"]
            \/ i.room = "compressed" /\ i \notin drawers
            \/ i \in late /\ i.room = "history" /\ Prompts \cap cast # {}
=============================================================================
