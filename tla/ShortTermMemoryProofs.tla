------------------------ MODULE ShortTermMemoryProofs ------------------------
(***************************************************************************)
(* Proofs about the short-term memory of a session, for any number of      *)
(* streams, prompts, compressions, promotions, archivers, items, rooms and *)
(* faults, and any cast.                                                   *)
(*                                                                         *)
(* NothingForgotten says nothing of old summaries and of what a promotion  *)
(* has read, so it does not outlive the clearing of a room or the deletion *)
(* of a file.  KeepsTrace extends it to every item, and PromotionsCover    *)
(* says what a promotion that is about to clear or to delete has brought   *)
(* to safety.  OneSummary rests on the order in which a writer makes wing, *)
(* room and item (SummaryInv), CloseKeepsAll on what Close has waited for  *)
(* and what it has not (CloseInv, CastInv), and on what became of the      *)
(* database's items, whatever became of its file (DrawersKept).  At the    *)
(* end come the types of the two databases of MCStorage, with those of the *)
(* broker from BrokerPubSubProofs.                                         *)
(***************************************************************************)
EXTENDS MCStorage, BrokerPubSubProofs, FiniteSetTheorems

Busy == {w \in Writers : writer[w].at # "idle"}

(* The numbers of the items: each busy writer has one in hand. *)
NumbersLeft ==
    IsFiniteSet(acked) /\ Cardinality(acked) + Cardinality(Busy) <= MaxItems

(* A writer works on an open handle, and without one nothing was stored.   *)
HandleOpen ==
    ~Exited /\ ~opened => drawers = {} /\ Busy = {}

(* The store of a summary, from the look at wing and room to the insert:   *)
(* whoever comes to the insert has seen that there is no summary, or has   *)
(* deleted it, or has made the room. *)
Summarises(w) == w \in Busy /\ writer[w].room = "compressed"

SummaryInv ==
    /\ \A i, j \in InRoom("compressed") : i = j
    /\ InRoom("compressed") # {} => "compressed" \in made
    /\ "compressed" \in made => "wing" \in made
    /\ \A v, w \in Writers : Summarises(v) /\ Summarises(w) => v = w
    /\ \A w \in Writers :
          /\ writer[w].at \in {"room", "newRoom", "clear", "insert"} => "wing" \in made
          /\ Summarises(w) /\ writer[w].at \in {"wing", "newWing", "room", "newRoom"}
                => "compressed" \notin made
          /\ Summarises(w) /\ writer[w].at \in {"clear", "insert"} => "compressed" \in made
          /\ Summarises(w) /\ writer[w].at = "insert" => InRoom("compressed") = {}

(* A goroutine that stores takes part, and only a compression stores a     *)
(* summary. *)
CastInv ==
    \A w \in Busy : w \in cast /\ (writer[w].room = "compressed" <=> w \in Compressors)

(* What is gone for one of the reasons the code leaves open: a message by  *)
(* an archive alone, another item also by the clearing of its room.        *)
Excused ==
    {i \in Item : \/ i \in lost["archived"] \cup lost["inUse"]
                  \/ i.room = "history" /\ i \in lost["history"]
                  \/ i.room # "history" /\ i \in lost["cleared"]}

Replaced(i) == i.room = "compressed" /\ i \notin drawers

(* An item can be read, or is safe, or was a summary that was replaced.    *)
KeepsTrace == \A i \in acked : i \in Reachable \cup ltm \cup Excused \/ Replaced(i)

(* The same of the database's items, whatever became of the files.         *)
DrawersKept == \A i \in acked : i \in drawers \cup ltm \cup lost["cleared"] \/ Replaced(i)

(* What a promotion has read is in the long-term memory, as far as it has  *)
(* come, except for what it could not store. *)
Covers(p, safe) ==
    /\ p.at \in {"idle", "check", "open"} => p.read = {} /\ ~p.good /\ p.failed = {}
    /\ p.at = "read" => ~p.good /\ p.failed = {}
    /\ p.at = "copy" => p.failed = {}
    /\ p.at = "insights" => p.read \ p.failed \subseteq safe \cup UNION p.parts
    /\ p.at = "clear" => p.good /\ p.read \ p.failed \subseteq safe
    /\ p.at = "delete" => Cardinality(p.read) < Threshold \/ p.read \ p.failed \subseteq safe

PromotionsCover == \A k \in Background \cup Archivers : Covers(prom[k], ltm)

(* Close without a fault: the streams and the promotions had come to rest  *)
(* when it read, and what was stored since came from a prompt. *)
CloseInv ==
    faults = 0 =>
        /\ owner \in {"reading", "copying", "closed"} => drained /\ AtRest
        /\ owner # "expired"
        /\ owner = "copying" => drawers \subseteq farewell \cup late
        /\ \A i \in late : i.room = "history" /\ Prompts \cap cast # {}
        /\ CloseKeepsAll

StmInv ==
    /\ StmTypeOK
    /\ NumbersLeft /\ HandleOpen /\ SummaryInv /\ CastInv
    /\ KeepsTrace /\ DrawersKept /\ PromotionsCover /\ CloseInv
-----------------------------------------------------------------------------
(* Types *)

LEMMA CompressedIsARoom == "compressed" \in Rooms /\ "history" \in Rooms /\ "wing" \notin Rooms
BY StmAssumption DEF Rooms

(* A step of a writer changes the session's database and the writer. *)
LEMMA WriterTypes ==
    ASSUME StmTypeOK, NEW w \in Writers, NEW where, StoreGoto(w, where),
           where \in {"idle", "wing", "newWing", "room", "newRoom", "clear", "insert"}
    PROVE  writer' \in [Writers -> Writer]
BY DEF StmTypeOK, StoreGoto, Writer

LEMMA NumberIsFree ==
    ASSUME StmTypeOK, NumbersLeft, NEW w \in Writers, writer[w].at = "insert"
    PROVE  Cardinality(acked) + 1 \in 1 .. MaxItems
<1>1. IsFiniteSet(Busy) /\ w \in Busy
  BY StmAssumption, FS_Subset DEF Busy
<1>2. Cardinality(Busy) \in Nat /\ Cardinality(Busy) # 0 /\ Cardinality(acked) \in Nat
  BY <1>1, FS_CardinalityType, FS_EmptySet DEF NumbersLeft
<1>. QED BY <1>2, StmAssumption DEF NumbersLeft

LEMMA StoreTypes ==
    ASSUME StmTypeOK, NumbersLeft, NEW w \in Writers, StoreStep(w), cast' = cast
    PROVE  StmTypeOK'
<1>1. writer' \in [Writers -> Writer]
  <2>1. CASE Peek(w)
    BY <2>1, WriterTypes DEF Peek
  <2>2. CASE LookUp(w)
    BY <2>2, WriterTypes DEF LookUp
  <2>3. CASE Make(w)
    BY <2>3, WriterTypes DEF Make
  <2>4. CASE ClearSummary(w)
    BY <2>4, WriterTypes DEF ClearSummary
  <2>5. CASE Insert(w)
    BY <2>5, WriterTypes DEF Insert
  <2>. QED BY <2>1, <2>2, <2>3, <2>4, <2>5 DEF StoreStep
<1>2. /\ made' \subseteq Rooms \cup {"wing"} /\ drawers' \subseteq Item
      /\ acked' \subseteq Item /\ late' \subseteq Item
  <2>1. CASE Peek(w) \/ LookUp(w)
    BY <2>1 DEF Peek, LookUp, storeVars, StmTypeOK
  <2>2. CASE Make(w)
    BY <2>2 DEF Make, StmTypeOK, Writer
  <2>3. CASE ClearSummary(w)
    BY <2>3 DEF ClearSummary, StmTypeOK
  <2>4. CASE Insert(w)
    <3>1. [id |-> Cardinality(acked) + 1, room |-> writer[w].room] \in Item
      BY <2>4, NumberIsFree DEF Insert, StmTypeOK, Writer, Item
    <3>. QED BY <2>4, <3>1 DEF Insert, StmTypeOK
  <2>. QED BY <2>1, <2>2, <2>3, <2>4 DEF StoreStep
<1>. QED BY <1>1, <1>2 DEF StoreStep, StmTypeOK

(* Faults are counted up to their bound. *)
LEMMA FaultTypes ==
    ASSUME StmTypeOK, Fails \/ UNCHANGED faults
    PROVE  faults' \in 0 .. MaxFaults /\ faults' >= faults
BY StmAssumption DEF StmTypeOK, Fails

(* A promotion is replaced by another one; it ends. *)
LEMMA NoPromotionType == NoPromotion \in Promotion
BY DEF NoPromotion, Promotion

LEMMA PromSet ==
    ASSUME StmTypeOK, NEW k \in Background \cup Archivers, NEW p \in Promotion,
           prom' = [prom EXCEPT ![k] = p]
    PROVE  /\ prom' \in [Background \cup Archivers -> Promotion]
           /\ prom'[k] = p
           /\ \A j \in Background \cup Archivers : j # k => prom'[j] = prom[j]
BY DEF StmTypeOK

LEMMA PromReturns ==
    ASSUME StmTypeOK, NEW k \in Background \cup Archivers, PromReturn(k)
    PROVE  /\ prom' \in [Background \cup Archivers -> Promotion]
           /\ prom'[k] = IF k \in Archivers THEN [prom[k] EXCEPT !.at = "delete"] ELSE NoPromotion
           /\ \A j \in Background \cup Archivers : j # k => prom'[j] = prom[j]
<1>1. prom[k] \in Promotion
  BY DEF StmTypeOK
<1>. DEFINE p == IF k \in Archivers THEN [prom[k] EXCEPT !.at = "delete"] ELSE NoPromotion
<1>2. p \in Promotion
  BY <1>1, NoPromotionType DEF Promotion
<1>3. prom' = [prom EXCEPT ![k] = p]
  BY DEF PromReturn, StmTypeOK
<1>. HIDE DEF p
<1>4. /\ prom' \in [Background \cup Archivers -> Promotion] /\ prom'[k] = p
      /\ \A j \in Background \cup Archivers : j # k => prom'[j] = prom[j]
  BY <1>2, <1>3, PromSet
<1>. QED BY <1>4 DEF p

LEMMA PromGoes ==
    ASSUME StmTypeOK, NEW k \in Background \cup Archivers, NEW where, PromGoto(k, where),
           where \in {"idle", "check", "open", "read", "insights", "copy", "clear", "delete"}
    PROVE  /\ prom' \in [Background \cup Archivers -> Promotion]
           /\ prom'[k] = [prom[k] EXCEPT !.at = where]
           /\ \A j \in Background \cup Archivers : j # k => prom'[j] = prom[j]
BY DEF PromGoto, Promotion, StmTypeOK

LEMMA PromoteTypes ==
    ASSUME StmTypeOK, NEW k \in Background \cup Archivers, PromoteStep(k), cast' = cast
    PROVE  StmTypeOK'
<1>. DEFINE p == prom[k]
<1>0. p \in Promotion
  BY DEF StmTypeOK
<1>1. /\ prom' \in [Background \cup Archivers -> Promotion]
      /\ faults' \in 0 .. MaxFaults
      /\ ltm' \subseteq Item /\ lost' \in [Reasons -> SUBSET Item] /\ drawers' \subseteq Item
  <2>1. CASE ReadRoom(k)
    <3>1. PICK r \in p.rooms :
            \/ /\ Works(k)
               /\ prom' = [prom EXCEPT ![k].rooms = @ \ {r},
                                       ![k].read = @ \cup InRoom(r),
                                       ![k].clear = @ \cup {r}]
            \/ MayFail(k) /\ prom' = [prom EXCEPT ![k].rooms = @ \ {r}]
      BY <2>1 DEF ReadRoom
    <3>2. InRoom(r) \subseteq Item /\ r \in Promotable
      BY <1>0 DEF InRoom, StmTypeOK, Promotion
    <3>3. prom' \in [Background \cup Archivers -> Promotion]
      BY <3>1, <3>2, <1>0 DEF StmTypeOK, Promotion
    <3>. QED BY <2>1, <3>1, <3>3, FaultTypes DEF ReadRoom, Works, MayFail, StmTypeOK
  <2>2. CASE NotWorthIt(k)
    BY <2>2, <1>0 DEF NotWorthIt, PromReturn, NoPromotion, StmTypeOK, Promotion
  <2>3. CASE Summarise(k)
    <3>1. ASSUME NEW one \in SUBSET p.read
          PROVE  {one, p.read \ one} \ {{}} \in SUBSET (SUBSET Item)
      BY <1>0 DEF Promotion
    <3>2. CASE PromGoto(k, "copy")
      BY <2>3, <3>2, <1>0 DEF Summarise, PromGoto, StmTypeOK, Promotion
    <3>3. CASE ~PromGoto(k, "copy")
      <4>1. PICK one \in SUBSET p.read :
                prom' = [prom EXCEPT ![k].at = "insights",
                                     ![k].parts = {one, p.read \ one} \ {{}}]
        BY <2>3, <3>3 DEF Summarise
      <4>. DEFINE parts == {one, p.read \ one} \ {{}}
      <4>2. parts \in SUBSET (SUBSET Item)
        BY <3>1
      <4>. HIDE DEF parts
      <4>3. prom' \in [Background \cup Archivers -> Promotion]
        BY <4>1, <4>2, <1>0 DEF StmTypeOK, Promotion, parts
      <4>. QED BY <2>3, <4>3 DEF Summarise, StmTypeOK
    <3>. QED BY <3>2, <3>3
  <2>4. CASE StoreInsight(k)
    <3>1. PICK those \in p.parts :
            \/ /\ Works(k)
               /\ ltm' = ltm \cup those
               /\ prom' = [prom EXCEPT ![k].parts = @ \ {those}, ![k].good = TRUE]
            \/ /\ MayFail(k)
               /\ prom' = [prom EXCEPT ![k].parts = @ \ {those}, ![k].failed = @ \cup those]
               /\ UNCHANGED ltm
      BY <2>4 DEF StoreInsight
    <3>2. those \subseteq Item
      BY <1>0 DEF Promotion
    <3>3. prom' \in [Background \cup Archivers -> Promotion]
      BY <3>1, <1>0 DEF StmTypeOK, Promotion
    <3>. QED BY <2>4, <3>1, <3>2, <3>3, FaultTypes DEF StoreInsight, Works, MayFail, StmTypeOK
  <2>5. CASE InsightsStored(k)
    BY <2>5, PromGoes, PromReturns DEF InsightsStored, StmTypeOK
  <2>6. CASE DumbCopy(k)
    <3>1. ltm' \subseteq Item
      BY <2>6, <1>0 DEF DumbCopy, StmTypeOK, Promotion
    <3>2. prom' \in [Background \cup Archivers -> Promotion]
      <4>1. CASE PromReturn(k)
        BY <4>1, PromReturns
      <4>2. CASE ~PromReturn(k)
        <5>1. PICK got \in SUBSET p.read :
                 prom' = [prom EXCEPT
                            ![k] = IF k \in Archivers
                                   THEN [@ EXCEPT !.at = "delete", !.failed = p.read \ got]
                                   ELSE NoPromotion]
          BY <2>6, <4>2 DEF DumbCopy
        <5>. DEFINE q == IF k \in Archivers
                         THEN [p EXCEPT !.at = "delete", !.failed = p.read \ got]
                         ELSE NoPromotion
        <5>2. q \in Promotion
          BY <1>0, NoPromotionType DEF Promotion
        <5>3. prom' = [prom EXCEPT ![k] = q]
          BY <5>1 DEF StmTypeOK
        <5>. HIDE DEF q
        <5>. QED BY <5>2, <5>3, PromSet
      <4>. QED BY <4>1, <4>2
    <3>. QED BY <2>6, <3>1, <3>2, FaultTypes DEF DumbCopy, Works, MayFail, StmTypeOK
  <2>7. CASE ClearRoom(k)
    <3>1. PICK r \in p.clear :
          /\ prom' = [prom EXCEPT ![k].clear = @ \ {r}]
          /\ \/ /\ Works(k)
                /\ drawers' = drawers \ InRoom(r)
                /\ lost' = [lost EXCEPT !["cleared"] =
                                @ \cup (InRoom(r) \ p.read) \cup Uncovered(k, r)]
             \/ MayFail(k) /\ UNCHANGED <<drawers, lost>>
      BY <2>7 DEF ClearRoom
    <3>2. InRoom(r) \subseteq Item /\ Uncovered(k, r) \subseteq Item
      BY DEF InRoom, Uncovered, StmTypeOK
    <3>3. prom' \in [Background \cup Archivers -> Promotion]
      BY <3>1, <1>0 DEF StmTypeOK, Promotion
    <3>. QED BY <2>7, <3>1, <3>2, <3>3, FaultTypes DEF ClearRoom, Works, MayFail, StmTypeOK
  <2>8. CASE Cleared(k)
    BY <2>8, <1>0 DEF Cleared, PromReturn, NoPromotion, StmTypeOK, Promotion
  <2>. QED BY <2>1, <2>2, <2>3, <2>4, <2>5, <2>6, <2>7, <2>8 DEF PromoteStep
<1>. QED BY <1>1 DEF PromoteStep, fileVars, StmTypeOK

LEMMA ArchiveTypes ==
    ASSUME StmTypeOK, NEW a \in Archivers, ArchiveStep(a), cast' = cast
    PROVE  StmTypeOK'
<1>1. prom[a] \in Promotion
  BY DEF StmTypeOK
<1>2. prom' \in [Background \cup Archivers -> Promotion]
  <2>1. CASE ArchiveFind(a)
    BY <2>1, PromGoes DEF ArchiveFind
  <2>2. CASE ArchiveCheck(a)
    <3>1. PromGoto(a, "open") \/ PromGoto(a, "idle") \/ PromGoto(a, "delete")
      BY <2>2 DEF ArchiveCheck
    <3>. QED BY <3>1, PromGoes
  <2>3. CASE ArchiveOpen(a)
    <3>1. [prom[a] EXCEPT !.at = "read", !.rooms = RoomsToRead] \in Promotion
      BY <1>1 DEF Promotion, RoomsToRead
    <3>2. prom' = [prom EXCEPT ![a] = [prom[a] EXCEPT !.at = "read", !.rooms = RoomsToRead]]
             \/ PromGoto(a, "delete")
      BY <2>3 DEF ArchiveOpen, StmTypeOK
    <3>. QED BY <3>1, <3>2, PromSet, PromGoes
  <2>4. CASE ArchiveDelete(a)
    BY <2>4, NoPromotionType, PromSet DEF ArchiveDelete
  <2>. QED BY <2>1, <2>2, <2>3, <2>4 DEF ArchiveStep
<1>3. path' \in {"none", "empty", "blank", "session"} /\ lost' \in [Reasons -> SUBSET Item]
  <2>1. CASE ArchiveDelete(a)
    <3>1. InRoom("history") \subseteq Item /\ drawers \ (InRoom("history") \cup Copied(a)) \subseteq Item
      BY DEF InRoom, StmTypeOK
    <3>. QED BY <2>1, <3>1 DEF ArchiveDelete, StmTypeOK
  <2>2. CASE ~ArchiveDelete(a)
    BY <2>2 DEF ArchiveStep, ArchiveFind, ArchiveCheck, ArchiveOpen, StmTypeOK
  <2>. QED BY <2>1, <2>2
<1>. QED BY <1>2, <1>3 DEF ArchiveStep, storeVars, StmTypeOK

LEMMA CloseTypes ==
    ASSUME StmTypeOK, CloseStep, cast' = cast
    PROVE  StmTypeOK'
<1>1. CASE CloseBegin
  BY <1>1 DEF CloseStep, CloseBegin, fileVars, storeVars, StmTypeOK
<1>2. CASE CloseWaited
  BY <1>2, FaultTypes DEF CloseStep, CloseWaited, fileVars, storeVars, StmTypeOK
<1>3. CASE CloseRead
  BY <1>3, FaultTypes DEF CloseStep, CloseRead, fileVars, storeVars, StmTypeOK
<1>4. LetGo => lost' \in [Reasons -> SUBSET Item]
  BY DEF LetGo, StmTypeOK
<1>5. CASE CloseCopy
  BY <1>4, <1>5 DEF CloseStep, CloseCopy, LetGo, storeVars, StmTypeOK
<1>6. CASE Crash
  <2>1. writer' \in [Writers -> Writer]
    BY <1>6, CompressedIsARoom DEF Crash, Quiet, Writer
  <2>2. prom' \in [Background \cup Archivers -> Promotion]
    BY <1>6 DEF Crash, NoPromotion, Promotion, StmTypeOK
  <2>. QED BY <1>4, <1>6, <2>1, <2>2 DEF CloseStep, Crash, LetGo, storeVars, StmTypeOK
<1>. QED BY <1>1, <1>2, <1>3, <1>4, <1>5, <1>6 DEF CloseStep

LEMMA BeginTypes ==
    ASSUME StmTypeOK, cast' = cast,
           \/ \E w \in Writers : StoreCut(w) \/ \E r \in Rooms : StoreBegin(w, r)
           \/ \E k \in Background : PromoteStart(k)
    PROVE  StmTypeOK'
<1>1. ASSUME NEW w \in Writers, NEW r \in Rooms, StoreBegin(w, r)
      PROVE  StmTypeOK'
  BY <1>1 DEF StoreBegin, storeVars, StmTypeOK, Writer
<1>2. ASSUME NEW w \in Writers, StoreCut(w)
      PROVE  StmTypeOK'
  <2>1. writer' \in [Writers -> Writer]
    BY <1>2, WriterTypes DEF StoreCut
  <2>. QED BY <1>2, <2>1 DEF StoreCut, fileVars, storeVars, StmTypeOK
<1>3. ASSUME NEW k \in Background, PromoteStart(k)
      PROVE  StmTypeOK'
  <2>1. prom[k] \in Promotion
    BY DEF StmTypeOK
  <2>2. prom' \in [Background \cup Archivers -> Promotion]
    BY <1>3, <2>1 DEF PromoteStart, RoomsToRead, StmTypeOK, Promotion
  <2>. QED BY <1>3, <2>2 DEF PromoteStart, fileVars, storeVars, StmTypeOK
<1>. QED BY <1>1, <1>2, <1>3
-----------------------------------------------------------------------------
(* What the steps do to items *)

(* What is covered stays covered while the long-term memory grows. *)
LEMMA CoversGrows ==
    ASSUME NEW p, NEW safe, NEW more, safe \subseteq more, Covers(p, safe)
    PROVE  Covers(p, more)
BY DEF Covers

LEMMA NothingCovers == \A safe : Covers(NoPromotion, safe)
BY DEF Covers, NoPromotion

(* The reasons only grow. *)
LEMMA ExcusedGrows ==
    ASSUME \A r \in Reasons : lost[r] \subseteq lost'[r]
    PROVE  Excused \subseteq Excused'
BY DEF Excused, Reasons

(* A step of a promotion takes only items away that are safe, or that      *)
(* belong to a room it clears. *)
LEMMA PromoteEffect ==
    ASSUME StmTypeOK, PromotionsCover, NEW k \in Background \cup Archivers, PromoteStep(k)
    PROVE  /\ drawers' \subseteq drawers /\ ltm \subseteq ltm'
           /\ \A r \in Reasons : lost[r] \subseteq lost'[r]
           /\ drawers \subseteq drawers' \cup ltm' \cup {i \in lost'["cleared"] : i.room # "history"}
           /\ faults' >= faults
<1>. DEFINE p == prom[k]
<1>1. Covers(p, ltm)
  BY DEF PromotionsCover
<1>2. ASSUME Works(k) \/ MayFail(k)
      PROVE  faults' >= faults
  BY <1>2 DEF Works, MayFail, Fails, StmTypeOK
<1>3. CASE ReadRoom(k)
  BY <1>3, <1>2 DEF ReadRoom
<1>4. CASE NotWorthIt(k) \/ Summarise(k) \/ InsightsStored(k) \/ Cleared(k)
  BY <1>4 DEF NotWorthIt, Summarise, InsightsStored, Cleared, StmTypeOK
<1>5. CASE StoreInsight(k)
  BY <1>5, <1>2 DEF StoreInsight
<1>6. CASE DumbCopy(k)
  BY <1>6, <1>2 DEF DumbCopy
<1>7. CASE ClearRoom(k)
  <2>1. p.good /\ p.read \ p.failed \subseteq ltm
    BY <1>1, <1>7 DEF Covers, ClearRoom
  <2>2. PICK r \in p.clear :
          \/ /\ Works(k)
             /\ drawers' = drawers \ InRoom(r)
             /\ lost' = [lost EXCEPT !["cleared"] =
                             @ \cup (InRoom(r) \ p.read) \cup Uncovered(k, r)]
          \/ MayFail(k) /\ UNCHANGED <<drawers, lost>>
    BY <1>7 DEF ClearRoom
  <2>3. UNCHANGED ltm
    BY <1>7 DEF ClearRoom
  <2>4. r # "history"
    BY StmAssumption DEF StmTypeOK, Promotion
  <2>5. CASE UNCHANGED <<drawers, lost>>
    BY <1>2, <2>2, <2>3, <2>5
  <2>6. CASE ~UNCHANGED <<drawers, lost>>
    <3>1. /\ drawers' = drawers \ InRoom(r)
          /\ lost'["cleared"] = lost["cleared"] \cup (InRoom(r) \ p.read) \cup Uncovered(k, r)
          /\ \A q \in Reasons : q # "cleared" => lost'[q] = lost[q]
      BY <2>2, <2>6 DEF StmTypeOK, Reasons
    <3>2. Uncovered(k, r) = InRoom(r) \cap p.failed
      BY <2>1 DEF Uncovered
    <3>3. \A i \in InRoom(r) : i.room # "history"
      BY <2>4 DEF InRoom
    <3>. QED BY <1>2, <2>1, <2>2, <2>3, <3>1, <3>2, <3>3
  <2>. QED BY <2>5, <2>6
<1>. QED BY <1>3, <1>4, <1>5, <1>6, <1>7 DEF PromoteStep

(* It keeps its promise, and the promises of the others. *)
LEMMA PromoteCovers ==
    ASSUME StmTypeOK, PromotionsCover, NEW k \in Background \cup Archivers, PromoteStep(k)
    PROVE  PromotionsCover'
<1>. DEFINE p == prom[k]
<1>0. p \in Promotion /\ Covers(p, ltm)
  BY DEF PromotionsCover, StmTypeOK
<1>1. ltm \subseteq ltm'
  BY PromoteEffect
<1>2. /\ Covers(prom'[k], ltm')
      /\ \A j \in Background \cup Archivers : j # k => prom'[j] = prom[j]
  <2>1. CASE ReadRoom(k)
    <3>1. PICK r \in p.rooms :
            \/ prom' = [prom EXCEPT ![k].rooms = @ \ {r},
                                    ![k].read = @ \cup InRoom(r),
                                    ![k].clear = @ \cup {r}]
            \/ prom' = [prom EXCEPT ![k].rooms = @ \ {r}]
      BY <2>1 DEF ReadRoom
    <3>2. /\ prom'[k].at = "read" /\ prom'[k].good = p.good /\ prom'[k].failed = p.failed
          /\ \A j \in Background \cup Archivers : j # k => prom'[j] = prom[j]
      BY <2>1, <3>1, <1>0 DEF ReadRoom, StmTypeOK, Promotion
    <3>. QED BY <2>1, <3>2, <1>0 DEF ReadRoom, Covers
  <2>2. CASE NotWorthIt(k)
    <3>1. PromReturn(k) /\ Cardinality(p.read) < Threshold
      BY <2>2 DEF NotWorthIt, TooFew
    <3>2. Covers([p EXCEPT !.at = "delete"], ltm')
      BY <3>1, <1>0 DEF Covers, Promotion
    <3>. QED BY <3>1, <3>2, NothingCovers, PromReturns
  <2>3. CASE Summarise(k)
    <3>1. CASE PromGoto(k, "copy")
      <4>1. Covers([p EXCEPT !.at = "copy"], ltm')
        BY <1>0, <2>3 DEF Covers, Promotion, Summarise
      <4>. QED BY <3>1, <4>1, PromGoes
    <3>2. CASE ~PromGoto(k, "copy")
      <4>1. PICK one \in (SUBSET p.read) \ {{}} :
                prom' = [prom EXCEPT ![k].at = "insights",
                                     ![k].parts = {one, p.read \ one} \ {{}}]
        BY <2>3, <3>2 DEF Summarise
      <4>. DEFINE parts == {one, p.read \ one} \ {{}}
      <4>2. p.read \subseteq UNION parts /\ parts # {}
        OBVIOUS
      <4>. HIDE DEF parts
      <4>3. /\ prom'[k].at = "insights" /\ prom'[k].parts = parts /\ prom'[k].read = p.read
            /\ \A j \in Background \cup Archivers : j # k => prom'[j] = prom[j]
        BY <4>1, <1>0 DEF StmTypeOK, Promotion, parts
      <4>. QED BY <4>2, <4>3 DEF Covers
    <3>. QED BY <3>1, <3>2
  <2>4. CASE StoreInsight(k)
    <3>1. PICK those \in p.parts :
            \/ /\ ltm' = ltm \cup those
               /\ prom' = [prom EXCEPT ![k].parts = @ \ {those}, ![k].good = TRUE]
            \/ /\ prom' = [prom EXCEPT ![k].parts = @ \ {those}, ![k].failed = @ \cup those]
               /\ UNCHANGED ltm
      BY <2>4 DEF StoreInsight
    <3>2. /\ prom'[k].at = "insights" /\ prom'[k].parts = p.parts \ {those}
          /\ prom'[k].read = p.read
          /\ \/ prom'[k].failed = p.failed \cup those /\ ltm' = ltm
             \/ prom'[k].failed = p.failed /\ ltm' = ltm \cup those
          /\ \A j \in Background \cup Archivers : j # k => prom'[j] = prom[j]
      BY <2>4, <3>1, <1>0 DEF StoreInsight, StmTypeOK, Promotion
    <3>3. p.read \ p.failed \subseteq ltm \cup UNION p.parts
      BY <2>4, <1>0 DEF StoreInsight, Covers
    <3>4. UNION p.parts \subseteq those \cup UNION (p.parts \ {those})
      OBVIOUS
    <3>. QED BY <3>2, <3>3, <3>4 DEF Covers
  <2>5. CASE InsightsStored(k)
    <3>1. p.parts = {} /\ p.read \ p.failed \subseteq ltm
      BY <2>5, <1>0 DEF InsightsStored, Covers
    <3>2. CASE p.good
      <4>1. Covers([p EXCEPT !.at = "clear"], ltm')
        BY <3>1, <3>2, <1>0, <1>1 DEF Covers, Promotion
      <4>. QED BY <2>5, <3>2, <4>1, PromGoes DEF InsightsStored
    <3>3. CASE ~p.good
      <4>1. Covers([p EXCEPT !.at = "delete"], ltm')
        BY <3>1, <3>3, <1>0, <1>1 DEF Covers, Promotion
      <4>. QED BY <2>5, <3>3, <4>1, NothingCovers, PromReturns DEF InsightsStored
    <3>. QED BY <3>2, <3>3
  <2>6. CASE DumbCopy(k)
    <3>1. CASE ltm' = ltm \cup p.read /\ PromReturn(k)
      <4>1. Covers([p EXCEPT !.at = "delete"], ltm')
        BY <3>1, <1>0 DEF Covers, Promotion
      <4>. QED BY <3>1, <4>1, NothingCovers, PromReturns
    <3>2. CASE ~(ltm' = ltm \cup p.read /\ PromReturn(k))
      <4>1. PICK got \in SUBSET p.read :
               /\ ltm' = ltm \cup got
               /\ prom' = [prom EXCEPT
                             ![k] = IF k \in Archivers
                                    THEN [@ EXCEPT !.at = "delete", !.failed = p.read \ got]
                                    ELSE NoPromotion]
        BY <2>6, <3>2 DEF DumbCopy
      <4>. DEFINE q == IF k \in Archivers
                       THEN [p EXCEPT !.at = "delete", !.failed = p.read \ got]
                       ELSE NoPromotion
      <4>2. q \in Promotion /\ Covers(q, ltm')
        BY <1>0, <4>1, NoPromotionType, NothingCovers DEF Promotion, Covers
      <4>3. prom' = [prom EXCEPT ![k] = q]
        BY <4>1 DEF StmTypeOK
      <4>. HIDE DEF q
      <4>. QED BY <4>2, <4>3, PromSet
    <3>. QED BY <3>1, <3>2
  <2>7. CASE ClearRoom(k)
    <3>1. PICK r \in p.clear : prom' = [prom EXCEPT ![k].clear = @ \ {r}]
      BY <2>7 DEF ClearRoom
    <3>2. \A j \in Background \cup Archivers : j # k => prom'[j] = prom[j]
      BY <3>1, <1>0 DEF StmTypeOK, Promotion
    <3>3. /\ prom'[k].at = "clear" /\ prom'[k].good = p.good /\ prom'[k].failed = p.failed
          /\ prom'[k].read = p.read
      BY <2>7, <3>1, <1>0 DEF ClearRoom, StmTypeOK, Promotion
    <3>. QED BY <2>7, <3>2, <3>3, <1>0, <1>1 DEF ClearRoom, Covers
  <2>8. CASE Cleared(k)
    <3>1. Covers([p EXCEPT !.at = "delete"], ltm')
      BY <2>8, <1>0, <1>1 DEF Cleared, Covers, Promotion
    <3>. QED BY <2>8, <3>1, NothingCovers, PromReturns DEF Cleared
  <2>. QED BY <2>1, <2>2, <2>3, <2>4, <2>5, <2>6, <2>7, <2>8 DEF PromoteStep
<1>. QED BY <1>0, <1>1, <1>2, CoversGrows DEF PromotionsCover

(* The archive before and after the promotion. *)
LEMMA ArchiveCovers ==
    ASSUME StmTypeOK, PromotionsCover, NEW a \in Archivers, ArchiveStep(a)
    PROVE  PromotionsCover'
<1>. DEFINE p == prom[a]
<1>0. p \in Promotion /\ Covers(p, ltm) /\ ltm' = ltm
  BY DEF PromotionsCover, StmTypeOK, ArchiveStep
<1>1. ASSUME p.at \in {"idle", "check", "open"}
      PROVE  /\ \A where \in {"idle", "check", "open", "delete"} : Covers([p EXCEPT !.at = where], ltm)
             /\ Covers([p EXCEPT !.at = "read", !.rooms = RoomsToRead], ltm)
  <2>1. p.read = {} /\ ~p.good /\ p.failed = {}
    BY <1>0, <1>1 DEF Covers
  <2>2. Cardinality(p.read) < Threshold
    BY <2>1, FS_EmptySet, StmAssumption
  <2>. QED BY <2>1, <2>2, <1>0 DEF Covers, Promotion
<1>2. /\ Covers(prom'[a], ltm)
      /\ \A j \in Background \cup Archivers : j # a => prom'[j] = prom[j]
  <2>1. CASE ArchiveFind(a)
    BY <2>1, <1>1, PromGoes DEF ArchiveFind
  <2>2. CASE ArchiveCheck(a)
    <3>1. PromGoto(a, "open") \/ PromGoto(a, "idle") \/ PromGoto(a, "delete")
      BY <2>2 DEF ArchiveCheck
    <3>2. p.at = "check"
      BY <2>2 DEF ArchiveCheck
    <3>. QED BY <3>1, <3>2, <1>1, PromGoes
  <2>3. CASE ArchiveOpen(a)
    <3>1. [p EXCEPT !.at = "read", !.rooms = RoomsToRead] \in Promotion
      BY <1>0 DEF Promotion, RoomsToRead
    <3>2. \/ prom' = [prom EXCEPT ![a] = [p EXCEPT !.at = "read", !.rooms = RoomsToRead]]
          \/ PromGoto(a, "delete")
      BY <2>3 DEF ArchiveOpen, StmTypeOK
    <3>3. p.at = "open"
      BY <2>3 DEF ArchiveOpen
    <3>. QED BY <3>1, <3>2, <3>3, <1>1, PromSet, PromGoes
  <2>4. CASE ArchiveDelete(a)
    BY <2>4, NoPromotionType, NothingCovers, PromSet DEF ArchiveDelete
  <2>. QED BY <2>1, <2>2, <2>3, <2>4 DEF ArchiveStep
<1>. QED BY <1>0, <1>2 DEF PromotionsCover

(* Items before and after the deletion of the files. *)
LEMMA ArchiveEffect ==
    ASSUME StmTypeOK, PromotionsCover, NEW a \in Archivers, ArchiveStep(a)
    PROVE  /\ \A r \in Reasons : lost[r] \subseteq lost'[r]
           /\ Reachable \subseteq Reachable' \cup ltm' \cup Excused'
<1>1. UNCHANGED <<drawers, ltm, opened>>
  BY DEF ArchiveStep, storeVars
<1>2. CASE ArchiveDelete(a) /\ ~opened
  <2>1. Copied(a) \subseteq ltm
    <3>1. Covers(prom[a], ltm) /\ prom[a].at = "delete"
      BY <1>2 DEF PromotionsCover, ArchiveDelete
    <3>. QED BY <3>1 DEF Copied, TooFew, Covers
  <2>2. /\ lost'["history"] = lost["history"] \cup InRoom("history")
        /\ lost'["archived"] = lost["archived"] \cup (drawers \ (InRoom("history") \cup Copied(a)))
        /\ \A r \in Reasons : r \notin {"history", "archived"} => lost'[r] = lost[r]
    BY <1>2 DEF ArchiveDelete, StmTypeOK, Reasons
  <2>3. drawers \subseteq ltm \cup Excused'
    BY <2>1, <2>2 DEF Excused, InRoom, StmTypeOK
  <2>. QED BY <1>1, <2>2, <2>3 DEF Reachable, Reasons
<1>3. CASE ~(ArchiveDelete(a) /\ ~opened)
  <2>1. lost' = lost /\ (opened \/ (path = "session" => path' = "session"))
    BY <1>3 DEF ArchiveStep, ArchiveFind, ArchiveCheck, ArchiveOpen, ArchiveDelete
  <2>. QED BY <1>1, <2>1 DEF Reachable
<1>. QED BY <1>2, <1>3
-----------------------------------------------------------------------------
(* The parts of the invariant *)

LEMMA NumbersStay ==
    ASSUME StmTypeOK, NumbersLeft, acked' = acked, Busy' \subseteq Busy
    PROVE  NumbersLeft'
<1>1. IsFiniteSet(Busy)
  BY StmAssumption, FS_Subset DEF Busy
<1>2. Cardinality(Busy') <= Cardinality(Busy) /\ Cardinality(Busy) \in Nat
      /\ Cardinality(Busy') \in Nat /\ Cardinality(acked) \in Nat
  BY <1>1, FS_Subset, FS_CardinalityType DEF NumbersLeft
<1>. QED BY <1>2, StmAssumption DEF NumbersLeft

LEMMA StoreNumbers ==
    ASSUME StmTypeOK, NumbersLeft, NEW w \in Writers, StoreStep(w)
    PROVE  NumbersLeft'
<1>1. CASE Insert(w)
  <2>. DEFINE item == [id |-> Cardinality(acked) + 1, room |-> writer[w].room]
  <2>1. acked' = acked \cup {item} /\ Busy' = Busy \ {w} /\ w \in Busy
    BY <1>1 DEF Insert, StoreGoto, Busy, StmTypeOK, Writer
  <2>2. IsFiniteSet(Busy)
    BY StmAssumption, FS_Subset DEF Busy
  <2>3. Cardinality(Busy') = Cardinality(Busy) - 1
    BY <2>1, <2>2, FS_RemoveElement
  <2>4. IsFiniteSet(acked') /\ Cardinality(acked') <= Cardinality(acked) + 1
    <3>1. PICK x : acked' = acked \cup {x}
      BY <2>1
    <3>2. IsFiniteSet(acked) /\ Cardinality(acked) \in Nat
      BY FS_CardinalityType DEF NumbersLeft
    <3>. QED BY <3>1, <3>2, FS_AddElement
  <2>. QED BY <2>2, <2>3, <2>4, FS_CardinalityType, StmAssumption DEF NumbersLeft
<1>2. CASE Peek(w) \/ LookUp(w) \/ Make(w) \/ ClearSummary(w)
  <2>1. acked' = acked /\ Busy' \subseteq Busy
    BY <1>2 DEF Peek, LookUp, Make, ClearSummary, StoreGoto, storeVars, Busy, StmTypeOK, Writer
  <2>. QED BY <2>1, NumbersStay
<1>. QED BY <1>1, <1>2 DEF StoreStep

LEMMA BeginNumbers ==
    ASSUME StmTypeOK, NumbersLeft, NEW w \in Writers, NEW r \in Rooms, StoreBegin(w, r)
    PROVE  NumbersLeft'
<1>1. acked' = acked /\ Busy' = Busy \cup {w} /\ w \notin Busy
  BY DEF StoreBegin, storeVars, Busy, StmTypeOK, Writer
<1>2. Cardinality(acked) + Cardinality(Busy) < MaxItems
  BY DEF StoreBegin, Busy
<1>3. IsFiniteSet(Busy)
  BY StmAssumption, FS_Subset DEF Busy
<1>4. Cardinality(Busy') = Cardinality(Busy) + 1
  BY <1>1, <1>3, FS_AddElement
<1>. QED BY <1>1, <1>2, <1>3, <1>4, FS_CardinalityType, StmAssumption DEF NumbersLeft

(* Fewer items and no new work leave the store of the summary as it was. *)
LEMMA SummaryStays ==
    ASSUME SummaryInv, drawers' \subseteq drawers, made' = made,
           \A w \in Writers : writer'[w] = writer[w] \/ writer'[w] = Quiet
                              \/ writer'[w] = [writer[w] EXCEPT !.at = "idle"],
           writer \in [Writers -> Writer]
    PROVE  SummaryInv'
<1>1. InRoom("compressed")' \subseteq InRoom("compressed")
  BY DEF InRoom
<1>2. \A w \in Writers : writer'[w] = writer[w] \/ writer'[w].at = "idle"
  <2>1. \A w \in Writers : [writer[w] EXCEPT !.at = "idle"].at = "idle"
    BY DEF Writer
  <2>2. Quiet.at = "idle"
    BY DEF Quiet
  <2>. QED BY <2>1, <2>2
<1>3. \A w \in Writers : Summarises(w)' => Summarises(w) /\ writer'[w] = writer[w]
  BY <1>2 DEF Summarises, Busy
<1>. QED BY <1>1, <1>2, <1>3 DEF SummaryInv

(* What becomes of one writer and its summary. *)
LEMMA StoreSummary ==
    ASSUME StmTypeOK, SummaryInv, NEW w \in Writers, StoreStep(w)
    PROVE  SummaryInv'
<1>. DEFINE C == InRoom("compressed")
<1>1. \A v \in Writers : v # w => writer'[v] = writer[v] /\ (Summarises(v)' <=> Summarises(v))
  BY DEF StoreStep, Peek, LookUp, Make, ClearSummary, Insert, StoreGoto, StmTypeOK,
         Summarises, Busy
<1>2. /\ writer'[w].room = writer[w].room
      /\ writer[w].at # "idle"
      /\ Summarises(w)' <=> (writer'[w].at # "idle" /\ Summarises(w))
  BY DEF StoreStep, Peek, LookUp, Make, ClearSummary, Insert, StoreGoto, StmTypeOK, Writer,
         Summarises, Busy
<1>3. \A u, v \in Writers : Summarises(u)' /\ Summarises(v)' => u = v
  BY <1>1, <1>2 DEF SummaryInv
<1>4. CASE Peek(w)
  <2>1. UNCHANGED <<made, drawers>> /\ writer[w].at = "peek"
        /\ writer'[w].at = IF {"wing", "compressed"} \subseteq made THEN "clear" ELSE "wing"
    BY <1>4 DEF Peek, StoreGoto, storeVars, StmTypeOK, Writer
  <2>2. C' = C
    BY <2>1 DEF InRoom
  <2>. QED BY <1>1, <1>2, <1>3, <2>1, <2>2 DEF SummaryInv
<1>5. CASE LookUp(w)
  <2>1. UNCHANGED <<made, drawers>>
        /\ \/ /\ writer[w].at = "wing"
              /\ writer'[w].at = IF "wing" \in made THEN "room" ELSE "newWing"
           \/ /\ writer[w].at = "room"
              /\ writer'[w].at = IF writer[w].room \in made THEN "insert" ELSE "newRoom"
    BY <1>5 DEF LookUp, StoreGoto, storeVars, StmTypeOK, Writer
  <2>2. C' = C
    BY <2>1 DEF InRoom
  <2>3. Summarises(w) => writer[w].room = "compressed"
    BY DEF Summarises
  <2>. QED BY <1>1, <1>2, <1>3, <2>1, <2>2, <2>3 DEF SummaryInv
<1>6. CASE Make(w)
  <2>1. UNCHANGED drawers
        /\ \/ /\ writer[w].at = "newWing" /\ made' = made \cup {"wing"}
              /\ writer'[w].at \in {"idle", "room"}
           \/ /\ writer[w].at = "newRoom" /\ made' = made \cup {writer[w].room}
              /\ writer'[w].at = IF writer[w].room \in made THEN "idle" ELSE "insert"
    BY <1>6 DEF Make, StoreGoto, StmTypeOK, Writer
  <2>2. C' = C
    BY <2>1 DEF InRoom
  <2>3. Summarises(w) <=> writer[w].room = "compressed"
    BY <1>2 DEF Summarises, Busy
  <2>4. "compressed" \in made' => "wing" \in made'
    BY <2>1 DEF SummaryInv
  <2>5. CASE writer[w].at = "newWing"
    BY <1>1, <1>2, <1>3, <2>1, <2>2, <2>3, <2>4, <2>5 DEF SummaryInv
  <2>6. CASE writer[w].at = "newRoom"
    <3>1. /\ \A i, j \in C' : i = j
          /\ C' # {} => "compressed" \in made'
      BY <2>1, <2>2 DEF SummaryInv
    <3>2. ASSUME NEW v \in Writers
          PROVE  /\ writer'[v].at \in {"room", "newRoom", "clear", "insert"} => "wing" \in made'
                 /\ Summarises(v)' /\ writer'[v].at \in {"wing", "newWing", "room", "newRoom"}
                       => "compressed" \notin made'
                 /\ Summarises(v)' /\ writer'[v].at \in {"clear", "insert"}
                       => "compressed" \in made'
                 /\ Summarises(v)' /\ writer'[v].at = "insert" => C' = {}
      <4>1. CASE v = w
        BY <4>1, <1>2, <2>1, <2>2, <2>3, <2>6 DEF SummaryInv
      <4>2. CASE v # w
        BY <4>2, <1>1, <1>2, <2>1, <2>2, <2>3, <2>6 DEF SummaryInv
      <4>. QED BY <4>1, <4>2
    <3>. QED BY <3>1, <3>2, <1>3, <2>4 DEF SummaryInv
  <2>. QED BY <2>1, <2>5, <2>6
<1>7. CASE ClearSummary(w)
  <2>1. made' = made /\ drawers' = drawers \ C /\ writer[w].at = "clear"
        /\ writer'[w].at = "insert"
    BY <1>7 DEF ClearSummary, StoreGoto, StmTypeOK, Writer
  <2>2. C' = {}
    BY <2>1 DEF InRoom
  <2>. QED BY <1>1, <1>2, <1>3, <2>1, <2>2 DEF SummaryInv
<1>8. CASE Insert(w)
  <2>. DEFINE item == [id |-> Cardinality(acked) + 1, room |-> writer[w].room]
  <2>1. made' = made /\ drawers' = drawers \cup {item} /\ writer[w].at = "insert"
        /\ writer'[w].at = "idle"
    BY <1>8 DEF Insert, StoreGoto, StmTypeOK, Writer
  <2>2. CASE writer[w].room = "compressed"
    <3>1. Summarises(w)
      BY <2>1, <2>2 DEF Summarises, Busy
    <3>2. C = {} /\ "compressed" \in made
      BY <2>1, <3>1 DEF SummaryInv
    <3>3. C' \subseteq {item}
      BY <2>1, <3>2 DEF InRoom
    <3>4. \A v \in Writers : ~Summarises(v)'
      BY <1>1, <1>2, <2>1, <3>1 DEF SummaryInv
    <3>. QED BY <1>1, <1>2, <1>3, <2>1, <3>2, <3>3, <3>4 DEF SummaryInv
  <2>3. CASE writer[w].room # "compressed"
    <3>1. C' = C
      BY <2>1, <2>3 DEF InRoom
    <3>. QED BY <1>1, <1>2, <1>3, <2>1, <3>1 DEF SummaryInv
  <2>. QED BY <2>2, <2>3
<1>. QED BY <1>4, <1>5, <1>6, <1>7, <1>8 DEF StoreStep

LEMMA BeginSummary ==
    ASSUME StmTypeOK, SummaryInv, NEW w \in Writers, NEW r \in Rooms, StoreBegin(w, r)
    PROVE  SummaryInv'
<1>1. /\ UNCHANGED <<made, drawers>>
      /\ writer'[w] = [at |-> IF r = "compressed" THEN "peek" ELSE "wing", room |-> r]
      /\ \A v \in Writers : v # w => writer'[v] = writer[v]
      /\ r = "compressed" => CompressMuFree
  BY DEF StoreBegin, storeVars, StmTypeOK
<1>2. InRoom("compressed")' = InRoom("compressed")
  BY <1>1 DEF InRoom
<1>3. \A v \in Writers : v # w => (Summarises(v)' <=> Summarises(v))
  BY <1>1 DEF Summarises, Busy
<1>4. Summarises(w)' <=> r = "compressed"
  BY <1>1 DEF Summarises, Busy
<1>5. r = "compressed" => \A v \in Writers : ~Summarises(v)
  BY <1>1 DEF CompressMuFree, Summarises, Busy
<1>. QED BY <1>1, <1>2, <1>3, <1>4, <1>5 DEF SummaryInv

(* No item loses its trace when what could be read still can be, or is safe. *)
LEMMA TraceStays ==
    ASSUME KeepsTrace, acked' = acked, drawers' \subseteq drawers, ltm \subseteq ltm',
           Excused \subseteq Excused', Reachable \subseteq Reachable' \cup ltm' \cup Excused'
    PROVE  KeepsTrace'
BY DEF KeepsTrace, Replaced

LEMMA KeptStays ==
    ASSUME DrawersKept, acked' = acked, drawers' \subseteq drawers, ltm \subseteq ltm',
           lost["cleared"] \subseteq lost'["cleared"],
           drawers \subseteq drawers' \cup ltm' \cup lost'["cleared"]
    PROVE  DrawersKept'
BY DEF DrawersKept, Replaced

LEMMA StoreTrace ==
    ASSUME StmTypeOK, HandleOpen, KeepsTrace, DrawersKept, NEW w \in Writers, StoreStep(w)
    PROVE  KeepsTrace' /\ DrawersKept'
<1>1. opened /\ opened' /\ UNCHANGED <<ltm, lost>>
  <2>1. w \in Busy
    BY DEF StoreStep, Peek, LookUp, Make, ClearSummary, Insert, Busy
  <2>. QED BY <2>1 DEF StoreStep, HandleOpen, StmTypeOK
<1>2. Reachable = drawers /\ Reachable' = drawers' /\ Excused' = Excused
  BY <1>1 DEF Reachable, Excused
<1>3. CASE Peek(w) \/ LookUp(w) \/ Make(w)
  BY <1>1, <1>2, <1>3 DEF Peek, LookUp, Make, storeVars, KeepsTrace, DrawersKept, Replaced
<1>4. CASE ClearSummary(w)
  BY <1>1, <1>2, <1>4 DEF ClearSummary, InRoom, KeepsTrace, DrawersKept, Replaced
<1>5. CASE Insert(w)
  BY <1>1, <1>2, <1>5 DEF Insert, KeepsTrace, DrawersKept, Replaced
<1>. QED BY <1>3, <1>4, <1>5 DEF StoreStep
-----------------------------------------------------------------------------
(* The invariant *)

LEMMA StmInitInv ==
    ASSUME StmInit
    PROVE  StmInv
<1>1. StmTypeOK
  <2>1. Quiet \in Writer
    BY CompressedIsARoom DEF Quiet, Writer
  <2>2. /\ writer \in [Writers -> Writer]
        /\ prom \in [Background \cup Archivers -> Promotion]
    BY <2>1, NoPromotionType DEF StmInit
  <2>3. faults \in 0 .. MaxFaults
    BY StmAssumption DEF StmInit
  <2>. QED BY <2>2, <2>3 DEF StmInit, StmTypeOK
<1>2. Busy = {} /\ \A r : InRoom(r) = {}
  BY DEF StmInit, Busy, Quiet, InRoom
<1>3. NumbersLeft
  BY <1>2, FS_EmptySet, StmAssumption DEF StmInit, NumbersLeft
<1>4. HandleOpen /\ CastInv /\ KeepsTrace /\ DrawersKept /\ CloseInv
  BY <1>2 DEF StmInit, HandleOpen, CastInv, KeepsTrace, DrawersKept, CloseInv, CloseKeepsAll
<1>5. SummaryInv
  BY <1>2 DEF StmInit, SummaryInv, Quiet, Summarises
<1>6. PromotionsCover
  BY NothingCovers DEF StmInit, PromotionsCover
<1>. QED BY <1>1, <1>3, <1>4, <1>5, <1>6 DEF StmInv

LEMMA StoreInvStep ==
    ASSUME StmInv, cast' = cast, NEW w \in Writers, StoreStep(w)
    PROVE  StmInv'
<1>1. StmTypeOK' /\ NumbersLeft' /\ SummaryInv' /\ KeepsTrace' /\ DrawersKept'
  BY StoreTypes, StoreNumbers, StoreSummary, StoreTrace DEF StmInv
<1>2. w \in Busy /\ UNCHANGED <<owner, opened, prom, ltm, lost, drained, faults, farewell>>
  BY DEF StoreStep, Peek, LookUp, Make, ClearSummary, Insert, Busy
<1>3. HandleOpen'
  BY <1>2 DEF StmInv, HandleOpen, Exited, StmTypeOK
<1>4. PromotionsCover'
  BY <1>2 DEF StmInv, PromotionsCover
<1>5. /\ writer'[w].room = writer[w].room
      /\ \A v \in Writers : v # w => writer'[v] = writer[v]
  BY DEF StoreStep, Peek, LookUp, Make, ClearSummary, Insert, StoreGoto, StmInv, StmTypeOK, Writer
<1>6. CastInv'
  BY <1>2, <1>5 DEF StmInv, CastInv, Busy
<1>7. CloseInv'
  <2>. SUFFICES ASSUME faults = 0 PROVE CloseInv'
    BY <1>2 DEF CloseInv, CloseKeepsAll
  <2>1. owner # "closed" /\ Uncut(writer[w].room)
    BY DEF StoreStep, Exited
  <2>2. owner \in {"reading", "copying"} => w \notin Streams
    BY <1>2 DEF StmInv, CloseInv, AtRest, Busy
  <2>3. AtRest /\ w \notin Streams => AtRest'
    BY <1>2, <1>5 DEF AtRest, Writers
  <2>4. owner # "up" => writer[w].room = "history"
    BY <2>1 DEF Uncut
  <2>5. owner = "copying" => drawers' \subseteq farewell \cup late'
    BY DEF StoreStep, Peek, LookUp, Make, ClearSummary, Insert, storeVars, StmInv, CloseInv
  <2>6. \A i \in late' : i.room = "history" /\ Prompts \cap cast # {}
    <3>1. CASE owner = "copying" /\ Insert(w)
      <4>1. w \in Prompts /\ w \in cast
        BY <1>2, <2>2, <2>4, <3>1, CompressedIsARoom DEF StmInv, CastInv, Writers
      <4>. QED BY <2>4, <3>1, <4>1 DEF Insert, StmInv, CloseInv
    <3>2. CASE ~(owner = "copying" /\ Insert(w))
      <4>1. late' = late
        BY <3>2 DEF StoreStep, Peek, LookUp, Make, ClearSummary, Insert, storeVars, StmInv, CloseInv
      <4>. QED BY <4>1 DEF StmInv, CloseInv
    <3>. QED BY <3>1, <3>2
  <2>. QED BY <1>2, <2>1, <2>2, <2>3, <2>5, <2>6 DEF StmInv, CloseInv, CloseKeepsAll
<1>. QED BY <1>1, <1>3, <1>4, <1>6, <1>7 DEF StmInv

LEMMA BeginInvStep ==
    ASSUME StmInv, cast' = cast, NEW w \in Writers, w \in cast, NEW r \in Rooms, StoreBegin(w, r)
    PROVE  StmInv'
<1>1. StmTypeOK' /\ NumbersLeft' /\ SummaryInv'
  BY BeginTypes, BeginNumbers, BeginSummary DEF StmInv
<1>2. /\ opened' /\ ~Exited
      /\ UNCHANGED <<owner, drawers, acked, late, prom, farewell, ltm, lost, drained, faults>>
  BY DEF StoreBegin, MayStore, storeVars
<1>3. writer'[w].room = r /\ \A v \in Writers : v # w => writer'[v] = writer[v]
  BY DEF StoreBegin, StmInv, StmTypeOK
<1>4. HandleOpen' /\ CastInv'
  BY <1>2, <1>3 DEF HandleOpen, CastInv, Busy, StmInv, StoreBegin, MayStore
<1>5. CloseInv'
  <2>1. drained /\ AtRest => AtRest'
    BY <1>2, <1>3, StmAssumption DEF AtRest, StoreBegin, MayStore, Writers
  <2>. QED BY <1>2, <2>1 DEF StmInv, CloseInv, CloseKeepsAll, Exited
<1>6. PromotionsCover'
  BY <1>2 DEF StmInv, PromotionsCover
<1>7. KeepsTrace' /\ DrawersKept'
  <2>1. Reachable \subseteq Reachable' /\ Excused' = Excused
    BY <1>2 DEF Reachable, Excused
  <2>. QED BY <1>2, <2>1, TraceStays, KeptStays DEF StmInv
<1>. QED BY <1>1, <1>4, <1>5, <1>6, <1>7 DEF StmInv

LEMMA CutInvStep ==
    ASSUME StmInv, cast' = cast, NEW w \in Writers, StoreCut(w)
    PROVE  StmInv'
<1>1. StmTypeOK'
  BY BeginTypes DEF StmInv
<1>2. UNCHANGED <<owner, opened, path, made, drawers, acked, late, prom, farewell, ltm, lost,
                  drained, faults>>
  BY DEF StoreCut, fileVars, storeVars
<1>3. \A v \in Writers : writer'[v] = writer[v] \/ writer'[v] = [writer[v] EXCEPT !.at = "idle"]
  BY DEF StoreCut, StoreGoto, StmInv, StmTypeOK
<1>4. /\ Busy' \subseteq Busy
      /\ \A v \in Writers : writer'[v].room = writer[v].room
  BY <1>3 DEF Busy, StmInv, StmTypeOK, Writer
<1>5. NumbersLeft' /\ HandleOpen' /\ CastInv'
  <2>1. NumbersLeft'
    BY <1>2, <1>4, NumbersStay DEF StmInv
  <2>2. HandleOpen'
    BY <1>2, <1>4 DEF StmInv, HandleOpen, Exited
  <2>3. CastInv'
    <3>1. Busy' \subseteq Writers
      BY DEF Busy
    <3>. QED BY <1>4, <3>1 DEF StmInv, CastInv
  <2>. QED BY <2>1, <2>2, <2>3
<1>6. SummaryInv'
  BY <1>2, <1>3, SummaryStays DEF StmInv, StmTypeOK
<1>7. KeepsTrace' /\ DrawersKept' /\ PromotionsCover'
  BY <1>2, TraceStays, KeptStays DEF StmInv, PromotionsCover, Reachable, Excused
<1>8. CloseInv'
  <2>1. AtRest => AtRest'
    BY <1>2, <1>3 DEF AtRest, Writers, StmInv, StmTypeOK, Writer
  <2>. QED BY <1>2, <2>1 DEF StmInv, CloseInv, CloseKeepsAll
<1>. QED BY <1>1, <1>5, <1>6, <1>7, <1>8 DEF StmInv

LEMMA StartInvStep ==
    ASSUME StmInv, cast' = cast, NEW k \in Background, PromoteStart(k)
    PROVE  StmInv'
<1>1. /\ UNCHANGED <<owner, opened, path, made, drawers, acked, late, writer, ltm, lost, faults>>
      /\ owner = "up"
  BY DEF PromoteStart, fileVars, storeVars
<1>2. StmTypeOK'
  BY BeginTypes DEF StmInv
<1>3. NumbersLeft' /\ HandleOpen' /\ CastInv'
  BY <1>1 DEF StmInv, NumbersLeft, HandleOpen, CastInv, Busy, Exited
<1>4. SummaryInv'
  BY <1>1, SummaryStays DEF StmInv, StmTypeOK
<1>5. KeepsTrace' /\ DrawersKept'
  BY <1>1, TraceStays, KeptStays DEF StmInv, Reachable, Excused
<1>6. PromotionsCover'
  <2>. DEFINE p == prom[k]
  <2>1. p \in Promotion /\ Covers(p, ltm) /\ p.at = "idle"
    BY DEF StmInv, StmTypeOK, PromotionsCover, PromoteStart
  <2>2. /\ prom'[k] = [p EXCEPT !.at = "read", !.rooms = RoomsToRead]
        /\ \A j \in Background \cup Archivers : j # k => prom'[j] = prom[j]
    BY DEF PromoteStart, StmInv, StmTypeOK
  <2>3. Covers(prom'[k], ltm)
    BY <2>1, <2>2 DEF Covers, Promotion
  <2>. QED BY <1>1, <2>2, <2>3 DEF StmInv, PromotionsCover
<1>7. CloseInv'
  BY <1>1 DEF StmInv, CloseInv, CloseKeepsAll
<1>. QED BY <1>2, <1>3, <1>4, <1>5, <1>6, <1>7 DEF StmInv

LEMMA PromoteInvStep ==
    ASSUME StmInv, cast' = cast, NEW k \in Background \cup Archivers, PromoteStep(k)
    PROVE  StmInv'
<1>1. UNCHANGED <<owner, opened, path, made, acked, late, writer, farewell, drained>>
  BY DEF PromoteStep, fileVars
<1>2. /\ drawers' \subseteq drawers /\ ltm \subseteq ltm' /\ Excused \subseteq Excused'
      /\ lost["cleared"] \subseteq lost'["cleared"]
      /\ drawers \subseteq drawers' \cup ltm' \cup {i \in lost'["cleared"] : i.room # "history"}
      /\ faults' >= faults
  BY PromoteEffect, ExcusedGrows DEF StmInv, Reasons
<1>3. StmTypeOK' /\ PromotionsCover'
  BY PromoteTypes, PromoteCovers DEF StmInv
<1>4. NumbersLeft' /\ HandleOpen' /\ CastInv'
  BY <1>1, <1>2 DEF StmInv, NumbersLeft, HandleOpen, CastInv, Busy, Exited
<1>5. SummaryInv'
  BY <1>1, <1>2, SummaryStays DEF StmInv, StmTypeOK
<1>6. KeepsTrace' /\ DrawersKept'
  <2>1. drawers \subseteq drawers' \cup ltm' \cup Excused'
    BY <1>2 DEF Excused, StmInv, StmTypeOK
  <2>2. Reachable \subseteq Reachable' \cup ltm' \cup Excused'
    BY <1>1, <2>1 DEF Reachable
  <2>. QED BY <1>1, <1>2, <2>2, TraceStays, KeptStays DEF StmInv
<1>7. CloseInv'
  <2>. SUFFICES ASSUME faults' = 0 PROVE CloseInv'
      BY DEF CloseInv
  <2>1. faults = 0
    BY <1>2, StmAssumption DEF StmInv, StmTypeOK
  <2>2. AtRest => AtRest'
    <3>1. SUFFICES ASSUME AtRest, NEW j \in Background PROVE prom'[j].at = "idle"
      BY <1>1 DEF AtRest
    <3>2. prom[k].at # "idle" /\ \A i \in Background \cup Archivers : i # k => prom'[i] = prom[i]
      BY PromReturns, PromGoes DEF PromoteStep, ReadRoom, NotWorthIt, Summarise, StoreInsight,
           InsightsStored, DumbCopy, ClearRoom, Cleared, StmInv, StmTypeOK
    <3>. QED BY <3>1, <3>2 DEF AtRest
  <2>3. CloseKeepsAll'
    BY <1>1, <1>2, <2>1 DEF StmInv, CloseInv, CloseKeepsAll
  <2>. QED BY <1>1, <1>2, <2>1, <2>2, <2>3 DEF StmInv, CloseInv
<1>. QED BY <1>3, <1>4, <1>5, <1>6, <1>7 DEF StmInv

LEMMA ArchiveInvStep ==
    ASSUME StmInv, cast' = cast, NEW a \in Archivers, ArchiveStep(a)
    PROVE  StmInv'
<1>1. UNCHANGED <<owner, opened, made, drawers, acked, late, writer, farewell, ltm, drained, faults>>
  BY DEF ArchiveStep, storeVars
<1>2. StmTypeOK' /\ PromotionsCover'
  BY ArchiveTypes, ArchiveCovers DEF StmInv
<1>3. /\ Excused \subseteq Excused' /\ Reachable \subseteq Reachable' \cup ltm' \cup Excused'
      /\ lost["cleared"] \subseteq lost'["cleared"]
  BY ArchiveEffect, ExcusedGrows DEF StmInv, Reasons
<1>4. NumbersLeft' /\ HandleOpen' /\ CastInv'
  BY <1>1 DEF StmInv, NumbersLeft, HandleOpen, CastInv, Busy, Exited
<1>5. SummaryInv'
  BY <1>1, SummaryStays DEF StmInv, StmTypeOK
<1>6. KeepsTrace' /\ DrawersKept'
  BY <1>1, <1>3, TraceStays, KeptStays DEF StmInv
<1>7. CloseInv'
  <2>1. AtRest => AtRest'
    <3>1. \A j \in Background : prom'[j] = prom[j]
      <4>1. \A j \in Background : j # a
        BY StmAssumption
      <4>. QED BY <4>1 DEF ArchiveStep, ArchiveFind, ArchiveCheck, ArchiveOpen, ArchiveDelete,
                    PromGoto, StmInv, StmTypeOK
    <3>. QED BY <1>1, <3>1 DEF AtRest
  <2>2. faults = 0 => CloseKeepsAll'
    BY <1>1, <1>3 DEF StmInv, CloseInv, CloseKeepsAll
  <2>. QED BY <1>1, <2>1, <2>2 DEF StmInv, CloseInv
<1>. QED BY <1>2, <1>4, <1>5, <1>6, <1>7 DEF StmInv

(* The handle is let go: what can no longer be read is excused. *)
LEMMA CloseTrace ==
    ASSUME StmTypeOK, KeepsTrace, DrawersKept, LetGo, UNCHANGED <<path, drawers, acked>>,
           ltm \subseteq ltm'
    PROVE  KeepsTrace' /\ DrawersKept' /\ lost["cleared"] \subseteq lost'["cleared"]
<1>1. \A r \in Reasons : lost[r] \subseteq lost'[r]
  BY DEF LetGo, StmTypeOK
<1>2. Reachable \subseteq Reachable' \cup Excused'
  <2>1. CASE path = "session"
    BY <2>1 DEF Reachable
  <2>2. CASE path # "session"
    <3>1. drawers \subseteq lost'["inUse"]
      BY <2>2 DEF LetGo, StmTypeOK, Reasons
    <3>. QED BY <3>1 DEF Reachable, Excused, StmTypeOK
  <2>. QED BY <2>1, <2>2
<1>. QED BY <1>1, <1>2, TraceStays, KeptStays, ExcusedGrows DEF Reasons

LEMMA CloseInvStep ==
    ASSUME StmInv, cast' = cast, CloseStep
    PROVE  StmInv'
<1>0. StmTypeOK' /\ UNCHANGED <<made, drawers, acked, late>>
  BY CloseTypes DEF StmInv, CloseStep, storeVars
<1>1. CASE CloseBegin \/ CloseWaited \/ CloseRead
  <2>1. /\ UNCHANGED <<opened, path, writer, prom, ltm, lost>> /\ ~Exited /\ ~Exited'
        /\ faults' >= faults
    BY <1>1 DEF CloseBegin, CloseWaited, CloseRead, fileVars, Exited, Fails, StmInv, StmTypeOK
  <2>2. NumbersLeft' /\ HandleOpen' /\ CastInv' /\ PromotionsCover'
    BY <1>0, <2>1 DEF StmInv, NumbersLeft, HandleOpen, CastInv, PromotionsCover, Busy
  <2>3. SummaryInv'
    BY <1>0, <2>1, SummaryStays DEF StmInv, StmTypeOK
  <2>4. KeepsTrace' /\ DrawersKept'
    BY <1>0, <2>1, TraceStays, KeptStays DEF StmInv, Reachable, Excused
  <2>5. CloseInv'
    <3>. SUFFICES ASSUME faults' = 0 PROVE CloseInv'
      BY DEF CloseInv
    <3>1. faults = 0 /\ ~Fails
      BY <2>1, StmAssumption DEF StmInv, StmTypeOK, Fails
    <3>2. AtRest => AtRest'
      BY <2>1 DEF AtRest
    <3>3. \A i \in late : i.room = "history" /\ Prompts \cap cast # {}
      BY <3>1 DEF StmInv, CloseInv
    <3>4. CASE CloseBegin
      BY <1>0, <3>3, <3>4 DEF CloseBegin, CloseInv, CloseKeepsAll
    <3>5. CASE CloseWaited
      BY <1>0, <3>1, <3>2, <3>3, <3>5 DEF CloseWaited, CloseInv, CloseKeepsAll
    <3>6. CASE CloseRead
      <4>1. owner' = "copying" /\ drained' /\ AtRest'
        BY <3>1, <3>2, <3>6 DEF CloseRead, StmInv, CloseInv
      <4>2. drawers \subseteq farewell'
        BY <2>1, <3>6 DEF CloseRead, StmInv, HandleOpen
      <4>. QED BY <1>0, <3>3, <4>1, <4>2 DEF CloseInv, CloseKeepsAll
    <3>. QED BY <1>1, <3>4, <3>5, <3>6
  <2>. QED BY <1>0, <2>2, <2>3, <2>4, <2>5 DEF StmInv
<1>2. CASE CloseCopy
  <2>1. /\ UNCHANGED <<path, writer, prom, drained, faults>> /\ LetGo /\ ltm \subseteq ltm'
        /\ Exited'
    BY <1>2 DEF CloseCopy, Exited
  <2>2. NumbersLeft' /\ HandleOpen' /\ CastInv'
    BY <1>0, <2>1 DEF StmInv, NumbersLeft, HandleOpen, CastInv, Busy
  <2>3. SummaryInv'
    BY <1>0, <2>1, SummaryStays DEF StmInv, StmTypeOK
  <2>4. KeepsTrace' /\ DrawersKept' /\ lost["cleared"] \subseteq lost'["cleared"]
    BY <1>0, <2>1, CloseTrace DEF StmInv
  <2>5. PromotionsCover'
    BY <2>1, CoversGrows DEF StmInv, PromotionsCover
  <2>6. CloseInv'
    <3>. SUFFICES ASSUME faults = 0 PROVE CloseInv'
      BY <2>1 DEF CloseInv, CloseKeepsAll
    <3>1. /\ AtRest' /\ drained' /\ owner' = "closed" /\ drawers \subseteq ltm' \cup late
          /\ \A i \in late : i.room = "history" /\ Prompts \cap cast # {}
      BY <1>2, <2>1 DEF CloseCopy, StmInv, CloseInv, AtRest
    <3>2. CloseKeepsAll'
      BY <1>0, <2>1, <2>4, <3>1 DEF StmInv, DrawersKept, Replaced, CloseKeepsAll
    <3>. QED BY <1>0, <3>1, <3>2 DEF CloseInv
  <2>. QED BY <1>0, <2>2, <2>3, <2>4, <2>5, <2>6 DEF StmInv
<1>3. CASE Crash
  <2>1. /\ UNCHANGED <<path, ltm, drained, faults>> /\ LetGo /\ owner' = "crashed"
        /\ \A v \in Writers : writer'[v] = Quiet
    BY <1>3 DEF Crash
  <2>2. Busy' = {}
    BY <2>1 DEF Busy, Quiet
  <2>3. NumbersLeft' /\ HandleOpen' /\ CastInv'
    BY <1>0, <2>1, <2>2, NumbersStay DEF StmInv, HandleOpen, CastInv, Exited
  <2>4. CloseInv'
    BY <1>0, <2>1 DEF StmInv, CloseInv, CloseKeepsAll
  <2>5. SummaryInv'
    BY <1>0, <2>1, SummaryStays DEF StmInv, StmTypeOK
  <2>6. KeepsTrace' /\ DrawersKept'
    BY <1>0, <2>1, CloseTrace DEF StmInv
  <2>7. PromotionsCover'
    <3>1. \A k \in Background \cup Archivers : prom'[k] = NoPromotion \/ prom'[k] = prom[k]
      BY <1>3 DEF Crash, StmInv, StmTypeOK
    <3>. QED BY <2>1, <3>1, NothingCovers DEF StmInv, PromotionsCover
  <2>. QED BY <1>0, <2>3, <2>4, <2>5, <2>6, <2>7 DEF StmInv
<1>. QED BY <1>1, <1>2, <1>3 DEF CloseStep

LEMMA StmStep ==
    ASSUME StmInv, [StmNext]_stmVars
    PROVE  StmInv'
<1>1. CASE StmNext
  <2>0. cast' = cast
    BY <1>1 DEF StmNext
  <2>1. CASE \E w \in Writers : StoreStep(w)
    BY <2>0, <2>1, StoreInvStep
  <2>2. CASE \E w \in Writers \cap cast, r \in Rooms : StoreBegin(w, r)
    BY <2>0, <2>2, BeginInvStep
  <2>3. CASE \E k \in Background : PromoteStart(k)
    BY <2>0, <2>3, StartInvStep
  <2>4. CASE \E k \in Background \cup Archivers : PromoteStep(k)
    BY <2>0, <2>4, PromoteInvStep
  <2>5. CASE \E a \in Archivers : ArchiveStep(a)
    BY <2>0, <2>5, ArchiveInvStep
  <2>6. CASE CloseStep
    BY <2>0, <2>6, CloseInvStep
  <2>7. CASE \E w \in Writers : StoreCut(w)
    BY <2>0, <2>7, CutInvStep
  <2>. QED BY <1>1, <2>1, <2>2, <2>3, <2>4, <2>5, <2>6, <2>7 DEF StmNext
<1>2. CASE UNCHANGED stmVars
  BY <1>2 DEF stmVars, StmInv, StmTypeOK, NumbersLeft, HandleOpen, SummaryInv, CastInv,
              KeepsTrace, DrawersKept, PromotionsCover, CloseInv, CloseKeepsAll, Busy, Exited,
              InRoom, Summarises, Replaced, Excused, Reachable, AtRest
<1>. QED BY <1>1, <1>2

THEOREM StmInvariant == StmSpec => []StmInv
<1>1. StmInit => StmInv
  BY StmInitInv
<1>2. StmInv /\ [StmNext]_stmVars => StmInv'
  BY StmStep
<1>. QED BY <1>1, <1>2, PTL DEF StmSpec
-----------------------------------------------------------------------------
(* The session's database, its users and the long-term memory stay within  *)
(* their types (stm.go, agent_stream.go, agent.go). *)
THEOREM StmTypesHold == StmSpec => []StmTypeOK
<1>1. StmInv => StmTypeOK
  BY DEF StmInv
<1>. QED BY <1>1, StmInvariant, PTL

(* No item that was stored disappears without a trace, whatever the        *)
(* promotions, Close, crashes and archives do to one another, for any      *)
(* number of goroutines and processes: it can be read, is in the long-term *)
(* memory, or went for one of the Reasons, and a message only with a file  *)
(* the archive deleted. *)
THEOREM NoItemForgotten == StmSpec => []NothingForgotten
<1>1. StmInv => NothingForgotten
  BY DEF StmInv, KeepsTrace, Replaced, Excused, NothingForgotten
<1>. QED BY <1>1, StmInvariant, PTL

(* StoreShortTermCompressed: at most one summary, with any number of       *)
(* goroutines that store one. *)
THEOREM AtMostOneSummary == StmSpec => []OneSummary
<1>1. ASSUME StmInv
      PROVE  OneSummary
  <2>1. \A i, j \in InRoom("compressed") : i = j
    BY <1>1 DEF StmInv, SummaryInv
  <2>2. CASE InRoom("compressed") = {}
    BY <2>2, FS_EmptySet DEF OneSummary
  <2>3. CASE InRoom("compressed") # {}
    <3>1. PICK i : InRoom("compressed") = {i}
      BY <2>1, <2>3
    <3>2. Cardinality({i}) = 1
      BY FS_Singleton
    <3>. QED BY <3>1, <3>2 DEF OneSummary
  <2>. QED BY <2>2, <2>3
<1>. QED BY <1>1, StmInvariant, PTL

(* Agent.Close copies everything that was stored, when nothing fails and   *)
(* no deadline passes, but for cleared items, old summaries and messages   *)
(* of prompts, for any number of streams, prompts and compressions. *)
THEOREM CloseKeepsEverything == StmSpec => []CloseKeepsAll
<1>1. StmInv => CloseKeepsAll
  BY DEF StmInv, CloseInv, CloseKeepsAll
<1>. QED BY <1>1, StmInvariant, PTL

(* What a process keeps in SQLite, the broker's tables and the session's   *)
(* database, stays within its types. *)
THEOREM StorageTypes == StorageSpec => []StorageTypeOK
<1>1. StorageInit => PubSubInv /\ StmInv
  BY InvInit, StmInitInv DEF StorageInit
<1>2. [StorageNext]_storageVars => [PubSubNext]_pubsubVars /\ [StmNext]_stmVars
  BY DEF StorageNext, storageVars, BrokerPart, SessionPart
<1>3. PubSubInv /\ StmInv /\ [StorageNext]_storageVars => (PubSubInv /\ StmInv)'
  BY <1>2, InvStep, StmStep
<1>4. PubSubInv /\ StmInv => StorageTypeOK
  BY DEF PubSubInv, StmInv, StorageTypeOK
<1>. QED BY <1>1, <1>3, <1>4, PTL DEF StorageSpec
=============================================================================
