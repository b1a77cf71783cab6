------------------------------- MODULE Skills -------------------------------
(* The skills of a workspace: the SKILL.md files, the calls of skill_manage   *)
(* that change them (tools/skills.go; the tool calls of one response, and the *)
(* agents of several chats, run at the same time), the background syncer      *)
(* (agent/skill_syncer.go), the index of the SkillManager                     *)
(* (agent/skill_manager.go) and the skills section of the system prompt       *)
(* (skills/catalog.go, bootstrap.go).                                         *)
(*                                                                            *)
(* A skill file is its description, one of Texts; "torn" is a SKILL.md that   *)
(* has been created or truncated and not yet written, "bare" a directory      *)
(* without one.  A prompt is a sequence of lines of which only the kind and   *)
(* an identity are kept.  Descriptions are written into it as they are, and   *)
(* may hold headings and blocks of code: nothing refuses them.                *)
EXTENDS Integers, Sequences, FiniteSets

CONSTANTS
  Calls,        \* the handlers of the agents' tool calls and slash commands
  Syncer,       \* the goroutine of the BackgroundSkillSyncer
  Places,       \* where a skill can be: <<category, name>>, or <<Root, name>>
  Root,         \* no category
  AutoName,     \* "auto-user-workflow-patterns"
  Texts,        \* the descriptions a skill can have
  Below,        \* Below[skills]: the lines of their descriptions but the first of each
  GlobalSkills, \* the skills of the user's global directory: name -> text
  Entries,      \* the entries of the skills directory, as os.ReadDir sorts them
  BasePrompts,  \* the system prompts an agent can be configured with
  MaxCalls      \* bound: operations started

SkillName == {p[2] : p \in Places}
Nowhere == <<Root, Root>>

\* What LoadCatalog can return, and the lines of a prompt.
Catalogs == UNION {[names -> Texts] : names \in SUBSET (SkillName \cup DOMAIN GlobalSkills)}
Line == [kind : {"text", "heading", "fence", "marker"}, of : Seq(Nat)]
          \cup [kind : {"list"}, of : Catalogs]

VARIABLES
  flaws,     \* history: the flaws of the sections put in prompts so far
  disk,      \* Places -> "none", "bare", "torn" or a text
  linked,    \* the places that hold a linked file
  task,      \* the handler each process is in
  calls,     \* operations started so far
  catalog,   \* SkillManager.catalog: name -> text
  lastHash,  \* WorkflowAnalyzer.lastHash
  base,      \* the prompt the agent was configured with
  prompt,    \* SessionManager.systemPrompt
  creations   \* history: creations of a place since it last had no SKILL.md

skillVars == <<flaws, disk, linked, task, calls, catalog, lastHash, base, prompt, creations>>
Procs == Calls \cup {Syncer}

Operations == {"none", "create", "edit", "patch", "delete", "write", "remove", "reload", "sync"}
Steps == {"idle", "check", "find", "mkdir", "open", "read", "fill", "drop", "put",
          "load", "get", "swap"}
Targets == Places \cup {<<Root, n>> : n \in SkillName} \cup {Nowhere}
\* What a call has read: the catalog, and then the prompt made with it.
Task == [op : Operations, step : Steps, place : Targets, text : Texts \cup {"", "bad"},
         seen : Catalogs, fd : BOOLEAN]
          \cup [op : Operations, step : {"set"}, place : Targets, text : Texts \cup {"", "bad"},
               seen : Seq(Line), fd : BOOLEAN]
Begun(op, step, place, text) ==
  [op |-> op, step |-> step, place |-> place, text |-> text, seen |-> <<>>, fd |-> FALSE]
NoTask == Begun("none", "idle", Nowhere, "")

-----------------------------------------------------------------------------
(* The files. *)

HasFile(p) == disk[p] \notin {"none", "bare"}

\* A directory that is itself a skill is not scanned as a category.
Hidden(p) == p[1] # Root /\ <<Root, p[1]>> \in Places /\ HasFile(<<Root, p[1]>>)

\* The place of name that entry e of the skills directory leads to.
PlaceVia(e, name) == IF e = name THEN <<Root, name>> ELSE <<e, name>>

Least(S) == CHOOSE i \in S : \A j \in S : i <= j
Greatest(S) == CHOOSE i \in S : \A j \in S : j <= i

\* FindSkillDir: the root first, then the categories in the order of ReadDir.
FoundAt(name) ==
  LET Holds(p) == p \in Places /\ HasFile(p)
      via == {i \in DOMAIN Entries : Entries[i] # name /\ Holds(<<Entries[i], name>>)}
  IN  IF Holds(<<Root, name>>) THEN <<Root, name>>
      ELSE IF via = {} THEN Nowhere ELSE <<Entries[Least(via)], name>>

\* LoadCatalog: the global directory, then the workspace's entries in order;
\* files that do not parse are skipped and the last one found of a name wins.
Valid(name) ==
  {i \in DOMAIN Entries : LET p == PlaceVia(Entries[i], name)
                          IN  p \in Places /\ disk[p] \in Texts /\ ~Hidden(p)}
Local == {name \in SkillName : Valid(name) # {}}
Listing ==
  [name \in Local \cup DOMAIN GlobalSkills |->
     IF name \in Local THEN disk[PlaceVia(Entries[Greatest(Valid(name))], name)]
     ELSE GlobalSkills[name]]

\* os.RemoveAll of a skill's directory, which may contain a category's skills.
RemovedWith(p) == {q \in Places : q = p \/ (p[1] = Root /\ q[1] = p[2])}

-----------------------------------------------------------------------------
(* The system prompt. *)

MarkerLine == [kind |-> "marker", of |-> <<>>]
ListLine(skills) == [kind |-> "list", of |-> skills]
EndLine == [kind |-> "text", of |-> <<>>]

\* SkillsToPrompt.  A skill's own line begins with its name, so the first line of
\* a description is plain text, as the lines around the list are (ListLine, EndLine);
\* the others stand at the start of a line, as they are.
SkillsSection(skills) ==
  IF DOMAIN skills = {} THEN <<>>
  ELSE <<MarkerLine, ListLine(skills)>> \o Below[skills] \o <<EndLine>>

\* insideCodeBlock of the lines before line i.
InsideCode(p, i) ==
  Cardinality({j \in 1..(i - 1) : p[j].kind = "fence"}) % 2 = 1

\* The lines of the section's header.
Headers(p) == {i \in DOMAIN p : p[i].kind = "marker" /\ ~InsideCode(p, i)}

\* The plausible slip: a heading in a block of code ends the section.
EndsOf_InCode(p, m) == {i \in DOMAIN p : i > m + 1 /\ p[i].kind \in {"heading", "marker"}}

\* The headings that end it: the line break after the header is skipped, so the
\* next line is never an end.
EndsOf(p, m) == {i \in DOMAIN p : /\ i > m + 1
                                  /\ p[i].kind \in {"heading", "marker"}
                                  /\ ~InsideCode(p, i)}

\* The prompt before the skills section and after it.
Cut(p) ==
  IF Headers(p) = {} THEN <<p, <<>>>>
  ELSE LET m == Least(Headers(p))
           e == EndsOf(p, m)
       IN  <<SubSeq(p, 1, m - 1), IF e = {} THEN <<>> ELSE SubSeq(p, Least(e), Len(p))>>

ReplaceSection(p, section) == Cut(p)[1] \o section \o Cut(p)[2]

\* What can be wrong with a section: a block of code of a description that is not
\* closed, and a heading of a description outside blocks of code.
Flaws == {"open", "heading"}
FlawsOf(section) ==
  {f \in Flaws :
     \/ f = "open" /\ InsideCode(section, Len(section) + 1)
     \/ f = "heading" /\ \E i \in DOMAIN section :
          i > 1 /\ section[i].kind \in {"heading", "marker"} /\ ~InsideCode(section, i)}

ASSUME SkillsAssumption ==
  /\ Syncer \notin Calls
  /\ <<Root, AutoName>> \in Places
  /\ \A p \in Places : p = <<p[1], p[2]>> /\ (p[1] # Root => p[1] # p[2])
  /\ Nowhere \notin Places
  /\ Texts \cap {"", "none", "bare", "torn", "bad"} = {}
  /\ GlobalSkills \in Catalogs
  /\ Entries \in Seq({p[1] : p \in Places} \cup SkillName)
  /\ Below \in [Catalogs -> Seq(Line)]
  /\ BasePrompts \subseteq Seq(Line)
  /\ MaxCalls \in Nat

-----------------------------------------------------------------------------
(* InitAgent: the base prompt gets its section, the index is loaded. *)
SkillsInit ==
  /\ \E p \in Places, t \in Texts :
       disk = [q \in Places |-> IF q = p /\ p[2] # AutoName THEN t ELSE "none"]
  /\ linked = {}
  /\ task = [c \in Procs |-> NoTask]
  /\ calls = 0
  /\ catalog = Listing
  /\ lastHash = "none"
  /\ base \in BasePrompts
  /\ prompt = ReplaceSection(base, SkillsSection(Listing))
  /\ flaws = FlawsOf(SkillsSection(Listing))
  /\ creations = [p \in Places |-> IF disk[p] = "none" THEN 0 ELSE 1]

At(c, op, step) == task[c].op \in op /\ task[c].step = step
Begins(c, op, step, place, text) == task' = [task EXCEPT ![c] = Begun(op, step, place, text)]
Goto(c, step) == task' = [task EXCEPT ![c].step = step]
Done(c) == task' = [task EXCEPT ![c] = NoTask]
Opened(c) == task' = [task EXCEPT ![c].step = "fill", ![c].fd = TRUE]

\* The open files of removed places are no longer the ones at these places.
Unlinked(places) ==
  [c \in Procs |-> IF task[c].place \in places THEN [task[c] EXCEPT !.fd = FALSE] ELSE task[c]]
FilesKept == UNCHANGED <<disk, linked, creations>>
PromptKept == UNCHANGED <<flaws, catalog, base, prompt>>

\* executeManage, after the checks of its arguments; /skill reload.
StartOp(c) ==
  /\ task[c] = NoTask /\ calls < MaxCalls
  /\ calls' = calls + 1
  /\ \/ \E p \in Places, t \in Texts : Begins(c, "create", "check", p, t)
     \/ \E op \in {"edit", "patch"}, n \in SkillName, t \in Texts :
          Begins(c, op, "find", <<Root, n>>, t)
     \/ \E op \in {"delete", "write", "remove"}, n \in SkillName :
          Begins(c, op, "find", <<Root, n>>, "")
     \/ Begins(c, "reload", "load", Nowhere, "")
  /\ UNCHANGED lastHash /\ FilesKept /\ PromptKept

\* runOnce: what the analyzer returns is new; its hash is kept before the file
\* is written.  The answer of the model is not validated: it may be no skill.
SyncerWakes ==
  /\ task[Syncer] = NoTask /\ calls < MaxCalls
  /\ \E t \in Texts \cup {"bad"} :
       /\ t # lastHash
       /\ lastHash' = t
       /\ Begins(Syncer, "sync", "mkdir", <<Root, AutoName>>, t)
  /\ calls' = calls + 1
  /\ FilesKept /\ PromptKept

\* doCreate: the two os.Stat checks.
CreateCheck(c) ==
  LET p == task[c].place IN
  /\ At(c, {"create"}, "check")
  /\ IF Hidden(p) \/ disk[p] # "none" THEN Done(c) ELSE Goto(c, "mkdir")
  /\ UNCHANGED <<calls, lastHash>> /\ FilesKept /\ PromptKept

\* os.MkdirAll of doCreate, EnsureContainedDir of doWriteFile and of the syncer.
MakeDir(c) ==
  LET p == task[c].place IN
  /\ At(c, {"create", "write", "sync"}, "mkdir")
  /\ disk' = IF disk[p] = "none" THEN [disk EXCEPT ![p] = "bare"] ELSE disk
  /\ Goto(c, CASE task[c].op = "create" -> "open"
               [] task[c].op = "write" -> "put"
               [] task[c].op = "sync" -> "open")
  /\ UNCHANGED <<linked, creations, calls, lastHash>> /\ PromptKept

\* The plausible slip: os.Create, or os.WriteFile, in the place of O_EXCL.
CreateOpen_Truncates(c) ==
  LET p == task[c].place IN
  /\ At(c, {"create"}, "open")
  /\ IF disk[p] = "none"
     THEN Done(c) /\ UNCHANGED <<disk, creations>>
     ELSE /\ disk' = [disk EXCEPT ![p] = "torn"]
          /\ creations' = [creations EXCEPT ![p] = @ + 1]
          /\ Opened(c)
  /\ UNCHANGED <<linked, calls, lastHash>> /\ PromptKept

\* os.OpenFile with O_CREATE|O_EXCL: it fails when the directory is gone again
\* or another call has made the file.
CreateOpen(c) ==
  LET p == task[c].place IN
  /\ At(c, {"create"}, "open")
  /\ IF disk[p] = "bare"
     THEN /\ disk' = [disk EXCEPT ![p] = "torn"]
          /\ creations' = [creations EXCEPT ![p] = @ + 1]
          /\ Opened(c)
     ELSE Done(c) /\ UNCHANGED <<disk, creations>>
  /\ UNCHANGED <<linked, calls, lastHash>> /\ PromptKept

\* findWritableDir of the calls that work on an existing skill.
FindDir(c) ==
  LET p == FoundAt(task[c].place[2]) IN
  /\ At(c, {"edit", "patch", "delete", "write", "remove"}, "find")
  /\ IF p = Nowhere THEN Done(c)
     ELSE task' = [task EXCEPT ![c].place = p,
                     ![c].step = CASE task[c].op = "edit" -> "open"
                                   [] task[c].op = "patch" -> "read"
                                   [] task[c].op = "delete" -> "drop"
                                   [] task[c].op = "write" -> "mkdir"
                                   [] task[c].op = "remove" -> "drop"]
  /\ UNCHANGED <<calls, lastHash>> /\ FilesKept /\ PromptKept

\* doPatch reads the file; the old text is not in it, or the patched one is
\* written back.
PatchRead(c) ==
  /\ At(c, {"patch"}, "read")
  /\ IF disk[task[c].place] \in Texts \ {task[c].text} THEN Goto(c, "open") ELSE Done(c)
  /\ UNCHANGED <<calls, lastHash>> /\ FilesKept /\ PromptKept

\* os.WriteFile of doEdit, doPatch and the syncer: it truncates the file, and
\* makes it when it is not there (it fails without its directory).
Truncate(c) ==
  LET p == task[c].place IN
  /\ At(c, {"edit", "patch", "sync"}, "open")
  /\ IF disk[p] = "none"
     THEN Done(c) /\ UNCHANGED <<disk, creations>>
     ELSE /\ disk' = [disk EXCEPT ![p] = "torn"]
          /\ creations' = [creations EXCEPT ![p] = IF @ = 0 THEN 1 ELSE @]
          /\ Opened(c)
  /\ UNCHANGED <<linked, calls, lastHash>> /\ PromptKept

\* The text is written; a file removed in the meantime takes it with it, and of
\* two writers the later one wins.  The syncer does not refresh the prompt.
Fill(c) ==
  LET p == task[c].place IN
  /\ At(c, {"create", "edit", "patch", "sync"}, "fill")
  /\ disk' = IF task[c].fd THEN [disk EXCEPT ![p] = task[c].text] ELSE disk
  /\ IF task[c].op = "sync" THEN Done(c) ELSE Goto(c, "load")
  /\ UNCHANGED <<linked, creations, calls, lastHash>> /\ PromptKept

\* The write fails: doCreate removes the file, and the directory when it is
\* empty; the others leave what is there.
FillFails(c) ==
  LET p == task[c].place IN
  /\ At(c, {"create", "edit", "patch", "sync"}, "fill")
  /\ IF task[c].op = "create"
     THEN /\ disk' = [disk EXCEPT ![p] = IF @ = "none" THEN @
                                         ELSE IF p \in linked THEN "bare" ELSE "none"]
          /\ creations' = [creations EXCEPT ![p] = 0]
          /\ task' = [Unlinked({p}) EXCEPT ![c] = NoTask]
     ELSE Done(c) /\ UNCHANGED <<disk, creations>>
  /\ UNCHANGED <<linked, calls, lastHash>> /\ PromptKept

\* doDelete removes the directory; doRemoveFile a linked file.
Drop(c) ==
  LET p == task[c].place IN
  \/ /\ At(c, {"delete"}, "drop")
     /\ disk' = [q \in Places |-> IF q \in RemovedWith(p) THEN "none" ELSE disk[q]]
     /\ creations' = [q \in Places |-> IF q \in RemovedWith(p) THEN 0 ELSE creations[q]]
     /\ linked' = linked \ RemovedWith(p)
     /\ task' = [Unlinked(RemovedWith(p)) EXCEPT ![c].step = "load"]
     /\ UNCHANGED <<calls, lastHash>> /\ PromptKept
  \/ /\ At(c, {"remove"}, "drop")
     /\ linked' = linked \ {p}
     /\ Done(c)
     /\ UNCHANGED <<disk, creations, calls, lastHash>> /\ PromptKept

\* doWriteFile: os.WriteFile of the linked file, which needs its directory.
PutLinked(c) ==
  LET p == task[c].place IN
  /\ At(c, {"write"}, "put")
  /\ linked' = IF disk[p] = "none" THEN linked ELSE linked \cup {p}
  /\ Done(c)
  /\ UNCHANGED <<disk, creations, calls, lastHash>> /\ PromptKept

\* RefreshSkillsPrompt and Reload: the catalog is read ...
Load(c) ==
  /\ At(c, {"create", "edit", "patch", "delete", "reload"}, "load")
  /\ task' = [task EXCEPT ![c].seen = Listing,
                          ![c].step = IF task[c].op = "reload" THEN "swap" ELSE "get"]
  /\ UNCHANGED <<calls, lastHash>> /\ FilesKept /\ PromptKept

\* ... or cannot be; the error is logged, or dropped.
LoadFails(c) ==
  /\ At(c, {"create", "edit", "patch", "delete", "reload"}, "load")
  /\ Done(c)
  /\ UNCHANGED <<calls, lastHash>> /\ FilesKept /\ PromptKept

\* GetSystemPrompt and replaceSkillsSection ...
ReadPrompt(c) ==
  /\ At(c, {"create", "edit", "patch", "delete"}, "get")
  /\ task' = [task EXCEPT ![c].seen = ReplaceSection(prompt, SkillsSection(@)),
                          ![c].step = "set"]
  /\ flaws' = flaws \cup FlawsOf(SkillsSection(task[c].seen))
  /\ UNCHANGED <<calls, lastHash, catalog, base, prompt>> /\ FilesKept

\* ... and SetSystemPrompt.
WritePrompt(c) ==
  /\ At(c, {"create", "edit", "patch", "delete"}, "set")
  /\ prompt' = task[c].seen
  /\ Done(c)
  /\ UNCHANGED <<calls, lastHash, catalog, base, flaws>> /\ FilesKept

\* The new index replaces the old one, under the manager's lock.
SwapCatalog(c) ==
  /\ At(c, {"reload"}, "swap")
  /\ catalog' = task[c].seen
  /\ Done(c)
  /\ UNCHANGED <<calls, lastHash, base, prompt, flaws>> /\ FilesKept

SkillsNext ==
  \/ SyncerWakes
  \/ \E c \in Calls : StartOp(c)
  \/ \E c \in Procs :
       \/ CreateCheck(c) \/ MakeDir(c) \/ CreateOpen(c) \/ FindDir(c) \/ PatchRead(c)
       \/ Truncate(c) \/ Fill(c) \/ FillFails(c) \/ Drop(c) \/ PutLinked(c)
       \/ Load(c) \/ LoadFails(c) \/ ReadPrompt(c) \/ WritePrompt(c) \/ SwapCatalog(c)

SkillsSpec == SkillsInit /\ [][SkillsNext]_skillVars

-----------------------------------------------------------------------------
\* Types of the files, the calls and the prompt; a linked file has a directory.
SkillsTypeOK ==
  /\ disk \in [Places -> {"none", "bare", "torn", "bad"} \cup Texts]
  /\ linked \subseteq {p \in Places : disk[p] # "none"}
  /\ task \in [Procs -> Task]
  /\ calls \in 0..MaxCalls
  /\ catalog \in Catalogs
  /\ lastHash \in {"none", "bad"} \cup Texts
  /\ base \in BasePrompts /\ prompt \in Seq(Line)
  /\ creations \in [Places -> Nat] /\ flaws \subseteq Flaws

\* What a reader of the prompt takes for the section: from the first header outside
\* code blocks up to the next heading outside code blocks.
SectionOf(p) ==
  LET headers == Headers(p) IN
  {i \in DOMAIN p :
     \E m \in headers :
       /\ m <= i /\ \A n \in headers : m <= n
       /\ \A j \in (m + 1)..i : p[j].kind \in {"heading", "marker"} => InsideCode(p, j)}
LinesBefore(p) == IF SectionOf(p) = {} THEN p ELSE SubSeq(p, 1, Least(SectionOf(p)) - 1)
LinesAfter(p) == IF SectionOf(p) = {} THEN <<>> ELSE SubSeq(p, Greatest(SectionOf(p)) + 1, Len(p))
OwnLines(p) == LinesBefore(p) \o LinesAfter(p)

\* The lines of s stand in p from line k on.
StandAt(p, k, s) == k + Len(s) - 1 <= Len(p) /\ \A i \in DOMAIN s : p[k + i - 1] = s[i]

\* It has at most one section, whose header does not stand right before a heading.
OneSection(p) ==
  /\ \A m, n \in Headers(p) : m = n
  /\ \A m \in Headers(p) : m < Len(p) => p[m + 1].kind \notin {"heading", "marker"}

\* Besides, its blocks of code are closed.
Tidy(p) == OneSection(p) /\ ~InsideCode(p, Len(p) + 1)

\* The user's own lines of the system prompt survive every refresh of the skills
\* section, also when refreshes read and write the prompt at the same time:
\*   - those before the section whatever the prompt and the descriptions hold;
\*   - those after it, in one piece, as long as no section left a block of code open:
\*     a heading or a header in a description does not cost the user a line;
\*   - and with descriptions whose headings are in closed blocks of code, nothing
\*     else gets between them, nor a second section.
UserPromptKept ==
  /\ StandAt(prompt, 1, LinesBefore(base))
  /\ OneSection(base) /\ "open" \notin flaws =>
       \E k \in (Len(LinesBefore(base)) + 1)..(Len(prompt) + 1) :
         StandAt(prompt, k, LinesAfter(base))
  /\ Tidy(base) /\ flaws = {} =>
       OwnLines(prompt) = OwnLines(base) /\ Cardinality(Headers(prompt)) <= 1

\* Of the calls that create a skill at the same place at the same time at most
\* one makes the file, until it is deleted again: the checks that come before
\* prevent nothing.
CreatedOnce == \A p \in Places : creations[p] <= 1
=============================================================================
