---------------------------- MODULE SandboxPaths ----------------------------
(* The paths an agent sees and the files they stand for (sandbox/sandbox.go,   *)
(* pathutil.go, Workspace.EffectiveSandbox): every tool call translates the    *)
(* paths it is given into the workspace's root, checks them against the policy *)
(* and translates the paths it answers with back (tools/filesystem.go,         *)
(* tools/shell.go).                                                            *)
(*                                                                             *)
(* A path is the sequence of its segments; an absolute one starts with the     *)
(* segment "/".  No segment is a part of another one, and there are no         *)
(* symbolic links: what EvalSymlinks does is left out.                         *)
EXTENDS Integers, Sequences, SequencesExt, FiniteSets

CONSTANTS
  WorkspaceConfigs, \* the sandbox sections a workspace can have
  AgentConfigs,     \* the overriding ones of its agent
  SpaceDir,         \* the directory "space" of the workspace's data
  HomeDir,          \* VirtualHome of its name
  TempDir,          \* the system's directory for temporary files
  Arguments,        \* the paths an agent passes to a tool
  CommandDirs,      \* the directories it wants commands to run in, Unset for none
  MaxFiles          \* bound: files at the same time

\* Fields of a sandbox section that are not set.
Unset == <<>>

-----------------------------------------------------------------------------
(* package filepath, and IsSubpath. *)

CleanStep(p, s) ==
  CASE s = "."                              -> p
    [] s = ".." /\ p = <<"/">>              -> p
    [] s = ".." /\ (p = <<>> \/ Last(p) = "..") /\ p # <<"/">> -> Append(p, s)
    [] s = ".." /\ p # <<>> /\ Last(p) # ".." /\ p # <<"/">>   -> Front(p)
    [] OTHER                                -> Append(p, s)
Clean(p) ==
  LET upTo[i \in 0 .. Len(p)] == IF i = 0 THEN <<>> ELSE CleanStep(upTo[i - 1], p[i])
  IN  upTo[Len(p)]
Join(p, q) == Clean(p \o q)
IsAbs(p) == p # <<>> /\ p[1] = "/"

\* A path as it is written, and the clean one of a directory or a file.
Path(p) == p \in Seq(STRING) /\ \A i \in 2 .. Len(p) : p[i] # "/"
Absolute(p) ==
  p \in Seq(STRING) /\ IsAbs(p) /\ \A i \in 2 .. Len(p) : p[i] \notin {"/", ".", ".."}

\* A section that sets a root sets it as a clean absolute path, and not as that
\* of the file system itself.
ARoot(p) == Absolute(p) /\ Len(p) > 1
ASSUME SandboxAssumption ==
  /\ ARoot(SpaceDir) /\ ARoot(HomeDir)
  /\ \A s \in WorkspaceConfigs \cup AgentConfigs :
       /\ s.root = Unset \/ ARoot(s.root)
       /\ s.virtual = Unset \/ ARoot(s.virtual)
  /\ \A a \in Arguments \cup CommandDirs : Path(a)
  /\ MaxFiles \in Nat

IsSubpath(p, root) == IsPrefix(root, p)
After(root, p) == SubSeq(p, Len(root) + 1, Len(p))

\* pathMatchesRoot: of the root directory only itself.
MatchesRoot(p, root) == IsPrefix(root, p) /\ (root = <<"/">> => p = root)

\* strings.ReplaceAll of one root by another in a text that is a path; the first
\* segment of a path has no "/" of its own before it.
Replaced(p, old, new) ==
  LET n == Len(old) - 1
      from[i \in 2..(Len(p) + 1)] ==
        IF i > Len(p) THEN <<>>
        ELSE IF n > 0 /\ i + n <= Len(p) + 1 /\ SubSeq(p, i, i + n - 1) = Tail(old) THEN Tail(new) \o from[i + n]
        ELSE <<p[i]>> \o from[i + 1]
  IN  IF p = <<>> THEN p ELSE <<p[1]>> \o from[2]

-----------------------------------------------------------------------------
(* MergeConfigs and EffectiveSandbox. *)

Pick(over, under) == IF over # Unset THEN over ELSE under
PickSet(over, under) == IF over # {} THEN over ELSE under

MergeConfigs(under, over) ==
  [root     |-> Pick(over.root, under.root),
   virtual  |-> Pick(over.virtual, under.virtual),
   allow    |-> PickSet(over.allow, under.allow),
   readonly |-> PickSet(over.readonly, under.readonly)]

EffectiveSandbox(workspace, agent) ==
  LET m == MergeConfigs(workspace, agent) IN
  [m EXCEPT !.root = Pick(@, SpaceDir),
            !.virtual = Pick(@, HomeDir),
            !.allow = PickSet(@, {TempDir})]

-----------------------------------------------------------------------------
(* The translations of a configuration c. *)

Refused == <<"refused">>

\* ResolvePath: a virtual path to a real one.
ResolvePath(c, path) ==
  LET p == Clean(path) IN
  IF ~MatchesRoot(p, c.virtual) THEN Refused ELSE Join(c.root, After(c.virtual, p))

\* The plausible slip: a real path is taken for any other absolute one.
AutoResolvePath_NoReal(c, path) ==
  LET p == Clean(path) IN
  IF MatchesRoot(p, c.virtual) THEN ResolvePath(c, path)
  ELSE IF IsAbs(p) THEN ResolvePath(c, c.virtual \o Tail(p))
  ELSE ResolvePath(c, c.virtual \o p)

\* AutoResolvePath: virtual paths, real paths below the root, other absolute
\* paths and relative ones, in this order.
AutoResolvePath(c, path) ==
  LET p == Clean(path) IN
  IF MatchesRoot(p, c.virtual) THEN ResolvePath(c, path)
  ELSE IF MatchesRoot(p, c.root) THEN ResolvePath(c, c.virtual \o After(c.root, p))
  ELSE IF IsAbs(p) THEN ResolvePath(c, c.virtual \o Tail(p))
  ELSE ResolvePath(c, c.virtual \o p)

\* IsAllowed: what is read-only may be read and not written; then the paths
\* allowed beside the root, then the root.
IsAllowed(c, p, write) ==
  LET readonly == \E r \in c.readonly : IsSubpath(p, r) IN
  IF readonly THEN ~write
  ELSE \E r \in c.allow \cup {c.root} : IsSubpath(p, r)

\* Sandbox.Resolve: ValidatePath, and the right to write.
Resolve(c, path, write) ==
  LET p == AutoResolvePath(c, path) IN
  IF p = Refused \/ ~IsAllowed(c, p, FALSE) \/ (write /\ ~IsAllowed(c, p, TRUE))
  THEN Refused ELSE p

\* RealToVirtual; what is not below the root keeps only its name.
VirtualPath(c, p) ==
  IF MatchesRoot(p, c.root) THEN Join(c.virtual, After(c.root, p))
  ELSE c.virtual \o <<"[external]", Last(p)>>

\* RewritePaths and RewriteOutputPaths, on a text that is a path.
RewriteCommand(c, path) == Replaced(path, c.virtual, c.root)
RewriteOutput(c, path) == Replaced(path, c.root, c.virtual)

-----------------------------------------------------------------------------
VARIABLES
  config,  \* the configuration of the workspace's Sandbox
  files,   \* the real paths of the files
  shown    \* history: <<path, file>>, a path an agent was shown and its file

pathVars == <<config, files, shown>>

SandboxInit ==
  /\ \E w \in WorkspaceConfigs, a \in AgentConfigs : config = EffectiveSandbox(w, a)
  /\ files = {}
  /\ shown = {}

\* A file is no directory: no file is below another one.
Written(p) ==
  /\ Cardinality(files \cup {p}) <= MaxFiles
  /\ \A f \in files : ~IsStrictPrefix(f, p) /\ ~IsStrictPrefix(p, f)
  /\ files' = files \cup {p}

\* A file the user, or a program a command started, leaves anywhere.
Appears(p) == Written(p) /\ UNCHANGED <<config, shown>>

\* filesystem_write: os.MkdirAll and os.WriteFile.
FilesystemWrite(arg) ==
  LET p == Resolve(config, arg, TRUE) IN
  /\ p # Refused /\ p # config.root
  /\ Written(p)
  /\ shown' = shown \cup {<<VirtualPath(config, p), p>>}
  /\ UNCHANGED config

\* filesystem_read puts the path above the content.
FilesystemRead(arg) ==
  LET p == Resolve(config, arg, FALSE) IN
  /\ p \in files
  /\ shown' = shown \cup {<<VirtualPath(config, p), p>>}
  /\ UNCHANGED <<config, files>>

\* filesystem_list: the directory's own path once, joined with each name.
FilesystemList(arg) ==
  LET p == Resolve(config, arg, FALSE)
      in == {f \in files : Front(f) = p}
  IN  /\ p # Refused /\ in # {}
      /\ shown' = shown \cup {<<Join(VirtualPath(config, p), <<Last(f)>>), f>> : f \in in}
      /\ UNCHANGED <<config, files>>

\* The directory a command runs in: Resolve of the argument, or the root.
CommandDir(arg) == IF arg = Unset THEN config.root ELSE Resolve(config, arg, FALSE)

\* shell_exec of a command that names one path: virtual paths of the command are
\* replaced; a relative path is taken from the command's directory.
CommandPath(arg, dir) ==
  LET p == RewriteCommand(config, arg) IN IF IsAbs(p) THEN Clean(p) ELSE Join(dir, p)

\* A command that writes its output to a file: validateWritePaths.
ShellWrite(arg, dirArg) ==
  LET dir == CommandDir(dirArg)
      p == CommandPath(arg, dir)
  IN  /\ dir # Refused
      /\ IsAllowed(config, p, TRUE) /\ p # config.root
      /\ Written(p)
      /\ UNCHANGED <<config, shown>>

\* A command that prints the path of a file it finds.
ShellFind(arg, dirArg) ==
  LET dir == CommandDir(dirArg)
      p == CommandPath(arg, dir)
  IN  /\ dir # Refused
      /\ p \in files
      /\ shown' = shown \cup {<<RewriteOutput(config, p), p>>}
      /\ UNCHANGED <<config, files>>

SandboxNext ==
  \/ \E p \in {Clean(a) : a \in {b \in Arguments : IsAbs(b)}} : Len(p) > 1 /\ Appears(p)
  \/ \E a \in Arguments : FilesystemWrite(a) \/ FilesystemRead(a) \/ FilesystemList(a)
  \/ \E a \in Arguments, d \in CommandDirs : ShellWrite(a, d) \/ ShellFind(a, d)

SandboxSpec == SandboxInit /\ [][SandboxNext]_pathVars

-----------------------------------------------------------------------------
\* Both roots are absolute, and no path is shown of a file that is not there.
SandboxTypeOK ==
  /\ IsAbs(config.root) /\ IsAbs(config.virtual)
  /\ Cardinality(files) <= MaxFiles
  /\ \A s \in shown : s[2] \in files

\* A path below a root that has the segments of another root once more.
Repeats(old, rest) ==
  \E i \in 0 .. (Len(rest) - Len(old) + 1) : SubSeq(rest, i + 1, i + Len(old) - 1) = Tail(old)

\* A path an agent was shown for a file below the root leads every tool back to
\* that file, whichever tool showed it and whichever form of the path the first
\* call was given; and so does the file's real path.  Only a root that comes once
\* more below the first is replaced twice in the texts of commands, and a file
\* whose real path looks like a virtual one is taken for that.
PathsLeadBack ==
  \A s \in shown :
    IsSubpath(s[2], config.root) =>
      LET rest == After(config.root, s[2]) IN
      /\ ~Repeats(config.root, rest) =>
            /\ MatchesRoot(s[1], config.virtual)
            /\ Resolve(config, s[1], FALSE) = s[2]
            /\ ~Repeats(config.virtual, rest) => Clean(RewriteCommand(config, s[1])) = s[2]
      /\ ~IsSubpath(s[2], config.virtual) => Resolve(config, s[2], FALSE) = s[2]
=============================================================================
