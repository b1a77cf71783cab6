----------------------------- MODULE Workspaces -----------------------------
(***************************************************************************)
(* Workspaces on disk (internal/workspace, cmd/cobot/workspace.go,         *)
(* config_cmd.go, internal/tools/workspace_tools.go): definitions, data    *)
(* directories and workspace.yaml, as commands and agents that run at the  *)
(* same time read and write them.                                          *)
(*                                                                         *)
(* A file is a set: empty if there is none, else its content.  A file that *)
(* could not be written is left empty, which YAML reads as the zero value; *)
(* the moment within one os.WriteFile at which the file is empty is left   *)
(* out.  Fields that the type read into does not have are dropped.  The    *)
(* external agents of a workspace.yaml are told apart by their names.      *)
(***************************************************************************)
EXTENDS Naturals

CONSTANTS
    Names,         \* names of workspaces, "default" among them
    CustomPaths,   \* data directories chosen with --path
    ExternalNames, \* names of external agents
    Commands,      \* processes
    MaxStarts,     \* commands that are started (bound)
    MaxFailures    \* writes that fail (bound)

ASSUME WorkspacesAssumption ==
    /\ "default" \in Names /\ "" \notin Names
    /\ CustomPaths \cap (Names \cup {""}) = {} /\ ExternalNames # {}
    /\ MaxStarts \in Nat /\ MaxFailures \in Nat

VARIABLES
    definitions,   \* definitions[n]: <n>.yaml of the definitions directory
    dirs,          \* data directories
    settings,      \* settings[d]: workspace.yaml of the data directory d
    commands,      \* commands[c]: what a process does, and what it has read
    starts, failures

workspaceVars == <<definitions, dirs, settings, commands, starts, failures>>

(* The data directory of a workspace is its path or named after it; ""     *)
(* stands for the directory that holds all of the latter. *)
Dirs == Names \cup CustomPaths \cup {""}
Definition == [name : Names \cup {""}, path : CustomPaths \cup {""}]
Blank == [name |-> "", path |-> ""]
DataDirOf(def) == IF def.path # "" THEN def.path ELSE def.name
Within(d) == IF d = "" THEN Dirs \ CustomPaths ELSE {d}

(* WorkspaceConfig: its id, the external agents, what the tools may change *)
(* at any time (enabled_mcp, enabled_skills; blocked_commands).  cobot.    *)
(* Config, which "config set" keeps in the same file: the model. *)
Settings == [id : BOOLEAN, agents : SUBSET ExternalNames, enabled : BOOLEAN, blocked : BOOLEAN,
             model : BOOLEAN]
Zero == [id |-> FALSE, agents |-> {}, enabled |-> FALSE, blocked |-> FALSE, model |-> FALSE]
NewSettings == [Zero EXCEPT !.id = TRUE]
WorkspaceFields(file) == [file EXCEPT !.model = FALSE]
ConfigFields(file) == [Zero EXCEPT !.model = file.model]
ContentOf(file) == CHOOSE content \in file : TRUE

Ops == {"create", "delete", "add", "remove", "set", "agent"}
CommandPlaces == {"off", "manager", "defineDefault", "resolveDefault", "configureDefault", "ready",
           "define", "makeDirs", "configure", "act", "save", "removeDefinition", "removeData"}
NoCommand ==
    [op |-> "create", name |-> "default", external |-> CHOOSE x \in ExternalNames : TRUE,
     at |-> "off", def |-> Blank, config |-> Zero]

(* Types of the files and of what the processes hold of them. *)
WorkspacesTypeOK ==
    /\ definitions \in [Names -> SUBSET Definition]
    /\ dirs \subseteq Dirs
    /\ settings \in [Dirs -> SUBSET Settings]
    /\ commands \in [Commands -> [op : Ops, name : Names, external : ExternalNames,
                                  at : CommandPlaces, def : Definition, config : Settings]]
    /\ starts \in 0 .. MaxStarts /\ failures \in 0 .. MaxFailures

WorkspacesInit ==
    /\ definitions = [n \in Names |-> {}]
    /\ dirs = {}
    /\ settings = [d \in Dirs |-> {}]
    /\ commands = [c \in Commands |-> NoCommand]
    /\ starts = 0 /\ failures = 0

-----------------------------------------------------------------------------
Goes(c, place) == commands' = [commands EXCEPT ![c].at = place]
Holds(c, place, def, config) ==
    commands' = [commands EXCEPT ![c].at = place, ![c].def = def, ![c].config = config]

(* newWorkspaceFromDefinition: what cannot be read is replaced. *)
LoadedConfig(def) ==
    LET file == settings[DataDirOf(def)] IN
    IF file = {} THEN NewSettings ELSE WorkspaceFields(ContentOf(file))

(* config.SaveYAML, and where the command goes on or ends. *)
WritesDefinition(c, n, def, next) ==
    /\ definitions' = [definitions EXCEPT ![n] = {def}]
    /\ Goes(c, next)
    /\ UNCHANGED <<dirs, settings, starts, failures>>
WritesSettings(c, d, config, next) ==
    /\ settings' = [settings EXCEPT ![d] = {config}]
    /\ dirs' = dirs \cup {d}
    /\ commands' = [commands EXCEPT ![c].at = next, ![c].config = config]
    /\ UNCHANGED <<definitions, starts, failures>>
WriteFails(c) ==
    /\ failures < MaxFailures /\ failures' = failures + 1
    /\ Goes(c, "off")
    /\ \/ /\ commands[c].at = "defineDefault"
          /\ definitions' = [definitions EXCEPT !["default"] = {Blank}]
          /\ UNCHANGED settings
       \/ /\ commands[c].at = "define"
          /\ definitions' = [definitions EXCEPT ![commands[c].name] = {Blank}]
          /\ UNCHANGED settings
       \/ /\ commands[c].at \in {"configureDefault", "configure", "save"}
          /\ DataDirOf(commands[c].def) \in dirs
          /\ settings' = [settings EXCEPT ![DataDirOf(commands[c].def)] = {Zero}]
          /\ UNCHANGED definitions
    /\ UNCHANGED <<dirs, starts>>

-----------------------------------------------------------------------------
(* A command starts; every command makes a manager, and the manager makes  *)
(* the default workspace (ensureDefault). *)

StartCommand(c) ==
    /\ commands[c].at = "off" /\ starts < MaxStarts
    /\ starts' = starts + 1
    /\ \E op \in Ops, n \in Names, x \in ExternalNames :
          commands' = [commands EXCEPT ![c] =
              [NoCommand EXCEPT !.op = op, !.name = n, !.external = x, !.at = "manager"]]
    /\ UNCHANGED <<definitions, dirs, settings, failures>>

StatDefault(c) ==
    /\ commands[c].at = "manager"
    /\ Goes(c, IF definitions["default"] = {} THEN "defineDefault" ELSE "resolveDefault")
    /\ UNCHANGED <<definitions, dirs, settings, starts, failures>>

DefineDefault(c) ==
    /\ commands[c].at = "defineDefault"
    /\ WritesDefinition(c, "default", [name |-> "default", path |-> ""], "resolveDefault")

ResolveDefault(c) ==
    /\ commands[c].at = "resolveDefault"
    /\ IF definitions["default"] = {} THEN Goes(c, "off") /\ UNCHANGED dirs
       ELSE LET def == ContentOf(definitions["default"])
                d == DataDirOf(def) IN
            /\ dirs' = dirs \cup {d}
            /\ Holds(c, IF settings[d] = {} THEN "configureDefault" ELSE "ready", def, LoadedConfig(def))
    /\ UNCHANGED <<definitions, settings, starts, failures>>

ConfigureDefault(c) ==
    /\ commands[c].at = "configureDefault"
    /\ WritesSettings(c, DataDirOf(commands[c].def), commands[c].config, "ready")

-----------------------------------------------------------------------------
(* Manager.Create and Manager.Discover, which creates what is not there *)

CheckNew(c) ==
    /\ commands[c].at = "ready" /\ commands[c].op = "create"
    /\ \E path \in CustomPaths \cup {""} :
          IF commands[c].name = "default" \/ definitions[commands[c].name] # {}
          THEN Goes(c, "off")
          ELSE Holds(c, "define", [name |-> commands[c].name, path |-> path], NewSettings)
    /\ UNCHANGED <<definitions, dirs, settings, starts, failures>>

Discover(c) ==
    LET n == commands[c].name IN
    /\ commands[c].at = "ready" /\ commands[c].op \notin {"create", "delete"}
    /\ IF definitions[n] = {}
       THEN IF n = "default" THEN Goes(c, "off")
            ELSE Holds(c, "define", [name |-> n, path |-> ""], NewSettings)
       ELSE LET def == ContentOf(definitions[n]) IN Holds(c, "act", def, LoadedConfig(def))
    /\ UNCHANGED <<definitions, dirs, settings, starts, failures>>

Define(c) ==
    /\ commands[c].at = "define"
    /\ WritesDefinition(c, commands[c].name, commands[c].def, "makeDirs")

MakeDirs(c) ==
    /\ commands[c].at = "makeDirs"
    /\ dirs' = dirs \cup {DataDirOf(commands[c].def)}
    /\ Goes(c, "configure")
    /\ UNCHANGED <<definitions, settings, starts, failures>>

Configure(c) ==
    /\ commands[c].at = "configure"
    /\ WritesSettings(c, DataDirOf(commands[c].def), commands[c].config,
                      IF commands[c].op = "create" THEN "off" ELSE "act")

-----------------------------------------------------------------------------
(* Manager.Delete *)

(* Mutant: the default workspace can be deleted. *)
DeleteLoad_DefaultToo(c) ==
    LET n == commands[c].name IN
    /\ commands[c].at = "ready" /\ commands[c].op = "delete"
    /\ IF definitions[n] = {} THEN Goes(c, "off")
       ELSE Holds(c, "removeDefinition", ContentOf(definitions[n]), Zero)
    /\ UNCHANGED <<definitions, dirs, settings, starts, failures>>

DeleteLoad(c) ==
    LET n == commands[c].name IN
    /\ commands[c].at = "ready" /\ commands[c].op = "delete"
    /\ IF n = "default" \/ definitions[n] = {} THEN Goes(c, "off")
       ELSE Holds(c, "removeDefinition", ContentOf(definitions[n]), Zero)
    /\ UNCHANGED <<definitions, dirs, settings, starts, failures>>

RemoveDefinition(c) ==
    /\ commands[c].at = "removeDefinition"
    /\ Goes(c, IF definitions[commands[c].name] = {} THEN "off" ELSE "removeData")
    /\ definitions' = [definitions EXCEPT ![commands[c].name] = {}]
    /\ UNCHANGED <<dirs, settings, starts, failures>>

RemoveData(c) ==
    LET gone == Within(DataDirOf(commands[c].def)) IN
    /\ commands[c].at = "removeData"
    /\ dirs' = dirs \ gone
    /\ settings' = [d \in Dirs |-> IF d \in gone THEN {} ELSE settings[d]]
    /\ Goes(c, "off")
    /\ UNCHANGED <<definitions, starts, failures>>

-----------------------------------------------------------------------------
(* What a command or an agent does with the workspace it has resolved *)

Edits(c, config) ==
    /\ commands[c].at = "act"
    /\ commands' = [commands EXCEPT ![c].at = "save", ![c].config = config]
    /\ UNCHANGED <<definitions, dirs, settings, starts, failures>>

(* external-agent add: replaces the agent of that name, or adds it. *)
AddExternal(c) ==
    LET config == commands[c].config  x == commands[c].external IN
    /\ commands[c].op = "add"
    /\ Edits(c, [config EXCEPT !.agents = @ \cup {x}])

RemoveExternal(c) ==
    LET config == commands[c].config  x == commands[c].external IN
    /\ commands[c].op = "remove"
    /\ \/ /\ x \in config.agents
          /\ Edits(c, [config EXCEPT !.agents = @ \ {x}])
       \/ /\ x \notin config.agents /\ commands[c].at = "act"
          /\ Goes(c, "off")
          /\ UNCHANGED <<definitions, dirs, settings, starts, failures>>

(* config set, set-auth: the file is read again, as a cobot.Config. *)
SetConfig(c) ==
    LET file == settings[DataDirOf(commands[c].def)] IN
    /\ commands[c].op = "set"
    /\ Edits(c, [ConfigFields(IF file = {} THEN Zero ELSE ContentOf(file)) EXCEPT !.model = TRUE])

(* workspace_config_update of an agent with a sandbox: what it asks for is *)
(* put into the configuration in memory up to the first field it may not   *)
(* change. *)
UpdateConfig(c) ==
    LET config == commands[c].config IN
    /\ commands[c].op = "agent"
    /\ \/ Edits(c, [config EXCEPT !.enabled = ~@])
       \/ Edits(c, [config EXCEPT !.blocked = ~@])
       \/ /\ commands[c].at = "act"
          /\ Holds(c, "act", commands[c].def, [config EXCEPT !.enabled = ~@])
          /\ UNCHANGED <<definitions, dirs, settings, starts, failures>>

(* An agent goes on with the configuration it has in memory. *)
SaveConfig(c) ==
    /\ commands[c].at = "save"
    /\ WritesSettings(c, DataDirOf(commands[c].def), commands[c].config,
                      IF commands[c].op = "agent" THEN "act" ELSE "off")

(* The user interrupts it, or the agent's process ends. *)
Interrupted(c) ==
    /\ commands[c].at # "off" /\ Goes(c, "off")
    /\ UNCHANGED <<definitions, dirs, settings, starts, failures>>

-----------------------------------------------------------------------------
CommandStep(c) ==
    \/ StatDefault(c) \/ DefineDefault(c) \/ ResolveDefault(c) \/ ConfigureDefault(c)
    \/ CheckNew(c) \/ Discover(c) \/ Define(c) \/ MakeDirs(c) \/ Configure(c)
    \/ DeleteLoad(c) \/ RemoveDefinition(c) \/ RemoveData(c)
    \/ AddExternal(c) \/ RemoveExternal(c) \/ SetConfig(c) \/ UpdateConfig(c) \/ SaveConfig(c)

WorkspacesNext ==
    \E c \in Commands : StartCommand(c) \/ CommandStep(c) \/ WriteFails(c) \/ Interrupted(c)

WorkspacesSpec == WorkspacesInit /\ [][WorkspacesNext]_workspaceVars

-----------------------------------------------------------------------------
(* Properties *)

(* "default" is what every command falls back to (ResolveByNameOrDiscover): *)
(* as long as no write fails, whatever other commands create, delete and    *)
(* overwrite meanwhile, a command that has its manager finds the default    *)
(* workspace defined, with its own directory and a workspace.yaml.          *)
FallbackResolves ==
    (\E c \in Commands : commands[c].at \notin {"off", "manager", "defineDefault",
                                                 "resolveDefault", "configureDefault"})
    /\ failures = 0
    => /\ definitions["default"] = {[name |-> "default", path |-> ""]}
       /\ "default" \in dirs /\ settings["default"] # {}

(* workspace.yaml is the "Workspace config (sandbox, enabled skills/MCP,    *)
(* default agent)": an external agent that was added stays in it until it   *)
(* or the workspace is removed. *)
ExternalAgentsStay ==
    [][\A d \in Dirs : \A old \in settings[d], new \in settings'[d] :
          \A x \in old.agents \ new.agents :
             \E c \in Commands : commands[c].op = "remove" /\ commands[c].external = x]_workspaceVars
=============================================================================
