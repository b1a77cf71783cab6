--------------------------- MODULE MCInstallation ---------------------------
(* What a user sets up, on small instances, in one run: the workspaces      *)
(* (Workspaces), their files (SandboxPaths), the skills and the prompt made *)
(* from them (Skills), the channels in config.yaml (ChannelSetup) and those *)
(* of a running gateway (Gateway).  They share no variable, so a behaviour  *)
(* belongs to one of them; the others stay in an initial state.             *)
EXTENDS Skills, SandboxPaths, Workspaces, ChannelSetup, Gateway

-----------------------------------------------------------------------------
(* Two skills of the root, one of which is also a category, a skill in the   *)
(* category and the one that the analyzer writes; descriptions with a        *)
(* heading in a block of code, with a heading, and with an open block; a     *)
(* prompt without a skills section, one with a section between blocks of     *)
(* code that look like one, and one with two sections and an open block.     *)
MCPlaces == {<<"", "g">>, <<"", "s">>, <<"g", "s">>, <<"", "auto">>}
MCEntries == <<"auto", "g", "s">>
MCGlobalSkills == [n \in {"t"} |-> "v1"]

Plainly(i) == [kind |-> "text", of |-> <<i>>]
Heading(i) == [kind |-> "heading", of |-> <<i>>]
Fence(i) == [kind |-> "fence", of |-> <<i>>]
MCBasePrompts ==
    { <<Plainly(1), Heading(2)>>,
      <<Fence(1), MarkerLine, Fence(2), MarkerLine, Plainly(3),
        Fence(4), Heading(5), Fence(6), Heading(7), Plainly(8)>>,
      <<Plainly(1), MarkerLine, Heading(2), MarkerLine, Fence(3)>> }

MCDescription ==
    [v1 |-> <<Fence(11), Heading(12), Fence(13)>>, v2 |-> <<Heading(14)>>, v3 |-> <<Fence(15)>>]
MCBelow ==
    [skills \in Catalogs |->
        LET Of(n) == IF n \in DOMAIN skills THEN MCDescription[skills[n]] ELSE <<>>
        IN  Of("auto") \o Of("g") \o Of("s") \o Of("t")]

(* The calls that change skills are interchangeable. *)
CallSymmetry == Permutations(Calls)

(* The workspace's own directory or the user's project, with and without an  *)
(* agent that overrides its policy. *)
Section(root, virtual, allow, readonly) ==
    [root |-> root, virtual |-> virtual, allow |-> allow, readonly |-> readonly]
MCWorkspaceConfigs ==
    { Section(Unset, Unset, {}, {}),
      Section(<<"/", "p">>, Unset, {}, {<<"/", "p", "a">>}) }
MCAgentConfigs ==
    { Section(Unset, Unset, {}, {}),
      Section(Unset, <<"/", "v">>, {<<"/", "t", "a">>}, {<<"/", "t">>}),
      Section(Unset, <<"/", "p", "v">>, {}, {}) }
MCSpaceDir == <<"/", "d", "space">>
MCHomeDir == <<"/", "home", "w">>
MCTempDir == <<"/", "t">>
MCArguments ==
    { <<"/", "home", "w", "a", "f">>, <<"/", "v", "f">>, <<"a", "f">>, <<"f">>,
      <<"..", "f">>, <<"/", "t", "a">>, <<"/", "p", "a", "f">>,
      <<"/", "d", "space", "f">>, <<"/", "home", "w", "..", "..", "t", "f">>,
      <<"a">>, <<".">>, <<"/", "p", "a", "p", "f">>, <<"home", "w", "f">>, <<"v", "f">> }

MCCommandDirs == {Unset, <<"a">>}

(* Two names of channels that make the same id; a config.yaml without         *)
(* channels, and one with a reverse channel and a feishu channel that lacks  *)
(* its credentials. *)
MCSanitizeId == [n \in ChannelNames |-> "team"]
MCHandWritten ==
    { <<>>,
      <<[name |-> "team", type |-> "reverse", app |-> "url", domain |-> "feishu"],
        [name |-> "Team", type |-> "feishu", app |-> NoApp, domain |-> "lark"]>> }

(* One channel id, shared by the instances of the gateway and by a guest. *)
MCIdOf == [c \in Chans |-> CHOOSE i \in Ids : TRUE]

-----------------------------------------------------------------------------
VARIABLE part

Parts == {"skills", "paths", "workspaces", "setup", "channels", "messages"}
installationVars == <<part, skillVars, pathVars, workspaceVars, setupVars, gatewayVars>>

(* One of the initial states, for the behaviours of the other parts. *)
SkillsIdle ==
    /\ base = CHOOSE p \in BasePrompts : TRUE
    /\ \A p \in Places : disk[p] = "none"
PathsIdle ==
    config = EffectiveSandbox(CHOOSE w \in WorkspaceConfigs : TRUE, CHOOSE a \in AgentConfigs : TRUE)
SetupIdle == file = NoFile

InstallationInit ==
    /\ part \in Parts
    /\ SkillsInit /\ SandboxInit /\ WorkspacesInit /\ SetupInit /\ GatewayInit
    /\ part = "skills" \/ SkillsIdle
    /\ part = "paths" \/ PathsIdle
    /\ part = "setup" \/ SetupIdle

SkillsPart ==
    /\ part = "skills" /\ SkillsNext
    /\ UNCHANGED <<part, pathVars, workspaceVars, setupVars, gatewayVars>>
PathsPart ==
    /\ part = "paths" /\ SandboxNext
    /\ UNCHANGED <<part, skillVars, workspaceVars, setupVars, gatewayVars>>
WorkspacesPart ==
    /\ part = "workspaces" /\ WorkspacesNext
    /\ UNCHANGED <<part, skillVars, pathVars, setupVars, gatewayVars>>
SetupPart ==
    /\ part = "setup" /\ SetupNext
    /\ UNCHANGED <<part, skillVars, pathVars, workspaceVars, gatewayVars>>

(* The messages of a gateway depend on its channels only by their           *)
(* registration: they come without the guests and the health check.         *)
ChannelsPart ==
    /\ part = "channels" /\ GatewayNext
    /\ UNCHANGED <<part, skillVars, pathVars, workspaceVars, setupVars, call>>
MessagesPart ==
    /\ part = "messages" /\ GatewayNext
    /\ UNCHANGED <<part, skillVars, pathVars, workspaceVars, setupVars, guest, health>>

InstallationNext ==
    SkillsPart \/ PathsPart \/ WorkspacesPart \/ SetupPart \/ ChannelsPart \/ MessagesPart
InstallationSpec == InstallationInit /\ [][InstallationNext]_installationVars

-----------------------------------------------------------------------------
(* The types of all five. *)
InstallationTypeOK ==
    SkillsTypeOK /\ SandboxTypeOK /\ WorkspacesTypeOK /\ SetupTypeOK /\ GatewayTypeOK
=============================================================================
