---------------------------- MODULE ChannelSetup ----------------------------
(***************************************************************************)
(* From "cobot setup feishu" to a gateway that serves the channel          *)
(* (internal/channel/feishu_setup.go, cmd/cobot/setup_feishu_cmd.go,       *)
(* setup.go, gateway_cmd.go, ConfigureGateway in internal/bootstrap): the  *)
(* registration at the platform, config.yaml, which several commands may   *)
(* read and write at once, and the channels a gateway makes of it.         *)
(*                                                                         *)
(* The app that a setup registers, or whose credentials the user types in, *)
(* is named after the setup.  Whether the probe of the bot succeeds        *)
(* changes nothing and is left out.  External: the registration server and *)
(* the user's tenant, as pollRegistration expects them to behave.          *)
(***************************************************************************)
EXTENDS Naturals, Sequences

CONSTANTS
    Setups,        \* runs of "cobot setup feishu"
    ChannelNames,  \* values of --name
    SanitizeId,    \* SanitizeId[n]: sanitizeChannelID without prefix, "" if refused
    HandWritten,   \* channels that a config.yaml may have from its author
    MaxPolls       \* polls until a device code expires, at most

Domains == {"feishu", "lark"}
NoApp == "none"
Entry == [name : ChannelNames, type : {"feishu", "reverse"}, app : Setups \cup {NoApp, "url"},
          domain : Domains]

(* No channel is listed twice: the id of a channel is made of its name. *)
Distinct(channels) ==
    \A i, j \in DOMAIN channels :
        channels[i].name = channels[j].name /\ channels[i].type = channels[j].type => i = j

ASSUME SetupAssumption ==
    /\ ChannelNames # {} /\ NoApp \notin Setups
    /\ SanitizeId \in [ChannelNames -> STRING]
    /\ HandWritten \subseteq Seq(Entry) /\ \A channels \in HandWritten : Distinct(channels)
    /\ MaxPolls \in Nat

VARIABLES
    file,      \* config.yaml
    setup,     \* setup[s]: the command, what it has read, and whose app scanned its code
    gateway,   \* the gateway command
    promised   \* channels that were reported saved, and that no other command may have undone

setupVars == <<file, setup, gateway, promised>>

(* "other" stands for the settings that are not channels. *)
File(kind, channels, other) == [kind |-> kind, channels |-> channels, other |-> other]
NoFile == File("none", <<>>, FALSE)
EmptyFile == File("empty", <<>>, FALSE)
FileKinds == {"none", "empty", "comments", "broken", "yaml"}
Files == [kind : FileKinds, channels : Seq(Entry), other : BOOLEAN]

SetupPlaces == {"new", "build", "poll", "enter", "stat", "create", "read", "write", "off"}
NewSetup == [at |-> "new", name |-> CHOOSE n \in ChannelNames : TRUE, qr |-> TRUE,
             domain |-> "feishu", polls |-> 0,
             tenant |-> "none", read |-> NoFile]
NoGateway == [at |-> "off", served |-> {}, promised |-> {}]

(* Types of the file, the setups and the gateway. *)
SetupTypeOK ==
    /\ file \in Files
    /\ setup \in [Setups -> [at : SetupPlaces, name : ChannelNames, qr : BOOLEAN, domain : Domains,
                             polls : 0 .. MaxPolls, tenant : Domains \cup {"none", "denied"},
                             read : Files]]
    /\ gateway \in [at : {"off", "running", "failed"},
                    served : SUBSET Entry, promised : SUBSET Entry]
    /\ promised \subseteq Entry

SetupInit ==
    /\ file \in {NoFile, EmptyFile, File("comments", <<>>, FALSE), File("broken", <<>>, TRUE)}
                \cup {File("yaml", channels, TRUE) : channels \in HandWritten}
    /\ setup = [s \in Setups |-> NewSetup]
    /\ gateway = NoGateway
    /\ promised = {}

-----------------------------------------------------------------------------
(* The registration *)

Moves(s, from, to) == setup[s].at = from /\ setup' = [setup EXCEPT ![s].at = to]
Ended == [NewSetup EXCEPT !.at = "off"]
Ends(s, from) == setup[s].at = from /\ setup' = [setup EXCEPT ![s] = Ended]
KeepsFile == UNCHANGED <<file, gateway, promised>>

StartSetup(s) ==
    /\ setup[s].at = "new"
    /\ \E n \in ChannelNames, d \in Domains, place \in {"build", "enter"} :
          setup' = [setup EXCEPT ![s] =
              [NewSetup EXCEPT !.at = place, !.name = n, !.domain = d, !.qr = (place = "build")]]
    /\ KeepsFile

(* BuildQRPayload: init and begin.  The server says when the code expires, *)
(* and may say that it has.  A failure falls back to manual input. *)
BuildQRPayload(s) ==
    /\ setup[s].at = "build"
    /\ \/ \E n \in 0 .. MaxPolls : setup' = [setup EXCEPT ![s].at = "poll", ![s].polls = n]
       \/ setup' = [setup EXCEPT ![s].at = "enter", ![s].qr = FALSE]
    /\ KeepsFile

(* External: the user scans the code. *)
Scan(s) ==
    /\ setup[s].at = "poll" /\ setup[s].tenant = "none"
    /\ \E t \in Domains \cup {"denied"} : setup' = [setup EXCEPT ![s].tenant = t]
    /\ KeepsFile

(* One poll that is answered with the credentials: the accounts server of  *)
(* the tenant's own domain has them. *)
PollSucceeds(s) ==
    /\ setup[s].at = "poll" /\ setup[s].polls > 0
    /\ setup[s].tenant = setup[s].domain
    /\ setup' = [setup EXCEPT ![s].at = "stat", ![s].polls = 0]
    /\ KeepsFile

(* A poll that fails or brings no credentials, and the sleep after it: the *)
(* deadline is looked at before the next one.  A lark tenant is asked for  *)
(* at lark from then on; there is no way back. *)
PollWaits(s) ==
    /\ setup[s].at = "poll" /\ setup[s].polls > 0
    /\ setup[s].tenant # "denied"
    /\ \E n \in 0 .. setup[s].polls - 1, d \in {setup[s].domain, setup[s].tenant} :
          /\ d \in {setup[s].domain, "lark"}
          /\ setup' = [setup EXCEPT ![s].polls = n, ![s].domain = d]
    /\ KeepsFile

(* access_denied, expired_token, or the deadline: manual input. *)
PollGivesUp(s) ==
    /\ setup[s].at = "poll"
    /\ setup' = [setup EXCEPT ![s].at = "enter", ![s].qr = FALSE, ![s].polls = 0,
                              ![s].tenant = "none"]
    /\ KeepsFile

(* The user types in app id and secret, or nothing. *)
EnterManually(s) ==
    /\ Moves(s, "enter", "stat") \/ Ends(s, "enter")
    /\ KeepsFile

-----------------------------------------------------------------------------
(* The file *)

StatConfig(s) ==
    /\ Moves(s, "stat", IF file = NoFile THEN "create" ELSE "read")
    /\ KeepsFile

(* os.Create empties a file that was written since. *)
CreateConfig(s) ==
    /\ Moves(s, "create", "read")
    /\ file' = EmptyFile /\ promised' = {}
    /\ UNCHANGED gateway

(* SaveFeishuChannelConfig reads: a file that cannot be parsed counts as   *)
(* empty; one that holds nothing but comments leaves a nil map, and the    *)
(* assignment to it panics. *)
ReadConfig(s) ==
    /\ setup[s].at = "read"
    /\ setup' = [setup EXCEPT ![s] = IF file.kind = "comments" THEN Ended
                                     ELSE [@ EXCEPT !.at = "write", !.read = file]]
    /\ KeepsFile

NewChannel(s, domain) ==
    [name |-> setup[s].name, type |-> "feishu", app |-> s, domain |-> domain]

(* Mutant: every channel is appended. *)
WithChannel_Appends(channels, new) == Append(channels, new)

(* The first feishu channel of that name is replaced. *)
WithChannel(channels, new) ==
    LET same == {i \in DOMAIN channels :
                    channels[i].name = new.name /\ channels[i].type = "feishu"} IN
    IF same = {} THEN Append(channels, new)
    ELSE [channels EXCEPT ![CHOOSE i \in same : \A j \in same : i <= j] = new]

(* What another command has written since the file was read is lost, so    *)
(* only this channel is promised then. *)
WriteConfig(s) ==
    LET old == setup[s].read
        actual == NewChannel(s, IF setup[s].qr THEN setup[s].tenant ELSE setup[s].domain) IN
    /\ Ends(s, "write")
    /\ file' = File("yaml", WithChannel(old.channels, NewChannel(s, setup[s].domain)),
                    old.kind = "yaml" /\ old.other)
    /\ promised' = {actual} \cup (IF old = file THEN {p \in promised : p.name # actual.name} ELSE {})
    /\ UNCHANGED gateway

(* os.WriteFile fails after it has emptied the file. *)
SaveFails(s) ==
    /\ Ends(s, "write")
    /\ file' = EmptyFile /\ promised' = {}
    /\ UNCHANGED gateway

CancelSetup(s) ==
    /\ setup[s].at \notin {"new", "off"}
    /\ setup' = [setup EXCEPT ![s] = Ended]
    /\ KeepsFile

(* The wizard "cobot setup" writes a config.yaml of its own. *)
Wizard ==
    /\ file' = File("yaml", <<>>, TRUE) /\ promised' = {}
    /\ UNCHANGED <<setup, gateway>>

-----------------------------------------------------------------------------
(* The gateway *)

ChannelOf(entry) == [type |-> entry.type, id |-> SanitizeId[entry.name]]
Creatable(entry) == entry.app # NoApp /\ ChannelOf(entry).id # ""
Created == {i \in DOMAIN file.channels : Creatable(file.channels[i])}
IdTaken ==
    \E i, j \in Created : i # j /\ ChannelOf(file.channels[i]) = ChannelOf(file.channels[j])

(* loadConfig takes the default configuration if there is no file, and ends *)
(* the command if it cannot be parsed. *)
Loadable == file.kind # "broken"

(* The gateway command: from what it has read alone, ConfigureGateway skips *)
(* the channels it cannot create and gives up at one whose id is taken.     *)
StartGateway ==
    /\ gateway.at = "off" /\ Loadable
    /\ gateway' = [at |-> IF IdTaken THEN "failed" ELSE "running",
                   served |-> {file.channels[i] : i \in Created}, promised |-> promised]
    /\ UNCHANGED <<file, setup, promised>>

StopGateway ==
    /\ gateway.at \in {"running", "failed"}
    /\ gateway' = NoGateway
    /\ UNCHANGED <<file, setup, promised>>

-----------------------------------------------------------------------------
SetupStep(s) ==
    \/ StartSetup(s) \/ BuildQRPayload(s) \/ Scan(s)
    \/ PollSucceeds(s) \/ PollWaits(s) \/ PollGivesUp(s) \/ EnterManually(s)
    \/ StatConfig(s) \/ CreateConfig(s) \/ ReadConfig(s) \/ WriteConfig(s)
    \/ SaveFails(s) \/ CancelSetup(s)

SetupNext ==
    \/ \E s \in Setups : SetupStep(s)
    \/ Wizard \/ StartGateway \/ StopGateway

SetupSpec == SetupInit /\ [][SetupNext]_setupVars

-----------------------------------------------------------------------------
(* Properties *)

(* A gateway serves every channel that was reported saved before it read   *)
(* config.yaml, with the app of that setup and the domain of the tenant    *)
(* that registered it, if its name makes an id and no command that ran     *)
(* between the reading and the writing of another undid it.  It fails to   *)
(* register only for the sake of two names that make the same id.          *)
SavedChannelsServed ==
    /\ gateway.at = "running" =>
          {p \in gateway.promised : SanitizeId[p.name] # ""} \subseteq gateway.served
    /\ gateway.at = "failed" =>
          \E e, f \in gateway.served : e.name # f.name /\ ChannelOf(e) = ChannelOf(f)
=============================================================================
