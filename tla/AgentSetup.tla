------------------------------- MODULE AgentSetup -------------------------------
(***************************************************************************)
(* Choosing, finding and starting the external agent: the two places of    *)
(* acp.json (core/src/acp/config.rs), the search for the agents' binaries  *)
(* (detection.rs), the cache of downloaded ones (download.rs), the request *)
(* that sets the agent (server/src/routes.rs) and the launch of a          *)
(* project's agent (server/src/acp.rs).                                    *)
(*                                                                         *)
(* Requests and messages call all this at the same time and nothing locks  *)
(* the files; a request searches for every agent, whichever it is about.   *)
(***************************************************************************)
EXTENDS Naturals, Sequences, SequencesExt, FiniteSets

CONSTANTS
    AGENTS,         \* ids of the known agents, in the order of the table
    Downloads,      \* those that have a release on GitHub
    GithubReleases, \* what GitHub may list: sequences of assets, with prefix, target and length
    HostTarget,     \* the target of this machine
    Callers,        \* acp_set_config requests and messages to the agent
    MaxCalls,       \* bound: calls, and changes of the PATH
    MaxSetupFaults, \* bound: failed writes, and restarts
    Unset           \* an Option that is None, a file that is not there

Modes == {"api", "external_agent", "torn"}
Commands == [agent : Range(AGENTS), place : {"path", "cache"}]
Configs == [active_mode : Modes, active_agent : Range(AGENTS) \cup {Unset},
            active_agent_command : Commands \cup {Unset}]

ASSUME SetupAssumption ==
    /\ MaxCalls \in Nat /\ MaxSetupFaults \in Nat
    /\ AGENTS \in Seq(Range(AGENTS))
    /\ Downloads \subseteq Range(AGENTS)
    /\ Unset \notin Range(AGENTS) /\ Unset \notin Commands /\ Unset \notin Configs
    /\ \A release \in GithubReleases : \A i \in DOMAIN release :
           i \in Nat /\ release[i].length \in Nat

VARIABLES
    acpFile,    \* acp.json, in the app's folder and in the workspace
    onPath,     \* agents whose binary the PATH has
    cachedBin,    \* per agent with a download: the cache's current binary
    call,       \* per caller: where it is and what it knows
    child,      \* the command the project's gateway was started with
    launched,   \* the last launch: the config with the command it went by, and what told and
                \* shadowed were then
    told,       \* the config of the last acp_set_config that was acknowledged
    shadowed,   \* a write that failed hides that config, or left a file torn
    calls, setupFaults

setupVars == <<acpFile, onPath, cachedBin, call, child, launched, told, shadowed, calls,
               setupFaults>>

Places == {"app", "workspace"}
DefaultConfig == [active_mode |-> "api", active_agent |-> Unset, active_agent_command |-> Unset]
TornConfig == [DefaultConfig EXCEPT !.active_mode = "torn"]
NoCall == [pc |-> "idle"]

SetupInit ==
    /\ acpFile = [p \in Places |-> Unset]
    /\ onPath \in SUBSET (Range(AGENTS) \ Downloads)
    /\ cachedBin = [a \in Downloads |-> Unset]
    /\ call = [c \in Callers |-> NoCall]
    /\ child = Unset /\ launched = Unset
    /\ told = DefaultConfig /\ shadowed = FALSE
    /\ calls = 0 /\ setupFaults = 0

-----------------------------------------------------------------------------
(* acp.json.                                                               *)

\* Mutant: the workspace's file comes first.
load_workspace_first ==
    IF acpFile["workspace"] # Unset THEN acpFile["workspace"]
    ELSE IF acpFile["app"] # Unset THEN acpFile["app"] ELSE DefaultConfig

\* The workspace's file is read only where the app's folder has none; a file that does not
\* parse is an error.
load_acp_config ==
    IF acpFile["app"] # Unset THEN acpFile["app"]
    ELSE IF acpFile["workspace"] # Unset THEN acpFile["workspace"] ELSE DefaultConfig

is_external_mode(config) == config.active_mode = "external_agent"

\* A write replaces the file, or fails and leaves it as it is or empty.
FailedWrite(place, files) == {files, [files EXCEPT ![place] = TornConfig]}

-----------------------------------------------------------------------------
(* Finding the agents.                                                     *)

\* The shortest of some of a release's assets, the first of them if several are.
Shortest(release, assets) ==
    CHOOSE i \in assets : \A j \in assets :
        \/ release[i].length < release[j].length
        \/ release[i].length = release[j].length /\ i <= j

\* select_asset: an asset for this machine, or else one for any.
select_asset(release) ==
    LET named == {i \in DOMAIN release : release[i].prefix}
        fitting == {i \in named : release[i].target = HostTarget}
    IN  IF fitting # {} THEN release[Shortest(release, fitting)]
        ELSE IF named # {} THEN release[Shortest(release, named)] ELSE Unset

\* resolve_active_agent_command: the command the config names, if it is one of its agent's,
\* else the one that was found. Nobody asks whether the former still exists.
resolve_active_agent_command(config, found) ==
    IF ~is_external_mode(config) \/ config.active_agent = Unset THEN Unset
    ELSE IF config.active_agent_command # Unset
            /\ config.active_agent_command.agent = config.active_agent
    THEN config.active_agent_command
    ELSE IF \E f \in found : f.agent = config.active_agent
    THEN CHOOSE f \in found : f.agent = config.active_agent ELSE Unset

Continue(c, fields) == call' = [call EXCEPT ![c] = fields]
Return(c) == Continue(c, NoCall)

\* The agent a caller looks for is found, or it is not available; on to the next.
Found(c, place) == Continue(c, [call[c] EXCEPT !.pc = "detect", !.todo = Tail(@),
                        !.found = @ \cup {[agent |-> Head(call[c].todo), place |-> place]}])
Missing(c) == Continue(c, [call[c] EXCEPT !.pc = "detect", !.todo = Tail(@)])

Copying(a) == {c \in Callers : call[c].pc = "copying" /\ Head(call[c].todo) = a}

\* find_agent_binary, then cached_agent_binary, which takes any file there is.
DetectAgent(c) ==
    /\ call[c].pc = "detect" /\ call[c].todo # <<>>
    /\ LET a == Head(call[c].todo)
       IN  IF a \in onPath THEN Found(c, "path")
           ELSE IF a \notin Downloads THEN Missing(c)
           ELSE IF cachedBin[a] # Unset THEN Found(c, "cache")
           ELSE Continue(c, [call[c] EXCEPT !.pc = "fetch"])
    /\ UNCHANGED <<acpFile, onPath, cachedBin, child, launched, told, shadowed, calls, setupFaults>>

\* fetch_latest_release and the download; without a network the agent is skipped.
FetchRelease(c) ==
    /\ call[c].pc = "fetch"
    /\ \/ Missing(c)
       \/ \E release \in GithubReleases :
            LET asset == select_asset(release)
            IN  IF asset = Unset THEN Missing(c)
                ELSE Continue(c, [call[c] EXCEPT !.pc = "install", !.asset = asset,
                                                 !.release = release])
    /\ UNCHANGED <<acpFile, onPath, cachedBin, child, launched, told, shadowed, calls, setupFaults>>

\* download_and_install, to the copy into current: that file is there before it is whole.
BeginCopy(c) ==
    /\ call[c].pc = "install"
    /\ LET a == Head(call[c].todo)
       IN  cachedBin' = [cachedBin EXCEPT ![a] = [asset |-> call[c].asset, whole |-> FALSE,
                                              release |-> call[c].release]]
    /\ Continue(c, [call[c] EXCEPT !.pc = "copying"])
    /\ UNCHANGED <<acpFile, onPath, child, launched, told, shadowed, calls, setupFaults>>

\* The copy is done, and the binary whole if no other copy is still being written; or the
\* disk is full.
EndCopy(c) ==
    /\ call[c].pc = "copying"
    /\ LET a == Head(call[c].todo)
       IN  \/ /\ cachedBin' = [cachedBin EXCEPT ![a].whole = Copying(a) = {c}]
              /\ Found(c, "cache")
              /\ UNCHANGED setupFaults
           \/ /\ setupFaults < MaxSetupFaults
              /\ setupFaults' = setupFaults + 1
              /\ Missing(c)
              /\ UNCHANGED cachedBin
    /\ UNCHANGED <<acpFile, onPath, child, launched, told, shadowed, calls>>

-----------------------------------------------------------------------------
(* The requests.                                                           *)

Search(purpose, config) ==
    [pc |-> "detect", purpose |-> purpose, config |-> config, todo |-> AGENTS, found |-> {},
     asset |-> Unset, release |-> <<>>, told |-> told, shadowed |-> shadowed]

\* acp_set_config: an invalid mode, and an external one without an agent, are refused.
SetAcpConfig(c) ==
    /\ call[c] = NoCall /\ calls < MaxCalls
    /\ \/ Continue(c, [pc |-> "save", config |-> DefaultConfig])
       \/ \E a \in Range(AGENTS) :
            Continue(c, Search("set", [active_mode |-> "external_agent", active_agent |-> a,
                                       active_agent_command |-> Unset]))
    /\ calls' = calls + 1
    /\ UNCHANGED <<acpFile, onPath, cachedBin, child, launched, told, shadowed, setupFaults>>

\* ensure_agent_running of a message that should_use_acp: resolve_agent_launch_config.
LaunchAgent(c) ==
    /\ call[c] = NoCall /\ calls < MaxCalls
    /\ is_external_mode(load_acp_config)
    /\ load_acp_config.active_agent # Unset
    /\ Continue(c, Search("launch", load_acp_config))
    /\ calls' = calls + 1
    /\ UNCHANGED <<acpFile, onPath, cachedBin, child, launched, told, shadowed, setupFaults>>

\* The search is over: the agent is available and has a command, or the call fails.
Resolve(c) ==
    /\ call[c].pc = "detect" /\ call[c].todo = <<>>
    /\ LET config == call[c].config
           command == resolve_active_agent_command(config, call[c].found)
       IN  IF command = Unset THEN Return(c)
           ELSE Continue(c, [call[c] EXCEPT
                    !.config.active_agent_command = command,
                    !.pc = IF call[c].purpose = "set" THEN "save" ELSE "spawn"])
    /\ UNCHANGED <<acpFile, onPath, cachedBin, child, launched, told, shadowed, calls, setupFaults>>

\* save_acp_config: in the app's folder, or if that fails in the workspace, or nowhere; the
\* last is the only one that the user is told of.
SaveConfig(c) ==
    /\ call[c].pc = "save"
    /\ LET config == call[c].config
       IN  \/ /\ acpFile' = [acpFile EXCEPT !["app"] = config]
              /\ told' = config /\ shadowed' = FALSE
              /\ UNCHANGED setupFaults
           \/ /\ setupFaults < MaxSetupFaults
              /\ setupFaults' = setupFaults + 1
              /\ \E files \in FailedWrite("app", acpFile) :
                    \/ /\ acpFile' = [files EXCEPT !["workspace"] = config]
                       /\ told' = config /\ shadowed' = (files["app"] # Unset)
                    \/ /\ acpFile' \in FailedWrite("workspace", files)
                       /\ told' = told /\ shadowed' = (shadowed \/ acpFile' # acpFile)
    /\ Return(c)
    /\ UNCHANGED <<onPath, cachedBin, child, launched, calls>>

\* AcpGateway::initialize keeps the child it has, whatever the command; else it spawns the
\* command, which fails if its file is gone, or is not a whole program.
SpawnAgent(c) ==
    /\ call[c].pc = "spawn"
    /\ LET command == call[c].config.active_agent_command
           whole == IF command.place = "path" THEN command.agent \in onPath
                    ELSE cachedBin[command.agent].whole
       IN  IF child = Unset
           THEN /\ launched' = [config |-> call[c].config, told |-> call[c].told,
                                shadowed |-> call[c].shadowed]
                /\ child' = IF whole THEN command ELSE Unset
           ELSE UNCHANGED <<launched, child>>
    /\ Return(c)
    /\ UNCHANGED <<acpFile, onPath, cachedBin, told, shadowed, calls, setupFaults>>

-----------------------------------------------------------------------------

\* The user installs or removes an agent.
ChangePath ==
    /\ calls < MaxCalls
    /\ calls' = calls + 1
    /\ \E a \in Range(AGENTS) : onPath' = (onPath \ {a}) \cup ({a} \ onPath)
    /\ UNCHANGED <<acpFile, cachedBin, call, child, launched, told, shadowed, setupFaults>>

\* The server is ended and started again: a copy that was under way is cut.
RestartServer ==
    /\ setupFaults < MaxSetupFaults
    /\ setupFaults' = setupFaults + 1
    /\ call' = [c \in Callers |-> NoCall]
    /\ child' = Unset
    /\ UNCHANGED <<acpFile, onPath, cachedBin, launched, told, shadowed, calls>>

SetupNext ==
    \/ \E c \in Callers :
        \/ SetAcpConfig(c) \/ LaunchAgent(c) \/ DetectAgent(c) \/ FetchRelease(c) \/ BeginCopy(c)
        \/ EndCopy(c) \/ Resolve(c) \/ SaveConfig(c) \/ SpawnAgent(c)
    \/ ChangePath \/ RestartServer

SetupSpec == SetupInit /\ [][SetupNext]_setupVars

-----------------------------------------------------------------------------
(* Properties.                                                             *)

\* acp.rs, resolve_agent_launch_config, with config.rs, detection.rs and download.rs: a
\* project's agent is launched as the user was told it is set, unless a write failed and
\* that was saved where another file hides it; its command is one of that agent; a downloaded
\* binary is for this machine when the release has one, and is whole unless a write failed,
\* the server was restarted, or a copy is still being written, whoever found it.
LaunchedAsConfigured ==
    /\ launched # Unset =>
        /\ launched.config.active_agent_command.agent = launched.config.active_agent
        /\ ~launched.shadowed => launched.config.active_agent = launched.told.active_agent
        /\ launched.shadowed => setupFaults > 0
    /\ \A a \in Downloads : cachedBin[a] # Unset =>
        /\ (\E i \in DOMAIN cachedBin[a].release :
                cachedBin[a].release[i].prefix /\ cachedBin[a].release[i].target = HostTarget)
            => cachedBin[a].asset.target = HostTarget
        /\ ~cachedBin[a].whole => setupFaults > 0 \/ Copying(a) # {}
=============================================================================
