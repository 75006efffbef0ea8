-------------------------------- MODULE Settings --------------------------------
(***************************************************************************)
(* The settings (core/src/config/mod.rs): auth.json of a project, of the   *)
(* app's folder and of the old place, the one Config that the whole server *)
(* shares (server/src/main.rs, projects.rs) and the requests that change   *)
(* it (server/src/routes.rs).                                              *)
(*                                                                         *)
(* The Config is the last opened project's. A setting is changed in it and *)
(* then all of it is written to the file it was loaded from.               *)
(***************************************************************************)
EXTENDS Naturals, FiniteSets

CONSTANTS
    ConfigRoots,    \* projects' roots
    SettingNames,   \* keys, provider and models
    Switchers,      \* windows that open projects
    MaxSettings,    \* bound: settings changed
    MaxSwitches,    \* bound: projects opened
    MaxSaveFaults,  \* bound: failed writes, and restarts
    NotSet          \* no project, no Config

ASSUME SettingsAssumption ==
    /\ MaxSettings \in Nat /\ MaxSwitches \in Nat /\ MaxSaveFaults \in Nat
    /\ NotSet \notin ConfigRoots \cup {"global", "legacy"}
    /\ ConfigRoots \cap {"global", "legacy"} = {}

VARIABLES
    authFile,       \* the files: whether each is there or torn, and its settings
    sharedConfig,   \* state.config: the file it is saved to, and its settings
    switcher,       \* per window: the Config it has loaded for a project, or NotSet
    lastRoot,       \* the project whose Config was taken last, or NotSet
    acknowledged,   \* per file and setting: the last value acknowledged, and those refused since
    spoilt,         \* files that were torn, or that a Config was taken for that is not theirs
    settingsMade, switches, saveFaults

settingsVars == <<authFile, sharedConfig, switcher, lastRoot, acknowledged, spoilt,
                  settingsMade, switches, saveFaults>>

AuthFiles == ConfigRoots \cup {"global", "legacy"}

\* Settings are numbered in the order in which they are made: 0 is the default, 1 what a
\* file has from before.
Default == [source |-> "global", settings |-> [n \in SettingNames |-> 0]]
NotRunning == [Default EXCEPT !.source = NotSet]

SettingsInit ==
    /\ \E kept \in SUBSET AuthFiles :
        /\ authFile = [f \in AuthFiles |->
                IF f \in kept THEN [is |-> "there", settings |-> [n \in SettingNames |-> 1]]
                              ELSE [is |-> "absent", settings |-> Default.settings]]
        /\ acknowledged = [f \in AuthFiles |-> [n \in SettingNames |->
                IF f \in kept \/ (f = "global" /\ "legacy" \in kept) THEN {1} ELSE {0}]]
    /\ sharedConfig = NotRunning
    /\ switcher = [w \in Switchers |-> NotSet]
    /\ lastRoot = NotSet
    /\ spoilt = {}
    /\ settingsMade = 1 /\ switches = 0 /\ saveFaults = 0

-----------------------------------------------------------------------------
(* Config.                                                                 *)

\* Mutant: the app's file comes before the project's.
AppFileFirst(root) ==
    IF authFile["global"].is # "absent" THEN "global"
    ELSE IF root # NotSet /\ authFile[root].is # "absent" THEN root
    ELSE IF authFile["legacy"].is # "absent" THEN "legacy" ELSE NotSet

\* The file a project's settings are read from: its own, the app's, the old one, or none.
FileOf(root) ==
    IF root # NotSet /\ authFile[root].is # "absent" THEN root
    ELSE IF authFile["global"].is # "absent" THEN "global"
    ELSE IF authFile["legacy"].is # "absent" THEN "legacy" ELSE NotSet

\* A failed fs::write leaves the file as it is, or without its end.
FailedSave(f) == {authFile, [authFile EXCEPT ![f].is = "torn"]}
TornFiles(files) == {f \in AuthFiles : files[f].is = "torn"}

\* load_with_project.
load_with_project(root) ==
    LET f == FileOf(root)
    IN  IF f = NotSet THEN Default
        ELSE [source |-> IF f = "legacy" THEN "global" ELSE f, settings |-> authFile[f].settings]

\* It succeeds if the file parses; the old file is copied to the app's.
LoadSucceeds(root) ==
    LET f == FileOf(root)
    IN  /\ f # NotSet => authFile[f].is = "there"
        /\ authFile' = IF f = "legacy" THEN [authFile EXCEPT !["global"] = authFile[f]]
                                       ELSE authFile
        /\ UNCHANGED saveFaults

\* It fails at a torn file, or because the copy cannot be written.
LoadFails(root) ==
    LET f == FileOf(root)
    IN  /\ f # NotSet
        /\ \/ authFile[f].is = "torn" /\ UNCHANGED <<authFile, saveFaults>>
           \/ /\ f = "legacy" /\ authFile[f].is = "there"
              /\ saveFaults < MaxSaveFaults /\ saveFaults' = saveFaults + 1
              /\ authFile' \in FailedSave("global")

-----------------------------------------------------------------------------

\* main: the app's settings, or the defaults if they cannot be loaded.
StartServer ==
    /\ sharedConfig = NotRunning
    /\ \/ /\ LoadSucceeds(NotSet)
          /\ sharedConfig' = load_with_project(NotSet)
          /\ UNCHANGED spoilt
       \/ /\ LoadFails(NotSet)
          /\ sharedConfig' = Default
          /\ spoilt' = spoilt \cup {"global"}
    /\ UNCHANGED <<switcher, lastRoot, acknowledged, settingsMade, switches>>

\* The server is ended.
StopServer ==
    /\ sharedConfig # NotRunning
    /\ saveFaults < MaxSaveFaults /\ saveFaults' = saveFaults + 1
    /\ sharedConfig' = NotRunning
    /\ switcher' = [w \in Switchers |-> NotSet]
    /\ lastRoot' = NotSet
    /\ UNCHANGED <<authFile, acknowledged, spoilt, settingsMade, switches>>

\* runtime_for_path loads a project's settings; if that fails, so does the opening.
LoadProject(w) ==
    /\ sharedConfig # NotRunning /\ switcher[w] = NotSet
    /\ switches < MaxSwitches /\ switches' = switches + 1
    /\ \E root \in ConfigRoots :
        \/ /\ LoadSucceeds(root)
           /\ switcher' = [switcher EXCEPT ![w] =
                            [root |-> root, config |-> load_with_project(root)]]
        \/ LoadFails(root) /\ UNCHANGED switcher
    /\ spoilt' = spoilt \cup TornFiles(authFile')
    /\ UNCHANGED <<sharedConfig, lastRoot, acknowledged, settingsMade>>

\* Then, when it has the lock, the server's Config is replaced by what was loaded, even if
\* the file has been saved in between.
TakeConfig(w) ==
    /\ switcher[w] # NotSet
    /\ LET config == switcher[w].config
       IN  /\ sharedConfig' = config
           /\ spoilt' = IF authFile[config.source].settings = config.settings THEN spoilt
                        ELSE spoilt \cup {config.source}
    /\ lastRoot' = switcher[w].root
    /\ switcher' = [switcher EXCEPT ![w] = NotSet]
    /\ UNCHANGED <<authFile, acknowledged, settingsMade, switches, saveFaults>>

\* The file of the settings in use, as the user sees it.
MeantFile == IF lastRoot = NotSet \/ authFile[lastRoot].is = "absent" THEN "global" ELSE lastRoot

\* set_api_key, set_model, set_provider: the shared Config is changed, and all of it is
\* saved. A save that fails is refused, but the Config keeps the change.
SetSetting(n) ==
    /\ sharedConfig # NotRunning
    /\ settingsMade <= MaxSettings /\ settingsMade' = settingsMade + 1
    /\ LET config == [sharedConfig EXCEPT !.settings[n] = settingsMade']
           f == config.source
           saved == [is |-> "there", settings |-> config.settings]
       IN  /\ sharedConfig' = config
           /\ \/ /\ authFile' = [authFile EXCEPT ![f] = saved]
                 /\ acknowledged' = [acknowledged EXCEPT ![MeantFile][n] = {settingsMade'}]
                 /\ UNCHANGED saveFaults
              \/ /\ saveFaults < MaxSaveFaults /\ saveFaults' = saveFaults + 1
                 /\ authFile' \in FailedSave(f)
                 /\ acknowledged' = [acknowledged EXCEPT ![MeantFile][n] = @ \cup {settingsMade'}]
    /\ spoilt' = spoilt \cup TornFiles(authFile')
    /\ UNCHANGED <<switcher, lastRoot, switches>>

SettingsNext ==
    \/ StartServer \/ StopServer
    \/ \E w \in Switchers : LoadProject(w) \/ TakeConfig(w)
    \/ \E n \in SettingNames : SetSetting(n)

SettingsSpec == SettingsInit /\ [][SettingsNext]_settingsVars

-----------------------------------------------------------------------------
(* Properties.                                                             *)

\* config/mod.rs, projects.rs and routes.rs: the settings in use are those of the project
\* opened last; and a setting that was acknowledged is in the file of the project it was
\* made for, whatever is opened in the meantime and whichever saves are refused, unless a
\* write was cut, the server fell back to the defaults, or an opening brought back a Config
\* from before the save.
SettingsKept ==
    /\ sharedConfig # NotRunning => sharedConfig.source = MeantFile
    /\ \A f \in AuthFiles \ spoilt, n \in SettingNames :
        authFile[f].is = "there" => authFile[f].settings[n] \in acknowledged[f][n]
=============================================================================
