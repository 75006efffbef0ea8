-------------------------------- MODULE Projects --------------------------------
(***************************************************************************)
(* The projects of the server and the sockets that move between them:      *)
(* ProjectController (server/src/projects.rs), the project requests of a   *)
(* socket (project_requests.rs), the project's config file (project.rs)    *)
(* and the file watcher (runtime_fs.rs).                                   *)
(*                                                                         *)
(* Sockets open projects at the same time; the map of runtimes is locked   *)
(* twice, around the work of finding or creating the project's config.     *)
(***************************************************************************)
EXTENDS Naturals, FiniteSets

CONSTANTS
    Folders,        \* canonical paths under the projects' root
    Windows,        \* sockets
    MaxOpenings,    \* bound: project requests
    Nowhere         \* no folder, no id, no runtime

ASSUME ProjectsAssumption ==
    /\ MaxOpenings \in Nat
    /\ Folders # {}
    /\ Nowhere \notin Folders \cup Nat

\* A project id, and a runtime, is the number of the opening that made it.
Numbers == 1..MaxOpenings

VARIABLES
    dirs,       \* folders that exist
    configFile, \* folder -> the project id in its config, or Nowhere
    runtimes,   \* folder -> [runtime, id], what ProjectController.runtimes holds
    settings,   \* the folder whose project settings the shared Config was loaded from
    window,     \* per socket: its request's step, folder, id and runtime, and where it is
    watched,    \* per socket: the folder its file watcher watches
    openings

projectVars == <<dirs, configFile, runtimes, settings, window, watched, openings>>

NoRuntime == [runtime |-> Nowhere, id |-> Nowhere]

ProjectsInit ==
    /\ dirs = {CHOOSE f \in Folders : TRUE}
    /\ configFile = [f \in Folders |-> Nowhere]
    /\ runtimes = [f \in Folders |-> NoRuntime]
    /\ settings = Nowhere
    /\ window = [w \in Windows |->
                    [pc |-> "idle", folder |-> Nowhere, id |-> Nowhere, number |-> Nowhere,
                     found |-> Nowhere, at |-> Nowhere, runtime |-> Nowhere]]
    /\ watched = [w \in Windows |-> Nowhere]
    /\ openings = 0

-----------------------------------------------------------------------------

Goes(w, pc) == window' = [window EXCEPT ![w].pc = pc]

\* The work on folder f, which the request numbers.
Begin(w, f, pc) ==
    /\ window[w].pc = "idle"
    /\ openings < MaxOpenings
    /\ openings' = openings + 1
    /\ window' = [window EXCEPT ![w] =
                    [@ EXCEPT !.pc = pc, !.folder = f, !.number = openings + 1, !.id = Nowhere]]

\* project_switch_folder, or the runtime a new socket begins with.
SwitchFolder(w) ==
    /\ \E f \in dirs : Begin(w, f, "lookup")
    /\ UNCHANGED <<dirs, configFile, runtimes, settings, watched>>

\* project_switch: the folder in which list_projects finds a config with that id.
SwitchProject(w) ==
    /\ \E f \in dirs : configFile[f] # Nowhere /\ Begin(w, f, "lookup")
    /\ UNCHANGED <<dirs, configFile, runtimes, settings, watched>>

\* project_create, create_project: a folder whose name is not taken yet is chosen ...
CreateProject(w) ==
    /\ \E f \in Folders \ dirs : Begin(w, f, "descriptor")
    /\ UNCHANGED <<dirs, configFile, runtimes, settings, watched>>

\* ... and made, if it is not there by now, and gets a config; the socket stays where
\* it is.
CreateDescriptor(w) ==
    /\ window[w].pc = "descriptor"
    /\ dirs' = dirs \cup {window[w].folder}
    /\ configFile' = [configFile EXCEPT ![window[w].folder] = window[w].number]
    /\ Goes(w, "idle")
    /\ UNCHANGED <<runtimes, settings, watched, openings>>

\* runtime_for_path: the map is locked for a look.
LookUpRuntime(w) ==
    /\ window[w].pc = "lookup"
    /\ LET found == runtimes[window[w].folder]
       IN  IF found # NoRuntime
           THEN window' = [window EXCEPT ![w].pc = "reopen", ![w].found = found.runtime,
                                         ![w].id = found.id]
           ELSE Goes(w, "locate")
    /\ UNCHANGED <<dirs, configFile, runtimes, settings, watched, openings>>

\* A runtime that is there: the shared Config becomes this project's, and its
\* descriptor, as the runtime was opened with it, is written again.
Reopen(w) ==
    /\ window[w].pc = "reopen"
    /\ settings' = window[w].folder
    /\ configFile' = [configFile EXCEPT ![window[w].folder] = window[w].id]
    /\ Goes(w, "subscribe")
    /\ UNCHANGED <<dirs, runtimes, watched, openings>>

\* locate_config, and the descriptor is loaded if there is one.
LocateConfig(w) ==
    /\ window[w].pc = "locate"
    /\ LET id == configFile[window[w].folder]
       IN  window' = [window EXCEPT ![w].pc = IF id = Nowhere THEN "create" ELSE "insert",
                                    ![w].id = id]
    /\ UNCHANGED <<dirs, configFile, runtimes, settings, watched, openings>>

\* ProjectDescriptor::create, with a new id, over what another window may have written.
CreateConfig(w) ==
    /\ window[w].pc = "create"
    /\ configFile' = [configFile EXCEPT ![window[w].folder] = window[w].number]
    /\ window' = [window EXCEPT ![w].pc = "insert", ![w].id = window[w].number]
    /\ UNCHANGED <<dirs, runtimes, settings, watched, openings>>

\* Mutant: the map is not looked at again.
InsertUnchecked(w) ==
    /\ window[w].pc = "insert"
    /\ LET f == window[w].folder
       IN  /\ runtimes' = [runtimes EXCEPT ![f] =
                            [runtime |-> window[w].number, id |-> window[w].id]]
           /\ configFile' = [configFile EXCEPT ![f] = window[w].id]
           /\ window' = [window EXCEPT ![w].pc = "settle", ![w].found = window[w].number]
    /\ UNCHANGED <<dirs, settings, watched, openings>>

\* The map is locked again: another window's runtime is taken; else ProjectRuntime::new
\* writes the descriptor and opens the project's files, which may fail.
InsertRuntime(w) ==
    /\ window[w].pc = "insert"
    /\ LET f == window[w].folder
           found == runtimes[f]
       IN  \/ /\ found # NoRuntime
              /\ window' = [window EXCEPT ![w].pc = "settle", ![w].found = found.runtime]
              /\ UNCHANGED <<runtimes, configFile>>
           \/ /\ found = NoRuntime
              /\ configFile' = [configFile EXCEPT ![f] = window[w].id]
              /\ \/ /\ runtimes' = [runtimes EXCEPT ![f] =
                                        [runtime |-> window[w].number, id |-> window[w].id]]
                    /\ window' = [window EXCEPT ![w].pc = "settle",
                                                ![w].found = window[w].number]
                 \/ Goes(w, "idle") /\ UNCHANGED runtimes
    /\ UNCHANGED <<dirs, settings, watched, openings>>

\* The shared Config becomes this project's.
LoadSettings(w) ==
    /\ window[w].pc = "settle"
    /\ settings' = window[w].folder
    /\ Goes(w, "subscribe")
    /\ UNCHANGED <<dirs, configFile, runtimes, watched, openings>>

\* switch_runtime: the socket has its new runtime, listens to it, and its file watcher is
\* replaced; the client is sent project_opened.
SwitchRuntime(w) ==
    /\ window[w].pc = "subscribe"
    /\ window' = [window EXCEPT ![w].pc = "idle", ![w].at = window[w].folder,
                                 ![w].runtime = window[w].found]
    /\ watched' = [watched EXCEPT ![w] = window[w].folder]
    /\ UNCHANGED <<dirs, configFile, runtimes, settings, openings>>

ProjectsNext ==
    \E w \in Windows :
        \/ SwitchFolder(w) \/ SwitchProject(w) \/ CreateProject(w) \/ CreateDescriptor(w)
        \/ LookUpRuntime(w) \/ Reopen(w) \/ LocateConfig(w) \/ CreateConfig(w)
        \/ InsertRuntime(w) \/ LoadSettings(w) \/ SwitchRuntime(w)

ProjectsSpec == ProjectsInit /\ [][ProjectsNext]_projectVars

-----------------------------------------------------------------------------
(* Properties.                                                             *)

\* projects.rs, runtime_for_path: windows that are in one folder share one runtime, and
\* with it the R session, the timeline and the plots, however their openings interleave;
\* each watches the folder it is in.
OneRuntimePerProject ==
    \A w \in Windows : window[w].at # Nowhere =>
        /\ window[w].runtime = runtimes[window[w].at].runtime
        /\ watched[w] = window[w].at
=============================================================================
