----------------------------- MODULE ProjectsProofs -----------------------------
(***************************************************************************)
(* Theorems about what a project keeps: Projects, Settings and             *)
(* PlotHistory, for every set of folders, sockets, settings and plots and  *)
(* for every bound.                                                        *)
(***************************************************************************)
EXTENDS Projects, Settings, PlotHistory, SequenceTheorems, FiniteSetTheorems,
        WellFoundedInduction, TLAPS

-----------------------------------------------------------------------------
(* Projects.  OneRuntimePerProject is not inductive: a socket carries the  *)
(* runtime it found through several steps before it takes it.  Carried     *)
(* says that such a runtime is the one of the map, and Settled that a      *)
(* runtime in the map is there for good as far as any socket depends on    *)
(* it.                                                                     *)

Places == Folders \cup {Nowhere}
Ids == Nat \cup {Nowhere}

\* Steps at which a request has a folder, and those at which it has a runtime as well.
Searching == {"descriptor", "lookup", "locate", "create", "insert"}
Carrying == {"reopen", "settle", "subscribe"}

Requests == [pc : {"idle"} \cup Searching \cup Carrying, folder : Places, id : Ids,
             number : Ids, found : Ids, at : Places, runtime : Ids]

ProjectsTyped ==
    /\ dirs \subseteq Folders
    /\ configFile \in [Folders -> Ids]
    /\ runtimes \in [Folders -> [runtime : Ids, id : Ids]]
    /\ window \in [Windows -> Requests]
    /\ watched \in [Windows -> Places]
    /\ openings \in Nat

\* A request that is under way is about a folder and has a number.
Placed ==
    \A w \in Windows : window[w].pc # "idle" =>
        window[w].folder \in Folders /\ window[w].number \in Nat

\* A socket that is about to enter a folder carries the folder's runtime.
Carried ==
    \A w \in Windows : window[w].pc \in Carrying =>
        /\ runtimes[window[w].folder].runtime \in Nat
        /\ window[w].found = runtimes[window[w].folder].runtime

\* A socket that is in a folder has the folder's runtime and watches it.
Settled ==
    \A w \in Windows : window[w].at # Nowhere =>
        /\ window[w].at \in Folders
        /\ runtimes[window[w].at].runtime \in Nat
        /\ window[w].runtime = runtimes[window[w].at].runtime
        /\ watched[w] = window[w].at

\* An entry of the map has a runtime unless it is none.
Whole == \A f \in Folders : runtimes[f] = NoRuntime \/ runtimes[f].runtime \in Nat

ProjectsIInv == ProjectsTyped /\ Placed /\ Whole /\ Carried /\ Settled

(***************************************************************************)
(* A step that changes only the request of one socket, and neither the map *)
(* of runtimes nor where that socket is, keeps what the others rely on.    *)
(***************************************************************************)
LEMMA OneRequest ==
    ASSUME ProjectsIInv, NEW w \in Windows, NEW r \in Requests,
           window' = [window EXCEPT ![w] = r],
           r.at = window[w].at, r.runtime = window[w].runtime,
           r.pc # "idle" => r.folder \in Folders /\ r.number \in Nat,
           r.pc \in Carrying => /\ runtimes[r.folder].runtime \in Nat
                                /\ r.found = runtimes[r.folder].runtime,
           dirs' \subseteq Folders, configFile' \in [Folders -> Ids], openings' \in Nat,
           UNCHANGED <<runtimes, watched>>
    PROVE  ProjectsIInv'
<1>1. ProjectsTyped'
    BY DEF ProjectsIInv, ProjectsTyped
<1>2. /\ window'[w] = r
      /\ \A v \in Windows : v # w => window'[v] = window[v]
    BY DEF ProjectsIInv, ProjectsTyped
<1>3. Placed' /\ Carried' /\ Settled'
    BY <1>2 DEF ProjectsIInv, Placed, Carried, Settled
<1> QED
    BY <1>1, <1>3 DEF ProjectsIInv, Whole

(***************************************************************************)
(* A request that begins has a number of its own.                          *)
(***************************************************************************)
LEMMA BeginStep ==
    ASSUME ProjectsIInv, NEW w \in Windows, NEW f \in Folders, NEW pc \in Searching,
           Begin(w, f, pc),
           UNCHANGED <<dirs, configFile, runtimes, watched>>
    PROVE  ProjectsIInv'
<1> DEFINE r == [window[w] EXCEPT !.pc = pc, !.folder = f, !.number = openings + 1, !.id = Nowhere]
<1>1. window[w] \in Requests /\ openings + 1 \in Nat
    BY DEF ProjectsIInv, ProjectsTyped
<1>2. r \in Requests /\ r.pc = pc /\ r.folder = f /\ r.number = openings + 1
      /\ r.at = window[w].at /\ r.runtime = window[w].runtime
    BY <1>1 DEF Requests, Places, Ids, Searching
<1>3. pc \notin Carrying
    BY DEF Searching, Carrying
<1>4. /\ window' = [window EXCEPT ![w] = r] /\ openings' \in Nat
      /\ dirs' \subseteq Folders /\ configFile' \in [Folders -> Ids]
    BY <1>1 DEF Begin, ProjectsIInv, ProjectsTyped
<1> HIDE DEF r
<1> QED
    BY <1>1, <1>2, <1>3, <1>4, OneRequest

(***************************************************************************)
(* A step that changes no more of a request than how far it is, and not to *)
(* a step at which more is carried.                                        *)
(***************************************************************************)
LEMMA GoesStep ==
    ASSUME ProjectsIInv, NEW w \in Windows, NEW pc \in {"idle"} \cup Searching \cup Carrying,
           Goes(w, pc),
           window[w].pc # "idle", pc \in Carrying => window[w].pc \in Carrying,
           dirs' \subseteq Folders, configFile' \in [Folders -> Ids],
           UNCHANGED <<runtimes, watched, openings>>
    PROVE  ProjectsIInv'
<1> DEFINE r == [window[w] EXCEPT !.pc = pc]
<1>1. window[w] \in Requests /\ openings' \in Nat
    BY DEF ProjectsIInv, ProjectsTyped
<1>2. r \in Requests /\ r.pc = pc /\ r.folder = window[w].folder
      /\ r.number = window[w].number /\ r.found = window[w].found
      /\ r.at = window[w].at /\ r.runtime = window[w].runtime
    BY <1>1 DEF Requests
<1>3. window' = [window EXCEPT ![w] = r]
    BY DEF Goes
<1>4. /\ window[w].folder \in Folders /\ window[w].number \in Nat
      /\ pc \in Carrying => /\ runtimes[window[w].folder].runtime \in Nat
                            /\ window[w].found = runtimes[window[w].folder].runtime
    BY DEF ProjectsIInv, Placed, Carried
<1> HIDE DEF r
<1> QED
    BY <1>1, <1>2, <1>3, <1>4, OneRequest

(***************************************************************************)
(* A request that has found, or just made, the runtime of its folder.      *)
(***************************************************************************)
LEMMA FindStep ==
    ASSUME ProjectsIInv, NEW w \in Windows, window[w].pc \in Searching,
           NEW pc \in Carrying, NEW id \in Ids,
           runtimes[window[w].folder].runtime \in Nat,
           window' = [window EXCEPT ![w] =
                [@ EXCEPT !.pc = pc, !.id = id, !.found = runtimes[window[w].folder].runtime]],
           UNCHANGED <<dirs, configFile, runtimes, watched, openings>>
    PROVE  ProjectsIInv'
<1> DEFINE r == [window[w] EXCEPT !.pc = pc, !.id = id,
                                  !.found = runtimes[window[w].folder].runtime]
<1>1. window[w] \in Requests /\ window[w].folder \in Folders /\ window[w].number \in Nat
    BY DEF ProjectsIInv, ProjectsTyped, Placed, Searching
<1>2. r \in Requests /\ r.pc = pc /\ r.folder = window[w].folder
      /\ r.number = window[w].number /\ r.found = runtimes[window[w].folder].runtime
      /\ r.at = window[w].at /\ r.runtime = window[w].runtime
    BY <1>1 DEF Requests, Ids
<1>3. /\ window' = [window EXCEPT ![w] = r]
      /\ dirs' \subseteq Folders /\ configFile' \in [Folders -> Ids] /\ openings' \in Nat
    BY DEF ProjectsIInv, ProjectsTyped
<1> HIDE DEF r
<1> QED
    BY <1>1, <1>2, <1>3, OneRequest

(***************************************************************************)
(* The one step that writes the map: it adds a runtime where there was     *)
(* none, so that nobody who depends on an entry sees it change.            *)
(***************************************************************************)
LEMMA InsertStep ==
    ASSUME ProjectsAssumption, ProjectsIInv, NEW w \in Windows, InsertRuntime(w)
    PROVE  ProjectsIInv'
<1> DEFINE f == window[w].folder
           m == [runtime |-> window[w].number, id |-> window[w].id]
<1>1. /\ window[w] \in Requests /\ window[w].pc = "insert"
      /\ f \in Folders /\ window[w].number \in Nat /\ window[w].id \in Ids
      /\ dirs' \subseteq Folders /\ openings' \in Nat /\ UNCHANGED watched
    BY DEF ProjectsIInv, ProjectsTyped, Placed, InsertRuntime, Requests
<1>2. window[w].pc \in Searching /\ "settle" \in Carrying
    BY <1>1 DEF Searching, Carrying
<1>3. CASE runtimes[f] # NoRuntime
    <2>1. /\ runtimes[f].runtime \in Nat
          /\ window' = [window EXCEPT ![w].pc = "settle", ![w].found = runtimes[f].runtime]
          /\ UNCHANGED <<dirs, configFile, runtimes, watched, openings>>
        BY <1>1, <1>3 DEF InsertRuntime, ProjectsIInv, Whole
    <2>2. window' = [window EXCEPT ![w] = [@ EXCEPT !.pc = "settle", !.id = window[w].id,
                                                    !.found = runtimes[f].runtime]]
        BY <1>1, <2>1 DEF ProjectsIInv, ProjectsTyped, Requests
    <2>3. "settle" \in Carrying /\ window[w].pc \in Searching /\ window[w].id \in Ids
        BY <1>1, <1>2
    <2>4. runtimes[window[w].folder].runtime \in Nat
        BY <2>1
    <2>5. window' = [window EXCEPT ![w] =
                [@ EXCEPT !.pc = "settle", !.id = window[w].id,
                          !.found = runtimes[window[w].folder].runtime]]
        BY <2>2
    <2>6. UNCHANGED <<dirs, configFile, runtimes, watched, openings>>
        BY <2>1
    <2> QED
        BY <2>3, <2>4, <2>5, <2>6, FindStep
<1>4. CASE /\ configFile' = [configFile EXCEPT ![f] = window[w].id]
           /\ Goes(w, "idle") /\ UNCHANGED runtimes
    <2>1. configFile' \in [Folders -> Ids] /\ UNCHANGED <<runtimes, watched, openings>>
        BY <1>1, <1>4 DEF InsertRuntime, ProjectsIInv, ProjectsTyped
    <2>2. window[w].pc # "idle" /\ "idle" \notin Carrying
        BY <1>1 DEF Carrying
    <2> QED
        BY <1>1, <1>4, <2>1, <2>2, GoesStep
<1>5. CASE /\ runtimes[f] = NoRuntime /\ runtimes' = [runtimes EXCEPT ![f] = m]
           /\ configFile' = [configFile EXCEPT ![f] = window[w].id]
           /\ window' = [window EXCEPT ![w].pc = "settle", ![w].found = window[w].number]
    <2> DEFINE r == [window[w] EXCEPT !.pc = "settle", !.found = window[w].number]
    <2>1. UNCHANGED <<dirs, watched, openings>>
        BY DEF InsertRuntime
    <2>2. window' = [window EXCEPT ![w] = r]
        BY <1>5
    <2>3. r \in Requests /\ r.pc = "settle" /\ r.folder = f /\ r.number = window[w].number
          /\ r.found = window[w].number /\ r.at = window[w].at /\ r.runtime = window[w].runtime
        BY <1>1, <1>2 DEF Requests, Ids
    <2>4. m \in [runtime : Ids, id : Ids] /\ m.runtime = window[w].number
        BY <1>1 DEF Ids
    <2>5. NoRuntime.runtime \notin Nat
        BY DEF ProjectsAssumption, NoRuntime
    <2> HIDE DEF r, m, f
    <2>6. ProjectsTyped'
        <3>1. /\ configFile \in [Folders -> Ids] /\ window \in [Windows -> Requests]
              /\ runtimes \in [Folders -> [runtime : Ids, id : Ids]]
              /\ watched' \in [Windows -> Places]
            BY <1>1 DEF ProjectsIInv, ProjectsTyped
        <3>2. configFile' \in [Folders -> Ids]
            BY <1>1, <1>5, <3>1
        <3>3. window' \in [Windows -> Requests]
            BY <2>2, <2>3, <3>1
        <3>4. runtimes' \in [Folders -> [runtime : Ids, id : Ids]]
            BY <1>5, <2>4, <3>1
        <3> QED
            BY <1>1, <3>1, <3>2, <3>3, <3>4 DEF ProjectsTyped
    <2>7. /\ window'[w] = r /\ \A v \in Windows : v # w => window'[v] = window[v]
          /\ runtimes'[f] = m /\ \A g \in Folders : g # f => runtimes'[g] = runtimes[g]
        BY <1>1, <1>5, <2>1, <2>2 DEF ProjectsIInv, ProjectsTyped
    <2>8. Placed' /\ Whole'
        BY <1>1, <2>3, <2>4, <2>7 DEF ProjectsIInv, Placed, Whole
    <2>9. \A g \in Folders : runtimes[g].runtime \in Nat => g # f /\ runtimes'[g] = runtimes[g]
        <3>1. runtimes[f].runtime \notin Nat
            BY <1>5, <2>5
        <3> QED
            BY <2>7, <3>1
    <2>10. ASSUME NEW v \in Windows, window'[v].pc \in Carrying
           PROVE  /\ runtimes'[window'[v].folder].runtime \in Nat
                  /\ window'[v].found = runtimes'[window'[v].folder].runtime
        <3>1. CASE v = w
            BY <1>1, <2>3, <2>4, <2>7, <3>1
        <3>2. CASE v # w
            <4>1. window'[v] = window[v] /\ window[v].pc \in Carrying /\ window[v].pc # "idle"
                BY <2>7, <2>10, <3>2 DEF Carrying
            <4> QED
                BY <2>9, <4>1 DEF ProjectsIInv, Placed, Carried
        <3> QED
            BY <3>1, <3>2
    <2>11. Settled'
        <3>1. \A v \in Windows :
                window'[v].at = window[v].at /\ window'[v].runtime = window[v].runtime
            BY <2>3, <2>7
        <3> QED
            BY <2>1, <2>9, <3>1 DEF ProjectsIInv, Settled
    <2> QED
        BY <2>6, <2>8, <2>10, <2>11 DEF ProjectsIInv, Carried
<1> QED
    BY <1>3, <1>4, <1>5 DEF InsertRuntime

(***************************************************************************)
(* The socket takes the runtime it carries and watches the folder.         *)
(***************************************************************************)
LEMMA SwitchStep ==
    ASSUME ProjectsIInv, NEW w \in Windows, SwitchRuntime(w)
    PROVE  ProjectsIInv'
<1> DEFINE r == [window[w] EXCEPT !.pc = "idle", !.at = window[w].folder,
                                  !.runtime = window[w].found]
<1>1. /\ window[w] \in Requests /\ window[w].folder \in Folders
      /\ runtimes[window[w].folder].runtime \in Nat
      /\ window[w].found = runtimes[window[w].folder].runtime
    BY DEF ProjectsIInv, ProjectsTyped, Placed, Carried, Carrying, SwitchRuntime
<1>2. /\ window' = [window EXCEPT ![w] = r]
      /\ watched' = [watched EXCEPT ![w] = window[w].folder]
      /\ UNCHANGED <<dirs, configFile, runtimes, openings>>
    BY DEF SwitchRuntime
<1>3. r \in Requests /\ r.pc = "idle" /\ r.at = window[w].folder /\ r.runtime = window[w].found
    BY <1>1 DEF Requests, Places
<1> HIDE DEF r
<1>4. ProjectsTyped'
    BY <1>1, <1>2, <1>3 DEF ProjectsIInv, ProjectsTyped, Places
<1>5. /\ window'[w] = r /\ watched'[w] = window[w].folder
      /\ \A v \in Windows : v # w => window'[v] = window[v] /\ watched'[v] = watched[v]
    BY <1>2 DEF ProjectsIInv, ProjectsTyped
<1>6. Placed' /\ Whole' /\ Carried' /\ Settled'
    BY <1>1, <1>2, <1>3, <1>5 DEF ProjectsIInv, Placed, Whole, Carried, Settled, Carrying
<1> QED
    BY <1>4, <1>6 DEF ProjectsIInv

(***************************************************************************)
(* No socket is anywhere and no project has a runtime at the start.        *)
(***************************************************************************)
LEMMA InitProjects ==
    ASSUME ProjectsAssumption, ProjectsInit
    PROVE  ProjectsIInv
<1>1. (CHOOSE f \in Folders : TRUE) \in Folders
    BY DEF ProjectsAssumption
<1>2. /\ runtimes = [f \in Folders |-> NoRuntime] /\ watched = [w \in Windows |-> Nowhere]
      /\ \A w \in Windows : window[w].pc = "idle" /\ window[w].at = Nowhere
    BY DEF ProjectsInit
<1>3. NoRuntime \in [runtime : Ids, id : Ids]
    BY DEF NoRuntime, Ids
<1>4. [pc |-> "idle", folder |-> Nowhere, id |-> Nowhere, number |-> Nowhere,
       found |-> Nowhere, at |-> Nowhere, runtime |-> Nowhere] \in Requests
    BY DEF Requests, Places, Ids
<1>5. ProjectsTyped
    BY <1>1, <1>3, <1>4 DEF ProjectsInit, ProjectsTyped, Places, Ids
<1>6. Placed /\ Whole /\ Carried /\ Settled
    BY <1>2 DEF Placed, Whole, Carried, Settled, Carrying
<1> QED
    BY <1>5, <1>6 DEF ProjectsIInv

(***************************************************************************)
(* Every step keeps the inductive invariant.                               *)
(***************************************************************************)
LEMMA StepProjects ==
    ASSUME ProjectsAssumption, ProjectsIInv, [ProjectsNext]_projectVars
    PROVE  ProjectsIInv'
<1>1. CASE UNCHANGED projectVars
    BY <1>1 DEF projectVars, ProjectsIInv, ProjectsTyped, Placed, Whole, Carried, Settled
<1>2. ASSUME NEW w \in Windows, NEW f \in Folders, NEW pc \in Searching, Begin(w, f, pc),
             UNCHANGED <<dirs, configFile, runtimes, watched>>
      PROVE  ProjectsIInv'
    BY <1>2, BeginStep
<1>3. dirs \subseteq Folders /\ "lookup" \in Searching /\ "descriptor" \in Searching
    BY DEF ProjectsIInv, ProjectsTyped, Searching
<1>4. ASSUME NEW w \in Windows, SwitchFolder(w) \/ SwitchProject(w) \/ CreateProject(w)
      PROVE  ProjectsIInv'
    BY <1>2, <1>3, <1>4 DEF SwitchFolder, SwitchProject, CreateProject
<1>5. ASSUME NEW w \in Windows PROVE window[w] \in Requests
    BY DEF ProjectsIInv, ProjectsTyped
<1>6. ASSUME NEW w \in Windows, window[w].pc \in Searching \cup Carrying
      PROVE  window[w].folder \in Folders /\ window[w].number \in Nat /\ window[w].id \in Ids
    BY <1>5, <1>6 DEF ProjectsIInv, Placed, Searching, Carrying, Requests
<1>7. ASSUME NEW w \in Windows, CreateDescriptor(w)
      PROVE  ProjectsIInv'
    <2>1. window[w].pc \in Searching /\ window[w].pc # "idle" /\ "idle" \notin Carrying
        BY <1>7 DEF CreateDescriptor, Searching, Carrying
    <2>2. dirs' \subseteq Folders /\ configFile' \in [Folders -> Ids]
        BY <1>6, <1>7, <2>1 DEF CreateDescriptor, ProjectsIInv, ProjectsTyped, Ids
    <2> QED
        BY <1>7, <2>1, <2>2, GoesStep DEF CreateDescriptor
<1>8. ASSUME NEW w \in Windows, LookUpRuntime(w)
      PROVE  ProjectsIInv'
    <2> DEFINE e == runtimes[window[w].folder]
    <2>1. window[w].pc = "lookup" /\ window[w].folder \in Folders
          /\ dirs \subseteq Folders /\ configFile \in [Folders -> Ids] /\ window[w] \in Requests
        BY <1>5, <1>6, <1>8 DEF LookUpRuntime, ProjectsIInv, ProjectsTyped, Searching
    <2>2. CASE e = NoRuntime
        <3>1. Goes(w, "locate") /\ UNCHANGED <<dirs, configFile, runtimes, watched, openings>>
            BY <1>8, <2>2 DEF LookUpRuntime
        <3> QED
            BY <2>1, <3>1, GoesStep DEF Searching, Carrying
    <2>3. CASE e # NoRuntime
        <3>1. /\ window' = [window EXCEPT ![w].pc = "reopen", ![w].found = e.runtime,
                                          ![w].id = e.id]
              /\ UNCHANGED <<dirs, configFile, runtimes, watched, openings>>
            BY <1>8, <2>3 DEF LookUpRuntime
        <3>2. e.runtime \in Nat /\ e.id \in Ids
            BY <2>1, <2>3 DEF ProjectsIInv, ProjectsTyped, Whole
        <3>3. window' = [window EXCEPT ![w] =
                            [@ EXCEPT !.pc = "reopen", !.id = e.id, !.found = e.runtime]]
            BY <2>1, <3>1 DEF Requests, ProjectsIInv, ProjectsTyped
        <3> QED
            BY <2>1, <3>1, <3>2, <3>3, FindStep DEF Searching, Carrying
    <2> QED
        BY <2>2, <2>3
<1>9. ASSUME NEW w \in Windows, Reopen(w) \/ LoadSettings(w)
      PROVE  ProjectsIInv'
    <2>1. /\ window[w].pc \in Carrying /\ window[w].pc # "idle"
          /\ "subscribe" \in Carrying
          /\ UNCHANGED <<dirs, runtimes, watched, openings>> /\ Goes(w, "subscribe")
        BY <1>9 DEF Reopen, LoadSettings, Carrying
    <2>2. dirs' \subseteq Folders /\ configFile' \in [Folders -> Ids]
        BY <1>6, <1>9, <2>1 DEF Reopen, LoadSettings, ProjectsIInv, ProjectsTyped
    <2> QED
        BY <2>1, <2>2, GoesStep
<1>10. ASSUME NEW w \in Windows, LocateConfig(w) \/ CreateConfig(w)
       PROVE  ProjectsIInv'
    <2>1. PICK pc \in {"create", "insert"}, id \in Ids :
              window' = [window EXCEPT ![w].pc = pc, ![w].id = id]
        BY <1>6, <1>10 DEF LocateConfig, CreateConfig, ProjectsIInv, ProjectsTyped, Searching, Ids
    <2> DEFINE r == [window[w] EXCEPT !.pc = pc, !.id = id]
    <2>2. /\ window[w].pc \in Searching /\ UNCHANGED <<dirs, runtimes, watched, openings>>
          /\ window[w] \in Requests /\ window[w].folder \in Folders /\ window[w].number \in Nat
        BY <1>5, <1>6, <1>10 DEF LocateConfig, CreateConfig, Searching
    <2>3. dirs' \subseteq Folders /\ openings' \in Nat /\ configFile' \in [Folders -> Ids]
        BY <1>10, <2>2 DEF LocateConfig, CreateConfig, ProjectsIInv, ProjectsTyped, Ids
    <2>4. r \in Requests /\ r.pc = pc /\ r.folder = window[w].folder
          /\ r.number = window[w].number /\ r.at = window[w].at /\ r.runtime = window[w].runtime
        BY <2>2 DEF Requests, Searching
    <2>5. window' = [window EXCEPT ![w] = r] /\ r.pc \notin Carrying
        BY <2>1, <2>4 DEF Carrying
    <2> HIDE DEF r
    <2> QED
        BY <2>2, <2>3, <2>4, <2>5, OneRequest
<1>11. ASSUME NEW w \in Windows, InsertRuntime(w) \/ SwitchRuntime(w)
       PROVE  ProjectsIInv'
    BY <1>11, InsertStep, SwitchStep
<1> QED
    BY <1>1, <1>4, <1>7, <1>8, <1>9, <1>10, <1>11 DEF ProjectsNext

(***************************************************************************)
(* Sockets in one folder share the folder's one runtime and each watches   *)
(* the folder it is in, however their openings interleave.                 *)
(***************************************************************************)
THEOREM ProjectsSafe == ProjectsSpec => []OneRuntimePerProject
<1>1. ProjectsAssumption
    BY ProjectsAssumption
<1>2. ProjectsInit => ProjectsIInv
    BY <1>1, InitProjects
<1>3. ProjectsIInv /\ [ProjectsNext]_projectVars => ProjectsIInv'
    BY <1>1, StepProjects
<1>4. ProjectsIInv => OneRuntimePerProject
    BY DEF ProjectsIInv, Settled, OneRuntimePerProject
<1> QED
    BY <1>2, <1>3, <1>4, PTL DEF ProjectsSpec

-----------------------------------------------------------------------------
(* Settings.  A save writes all the settings in use, so one that went      *)
(* wrong is seen in a file many openings later.  The inductive invariant   *)
(* says of every copy, in the files, in use and on its way from an         *)
(* opening, which file it belongs to (ConfigKept, SwitchersKept) and that  *)
(* it was acknowledged for that file (FilesKept).                          *)

Values == [SettingNames -> Nat]
ConfigFiles == ConfigRoots \cup {"global"}
Configs == [source : ConfigFiles, settings : Values]

SettingsTyped ==
  /\ authFile \in [AuthFiles -> [is : {"absent", "there", "torn"}, settings : Values]]
  /\ sharedConfig \in Configs \cup {NotRunning}
  /\ switcher \in [Switchers -> [root : ConfigRoots, config : Configs] \cup {NotSet}]
  /\ lastRoot \in ConfigRoots \cup {NotSet}
  /\ acknowledged \in [AuthFiles -> [SettingNames -> SUBSET Nat]]
  /\ spoilt \subseteq AuthFiles
  /\ settingsMade \in Nat

Running == sharedConfig # NotRunning
Present(f) == authFile[f].is # "absent"
\* Each setting is one that was acknowledged for the file.
Acked(values, f) == \A n \in SettingNames : values[n] \in acknowledged[f][n]

\* Where a project's settings are saved.
HomeOf(root) == IF root = NotSet \/ ~Present(root) THEN "global" ELSE root

\* A file that nothing has spoilt has settings that were acknowledged for it; the app's file
\* is not there yet while only the old one is, which is copied to it.
FilesKept ==
  /\ TornFiles(authFile) \subseteq spoilt
  /\ \A f \in AuthFiles \ spoilt : authFile[f].is = "there" => Acked(authFile[f].settings, f)
  /\ \A f \in AuthFiles : ~Present(f) => authFile[f].settings = Default.settings
  /\ authFile["legacy"].is # "torn"
  /\ ~Present("global") =>
       Acked(IF Present("legacy") THEN authFile["legacy"].settings ELSE Default.settings, "global")

\* The settings in use come from the file of the project opened last, and were acknowledged
\* for it unless something has spoilt it.
ConfigKept ==
  /\ ~Running => lastRoot = NotSet
  /\ Running => /\ sharedConfig.source = HomeOf(lastRoot)
                /\ sharedConfig.source \notin spoilt =>
                     Acked(sharedConfig.settings, sharedConfig.source)

\* An opening carries settings from the file of its project, which is there by now if there
\* is one to be copied.
SwitchersKept ==
  \A w \in Switchers : switcher[w] # NotSet =>
    /\ Running
    /\ switcher[w].config.source = HomeOf(switcher[w].root)
    /\ ~Present("global") /\ switcher[w].config.source = "global" => ~Present("legacy")

\* The inductive invariant.
SettingsIInv == SettingsTyped /\ FilesKept /\ ConfigKept /\ SwitchersKept

(***************************************************************************)
(* The invariant holds at first.                                           *)
(***************************************************************************)
LEMMA InitSettings ==
  ASSUME SettingsAssumption, SettingsInit
  PROVE  SettingsIInv
<1> USE DEF Default, NotRunning
<1>1. PICK kept \in SUBSET AuthFiles :
        /\ authFile = [f \in AuthFiles |->
             IF f \in kept THEN [is |-> "there", settings |-> [n \in SettingNames |-> 1]]
                           ELSE [is |-> "absent", settings |-> Default.settings]]
        /\ acknowledged = [f \in AuthFiles |-> [n \in SettingNames |->
             IF f \in kept \/ (f = "global" /\ "legacy" \in kept) THEN {1} ELSE {0}]]
  BY DEF SettingsInit
<1>2. Default.settings = [n \in SettingNames |-> 0] /\ "global" \in AuthFiles
      /\ "legacy" \in AuthFiles
  BY DEF AuthFiles
<1>3. SettingsTyped
  <2>1. authFile \in [AuthFiles -> [is : {"absent", "there", "torn"}, settings : Values]]
    BY <1>1, <1>2 DEF Values
  <2>2. acknowledged \in [AuthFiles -> [SettingNames -> SUBSET Nat]]
    BY <1>1
  <2>3. /\ sharedConfig = NotRunning /\ switcher = [w \in Switchers |-> NotSet]
        /\ lastRoot = NotSet /\ spoilt = {} /\ settingsMade = 1
    BY DEF SettingsInit
  <2> QED
    BY <2>1, <2>2, <2>3 DEF SettingsTyped
<1>4. FilesKept
  <2>1. ASSUME NEW f \in AuthFiles
        PROVE  /\ authFile[f].is = IF f \in kept THEN "there" ELSE "absent"
               /\ authFile[f].settings = IF f \in kept THEN [n \in SettingNames |-> 1]
                                                       ELSE Default.settings
               /\ \A n \in SettingNames : acknowledged[f][n] =
                    IF f \in kept \/ (f = "global" /\ "legacy" \in kept) THEN {1} ELSE {0}
    BY <1>1
  <2>2. TornFiles(authFile) = {}
    BY <2>1 DEF TornFiles
  <2>3. \A f \in AuthFiles : authFile[f].is = "there" => Acked(authFile[f].settings, f)
    BY <2>1 DEF Acked
  <2>4. \A f \in AuthFiles : ~Present(f) => authFile[f].settings = Default.settings
    BY <2>1 DEF Present
  <2>5. authFile["legacy"].is # "torn"
    BY <1>2, <2>1
  <2>6. ~Present("global") =>
          Acked(IF Present("legacy") THEN authFile["legacy"].settings ELSE Default.settings,
                "global")
    BY <1>2, <2>1 DEF Acked, Present
  <2> QED
    BY <2>2, <2>3, <2>4, <2>5, <2>6 DEF FilesKept
<1>5. ConfigKept /\ SwitchersKept
  BY DEF SettingsInit, ConfigKept, SwitchersKept, Running
<1> QED
  BY <1>3, <1>4, <1>5 DEF SettingsIInv

(***************************************************************************)
(* load_with_project, when it succeeds, returns settings of the project's  *)
(* file, and makes the app's file from the old one at most.                *)
(***************************************************************************)
LEMMA LoadedFile ==
  ASSUME SettingsAssumption, SettingsIInv, NEW root \in ConfigRoots \cup {NotSet},
         LoadSucceeds(root)
  PROVE  LET config == load_with_project(root)
         IN  /\ authFile' \in [AuthFiles -> [is : {"absent", "there", "torn"}, settings : Values]]
             /\ \A f \in AuthFiles \ {"global"} : authFile'[f] = authFile[f]
             /\ Present("global") => authFile'["global"] = authFile["global"]
             /\ authFile'["global"].is # "absent" /\ ~Present("global") =>
                  authFile'["global"] = authFile["legacy"] /\ authFile["legacy"].is = "there"
             /\ ~Present("global") /\ authFile'["global"].is = "absent" =>
                  authFile'["global"] = authFile["global"]
             /\ config \in Configs
             /\ config.source = HomeOf(root)
             /\ config.source \notin spoilt => Acked(config.settings, config.source)
             /\ config.source = "global" /\ authFile'["global"].is = "absent" => ~Present("legacy")
<1> DEFINE f == FileOf(root)
           config == load_with_project(root)
<1>1. /\ authFile \in [AuthFiles -> [is : {"absent", "there", "torn"}, settings : Values]]
      /\ "global" \in AuthFiles /\ "legacy" \in AuthFiles /\ ConfigRoots \subseteq AuthFiles
      /\ "global" # "legacy" /\ ConfigRoots \cap {"global", "legacy"} = {}
      /\ NotSet \notin AuthFiles
  BY DEF SettingsIInv, SettingsTyped, AuthFiles, SettingsAssumption
<1>2. \/ root \in ConfigRoots /\ Present(root) /\ f = root
      \/ /\ root = NotSet \/ ~Present(root)
         /\ f = IF Present("global") THEN "global"
                ELSE IF Present("legacy") THEN "legacy" ELSE NotSet
  BY DEF FileOf, Present
<1>3. /\ f # NotSet => authFile[f].is = "there"
      /\ authFile' = IF f = "legacy" THEN [authFile EXCEPT !["global"] = authFile[f]] ELSE authFile
  BY DEF LoadSucceeds
<1>4. config = IF f = NotSet THEN Default
               ELSE [source |-> IF f = "legacy" THEN "global" ELSE f,
                     settings |-> authFile[f].settings]
  BY DEF load_with_project
<1>5. FilesKept
  BY DEF SettingsIInv
<1> HIDE DEF f, config
<1>6. CASE f = "legacy"
  <2>1. ~Present("global") /\ Present("legacy") /\ HomeOf(root) = "global"
    BY <1>1, <1>2, <1>6 DEF HomeOf
  <2>2. config = [source |-> "global", settings |-> authFile["legacy"].settings]
    BY <1>1, <1>4, <1>6
  <2>3. authFile' = [authFile EXCEPT !["global"] = authFile["legacy"]]
        /\ authFile["legacy"].is = "there"
    BY <1>1, <1>3, <1>6
  <2>4. authFile["legacy"].settings \in Values
    BY <1>1
  <2>5. config \in Configs
    BY <2>2, <2>4 DEF Configs, ConfigFiles
  <2>6. Acked(config.settings, config.source)
    BY <1>5, <2>1, <2>2 DEF FilesKept
  <2> QED
    BY <1>1, <2>1, <2>2, <2>3, <2>5, <2>6 DEF config
<1>7. CASE f = NotSet
  <2>1. ~Present("global") /\ ~Present("legacy") /\ HomeOf(root) = "global"
    BY <1>1, <1>2, <1>7 DEF HomeOf
  <2>2. config = Default /\ config.source = "global" /\ config.settings = Default.settings
        /\ authFile' = authFile
    BY <1>1, <1>3, <1>4, <1>7 DEF Default
  <2>3. config \in Configs
    BY <2>2 DEF Configs, ConfigFiles, Default, Values
  <2>4. Acked(config.settings, config.source)
    BY <1>5, <2>1, <2>2 DEF FilesKept
  <2> QED
    BY <1>1, <2>1, <2>2, <2>3, <2>4 DEF config, Present
<1>8. CASE f \in ConfigRoots \cup {"global"}
  <2>1. f = HomeOf(root) /\ f \in AuthFiles /\ f # NotSet /\ f # "legacy"
    BY <1>1, <1>2, <1>8 DEF HomeOf
  <2>2. config = [source |-> f, settings |-> authFile[f].settings] /\ authFile' = authFile
        /\ authFile[f].is = "there"
    BY <1>3, <1>4, <2>1
  <2>3. config \in Configs
    BY <1>1, <1>8, <2>1, <2>2 DEF Configs, ConfigFiles
  <2>4. f \notin spoilt => Acked(authFile[f].settings, f)
    BY <1>5, <2>1, <2>2 DEF FilesKept
  <2> QED
    BY <1>1, <2>1, <2>2, <2>3, <2>4 DEF config, Present
<1> QED
  BY <1>2, <1>6, <1>7, <1>8

(***************************************************************************)
(* A change of the app's file that load_with_project may make keeps every  *)
(* file sound, and every project at its file.                              *)
(***************************************************************************)
LEMMA FilesAfterLoad ==
  ASSUME SettingsAssumption, SettingsIInv,
         authFile' \in [AuthFiles -> [is : {"absent", "there", "torn"}, settings : Values]],
         \A f \in AuthFiles \ {"global"} : authFile'[f] = authFile[f],
         Present("global") => authFile'["global"] = authFile["global"],
         ~Present("global") =>
           \/ authFile'["global"] = authFile["global"]
           \/ authFile'["global"] = authFile["legacy"] /\ authFile["legacy"].is = "there"
           \/ /\ authFile'["global"].is = "torn"
              /\ authFile'["global"].settings = authFile["global"].settings,
         TornFiles(authFile') \subseteq spoilt', spoilt \subseteq spoilt',
         acknowledged' = acknowledged
  PROVE  /\ FilesKept'
         /\ \A root \in ConfigRoots \cup {NotSet} : HomeOf(root)' = HomeOf(root)
         /\ Present("global") => Present("global")'
         /\ Present("legacy")' = Present("legacy")
<1>1. /\ "global" \in AuthFiles /\ "legacy" \in AuthFiles /\ ConfigRoots \subseteq AuthFiles
      /\ "global" # "legacy" /\ ConfigRoots \cap {"global", "legacy"} = {}
      /\ FilesKept
  BY DEF SettingsIInv, AuthFiles, SettingsAssumption
<1>2. \A f \in AuthFiles \ {"global"} : Present(f)' = Present(f)
  BY <1>1 DEF Present
<1>3. Present("global") => Present("global")'
  BY <1>1 DEF Present
<1>4. \A root \in ConfigRoots \cup {NotSet} : HomeOf(root)' = HomeOf(root)
  <2>1. ASSUME NEW root \in ConfigRoots PROVE Present(root)' = Present(root)
    BY <1>1, <1>2
  <2> QED
    BY <2>1 DEF HomeOf
<1>5. \A f \in AuthFiles \ spoilt' : authFile'[f].is = "there" =>
        \A n \in SettingNames : authFile'[f].settings[n] \in acknowledged[f][n]
  <2> SUFFICES ASSUME NEW f \in AuthFiles \ spoilt', authFile'[f].is = "there",
                      NEW n \in SettingNames
               PROVE  authFile'[f].settings[n] \in acknowledged[f][n]
    OBVIOUS
  <2>1. CASE authFile'[f] = authFile[f]
    BY <1>1, <2>1 DEF FilesKept, Acked
  <2>2. CASE /\ f = "global" /\ ~Present("global")
             /\ authFile'["global"] = authFile["legacy"] /\ authFile["legacy"].is = "there"
    BY <1>1, <2>2 DEF FilesKept, Acked, Present
  <2> QED
    BY <2>1, <2>2
<1>6. \A f \in AuthFiles : authFile'[f].is = "absent" => authFile'[f].settings = Default.settings
  BY <1>1 DEF FilesKept, Present
<1>7. authFile'["legacy"] = authFile["legacy"] /\ authFile'["legacy"].is # "torn"
  BY <1>1 DEF FilesKept
<1>8. authFile'["global"].is = "absent" =>
        \A n \in SettingNames :
          (IF authFile'["legacy"].is # "absent" THEN authFile'["legacy"].settings
                                                ELSE Default.settings)[n]
             \in acknowledged["global"][n]
  BY <1>1, <1>3, <1>7 DEF FilesKept, Acked, Present
<1>9. FilesKept'
  BY <1>5, <1>6, <1>7, <1>8 DEF FilesKept, Acked, Present, TornFiles, Default
<1> QED
  BY <1>1, <1>2, <1>3, <1>4, <1>9

(***************************************************************************)
(* Loading does so, whether it succeeds or not.                            *)
(***************************************************************************)
LEMMA LoadedFilesStay ==
  ASSUME SettingsAssumption, SettingsIInv, NEW root \in ConfigRoots \cup {NotSet},
         LoadSucceeds(root) \/ LoadFails(root), acknowledged' = acknowledged,
         TornFiles(authFile') \subseteq spoilt', spoilt \subseteq spoilt'
  PROVE  /\ FilesKept'
         /\ \A r \in ConfigRoots \cup {NotSet} : HomeOf(r)' = HomeOf(r)
         /\ Present("global") => Present("global")'
         /\ Present("legacy")' = Present("legacy")
         /\ authFile' \in [AuthFiles -> [is : {"absent", "there", "torn"}, settings : Values]]
<1>1. authFile \in [AuthFiles -> [is : {"absent", "there", "torn"}, settings : Values]]
      /\ "global" \in AuthFiles /\ "legacy" \in AuthFiles
  BY DEF SettingsIInv, SettingsTyped, AuthFiles
<1>2. /\ authFile' \in [AuthFiles -> [is : {"absent", "there", "torn"}, settings : Values]]
      /\ \A f \in AuthFiles \ {"global"} : authFile'[f] = authFile[f]
      /\ Present("global") => authFile'["global"] = authFile["global"]
      /\ ~Present("global") =>
           \/ authFile'["global"] = authFile["global"]
           \/ authFile'["global"] = authFile["legacy"] /\ authFile["legacy"].is = "there"
           \/ /\ authFile'["global"].is = "torn"
              /\ authFile'["global"].settings = authFile["global"].settings
  <2>1. CASE LoadSucceeds(root)
    BY <1>1, <2>1, LoadedFile
  <2>2. CASE LoadFails(root)
    <3>1. CASE authFile' = authFile
      BY <1>1, <3>1
    <3>2. CASE FileOf(root) = "legacy" /\ authFile' = [authFile EXCEPT !["global"].is = "torn"]
      <4>1. ~Present("global")
        BY <3>2 DEF FileOf, Present, SettingsAssumption
      <4>2. authFile' = [authFile EXCEPT !["global"] = [@ EXCEPT !.is = "torn"]]
        BY <3>2
      <4>3. [authFile["global"] EXCEPT !.is = "torn"]
              = [is |-> "torn", settings |-> authFile["global"].settings]
        BY <1>1
      <4>4. authFile' = [authFile EXCEPT !["global"] =
                           [is |-> "torn", settings |-> authFile["global"].settings]]
        BY <4>2, <4>3
      <4> QED
        BY <1>1, <4>1, <4>4
    <3> QED
      BY <2>2, <3>1, <3>2 DEF LoadFails, FailedSave
  <2> QED
    BY <2>1, <2>2
<1> QED
  BY <1>2, FilesAfterLoad

(***************************************************************************)
(* StartServer keeps the invariant.                                        *)
(***************************************************************************)
LEMMA StartKeeps ==
  ASSUME SettingsAssumption, SettingsIInv, StartServer
  PROVE  SettingsIInv'
<1>1. /\ sharedConfig = NotRunning
      /\ UNCHANGED <<switcher, lastRoot, acknowledged, settingsMade, switches>>
      /\ \/ /\ LoadSucceeds(NotSet) /\ sharedConfig' = load_with_project(NotSet)
            /\ spoilt' = spoilt
         \/ /\ LoadFails(NotSet) /\ sharedConfig' = Default /\ spoilt' = spoilt \cup {"global"}
  BY DEF StartServer
<1>2. /\ SettingsTyped /\ FilesKept /\ ConfigKept /\ SwitchersKept
      /\ "global" \in AuthFiles /\ "legacy" \in AuthFiles /\ "global" # "legacy"
      /\ NotSet \in ConfigRoots \cup {NotSet}
  BY DEF SettingsIInv, AuthFiles
<1>3. ~Running /\ lastRoot = NotSet /\ \A w \in Switchers : switcher[w] = NotSet
  BY <1>1, <1>2 DEF Running, ConfigKept, SwitchersKept
<1>4. TornFiles(authFile') \subseteq spoilt' /\ spoilt \subseteq spoilt'
      /\ spoilt' \subseteq AuthFiles
  <2>1. CASE LoadSucceeds(NotSet) /\ spoilt' = spoilt
    <3>1. ASSUME NEW f \in AuthFiles, authFile'[f].is = "torn" PROVE authFile[f].is = "torn"
      BY <1>2, <2>1, <3>1, LoadedFile DEF Present
    <3> QED
      BY <1>2, <2>1, <3>1 DEF TornFiles, FilesKept, SettingsTyped
  <2>2. CASE LoadFails(NotSet) /\ spoilt' = spoilt \cup {"global"}
    <3>1. ASSUME NEW f \in AuthFiles \ {"global"} PROVE authFile'[f] = authFile[f]
      BY <1>2, <2>2, <3>1 DEF LoadFails, FailedSave, SettingsTyped
    <3> QED
      BY <1>2, <2>2, <3>1 DEF TornFiles, FilesKept, SettingsTyped
  <2> QED
    BY <1>1, <2>1, <2>2
<1>5. /\ FilesKept' /\ HomeOf(NotSet)' = HomeOf(NotSet)
      /\ authFile' \in [AuthFiles -> [is : {"absent", "there", "torn"}, settings : Values]]
  BY <1>1, <1>2, <1>4, LoadedFilesStay
<1>6. /\ sharedConfig' \in Configs /\ sharedConfig'.source = "global"
      /\ sharedConfig'.source \notin spoilt' => Acked(sharedConfig'.settings, "global")
  <2>1. CASE LoadSucceeds(NotSet) /\ sharedConfig' = load_with_project(NotSet) /\ spoilt' = spoilt
    <3>1. /\ load_with_project(NotSet) \in Configs
          /\ load_with_project(NotSet).source = HomeOf(NotSet)
          /\ load_with_project(NotSet).source \notin spoilt =>
               Acked(load_with_project(NotSet).settings, load_with_project(NotSet).source)
      BY <1>2, <2>1, LoadedFile
    <3> QED
      BY <2>1, <3>1 DEF HomeOf
  <2>2. CASE sharedConfig' = Default /\ spoilt' = spoilt \cup {"global"}
    BY <2>2 DEF Default, Configs, ConfigFiles, Values
  <2> QED
    BY <1>1, <2>1, <2>2
<1>7. SettingsTyped'
  BY <1>1, <1>2, <1>4, <1>5, <1>6 DEF SettingsTyped
<1>8. ConfigKept'
  <2>1. Running' /\ lastRoot' = NotSet /\ HomeOf(lastRoot)' = "global"
    BY <1>1, <1>3, <1>6 DEF Running, NotRunning, Default, HomeOf, Configs, ConfigFiles,
                            SettingsAssumption
  <2>2. Acked(sharedConfig'.settings, "global") =>
          \A n \in SettingNames : sharedConfig'.settings[n] \in acknowledged'["global"][n]
    BY <1>1 DEF Acked
  <2> QED
    BY <1>6, <2>1, <2>2 DEF ConfigKept, Acked
<1>9. SwitchersKept'
  BY <1>1, <1>3 DEF SwitchersKept
<1> QED
  BY <1>5, <1>7, <1>8, <1>9 DEF SettingsIInv

(***************************************************************************)
(* StopServer keeps the invariant.                                         *)
(***************************************************************************)
LEMMA StopKeeps ==
  ASSUME SettingsAssumption, SettingsIInv, StopServer
  PROVE  SettingsIInv'
<1>1. /\ sharedConfig' = NotRunning /\ switcher' = [w \in Switchers |-> NotSet]
      /\ lastRoot' = NotSet
      /\ UNCHANGED <<authFile, acknowledged, spoilt, settingsMade, switches>>
  BY DEF StopServer
<1>2. SettingsTyped /\ FilesKept
  BY DEF SettingsIInv
<1>3. SettingsTyped'
  BY <1>1, <1>2 DEF SettingsTyped
<1>4. FilesKept'
  BY <1>1, <1>2 DEF FilesKept, Acked, Present, TornFiles, Default
<1>5. ConfigKept' /\ SwitchersKept'
  BY <1>1 DEF ConfigKept, SwitchersKept, Running, NotRunning, Default
<1> QED
  BY <1>3, <1>4, <1>5 DEF SettingsIInv

(***************************************************************************)
(* LoadProject keeps the invariant: what is carried is of the project's    *)
(* file.                                                                   *)
(***************************************************************************)
LEMMA LoadProjectKeeps ==
  ASSUME SettingsAssumption, SettingsIInv, NEW w \in Switchers, LoadProject(w)
  PROVE  SettingsIInv'
<1>1. /\ Running /\ switcher[w] = NotSet /\ spoilt' = spoilt \cup TornFiles(authFile')
      /\ UNCHANGED <<sharedConfig, lastRoot, acknowledged, settingsMade>>
  BY DEF LoadProject, Running
<1>2. PICK root \in ConfigRoots :
        \/ /\ LoadSucceeds(root)
           /\ switcher' = [switcher EXCEPT ![w] =
                            [root |-> root, config |-> load_with_project(root)]]
        \/ LoadFails(root) /\ switcher' = switcher
  BY DEF LoadProject
<1>3. /\ SettingsTyped /\ FilesKept /\ ConfigKept /\ SwitchersKept
      /\ TornFiles(authFile') \subseteq spoilt' /\ spoilt \subseteq spoilt'
      /\ root \in ConfigRoots \cup {NotSet} /\ lastRoot \in ConfigRoots \cup {NotSet}
  BY <1>1 DEF SettingsIInv, SettingsTyped
<1>4. /\ FilesKept'
      /\ \A r \in ConfigRoots \cup {NotSet} : HomeOf(r)' = HomeOf(r)
      /\ Present("global") => Present("global")'
      /\ Present("legacy")' = Present("legacy")
      /\ authFile' \in [AuthFiles -> [is : {"absent", "there", "torn"}, settings : Values]]
  BY <1>1, <1>2, <1>3, LoadedFilesStay
<1>41. \A r \in ConfigRoots : (authFile'[r].is = "absent") <=> (authFile[r].is = "absent")
  BY <1>4 DEF HomeOf, Present, SettingsAssumption
<1>5. spoilt' \subseteq AuthFiles
  BY <1>1, <1>3 DEF TornFiles, SettingsTyped
<1>6. CASE LoadFails(root) /\ switcher' = switcher
  <2>1. SettingsTyped'
    BY <1>1, <1>3, <1>4, <1>5, <1>6 DEF SettingsTyped
  <2>2. ConfigKept'
    BY <1>1, <1>3, <1>4, <1>5 DEF ConfigKept, Running, Acked
  <2>3. SwitchersKept'
    <3> SUFFICES ASSUME NEW v \in Switchers, switcher[v] # NotSet
                 PROVE  /\ Running'
                        /\ switcher[v].config.source =
                             IF authFile'[switcher[v].root].is = "absent" THEN "global"
                                                                         ELSE switcher[v].root
                        /\ ~Present("global")' /\ switcher[v].config.source = "global" =>
                             ~Present("legacy")'
      BY <1>6, <2>1 DEF SwitchersKept, HomeOf, Present, SettingsTyped, SettingsAssumption
    <3>1. switcher[v].root \in ConfigRoots
      BY <1>3 DEF SettingsTyped
    <3>2. switcher[v].config.source = HomeOf(switcher[v].root)
      BY <1>3 DEF SwitchersKept
    <3>3. ~Present("global") /\ switcher[v].config.source = "global" => ~Present("legacy")
      BY <1>3 DEF SwitchersKept
    <3>4. switcher[v].root # NotSet
      BY <3>1 DEF SettingsAssumption
    <3> QED
      BY <1>1, <1>4, <1>41, <3>1, <3>2, <3>3, <3>4 DEF Running, HomeOf, Present
  <2> QED
    BY <1>4, <2>1, <2>2, <2>3 DEF SettingsIInv
<1>7. CASE /\ LoadSucceeds(root)
           /\ switcher' = [switcher EXCEPT ![w] =
                            [root |-> root, config |-> load_with_project(root)]]
  <2>1. /\ load_with_project(root) \in Configs
        /\ load_with_project(root).source = HomeOf(root)
        /\ load_with_project(root).source = "global" /\ authFile'["global"].is = "absent" =>
             ~Present("legacy")
    BY <1>3, <1>7, LoadedFile
  <2> DEFINE loaded == [root |-> root, config |-> load_with_project(root)]
  <2>2. /\ loaded \in [root : ConfigRoots, config : Configs]
        /\ loaded.root = root /\ loaded.config.source = HomeOf(root)
        /\ loaded.config.source = "global" /\ ~Present("global")' => ~Present("legacy")
    BY <2>1 DEF Present
  <2>3. switcher' = [switcher EXCEPT ![w] = loaded]
    BY <1>7
  <2> HIDE DEF loaded
  <2>4. SettingsTyped'
    <3>1. switcher' \in [Switchers -> [root : ConfigRoots, config : Configs] \cup {NotSet}]
      BY <1>3, <2>2, <2>3 DEF SettingsTyped
    <3> QED
      BY <1>1, <1>3, <1>4, <1>5, <3>1 DEF SettingsTyped
  <2>5. ConfigKept'
    BY <1>1, <1>3, <1>4, <1>5 DEF ConfigKept, Running, Acked
  <2>6. SwitchersKept'
    <3> SUFFICES ASSUME NEW v \in Switchers, switcher'[v] # NotSet
                 PROVE  /\ Running'
                        /\ switcher'[v].config.source =
                             IF authFile'[switcher'[v].root].is = "absent" THEN "global"
                                                                          ELSE switcher'[v].root
                        /\ ~Present("global")' /\ switcher'[v].config.source = "global" =>
                             ~Present("legacy")'
      BY <2>4 DEF SwitchersKept, HomeOf, Present, SettingsTyped, SettingsAssumption
    <3>1. CASE v = w
      <4>1. switcher'[v] = loaded
        BY <1>3, <2>3, <3>1 DEF SettingsTyped
      <4>2. root # NotSet
        BY DEF SettingsAssumption
      <4> QED
        BY <1>1, <1>4, <1>41, <2>2, <4>1, <4>2 DEF Running, HomeOf, Present
    <3>2. CASE v # w
      <4>1. switcher'[v] = switcher[v]
        BY <1>3, <2>3, <3>2 DEF SettingsTyped
      <4>2. switcher[v].root \in ConfigRoots
        BY <1>3, <4>1 DEF SettingsTyped
      <4>3. switcher[v].config.source = HomeOf(switcher[v].root)
        BY <1>3, <4>1 DEF SwitchersKept
      <4>4. ~Present("global") /\ switcher[v].config.source = "global" => ~Present("legacy")
        BY <1>3, <4>1 DEF SwitchersKept
      <4>5. switcher[v].root # NotSet
        BY <4>2 DEF SettingsAssumption
      <4> QED
        BY <1>1, <1>4, <1>41, <4>1, <4>2, <4>3, <4>4, <4>5 DEF Running, HomeOf, Present
    <3> QED
      BY <3>1, <3>2
  <2> QED
    BY <1>4, <2>4, <2>5, <2>6 DEF SettingsIInv
<1> QED
  BY <1>2, <1>6, <1>7

(***************************************************************************)
(* TakeConfig keeps the invariant: the settings and the project opened     *)
(* last change together.                                                   *)
(***************************************************************************)
LEMMA TakeKeeps ==
  ASSUME SettingsAssumption, SettingsIInv, NEW w \in Switchers, TakeConfig(w)
  PROVE  SettingsIInv'
<1> DEFINE config == switcher[w].config
           source == config.source
<1>1. /\ switcher[w] # NotSet /\ sharedConfig' = config /\ lastRoot' = switcher[w].root
      /\ spoilt' = IF authFile[source].settings = config.settings THEN spoilt
                   ELSE spoilt \cup {source}
      /\ switcher' = [switcher EXCEPT ![w] = NotSet]
      /\ UNCHANGED <<authFile, acknowledged, settingsMade, switches, saveFaults>>
  BY DEF TakeConfig
<1>2. SettingsTyped /\ FilesKept /\ ConfigKept /\ SwitchersKept
  BY DEF SettingsIInv
<1>3. /\ switcher[w].root \in ConfigRoots /\ config \in Configs /\ source \in ConfigFiles
      /\ source \in AuthFiles /\ Running /\ source = HomeOf(switcher[w].root)
      /\ ~Present("global") /\ source = "global" => ~Present("legacy")
  BY <1>1, <1>2 DEF SettingsTyped, SwitchersKept, Configs, ConfigFiles, AuthFiles
<1> HIDE DEF config, source
<1>4. source \notin spoilt' => Acked(config.settings, source)
  <2> SUFFICES ASSUME source \notin spoilt' PROVE Acked(config.settings, source)
    OBVIOUS
  <2>1. authFile[source].settings = config.settings /\ source \notin spoilt
    BY <1>1
  <2>2. authFile[source].is # "torn"
    BY <1>2, <1>3, <2>1 DEF FilesKept, TornFiles
  <2>3. CASE Present(source)
    <3>1. authFile[source].is = "there"
      BY <1>2, <1>3, <2>2, <2>3 DEF SettingsTyped, Present
    <3> QED
      BY <1>2, <1>3, <2>1, <3>1 DEF FilesKept
  <2>4. CASE ~Present(source)
    <3>1. source = "global"
      BY <1>3, <2>4 DEF HomeOf
    <3>2. config.settings = Default.settings
      BY <1>2, <1>3, <2>1, <2>4 DEF FilesKept
    <3> QED
      BY <1>2, <1>3, <2>4, <3>1, <3>2 DEF FilesKept
  <2> QED
    BY <2>3, <2>4
<1>5. TornFiles(authFile') \subseteq spoilt' /\ spoilt \subseteq spoilt'
      /\ spoilt' \subseteq AuthFiles
  BY <1>1, <1>2, <1>3 DEF FilesKept, SettingsTyped
<1>6. SettingsTyped'
  <2>1. switcher' \in [Switchers -> [root : ConfigRoots, config : Configs] \cup {NotSet}]
    BY <1>1, <1>2 DEF SettingsTyped
  <2> QED
    BY <1>1, <1>2, <1>3, <1>5, <2>1 DEF SettingsTyped
<1>7. FilesKept'
  BY <1>1, <1>2, <1>5 DEF FilesKept, Acked, Present, TornFiles, Default
<1>8. \A f : Present(f)' = Present(f)
  BY <1>1 DEF Present
<1>9. \A root : HomeOf(root)' = HomeOf(root)
  BY <1>8 DEF HomeOf
<1>10. Running'
  <2>1. NotRunning.source = NotSet
    BY DEF NotRunning, Default
  <2> QED
    BY <1>1, <1>3, <2>1 DEF Running, ConfigFiles, SettingsAssumption, config, source
<1>11. ConfigKept'
  <2>1. sharedConfig'.source = source /\ sharedConfig'.settings = config.settings
    BY <1>1 DEF source
  <2>2. sharedConfig'.source = HomeOf(lastRoot)'
    BY <1>1, <1>3, <1>8, <2>1 DEF HomeOf
  <2> QED
    BY <1>1, <1>4, <1>10, <2>1, <2>2 DEF ConfigKept, Acked
<1>12. SwitchersKept'
  <2> SUFFICES ASSUME NEW v \in Switchers, switcher'[v] # NotSet
               PROVE  /\ switcher'[v].config.source =
                             IF authFile[switcher'[v].root].is = "absent" THEN "global"
                                                                         ELSE switcher'[v].root
                      /\ ~Present("global") /\ switcher'[v].config.source = "global" =>
                           ~Present("legacy")
    BY <1>1, <1>6, <1>10 DEF SwitchersKept, HomeOf, Present, SettingsTyped, SettingsAssumption
  <2>1. switcher'[v] = switcher[v]
    <3>1. switcher'[v] = IF v = w THEN NotSet ELSE switcher[v]
      BY <1>1, <1>2 DEF SettingsTyped
    <3> QED
      BY <3>1
  <2>2. switcher[v].root \in ConfigRoots
    BY <1>2, <2>1 DEF SettingsTyped
  <2>3. switcher[v].root # NotSet
    BY <2>2 DEF SettingsAssumption
  <2> QED
    BY <1>2, <2>1, <2>3 DEF SwitchersKept, HomeOf, Present
<1> QED
  BY <1>6, <1>7, <1>11, <1>12 DEF SettingsIInv

(***************************************************************************)
(* SetSetting keeps the invariant: what is saved goes to the file of the   *)
(* project opened last, and nothing else does.                             *)
(***************************************************************************)
LEMMA SetKeeps ==
  ASSUME SettingsAssumption, SettingsIInv, NEW n \in SettingNames, SetSetting(n)
  PROVE  SettingsIInv'
<1> DEFINE f == sharedConfig.source
           values == [sharedConfig.settings EXCEPT ![n] = settingsMade']
           saved == [is |-> "there", settings |-> values]
<1>1. /\ SettingsTyped /\ FilesKept /\ ConfigKept /\ SwitchersKept
      /\ Running /\ settingsMade' = settingsMade + 1 /\ settingsMade' \in Nat
      /\ UNCHANGED <<switcher, lastRoot, switches>> /\ spoilt' = spoilt \cup TornFiles(authFile')
  BY DEF SettingsIInv, SetSetting, Running, SettingsTyped
<1>2. /\ sharedConfig \in Configs /\ f \in ConfigFiles /\ f \in AuthFiles /\ f # "legacy"
      /\ sharedConfig.settings \in Values /\ f = HomeOf(lastRoot)
      /\ f \notin spoilt => Acked(sharedConfig.settings, f)
  BY <1>1
  DEF SettingsTyped, ConfigKept, Running, Configs, ConfigFiles, AuthFiles, SettingsAssumption
<1>3. MeantFile = f
  BY <1>1, <1>2 DEF MeantFile, HomeOf, Present
<1>4. values \in Values /\ \A m \in SettingNames :
        values[m] = IF m = n THEN settingsMade' ELSE sharedConfig.settings[m]
  BY <1>1, <1>2 DEF Values
<1>5. sharedConfig' = [source |-> f, settings |-> values]
  <2>1. sharedConfig' = [sharedConfig EXCEPT !.settings = values]
    BY DEF SetSetting
  <2> QED
    BY <1>2, <2>1 DEF Configs
<1>6. \/ /\ authFile' = [authFile EXCEPT ![f] = saved]
         /\ acknowledged' = [acknowledged EXCEPT ![f][n] = {settingsMade'}]
      \/ /\ authFile' \in FailedSave(f)
         /\ acknowledged' = [acknowledged EXCEPT ![f][n] = acknowledged[f][n] \cup {settingsMade'}]
  <2> DEFINE new == [sharedConfig EXCEPT !.settings[n] = settingsMade']
  <2>1. /\ sharedConfig' = new
        /\ \/ /\ authFile' = [authFile EXCEPT ![new.source] =
                                [is |-> "there", settings |-> new.settings]]
              /\ acknowledged' = [acknowledged EXCEPT ![MeantFile][n] = {settingsMade'}]
           \/ /\ authFile' \in FailedSave(new.source)
              /\ acknowledged' =
                   [acknowledged EXCEPT ![MeantFile][n] = @ \cup {settingsMade'}]
    BY DEF SetSetting
  <2>2. new.source = f /\ new.settings = values
    <3>1. new = [source |-> f, settings |-> values]
      BY <1>5, <2>1
    <3> HIDE DEF new
    <3> QED
      BY <3>1
  <2> HIDE DEF new
  <2> QED
    BY <1>3, <2>1, <2>2
<1> HIDE DEF f, values
<1>7. /\ authFile' \in [AuthFiles -> [is : {"absent", "there", "torn"}, settings : Values]]
      /\ \A g \in AuthFiles \ {f} : authFile'[g] = authFile[g]
      /\ \/ authFile'[f] = saved
         \/ authFile'[f] = authFile[f]
         \/ authFile'[f] = [is |-> "torn", settings |-> authFile[f].settings]
  <2>1. CASE authFile' = [authFile EXCEPT ![f] = saved]
    BY <1>1, <1>2, <1>4, <2>1 DEF SettingsTyped
  <2>2. CASE authFile' = authFile
    BY <1>1, <2>2 DEF SettingsTyped
  <2>3. CASE authFile' = [authFile EXCEPT ![f].is = "torn"]
    <3>1. [authFile[f] EXCEPT !.is = "torn"] = [is |-> "torn", settings |-> authFile[f].settings]
          /\ authFile[f].settings \in Values
      BY <1>1, <1>2 DEF SettingsTyped
    <3>2. authFile' = [authFile EXCEPT ![f] = [is |-> "torn", settings |-> authFile[f].settings]]
      BY <2>3, <3>1
    <3> QED
      BY <1>1, <1>2, <3>1, <3>2 DEF SettingsTyped
  <2> QED
    BY <1>6, <2>1, <2>2, <2>3 DEF FailedSave
<1>8. /\ acknowledged' \in [AuthFiles -> [SettingNames -> SUBSET Nat]]
      /\ \A g \in AuthFiles \ {f} : acknowledged'[g] = acknowledged[g]
      /\ \A m \in SettingNames \ {n} : acknowledged'[f][m] = acknowledged[f][m]
      /\ settingsMade' \in acknowledged'[f][n]
      /\ authFile'[f] = saved \/ acknowledged[f][n] \subseteq acknowledged'[f][n]
  <2>1. acknowledged \in [AuthFiles -> [SettingNames -> SUBSET Nat]]
    BY <1>1 DEF SettingsTyped
  <2>2. ASSUME NEW set \in SUBSET Nat,
               acknowledged' = [acknowledged EXCEPT ![f][n] = set]
        PROVE  /\ acknowledged' \in [AuthFiles -> [SettingNames -> SUBSET Nat]]
               /\ \A g \in AuthFiles \ {f} : acknowledged'[g] = acknowledged[g]
               /\ \A m \in SettingNames \ {n} : acknowledged'[f][m] = acknowledged[f][m]
               /\ acknowledged'[f][n] = set
    BY <1>2, <2>1, <2>2
  <2>3. CASE /\ authFile' = [authFile EXCEPT ![f] = saved]
             /\ acknowledged' = [acknowledged EXCEPT ![f][n] = {settingsMade'}]
    <3>1. authFile'[f] = saved
      BY <1>1, <1>2, <2>3 DEF SettingsTyped
    <3>2. {settingsMade'} \in SUBSET Nat
      BY <1>1
    <3> QED
      BY <2>2, <2>3, <3>1, <3>2
  <2>4. CASE acknowledged' =
               [acknowledged EXCEPT ![f][n] = acknowledged[f][n] \cup {settingsMade'}]
    <3> DEFINE set == acknowledged[f][n] \cup {settingsMade'}
    <3>1. set \in SUBSET Nat
      BY <1>1, <1>2, <2>1
    <3>2. acknowledged' = [acknowledged EXCEPT ![f][n] = set]
      BY <2>4
    <3>3. acknowledged[f][n] \subseteq set /\ settingsMade' \in set
      OBVIOUS
    <3> HIDE DEF set
    <3> QED
      BY <2>2, <3>1, <3>2, <3>3
  <2> QED
    BY <1>6, <2>3, <2>4
<1>9. spoilt' \subseteq AuthFiles /\ spoilt \subseteq spoilt'
      /\ TornFiles(authFile') \subseteq spoilt'
  BY <1>1 DEF TornFiles, SettingsTyped
<1>10. SettingsTyped'
  <2>1. sharedConfig' \in Configs
    BY <1>2, <1>4, <1>5 DEF Configs
  <2> QED
    BY <1>1, <1>7, <1>8, <1>9, <2>1 DEF SettingsTyped
<1>11. \A g \in AuthFiles \ {f} : authFile'[g] = authFile[g] /\ acknowledged'[g] = acknowledged[g]
  BY <1>7, <1>8
<1>12. f \notin spoilt' => \A m \in SettingNames : values[m] \in acknowledged'[f][m]
  <2> SUFFICES ASSUME f \notin spoilt', NEW m \in SettingNames
               PROVE values[m] \in acknowledged'[f][m]
    OBVIOUS
  <2>1. CASE m = n
    BY <1>4, <1>8, <2>1
  <2>2. CASE m # n
    BY <1>2, <1>4, <1>8, <1>9, <2>2 DEF Acked
  <2> QED
    BY <2>1, <2>2
<1>13. (authFile'[f].is = "absent") => authFile[f].is = "absent" /\ authFile'[f] = authFile[f]
  BY <1>7
<1>14. \A g \in AuthFiles \ spoilt' : authFile'[g].is = "there" =>
         \A m \in SettingNames : authFile'[g].settings[m] \in acknowledged'[g][m]
  <2> SUFFICES ASSUME NEW g \in AuthFiles \ spoilt', authFile'[g].is = "there",
                      NEW m \in SettingNames
               PROVE  authFile'[g].settings[m] \in acknowledged'[g][m]
    OBVIOUS
  <2>1. CASE g # f
    BY <1>1, <1>9, <1>11, <2>1 DEF FilesKept, Acked
  <2>2. CASE g = f /\ authFile'[f] = saved
    BY <1>12, <2>2
  <2>3. CASE g = f /\ authFile'[f] = authFile[f] /\ acknowledged[f][n] \subseteq acknowledged'[f][n]
    <3>1. authFile[f].settings[m] \in acknowledged[f][m]
      BY <1>1, <1>2, <1>9, <2>3 DEF FilesKept, Acked
    <3> QED
      BY <1>8, <2>3, <3>1
  <2> QED
    BY <1>7, <1>8, <2>1, <2>2, <2>3
<1>15. "global" \in AuthFiles /\ "legacy" \in AuthFiles /\ "global" # "legacy"
  BY DEF AuthFiles
<1>16. authFile'["legacy"] = authFile["legacy"]
  BY <1>2, <1>11, <1>15
<1>17. authFile'["global"].is = "absent" =>
         \A m \in SettingNames :
           (IF authFile["legacy"].is # "absent" THEN authFile["legacy"].settings
                                                ELSE Default.settings)[m]
             \in acknowledged'["global"][m]
  <2> SUFFICES ASSUME authFile'["global"].is = "absent", NEW m \in SettingNames
               PROVE  (IF authFile["legacy"].is # "absent" THEN authFile["legacy"].settings
                         ELSE Default.settings)[m]
             \in acknowledged'["global"][m]
    OBVIOUS
  <2>1. authFile["global"].is = "absent"
    BY <1>11, <1>13, <1>15
  <2>2. (IF authFile["legacy"].is # "absent" THEN authFile["legacy"].settings
           ELSE Default.settings)[m] \in acknowledged["global"][m]
    BY <1>1, <2>1 DEF FilesKept, Present, Acked
  <2>3. acknowledged["global"][m] \subseteq acknowledged'["global"][m]
    <3>1. CASE f = "global"
      <4>1. authFile'[f] # saved
        BY <3>1
      <4> QED
        BY <1>8, <3>1, <4>1
    <3>2. CASE f # "global"
      BY <1>11, <1>15, <3>2
    <3> QED
      BY <3>1, <3>2
  <2> QED
    BY <2>2, <2>3
<1>18. FilesKept'
  <2>1. \A g \in AuthFiles : authFile'[g].is = "absent" => authFile'[g].settings = Default.settings
    BY <1>1, <1>11, <1>13 DEF FilesKept, Present
  <2>2. authFile'["legacy"].is # "torn"
    BY <1>1, <1>16 DEF FilesKept
  <2> QED
    BY <1>9, <1>14, <1>16, <1>17, <2>1, <2>2 DEF FilesKept, Acked, Present, TornFiles, Default
<1>19. \A root \in ConfigRoots : (authFile'[root].is = "absent") <=> (authFile[root].is = "absent")
  <2> SUFFICES ASSUME NEW root \in ConfigRoots
               PROVE  (authFile'[root].is = "absent") <=> (authFile[root].is = "absent")
    OBVIOUS
  <2>1. CASE root # f
    BY <1>11, <2>1 DEF AuthFiles
  <2>2. CASE root = f
    <3>1. Present(f)
      BY <1>2, <2>2 DEF HomeOf, SettingsAssumption
    <3> QED
      BY <1>13, <2>2, <3>1 DEF Present
  <2> QED
    BY <2>1, <2>2
<1>20. Running'
  BY <1>2, <1>5 DEF Running, NotRunning, Default, ConfigFiles, SettingsAssumption
<1>21. ConfigKept'
  <2>1. f = IF lastRoot = NotSet \/ authFile'[lastRoot].is = "absent" THEN "global" ELSE lastRoot
    <3>1. lastRoot \in ConfigRoots \cup {NotSet}
      BY <1>1 DEF SettingsTyped
    <3> QED
      BY <1>2, <1>19, <3>1 DEF HomeOf, Present
  <2>2. sharedConfig'.source = f /\ sharedConfig'.settings = values
    BY <1>5
  <2> QED
    BY <1>1, <1>12, <1>20, <2>1, <2>2 DEF ConfigKept, HomeOf, Present, Acked
<1>22. SwitchersKept'
  <2> SUFFICES ASSUME NEW v \in Switchers, switcher[v] # NotSet
               PROVE  /\ switcher[v].config.source =
                             IF authFile'[switcher[v].root].is = "absent" THEN "global"
                                                                         ELSE switcher[v].root
                      /\ authFile'["global"].is = "absent" /\ switcher[v].config.source = "global"
                           => ~Present("legacy")
    BY <1>1, <1>10, <1>16, <1>20
    DEF SwitchersKept, HomeOf, Present, SettingsTyped, SettingsAssumption
  <2>1. switcher[v].root \in ConfigRoots
    BY <1>1 DEF SettingsTyped
  <2>2. switcher[v].root # NotSet
    BY <2>1 DEF SettingsAssumption
  <2>3. authFile'["global"].is = "absent" => authFile["global"].is = "absent"
    BY <1>11, <1>13, <1>15
  <2> QED
    BY <1>1, <1>19, <2>1, <2>2, <2>3 DEF SwitchersKept, HomeOf, Present
<1> QED
  BY <1>10, <1>18, <1>21, <1>22 DEF SettingsIInv

(***************************************************************************)
(* Every step keeps the invariant.                                         *)
(***************************************************************************)
LEMMA SettingsStep ==
  ASSUME SettingsAssumption, SettingsIInv, [SettingsNext]_settingsVars
  PROVE  SettingsIInv'
<1>1. CASE UNCHANGED settingsVars
  <2>1. SettingsTyped'
    BY <1>1 DEF SettingsIInv, SettingsTyped, settingsVars
  <2>2. FilesKept'
    BY <1>1 DEF SettingsIInv, FilesKept, settingsVars, Acked, Present, TornFiles, Default
  <2>3. ConfigKept'
    BY <1>1 DEF SettingsIInv, ConfigKept, settingsVars, HomeOf, Running, Acked, Present
  <2>4. SwitchersKept'
    BY <1>1 DEF SettingsIInv, SwitchersKept, settingsVars, HomeOf, Running, Present
  <2> QED
    BY <2>1, <2>2, <2>3, <2>4 DEF SettingsIInv
<1>2. CASE \E w \in Switchers : LoadProject(w)
  BY <1>2, LoadProjectKeeps
<1>3. CASE \E w \in Switchers : TakeConfig(w)
  BY <1>3, TakeKeeps
<1>4. CASE \E n \in SettingNames : SetSetting(n)
  BY <1>4, SetKeeps
<1> QED
  BY <1>1, <1>2, <1>3, <1>4, StartKeeps, StopKeeps DEF SettingsNext

(***************************************************************************)
(* The settings in use are those of the project opened last, and a setting *)
(* that was acknowledged is in the file of the project it was made for,    *)
(* unless a write was cut, the server fell back to the defaults, or an     *)
(* opening brought back settings from before the save.                     *)
(***************************************************************************)
THEOREM SettingsAreKept == SettingsSpec => []SettingsKept
<1>1. SettingsInit => SettingsIInv
  BY InitSettings, SettingsAssumption
<1>2. SettingsIInv /\ [SettingsNext]_settingsVars => SettingsIInv'
  BY SettingsStep, SettingsAssumption
<1>3. SettingsIInv => SettingsKept
  <2> SUFFICES ASSUME SettingsIInv PROVE SettingsKept
    OBVIOUS
  <2>1. sharedConfig # NotRunning => sharedConfig.source = MeantFile
    BY DEF SettingsIInv, ConfigKept, Running, HomeOf, MeantFile, Present
  <2>2. \A f \in AuthFiles \ spoilt, n \in SettingNames :
          authFile[f].is = "there" => authFile[f].settings[n] \in acknowledged[f][n]
    BY DEF SettingsIInv, FilesKept, Acked
  <2> QED
    BY <2>1, <2>2 DEF SettingsKept
<1> QED
  BY <1>1, <1>2, <1>3, PTL DEF SettingsSpec

-----------------------------------------------------------------------------
(* PlotHistory.  A plot that was removed could come back from plots.json,  *)
(* from an image that could not be deleted, or with an id that is used     *)
(* again.  The inductive invariant says that it is in neither list         *)
(* (Forgotten), that what is about to be pushed is new (NewOnes), and that *)
(* what is about to be removed has left the list (Underway).               *)

(***************************************************************************)
(* Every set of natural numbers that has an element has a least one.       *)
(***************************************************************************)
LEMMA Least ==
  ASSUME NEW S, S \subseteq Nat, S # {}
  PROVE  \E m \in S : \A k \in S : m <= k
<1>1. PICK m \in S : \A k \in S : <<k, m>> \notin OpToRel(<, Nat)
  BY NatLessThanWellFounded, WFMin
<1>2. \A k \in S : ~ (k < m)
  BY <1>1 DEF OpToRel
<1> QED
  BY <1>2

\* A sequence of numbers that rises.
Rises(e) == \A i, j \in DOMAIN e : i < j => e[i] < e[j]

(***************************************************************************)
(* The numbers of a finite range that a property singles out can be listed *)
(* in their order. This is what restore_state relies on when it keeps the  *)
(* plots whose image is there in the order of the file.                    *)
(***************************************************************************)
LEMMA Enumerates ==
  ASSUME NEW P, P \subseteq Nat, NEW n \in Nat, \A p \in P : 1 <= p /\ p <= n
  PROVE  \E e \in Seq(P) : Rises(e) /\ \A p \in P : \E i \in DOMAIN e : e[i] = p
<1> DEFINE Upto(m) == {p \in P : p <= m}
           Done(m) == \E e \in Seq(P) :
                        /\ Rises(e)
                        /\ \A i \in DOMAIN e : e[i] \in Upto(m)
                        /\ \A p \in Upto(m) : \E i \in DOMAIN e : e[i] = p
           Bad == {m \in Nat : ~Done(m)}
<1>a. \A p \in P : p \in Nat /\ 1 <= p /\ p <= n
  OBVIOUS
<1>b. ASSUME NEW k, NEW p PROVE p \in Upto(k) <=> p \in P /\ p <= k
  OBVIOUS
<1> HIDE DEF Done, Upto
<1>1. SUFFICES Bad = {}
  <2>1. Done(n)
    BY <1>1
  <2>2. PICK e \in Seq(P) : /\ Rises(e)
                            /\ \A p \in Upto(n) : \E i \in DOMAIN e : e[i] = p
    BY <2>1 DEF Done
  <2>3. \A p \in P : p \in Upto(n)
    BY <1>a, <1>b
  <2> QED
    BY <2>2, <2>3
<1>2. SUFFICES ASSUME Bad # {} PROVE FALSE
  OBVIOUS
<1>3. PICK m \in Bad : \A k \in Bad : m <= k
  BY <1>2, Least
<1>4. CASE m = 0
  <2>1. \A p : p \notin Upto(0)
    <3>1. ASSUME NEW p, p \in Upto(0) PROVE FALSE
      <4>1. p \in P /\ p <= 0
        BY <1>b, <3>1
      <4> QED
        BY <1>a, <4>1
    <3> QED
      BY <3>1
  <2>2. <<>> \in Seq(P) /\ DOMAIN <<>> = {}
    OBVIOUS
  <2>3. Rises(<<>>)
    BY <2>2 DEF Rises
  <2>4. Done(0)
    <3> QED
      BY <2>1, <2>2, <2>3 DEF Done
  <2> QED
    BY <1>3, <1>4, <2>4
<1>5. CASE m # 0
  <2>1. m \in Nat /\ m - 1 \in Nat /\ ~Done(m)
    BY <1>3, <1>5
  <2>2. m - 1 \notin Bad
    BY <1>3, <2>1
  <2>6. Done(m - 1)
    BY <2>1, <2>2
  <2>3. PICK e \in Seq(P) : /\ Rises(e)
                            /\ \A i \in DOMAIN e : e[i] \in Upto(m - 1)
                            /\ \A p \in Upto(m - 1) : \E i \in DOMAIN e : e[i] = p
    BY <2>6 DEF Done
  <2>4. CASE m \notin P
    <3>1. ASSUME NEW p PROVE p \in Upto(m) <=> p \in Upto(m - 1)
      <4>1. p \in P => p \in Nat /\ p # m
        BY <1>a, <2>4
      <4>2. p \in P => (p <= m <=> p <= m - 1)
        BY <2>1, <4>1
      <4> QED
        BY <1>b, <4>2
    <3>2. Done(m)
      <4> QED
        BY <2>3, <3>1 DEF Done
    <3> QED
      BY <2>1, <3>2
  <2>5. CASE m \in P
    <3> DEFINE f == Append(e, m)
    <3>1. /\ f \in Seq(P) /\ Len(e) \in Nat /\ DOMAIN e = 1..Len(e)
          /\ DOMAIN f = 1..(Len(e) + 1) /\ f[Len(e) + 1] = m
          /\ \A i \in 1..Len(e) : f[i] = e[i]
      BY <2>3, <2>5, AppendProperties, LenProperties
    <3> HIDE DEF f
    <3>2. ASSUME NEW i \in DOMAIN e PROVE e[i] \in P /\ e[i] < m
      <4>1. e[i] \in P /\ e[i] <= m - 1
        BY <1>b, <2>3
      <4>2. e[i] \in Nat
        BY <1>a, <4>1
      <4> QED
        BY <2>1, <4>1, <4>2
    <3>3. Rises(f)
      <4> SUFFICES ASSUME NEW i \in DOMAIN f, NEW j \in DOMAIN f, i < j PROVE f[i] < f[j]
        BY DEF Rises
      <4>1. i \in DOMAIN e
        BY <3>1
      <4>2. CASE j \in DOMAIN e
        BY <2>3, <3>1, <4>1, <4>2 DEF Rises
      <4>3. CASE j = Len(e) + 1
        BY <3>1, <3>2, <4>1, <4>3
      <4> QED
        BY <3>1, <4>2, <4>3
    <3>4. ASSUME NEW i \in DOMAIN f PROVE f[i] \in Upto(m)
      <4>1. CASE i \in DOMAIN e
        <5>1. f[i] \in P /\ f[i] < m
          BY <3>1, <3>2, <4>1
        <5>2. f[i] \in Nat
          BY <1>a, <5>1
        <5>3. f[i] <= m
          BY <2>1, <5>1, <5>2
        <5> QED
          BY <1>b, <5>1, <5>3
      <4>2. CASE i = Len(e) + 1
        <5>1. m <= m
          BY <2>1
        <5> QED
          BY <1>b, <2>5, <3>1, <4>2, <5>1
      <4> QED
        BY <3>1, <4>1, <4>2
    <3>5. ASSUME NEW p \in Upto(m) PROVE \E i \in DOMAIN f : f[i] = p
      <4>1. CASE p = m
        BY <3>1, <4>1
      <4>2. CASE p # m
        <5>3. p \in P /\ p <= m
          BY <1>b
        <5>4. p \in Nat
          BY <1>a, <5>3
        <5>5. p <= m - 1
          BY <2>1, <4>2, <5>3, <5>4
        <5>1. p \in Upto(m - 1)
          BY <1>b, <5>3, <5>5
        <5>2. PICK i \in DOMAIN e : e[i] = p
          BY <2>3, <5>1
        <5> QED
          BY <3>1, <5>2
      <4> QED
        BY <4>1, <4>2
    <3>6. Done(m)
      <4> QED
        BY <3>1, <3>3, <3>4, <3>5 DEF Done
    <3> QED
      BY <2>1, <3>6
  <2> QED
    BY <2>4, <2>5
<1> QED
  BY <1>4, <1>5

-----------------------------------------------------------------------------

(***************************************************************************)
(* A sequence without the element at a position.                           *)
(***************************************************************************)
LEMMA RemovedAt ==
  ASSUME NEW S, NEW s \in Seq(S), NEW pos \in DOMAIN s
  PROVE  /\ RemoveAt(s, pos) \in Seq(S)
         /\ DOMAIN s = 1..Len(s) /\ Len(s) \in Nat /\ pos \in 1..Len(s)
         /\ Len(RemoveAt(s, pos)) = Len(s) - 1
         /\ DOMAIN RemoveAt(s, pos) = 1..(Len(s) - 1)
         /\ \A i \in 1..(Len(s) - 1) :
                RemoveAt(s, pos)[i] = IF i < pos THEN s[i] ELSE s[i + 1]
<1> DEFINE before == SubSeq(s, 1, pos - 1)
           after == SubSeq(s, pos + 1, Len(s))
<1>1. /\ DOMAIN s = 1..Len(s) /\ Len(s) \in Nat /\ pos \in 1..Len(s)
      /\ s \in [1..Len(s) -> S]
  BY LenProperties
<1>2. /\ before \in Seq(S) /\ Len(before) = pos - 1
      /\ \A i \in 1..(pos - 1) : before[i] = s[i]
  <2>1. \A i \in 1..(pos - 1) : s[i] \in S
    BY <1>1
  <2> QED
    BY <1>1, <2>1, SubSeqProperties
<1>3. /\ after \in Seq(S) /\ Len(after) = Len(s) - pos
      /\ \A i \in 1..(Len(s) - pos) : after[i] = s[pos + i]
  <2>1. pos + 1 \in 1..(Len(s) + 1) /\ Len(s) \in pos..Len(s) /\ pos \in Int
    BY <1>1
  <2>2. /\ after \in Seq(S)
        /\ Len(after) = IF pos + 1 <= Len(s) THEN Len(s) - (pos + 1) + 1 ELSE 0
        /\ \A i \in 1..(Len(s) - (pos + 1) + 1) : after[i] = s[pos + 1 + i - 1]
    BY <1>1, <2>1, SubSeqProperties
  <2>3. Len(s) - (pos + 1) + 1 = Len(s) - pos
    BY <1>1
  <2>4. \A i \in 1..(Len(s) - pos) : pos + 1 + i - 1 = pos + i
    BY <1>1
  <2> HIDE DEF after
  <2> QED
    BY <1>1, <2>2, <2>3, <2>4
<1>4. RemoveAt(s, pos) = before \o after
  BY DEF RemoveAt
<1> HIDE DEF before, after
<1>5. /\ RemoveAt(s, pos) \in Seq(S)
      /\ Len(RemoveAt(s, pos)) = Len(s) - 1
      /\ \A i \in 1..(Len(s) - 1) :
            RemoveAt(s, pos)[i] = IF i <= pos - 1 THEN before[i] ELSE after[i - (pos - 1)]
  <2>1. /\ before \o after \in Seq(S)
        /\ Len(before \o after) = Len(before) + Len(after)
        /\ \A i \in 1..(Len(before) + Len(after)) : (before \o after)[i] =
                IF i <= Len(before) THEN before[i] ELSE after[i - Len(before)]
    BY <1>2, <1>3, ConcatProperties
  <2>2. Len(before) = pos - 1 /\ Len(before) + Len(after) = Len(s) - 1
    BY <1>1, <1>2, <1>3
  <2> QED
    BY <1>4, <2>1, <2>2
<1>6. DOMAIN RemoveAt(s, pos) = 1..(Len(s) - 1)
  BY <1>5, LenProperties
<1>7. ASSUME NEW i \in 1..(Len(s) - 1)
      PROVE  RemoveAt(s, pos)[i] = IF i < pos THEN s[i] ELSE s[i + 1]
  <2>1. CASE i < pos
    BY <1>1, <1>2, <1>5, <2>1
  <2>2. CASE ~(i < pos)
    <3>1. i - (pos - 1) \in 1..(Len(s) - pos) /\ pos + (i - (pos - 1)) = i + 1
      BY <1>1, <2>2
    <3>2. RemoveAt(s, pos)[i] = after[i - (pos - 1)]
      BY <1>1, <1>5, <2>2
    <3> QED
      BY <1>3, <2>2, <3>1, <3>2
  <2> QED
    BY <2>1, <2>2
<1> QED
  BY <1>1, <1>5, <1>6, <1>7

(***************************************************************************)
(* Some elements of a sequence can be listed in the order that they have   *)
(* there.                                                                  *)
(***************************************************************************)
LEMMA KeptInOrder ==
  ASSUME NEW t \in Seq(Plots), IsInjective(t), NEW I
  PROVE  /\ IsFiniteSet(ToSet(t) \cap I)
         /\ Cardinality(ToSet(t) \cap I) <= Len(t)
         /\ \E s \in SetToSeqs(ToSet(t) \cap I) :
                \A i, j \in DOMAIN s :
                    i < j => (CHOOSE k \in DOMAIN t : t[k] = s[i])
                                < (CHOOSE k \in DOMAIN t : t[k] = s[j])
<1> DEFINE S == ToSet(t) \cap I
           place(p) == CHOOSE k \in DOMAIN t : t[k] = p
           P == {i \in DOMAIN t : t[i] \in I}
<1>1. Len(t) \in Nat /\ DOMAIN t = 1..Len(t) /\ t \in [1..Len(t) -> Plots]
  BY LenProperties
<1>2. \A p \in S : place(p) \in DOMAIN t /\ t[place(p)] = p
  BY DEF ToSet
<1>3. \A k \in DOMAIN t : place(t[k]) = k
  BY DEF IsInjective
<1>4. P \subseteq Nat /\ \A p \in P : 1 <= p /\ p <= Len(t)
  BY <1>1
<1>5. PICK e \in Seq(P) : Rises(e) /\ \A p \in P : \E i \in DOMAIN e : e[i] = p
  BY <1>1, <1>4, Enumerates
<1>6. Len(e) \in Nat /\ DOMAIN e = 1..Len(e) /\ e \in [1..Len(e) -> P]
  BY LenProperties
<1> DEFINE f == [k \in 1..Len(e) |-> t[e[k]]]
<1>7. \A k \in 1..Len(e) : e[k] \in DOMAIN t /\ f[k] = t[e[k]] /\ f[k] \in S
  BY <1>6 DEF ToSet
<1>8. \A i, j \in 1..Len(e) : i # j => e[i] # e[j]
  <2> SUFFICES ASSUME NEW i \in 1..Len(e), NEW j \in 1..Len(e), i # j PROVE e[i] # e[j]
    OBVIOUS
  <2>1. e[i] \in Nat /\ e[j] \in Nat
    BY <1>4, <1>6
  <2> HIDE DEF f, S, P, place
  <2>2. CASE i < j
    <3>1. e[i] < e[j]
      BY <1>5, <1>6, <2>2 DEF Rises
    <3> QED
      BY <2>1, <3>1
  <2>3. CASE j < i
    <3>1. e[j] < e[i]
      BY <1>5, <1>6, <2>3 DEF Rises
    <3> QED
      BY <2>1, <3>1
  <2>4. i \in Nat /\ j \in Nat
    BY <1>6
  <2> QED
    BY <2>2, <2>3, <2>4
<1>9. \A i, j \in 1..Len(e) : i # j => f[i] # f[j]
  BY <1>7, <1>8 DEF IsInjective
<1>10. \A p \in S : \E k \in 1..Len(e) : f[k] = p
  <2> SUFFICES ASSUME NEW p \in S PROVE \E k \in 1..Len(e) : f[k] = p
    OBVIOUS
  <2>1. place(p) \in P
    BY <1>2
  <2>2. PICK k \in DOMAIN e : e[k] = place(p)
    BY <1>5, <2>1
  <2> QED
    BY <1>2, <1>6, <1>7, <2>2
<1> HIDE DEF f, S, P, place
<1>11. f \in [1..Len(e) -> S]
  BY <1>7 DEF f
<1>12. f \in Bijection(1..Len(e), S)
  BY <1>9, <1>10, <1>11 DEF Bijection, Injection, Surjection, IsInjective
<1>13. IsFiniteSet(S) /\ Cardinality(S) = Len(e)
  <2>1. IsFiniteSet(1..Len(e))
    BY <1>6, FS_Interval
  <2>2. ExistsBijection(1..Len(e), S)
    BY <1>12 DEF ExistsBijection
  <2>3. IsFiniteSet(S)
    BY <2>1, <2>2, FS_Bijection
  <2> QED
    BY <1>6, <2>2, <2>3, FS_CountingElements
<1>14. Len(e) <= Len(t)
  <2>3. e \in [1..Len(e) -> 1..Len(t)]
    BY <1>1, <1>6, <1>7
  <2>1. e \in Injection(1..Len(e), 1..Len(t))
    BY <1>6, <1>8, <2>3 DEF Injection, IsInjective
  <2>2. IsFiniteSet(1..Len(t)) /\ Cardinality(1..Len(t)) = Len(t)
        /\ Cardinality(1..Len(e)) = Len(e)
    <3>1. ASSUME NEW n \in Nat PROVE IsFiniteSet(1..n) /\ Cardinality(1..n) = n
      <4>1. IsFiniteSet(1..n) /\ Cardinality(1..n) = IF 1 > n THEN 0 ELSE n - 1 + 1
        BY FS_Interval
      <4> QED
        BY <4>1
    <3> QED
      BY <1>1, <1>6, <3>1
  <2> QED
    BY <2>1, <2>2, FS_Injection
<1>15. f \in SetToSeqs(S)
  BY <1>9, <1>11, <1>13 DEF SetToSeqs
<1>16. \A i, j \in DOMAIN f : i < j => place(f[i]) < place(f[j])
  <2> SUFFICES ASSUME NEW i \in DOMAIN f, NEW j \in DOMAIN f, i < j
               PROVE  place(f[i]) < place(f[j])
    OBVIOUS
  <2>1. i \in DOMAIN e /\ j \in DOMAIN e
    BY <1>6, <1>11
  <2>2. place(f[i]) = e[i] /\ place(f[j]) = e[j]
    BY <1>3, <1>6, <1>7, <2>1
  <2> QED
    BY <1>5, <2>1, <2>2 DEF Rises
<1> QED
  <2>1. S = ToSet(t) \cap I
    BY DEF S
  <2>2. \E s \in SetToSeqs(S) : \A i, j \in DOMAIN s : i < j => place(s[i]) < place(s[j])
    BY <1>15, <1>16
  <2> HIDE DEF S
  <2> QED
    BY <1>13, <1>14, <2>1, <2>2 DEF place

(***************************************************************************)
(* What restore_state keeps of plots.json is plots of it that have an      *)
(* image, each once.                                                       *)
(***************************************************************************)
LEMMA RestoredPlots ==
  ASSUME NEW json, json.plots \in Seq(Plots), IsInjective(json.plots)
  PROVE  /\ Restored(json).plots \in Seq(Plots)
         /\ IsInjective(Restored(json).plots)
         /\ Len(Restored(json).plots) <= Len(json.plots)
         /\ ToSet(Restored(json).plots) \subseteq ToSet(json.plots) \cap images
         /\ Restored(json).active \in 0..Len(Restored(json).plots)
         /\ Restored(json) \in [plots : Seq(Plots), active : Nat]
<1> DEFINE t == json.plots
           S == ToSet(t) \cap images
           place(p) == CHOOSE k \in DOMAIN t : t[k] = p
           Ordered(s) == \A i, j \in DOMAIN s : i < j => place(s[i]) < place(s[j])
           kept == CHOOSE s \in SetToSeqs(S) : Ordered(s)
           actives == {i \in DOMAIN kept : {kept[i]} = active_plot_id(json)}
<1>1. IsFiniteSet(S) /\ Cardinality(S) <= Len(t) /\ \E s \in SetToSeqs(S) : Ordered(s)
  BY KeptInOrder
<1>2. Restored(json) = [plots |-> kept,
                        active |-> IF actives = {} THEN 0 ELSE CHOOSE i \in actives : TRUE]
  BY DEF Restored
<1> HIDE DEF Ordered
<1>3. kept \in SetToSeqs(S)
  BY <1>1
<1> HIDE DEF kept
<1>4. Cardinality(S) \in Nat
  BY <1>1, FS_CardinalityType
<1>5. /\ kept \in [1..Cardinality(S) -> S]
      /\ \A i, j \in 1..Cardinality(S) : i # j => kept[i] # kept[j]
  BY <1>3 DEF SetToSeqs
<1>6. S \subseteq Plots
  <2>1. t \in [1..Len(t) -> Plots] /\ DOMAIN t = 1..Len(t)
    BY LenProperties
  <2> QED
    BY <2>1 DEF ToSet
<1>7. S \subseteq ToSet(json.plots) \cap images
  OBVIOUS
<1> HIDE DEF S
<1>8. kept \in Seq(Plots) /\ Len(kept) = Cardinality(S) /\ DOMAIN kept = 1..Cardinality(S)
  <2>1. kept \in Seq(Plots)
    BY <1>4, <1>5, <1>6, SeqDef
  <2> QED
    BY <1>4, <1>5, <2>1, LenProperties
<1>9. IsInjective(kept)
  BY <1>5, <1>8 DEF IsInjective
<1>10. ToSet(kept) \subseteq S
  BY <1>5, <1>8 DEF ToSet
<1>11. Restored(json).plots = kept
       /\ Restored(json).active = IF actives = {} THEN 0 ELSE CHOOSE i \in actives : TRUE
  BY <1>2
<1>12. actives \subseteq 1..Len(kept)
  BY <1>8
<1> HIDE DEF actives
<1>13. Restored(json).active \in 0..Len(kept)
  <2>1. CASE actives = {}
    BY <1>4, <1>8, <1>11, <2>1
  <2>2. CASE actives # {}
    <3>1. (CHOOSE i \in actives : TRUE) \in actives
      BY <2>2
    <3>2. Restored(json).active = CHOOSE i \in actives : TRUE
      BY <1>11, <2>2
    <3>3. Restored(json).active \in 1..Len(kept)
      BY <1>12, <3>1, <3>2
    <3> QED
      BY <1>4, <1>8, <3>3
  <2> QED
    BY <2>1, <2>2
<1>14. Restored(json) \in [plots : Seq(Plots), active : Nat]
  <2>1. Restored(json).active \in Nat
    BY <1>4, <1>8, <1>13
  <2> QED
    BY <1>2, <1>8, <1>11, <2>1
<1> QED
  BY <1>1, <1>7, <1>8, <1>9, <1>10, <1>11, <1>13, <1>14

-----------------------------------------------------------------------------

\* The lists of plots that the panel or plots.json may hold.
Histories == [plots : Seq(Plots), active : Nat]

\* Such a list holds each plot once, no more than MaxPlots, and one of them is active, or
\* none.
Lists(h) ==
    /\ h \in Histories
    /\ IsInjective(h.plots)
    /\ Len(h.plots) <= MaxPlots
    /\ h.active \in 0..Len(h.plots)

\* The state is of its type.
PlotsTyped ==
    /\ Lists(history)
    /\ images \subseteq Plots
    /\ plotsJson \in [file : {"missing", "torn", "whole"}, holds : Histories]
    /\ Lists(plotsJson.holds)
    /\ operation \in [kind : {"none", "push", "save", "clear", "down"}, plot : SUBSET Plots]
    /\ unusedPlots \subseteq Plots

\* A plot that was removed is in no list.
Forgotten ==
    /\ ToSet(history.plots) \cap removed = {}
    /\ ToSet(plotsJson.holds.plots) \cap removed = {}

\* A plot that R has not drawn yet is nowhere.
NewOnes ==
    /\ unusedPlots \cap ToSet(history.plots) = {}
    /\ unusedPlots \cap ToSet(plotsJson.holds.plots) = {}
    /\ unusedPlots \cap removed = {}
    /\ unusedPlots \cap operation.plot = {}

\* A plot that is being pushed is a new one and has its image; one that is being removed has
\* left the list. Unless plots are being cleared, every plot of the list has its image.
Underway ==
    /\ operation.kind = "save" => operation.plot \cap ToSet(history.plots) = {}
    /\ operation.kind = "push" => /\ operation.plot \subseteq images
                                  /\ operation.plot \cap ToSet(history.plots) = {}
                                  /\ operation.plot \cap removed = {}
    /\ operation.kind # "clear" => ToSet(history.plots) \subseteq images

\* The inductive invariant.
PlotIInv == PlotsTyped /\ Forgotten /\ NewOnes /\ Underway

(***************************************************************************)
(* A list of plots without its first.                                      *)
(***************************************************************************)
LEMMA TailWithout ==
  ASSUME NEW S, NEW s \in Seq(S), IsInjective(s), s # <<>>
  PROVE  /\ Tail(s) \in Seq(S) /\ IsInjective(Tail(s)) /\ Len(Tail(s)) = Len(s) - 1
         /\ Head(s) \in ToSet(s)
         /\ ToSet(Tail(s)) = ToSet(s) \ {Head(s)}
<1>1. /\ Len(s) \in Nat /\ DOMAIN s = 1..Len(s) /\ Len(s) # 0
      /\ Head(s) = s[1]
  BY LenProperties, EmptySeq
<1>2. /\ Tail(s) \in Seq(S) /\ Len(Tail(s)) = Len(s) - 1
      /\ \A i \in 1..(Len(s) - 1) : Tail(s)[i] = s[i + 1]
  BY HeadTailProperties
<1>3. DOMAIN Tail(s) = 1..(Len(s) - 1)
  BY <1>2, LenProperties
<1>4. IsInjective(Tail(s))
  <2> SUFFICES ASSUME NEW i \in DOMAIN Tail(s), NEW j \in DOMAIN Tail(s),
                      Tail(s)[i] = Tail(s)[j]
               PROVE  i = j
    BY DEF IsInjective
  <2>1. i \in Int /\ j \in Int /\ i + 1 \in DOMAIN s /\ j + 1 \in DOMAIN s /\ s[i + 1] = s[j + 1]
    BY <1>1, <1>2, <1>3
  <2>2. i + 1 = j + 1
    BY <2>1 DEF IsInjective
  <2> QED
    BY <2>1, <2>2
<1>5. ASSUME NEW p PROVE p \in ToSet(Tail(s)) <=> p \in ToSet(s) /\ p # Head(s)
  <2>1. ASSUME p \in ToSet(Tail(s)) PROVE p \in ToSet(s) /\ p # Head(s)
    <3>1. PICK i \in 1..(Len(s) - 1) : p = Tail(s)[i]
      BY <1>3, <2>1 DEF ToSet
    <3>2. i + 1 \in DOMAIN s /\ i + 1 # 1 /\ 1 \in DOMAIN s /\ p = s[i + 1]
      BY <1>1, <1>2, <3>1
    <3> QED
      BY <1>1, <3>2 DEF ToSet, IsInjective
  <2>2. ASSUME p \in ToSet(s), p # Head(s) PROVE p \in ToSet(Tail(s))
    <3>1. PICK i \in 1..Len(s) : p = s[i]
      BY <1>1, <2>2 DEF ToSet
    <3>2. i - 1 \in 1..(Len(s) - 1) /\ (i - 1) + 1 = i
      BY <1>1, <2>2, <3>1
    <3>3. Tail(s)[i - 1] = p
      BY <1>2, <3>1, <3>2
    <3> QED
      BY <1>3, <3>2, <3>3 DEF ToSet
  <2> QED
    BY <2>1, <2>2
<1> QED
  <2>1. 1 \in DOMAIN s
    BY <1>1
  <2>2. Head(s) \in ToSet(s)
    BY <1>1, <2>1 DEF ToSet
  <2>3. ToSet(Tail(s)) = ToSet(s) \ {Head(s)}
    BY <1>5
  <2> QED
    BY <1>2, <1>4, <2>2, <2>3

(***************************************************************************)
(* A list of plots with a new one.                                         *)
(***************************************************************************)
LEMMA AppendedTo ==
  ASSUME NEW S, NEW s \in Seq(S), IsInjective(s), NEW p \in S, p \notin ToSet(s)
  PROVE  /\ Append(s, p) \in Seq(S) /\ IsInjective(Append(s, p))
         /\ Len(Append(s, p)) = Len(s) + 1 /\ Append(s, p) # <<>> /\ Len(s) \in Nat
         /\ ToSet(Append(s, p)) = ToSet(s) \cup {p}
<1>1. Len(s) \in Nat /\ DOMAIN s = 1..Len(s)
  BY LenProperties
<1> DEFINE t == Append(s, p)
<1>2. /\ t \in Seq(S) /\ t # <<>> /\ Len(t) = Len(s) + 1
      /\ \A i \in 1..Len(s) : t[i] = s[i]
      /\ t[Len(s) + 1] = p
  BY AppendProperties
<1> HIDE DEF t
<1>3. DOMAIN t = 1..(Len(s) + 1)
  BY <1>2, LenProperties
<1>4. ASSUME NEW i \in DOMAIN t
      PROVE  \/ i \in DOMAIN s /\ t[i] = s[i] /\ t[i] # p /\ t[i] \in ToSet(s)
             \/ i = Len(s) + 1 /\ t[i] = p
  BY <1>1, <1>2, <1>3 DEF ToSet
<1>5. IsInjective(t)
  <2> SUFFICES ASSUME NEW i \in DOMAIN t, NEW j \in DOMAIN t, t[i] = t[j] PROVE i = j
    BY DEF IsInjective
  <2> QED
    BY <1>4 DEF IsInjective
<1>6. \A i \in DOMAIN s : i \in DOMAIN t /\ t[i] = s[i]
  BY <1>1, <1>2, <1>3
<1>7. Len(s) + 1 \in DOMAIN t
  BY <1>1, <1>3
<1>8. ToSet(t) = ToSet(s) \cup {p}
  BY <1>2, <1>4, <1>6, <1>7 DEF ToSet
<1> QED
  BY <1>1, <1>2, <1>5, <1>8 DEF t

(***************************************************************************)
(* A list of plots without the one at a position.                          *)
(***************************************************************************)
LEMMA WithoutAt ==
  ASSUME NEW S, NEW s \in Seq(S), IsInjective(s), NEW pos \in DOMAIN s
  PROVE  /\ RemoveAt(s, pos) \in Seq(S) /\ IsInjective(RemoveAt(s, pos))
         /\ Len(s) \in Nat /\ pos \in 1..Len(s) /\ Len(RemoveAt(s, pos)) = Len(s) - 1
         /\ ToSet(RemoveAt(s, pos)) = ToSet(s) \ {s[pos]}
<1> DEFINE t == RemoveAt(s, pos)
<1>1. /\ t \in Seq(S) /\ DOMAIN s = 1..Len(s) /\ Len(s) \in Nat /\ pos \in 1..Len(s)
      /\ Len(t) = Len(s) - 1 /\ DOMAIN t = 1..(Len(s) - 1)
      /\ \A i \in 1..(Len(s) - 1) : t[i] = IF i < pos THEN s[i] ELSE s[i + 1]
  BY RemovedAt
<1> HIDE DEF t
<1> DEFINE from(i) == IF i < pos THEN i ELSE i + 1
<1>2. ASSUME NEW i \in DOMAIN t
      PROVE  from(i) \in DOMAIN s /\ from(i) # pos /\ t[i] = s[from(i)]
  BY <1>1
<1>3. \A i, j \in DOMAIN t : from(i) = from(j) => i = j
  BY <1>1
<1>4. ASSUME NEW k \in DOMAIN s, k # pos PROVE \E i \in DOMAIN t : from(i) = k
  <2>1. CASE k < pos
    BY <1>1, <2>1
  <2>2. CASE ~(k < pos)
    <3>1. k - 1 \in DOMAIN t /\ from(k - 1) = k
      BY <1>1, <1>4, <2>2
    <3> QED
      BY <3>1
  <2> QED
    BY <2>1, <2>2
<1> HIDE DEF from
<1>5. IsInjective(t)
  BY <1>2, <1>3 DEF IsInjective
<1>6. ASSUME NEW p PROVE p \in ToSet(t) <=> p \in ToSet(s) /\ p # s[pos]
  <2>1. ASSUME p \in ToSet(t) PROVE p \in ToSet(s) /\ p # s[pos]
    BY <1>2, <2>1 DEF ToSet, IsInjective
  <2>2. ASSUME p \in ToSet(s), p # s[pos] PROVE p \in ToSet(t)
    <3>1. PICK k \in DOMAIN s : s[k] = p
      BY <2>2 DEF ToSet
    <3>2. PICK i \in DOMAIN t : from(i) = k
      BY <1>4, <2>2, <3>1
    <3> QED
      BY <1>2, <3>1, <3>2 DEF ToSet
  <2> QED
    BY <2>1, <2>2
<1> QED
  BY <1>1, <1>5, <1>6 DEF t, ToSet

-----------------------------------------------------------------------------

(***************************************************************************)
(* The empty list is a list.                                               *)
(***************************************************************************)
LEMMA NoneListed == Lists(NoPlots) /\ ToSet(NoPlots.plots) = {}
<1>1. /\ NoPlots \in Histories /\ Len(NoPlots.plots) = 0 /\ NoPlots.active = 0
      /\ DOMAIN NoPlots.plots = {} /\ ToSet(NoPlots.plots) = {}
  BY DEF NoPlots, Histories, ToSet
<1> QED
  BY <1>1, PlotAssumption DEF Lists, IsInjective

(***************************************************************************)
(* The invariant holds at first.                                           *)
(***************************************************************************)
LEMMA InitPlots == PlotInit => PlotIInv
<1> SUFFICES ASSUME PlotInit PROVE PlotIInv
  OBVIOUS
<1>1. Lists(NoPlots) /\ ToSet(NoPlots.plots) = {}
  BY NoneListed
<1>2. PlotsTyped
  BY <1>1 DEF PlotInit, PlotsTyped, Nothing, Lists
<1>3. Forgotten /\ NewOnes
  BY <1>1 DEF PlotInit, Forgotten, NewOnes, Nothing
<1>4. Underway
  BY <1>1 DEF PlotInit, Underway, Nothing
<1> QED
  BY <1>2, <1>3, <1>4 DEF PlotIInv

(***************************************************************************)
(* restore_state makes a list, of plots that plots.json has and that have  *)
(* an image.                                                               *)
(***************************************************************************)
LEMMA RestoredLists ==
  ASSUME NEW json, Lists(json)
  PROVE  /\ Lists(Restored(json))
         /\ ToSet(Restored(json).plots) \subseteq ToSet(json.plots) \cap images
<1>1. json.plots \in Seq(Plots) /\ IsInjective(json.plots) /\ Len(json.plots) <= MaxPlots
  BY DEF Lists, Histories
<1>2. /\ Restored(json).plots \in Seq(Plots)
      /\ IsInjective(Restored(json).plots)
      /\ Len(Restored(json).plots) <= Len(json.plots)
      /\ ToSet(Restored(json).plots) \subseteq ToSet(json.plots) \cap images
      /\ Restored(json).active \in 0..Len(Restored(json).plots)
      /\ Restored(json) \in Histories
  BY <1>1, RestoredPlots DEF Histories
<1>3. /\ Len(Restored(json).plots) \in Nat /\ Len(json.plots) \in Nat
      /\ MaxPlots \in Nat
  BY <1>1, <1>2, LenProperties, PlotAssumption
<1>4. Len(Restored(json).plots) <= MaxPlots
  BY <1>1, <1>2, <1>3
<1> QED
  BY <1>2, <1>4 DEF Lists

(***************************************************************************)
(* WriteImage keeps the invariant: the plot is a new one; so does a write  *)
(* that fails.                                                             *)
(***************************************************************************)
LEMMA WriteKeeps ==
  ASSUME PlotIInv, NEW p \in Plots, WriteImage(p) \/ WriteImageFails(p)
  PROVE  PlotIInv'
<1> USE DEF PlotIInv
<1>1. p \in unusedPlots /\ unusedPlots' = unusedPlots \ {p} /\ operation.kind = "none"
      /\ UNCHANGED <<history, plotsJson, removed>>
  BY DEF WriteImage, WriteImageFails, NewPlot, NoOperation
<1>2. images' \in {images, images \cup {p}}
  BY DEF WriteImage, WriteImageFails
<1>3. \/ operation' = [kind |-> "push", plot |-> {p}] /\ images' = images \cup {p}
      \/ operation' = operation
  BY DEF WriteImage, WriteImageFails
<1>4. PlotsTyped'
  BY <1>1, <1>2, <1>3 DEF PlotsTyped, Lists
<1>5. Forgotten'
  BY <1>1 DEF Forgotten
<1>6. NewOnes'
  BY <1>1, <1>3 DEF NewOnes
<1>7. Underway'
  BY <1>1, <1>2, <1>3 DEF Underway, NewOnes
<1> QED
  BY <1>4, <1>5, <1>6, <1>7

(***************************************************************************)
(* PushPlot keeps the invariant: the oldest plot makes room for the new    *)
(* one.                                                                    *)
(***************************************************************************)
LEMMA PushKeeps ==
  ASSUME PlotIInv, PushPlot
  PROVE  PlotIInv'
<1> USE DEF PlotIInv
<1>1. PICK p \in operation.plot :
        LET pushed == Append(history.plots, p)
            evict == Len(pushed) > MaxPlots
            plots == IF evict THEN Tail(pushed) ELSE pushed
        IN  /\ history' = [plots |-> plots, active |-> Len(plots)]
            /\ IF evict THEN RemoveImages({Head(pushed)}) ELSE UNCHANGED images
            /\ Saving(IF evict THEN {Head(pushed)} ELSE {})
  BY DEF PushPlot
<1>2. operation.kind = "push" /\ UNCHANGED <<plotsJson, unusedPlots, removed>>
  BY DEF PushPlot
<1>3. /\ history.plots \in Seq(Plots) /\ IsInjective(history.plots)
      /\ Len(history.plots) <= MaxPlots /\ p \in Plots /\ MaxPlots \in Nat /\ MaxPlots # 0
      /\ p \notin ToSet(history.plots) /\ p \notin removed /\ p \in images
      /\ p \notin unusedPlots /\ ToSet(history.plots) \subseteq images
  BY <1>2, PlotAssumption DEF PlotsTyped, Lists, Histories, Underway, NewOnes
<1> DEFINE pushed == Append(history.plots, p)
<1>4. /\ pushed \in Seq(Plots) /\ IsInjective(pushed) /\ pushed # <<>>
      /\ Len(pushed) = Len(history.plots) + 1 /\ Len(history.plots) \in Nat
      /\ ToSet(pushed) = ToSet(history.plots) \cup {p}
  BY <1>3, AppendedTo
<1>5. /\ history'.plots \in Seq(Plots) /\ IsInjective(history'.plots)
      /\ Len(history'.plots) <= MaxPlots /\ Len(history'.plots) \in Nat
      /\ ToSet(history'.plots) \subseteq ToSet(history.plots) \cup {p}
      /\ history' = [plots |-> history'.plots, active |-> Len(history'.plots)]
      /\ ToSet(history'.plots) \subseteq images' /\ images' \subseteq images
      /\ operation' = [kind |-> "save", plot |-> operation'.plot]
      /\ operation'.plot \subseteq ToSet(history.plots) \cup {p}
      /\ operation'.plot \cap ToSet(history'.plots) = {}
  <2> HIDE DEF pushed
  <2>1. CASE Len(pushed) > MaxPlots
    <3>1. /\ history' = [plots |-> Tail(pushed), active |-> Len(Tail(pushed))]
          /\ images' \in {images \ {Head(pushed)}, images}
          /\ operation' = [kind |-> "save", plot |-> {Head(pushed)}]
      BY <1>1, <2>1 DEF pushed, RemoveImages, Saving
    <3>2. /\ Tail(pushed) \in Seq(Plots) /\ IsInjective(Tail(pushed))
          /\ Len(Tail(pushed)) = Len(pushed) - 1
          /\ Head(pushed) \in ToSet(pushed)
          /\ ToSet(Tail(pushed)) = ToSet(pushed) \ {Head(pushed)}
      BY <1>4, TailWithout
    <3>3. Len(Tail(pushed)) <= MaxPlots /\ Len(Tail(pushed)) \in Nat
      BY <1>3, <1>4, <3>2
    <3>4. history'.plots = Tail(pushed) /\ operation'.plot = {Head(pushed)}
      BY <3>1
    <3> QED
      BY <1>3, <1>4, <3>1, <3>2, <3>3, <3>4
  <2>2. CASE ~(Len(pushed) > MaxPlots)
    <3>1. /\ history' = [plots |-> pushed, active |-> Len(pushed)]
          /\ images' = images
          /\ operation' = [kind |-> "save", plot |-> {}]
      BY <1>1, <2>2 DEF pushed, Saving
    <3>2. Len(pushed) <= MaxPlots /\ Len(pushed) \in Nat
      BY <1>3, <1>4, <2>2
    <3>3. history'.plots = pushed /\ operation'.plot = {}
      BY <3>1
    <3> QED
      BY <1>3, <1>4, <3>1, <3>2, <3>3
  <2> QED
    BY <2>1, <2>2
<1>6. Lists(history')
  <2>1. history'.active = Len(history'.plots)
    BY <1>5
  <2>2. history' \in Histories
    BY <1>5, <2>1 DEF Histories
  <2> QED
    BY <1>5, <2>1, <2>2 DEF Lists
<1>7. ToSet(history.plots) \subseteq Plots
  BY <1>3, LenProperties DEF ToSet
<1>8. PlotsTyped'
  BY <1>2, <1>3, <1>5, <1>6, <1>7 DEF PlotsTyped, Lists
<1>9. Forgotten'
  BY <1>2, <1>3, <1>5 DEF Forgotten
<1>10. NewOnes'
  BY <1>2, <1>3, <1>5 DEF NewOnes
<1>11. Underway'
  BY <1>5 DEF Underway
<1> QED
  BY <1>8, <1>9, <1>10, <1>11

(***************************************************************************)
(* set_active_plot keeps the invariant.                                    *)
(***************************************************************************)
LEMMA ActivateKeeps ==
  ASSUME PlotIInv, NEW p \in Plots, set_active_plot(p)
  PROVE  PlotIInv'
<1> USE DEF PlotIInv
<1>1. PICK i \in DOMAIN history.plots : history' = [history EXCEPT !.active = i]
  BY DEF set_active_plot
<1>2. /\ operation.kind = "none" /\ operation' = [kind |-> "save", plot |-> {}]
      /\ UNCHANGED <<images, plotsJson, unusedPlots, removed>>
  BY DEF set_active_plot, NoOperation, Saving
<1>3. /\ history \in Histories /\ DOMAIN history.plots = 1..Len(history.plots)
      /\ Len(history.plots) \in Nat
  BY LenProperties DEF PlotsTyped, Lists, Histories
<1>4. history' \in Histories /\ history'.plots = history.plots /\ history'.active = i
  BY <1>1, <1>3 DEF Histories
<1>5. Lists(history')
  BY <1>3, <1>4 DEF PlotsTyped, Lists
<1>6. PlotsTyped'
  BY <1>2, <1>5 DEF PlotsTyped, Lists
<1>7. Forgotten' /\ NewOnes'
  BY <1>2, <1>4 DEF Forgotten, NewOnes
<1>8. Underway'
  BY <1>2, <1>4 DEF Underway
<1> QED
  BY <1>6, <1>7, <1>8

(***************************************************************************)
(* delete_plot keeps the invariant.                                        *)
(***************************************************************************)
LEMMA DeleteKeeps ==
  ASSUME PlotIInv, NEW p \in Plots, delete_plot(p)
  PROVE  PlotIInv'
<1> USE DEF PlotIInv
<1> DEFINE left(i) == RemoveAt(history.plots, i)
<1>1. PICK pos \in DOMAIN history.plots :
        /\ history.plots[pos] = p
        /\ history' = [plots |-> left(pos),
                       active |-> IF pos < history.active THEN history.active - 1
                                  ELSE IF pos = history.active
                                  THEN IF pos <= Len(left(pos)) THEN pos ELSE Len(left(pos))
                                  ELSE history.active]
  BY DEF delete_plot
<1>2. /\ operation.kind = "none" /\ operation' = [kind |-> "save", plot |-> {p}]
      /\ images' \in {images \ {p}, images}
      /\ UNCHANGED <<plotsJson, unusedPlots, removed>>
  BY DEF delete_plot, NoOperation, Saving, RemoveImages
<1>3. /\ history.plots \in Seq(Plots) /\ IsInjective(history.plots)
      /\ Len(history.plots) <= MaxPlots /\ MaxPlots \in Nat
      /\ history.active \in 0..Len(history.plots)
      /\ ToSet(history.plots) \subseteq images
  BY <1>2, PlotAssumption DEF PlotsTyped, Lists, Histories, Underway
<1>4. /\ left(pos) \in Seq(Plots) /\ IsInjective(left(pos))
      /\ Len(history.plots) \in Nat /\ pos \in 1..Len(history.plots)
      /\ Len(left(pos)) = Len(history.plots) - 1
      /\ ToSet(left(pos)) = ToSet(history.plots) \ {p}
  BY <1>1, <1>3, WithoutAt
<1> HIDE DEF left
<1>5. history'.plots = left(pos) /\ history'.active \in 0..Len(left(pos))
      /\ history'.active \in Nat
  <2>1. history'.plots = left(pos)
    BY <1>1
  <2>2. history'.active = IF pos < history.active THEN history.active - 1
                          ELSE IF pos = history.active
                          THEN IF pos <= Len(left(pos)) THEN pos ELSE Len(left(pos))
                          ELSE history.active
    BY <1>1
  <2> QED
    BY <1>3, <1>4, <2>1, <2>2
<1>6. Lists(history')
  <2>1. history' \in Histories
    BY <1>1, <1>4, <1>5 DEF Histories
  <2>2. Len(left(pos)) <= MaxPlots
    BY <1>3, <1>4
  <2> QED
    BY <1>4, <1>5, <2>1, <2>2 DEF Lists
<1>7. PlotsTyped'
  BY <1>2, <1>6 DEF PlotsTyped, Lists
<1>8. Forgotten' /\ NewOnes'
  <2>1. p \in ToSet(history.plots)
    BY <1>1 DEF ToSet
  <2> QED
    BY <1>2, <1>4, <1>5, <2>1 DEF Forgotten, NewOnes
<1>9. Underway'
  BY <1>2, <1>3, <1>4, <1>5 DEF Underway
<1> QED
  BY <1>7, <1>8, <1>9

(***************************************************************************)
(* The steps of clearing keep the invariant: the images go one by one,     *)
(* then the list at once.                                                  *)
(***************************************************************************)
LEMMA ClearKeeps ==
  ASSUME PlotIInv, ClearAll \/ ClearImage \/ ClearPlots
  PROVE  PlotIInv'
<1> USE DEF PlotIInv
<1>1. ToSet(history.plots) \subseteq Plots
  BY LenProperties DEF PlotsTyped, Lists, Histories, ToSet
<1>2. CASE ClearAll
  <2>1. /\ operation' = [kind |-> "clear", plot |-> ToSet(history.plots)]
        /\ UNCHANGED <<history, images, plotsJson, unusedPlots, removed>>
    BY <1>2 DEF ClearAll
  <2>2. PlotsTyped'
    BY <1>1, <2>1 DEF PlotsTyped, Lists
  <2>3. Forgotten' /\ NewOnes' /\ Underway'
    BY <2>1 DEF Forgotten, NewOnes, Underway
  <2> QED
    BY <2>2, <2>3
<1>3. CASE ClearImage
  <2>1. PICK p \in operation.plot : /\ RemoveImages({p})
                                    /\ operation' = [operation EXCEPT !.plot = @ \ {p}]
    BY <1>3 DEF ClearImage
  <2>2. operation.kind = "clear" /\ UNCHANGED <<history, plotsJson, unusedPlots, removed>>
    BY <1>3 DEF ClearImage
  <2>3. /\ operation' \in [kind : {"none", "push", "save", "clear", "down"},
                           plot : SUBSET Plots]
        /\ operation'.kind = "clear" /\ operation'.plot \subseteq operation.plot
        /\ images' \subseteq images
    BY <2>1, <2>2 DEF PlotsTyped, RemoveImages
  <2>4. PlotsTyped'
    BY <2>2, <2>3 DEF PlotsTyped, Lists
  <2>5. Forgotten' /\ NewOnes' /\ Underway'
    BY <2>2, <2>3 DEF Forgotten, NewOnes, Underway
  <2> QED
    BY <2>4, <2>5
<1>4. CASE ClearPlots
  <2>1. /\ history' = NoPlots /\ operation' = [kind |-> "save", plot |-> ToSet(history.plots)]
        /\ UNCHANGED <<images, plotsJson, unusedPlots, removed>>
    BY <1>4 DEF ClearPlots, Saving
  <2>2. PlotsTyped'
    BY <1>1, <2>1, NoneListed DEF PlotsTyped, Lists
  <2>3. Forgotten' /\ NewOnes' /\ Underway'
    BY <2>1, NoneListed DEF Forgotten, NewOnes, Underway
  <2> QED
    BY <2>2, <2>3
<1> QED
  BY <1>2, <1>3, <1>4

(***************************************************************************)
(* Saving keeps the invariant, whether it succeeds or not: what is removed *)
(* is in neither list.                                                     *)
(***************************************************************************)
LEMMA SaveKeeps ==
  ASSUME PlotIInv, SaveHistory \/ save_state \/ SaveFails
  PROVE  PlotIInv'
<1> USE DEF PlotIInv
<1>1. CASE SaveHistory
  <2>1. /\ operation.kind = "none" /\ operation' = [kind |-> "save", plot |-> {}]
        /\ UNCHANGED <<history, images, plotsJson, unusedPlots, removed>>
    BY <1>1 DEF SaveHistory, NoOperation, Saving
  <2>2. PlotsTyped'
    BY <2>1 DEF PlotsTyped, Lists
  <2>3. Forgotten' /\ NewOnes' /\ Underway'
    BY <2>1 DEF Forgotten, NewOnes, Underway
  <2> QED
    BY <2>2, <2>3
<1>2. CASE save_state
  <2>1. /\ operation.kind = "save" /\ operation' = [kind |-> "none", plot |-> {}]
        /\ plotsJson' = [file |-> "whole", holds |-> history]
        /\ removed' = removed \cup operation.plot
        /\ UNCHANGED <<history, images, unusedPlots>>
    BY <1>2 DEF save_state, Nothing
  <2>2. PlotsTyped'
    BY <2>1 DEF PlotsTyped, Lists
  <2>3. Forgotten' /\ NewOnes' /\ Underway'
    BY <2>1 DEF Forgotten, NewOnes, Underway
  <2> QED
    BY <2>2, <2>3
<1>3. CASE SaveFails
  <2>1. /\ operation.kind = "save" /\ operation' = [kind |-> "none", plot |-> {}]
        /\ plotsJson' \in {plotsJson, [file |-> "torn", holds |-> NoPlots]}
        /\ UNCHANGED <<history, images, unusedPlots, removed>>
    BY <1>3 DEF SaveFails, Nothing, Torn
  <2>2. PlotsTyped'
    BY <2>1, NoneListed DEF PlotsTyped, Lists
  <2>3. Forgotten' /\ NewOnes' /\ Underway'
    BY <2>1, NoneListed DEF Forgotten, NewOnes, Underway
  <2> QED
    BY <2>2, <2>3
<1> QED
  BY <1>1, <1>2, <1>3

(***************************************************************************)
(* restore_state, Kill and OpenHistory keep the invariant: the list is     *)
(* made again from plots.json and the images there are.                    *)
(***************************************************************************)
LEMMA RestoreKeeps ==
  ASSUME PlotIInv, restore_state \/ Kill \/ OpenHistory
  PROVE  PlotIInv'
<1> USE DEF PlotIInv
<1>1. /\ Lists(plotsJson.holds)
      /\ Lists(Restored(plotsJson.holds))
      /\ ToSet(Restored(plotsJson.holds).plots) \subseteq
             ToSet(plotsJson.holds.plots) \cap images
  BY RestoredLists DEF PlotsTyped
<1>2. CASE Kill
  <2>1. /\ history' = NoPlots /\ operation' = [kind |-> "down", plot |-> {}]
        /\ plotsJson' \in {plotsJson, [file |-> "torn", holds |-> NoPlots]}
        /\ UNCHANGED <<images, unusedPlots, removed>>
    BY <1>2 DEF Kill, Torn
  <2>2. PlotsTyped'
    BY <2>1, NoneListed DEF PlotsTyped, Lists
  <2>3. Forgotten' /\ NewOnes' /\ Underway'
    BY <2>1, NoneListed DEF Forgotten, NewOnes, Underway
  <2> QED
    BY <2>2, <2>3
<1>3. CASE restore_state \/ OpenHistory
  <2>1. /\ history' = Restored(plotsJson.holds)
        /\ operation.kind \in {"none", "down"}
        /\ operation' \in {operation, [kind |-> "none", plot |-> {}]}
        /\ UNCHANGED <<images, plotsJson, unusedPlots, removed>>
    BY <1>3 DEF restore_state, OpenHistory, NoOperation, Nothing
  <2> DEFINE back == Restored(plotsJson.holds)
  <2>2. /\ Lists(back) /\ history' = back
        /\ ToSet(back.plots) \subseteq ToSet(plotsJson.holds.plots) \cap images
    BY <1>1, <2>1
  <2> HIDE DEF back
  <2>3. PlotsTyped'
    BY <2>1, <2>2 DEF PlotsTyped, Lists
  <2>4. Forgotten' /\ NewOnes' /\ Underway'
    BY <2>1, <2>2 DEF Forgotten, NewOnes, Underway
  <2> QED
    BY <2>3, <2>4
<1> QED
  BY <1>2, <1>3

(***************************************************************************)
(* Every step keeps the invariant.                                         *)
(***************************************************************************)
LEMMA PlotStep ==
  ASSUME PlotIInv, [PlotNext]_plotVars
  PROVE  PlotIInv'
<1>1. CASE UNCHANGED plotVars
  BY <1>1 DEF plotVars, PlotIInv, PlotsTyped, Lists, Forgotten, NewOnes, Underway
<1>2. ASSUME NEW p \in Plots,
             WriteImage(p) \/ WriteImageFails(p) \/ set_active_plot(p) \/ delete_plot(p)
      PROVE  PlotIInv'
  BY <1>2, WriteKeeps, ActivateKeeps, DeleteKeeps
<1>3. CASE PushPlot
  BY <1>3, PushKeeps
<1>4. CASE ClearAll \/ ClearImage \/ ClearPlots
  BY <1>4, ClearKeeps
<1>5. CASE SaveHistory \/ save_state \/ SaveFails
  BY <1>5, SaveKeeps
<1>6. CASE restore_state \/ Kill \/ OpenHistory
  BY <1>6, RestoreKeeps
<1> QED
  BY <1>1, <1>2, <1>3, <1>4, <1>5, <1>6 DEF PlotNext

(***************************************************************************)
(* The invariant always holds.                                             *)
(***************************************************************************)
LEMMA PlotsSafe == PlotSpec => []PlotIInv
<1>1. PlotInit => PlotIInv
  BY InitPlots
<1>2. PlotIInv /\ [PlotNext]_plotVars => PlotIInv'
  BY PlotStep
<1> QED
  BY <1>1, <1>2, PTL DEF PlotSpec

(***************************************************************************)
(* The list of plots is always of its type: each plot once, no more than   *)
(* MaxPlots, the active one among them, and unless plots are being cleared *)
(* each with its image.                                                    *)
(***************************************************************************)
THEOREM PlotTypeCorrect == PlotSpec => []PlotTypeOK
<1>1. PlotIInv => PlotTypeOK
  BY DEF PlotIInv, PlotsTyped, Lists, Histories, Underway, PlotTypeOK
<1> QED
  BY <1>1, PlotsSafe, PTL

(***************************************************************************)
(* A plot whose deletion, eviction or clearing was answered with success   *)
(* is never listed again, whatever fails later and whenever the server is  *)
(* killed.                                                                 *)
(***************************************************************************)
THEOREM RemovedIsForGood == PlotSpec => []RemovedStaysRemoved
<1>1. PlotIInv => RemovedStaysRemoved
  BY DEF PlotIInv, Forgotten, RemovedStaysRemoved
<1> QED
  BY <1>1, PlotsSafe, PTL

\* The step that ActivePlotStays allows.
ActiveKept ==
    /\ operation'.kind = "save"
    /\ ToSet(history'.plots) \subseteq ToSet(history.plots)
    /\ history'.plots # history.plots
    /\ active_plot_id(history) \subseteq ToSet(history'.plots)
    => active_plot_id(history') = active_plot_id(history)

(***************************************************************************)
(* delete_plot leaves the active plot active if it is another one.         *)
(***************************************************************************)
LEMMA DeleteKeepsActive ==
  ASSUME PlotIInv, NEW p \in Plots, delete_plot(p),
         active_plot_id(history) \subseteq ToSet(history'.plots)
  PROVE  active_plot_id(history') = active_plot_id(history)
<1> DEFINE s == history.plots
           left(i) == RemoveAt(s, i)
<1>1. PICK pos \in DOMAIN s :
        /\ s[pos] = p
        /\ history' = [plots |-> left(pos),
                       active |-> IF pos < history.active THEN history.active - 1
                                  ELSE IF pos = history.active
                                  THEN IF pos <= Len(left(pos)) THEN pos ELSE Len(left(pos))
                                  ELSE history.active]
  BY DEF delete_plot
<1>2. s \in Seq(Plots) /\ IsInjective(s) /\ history.active \in 0..Len(s)
  BY DEF PlotIInv, PlotsTyped, Lists, Histories
<1>3. /\ Len(s) \in Nat /\ pos \in 1..Len(s) /\ DOMAIN s = 1..Len(s)
      /\ ToSet(left(pos)) = ToSet(s) \ {p}
      /\ \A i \in 1..(Len(s) - 1) : left(pos)[i] = IF i < pos THEN s[i] ELSE s[i + 1]
  <2> HIDE DEF s
  <2>1. /\ Len(s) \in Nat /\ pos \in 1..Len(s) /\ DOMAIN s = 1..Len(s)
        /\ \A i \in 1..(Len(s) - 1) : left(pos)[i] = IF i < pos THEN s[i] ELSE s[i + 1]
    BY <1>1, <1>2, RemovedAt
  <2>2. ToSet(left(pos)) = ToSet(s) \ {p}
    BY <1>1, <1>2, WithoutAt
  <2> QED
    BY <2>1, <2>2
<1> HIDE DEF left
<1>4. history'.plots = left(pos)
      /\ history'.active = IF pos < history.active THEN history.active - 1
                           ELSE IF pos = history.active
                           THEN IF pos <= Len(left(pos)) THEN pos ELSE Len(left(pos))
                           ELSE history.active
  BY <1>1
<1> HIDE DEF s
<1>5. active_plot_id(history) = (IF history.active = 0 THEN {} ELSE {s[history.active]})
      /\ active_plot_id(history')
            = (IF history'.active = 0 THEN {} ELSE {left(pos)[history'.active]})
  BY <1>4 DEF active_plot_id, s
<1>6. history.active # pos
  <2>1. ASSUME history.active = pos PROVE FALSE
    <3>1. active_plot_id(history) = {p}
      BY <1>1, <1>3, <1>5, <2>1
    <3> QED
      BY <1>3, <1>4, <3>1
  <2> QED
    BY <2>1
<1>7. CASE history.active = 0
  BY <1>3, <1>4, <1>5, <1>7
<1>8. CASE history.active # 0 /\ history.active < pos
  <2>1. history'.active = history.active /\ history.active \in 1..(Len(s) - 1)
    BY <1>2, <1>3, <1>4, <1>8
  <2> QED
    BY <1>3, <1>5, <1>8, <2>1
<1>9. CASE history.active # 0 /\ pos < history.active
  <2>1. history'.active = history.active - 1 /\ history.active - 1 \in 1..(Len(s) - 1)
        /\ ~(history.active - 1 < pos) /\ (history.active - 1) + 1 = history.active
    BY <1>2, <1>3, <1>4, <1>9
  <2> QED
    BY <1>3, <1>5, <1>9, <2>1
<1> QED
  BY <1>2, <1>3, <1>6, <1>7, <1>8, <1>9

(***************************************************************************)
(* Every other step that takes plots out does not keep the active one, or  *)
(* does not begin a save.                                                  *)
(***************************************************************************)
LEMMA StepKeepsActive ==
  ASSUME PlotIInv, [PlotNext]_plotVars
  PROVE  ActiveKept
<1> SUFFICES ASSUME operation'.kind = "save",
                    ToSet(history'.plots) \subseteq ToSet(history.plots),
                    history'.plots # history.plots,
                    active_plot_id(history) \subseteq ToSet(history'.plots)
             PROVE  active_plot_id(history') = active_plot_id(history)
  BY DEF ActiveKept
<1>1. CASE UNCHANGED plotVars
  BY <1>1 DEF plotVars
<1>2. ASSUME NEW p \in Plots, WriteImage(p) \/ WriteImageFails(p) PROVE FALSE
  BY <1>2 DEF WriteImage, WriteImageFails
<1>3. ASSUME NEW p \in Plots, set_active_plot(p) PROVE FALSE
  <2>1. history'.plots = history.plots
    BY <1>3 DEF set_active_plot, PlotIInv, PlotsTyped, Lists, Histories
  <2> QED
    BY <2>1
<1>4. ASSUME NEW p \in Plots, delete_plot(p)
      PROVE  active_plot_id(history') = active_plot_id(history)
  BY <1>4, DeleteKeepsActive
<1>5. CASE PushPlot
  <2>1. PICK p \in operation.plot :
          history'.plots = IF Len(Append(history.plots, p)) > MaxPlots
                           THEN Tail(Append(history.plots, p)) ELSE Append(history.plots, p)
    BY <1>5 DEF PushPlot
  <2>2. /\ history.plots \in Seq(Plots) /\ IsInjective(history.plots) /\ p \in Plots
        /\ p \notin ToSet(history.plots) /\ Len(history.plots) \in Nat
        /\ MaxPlots \in Nat /\ MaxPlots # 0
    BY <1>5, LenProperties, PlotAssumption
       DEF PushPlot, PlotIInv, PlotsTyped, Lists, Histories, Underway
  <2> DEFINE pushed == Append(history.plots, p)
  <2>3. /\ pushed \in Seq(Plots) /\ IsInjective(pushed) /\ pushed # <<>>
        /\ Len(pushed) = Len(history.plots) + 1
        /\ ToSet(pushed) = ToSet(history.plots) \cup {p}
    BY <2>2, AppendedTo
  <2>4. p \in ToSet(history'.plots)
    <3>1. CASE Len(pushed) > MaxPlots
      <4>1. history.plots # <<>>
        <5>1. Len(history.plots) # 0
          BY <2>2, <2>3, <3>1
        <5> QED
          BY <2>2, <5>1, EmptySeq
      <4>2. Head(pushed) = Head(history.plots)
        BY <2>2, <4>1, HeadTailAppend
      <4>3. Head(history.plots) \in ToSet(history.plots)
        BY <2>2, <4>1, TailWithout
      <4>4. ToSet(Tail(pushed)) = ToSet(pushed) \ {Head(pushed)}
        BY <2>3, TailWithout
      <4> QED
        BY <2>1, <2>2, <2>3, <3>1, <4>2, <4>3, <4>4
    <3>2. CASE ~(Len(pushed) > MaxPlots)
      BY <2>1, <2>3, <3>2
    <3> QED
      BY <3>1, <3>2
  <2> QED
    BY <2>2, <2>4
<1>6. CASE ClearAll \/ ClearImage
  BY <1>6 DEF ClearAll, ClearImage
<1>7. CASE ClearPlots
  <2>1. history' = NoPlots
    BY <1>7 DEF ClearPlots
  <2>2. active_plot_id(history) = {}
    BY <2>1, NoneListed
  <2>3. active_plot_id(history') = {}
    BY <2>1 DEF active_plot_id, NoPlots
  <2> QED
    BY <2>2, <2>3
<1>8. CASE SaveHistory \/ save_state \/ SaveFails
  BY <1>8 DEF SaveHistory, save_state, SaveFails
<1>9. CASE restore_state \/ Kill \/ OpenHistory
  <2>1. operation'.kind # "save"
    BY <1>9 DEF restore_state, Kill, OpenHistory, NoOperation, Nothing
  <2> QED
    BY <2>1
<1> QED
  BY <1>1, <1>2, <1>3, <1>4, <1>5, <1>6, <1>7, <1>8, <1>9 DEF PlotNext

(***************************************************************************)
(* A change that only takes plots out leaves the active plot active if it  *)
(* is still there.                                                         *)
(***************************************************************************)
THEOREM ActiveStays == PlotSpec => ActivePlotStays
<1>1. PlotIInv /\ [PlotNext]_plotVars => [ActiveKept]_plotVars
  BY StepKeepsActive
<1> QED
  BY <1>1, PlotsSafe, PTL DEF PlotSpec, ActivePlotStays, ActiveKept
=================================================================================
