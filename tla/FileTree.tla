-------------------------------- MODULE FileTree --------------------------------
(***************************************************************************)
(* The project's folder, the operations of the file browser on it          *)
(* (core/src/fs.rs, handle_fs_action), the watcher that tells a socket of  *)
(* changes (runtime_fs.rs) and the tree the client shows                   *)
(* (client/src/core/fileSystemStore.ts, FileBrowserPane.tsx, socket.ts).   *)
(*                                                                         *)
(* A path is the sequence of its names, <<>> the project's root.  Symbolic *)
(* links are left out, and so is the deletion of the root.  One operation  *)
(* is one step; a copy that fails has copied any part of its source.       *)
(***************************************************************************)
EXTENDS Naturals, Sequences, SequencesExt

CONSTANTS
    TreePaths,      \* paths that occur in the project
    NamedPaths,     \* those that operations name
    InitialTrees,   \* what is in the folder at first
    MaxTreeChanges, \* bound: operations on the folder
    MaxTreeToggles, \* bound: folders expanded and collapsed
    MaxGivenUp      \* bound: list requests that fail or time out

ASSUME FileTreeAssumption ==
    /\ NamedPaths \subseteq TreePaths /\ <<>> \notin TreePaths
    /\ \A p \in TreePaths : p \in Seq(Range(p))
    /\ \A t \in InitialTrees :
           /\ t \in [DOMAIN t -> {"dir", "file"}] /\ DOMAIN t \subseteq TreePaths
           /\ \A p \in DOMAIN t : Len(p) > 1 => Front(p) \in DOMAIN t /\ t[Front(p)] = "dir"
    /\ MaxTreeChanges \in Nat /\ MaxTreeToggles \in Nat /\ MaxGivenUp \in Nat

VARIABLES
    tree,       \* the folder: what is at each path below the root
    raw,        \* events on their way to the socket, each as the folders it makes a client list
    watching,   \* the thread has its watcher
    lists,      \* list requests on their way to the server
    arriving,   \* messages on their way to the client
    awaited,    \* folders whose listing the client waits for
    refreshing, \* folders that the client is about to list
    expanded,   \* expandedFolders
    shown,      \* the children of the folders that the client has loaded
    unseen,     \* ghost: folders that changed with no event for the client after an answer it has
                \* of them or that is on its way
    givenUp,    \* ghost: folders the client failed to list and has not listed since
    treeChanges, treeToggles, treeFailures

treeVars == <<tree, raw, watching, lists, arriving, awaited, refreshing, expanded, shown,
              unseen, givenUp, treeChanges, treeToggles, treeFailures>>
browserVars == <<lists, arriving, awaited, refreshing, expanded, shown, givenUp, treeToggles,
                 treeFailures>>

RootPath == <<>>

TreeInit ==
    /\ tree \in InitialTrees /\ raw = {} /\ watching = FALSE
    /\ lists = <<>> /\ arriving = <<>> /\ awaited = {} /\ refreshing = {RootPath}
    /\ expanded = {RootPath} /\ shown = [p \in {} |-> {}]
    /\ unseen = {} /\ givenUp = {} /\ treeChanges = 0 /\ treeToggles = 0 /\ treeFailures = 0

-----------------------------------------------------------------------------
(* FileSystem.                                                             *)

IsDir(t, p) == p = RootPath \/ (p \in DOMAIN t /\ t[p] = "dir")
Under(t, p) == {q \in DOMAIN t : IsPrefix(p, q)}
Without(t, S) == [q \in DOMAIN t \ S |-> t[q]]
\* What f has, and otherwise what g has.
Over(f, g) == [q \in DOMAIN f \cup DOMAIN g |-> IF q \in DOMAIN f THEN f[q] ELSE g[q]]
Only(p, what) == [q \in {p} |-> what]
Rebased(q, p, to) == to \o SubSeq(q, Len(p) + 1, Len(q))

\* An operation's outcome: the tree it leaves, and whether it succeeds.
Outcome(t, ok) == [tree |-> t, ok |-> ok]

\* create_dir_all: the folders down to the first file on the way.
create_dir(t, p) ==
    LET way == {SubSeq(p, 1, n) : n \in 1..Len(p)}
        files == {q \in way : q \in DOMAIN t /\ t[q] # "dir"}
        made == {q \in way : \A f \in files : ~IsPrefix(f, q)}
    IN  Outcome(Over(t, [q \in made |-> "dir"]), files = {})

write_file(t, p) ==
    LET parents == create_dir(t, Front(p))
    IN  IF parents.ok /\ ~IsDir(parents.tree, p)
        THEN Outcome(Over(Only(p, "file"), parents.tree), TRUE)
        ELSE Outcome(parents.tree, FALSE)

delete_path(t, p) == Outcome(Without(t, Under(t, p)), p \in DOMAIN t)

\* rename_path: the target's parents are made first; the target may be a file, for a file,
\* or an empty folder, for a folder.
rename_path(t, p, to) ==
    LET parents == create_dir(t, Front(to))
        u == parents.tree
        free == to \notin DOMAIN u \/ to = p
                \/ (u[to] = u[p] /\ Under(u, to) = {to})
        moved == [q \in {Rebased(s, p, to) : s \in Under(u, p)} |-> u[Rebased(q, to, p)]]
    IN  IF parents.ok /\ p \in DOMAIN u /\ ~IsStrictPrefix(p, to) /\ free
        THEN Outcome(Over(moved, Without(u, Under(u, p))), TRUE)
        ELSE Outcome(u, FALSE)

\* copy_path and copy_dir_recursive: what the source has is added to what the target has; a
\* file in a folder's place or a folder in a file's stops it, at any point.
copy_path(t, p, to) ==
    LET parents == create_dir(t, Front(to))
        u == parents.tree
        source == Under(u, p)
        Fits(s) == Rebased(s, p, to) \notin DOMAIN u \/ u[Rebased(s, p, to)] = u[s]
        Add(S) == Over([q \in {Rebased(s, p, to) : s \in S} |-> u[Rebased(q, to, p)]], u)
        Grown(S) == \A s \in S, r \in source : IsPrefix(r, s) => r \in S
    IN  IF ~parents.ok \/ p \notin DOMAIN t THEN {Outcome(u, FALSE)}
        ELSE IF \A s \in source : Fits(s) THEN {Outcome(Add(source), TRUE)}
        ELSE {Outcome(Add(S), FALSE) : S \in {S \in SUBSET {s \in source : Fits(s)} : Grown(S)}}

\* list_dir: the names in a folder, and which of them are folders.
list_dir(t, p) == {[path |-> q, is_dir |-> t[q] = "dir"] :
                      q \in {q \in DOMAIN t : Front(q) = p}}

-----------------------------------------------------------------------------
(* Changes, and the events that tell of them.                              *)

ParentsOf(paths) == {Front(p) : p \in paths}
Changed(t, u) == {p \in DOMAIN t \cup DOMAIN u :
                     p \notin DOMAIN t \cap DOMAIN u \/ t[p] # u[p]}

\* external: notify's events for what an operation has changed.
EventsOf(t, u) ==
    {[kind |-> CASE p \notin DOMAIN t -> "create" [] p \notin DOMAIN u -> "remove"
                 [] OTHER -> "modify",
      paths |-> <<p>>] : p \in Changed(t, u)}
RenameEvents(p, to) ==
    {[kind |-> "name", paths |-> <<p>>], [kind |-> "name", paths |-> <<to>>],
     [kind |-> "name", paths |-> <<p, to>>]}

\* Mutant: a rename is told of where the file is now.
map_event_to_target(e) ==
    IF e.kind = "name" /\ Len(e.paths) < 2 THEN {} ELSE {Front(e.paths[Len(e.paths)])}

\* map_event, and deriveRefreshTargets of what it returns: the folders to list again. A
\* rename with one path is dropped.
map_event(e) == IF e.kind = "name" /\ Len(e.paths) < 2 THEN {} ELSE ParentsOf(Range(e.paths))

\* The folder becomes u; notify raises its events, if there is a watcher by then. A step
\* that changes nothing is left out.
ChangeTree(u, events, missed) ==
    /\ treeChanges < MaxTreeChanges /\ u # tree
    /\ treeChanges' = treeChanges + 1
    /\ tree' = u
    /\ raw' = IF watching THEN raw \cup ({map_event(e) : e \in events} \ {{}}) ELSE raw
    /\ unseen' = unseen \cup IF watching THEN missed ELSE ParentsOf(Changed(tree, u))
    /\ UNCHANGED watching

\* An operation of R, of another program or of another window, or of the client's browser,
\* which lists the folders once it is answered.
Operate(o, events, folders) ==
    /\ ChangeTree(o.tree, events, {})
    /\ \/ UNCHANGED arriving
       \/ arriving' = Append(arriving, [type |-> "fs_result", folders |-> folders])
    /\ UNCHANGED <<lists, awaited, refreshing, expanded, shown, givenUp, treeToggles,
                   treeFailures>>

CreateDir == \E p \in NamedPaths : LET o == create_dir(tree, p) IN
    Operate(o, EventsOf(tree, o.tree), IF o.ok THEN {Front(p)} ELSE {})
WriteFile == \E p \in NamedPaths : LET o == write_file(tree, p) IN
    Operate(o, EventsOf(tree, o.tree), IF o.ok THEN {Front(p)} ELSE {})
DeletePath == \E p \in NamedPaths : LET o == delete_path(tree, p) IN
    Operate(o, EventsOf(tree, o.tree), {Front(p)})

\* performTransfer: never onto or into itself.
Transferable(p, to) ==
    ~IsPrefix(p, to) /\ \A s \in Under(tree, p) : Rebased(s, p, to) \in TreePaths
CopyPath == \E p, to \in NamedPaths :
    /\ Transferable(p, to)
    /\ \E o \in copy_path(tree, p, to) : Operate(o, EventsOf(tree, o.tree), {Front(to)})
RenamePath == \E p, to \in NamedPaths :
    /\ Transferable(p, to)
    /\ LET o == rename_path(tree, p, to)
       IN  Operate(o, EventsOf(tree, create_dir(tree, Front(to)).tree)
                      \cup IF o.ok THEN RenameEvents(p, to) ELSE {}, ParentsOf({p, to}))

\* A file is moved in or out of the project by another program.
MoveAcross == \E p \in NamedPaths :
    /\ IsDir(tree, Front(p)) /\ ~IsDir(tree, p)
    /\ ChangeTree(IF p \in DOMAIN tree THEN Without(tree, {p}) ELSE Over(Only(p, "file"), tree),
                  {[kind |-> "name", paths |-> <<p>>]}, {Front(p)})
    /\ UNCHANGED browserVars

-----------------------------------------------------------------------------
(* The watcher and the socket.                                             *)

StartWatching ==
    /\ ~watching /\ watching' = TRUE
    /\ UNCHANGED <<tree, raw, browserVars, unseen, treeChanges>>

WatchEvent == \E folders \in raw :
    /\ raw' = raw \ {folders}
    /\ arriving' = Append(arriving, [type |-> "fs_event", folders |-> folders])
    /\ UNCHANGED <<tree, watching, lists, awaited, refreshing, expanded, shown, unseen,
                   givenUp, treeChanges, treeToggles, treeFailures>>

AnswerList ==
    /\ lists # <<>>
    /\ lists' = Tail(lists)
    /\ arriving' = Append(arriving,
         [type |-> "list", folder |-> Head(lists), ok |-> IsDir(tree, Head(lists)),
          entries |-> list_dir(tree, Head(lists))])
    /\ UNCHANGED <<tree, raw, watching, awaited, refreshing, expanded, shown, unseen,
                   givenUp, treeChanges, treeToggles, treeFailures>>

-----------------------------------------------------------------------------
(* The client.                                                             *)

GiveUp(f) ==
    /\ treeFailures < MaxGivenUp
    /\ treeFailures' = treeFailures + 1
    /\ givenUp' = givenUp \cup {f}

\* refreshPath: the root, and folders that are expanded.  The request fails when the socket
\* is not open.
RefreshFolder == \E f \in refreshing :
    /\ refreshing' = refreshing \ {f}
    /\ IF f = RootPath \/ f \in expanded
       THEN \/ /\ lists' = Append(lists, f) /\ awaited' = awaited \cup {f}
               /\ UNCHANGED <<givenUp, treeFailures>>
            \/ GiveUp(f) /\ UNCHANGED <<lists, awaited>>
       ELSE UNCHANGED <<lists, awaited, givenUp, treeFailures>>
    /\ UNCHANGED <<tree, raw, watching, arriving, expanded, shown, unseen, treeChanges,
                   treeToggles>>

\* socketService.request waits ten seconds; refreshPath then leaves the folder as it was.  A
\* later request for the folder may still wait.
TimeoutList == \E f \in awaited :
    /\ awaited' = awaited \ {f} \/ awaited' = awaited
    /\ GiveUp(f)
    /\ UNCHANGED <<tree, raw, watching, lists, arriving, refreshing, expanded, shown, unseen,
                   treeChanges, treeToggles>>

\* handleFsEvent, and the refresh after an operation.
HearOfChange ==
    /\ arriving # <<>> /\ Head(arriving).type \in {"fs_event", "fs_result"}
    /\ arriving' = Tail(arriving)
    /\ refreshing' = refreshing \cup Head(arriving).folders
    /\ UNCHANGED <<tree, raw, watching, lists, awaited, expanded, shown, unseen, givenUp,
                   treeChanges, treeToggles, treeFailures>>

Node(f) == Front(f) \in DOMAIN shown /\ [path |-> f, is_dir |-> TRUE] \in shown[Front(f)]

\* The new children of a folder come without children of their own, the root's too.
updateChildren(f, entries) ==
    IF f = RootPath THEN Only(f, entries)
    ELSE IF Node(f) THEN Over(Only(f, entries),
                              [g \in {g \in DOMAIN shown : ~IsPrefix(f, g)} |-> shown[g]])
    ELSE shown

\* Some answer on its way does not have what is in the folder now.
Outdated(f) == \E i \in DOMAIN arriving : LET m == arriving[i] IN
    m.type = "list" /\ m.folder = f /\ m.entries # list_dir(tree, f)

\* Every request for the folder takes the first answer about it, be it to a request that
\* was given up; later ones find none.
ReceiveList ==
    /\ arriving # <<>> /\ Head(arriving).type = "list"
    /\ arriving' = Tail(arriving)
    /\ LET m == Head(arriving)
       IN  /\ awaited' = awaited \ {m.folder}
           /\ IF m.folder \in awaited /\ m.ok
              THEN /\ shown' = updateChildren(m.folder, m.entries)
                   /\ unseen' = IF Outdated(m.folder) THEN unseen ELSE unseen \ {m.folder}
                   /\ givenUp' = IF Outdated(m.folder) THEN givenUp ELSE givenUp \ {m.folder}
              ELSE UNCHANGED <<shown, unseen, givenUp>>
    /\ UNCHANGED <<tree, raw, watching, lists, refreshing, expanded, treeChanges,
                   treeToggles, treeFailures>>

Visible(f) == \A n \in 1..Len(f) : SubSeq(f, 1, n) \in expanded

toggleFolder == \E f \in TreePaths :
    /\ treeToggles < MaxTreeToggles /\ Node(f) /\ Visible(Front(f))
    /\ treeToggles' = treeToggles + 1
    /\ IF f \in expanded THEN expanded' = expanded \ {f} /\ UNCHANGED refreshing
       ELSE expanded' = expanded \cup {f} /\ refreshing' = refreshing \cup {f}
    /\ UNCHANGED <<tree, raw, watching, lists, arriving, awaited, shown, unseen, givenUp,
                   treeChanges, treeFailures>>

TreeNext ==
    \/ CreateDir \/ WriteFile \/ DeletePath \/ CopyPath \/ RenamePath \/ MoveAcross
    \/ StartWatching \/ WatchEvent \/ AnswerList
    \/ RefreshFolder \/ TimeoutList \/ HearOfChange \/ ReceiveList \/ toggleFolder

TreeSpec == TreeInit /\ [][TreeNext]_treeVars

-----------------------------------------------------------------------------
(* Properties.                                                             *)

TreeQuiet == raw = {} /\ lists = <<>> /\ arriving = <<>> /\ awaited = {} /\ refreshing = {}

\* fileSystemStore.ts with socket.ts, runtime_fs.rs and fs.rs: every path of the project
\* lies in folders; and once nothing is under way, each folder that the client shows open
\* and has loaded shows what is in it, whoever changed it and however requests, events and
\* answers overlapped - but for changes that notify or map_event tell nobody of (those
\* before the watcher is there, and moves across the project's border), and for a folder
\* whose listing, or that of a folder above it, failed or came too late and was not taken
\* since.
ShownFoldersAreReal ==
    /\ \A p \in DOMAIN tree : IsDir(tree, Front(p))
    /\ TreeQuiet => \A f \in DOMAIN shown :
           Visible(f) /\ f \notin unseen /\ (\A h \in givenUp : ~IsPrefix(h, f))
               => shown[f] = list_dir(tree, f)
=============================================================================
