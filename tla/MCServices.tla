----------------------------- MODULE MCServices -----------------------------
(* Small instances of the services that share no state with each other:   *)
(* `service` says which of them moves in a behaviour, the others stay as   *)
(* they were started, so the reachable states are those of each service    *)
(* by itself and every property is checked on the service it is about.     *)
EXTENDS AcpChannel, AcpPermission, PlotHistory, Projects, Export, CodeBlocks,
        EditText, FileTree, AgentSetup, Settings

VARIABLE service

Services == {"channel", "permission", "plots", "projects", "export", "code", "edits", "files", "agent setup", "settings"}

servicesVars == <<service, channelVars, permissionVars, plotVars, projectVars, exportVars, codeVars, editVars, treeVars,
                  setupVars, settingsVars>>

-----------------------------------------------------------------------------
(* The services' constants.                                                *)

CONSTANTS m1, m2, c1, c2, r1, r2, r3, t1, t2

\* Two messages of one conversation, or of two; both asked by one socket.
MCPlacements == {m1 :> c1 @@ m2 :> c1, m1 :> c1 @@ m2 :> c2}
MCAsker == [m \in Messages |-> CHOOSE s \in Sockets : TRUE]

\* Two requests of one tool call, for different kinds, and one of another call; the second
\* cannot be rejected.
MCCallOf == r1 :> t1 @@ r2 :> t1 @@ r3 :> t2
MCKeyOf == r1 :> "read" @@ r2 :> "write" @@ r3 :> "write"
MCOptionsOf == r1 :> {"allow_once", "allow_always", "reject_always"}
               @@ r2 :> {"allow_once", "allow_always"} @@ r3 :> {"allow_once"}

RunEvent(time, actor, doc, blocks, output, error, plots) ==
    [created |-> time, triggered |-> 1, actor |-> actor, source |-> "cell", document |-> doc,
     blocks |-> blocks, output |-> output, error |-> error, plots |-> plots,
     r_version |-> "4.4"]
MCExportEvents ==
    {RunEvent(2, "user", "script", <<{"x"}, {"y"}>>, 4, NoValue, <<"image">>),
     RunEvent(1, "ai", "script", <<>>, 0, 3, <<>>),
     RunEvent(1, "ai", NoValue, <<{"x"}>>, 1, NoValue, <<"broken", "image">>)}
AllShown == [show_actor |-> TRUE, include_outputs |-> TRUE, include_errors |-> TRUE,
             embed_plots |-> TRUE, include_summary |-> TRUE]
MCTrimming == [head_lines |-> 1, tail_lines |-> 1, max_lines |-> 2]
FullRequest == [mode |-> "timeline", format |-> "pdf", code_folding |-> NoValue, pdf |-> NoValue,
            truncation |-> NoValue, options |-> AllShown]
MCExportRequests ==
    {FullRequest, [FullRequest EXCEPT !.mode = "document"], [FullRequest EXCEPT !.format = "html"],
     [FullRequest EXCEPT !.pdf = [include_source |-> FALSE, toc |-> TRUE],
                     !.truncation = [head_lines |-> 3, tail_lines |-> 1, max_lines |-> 2]],
     [FullRequest EXCEPT !.format = "rmarkdown", !.code_folding = "hide",
                     !.pdf = [include_source |-> FALSE, toc |-> TRUE],
                     !.options.embed_plots = FALSE, !.options.include_summary = FALSE],
     [FullRequest EXCEPT !.mode = "document", !.format = "rmarkdown",
                     !.pdf = [include_source |-> FALSE, toc |-> FALSE]]}
MCScripts == {<<"blank", "header", "code", "bare", "blank", "header", "code", "blank">>,
              <<"code", "bare">>}

MCPieces == {<<"begin", "update file">>, <<"end">>, <<"add file", "+">>, <<"@@">>,
             <<"-", "+", "blank">>, <<"-">>, <<"code">>, <<"fence">>, <<"r fence">>,
             <<"R fence", "code">>, <<"json fence", "json">>, <<"json fence", "json list">>,
             <<"rmd fence">>, <<"section">>}

\* Two lines, the last one with or without its line feed.
MCBaseTexts == {<<"a", "nl", "b", "nl">>, <<"a", "nl", "b">>}
MCReplacements == {<<"a", "nl", "c", "nl">>, <<"b", "nl">>}
Positions == {<<1, 2>>, <<2, 1>>, <<3, 1>>, <<3, 2>>}
TextEdits == [from : Positions, to : Positions, text : {<<>>, <<"x", "nl">>}]
MCEditLists == {<<e>> : e \in TextEdits} \cup {<<e, f>> : e \in TextEdits, f \in TextEdits}

MCTrees == {<<"a">> :> "dir" @@ <<"b">> :> "file"}
MCTreePaths == {<<"a">>, <<"b">>, <<"a", "a">>}
MCNamedPaths == {<<"b">>, <<"a", "a">>}

Asset(prefix, target, length) == [prefix |-> prefix, target |-> target, length |-> length]
MCReleases == {<<Asset(TRUE, "other", 1), Asset(TRUE, "host", 2), Asset(FALSE, "host", 1)>>,
               <<Asset(TRUE, "other", 2), Asset(TRUE, "other", 1)>>, <<>>}
MCAgents == <<"claude-code-acp", "gemini">>

-----------------------------------------------------------------------------
(* The sum of the services.                                                *)

ServicesInit ==
    /\ service \in Services
    /\ ChannelInit /\ PermissionInit /\ PlotInit /\ ProjectsInit
    /\ ExportInit /\ CodeInit /\ EditInit /\ TreeInit /\ SetupInit /\ SettingsInit
    /\ service # "channel" => \A m \in Messages : mail[m].conversation = c1
    /\ service # "agent setup" => onPath = {}
    /\ service # "settings" => \A f \in AuthFiles : authFile[f].is = "absent"
    /\ service # "edits" => file = <<"a", "nl", "b">>

Channel ==
    /\ service = "channel" /\ ChannelNext
    /\ UNCHANGED <<service, permissionVars, plotVars, projectVars, exportVars, codeVars,
                   editVars, treeVars, setupVars, settingsVars>>
Permission ==
    /\ service = "permission" /\ PermissionNext
    /\ UNCHANGED <<service, channelVars, plotVars, projectVars, exportVars, codeVars,
                   editVars, treeVars, setupVars, settingsVars>>
PlotService ==
    /\ service = "plots" /\ PlotNext
    /\ UNCHANGED <<service, channelVars, permissionVars, projectVars, exportVars,
                   codeVars, editVars, treeVars, setupVars, settingsVars>>
ProjectService ==
    /\ service = "projects" /\ ProjectsNext
    /\ UNCHANGED <<service, channelVars, permissionVars, plotVars, exportVars, codeVars,
                   editVars, treeVars, setupVars, settingsVars>>
Exporter ==
    /\ service = "export" /\ ExportNext
    /\ UNCHANGED <<service, channelVars, permissionVars, plotVars, projectVars, codeVars,
                   editVars, treeVars, setupVars, settingsVars>>
CodeReader ==
    /\ service = "code" /\ CodeNext
    /\ UNCHANGED <<service, channelVars, permissionVars, plotVars, projectVars,
                   exportVars, editVars, treeVars, setupVars, settingsVars>>
Editor ==
    /\ service = "edits" /\ EditNext
    /\ UNCHANGED <<service, channelVars, permissionVars, plotVars, projectVars,
                   exportVars, codeVars, treeVars, setupVars, settingsVars>>
FileService ==
    /\ service = "files" /\ TreeNext
    /\ UNCHANGED <<service, channelVars, permissionVars, plotVars, projectVars,
                   exportVars, codeVars, editVars, setupVars, settingsVars>>
AgentChooser ==
    /\ service = "agent setup" /\ SetupNext
    /\ UNCHANGED <<service, channelVars, permissionVars, plotVars, projectVars,
                   exportVars, codeVars, editVars, treeVars, settingsVars>>
SettingsService ==
    /\ service = "settings" /\ SettingsNext
    /\ UNCHANGED <<service, channelVars, permissionVars, plotVars, projectVars,
                   exportVars, codeVars, editVars, treeVars, setupVars>>

ServicesNext ==
    \/ Channel \/ Permission \/ PlotService \/ ProjectService
    \/ Exporter \/ CodeReader \/ Editor \/ FileService
    \/ AgentChooser \/ SettingsService

ServicesSpec == ServicesInit /\ [][ServicesNext]_servicesVars
=============================================================================
