------------------------------ MODULE PlotHistory ------------------------------
(***************************************************************************)
(* The plots of a project: PlotHistoryManager (plot_history/mod.rs), the   *)
(* handlers of the socket (plot_history_handler.rs) and the plots a run    *)
(* adds (finalize_plots in graphics/plot_capture.rs).                      *)
(*                                                                         *)
(* The manager is behind a mutex, so its operations do not interleave, but *)
(* each touches images and plots.json one after the other, every write may *)
(* fail, and the server may be killed between two of them.                 *)
(***************************************************************************)
EXTENDS Naturals, Sequences, SequencesExt, FiniteSets

CONSTANTS
    Plots,      \* plot ids; every add_plot of a run has a new one
    MaxPlots,   \* max_plots
    MaxFaults   \* bound: writes that fail, and kills

ASSUME PlotAssumption == MaxPlots \in Nat \ {0} /\ MaxFaults \in Nat

NoPlots == [plots |-> <<>>, active |-> 0]
Torn == [file |-> "torn", holds |-> NoPlots]

VARIABLES
    history,    \* the manager's plots, oldest first, and the index of the active one or 0
    images,     \* the plots whose image file exists
    plotsJson,  \* plots.json: "missing", "torn" or "whole", and the history it holds
    operation,  \* what the manager is doing: [kind, plot]; "down" if there is no manager
    unusedPlots,
    removed,    \* history: plots whose removal was answered with success
    faults

plotVars == <<history, images, plotsJson, operation, unusedPlots, removed, faults>>

Nothing == [kind |-> "none", plot |-> {}]

PlotInit ==
    /\ history = NoPlots
    /\ images = {}
    /\ plotsJson = [file |-> "missing", holds |-> NoPlots]
    /\ operation = Nothing
    /\ unusedPlots = Plots
    /\ removed = {}
    /\ faults = 0

-----------------------------------------------------------------------------

NoOperation == operation.kind = "none"
Saving(plots) == operation' = [kind |-> "save", plot |-> plots]
Fault == faults < MaxFaults /\ faults' = faults + 1

active_plot_id(h) == IF h.active = 0 THEN {} ELSE {h.plots[h.active]}

\* restore_state keeps, in their order, the plots whose image exists, and the active one if
\* it is among them.
Restored(json) ==
    LET place(p) == CHOOSE i \in DOMAIN json.plots : json.plots[i] = p
        kept == CHOOSE s \in SetToSeqs(ToSet(json.plots) \cap images) :
                    \A i, j \in DOMAIN s : i < j => place(s[i]) < place(s[j])
        actives == {i \in DOMAIN kept : {kept[i]} = active_plot_id(json)}
    IN  [plots |-> kept,
         active |-> IF actives = {} THEN 0 ELSE CHOOSE i \in actives : TRUE]

\* remove_file ignores errors.
RemoveImages(plots) == images' \in {images \ plots, images}

-----------------------------------------------------------------------------
(* Operations.                                                             *)

\* finalize_plots calls add_plot for each plot a run drew: its image is written. Which
\* of the unused ids it gets makes no difference.
NewPlot(p) == unusedPlots # {} /\ p = CHOOSE q \in unusedPlots : TRUE

WriteImage(p) ==
    /\ NoOperation
    /\ NewPlot(p)
    /\ unusedPlots' = unusedPlots \ {p}
    /\ images' = images \cup {p}
    /\ operation' = [kind |-> "push", plot |-> {p}]
    /\ UNCHANGED <<history, plotsJson, removed, faults>>

\* The image or the snapshot cannot be written: add_plot and the run fail, and what
\* was written stays.
WriteImageFails(p) ==
    /\ NoOperation
    /\ Fault
    /\ NewPlot(p)
    /\ unusedPlots' = unusedPlots \ {p}
    /\ images' \in {images, images \cup {p}}
    /\ UNCHANGED <<history, plotsJson, operation, removed>>

\* It becomes the newest and the active plot; beyond the limit the oldest goes.
PushPlot ==
    /\ operation.kind = "push"
    /\ \E p \in operation.plot :
        LET pushed == Append(history.plots, p)
            evict == Len(pushed) > MaxPlots
            plots == IF evict THEN Tail(pushed) ELSE pushed
        IN  /\ history' = [plots |-> plots, active |-> Len(plots)]
            /\ IF evict THEN RemoveImages({Head(pushed)}) ELSE UNCHANGED images
            /\ Saving(IF evict THEN {Head(pushed)} ELSE {})
    /\ UNCHANGED <<plotsJson, unusedPlots, removed, faults>>

\* Nothing is saved when the plot is unknown.
set_active_plot(p) ==
    /\ NoOperation
    /\ \E i \in DOMAIN history.plots :
        /\ history.plots[i] = p
        /\ history' = [history EXCEPT !.active = i]
    /\ Saving({})
    /\ UNCHANGED <<images, plotsJson, unusedPlots, removed, faults>>

\* Mutant: the index of the active plot is left alone when an earlier plot goes.
delete_plot_before(p) ==
    /\ NoOperation
    /\ \E pos \in DOMAIN history.plots :
        /\ history.plots[pos] = p
        /\ LET left == RemoveAt(history.plots, pos)
           IN  history' = [plots |-> left,
                           active |-> IF history.active > Len(left) THEN Len(left)
                                      ELSE history.active]
    /\ RemoveImages({p})
    /\ Saving({p})
    /\ UNCHANGED <<plotsJson, unusedPlots, removed, faults>>

\* The active index moves with its plot; when the active plot itself goes, its
\* successor, or the last one, is active.
delete_plot(p) ==
    /\ NoOperation
    /\ \E pos \in DOMAIN history.plots :
        /\ history.plots[pos] = p
        /\ LET left == RemoveAt(history.plots, pos)
           IN  history' = [plots |-> left,
                           active |-> IF pos < history.active THEN history.active - 1
                                      ELSE IF pos = history.active
                                      THEN IF pos <= Len(left) THEN pos ELSE Len(left)
                                      ELSE history.active]
    /\ RemoveImages({p})
    /\ Saving({p})
    /\ UNCHANGED <<plotsJson, unusedPlots, removed, faults>>

\* clear_all removes the images one after the other ...
ClearAll ==
    /\ NoOperation
    /\ operation' = [kind |-> "clear", plot |-> ToSet(history.plots)]
    /\ UNCHANGED <<history, images, plotsJson, unusedPlots, removed, faults>>

ClearImage ==
    /\ operation.kind = "clear"
    /\ \E p \in operation.plot :
        /\ RemoveImages({p})
        /\ operation' = [operation EXCEPT !.plot = @ \ {p}]
    /\ UNCHANGED <<history, plotsJson, unusedPlots, removed, faults>>

\* ... and then forgets the plots.
ClearPlots ==
    /\ operation = [kind |-> "clear", plot |-> {}]
    /\ history' = NoPlots
    /\ Saving(ToSet(history.plots))
    /\ UNCHANGED <<images, plotsJson, unusedPlots, removed, faults>>

\* plot_history_save.
SaveHistory ==
    /\ NoOperation
    /\ Saving({})
    /\ UNCHANGED <<history, images, plotsJson, unusedPlots, removed, faults>>

\* save_state ends every change: plots.json is replaced, and the client is told.
save_state ==
    /\ operation.kind = "save"
    /\ plotsJson' = [file |-> "whole", holds |-> history]
    /\ removed' = removed \cup operation.plot
    /\ operation' = Nothing
    /\ UNCHANGED <<history, images, unusedPlots, faults>>

\* Mutant: a save that failed is answered like one that did not.
SaveFailsSilently ==
    /\ operation.kind = "save"
    /\ Fault
    /\ removed' = removed \cup operation.plot
    /\ operation' = Nothing
    /\ UNCHANGED <<history, images, plotsJson, unusedPlots>>

\* plots.json cannot be written, or only in part: an error is answered, what changed
\* stays changed.
SaveFails ==
    /\ operation.kind = "save"
    /\ Fault
    /\ plotsJson' \in {plotsJson, Torn}
    /\ operation' = Nothing
    /\ UNCHANGED <<history, images, unusedPlots, removed>>

\* Mutant: plots.json is believed, whatever became of the images.
restore_unchecked ==
    /\ NoOperation
    /\ plotsJson.file = "whole"
    /\ history' = plotsJson.holds
    /\ UNCHANGED <<images, plotsJson, operation, unusedPlots, removed, faults>>

\* plot_history_restore: the manager goes back to what is saved.  Without a file, or
\* with one that cannot be parsed, it stays as it is.
restore_state ==
    /\ NoOperation
    /\ plotsJson.file = "whole"
    /\ history' = Restored(plotsJson.holds)
    /\ UNCHANGED <<images, plotsJson, operation, unusedPlots, removed, faults>>

\* The server is killed; fs::write may have emptied plots.json and no more.
Kill ==
    /\ operation.kind # "down"
    /\ Fault
    /\ plotsJson' \in IF operation.kind = "save" THEN {plotsJson, Torn} ELSE {plotsJson}
    /\ history' = NoPlots
    /\ operation' = [kind |-> "down", plot |-> {}]
    /\ UNCHANGED <<images, unusedPlots, removed>>

\* PlotHistoryManager::with_max; it fails, and with it the project's runtime, when
\* plots.json is torn.
OpenHistory ==
    /\ operation.kind = "down"
    /\ plotsJson.file # "torn"
    /\ history' = Restored(plotsJson.holds)
    /\ operation' = Nothing
    /\ UNCHANGED <<images, plotsJson, unusedPlots, removed, faults>>

PlotNext ==
    \/ \E p \in Plots :
        WriteImage(p) \/ WriteImageFails(p) \/ set_active_plot(p) \/ delete_plot(p)
    \/ PushPlot \/ ClearAll \/ ClearImage \/ ClearPlots \/ SaveHistory
    \/ save_state \/ SaveFails \/ restore_state
    \/ Kill \/ OpenHistory

PlotSpec == PlotInit /\ [][PlotNext]_plotVars

-----------------------------------------------------------------------------
(* Properties.                                                             *)

\* Type invariant.  Unless plots are being cleared, every listed plot has its image:
\* one that has not makes snapshot, and with it every request about plots, fail.
PlotTypeOK ==
    /\ history.plots \in Seq(Plots)
    /\ Len(history.plots) <= MaxPlots
    /\ IsInjective(history.plots)
    /\ history.active \in 0..Len(history.plots)
    /\ images \subseteq Plots
    /\ operation.kind \in {"none", "push", "save", "clear", "down"}
    /\ operation.plot \subseteq Plots
    /\ plotsJson.file \in {"missing", "torn", "whole"}
    /\ unusedPlots \subseteq Plots
    /\ operation.kind # "clear" => ToSet(history.plots) \subseteq images

\* plot_history/mod.rs, delete_plot: a change that only takes plots out leaves the active
\* plot active if it is still there, wherever in the list the others were.
ActivePlotStays ==
    [][ /\ operation'.kind = "save"
        /\ ToSet(history'.plots) \subseteq ToSet(history.plots)
        /\ history'.plots # history.plots
        /\ active_plot_id(history) \subseteq ToSet(history'.plots)
        => active_plot_id(history') = active_plot_id(history) ]_plotVars

\* plot_history/mod.rs, remove_file, save_state: a plot whose deletion, eviction or
\* clearing was answered with success is never listed again, whatever fails later and
\* whenever the server is killed.
RemovedStaysRemoved == ToSet(history.plots) \cap removed = {}
=============================================================================
