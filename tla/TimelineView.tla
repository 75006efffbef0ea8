------------------------------ MODULE TimelineView ------------------------------
(***************************************************************************)
(* The timeline panel of the client, which pages through the history while *)
(* runs are recorded in it: useTimelineData.ts, timelineSlice.ts and       *)
(* socket.ts against timeline_handler.rs and the writes of                 *)
(* handlers/mod.rs.                                                        *)
(*                                                                         *)
(* A socket's task answers its requests one after the other and sends the  *)
(* broadcasts of finished runs in between, so an answer and a broadcast    *)
(* reach the client in the order in which the task handled them. An answer *)
(* names no request: the oldest request that the client waits for takes    *)
(* it. The writes succeed; what the file does otherwise is in Timeline.    *)
(***************************************************************************)
EXTENDS TimelineQueries

CONSTANTS
    NewEvents,      \* what runs may be recorded as, without their ids
    PageFilters,    \* filters the panel may be given
    PageSize,       \* events per page: 50
    MaxEvents,      \* bound: runs of the history
    MaxChanges,     \* bound: changes of the filters or the order
    MaxPageFaults   \* bound: requests that fail or are given up

ASSUME PageAssumption ==
    /\ PageSize \in 1..QueryCap /\ MaxEvents \in Nat /\ MaxChanges \in Nat
    /\ MaxPageFaults \in Nat
    /\ \A e \in NewEvents :
         /\ DOMAIN e = {"created", "actor", "source", "plots", "error", "blocks"}
         /\ e.created \in Nat
    /\ \A f \in PageFilters :
         /\ "actor" \in DOMAIN f => f.actor \in Actors
         /\ "source" \in DOMAIN f => f.source \in Sources

VARIABLES
    stored,         \* records of the timeline's file
    unfinished,     \* which of them are of runs that are not over
    live,           \* timeline_event_added events on their way to the client
    page,           \* the panel's slice of the client's store; late, how many of the oldest
                    \* requests it does not wait for any more; disturbed (ghost), whether what
                    \* it shows may differ from the history it was asked of
    pageRequests    \* requests of the panel that are not answered yet, in order

pageVars == <<stored, unfinished, live, page, pageRequests>>

Request(kind, q, offset) == [kind |-> kind, filters |-> q.filters, sort |-> q.sort,
                             limit |-> PageSize, offset |-> offset]

PageInit ==
    /\ stored = <<>>
    /\ unfinished = {}
    /\ live = <<>>
    /\ page = [shown |-> <<>>, total |-> 0, more |-> FALSE, offset |-> 0, loading |-> TRUE,
               filters |-> <<>>, sort |-> "desc", changes |-> 0, faults |-> 0,
               late |-> 0, disturbed |-> FALSE]
    /\ pageRequests = <<Request("first", [filters |-> <<>>, sort |-> "desc"], 0)>>

Ids(events) == {events[i].id : i \in DOMAIN events}

-----------------------------------------------------------------------------

Disturbed(p) == [p EXCEPT !.disturbed = TRUE]

Record(i, e) == create_record(With(e, [id |-> i]))

\* What is known of a run while it is not over has no plots.
Running(e) == [e EXCEPT !.plots = <<>>]
SameRun(e, record) ==
    e.actor = record.actor /\ e.source = record.source /\ e.blocks = record.blocks

\* create_run: no output yet.
StoreRun ==
    /\ Len(stored) < MaxEvents
    /\ \E e \in NewEvents :
           stored' = Append(stored, Record(Len(stored) + 1, [Running(e) EXCEPT !.error = NoValue]))
    /\ unfinished' = unfinished \cup {Len(stored) + 1}
    /\ page' = Disturbed(page)
    /\ UNCHANGED <<live, pageRequests>>

\* A run's record is written again, in its place.
RewriteRecord(i, e) ==
    /\ SameRun(e, stored[i])
    /\ stored' = [stored EXCEPT ![i] = Record(i, e)]
    /\ page' = Disturbed(page)
    /\ UNCHANGED pageRequests

\* update_run: what the run has put out on stderr is its error so far.
UpdateRun == \E i \in unfinished, e \in NewEvents :
    /\ e.created = stored[i].created
    /\ RewriteRecord(i, Running(e))
    /\ UNCHANGED <<unfinished, live>>

\* finish_run: created_at_ms becomes the time of the end. Then TimelineEventAdded, but not
\* for a run that the executor could not do.
FinishRun == \E i \in unfinished, e \in NewEvents :
    /\ e.created >= stored[i].created
    /\ RewriteRecord(i, e)
    /\ unfinished' = unfinished \ {i}
    /\ \/ live' = Append(live, Record(i, e))
       \/ e.error # NoValue /\ e.plots = <<>> /\ UNCHANGED live

\* matchesTimelineFilters, for the filters it reads differently.
ShownLive(record, filters) ==
    /\ "actor" \in DOMAIN filters => record.actor = filters.actor
    /\ "has_errors" \in DOMAIN filters /\ filters.has_errors => record.has_errors

\* addEvent: a live event joins one end of the list, which loses the other end when it is
\* longer than a page; its offset stays.
addEvent(p, event) ==
    IF event.id \in Ids(p.shown)
    THEN p
    ELSE LET longer == IF p.sort = "asc" THEN Append(p.shown, event) ELSE <<event>> \o p.shown
             n == Len(longer)
         IN  [p EXCEPT !.shown = IF n <= PageSize THEN longer
                                 ELSE IF p.sort = "asc" THEN SubSeq(longer, n - PageSize + 1, n)
                                 ELSE SubSeq(longer, 1, PageSize),
                       !.total = @ + 1, !.disturbed = TRUE]

\* timeline_event_added.
LiveEvent ==
    /\ live # <<>>
    /\ live' = Tail(live)
    /\ page' = IF ShownLive(Head(live), page.filters) THEN addEvent(page, Head(live)) ELSE page
    /\ UNCHANGED <<stored, unfinished, pageRequests>>

\* A socket that lags behind the broadcast loses the oldest event.
LoseLive ==
    /\ live # <<>>
    /\ live' = Tail(live)
    /\ UNCHANGED <<stored, unfinished, page, pageRequests>>

-----------------------------------------------------------------------------

\* setEvents.
setEvents(p, response) ==
    [p EXCEPT !.shown = response.events, !.total = response.total, !.more = response.has_more,
              !.offset = Len(response.events), !.loading = FALSE, !.disturbed = FALSE]

\* Mutant: an event that is shown already is shown again.
appendAll(p, response) ==
    LET merged == p.shown \o response.events
    IN  [p EXCEPT !.shown = merged, !.total = response.total, !.more = response.has_more,
                  !.offset = Len(merged), !.loading = FALSE]

\* appendEvents: without those that are shown.
appendEvents(p, response) ==
    LET new == Chosen(response.events,
                      {i \in DOMAIN response.events : response.events[i].id \notin Ids(p.shown)})
        merged == p.shown \o new
    IN  [p EXCEPT !.shown = merged, !.total = response.total, !.more = response.has_more,
                  !.offset = Len(merged), !.loading = FALSE]

\* The effect of the hook that asks for more when the offset changed.
Settle(p, rest) ==
    LET again == p.offset # page.offset /\ p.offset # 0
    IN  /\ page' = [p EXCEPT !.loading = @ \/ again]
        /\ pageRequests' = IF again THEN Append(rest, Request("more", p, p.offset)) ELSE rest

Waits == page.late < Len(pageRequests)
\* The oldest request that the client waits for.
Waiting == pageRequests[page.late + 1]

\* The client gives up the oldest request it waits for.
GivenUp(p) == [p EXCEPT !.loading = FALSE, !.disturbed = TRUE, !.faults = @ + 1]

\* The server has answered its first request; Waiting takes the answer, as one for the query
\* of the panel by now.
Answered ==
    /\ pageRequests # <<>>
    /\ LET q == into_domain(Head(pageRequests))
           response == query(stored, q)
       IN  \/ /\ Waits /\ Waiting.kind = "first"
              /\ Settle([setEvents(page, response) EXCEPT
                            !.disturbed = page.late > 0 \/ q.filters # page.filters
                                            \/ q.sort # page.sort],
                        Tail(pageRequests))
           \/ /\ Waits /\ Waiting.kind = "more"
              /\ Settle(appendEvents(page, response), Tail(pageRequests))
           \/ /\ ~Waits
              /\ page' = [page EXCEPT !.late = @ - 1]
              /\ pageRequests' = Tail(pageRequests)
    /\ UNCHANGED <<stored, unfinished, live>>

\* The file could not be read: the error message is Waiting's answer.
AnsweredWithError ==
    /\ pageRequests # <<>> /\ Waits
    /\ page.faults < MaxPageFaults
    /\ page' = GivenUp(page)
    /\ pageRequests' = Tail(pageRequests)
    /\ UNCHANGED <<stored, unfinished, live>>

\* Ten seconds are over, or the error message of another request is taken for Waiting's.
GiveUpRequest ==
    /\ Waits
    /\ page.faults < MaxPageFaults
    /\ page' = [GivenUp(page) EXCEPT !.late = @ + 1]
    /\ UNCHANGED <<stored, unfinished, live, pageRequests>>

\* loadMore, which the panel offers when it is not loading and there is more.
loadMore ==
    /\ page.more /\ ~page.loading
    /\ Settle([page EXCEPT !.offset = @ + PageSize], pageRequests)
    /\ UNCHANGED <<stored, unfinished, live>>

\* setFilters and setSort, and the hook's first request with the new query.
ChangeQuery ==
    /\ page.changes < MaxChanges
    /\ \E f \in PageFilters, s \in Orders :
           /\ f # page.filters \/ s # page.sort
           /\ page' = [page EXCEPT !.filters = f, !.sort = s, !.offset = 0, !.loading = TRUE,
                                   !.changes = @ + 1, !.disturbed = TRUE]
           /\ pageRequests' = Append(pageRequests, Request("first", [filters |-> f, sort |-> s], 0))
    /\ UNCHANGED <<stored, unfinished, live>>

PageNext ==
    \/ StoreRun \/ UpdateRun \/ FinishRun \/ LiveEvent \/ LoseLive
    \/ Answered \/ AnsweredWithError \/ GiveUpRequest \/ loadMore \/ ChangeQuery

PageSpec == PageInit /\ [][PageNext]_pageVars

-----------------------------------------------------------------------------
(* Properties.                                                             *)

NoneTwice(events) == Cardinality(Ids(events)) = Len(events)

\* timelineSlice.ts, appendEvents, socket.ts, sendAndWait, and json.rs, query: whatever is
\* recorded, rewritten, requested again, answered late or given up, no run is shown twice;
\* and when all requests are answered, and since the first page of the present query the
\* history has not changed and no request was given up, exactly the runs of the history that
\* match are shown, each as it is recorded. The console log tool reads the newest of the
\* same history, and the statistics count what queries would find.
PagesShowTheHistory ==
    /\ NoneTwice(page.shown)
    /\ pageRequests = <<>> /\ ~page.disturbed =>
           /\ Ids(page.shown) = Ids(apply_filters(stored, page.filters))
           /\ \A i \in DOMAIN page.shown : page.shown[i] = stored[page.shown[i].id]
    /\ LET logs == fetch_console_logs(stored, NoValue)
       IN  \A i \in DOMAIN logs : logs[i] = sort_records(stored, "desc")[i]
    /\ \A filters \in {[actor |-> "user"], [actor |-> "ai"]} :
           Len(apply_filters(stored, filters)) =
               IF filters.actor = "user" THEN stats(stored).user ELSE stats(stored).ai
    /\ Len(apply_filters(stored, [has_errors |-> TRUE])) = stats(stored).errors
=============================================================================
