---------------------------- MODULE TimelineQueries ----------------------------
(***************************************************************************)
(* What the timeline answers when it is read: the filters, the order, the  *)
(* pages and the statistics of JsonTimeline (core/src/timeline/json.rs),   *)
(* the payloads of its queries (core/src/api/timeline.rs) and the console  *)
(* log tool of the agents (core/src/ai/tools/console.rs).                  *)
(*                                                                         *)
(* The file's records are a sequence, oldest line first.                   *)
(***************************************************************************)
EXTENDS Naturals, Sequences, FiniteSets

CONSTANTS
    DefaultLimit,   \* a query's limit when it gives none: 50
    QueryCap,       \* the largest page: 200
    ConsoleDefault, \* console entries an agent is given when it names no number: 5
    ConsoleCap,     \* the most console entries an agent is given: 20
    NoValue         \* an optional field that is not given

Actors == {"user", "ai"}
Sources == {"selection", "cell", "whole_document", "unknown"}
Orders == {"asc", "desc"}

ASSUME QueriesAssumption ==
    /\ DefaultLimit \in Nat \ {0} /\ QueryCap \in Nat \ {0}
    /\ ConsoleCap \in Nat /\ ConsoleDefault \in 1..ConsoleCap
    /\ NoValue \notin Nat \cup Orders

AtMost(n, cap) == IF n < cap THEN n ELSE cap
Given(value, default) == IF value = NoValue THEN default ELSE value

\* A record with another's fields too.
With(f, g) == [x \in DOMAIN f \cup DOMAIN g |-> IF x \in DOMAIN f THEN f[x] ELSE g[x]]

\* The members of I in order; `earlier` has those before each. (So written, and not with
\* SelectSeq and SortSeq, filters and sorts are ones that proofs can speak of.)
InOrder(I, earlier) ==
    [k \in 1..Cardinality(I) |-> CHOOSE i \in I : Cardinality(earlier[i]) = k - 1]

\* The elements of a sequence at the places K.
Chosen(s, K) ==
    LET places == InOrder(K, [i \in K |-> {j \in K : j < i}])
    IN  [k \in 1..Cardinality(K) |-> s[places[k]]]

\* create_record: what a record says of its event besides the event. The event's code is
\* the set of texts a search can find in its blocks.
create_record(event) ==
    With(event, [has_plots |-> event.plots # <<>>, has_errors |-> event.error # NoValue,
                 code_text |-> UNION {event.blocks[i] : i \in DOMAIN event.blocks}])

\* A filter is a record of the fields that are given.
Matches(record, filters) ==
    /\ "actor" \in DOMAIN filters => record.actor = filters.actor
    /\ "source" \in DOMAIN filters => record.source = filters.source
    /\ "start_time" \in DOMAIN filters => record.created >= filters.start_time
    /\ "end_time" \in DOMAIN filters => record.created <= filters.end_time
    /\ "has_plots" \in DOMAIN filters => record.has_plots = filters.has_plots
    /\ "has_errors" \in DOMAIN filters => record.has_errors = filters.has_errors
    /\ "code_contains" \in DOMAIN filters => filters.code_contains \in record.code_text

apply_filters(records, filters) ==
    Chosen(records, {i \in DOMAIN records : Matches(records[i], filters)})

\* Both sorts are stable: records of one time stay in the order of the file.
sort_records(records, order) ==
    LET Earlier(i, j) ==
            \/ order = "asc" /\ records[i].created < records[j].created
            \/ order = "desc" /\ records[i].created > records[j].created
            \/ records[i].created = records[j].created /\ i < j
        sorted == InOrder(DOMAIN records, [i \in DOMAIN records |->
                                             {j \in DOMAIN records : Earlier(j, i)}])
    IN  [k \in DOMAIN records |-> records[sorted[k]]]

\* TimelineQueryPayload::into_domain: NoValue is the error.
into_domain(payload) ==
    IF /\ payload.sort \in Orders \cup {NoValue}
       /\ "actor" \in DOMAIN payload.filters => payload.filters.actor \in Actors
       /\ "source" \in DOMAIN payload.filters => payload.filters.source \in Sources
    THEN payload
    ELSE NoValue

\* JsonTimeline::query, and the response that echoes the query.
query(records, q) ==
    LET found == sort_records(apply_filters(records, q.filters), Given(q.sort, "desc"))
        limit == AtMost(Given(q.limit, DefaultLimit), QueryCap)
        offset == Given(q.offset, 0)
    IN  [events |-> SubSeq(found, offset + 1, AtMost(offset + limit, Len(found))),
         total |-> Len(found), has_more |-> offset + limit < Len(found), query |-> q]

\* The least and the greatest of a non-empty set of times, 0 of none.
Earliest(times) == IF times = {} THEN 0 ELSE CHOOSE t \in times : \A u \in times : t <= u
Latest(times) == IF times = {} THEN 0 ELSE CHOOSE t \in times : \A u \in times : t >= u

\* JsonTimeline::stats.
stats(records) ==
    LET times == {records[i].created : i \in DOMAIN records}
    IN  [events |-> Len(records),
         plots |-> Cardinality({i \in DOMAIN records : records[i].has_plots}),
         errors |-> Cardinality({i \in DOMAIN records : records[i].has_errors}),
         user |-> Cardinality({i \in DOMAIN records : records[i].actor = "user"}),
         ai |-> Cardinality({i \in DOMAIN records : records[i].actor = "ai"}),
         duration |-> Latest(times) - Earliest(times)]

clamp_limit(limit) ==
    LET n == Given(limit, ConsoleDefault) IN IF n = 0 THEN 1 ELSE AtMost(n, ConsoleCap)

\* fetch_console_logs: the newest events, at least one and at most ConsoleCap of them.
fetch_console_logs(records, limit) ==
    query(records, [filters |-> <<>>, sort |-> "desc", offset |-> NoValue,
                    limit |-> clamp_limit(limit)]).events
=============================================================================
