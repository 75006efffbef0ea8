--------------------------------- MODULE Export ---------------------------------
(***************************************************************************)
(* Exports of the history: the document of a timeline or of a script       *)
(* (server/src/handlers/export_handler.rs, core/src/export/rmarkdown.rs)   *)
(* and the reproduction bundle with its archive and validation script      *)
(* (core/src/export/bundle.rs, writer.rs, scripts.rs).                     *)
(*                                                                         *)
(* A document is the sequence of its parts: headings, code chunks, trimmed *)
(* outputs and errors, links to plots, the summary. An export reads the    *)
(* timeline once and is then written while events go on being recorded and *)
(* plots being deleted.                                                    *)
(***************************************************************************)
EXTENDS TimelineQueries, SequencesExt

CONSTANTS
    ExportLimit,    \* the limit of an export's query: 10_000
    ExportEvents,   \* events that may be recorded, without ids; of a plot, what its data are
    ExportRequests, \* ExportRMarkdownRequests a client may send
    DefaultTrimming,\* head, tail and most lines of a text when a request has no truncation
    Scripts,        \* documents that may be exported: sequences of kinds of lines
    MaxRecorded     \* bound: events of the history

Options == {"show_actor", "include_outputs", "include_errors", "embed_plots", "include_summary"}
Trimmings == [head_lines : Nat, tail_lines : Nat, max_lines : Nat]

ASSUME ExportAssumption ==
    /\ ExportLimit \in Nat /\ ExportLimit >= QueryCap /\ MaxRecorded \in Nat
    /\ DefaultTrimming \in Trimmings
    /\ \A request \in ExportRequests :
         /\ request.options \in [Options -> BOOLEAN]
         /\ request.truncation \in Trimmings \cup {NoValue}
         /\ request.pdf \in [include_source : BOOLEAN, toc : BOOLEAN] \cup {NoValue}
    /\ \A e \in ExportEvents :
         /\ DOMAIN e = {"created", "triggered", "actor", "source", "document", "blocks",
                       "output", "error", "plots", "r_version"}
         /\ e.created \in Nat /\ e.actor \in Actors
         /\ e.output \in Nat /\ e.error \in Nat \cup {NoValue}
         /\ e.blocks \in Seq(SUBSET STRING) /\ e.plots \in Seq({"image", "broken", "empty"})
    /\ Scripts \subseteq Seq({"header", "bare", "code", "blank"})

VARIABLES
    recorded,   \* records of the timeline's file
    pictures,     \* plot files in the project's folder
    job,        \* the export that is under way
    document,   \* the exported document
    archive     \* the bundle's metadata and the files of its archive

exportVars == <<recorded, pictures, job, document, archive>>

NoJob == [step |-> "idle"]
NoDocument == [kind |-> "none"]
NoArchive == [kind |-> "none"]

ExportInit ==
    /\ recorded = <<>> /\ pictures = {}
    /\ job = NoJob /\ document = NoDocument /\ archive = NoArchive

-----------------------------------------------------------------------------
(* The request and its options.                                            *)

\* Whether a request's fields are among those the server knows.
WellFormed(request) ==
    /\ request.mode \in {"timeline", "document"} /\ request.format \in {"rmarkdown", "pdf"}
    /\ request.code_folding \in {"show", "hide", NoValue}

\* ExportRMarkdownRequest::into_options: NoValue is the error. The PDF's options decide for
\* both formats whether the code is shown.
into_options(request) ==
    IF WellFormed(request)
    THEN With(With(request.options, Given(request.truncation, DefaultTrimming)),
              [show_code |-> request.pdf = NoValue \/ request.pdf.include_source,
               code_folding |-> Given(request.code_folding, "show")])
    ELSE NoValue

\* PdfRenderOptions::default.
pdf_options(request) == Given(request.pdf, [include_source |-> TRUE, toc |-> TRUE])

-----------------------------------------------------------------------------
(* RMarkdownGenerator.                                                     *)

\* Mutant: the lines of the tail are counted as skipped too.
trim_output_miscounted(total, options) ==
    LET head == AtMost(options.head_lines, total)
        tail == AtMost(options.tail_lines, total - head)
    IN  IF total <= options.max_lines \/ head + tail >= total
        THEN [head |-> total, skipped |-> 0, tail |-> 0]
        ELSE [head |-> head, skipped |-> total - head, tail |-> tail]

\* trim_output: how many of the lines of a text are shown and skipped.
trim_output(total, options) ==
    LET head == AtMost(options.head_lines, total)
        tail == AtMost(options.tail_lines, total - head)
    IN  IF total <= options.max_lines \/ head + tail >= total
        THEN [head |-> total, skipped |-> 0, tail |-> 0]
        ELSE [head |-> head, skipped |-> total - (head + tail), tail |-> tail]

PartIf(condition, part) == IF condition THEN <<part>> ELSE <<>>

\* The YAML header of a document.
yaml_header(options) == <<[kind |-> "yaml", code_folding |-> options.code_folding]>>

\* chunk_header: a chunk without an echo option of its own follows the renderer's.
chunk_header(chunk, options) ==
    With(chunk, [echo |-> IF options.show_code THEN NoValue ELSE FALSE, eval |-> FALSE])

\* format_event: the section of one event.
format_event(event, options) ==
    <<[kind |-> "heading", event |-> event.id,
       actor |-> IF options.show_actor THEN event.actor ELSE NoValue]>>
    \o [b \in DOMAIN event.blocks |->
            chunk_header([kind |-> "code", event |-> event.id, block |-> b], options)]
    \o PartIf(options.include_outputs /\ event.output > 0,
              [kind |-> "output", event |-> event.id, text |-> trim_output(event.output, options)])
    \o PartIf(options.include_errors /\ event.error # NoValue,
              [kind |-> "error", event |-> event.id, text |-> trim_output(event.error, options)])
    \o (IF options.embed_plots
        THEN [p \in DOMAIN event.plots |->
                [kind |-> "plot", event |-> event.id, file |-> event.plots[p].file, prefixes |-> 0]]
        ELSE <<>>)

\* The plots of all events, in order.
PlotsOf(events) == FlattenSeq([i \in DOMAIN events |-> events[i].plots])

\* calculate_statistics.
calculate_statistics(events) ==
    [executions |-> Len(events),
     user |-> Cardinality({i \in DOMAIN events : events[i].actor = "user"}),
     ai |-> Cardinality({i \in DOMAIN events : events[i].actor = "ai"}),
     plots |-> Len(PlotsOf(events)),
     errors |-> Cardinality({i \in DOMAIN events : events[i].error # NoValue}),
     documents |-> Cardinality({events[i].document : i \in DOMAIN events} \ {NoValue})]

\* calculate_session_info: the duration.
session_duration(events) ==
    LET ends == Latest({events[i].created : i \in DOMAIN events})
        begins == Earliest({events[i].triggered : i \in DOMAIN events})
    IN  IF ends >= begins THEN ends - begins ELSE 0

\* collect_file_references.
code_files(events) == {<<"code", events[i].document>> :
                            i \in {j \in DOMAIN events : events[j].document # NoValue}}
plot_files(events) ==
    UNION {{<<"plots", events[i].id, p>> : p \in DOMAIN events[i].plots} : i \in DOMAIN events}

\* BundleMetadata::new.
NewMetadata ==
    [duration |-> 0, r_version |-> NoValue, references |-> {},
     statistics |-> [executions |-> 0, user |-> 0, ai |-> 0, plots |-> 0, errors |-> 0,
                     documents |-> 0]]

\* ReproductionBundle::from_events: the environment is the one of the first event.
from_events(events) ==
    [events |-> events,
     metadata |-> IF events = <<>> THEN NewMetadata
                  ELSE [duration |-> session_duration(events),
                        r_version |-> Head(events).r_version,
                        references |-> code_files(events) \cup plot_files(events),
                        statistics |-> calculate_statistics(events)]]

\* generate_summary.
generate_summary(metadata) ==
    [kind |-> "summary", statistics |-> metadata.statistics, duration |-> metadata.duration]

\* from_timeline.
from_timeline(bundle, options) ==
    yaml_header(options) \o <<[kind |-> "session", duration |-> bundle.metadata.duration]>>
    \o FlattenSeq([i \in DOMAIN bundle.events |-> format_event(bundle.events[i], options)])
    \o PartIf(options.include_summary, generate_summary(bundle.metadata))

\* extract_code_chunks: a line with a section marker ends the chunk before it, unless that
\* is blank, and becomes a heading, unless it has no title.
extract_code_chunks(lines, options) ==
    LET Flush(a) == IF \E i \in DOMAIN a.section : lines[a.section[i]] # "blank"
                    THEN [section |-> <<>>,
                          parts |-> Append(a.parts, chunk_header(
                                        [kind |-> "chunk", lines |-> a.section], options))]
                    ELSE a
        Line(a, i) == CASE lines[i] = "header" ->
                               [Flush(a) EXCEPT !.parts = Append(@, [kind |-> "title", line |-> i])]
                        [] lines[i] = "bare" -> Flush(a)
                        [] OTHER -> [a EXCEPT !.section = Append(@, i)]
        after[i \in 0..Len(lines)] == IF i = 0 THEN [section |-> <<>>, parts |-> <<>>]
                                     ELSE Line(after[i - 1], i)
    IN  Flush(after[Len(lines)]).parts

\* from_document.
from_document(lines, options) == yaml_header(options) \o extract_code_chunks(lines, options)

-----------------------------------------------------------------------------
(* The export of a document.                                               *)

\* The record of a run's event; the files of its plots have names of their own.
Recorded(e, id) ==
    LET plots == [p \in DOMAIN e.plots |-> [file |-> <<id, p>>, data |-> e.plots[p]]]
    IN  create_record(With([e EXCEPT !.plots = plots], [id |-> id]))

RecordRun ==
    /\ Len(recorded) < MaxRecorded
    /\ \E e \in ExportEvents : recorded' = Append(recorded, Recorded(e, Len(recorded) + 1))
    /\ UNCHANGED <<pictures, job, document, archive>>

\* A plot that is deleted from the history loses its file.
DeleteImage ==
    /\ \E f \in pictures : pictures' = pictures \ {f}
    /\ UNCHANGED <<recorded, job, document, archive>>

\* process_export_request in timeline mode: the query, the bundle and the document's text.
ReadTimeline ==
    /\ job = NoJob
    /\ \E request \in ExportRequests :
         LET options == into_options(request)
             response == query(recorded, [filters |-> <<>>, sort |-> "asc", offset |-> NoValue,
                                          limit |-> ExportLimit])
         IN  /\ options # NoValue /\ request.mode = "timeline"
             /\ job' = [step |-> IF request.format = "pdf" /\ options.embed_plots
                                THEN "plots" ELSE request.format,
                        kind |-> "timeline", request |-> request,
                        events |-> response.events, asof |-> Len(recorded),
                        todo |-> PlotsOf(response.events),
                        parts |-> from_timeline(from_events(response.events), options)]
    /\ UNCHANGED <<recorded, pictures, document, archive>>

\* ... and in document mode: a script that cannot be read ends the export.
ReadDocument ==
    /\ job = NoJob
    /\ \E request \in ExportRequests, script \in Scripts :
         LET options == into_options(request)
         IN  /\ options # NoValue /\ request.mode = "document"
             /\ job' = [step |-> request.format, kind |-> "document", request |-> request,
                        script |-> script, parts |-> from_document(script, options)]
    /\ UNCHANGED <<recorded, pictures, document, archive>>

\* materialize_plots writes the image of every plot into the project's folder, one after
\* the other; one that does not decode ends the export.
materialize_plots ==
    /\ job.step = "plots" /\ job.todo # <<>>
    /\ LET plot == Head(job.todo)
       IN  IF plot.data = "image"
           THEN pictures' = pictures \cup {plot.file} /\ job' = [job EXCEPT !.todo = Tail(@)]
           ELSE job' = NoJob /\ UNCHANGED pictures
    /\ UNCHANGED <<recorded, document, archive>>

\* Then the links are made absolute: for each plot, everywhere its file's name occurs.
absolute_links(parts, events) ==
    LET Named(file) == UNION {{<<i, p>> : p \in {q \in DOMAIN events[i].plots :
                                                events[i].plots[q].file = file}} :
                              i \in DOMAIN events}
    IN  [i \in DOMAIN parts |->
            IF parts[i].kind = "plot"
            THEN [parts[i] EXCEPT !.prefixes = Cardinality(Named(parts[i].file))]
            ELSE parts[i]]

RewriteLinks ==
    /\ job.step = "plots" /\ job.todo = <<>>
    /\ job' = [job EXCEPT !.step = "pdf", !.parts = absolute_links(@, job.events)]
    /\ UNCHANGED <<recorded, pictures, document, archive>>

\* fs::write: the old document is gone once the file is opened; a write that fails later
\* leaves a part of the new one.
WriteRMarkdown ==
    /\ job.step = "rmarkdown"
    /\ document' \in {document, [kind |-> "torn"], job}
    /\ job' = NoJob
    /\ UNCHANGED <<recorded, pictures, archive>>

\* build_pdf_render_script: the chunks' default is the request's; no chunk is evaluated.
build_pdf_render_script(parts, options) ==
    [i \in DOMAIN parts |-> IF "echo" \in DOMAIN parts[i]
                            THEN [parts[i] EXCEPT !.echo = Given(@, options.include_source)]
                            ELSE parts[i]]

\* render_pdf_document: R renders a copy of the text. Without rmarkdown or LaTeX it stops
\* before it starts; it may fail later too. The old document is then kept.
render_pdf_document ==
    /\ job.step = "pdf"
    /\ \/ document' = [job EXCEPT !.parts =
                            build_pdf_render_script(@, pdf_options(job.request))]
       \/ UNCHANGED document
    /\ job' = NoJob
    /\ UNCHANGED <<recorded, pictures, archive>>

-----------------------------------------------------------------------------
(* The reproduction bundle.                                                *)

\* validate: only what would make write_tarball refuse the bundle.
validate(events) == \A i \in DOMAIN events : \A p \in DOMAIN events[i].plots :
                        events[i].plots[p].data # "empty"

\* Mutant: the documents of all events have a file, which is what the metadata say.
extract_all_code_files(events) == code_files(events)

\* extract_code_files: the documents some block was run from.
extract_code_files(events) ==
    {<<"code", events[i].document>> :
        i \in {j \in DOMAIN events : events[j].document # NoValue /\ events[j].blocks # <<>>}}

RequiredFiles == {<<"metadata.json">>, <<"timeline.json">>, <<"README.md">>}

DecodedPlots(events) ==
    UNION {{<<"plots", events[i].id, p>> :
                p \in {q \in DOMAIN events[i].plots : events[i].plots[q].data = "image"}} :
           i \in DOMAIN events}

\* replay.R runs the first block of each event, in the order of the timeline; events
\* without a block are skipped.
replay_script(events) ==
    FlattenSeq([i \in DOMAIN events |->
                    IF events[i].blocks = <<>> THEN <<>> ELSE <<<<events[i].id, 1>>>>])

\* generate_readme: what it says of the session.
generate_readme(bundle) == bundle.metadata.statistics

\* write_tarball: a plot that does not decode is left out.
write_tarball ==
    /\ recorded # <<>>
    /\ validate(recorded)
    /\ LET bundle == from_events(recorded)
       IN  archive' = [kind |-> "bundle", events |-> recorded, metadata |-> bundle.metadata,
                       readme |-> generate_readme(bundle), replay |-> replay_script(recorded),
                       files |-> RequiredFiles \cup {<<"validate.sh">>, <<"replay.R">>}
                                 \cup extract_code_files(recorded)
                                 \cup DecodedPlots(recorded)]
    /\ archive' # archive
    /\ UNCHANGED <<recorded, pictures, job, document>>

\* validate.sh, run in the unpacked archive.
validate_script(a) == RequiredFiles \cup a.metadata.references \subseteq a.files

ExportNext ==
    \/ RecordRun \/ DeleteImage \/ ReadTimeline \/ ReadDocument
    \/ materialize_plots \/ RewriteLinks \/ WriteRMarkdown \/ render_pdf_document
    \/ write_tarball

ExportSpec == ExportInit /\ [][ExportNext]_exportVars

-----------------------------------------------------------------------------
(* Properties.                                                             *)

\* The events a document has headings for, the blocks in its chunks, the lines of a script
\* that are in them, and those that are code.
HeadingsIn(parts) ==
    FlattenSeq([i \in DOMAIN parts |-> PartIf(parts[i].kind = "heading", parts[i].event)])
BlocksIn(parts) ==
    FlattenSeq([i \in DOMAIN parts |->
                    PartIf(parts[i].kind = "code", <<parts[i].event, parts[i].block>>)])
ScriptLinesIn(parts) ==
    FlattenSeq([i \in DOMAIN parts |-> IF parts[i].kind = "chunk" THEN parts[i].lines ELSE <<>>])
CodeOf(script, numbers) ==
    FlattenSeq([i \in DOMAIN numbers |-> PartIf(script[numbers[i]] = "code", numbers[i])])

\* rmarkdown.rs, format_event, trim_output and extract_code_chunks: a document tells all
\* that the timeline held when it was read, up to what one query returns, each event once, in
\* the order of execution, with its blocks; of a trimmed text the lines that
\* are shown and those that are said to be skipped are all its lines; its summary agrees
\* with the statistics of the timeline; a script's lines of code are all in its chunks, in
\* order; in a PDF each link to a plot is one absolute path and the code is shown unless
\* the request left the source out; no chunk is run again.
DocumentTellsTheRuns ==
    /\ document.kind = "timeline" =>
        LET events == document.events
            parts == document.parts
        IN  /\ document.asof <= QueryCap => {events[i].id : i \in DOMAIN events} = 1..document.asof
            /\ \A i, j \in DOMAIN events : i < j => /\ events[i].created <= events[j].created
                                                   /\ events[i].id # events[j].id
            /\ HeadingsIn(parts) = [i \in DOMAIN events |-> events[i].id]
            /\ BlocksIn(parts) = FlattenSeq([i \in DOMAIN events |->
                                    [b \in DOMAIN events[i].blocks |-> <<events[i].id, b>>]])
            /\ \A i \in DOMAIN parts : parts[i].kind = "output" =>
                LET text == parts[i].text
                IN  text.head + text.skipped + text.tail = recorded[parts[i].event].output
            /\ \A i \in DOMAIN parts : parts[i].kind = "summary" =>
                LET told == parts[i].statistics
                    known == stats(events)
                IN  /\ <<told.executions, told.user, told.ai, told.errors>>
                        = <<known.events, known.user, known.ai, known.errors>>
                    /\ told.user + told.ai = told.executions /\ known.plots <= told.plots
            /\ document.request.format = "pdf" =>
                \A i \in DOMAIN parts : parts[i].kind = "plot" => parts[i].prefixes = 1
    /\ document.kind = "document" =>
        CodeOf(document.script, ScriptLinesIn(document.parts))
            = CodeOf(document.script, [i \in DOMAIN document.script |-> i])
    /\ document.kind \in {"timeline", "document"} =>
        \A i \in DOMAIN document.parts : document.parts[i].kind \in {"code", "chunk"} =>
            /\ ~document.parts[i].eval
            /\ document.parts[i].echo
                \in IF document.request.format = "rmarkdown" THEN {FALSE, NoValue}
                   ELSE {pdf_options(document.request).include_source}

\* writer.rs, write_tarball against bundle.rs, collect_file_references, and scripts.rs,
\* generate_validation_script: the script accepts every archive of which each event with a
\* document ran a block of it and each plot can be decoded, and no archive that lacks one.
\* Its replay runs the code of the whole session again just when no event ran two blocks.
ArchiveValidates ==
    archive.kind = "bundle" =>
        /\ validate_script(archive) <=>
            \A i \in DOMAIN archive.events :
                /\ \A p \in DOMAIN archive.events[i].plots :
                        archive.events[i].plots[p].data = "image"
                /\ archive.events[i].document # NoValue =>
                        \E j \in DOMAIN archive.events :
                            /\ archive.events[j].document = archive.events[i].document
                            /\ archive.events[j].blocks # <<>>
        /\ (archive.replay = FlattenSeq([i \in DOMAIN archive.events |->
                                    [b \in DOMAIN archive.events[i].blocks |->
                                        <<archive.events[i].id, b>>]]))
            <=> \A i \in DOMAIN archive.events : Len(archive.events[i].blocks) <= 1
=============================================================================
