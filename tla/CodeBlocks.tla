------------------------------- MODULE CodeBlocks -------------------------------
(***************************************************************************)
(* Code found in text: the blocks of an AI answer, from its patches, JSON  *)
(* and R fences and loose diffs (core/src/ai/code_blocks.rs), and the      *)
(* blocks of a script or R Markdown document that is run                   *)
(* (core/src/executor/block_segmenter.rs, execution_utils.rs).             *)
(*                                                                         *)
(* A text is a sequence of kinds of lines; what a line says stands for the *)
(* line's number, so that a block's code is a sequence of numbers.         *)
(***************************************************************************)
EXTENDS Naturals, Sequences, SequencesExt, FiniteSets

CONSTANTS
    Pieces,         \* the lines that arrive together
    MaxPieces,      \* bound: pieces of a text
    Absence         \* no hunk, no chunk, no section

LineKinds == {"begin", "end", "add file", "delete file", "update file", "@@", "+", "-",
              "code", "blank", "fence", "r fence", "R fence", "json fence", "rmd fence",
              "json", "json list", "section"}

ASSUME CodeBlocksAssumption == MaxPieces \in Nat /\ Pieces \subseteq Seq(LineKinds)

VARIABLES
    pieces,     \* the text, as it streams in
    extracted,  \* the blocks of the answer, when it is complete
    segments    \* the blocks of the text as a script and as R Markdown, when it is run

codeVars == <<pieces, extracted, segments>>

CodeInit == pieces = <<>> /\ extracted = Absence /\ segments = Absence

Lines(lines) == [i \in DOMAIN lines |-> i]
LinesOf(lines, kinds) == {i \in DOMAIN lines : lines[i] \in kinds}
LeastOf(S) == CHOOSE x \in S : \A y \in S : x <= y
Flat(seqs) == FoldLeft(LAMBDA a, b : a \o b, <<>>, seqs)
Within(lines, first, last) == SelectSeq(Lines(lines), LAMBDA i : first <= i /\ i <= last)
TrimEnd(lines, chosen) ==
    LET filled == {k \in DOMAIN chosen : lines[chosen[k]] # "blank"}
    IN  SubSeq(chosen, 1, CHOOSE n \in filled \cup {0} : \A k \in filled : k <= n)

-----------------------------------------------------------------------------
(* Patches.                                                                *)

FileHeaders == {"add file", "delete file", "update file"}
Fences == {"fence", "r fence", "R fence", "json fence", "rmd fence"}

NewChunk == [old |-> <<>>, new |-> <<>>]
PushChunk(p) == IF p.chunk = Absence THEN p
                ELSE [p EXCEPT !.hunk.chunks = Append(@, p.chunk), !.chunk = Absence]
PushHunk(p) == IF p.hunk = Absence THEN [p EXCEPT !.chunk = Absence]
               ELSE LET q == PushChunk(p) IN [q EXCEPT !.out = Append(@, q.hunk), !.hunk = Absence]

\* A line of a file's part: a removal is old, an addition new, any other line is both.
PatchLine(p, i, kind) ==
    LET chunk == IF p.chunk = Absence THEN NewChunk ELSE p.chunk
    IN  [p EXCEPT !.chunk =
            [old |-> IF kind = "+" THEN chunk.old ELSE Append(chunk.old, i),
             new |-> IF kind = "-" THEN chunk.new ELSE Append(chunk.new, i)]]

\* parse_patch_format and parse_patch_block: every part of a file in every patch of the
\* text; a patch that is not ended goes on to the end of the text.
parse_patch_format(lines) ==
    LET Step(p, i) ==
            CASE ~p.inside -> [p EXCEPT !.inside = lines[i] = "begin"]
              [] p.inside /\ lines[i] = "end" -> [PushHunk(p) EXCEPT !.inside = FALSE]
              [] p.inside /\ lines[i] \in FileHeaders ->
                     [PushHunk(p) EXCEPT !.hunk = [header |-> i, kind |-> lines[i],
                                                   chunks |-> <<>>]]
              [] p.inside /\ lines[i] \notin FileHeaders \cup {"end"} ->
                     IF p.hunk = Absence THEN p
                     ELSE IF lines[i] = "@@" THEN [PushChunk(p) EXCEPT !.chunk = NewChunk]
                     ELSE PatchLine(p, i, lines[i])
        start == [inside |-> FALSE, hunk |-> Absence, chunk |-> Absence, out |-> <<>>]
    IN  PushHunk(FoldLeft(Step, start, Lines(lines))).out

\* build_code_block_from_patch: Absence where no line is new.
build_code_block_from_patch(lines, hunk) ==
    LET Side(f(_)) == Flat([c \in DOMAIN hunk.chunks |-> f(hunk.chunks[c])])
        new == Side(LAMBDA c : c.new)
    IN  IF TrimEnd(lines, new) = <<>> THEN Absence
        ELSE [action |-> CASE hunk.kind = "add file" -> "create-file"
                           [] hunk.kind = "delete file" -> "delete-range"
                           [] OTHER -> "replace-range",
              at |-> hunk.header, entry |-> 1, code |-> TrimEnd(lines, new),
              original |-> TrimEnd(lines, Side(LAMBDA c : c.old)),
              chunks |-> Len(hunk.chunks), changes |-> <<>>]

-----------------------------------------------------------------------------
(* Fences and loose diffs.                                                 *)

\* A fence opens at a line of one of the kinds and closes at the next fence that is at
\* least `gap` lines below.
find_fences(lines, kinds, gap) ==
    LET Step(f, i) ==
            LET closing == {j \in LinesOf(lines, Fences) : j >= i + gap}
            IN  IF i < f.from \/ lines[i] \notin kinds \/ closing = {} THEN f
                ELSE [from |-> LeastOf(closing) + 1,
                      out |-> Append(f.out, <<i, LeastOf(closing)>>)]
    IN  FoldLeft(Step, [from |-> 1, out |-> <<>>], Lines(lines)).out

find_typed_fences(lines, kind) == find_fences(lines, {kind}, 2)
find_any_fences(lines) == find_fences(lines, Fences, 1)

Inside(fence, i) == fence[1] <= i /\ i <= fence[2]

\* parse_diff_block: the lines from the first to the last that is added or removed, if
\* there are both.
parse_diff_block(lines, part) ==
    LET diff == SelectSeq(part, LAMBDA i : lines[i] \in {"+", "-"})
    IN  IF \E i, j \in Range(diff) : lines[i] = "+" /\ lines[j] = "-"
        THEN LET body == SelectSeq(part, LAMBDA i : diff[1] <= i /\ i <= diff[Len(diff)])
             IN  <<[old |-> SelectSeq(body, LAMBDA i : lines[i] # "+"),
                    new |-> SelectSeq(body, LAMBDA i : lines[i] # "-")]>>
        ELSE <<>>

\* parse_simple_changes: first those in fences, then those of the paragraphs between.
parse_simple_changes(lines) ==
    LET fences == find_any_fences(lines)
        outside == SelectSeq(Lines(lines),
                             LAMBDA i : \A f \in Range(fences) : ~Inside(f, i))
        Joined(i) == i - 1 \in Range(outside) /\ lines[i - 1] # "blank"
        starts == SelectSeq(outside, LAMBDA i : lines[i] # "blank" /\ ~Joined(i))
        Paragraph(i) == SelectSeq(outside, LAMBDA j :
                            j >= i /\ \A k \in i..j : k \in Range(outside) /\ lines[k] # "blank")
    IN  Flat([f \in DOMAIN fences |->
                parse_diff_block(lines, Within(lines, fences[f][1] + 1, fences[f][2] - 1))])
        \o Flat([s \in DOMAIN starts |-> parse_diff_block(lines, Paragraph(starts[s]))])

\* Mutant: the last block takes no more than its share.
attach_by_share(blocks, changes) ==
    LET Step(a, b) ==
            LET left == Len(changes) - a.cursor
                budget == IF blocks[b].chunks > 0 THEN blocks[b].chunks ELSE 1
                taken == IF budget < left THEN budget ELSE left
            IN  [cursor |-> a.cursor + taken,
                 out |-> Append(a.out, [blocks[b] EXCEPT
                            !.changes = SubSeq(changes, a.cursor + 1, a.cursor + taken)])]
    IN  FoldLeft(Step, [cursor |-> 0, out |-> <<>>], Lines(blocks)).out

\* attach_simple_changes: a block of a patch takes as many as it has chunks, another its
\* share of those left, rounded up, and the last block all that are left.
attach_simple_changes(blocks, changes) ==
    LET Step(a, b) ==
            LET left == Len(changes) - a.cursor
                rest == Len(blocks) - b + 1
                budget == IF rest = 1 THEN left
                          ELSE IF blocks[b].chunks > 0 THEN blocks[b].chunks
                          ELSE (left + rest - 1) \div rest
                taken == IF budget < left THEN budget ELSE left
            IN  [cursor |-> a.cursor + taken,
                 out |-> Append(a.out, [blocks[b] EXCEPT
                            !.changes = SubSeq(changes, a.cursor + 1, a.cursor + taken)])]
    IN  FoldLeft(Step, [cursor |-> 0, out |-> <<>>], Lines(blocks)).out

FenceBlock(lines, fence, action, entry) ==
    [action |-> action, at |-> fence[1], entry |-> entry,
     code |-> Within(lines, fence[1] + 1, fence[2] - 1),
     original |-> <<>>, chunks |-> 0, changes |-> <<>>]

\* parse_json_blocks: a fence whose content is a JSON object gives one block; one whose
\* content is an array, or an object with codeBlocks, gives a block for each entry, here
\* two; another gives none.
parse_json_blocks(lines) ==
    LET fences == find_typed_fences(lines, "json fence")
        Content(f) == IF f[2] = f[1] + 2 THEN lines[f[1] + 1] ELSE "code"
        Entries(f) == CASE Content(f) = "json" -> <<1>> [] Content(f) = "json list" -> <<1, 2>>
                        [] OTHER -> <<>>
    IN  Flat([k \in DOMAIN fences |->
                LET f == fences[k]
                IN  [e \in DOMAIN Entries(f) |-> FenceBlock(lines, f, "replace-all", e)]])

\* extract_code_blocks: if there is a patch, nothing else. The two ways to write an R fence
\* are looked for one after the other, each in the whole text.
extract_code_blocks(lines) ==
    LET hunks == parse_patch_format(lines)
        patched == [h \in DOMAIN hunks |-> build_code_block_from_patch(lines, hunks[h])]
        json == find_typed_fences(lines, "json fence")
        r == SelectSeq(find_typed_fences(lines, "r fence") \o find_typed_fences(lines, "R fence"),
                       LAMBDA f : \A j \in Range(json) : ~Inside(j, f[1]))
        blocks == IF hunks # <<>>
                  THEN SelectSeq(patched, LAMBDA b : b # Absence)
                  ELSE parse_json_blocks(lines)
                       \o [f \in DOMAIN r |-> FenceBlock(lines, r[f], "insert", 1)]
    IN  IF blocks = <<>> THEN <<>> ELSE attach_simple_changes(blocks, parse_simple_changes(lines))

-----------------------------------------------------------------------------
(* The blocks of a run.                                                    *)

Block(kind, start, last, code) == [kind |-> kind, start |-> start, last |-> last, code |-> code]

WholeText(lines) ==
    IF TrimEnd(lines, Lines(lines)) = <<>> THEN <<>>
    ELSE <<Block("document", 1, Len(lines), Lines(lines))>>

\* segment_r_script: from each section marker to the next; the whole text if there is none.
segment_r_script(lines) ==
    LET starts == SelectSeq(Lines(lines), LAMBDA i : lines[i] = "section")
        LastLine(s) == IF s = Len(starts) THEN Len(lines) ELSE starts[s + 1] - 1
    IN  IF starts = <<>> THEN WholeText(lines)
        ELSE [s \in DOMAIN starts |->
                Block("section", starts[s], LastLine(s),
                      Within(lines, starts[s], LastLine(s)))]

\* segment_rmd_code: the chunks that are closed; their first line is the fence's. The whole
\* text if there are none.
segment_rmd_code(lines) ==
    LET Step(a, i) ==
            IF a.open = Absence
            THEN IF lines[i] = "rmd fence" THEN [a EXCEPT !.open = i] ELSE a
            ELSE IF lines[i] = "fence"
                 THEN [open |-> Absence,
                       out |-> Append(a.out, Block("chunk", a.open, i - 1,
                                                   Within(lines, a.open + 1, i - 1)))]
                 ELSE a
        chunks == FoldLeft(Step, [open |-> Absence, out |-> <<>>], Lines(lines)).out
    IN  IF chunks = <<>> THEN WholeText(lines) ELSE chunks

\* ensure_blocks, of a request that brings none: a selection is one block, and a document
\* has at least one.
ensure_blocks(lines, source) ==
    LET found == IF source = "script" THEN segment_r_script(lines) ELSE segment_rmd_code(lines)
        one == <<Block(source, 1, IF lines = <<>> THEN 1 ELSE Len(lines), Lines(lines))>>
    IN  IF source = "selection" \/ found = <<>> THEN one ELSE found

-----------------------------------------------------------------------------

text == Flat(pieces)

\* A piece of the answer arrives, or is typed.
ReceivePiece ==
    /\ Len(pieces) < MaxPieces
    /\ \E piece \in Pieces : pieces' = Append(pieces, piece)
    /\ extracted = Absence /\ segments = Absence
    /\ UNCHANGED <<extracted, segments>>

\* The answer is complete: ai_response_complete carries its blocks.
CompleteAnswer ==
    /\ extracted = Absence
    /\ extracted' = extract_code_blocks(text)
    /\ UNCHANGED <<pieces, segments>>

\* The text is run, without blocks of the client.
RunText ==
    /\ segments = Absence
    /\ segments' = [source \in {"selection", "script", "rmd"} |-> ensure_blocks(text, source)]
    /\ UNCHANGED <<pieces, extracted>>

CodeNext == ReceivePiece \/ CompleteAnswer \/ RunText

CodeSpec == CodeInit /\ [][CodeNext]_codeVars

-----------------------------------------------------------------------------
(* Properties.                                                             *)

\* The lines below a file header that belong to it.
PartOf(header) ==
    LET next == {i \in header + 1 .. Len(text) : text[i] \in FileHeaders \cup {"end"}}
    IN  Within(text, header + 1, IF next = {} THEN Len(text) ELSE LeastOf(next) - 1)

\* code_blocks.rs, extract_code_blocks: a block of a patch has the lines below its header
\* that are not removed as its code and those that are not added as its original, however
\* the patches, files and chunks of the text follow on one another; every loose diff of an
\* answer with a block is attached to one block, in order; the blocks of a patch, and those
\* of fences that are opened in the same way, do not overlap, but for the entries of one JSON
\* fence, which come in their order (a fence of r may hold one of R or JSON, or one of R one of
\* r, and both become blocks).
\* block_segmenter.rs: the blocks of a run are in the order of the text and apart, each
\* has the lines between its bounds, and a script's lines below its first marker are all in
\* a block.
BlocksAreTheirText ==
    /\ extracted # Absence =>
        /\ \A b \in Range(extracted) : text[b.at] \in FileHeaders =>
            LET part == SelectSeq(PartOf(b.at), LAMBDA i : text[i] # "@@")
            IN  /\ b.code = TrimEnd(text, SelectSeq(part, LAMBDA i : text[i] # "-"))
                /\ b.original = TrimEnd(text, SelectSeq(part, LAMBDA i : text[i] # "+"))
        /\ extracted # <<>> =>
            Flat([b \in DOMAIN extracted |-> extracted[b].changes]) = parse_simple_changes(text)
        /\ \A i, j \in DOMAIN extracted :
            LET a == extracted[i]
                b == extracted[j]
            IN  i < j /\ (text[a.at] = text[b.at] \/ text[a.at] \in FileHeaders) =>
                    \/ Range(a.code) \cap Range(b.code) = {}
                    \/ text[a.at] = "json fence" /\ a.at = b.at /\ a.entry < b.entry
    /\ segments # Absence => \A source \in DOMAIN segments :
        LET blocks == segments[source]
        IN  /\ blocks # <<>>
            /\ \A i, j \in DOMAIN blocks : i < j => blocks[i].last < blocks[j].start
            /\ \A b \in Range(blocks) : Range(b.code) \subseteq b.start..b.last
            /\ source = "script" => \A i \in DOMAIN text :
                (\E j \in 1..i : text[j] = "section") => \E b \in Range(blocks) : i \in Range(b.code)
=============================================================================
