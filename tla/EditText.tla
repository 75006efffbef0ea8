-------------------------------- MODULE EditText --------------------------------
(***************************************************************************)
(* The text of an edit: what a proposal makes of a file's text             *)
(* (core/src/edit.rs), the changes it is shown as (core/src/diff.rs,       *)
(* server/src/handlers/pending_edit_ui.rs) and the text that the changes   *)
(* make once the user has kept some of them                                *)
(* (client/src/utils/pendingEditDiff.ts, EditorPanel.tsx).                 *)
(*                                                                         *)
(* PendingEdits has the stores, the files and the calls; here one edit     *)
(* goes from its proposal to the file, undisturbed.  A text is a sequence  *)
(* of characters, one of them the line feed.                               *)
(***************************************************************************)
EXTENDS Naturals, Sequences, FiniteSets, SequencesExt

CONSTANTS
    BaseTexts,      \* texts a file may have
    Replacements,   \* texts proposed for the whole file
    EditLists,      \* edits proposed: sequences of [from, to, text], from and to <<line, column>>
    LineFeed,       \* the character that ends a line
    NoResult        \* an edit that cannot be applied; nothing proposed

ASSUME EditTextAssumption ==
    /\ LineFeed \in STRING /\ BaseTexts \cup Replacements \subseteq Seq(STRING)
    /\ EditLists \subseteq Seq([from : Nat \X Nat, to : Nat \X Nat, text : Seq(STRING)])
    /\ NoResult \notin Nat \cup Seq(STRING)

VARIABLES
    file,       \* the file's text
    edit,       \* the pending edit: its old and new text, its source and its changes
    kept,       \* the review: the changes that are kept
    settled     \* how the edit was resolved

editVars == <<file, edit, kept, settled>>

EditInit == file \in BaseTexts /\ edit = NoResult /\ kept = {} /\ settled = "open"

-----------------------------------------------------------------------------
(* Lines.                                                                  *)

Feeds(t) == {i \in DOMAIN t : t[i] = LineFeed}

\* split_inclusive('\n'): a line has its line feed.
LineCount(t) == Cardinality(Feeds(t)) + (IF t # <<>> /\ t[Len(t)] # LineFeed THEN 1 ELSE 0)
LineStart(t, k) ==
    CHOOSE i \in Feeds(t) \cup {0} : Cardinality({j \in Feeds(t) : j <= i}) = k - 1
LineOf(t, k) ==
    SubSeq(t, LineStart(t, k) + 1,
           IF k < LineCount(t) THEN LineStart(t, k + 1) ELSE Len(t))
LinesIn(t) == [k \in 1..LineCount(t) |-> LineOf(t, k)]
Unended(line) == SelectSeq(line, LAMBDA c : c # LineFeed)

-----------------------------------------------------------------------------
(* derive_new_text.                                                        *)

\* line_col_to_index: how many characters lie before the position; NoResult out of range.
line_col_to_index(t, p) ==
    CASE p[1] = 0 \/ p[2] = 0 -> NoResult
      [] p[1] \in 1..LineCount(t) /\ p[2] > 0 ->
             IF p[2] - 1 <= Len(LineOf(t, p[1])) THEN LineStart(t, p[1]) + p[2] - 1 ELSE NoResult
      [] p[1] = LineCount(t) + 1 /\ p[2] > 0 -> Len(t)
      [] OTHER -> NoResult

Before(p, q) == p[1] < q[1] \/ (p[1] = q[1] /\ p[2] < q[2])

\* The order of the sort: the later range first.
Later(a, b) == Before(b.from, a.from) \/ (a.from = b.from /\ Before(b.to, a.to))

ReplaceRange(t, e) ==
    LET start == line_col_to_index(t, e.from)
        end == line_col_to_index(t, e.to)
    IN  IF start = NoResult \/ end = NoResult THEN NoResult
        ELSE IF start > end THEN NoResult
        ELSE SubSeq(t, 1, start) \o e.text \o SubSeq(t, end + 1, Len(t))

ReplaceEach(t, edits) ==
    LET after[n \in 0..Len(edits)] == CASE n = 0 -> t
                                         [] n > 0 /\ after[n - 1] = NoResult -> NoResult
                                         [] OTHER -> ReplaceRange(after[n - 1], edits[n])
    IN  after[Len(edits)]

\* Mutant: the edits are applied in the order they are listed.
apply_in_order(t, edits) == ReplaceEach(t, edits)

\* apply_edits: a stable sort, and one after another, each in the text the others left.
apply_edits(t, edits) ==
    LET Rank(i) == Cardinality({j \in DOMAIN edits :
                       Later(edits[j], edits[i]) \/ (j < i /\ ~Later(edits[i], edits[j]))}) + 1
    IN  ReplaceEach(t, [k \in DOMAIN edits |->
                          edits[CHOOSE i \in DOMAIN edits : Rank(i) = k]])

-----------------------------------------------------------------------------
(* The changes of an edit.                                                 *)

\* external: the lines that `similar` finds unchanged, a longest common subsequence.
Matchings(o, n) ==
    LET Increasing(M) == \A p, q \in M : (p[1] < q[1]) = (p[2] < q[2])
        all == {M \in SUBSET {p \in (DOMAIN o) \X (DOMAIN n) : o[p[1]] = n[p[2]]} : Increasing(M)}
    IN  {M \in all : \A L \in all : Cardinality(L) <= Cardinality(M)}

\* compute_diff: grouped_ops(0) leaves no unchanged lines in its groups, so that the line
\* numbers advance over the changed lines only.
compute_diff(o, n, matched) ==
    LET ends == SetToSortSeq(matched \cup {<<Len(o) + 1, Len(n) + 1>>},
                             LAMBDA p, q : p[1] < q[1])
        Gap(k) == LET last == IF k = 1 THEN <<0, 0>> ELSE ends[k - 1]
                  IN  [old |-> SubSeq(o, last[1] + 1, ends[k][1] - 1),
                       new |-> SubSeq(n, last[2] + 1, ends[k][2] - 1)]
        groups == SelectSeq([k \in DOMAIN ends |-> Gap(k)],
                            LAMBDA g : g.old # <<>> \/ g.new # <<>>)
        Number(a, g) ==
            LET end == IF g.old = <<>> THEN 0 ELSE a.line + Len(g.old) - 1
            IN  [line |-> a.line + Len(g.old),
                 out |-> Append(a.out,
                    [start |-> a.line, end |-> end,
                     old |-> [i \in DOMAIN g.old |-> Unended(g.old[i])],
                     new |-> [i \in DOMAIN g.new |-> Unended(g.new[i])]])]
    IN  FoldLeft(Number, [line |-> 1, out |-> <<>>], groups).out

-----------------------------------------------------------------------------
(* The review.                                                             *)

splitLines(t) ==
    [k \in 1..LineCount(t) |-> Unended(LineOf(t, k))]
    \o (IF t = <<>> \/ t[Len(t)] = LineFeed THEN <<<<>>>> ELSE <<>>)
joinLines(lines) ==
    FlattenSeq([k \in DOMAIN lines |->
                   IF k = Len(lines) THEN lines[k] ELSE Append(lines[k], LineFeed)])

\* applyPendingEditChanges: the old lines up to the number of each change, then the
\* change's new lines if it is kept and its old ones if not; at last the rest.
applyPendingEditChanges(t, changes, keeps) ==
    LET lines == splitLines(t)
        Apply(a, c) ==
            LET change == changes[c]
            IN  [cursor |-> IF change.end + 1 > a.cursor THEN change.end + 1 ELSE a.cursor,
                 out |-> a.out \o SubSeq(lines, a.cursor, change.start - 1)
                               \o (IF c \in keeps THEN change.new ELSE change.old)]
        last == FoldLeft(Apply, [cursor |-> 1, out |-> <<>>], [c \in DOMAIN changes |-> c])
    IN  joinLines(last.out \o SubSeq(lines, last.cursor, Len(lines)))

-----------------------------------------------------------------------------

\* preview_text_file and pending_edit_payload_from_edit; the client keeps every change
\* until the user says otherwise.
ProposeText(source, new) ==
    /\ edit = NoResult /\ new # NoResult
    /\ \E M \in Matchings(LinesIn(file), LinesIn(new)) :
        LET changes == compute_diff(LinesIn(file), LinesIn(new), M)
        IN  /\ edit' = [old |-> file, new |-> new, source |-> source, changes |-> changes,
                        edits |-> <<>>]
            /\ kept' = DOMAIN changes
    /\ UNCHANGED <<file, settled>>

ProposeReplacement == \E source \in {"acp", "api-key"}, new \in Replacements :
    ProposeText(source, new)

\* Edits come from the tool of the API agents only.
ProposeEdits == \E edits \in EditLists :
    LET new == apply_edits(file, edits)
    IN  /\ edit = NoResult /\ new # NoResult
        /\ \E M \in Matchings(LinesIn(file), LinesIn(new)) :
            LET changes == compute_diff(LinesIn(file), LinesIn(new), M)
            IN  /\ edit' = [old |-> file, new |-> new, source |-> "api-key",
                            changes |-> changes, edits |-> edits]
                /\ kept' = DOMAIN changes
        /\ UNCHANGED <<file, settled>>

\* updatePendingEditReview: the user keeps or rejects a change.
ReviewChange ==
    /\ edit # NoResult /\ settled = "open"
    /\ \E c \in DOMAIN edit.changes :
        kept' = IF c \in kept THEN kept \ {c} ELSE kept \cup {c}
    /\ UNCHANGED <<file, edit, settled>>

\* handlePendingAccept: the reviewed text replaces the edit's in the gateway, if the edit
\* is the ACP agent's; accept_pending_edit writes the edit's text.
AcceptReviewed ==
    /\ edit # NoResult /\ settled = "open"
    /\ file' = IF edit.source = "acp"
               THEN applyPendingEditChanges(edit.old, edit.changes, kept) ELSE edit.new
    /\ settled' = "accepted"
    /\ UNCHANGED <<edit, kept>>

RejectReviewed ==
    /\ edit # NoResult /\ settled = "open"
    /\ settled' = "rejected"
    /\ UNCHANGED <<file, edit, kept>>

EditNext ==
    \/ ProposeReplacement
    \/ ProposeEdits
    \/ ReviewChange
    \/ AcceptReviewed
    \/ RejectReviewed

EditSpec == EditInit /\ [][EditNext]_editVars

-----------------------------------------------------------------------------
(* Properties.                                                             *)

\* What two edits make of a text when each is applied to the text as it was.
Together(t, a, b) ==
    SubSeq(t, 1, line_col_to_index(t, a.from)) \o a.text
    \o SubSeq(t, line_col_to_index(t, a.to) + 1, line_col_to_index(t, b.from)) \o b.text
    \o SubSeq(t, line_col_to_index(t, b.to) + 1, Len(t))

\* A position on a line of the text, or at the end of a text whose lines are all ended.
OnLines(t, p) ==
    p[1] <= LineCount(t) \/ (p = <<LineCount(t) + 1, 1>> /\ LineCount(t) = Cardinality(Feeds(t)))

\* edit.rs, apply_edits: edits that do not overlap are applied as if all at once, to the
\* text as it was, however they are listed and whatever lines they add or remove, as long
\* as they lie on the text's lines. (A position on the line after the last is accepted as
\* the text's end whatever its column; in what another edit adds there, it is another place.)
EditsApplyTogether ==
    edit # NoResult => \A i, j \in DOMAIN edit.edits :
        LET a == edit.edits[i]
            b == edit.edits[j]
        IN  /\ Len(edit.edits) = 2 /\ i # j
            /\ ~Before(a.to, a.from) /\ ~Before(b.to, b.from) /\ ~Before(b.from, a.to)
            /\ a.from # b.from /\ OnLines(edit.old, b.to)
            => edit.new = Together(edit.old, a, b)

\* pendingEditDiff.test.ts, "should keep new content when review decision is keep": a file
\* whose edit is accepted with every change kept has the edit's new text.
KeptChangesAreTheEdit ==
    settled = "accepted" /\ kept = DOMAIN edit.changes => file = edit.new
=============================================================================
