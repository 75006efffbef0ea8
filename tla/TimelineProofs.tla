--------------------------- MODULE TimelineProofs --------------------------
(***************************************************************************)
(* Theorems about Timeline, for every set of runs and every number of      *)
(* resets, I/O errors and crashes, and about Export and TimelineView, for  *)
(* every history.                                                          *)
(*                                                                         *)
(* RecordsOrdered is about all the lists of records there are, the file    *)
(* and the ones tasks are about to write back; it is kept because a run's  *)
(* record enters the file once, at the end, when no list holds it (Fresh), *)
(* and because every other step makes new lists out of old ones without    *)
(* changing the order.  QuietFileIsSound needs to know what the file is    *)
(* like while a line is being written (Sound).                             *)
(*                                                                         *)
(* ArchiveValidates is about what the bundle of a history holds; that it   *)
(* is the bundle of one, numbered from the first record (ArchiveIInv), is  *)
(* inductive.  The rest is about sequences: what FlattenSeq computes, by   *)
(* an induction over naturals (Upwards) that the provers can follow.       *)
(*                                                                         *)
(* DocumentTellsTheRuns is about a job's parts, which become the document  *)
(* in at most two steps; the invariant (DocumentIInv) says of the parts    *)
(* what the property says of the document, and of the events that they are *)
(* those of the history as it was when they were read.  What a document is *)
(* made of is read off it with Each: what each part becomes, joined.  For  *)
(* a script, what the chunks and the section being read hold of the code   *)
(* stays the code of the lines read (Holds).                               *)
(*                                                                         *)
(* PagesShowTheHistory is about the moments at which no request of the     *)
(* panel is under way.  The invariant (PagesIInv) says of all others that  *)
(* a panel that nothing disturbed has its answers taken by their own       *)
(* requests, shows records as the history has them, and that what it does  *)
(* not show yet was asked for: nothing is missing before some rank lo of   *)
(* the query's order, and some of the requests under way, each of which    *)
(* begins at lo or before or at most a page after an earlier one of them,  *)
(* reach the end of what is shown (Coming).  An answer that comes after    *)
(* its request was given up moves all later ones on by one, until the last *)
(* of them finds none that waits (InTurn, LateAnswer).  Before it come the *)
(* lemmas on lists by rank, which filters and sorts are, and on queues of  *)
(* requests.                                                               *)
(***************************************************************************)
EXTENDS Timeline, Export, TimelineView, SequenceTheorems, FiniteSetTheorems,
        WellFoundedInduction, TLAPS

Lines == Records \cup {Garbage}

\* The file, and what tasks are about to write back to it.
Versions == {lines} \cup {pending[r] : r \in Runs}

\* Whoever is in the middle of a write has the mutex.
Locked ==
  \A c \in Callers : pc[c] \in {"newline", "rewriting"} <=> mutex = c

\* No list holds a run that was not recorded yet.
Fresh ==
  \A s \in Versions : \A i \in DOMAIN s : s[i].id \in Runs => pc[s[i].id] # "new"

\* Every run's record in s is in t, in the same place.
Derived(s, t) ==
  \A i \in DOMAIN s : s[i].id \in Runs => i \in DOMAIN t /\ s[i].id = t[i].id

\* Without errors and crashes, the file is sound but for a rewrite.
Sound ==
  failures = 0 /\ crashes = 0 =>
    /\ mutex = NoOne => Readable /\ ~unended /\ writer
    /\ \A r \in Runs : pc[r] = "newline" => Readable /\ writer

IInv == TypeOK /\ Locked /\ Fresh /\ Sound /\ RecordsOrdered

(***************************************************************************)
(* A line is garbage or a record.                                          *)
(***************************************************************************)
LEMMA GarbageIsNoRecord ==
  ASSUME TimelineAssumption
  PROVE  Garbage \notin Records /\ Garbage.id \notin Runs /\ Garbage \in Lines
BY DEF TimelineAssumption, Garbage, Records, Lines

(***************************************************************************)
(* What becomes of a file a line is appended to.                           *)
(***************************************************************************)
LEMMA Appended ==
  ASSUME TypeOK, NEW line \in Lines
  PROVE  /\ AppendLine(line) \in Seq(Lines)
         /\ unended => /\ DOMAIN AppendLine(line) = DOMAIN lines
                       /\ \A i \in DOMAIN lines : AppendLine(line)[i] \in {lines[i], Garbage}
         /\ ~unended => /\ DOMAIN AppendLine(line) = 1 .. Len(lines) + 1
                        /\ \A i \in DOMAIN lines : AppendLine(line)[i] = lines[i]
                        /\ AppendLine(line)[Len(lines) + 1] = line
         /\ DOMAIN lines = 1 .. Len(lines) /\ Len(lines) \in Nat
<1>1. lines \in Seq(Lines) /\ unended \in BOOLEAN /\ Garbage \in Lines
  BY DEF TypeOK, Lines
<1>2. Len(lines) \in Nat /\ DOMAIN lines = 1 .. Len(lines)
  BY <1>1
<1>3. CASE unended
  <2>1. AppendLine(line) = [lines EXCEPT ![Len(lines)] = Garbage]
    BY <1>3 DEF AppendLine
  <2>2. CASE Len(lines) = 0
    <3>1. [lines EXCEPT ![Len(lines)] = Garbage] = lines
      BY <1>1, <1>2, <2>2
    <3> QED
      BY <1>1, <1>2, <1>3, <2>1, <3>1
  <2>3. CASE Len(lines) # 0
    <3>1. [lines EXCEPT ![Len(lines)] = Garbage] \in Seq(Lines)
      BY <1>1, <1>2, <2>3, ExceptSeq
    <3> QED
      BY <1>2, <1>3, <2>1, <3>1
  <2> QED
    BY <2>2, <2>3
<1>4. CASE ~unended
  <2> DEFINE s == Append(lines, line)
  <2>1. AppendLine(line) = s
    BY <1>4 DEF AppendLine
  <2>2. /\ s \in Seq(Lines) /\ Len(s) = Len(lines) + 1
        /\ \A i \in 1 .. Len(lines) : s[i] = lines[i]
        /\ s[Len(lines) + 1] = line
    BY <1>1, AppendProperties
  <2>3. DOMAIN s = 1 .. Len(lines) + 1
    BY <2>2
  <2> HIDE DEF s
  <2> QED
    BY <1>2, <1>4, <2>1, <2>2, <2>3
<1> QED
  BY <1>1, <1>2, <1>3, <1>4

(***************************************************************************)
(* What an update is about to write are records, in the places of the old. *)
(***************************************************************************)
LEMMA ReplacedRecords ==
  ASSUME TypeOK, Readable, NEW r \in Runs, NEW new \in Statuses
  PROVE  /\ Replaced(lines, r, new) \in Seq(Records)
         /\ DOMAIN Replaced(lines, r, new) = DOMAIN lines
         /\ \A i \in DOMAIN lines : Replaced(lines, r, new)[i].id = lines[i].id
<1>1. lines \in Seq(Lines)
  BY DEF TypeOK, Lines
<1>2. \A i \in DOMAIN lines : lines[i] \in Records
  BY <1>1 DEF Readable, Lines
<1>3. Len(lines) \in Nat /\ DOMAIN lines = 1 .. Len(lines)
  BY <1>1
<1>4. \A i \in 1 .. Len(lines) : Replaced(lines, r, new)[i] \in Records
  BY <1>2, <1>3 DEF Replaced, Records
<1>5. Replaced(lines, r, new) \in Seq(Records)
  <2> DEFINE S == Records
             f(i) == IF lines[i].id = r THEN [id |-> r, status |-> new] ELSE lines[i]
  <2>1. Replaced(lines, r, new) = [i \in 1 .. Len(lines) |-> f(i)]
    BY <1>3 DEF Replaced
  <2>2. \A i \in 1 .. Len(lines) : f(i) \in S
    BY <1>2, <1>3 DEF Records
  <2> HIDE DEF f, S
  <2>3. [i \in 1 .. Len(lines) |-> f(i)] \in Seq(S)
    BY <1>3, <2>2
  <2> QED
    BY <2>1, <2>3 DEF S
<1> QED
  BY <1>5 DEF Replaced

(***************************************************************************)
(* A part of what is to be written, maybe with half a line after it.       *)
(***************************************************************************)
LEMMA Flushed ==
  ASSUME TimelineAssumption, TypeOK, NEW r \in Runs, Flush(r)
  PROVE  /\ lines' \in Seq(Lines)
         /\ \A i \in DOMAIN lines' :
              \/ i \in DOMAIN pending[r] /\ lines'[i] = pending[r][i]
              \/ lines'[i] = Garbage
<1>1. PICK n \in 0 .. Len(pending[r]), part \in BOOLEAN :
           lines' = SubSeq(pending[r], 1, n) \o (IF part THEN <<Garbage>> ELSE <<>>)
  BY DEF Flush
<1> DEFINE head == SubSeq(pending[r], 1, n)
           tail == IF part THEN <<Garbage>> ELSE <<>>
<1>2. pending[r] \in Seq(Records) /\ Len(pending[r]) \in Nat /\ n \in Nat /\ n <= Len(pending[r])
      /\ DOMAIN pending[r] = 1 .. Len(pending[r])
  BY <1>1 DEF TypeOK
<1>3. \A i \in 1 .. n : pending[r][i] \in Lines
  BY <1>2 DEF Lines
<1>4. /\ head \in Seq(Lines) /\ Len(head) = n
      /\ \A i \in 1 .. n : head[i] = pending[r][i]
  BY <1>2, <1>3, SubSeqProperties
<1>5. tail \in Seq(Lines) /\ \A i \in DOMAIN tail : tail[i] = Garbage
  BY GarbageIsNoRecord
<1> DEFINE L == Lines
<1> HIDE DEF head, tail, L
<1>9. head \in Seq(L) /\ tail \in Seq(L)
  BY <1>4, <1>5 DEF L
<1>6. /\ head \o tail \in Seq(Lines)
      /\ Len(head \o tail) = n + Len(tail) /\ Len(tail) \in Nat
      /\ \A i \in 1 .. n + Len(tail) :
           (head \o tail)[i] = IF i <= n THEN head[i] ELSE tail[i - n]
  <2>1. /\ head \o tail \in Seq(L)
        /\ Len(head \o tail) = Len(head) + Len(tail)
        /\ \A i \in 1 .. Len(head) + Len(tail) :
             (head \o tail)[i] = IF i <= Len(head) THEN head[i] ELSE tail[i - Len(head)]
    BY <1>9, ConcatProperties
  <2>2. Len(tail) \in Nat
    BY <1>9, LenProperties
  <2> QED
    BY <1>4, <2>1, <2>2 DEF L
<1>7. ASSUME NEW i \in DOMAIN (head \o tail)
      PROVE  \/ i \in DOMAIN pending[r] /\ (head \o tail)[i] = pending[r][i]
             \/ (head \o tail)[i] = Garbage
  <2>1. i \in 1 .. n + Len(tail)
    BY <1>6
  <2>2. CASE i <= n
    BY <1>2, <1>4, <1>6, <2>1, <2>2
  <2>3. CASE i > n
    <3>1. i - n \in DOMAIN tail
      BY <1>2, <1>5, <1>6, <2>1, <2>3
    <3> QED
      BY <1>2, <1>5, <1>6, <2>1, <2>3, <3>1
  <2> QED
    BY <1>2, <2>1, <2>2, <2>3
<1>8. lines' = head \o tail
  BY <1>1 DEF head, tail
<1> QED
  BY <1>6, <1>7, <1>8

(***************************************************************************)
(* Every step keeps every variable's type.                                 *)
(***************************************************************************)
LEMMA TypeStep ==
  ASSUME TimelineAssumption, TypeOK, [Next]_vars
  PROVE  TypeOK'
<1> USE DEF TimelineAssumption, TypeOK, Callers, RunStates, counters, Move, Fails
<1>1. Runs \subseteq Callers /\ TheReset \in Callers /\ Lines = Records \cup {Garbage}
  BY DEF Lines
<1>2. \A c \in Callers, from, to \in RunStates :
        Move(c, from, to) => pc' \in [Callers -> RunStates]
  OBVIOUS
<1>3. <<>> \in Seq(Records \cup {Garbage}) /\ <<>> \in Seq(Records)
  BY EmptySeq
<1>4. ASSUME NEW r \in Runs, RecordLine(r) PROVE TypeOK'
  <2>1. [id |-> r, status |-> "queued"] \in Lines
    BY DEF Lines, Records, Statuses
  <2>2. lines' \in Seq(Records \cup {Garbage})
    BY <1>1, <1>4, <2>1, Appended DEF RecordLine
  <2> QED
    BY <1>4, <2>2 DEF RecordLine
<1>5. ASSUME NEW r \in Runs, RecordNewline(r) \/ RecordSkipped(r) PROVE TypeOK'
  BY <1>5 DEF RecordNewline, RecordSkipped
<1>6. ASSUME NEW r \in Runs, RecordFails(r) PROVE TypeOK'
  <2>1. AppendLine(Garbage) \in Seq(Records \cup {Garbage})
    BY <1>1, Appended
  <2>2. lines' \in Seq(Records \cup {Garbage}) /\ unended' \in BOOLEAN
    BY <1>6, <2>1 DEF RecordFails
  <2>3. pc' \in [Callers -> RunStates]
    BY <1>1, <1>2, <1>6 DEF RecordFails
  <2>4. failures' \in 0 .. MaxFailures
    BY <1>6 DEF RecordFails
  <2>5. /\ mutex' = NoOne
        /\ UNCHANGED <<writer, status, pending, resets, crashes>>
    BY <1>6 DEF RecordFails
  <2> QED
    BY <2>2, <2>3, <2>4, <2>5
<1>7. ASSUME NEW r \in Runs, UpdateRead(r) PROVE TypeOK'
  <2>1. NextStatus(status[r]) \in Statuses
    BY DEF NextStatus, Statuses
  <2>2. Readable => Replaced(lines, r, NextStatus(status[r])) \in Seq(Records)
    BY <2>1, ReplacedRecords
  <2>3. pending' \in [Runs -> Seq(Records)]
    BY <1>7, <2>2 DEF UpdateRead
  <2>4. status' \in [Runs -> Statuses]
    BY <1>7, <2>1 DEF UpdateRead
  <2> QED
    BY <1>7, <2>3, <2>4 DEF UpdateRead
<1>8. ASSUME NEW r \in Runs, Truncate(r) PROVE TypeOK'
  BY <1>3, <1>8 DEF Truncate
<1>9. ASSUME NEW r \in Runs, Flush(r) PROVE TypeOK'
  <2>1. lines' \in Seq(Records \cup {Garbage})
    BY <1>1, <1>9, Flushed
  <2> QED
    BY <1>9, <2>1 DEF Flush
<1>10. ASSUME NEW r \in Runs, FinishRewrite(r) PROVE TypeOK'
  <2>1. lines' \in Seq(Records \cup {Garbage})
    <3>1. pending[r] \in Seq(Records)
      OBVIOUS
    <3> QED
      BY <1>10, <3>1 DEF FinishRewrite
  <2>2. pc' \in [Callers -> RunStates]
    BY <1>1, <1>2, <1>10 DEF FinishRewrite
  <2>3. pending' \in [Runs -> Seq(Records)]
    BY <1>3, <1>10 DEF FinishRewrite
  <2>4. /\ unended' = FALSE /\ writer' = TRUE /\ mutex' = NoOne
        /\ UNCHANGED <<status, counters>>
    BY <1>10 DEF FinishRewrite
  <2> QED
    BY <2>1, <2>2, <2>3, <2>4
<1>11. ASSUME NEW r \in Runs, RewriteFails(r) PROVE TypeOK'
  <2>1. pc' \in [Callers -> RunStates]
    BY <1>1, <1>2, <1>11 DEF RewriteFails
  <2>2. pending' \in [Runs -> Seq(Records)]
    BY <1>3, <1>11 DEF RewriteFails
  <2>3. failures' \in 0 .. MaxFailures
    BY <1>11 DEF RewriteFails
  <2>4. /\ writer' = FALSE /\ mutex' = NoOne
        /\ UNCHANGED <<lines, unended, status, resets, crashes>>
    BY <1>11 DEF RewriteFails
  <2> QED
    BY <2>1, <2>2, <2>3, <2>4
<1>12. CASE ResetRead \/ ResetClear \/ ResetFails
  <2>1. lines' \in Seq(Records \cup {Garbage})
    BY <1>3, <1>12 DEF ResetRead, ResetClear, ResetFails
  <2>2. pc' \in [Callers -> RunStates]
    BY <1>1, <1>2, <1>12 DEF ResetRead, ResetClear, ResetFails
  <2>3. failures' \in 0 .. MaxFailures /\ resets' \in 0 .. MaxResets
    BY <1>12 DEF ResetRead, ResetClear, ResetFails
  <2>4. /\ unended' \in BOOLEAN /\ writer' \in BOOLEAN
        /\ UNCHANGED <<mutex, status, pending, crashes>>
    BY <1>12 DEF ResetRead, ResetClear, ResetFails
  <2> QED
    BY <2>1, <2>2, <2>3, <2>4
<1>13. CASE Crash
  BY <1>3, <1>13 DEF Crash
<1>14. CASE UNCHANGED vars
  BY <1>14 DEF vars
<1> QED
  BY <1>4, <1>5, <1>6, <1>7, <1>8, <1>9, <1>10, <1>11, <1>12, <1>13, <1>14 DEF Next

(***************************************************************************)
(* Whoever is in the middle of a write keeps the mutex until it is over.   *)
(***************************************************************************)
LEMMA LockedStep ==
  ASSUME TimelineAssumption, TypeOK, Locked, [Next]_vars
  PROVE  Locked'
<1> USE DEF TimelineAssumption, TypeOK, Callers, RunStates, counters, Move, Fails, Locked
<1>1. Runs \subseteq Callers /\ TheReset \in Callers /\ NoOne \notin Callers
  BY DEF NoOne, TheReset
<1>2. ASSUME NEW r \in Runs, RecordLine(r) PROVE Locked'
  BY <1>1, <1>2 DEF RecordLine
<1>3. ASSUME NEW r \in Runs, RecordNewline(r) PROVE Locked'
  BY <1>1, <1>3 DEF RecordNewline
<1>4. ASSUME NEW r \in Runs, RecordFails(r) PROVE Locked'
  BY <1>1, <1>4 DEF RecordFails
<1>5. ASSUME NEW r \in Runs, RecordSkipped(r) PROVE Locked'
  BY <1>1, <1>5 DEF RecordSkipped
<1>6. ASSUME NEW r \in Runs, UpdateRead(r) PROVE Locked'
  BY <1>1, <1>6 DEF UpdateRead
<1>7. ASSUME NEW r \in Runs, Truncate(r) PROVE Locked'
  BY <1>1, <1>7 DEF Truncate
<1>8. ASSUME NEW r \in Runs, Flush(r) PROVE Locked'
  BY <1>1, <1>8 DEF Flush
<1>9. ASSUME NEW r \in Runs, FinishRewrite(r) PROVE Locked'
  BY <1>1, <1>9 DEF FinishRewrite
<1>10. ASSUME NEW r \in Runs, RewriteFails(r) PROVE Locked'
  BY <1>1, <1>10 DEF RewriteFails
<1>11. CASE ResetRead \/ ResetClear \/ ResetFails
  BY <1>1, <1>11 DEF ResetRead, ResetClear, ResetFails
<1>12. CASE Crash
  BY <1>1, <1>12 DEF Crash
<1>13. CASE UNCHANGED vars
  BY <1>13 DEF vars
<1> QED
  BY <1>2, <1>3, <1>4, <1>5, <1>6, <1>7, <1>8, <1>9, <1>10, <1>11, <1>12, <1>13 DEF Next

(***************************************************************************)
(* Without errors and crashes, a write leaves a file that parses.          *)
(***************************************************************************)
LEMMA SoundStep ==
  ASSUME TimelineAssumption, TypeOK, Locked, Sound, [Next]_vars
  PROVE  Sound'
<1> USE DEF TypeOK, Callers, RunStates, counters, Move
<1>1. Runs \subseteq Callers /\ TheReset \in Callers /\ NoOne \notin Callers
  BY DEF TimelineAssumption, NoOne, TheReset
<1>2. ASSUME mutex \notin Runs, NEW r \in Runs PROVE pc[r] # "newline"
  BY <1>1, <1>2 DEF Locked
<1>3. ASSUME NEW r \in Runs, RecordLine(r) PROVE Sound'
  <2>1. [id |-> r, status |-> "queued"] \in Lines /\ [id |-> r, status |-> "queued"] # Garbage
    BY DEF Lines, Records, Statuses, Garbage, TimelineAssumption
  <2>2. Readable /\ ~unended => Readable'
    BY <1>3, <2>1, Appended DEF RecordLine, Readable
  <2> QED
    BY <1>1, <1>3, <2>2 DEF RecordLine, Sound
<1>4. ASSUME NEW r \in Runs, RecordNewline(r) PROVE Sound'
  <2>1. mutex = r
    BY <1>1, <1>4 DEF RecordNewline, Locked
  <2>2. \A q \in Runs : pc'[q] # "newline"
    BY <1>1, <1>4, <2>1 DEF RecordNewline, Locked
  <2> QED
    BY <1>4, <2>2 DEF RecordNewline, Sound, Readable
<1>5. ASSUME NEW r \in Runs, RecordFails(r) \/ RewriteFails(r) PROVE Sound'
  BY <1>5 DEF RecordFails, RewriteFails, Fails, Sound
<1>6. ASSUME NEW r \in Runs, RecordSkipped(r) \/ UpdateRead(r) PROVE Sound'
  BY <1>6 DEF RecordSkipped, UpdateRead, Sound, Readable
<1>7. ASSUME NEW r \in Runs, Truncate(r) PROVE Sound'
  BY <1>1, <1>2, <1>7 DEF Truncate, Sound
<1>8. ASSUME NEW r \in Runs, Flush(r) PROVE Sound'
  <2>1. mutex' = r /\ \A q \in Runs : pc'[q] # "newline"
    BY <1>1, <1>8 DEF Flush, Locked
  <2> QED
    BY <1>1, <2>1 DEF Sound
<1>9. ASSUME NEW r \in Runs, FinishRewrite(r) PROVE Sound'
  <2>1. mutex = r
    BY <1>1, <1>9 DEF FinishRewrite, Locked
  <2>2. \A q \in Runs : pc'[q] # "newline"
    BY <1>1, <1>9, <2>1 DEF FinishRewrite, Locked
  <2>3. Readable'
    <3>1. lines' \in Seq(Records)
      BY <1>9 DEF FinishRewrite
    <3>2. \A i \in DOMAIN lines' : lines'[i] \in Records
      BY <3>1
    <3> QED
      BY <3>2, GarbageIsNoRecord DEF Readable
  <2> QED
    BY <1>9, <2>2, <2>3 DEF FinishRewrite, Sound
<1>10. CASE ResetRead
  BY <1>1, <1>10 DEF ResetRead, Sound, Readable
<1>11. CASE ResetClear
  BY <1>1, <1>2, <1>11 DEF ResetClear, Sound, Readable
<1>12. CASE ResetFails \/ Crash
  BY <1>12 DEF ResetFails, Fails, Crash, Sound
<1>13. CASE UNCHANGED vars
  BY <1>13 DEF vars, Sound, Readable
<1> QED
  BY <1>3, <1>4, <1>5, <1>6, <1>7, <1>8, <1>9, <1>10, <1>11, <1>12, <1>13 DEF Next

(***************************************************************************)
(* Lists made out of old ones in place keep the order, and hold no run     *)
(* that was not recorded.                                                  *)
(***************************************************************************)
LEMMA DerivedKeepsOrder ==
  ASSUME RecordsOrdered, Fresh,
         \A r \in Runs : pc'[r] = "new" => pc[r] = "new",
         \A s \in Versions' : \E t \in Versions : Derived(s, t)
  PROVE  RecordsOrdered' /\ Fresh'
<1>1. ASSUME NEW s, NEW t, Derived(s, t), NEW a \in Runs, NEW b \in Runs, Before(s, a, b)
      PROVE  Before(t, a, b)
  BY <1>1 DEF Derived, Before
<1>2. ASSUME NEW s \in Versions', NEW t \in Versions', NEW a \in Runs, NEW b \in Runs,
             Before(s, a, b), Before(t, b, a)
      PROVE  FALSE
  <2>1. PICK u \in Versions : Derived(s, u)
    OBVIOUS
  <2>2. PICK v \in Versions : Derived(t, v)
    OBVIOUS
  <2>3. Before(u, a, b) /\ Before(v, b, a)
    BY <1>1, <1>2, <2>1, <2>2
  <2> QED
    BY <2>3 DEF RecordsOrdered, Versions
<1>3. RecordsOrdered'
  BY <1>2 DEF RecordsOrdered, Versions, Before
<1>4. Fresh'
  BY DEF Fresh, Derived
<1> QED
  BY <1>3, <1>4

(***************************************************************************)
(* A run that is recorded is in no list yet, and goes to the end of the    *)
(* file: no list can have it before another run.                           *)
(***************************************************************************)
LEMMA RecordedLast ==
  ASSUME TimelineAssumption, TypeOK, RecordsOrdered, Fresh, ~unended,
         NEW r \in Runs, RecordLine(r)
  PROVE  RecordsOrdered' /\ Fresh'
<1> DEFINE record == [id |-> r, status |-> "queued"]
           n == Len(lines)
<1>1. record \in Lines /\ record.id = r
  BY DEF Lines, Records, Statuses
<1>2. /\ n \in Nat /\ DOMAIN lines = 1 .. n /\ DOMAIN lines' = 1 .. n + 1
      /\ \A i \in 1 .. n : lines'[i] = lines[i]
      /\ lines'[n + 1] = record
  BY <1>1, Appended DEF RecordLine
<1>3. /\ pc[r] = "new" /\ pending' = pending
      /\ pc' = [pc EXCEPT ![r] = "newline"] /\ r \in Callers
      /\ pc \in [Callers -> RunStates]
  BY DEF RecordLine, Move, TypeOK, Callers
<1>4. \A s \in Versions : \A i \in DOMAIN s : s[i].id # r
  BY <1>3 DEF Fresh
<1>5. lines \in Versions /\ Versions' = {lines'} \cup {pending[q] : q \in Runs}
  BY <1>3 DEF Versions
<1> HIDE DEF record, n
<1>6. ASSUME NEW s \in Versions', NEW b \in Runs, Before(s, r, b)
      PROVE  FALSE
  <2>1. PICK i \in DOMAIN s, j \in DOMAIN s : i < j /\ s[i].id = r /\ s[j].id = b
    BY <1>6 DEF Before
  <2>2. CASE s = lines'
    BY <1>2, <1>4, <1>5, <2>1, <2>2
  <2>3. CASE s # lines'
    BY <1>4, <1>5, <2>1, <2>3 DEF Versions
  <2> QED
    BY <2>2, <2>3
<1>7. ASSUME NEW s \in Versions', NEW a \in Runs \ {r}, NEW b \in Runs \ {r}, Before(s, a, b)
      PROVE  \E t \in Versions : Before(t, a, b)
  <2>1. PICK i \in DOMAIN s, j \in DOMAIN s : i < j /\ s[i].id = a /\ s[j].id = b
    BY <1>7 DEF Before
  <2>2. CASE s = lines'
    <3>1. i \in 1 .. n /\ j \in 1 .. n
      BY <1>1, <1>2, <2>1, <2>2
    <3>2. Before(lines, a, b)
      BY <1>2, <2>1, <2>2, <3>1 DEF Before
    <3> QED
      BY <1>5, <2>2, <3>2
  <2>3. CASE s # lines'
    BY <1>5, <1>7, <2>3 DEF Versions
  <2> QED
    BY <2>2, <2>3
<1>8. ASSUME NEW s \in Versions', NEW t \in Versions', NEW a \in Runs, NEW b \in Runs,
             Before(s, a, b), Before(t, b, a)
      PROVE  FALSE
  <2>1. a # r /\ b # r
    BY <1>6, <1>8
  <2>2. PICK u \in Versions : Before(u, a, b)
    BY <1>7, <1>8, <2>1
  <2>3. PICK v \in Versions : Before(v, b, a)
    BY <1>7, <1>8, <2>1
  <2> QED
    BY <2>2, <2>3 DEF RecordsOrdered, Versions
<1>9. RecordsOrdered'
  BY <1>8 DEF RecordsOrdered, Versions, Before
<1>10. ASSUME NEW s \in Versions', NEW i \in DOMAIN s, s[i].id \in Runs
       PROVE  pc'[s[i].id] # "new"
  <2>1. CASE s[i].id = r
    BY <1>3, <2>1
  <2>2. CASE s[i].id # r
    <3>1. \E t \in Versions : \E j \in DOMAIN t : t[j].id = s[i].id
      <4>1. CASE s = lines'
        BY <1>1, <1>2, <1>5, <2>2, <4>1
      <4>2. CASE s # lines'
        BY <1>5, <4>2 DEF Versions
      <4> QED
        BY <4>1, <4>2
    <3>2. pc[s[i].id] # "new"
      BY <1>10, <3>1 DEF Fresh
    <3> QED
      BY <1>3, <1>10, <2>2, <3>2 DEF Callers
  <2> QED
    BY <2>1, <2>2
<1>11. Fresh'
  BY <1>10 DEF Fresh
<1> QED
  BY <1>9, <1>11

(***************************************************************************)
(* Every other step makes its lists out of old ones in place.              *)
(***************************************************************************)
LEMMA OrderStep ==
  ASSUME TimelineAssumption, TypeOK, RecordsOrdered, Fresh, [Next]_vars
  PROVE  RecordsOrdered' /\ Fresh'
<1> USE DEF counters, Move
<1>1. Garbage.id \notin Runs /\ Garbage \in Lines
  BY GarbageIsNoRecord
<1>2. \A s : Derived(s, s) /\ Derived(<<>>, s)
  BY DEF Derived
<1>3. lines \in Versions /\ \A r \in Runs : pending[r] \in Versions
  BY DEF Versions
<1>4. Versions # {} /\ Versions' = {lines'} \cup {pending'[r] : r \in Runs}
  BY <1>3 DEF Versions
<1>5. SUFFICES ASSUME \A r \in Runs : ~(RecordLine(r) /\ ~unended)
               PROVE  /\ \A r \in Runs : pc'[r] = "new" => pc[r] = "new"
                      /\ \E t \in Versions : Derived(lines', t)
                      /\ \A r \in Runs : \E t \in Versions : Derived(pending'[r], t)
  <2>1. CASE \E r \in Runs : RecordLine(r) /\ ~unended
    BY <2>1, RecordedLast
  <2>2. CASE ~\E r \in Runs : RecordLine(r) /\ ~unended
    <3>1. \A s \in Versions' : \E t \in Versions : Derived(s, t)
      BY <1>4, <1>5, <2>2
    <3>2. \A r \in Runs : pc'[r] = "new" => pc[r] = "new"
      BY <1>5, <2>2
    <3> QED
      BY <3>1, <3>2, DerivedKeepsOrder
  <2> QED
    BY <2>1, <2>2
<1> DEFINE Goal == /\ \A r \in Runs : pc'[r] = "new" => pc[r] = "new"
                   /\ \E t \in Versions : Derived(lines', t)
                   /\ \A r \in Runs : \E t \in Versions : Derived(pending'[r], t)
<1> USE DEF TypeOK, Callers
<1>6. ASSUME NEW line \in Lines, unended \/ line = Garbage
      PROVE  Derived(AppendLine(line), lines)
  <2> DEFINE s == AppendLine(line)
  <2>1. ASSUME NEW i \in DOMAIN s
        PROVE  s[i] = Garbage \/ (i \in DOMAIN lines /\ s[i] = lines[i])
    <3>1. CASE unended
      BY <3>1, Appended
    <3>2. CASE ~unended
      <4>1. i \in 1 .. Len(lines) \/ i = Len(lines) + 1
        BY <3>2, Appended
      <4>2. line = Garbage
        BY <1>6, <3>2
      <4> QED
        BY <3>2, <4>1, <4>2, Appended
    <3> QED
      BY <3>1, <3>2
  <2> QED
    BY <1>1, <2>1 DEF Derived
<1>7. ASSUME NEW r \in Runs, RecordLine(r) PROVE Goal
  <2>1. [id |-> r, status |-> "queued"] \in Lines
    BY DEF Lines, Records, Statuses
  <2> QED
    BY <1>2, <1>3, <1>5, <1>6, <1>7, <2>1 DEF RecordLine
<1>8. ASSUME NEW r \in Runs, RecordNewline(r) \/ RecordSkipped(r) PROVE Goal
  BY <1>2, <1>3, <1>8 DEF RecordNewline, RecordSkipped
<1>9. ASSUME NEW r \in Runs, RecordFails(r) PROVE Goal
  BY <1>1, <1>2, <1>3, <1>6, <1>9 DEF RecordFails
<1>10. ASSUME NEW r \in Runs, UpdateRead(r) PROVE Goal
  <2>1. NextStatus(status[r]) \in Statuses
    BY DEF NextStatus, Statuses
  <2>2. Readable => Derived(Replaced(lines, r, NextStatus(status[r])), lines)
    BY <2>1, ReplacedRecords DEF Derived
  <2>3. \A q \in Runs : pending'[q] = pending[q] \/ Derived(pending'[q], lines)
    BY <1>10, <2>2 DEF UpdateRead
  <2> QED
    BY <1>2, <1>3, <1>10, <2>3 DEF UpdateRead
<1>11. ASSUME NEW r \in Runs, Truncate(r) PROVE Goal
  BY <1>2, <1>3, <1>11 DEF Truncate
<1>12. ASSUME NEW r \in Runs, Flush(r) PROVE Goal
  <2>1. Derived(lines', pending[r])
    BY <1>1, <1>12, Flushed DEF Derived
  <2> QED
    BY <1>2, <1>3, <1>12, <2>1 DEF Flush
<1>13. ASSUME NEW r \in Runs, FinishRewrite(r) PROVE Goal
  BY <1>2, <1>3, <1>13 DEF FinishRewrite
<1>14. ASSUME NEW r \in Runs, RewriteFails(r) PROVE Goal
  BY <1>2, <1>3, <1>14 DEF RewriteFails
<1>15. CASE ResetRead \/ ResetClear \/ ResetFails
  BY <1>2, <1>3, <1>15 DEF ResetRead, ResetClear, ResetFails
<1>16. CASE Crash
  BY <1>2, <1>3, <1>16 DEF Crash
<1>17. CASE UNCHANGED vars
  BY <1>2, <1>3, <1>17 DEF vars
<1> QED
  BY <1>7, <1>8, <1>9, <1>10, <1>11, <1>12, <1>13, <1>14, <1>15, <1>16, <1>17 DEF Next

(***************************************************************************)
(* The empty list has no places.                                           *)
(***************************************************************************)
LEMMA NoLines == DOMAIN <<>> = {}
<1>1. <<>> \in Seq(Nat) /\ Len(<<>>) = 0
  BY EmptySeq
<1>2. DOMAIN <<>> = 1 .. 0
  BY <1>1, LenProperties
<1> QED
  BY <1>2

(***************************************************************************)
(* The inductive invariant holds at first.                                 *)
(***************************************************************************)
LEMMA InitIInv == TimelineAssumption /\ Init => IInv
<1> SUFFICES ASSUME TimelineAssumption, Init PROVE IInv
  OBVIOUS
<1> USE DEF TimelineAssumption, Init, Callers, NoOne, TheReset
<1>1. TypeOK
  <2>1. <<>> \in Seq(Records \cup {Garbage}) /\ <<>> \in Seq(Records)
    BY EmptySeq
  <2>2. pc \in [Callers -> RunStates]
    BY DEF RunStates
  <2>3. status \in [Runs -> Statuses]
    BY DEF Statuses
  <2>4. pending \in [Runs -> Seq(Records)]
    BY <2>1
  <2>5. lines \in Seq(Records \cup {Garbage})
    BY <2>1
  <2>6. /\ unended \in BOOLEAN /\ writer \in BOOLEAN
        /\ mutex \in Callers \cup {NoOne}
    OBVIOUS
  <2>7. resets \in 0 .. MaxResets /\ failures \in 0 .. MaxFailures /\ crashes \in 0 .. MaxCrashes
    <3>1. resets = 0 /\ failures = 0 /\ crashes = 0
      OBVIOUS
    <3>2. MaxResets \in Nat /\ MaxFailures \in Nat /\ MaxCrashes \in Nat
      OBVIOUS
    <3> HIDE DEF Init, TimelineAssumption
    <3> QED
      BY <3>1, <3>2
  <2> QED
    BY <2>2, <2>3, <2>4, <2>5, <2>6, <2>7 DEF TypeOK
<1>6. DOMAIN <<>> = {}
  BY NoLines
<1>2. Locked
  BY DEF Locked
<1>3. \A s \in Versions : s = <<>>
  BY DEF Versions
<1>4. Fresh /\ RecordsOrdered
  <2>1. \A s \in Versions : DOMAIN s = {}
    BY <1>3, <1>6
  <2> QED
    BY <2>1 DEF Fresh, RecordsOrdered, Versions, Before
<1>5. Sound
  <2>1. DOMAIN lines = {}
    BY <1>6
  <2> QED
    BY <2>1 DEF Sound, Readable
<1> QED
  BY <1>1, <1>2, <1>4, <1>5 DEF IInv

(***************************************************************************)
(* Every step keeps it.                                                    *)
(***************************************************************************)
LEMMA StepIInv == TimelineAssumption /\ IInv /\ [Next]_vars => IInv'
BY TypeStep, LockedStep, SoundStep, OrderStep DEF IInv

(***************************************************************************)
(* With a line that does not parse and no one who read the file before,    *)
(* no step writes the file anew: update and reset read it first, and fail. *)
(***************************************************************************)
LEMMA SpoiltStep ==
  ASSUME TimelineAssumption, TypeOK, Spoilt, [Next]_vars
  PROVE  Spoilt'
<1> USE DEF TypeOK, Callers, counters, Move, Spoilt
<1>1. Runs \subseteq Callers /\ TheReset \in Callers
  OBVIOUS
<1>2. \A line \in Lines : \E i \in DOMAIN AppendLine(line) : AppendLine(line)[i] = Garbage
  <2>1. PICK k \in DOMAIN lines : lines[k] = Garbage
    BY DEF Readable
  <2> SUFFICES ASSUME NEW line \in Lines
               PROVE  \E i \in DOMAIN AppendLine(line) : AppendLine(line)[i] = Garbage
    OBVIOUS
  <2>2. k \in DOMAIN AppendLine(line) /\ AppendLine(line)[k] \in {lines[k], Garbage}
    <3>1. CASE unended
      BY <2>1, <3>1, Appended
    <3>2. CASE ~unended
      BY <2>1, <3>2, Appended
    <3> QED
      BY <3>1, <3>2
  <2> QED
    BY <2>1, <2>2
<1>3. Garbage \in Lines
  BY GarbageIsNoRecord
<1>4. ASSUME NEW r \in Runs, RecordLine(r) PROVE Spoilt'
  <2>1. [id |-> r, status |-> "queued"] \in Lines
    BY DEF Lines, Records, Statuses
  <2> QED
    BY <1>1, <1>2, <1>4, <2>1 DEF RecordLine, Readable
<1>5. ASSUME NEW r \in Runs, RecordNewline(r) \/ RecordSkipped(r) PROVE Spoilt'
  BY <1>1, <1>5 DEF RecordNewline, RecordSkipped, Readable
<1>6. ASSUME NEW r \in Runs, RecordFails(r) PROVE Spoilt'
  BY <1>1, <1>2, <1>3, <1>6 DEF RecordFails, Readable
<1>7. ASSUME NEW r \in Runs, UpdateRead(r) PROVE Spoilt'
  BY <1>1, <1>7 DEF UpdateRead, Readable
<1>8. ASSUME NEW r \in Runs, Truncate(r) \/ Flush(r) \/ FinishRewrite(r) \/ RewriteFails(r)
      PROVE  Spoilt'
  BY <1>1, <1>8 DEF Truncate, Flush, FinishRewrite, RewriteFails
<1>9. CASE ResetRead \/ ResetClear \/ ResetFails
  BY <1>1, <1>9 DEF ResetRead, ResetClear, ResetFails, Readable
<1>10. CASE Crash
  BY <1>10 DEF Crash, Readable
<1>11. CASE UNCHANGED vars
  BY <1>11 DEF vars, Readable
<1> QED
  BY <1>4, <1>5, <1>6, <1>7, <1>8, <1>9, <1>10, <1>11 DEF Next

(***************************************************************************)
(* The state of the timeline stays well typed.                             *)
(***************************************************************************)
THEOREM TypeCorrect == Spec => []TypeOK
<1>1. IInv => TypeOK
  BY DEF IInv
<1> QED
  BY InitIInv, StepIInv, TimelineAssumption, <1>1, PTL DEF Spec

(***************************************************************************)
(* However updates, records and resets of any number of runs interleave,   *)
(* fail or are cut short by a crash, no run's record is ever duplicated or *)
(* moved past another's, in the file or in what is about to be written.    *)
(***************************************************************************)
THEOREM OrderSafe == Spec => []RecordsOrdered
<1>1. IInv => RecordsOrdered
  BY DEF IInv
<1> QED
  BY InitIInv, StepIInv, TimelineAssumption, <1>1, PTL DEF Spec

(***************************************************************************)
(* Without I/O errors and crashes, the file parses, ends with a newline    *)
(* and can be appended to whenever no one holds the mutex.                 *)
(***************************************************************************)
THEOREM QuietSafe == Spec => []QuietFileIsSound
<1>1. IInv => QuietFileIsSound
  BY DEF IInv, Sound, QuietFileIsSound
<1> QED
  BY InitIInv, StepIInv, TimelineAssumption, <1>1, PTL DEF Spec

(***************************************************************************)
(* A line that does not parse is there for good once no update or reset    *)
(* is about to write the file anew.                                        *)
(***************************************************************************)
THEOREM SpoiltIsFinal == Spec => SpoiltForGood
<1>1. TypeOK /\ [Next]_vars => [Spoilt => Spoilt']_vars
  BY SpoiltStep, TimelineAssumption
<1> QED
  BY TypeCorrect, <1>1, PTL DEF Spec, SpoiltForGood

-----------------------------------------------------------------------------
(***************************************************************************)
(* What sequences of sequences are joined to.                              *)
(***************************************************************************)

(***************************************************************************)
(* A set of naturals that is not empty has a least element.                *)
(***************************************************************************)
LEMMA Least ==
  ASSUME NEW T, T \subseteq Nat, T # {}
  PROVE  \E n \in T : \A m \in T : n <= m
<1>1. PICK n \in T : \A m \in T : <<m, n>> \notin OpToRel(<, Nat)
  BY NatLessThanWellFounded, WFMin
<1>2. \A m \in T : ~(m < n)
  BY <1>1 DEF OpToRel
<1> QED
  BY <1>2

(***************************************************************************)
(* Induction up to N, over a set.                                          *)
(***************************************************************************)
LEMMA Upwards ==
  ASSUME NEW N \in Nat, NEW G, 0 \in G, \A n \in 1..N : n - 1 \in G => n \in G
  PROVE  N \in G
<1> DEFINE T == {n \in 0..N : n \notin G}
<1>1. SUFFICES ASSUME N \notin G PROVE FALSE
  OBVIOUS
<1>0. T # {}
  BY <1>1
<1>2. T \subseteq Nat
  OBVIOUS
<1>3. PICK n \in T : \A m \in T : n <= m
  <2> HIDE DEF T
  <2> QED
    BY <1>0, <1>2, Least
<1>4. n \in 1..N /\ n - 1 \in 0..N /\ ~(n <= n - 1)
  BY <1>3
<1>5. n - 1 \notin T
  BY <1>3, <1>4
<1>6. n - 1 \in G
  BY <1>4, <1>5
<1> QED
  BY <1>3, <1>4, <1>6

\* f holds the concatenations of the first sequences of seqs.
Flattens(f, seqs) ==
  \A i \in 1..Len(seqs) : f[i] = IF i = 1 THEN seqs[i] ELSE f[i - 1] \o seqs[i]

(***************************************************************************)
(* There is such a function.                                               *)
(***************************************************************************)
LEMMA SomeFlattens ==
  ASSUME NEW S, NEW seqs \in Seq(Seq(S))
  PROVE  \E f \in [1..Len(seqs) -> Seq(S)] : Flattens(f, seqs)
<1> DEFINE Upto(f, n) == \A i \in 1..n : f[i] = IF i = 1 THEN seqs[i] ELSE f[i - 1] \o seqs[i]
           Good(n) == \E f \in [1..n -> Seq(S)] : Upto(f, n)
           G == {n \in 0..Len(seqs) : Good(n)}
<1>1. Len(seqs) \in Nat /\ \A i \in 1..Len(seqs) : seqs[i] \in Seq(S)
  OBVIOUS
<1>2. Good(0)
  <2>1. [i \in 1..0 |-> <<>>] \in [1..0 -> Seq(S)] /\ Upto([i \in 1..0 |-> <<>>], 0)
    OBVIOUS
  <2> QED
    BY <2>1
<1>3. ASSUME NEW n \in 1..Len(seqs), Good(n - 1) PROVE Good(n)
  <2>1. PICK f \in [1..(n - 1) -> Seq(S)] : Upto(f, n - 1)
    BY <1>3
  <2> DEFINE last == IF n = 1 THEN seqs[1] ELSE f[n - 1] \o seqs[n]
             g == [i \in 1..n |-> IF i = n THEN last ELSE f[i]]
  <2>2. n = 1 \/ (n - 1 \in 1..(n - 1) /\ f[n - 1] \in Seq(S))
    BY <1>1
  <2>3. last \in Seq(S)
    BY <1>1, <2>2, ConcatProperties
  <2>4. \A i \in 1..n : i = n \/ (i \in 1..(n - 1) /\ i - 1 # n /\ (i # 1 => i - 1 \in 1..n))
    BY <1>1
  <2>5. g \in [1..n -> Seq(S)]
    <3> HIDE DEF last
    <3> QED
      BY <2>3, <2>4
  <2>6. Upto(g, n)
    <3> SUFFICES ASSUME NEW i \in 1..n
                 PROVE  g[i] = IF i = 1 THEN seqs[i] ELSE g[i - 1] \o seqs[i]
      OBVIOUS
    <3>1. CASE i = n
      <4>1. n # 1 => n - 1 \in 1..n /\ n - 1 # n /\ g[n - 1] = f[n - 1]
        BY <1>1
      <4>2. g[n] = last
        OBVIOUS
      <4> HIDE DEF g
      <4> QED
        BY <3>1, <4>1, <4>2
    <3>2. CASE i # n
      <4>1. g[i] = f[i] /\ (i # 1 => g[i - 1] = f[i - 1])
        BY <2>4, <3>2
      <4>2. i \in 1..(n - 1)
        BY <2>4, <3>2
      <4> HIDE DEF g
      <4> QED
        BY <2>1, <4>1, <4>2
    <3> QED
      BY <3>1, <3>2
  <2> HIDE DEF g
  <2> QED
    BY <2>5, <2>6
<1> HIDE DEF Good
<1>4. 0 \in G /\ \A n \in 1..Len(seqs) : n - 1 \in G => n \in G
  BY <1>1, <1>2, <1>3
<1>5. Good(Len(seqs))
  <2> HIDE DEF G
  <2>1. Len(seqs) \in G
    BY <1>1, <1>4, Upwards
  <2> QED
    BY <2>1 DEF G
<1> QED
  BY <1>5 DEF Good, Flattens

(***************************************************************************)
(* It is the one that FlattenSeq takes.                                    *)
(***************************************************************************)
LEMMA FlattenIs ==
  ASSUME NEW S, NEW seqs \in Seq(Seq(S)), seqs # <<>>,
         NEW f \in [1..Len(seqs) -> Seq(S)], Flattens(f, seqs)
  PROVE  FlattenSeq(seqs) = f[Len(seqs)]
<1> DEFINE Def(g) == g = [i \in 1..Len(seqs) |-> IF i = 1 THEN seqs[i] ELSE g[i - 1] \o seqs[i]]
           flatten == CHOOSE g : Def(g)
<1>1. Len(seqs) \in Nat \ {0}
  OBVIOUS
<1>2. Def(f)
  BY DEF Flattens
<1>3. Def(flatten)
  BY <1>2
<1>4. FlattenSeq(seqs) = flatten[Len(seqs)]
  BY <1>1 DEF FlattenSeq
<1> HIDE DEF flatten
<1> DEFINE G == {n \in 0..Len(seqs) : n = 0 \/ flatten[n] = f[n]}
<1>5. ASSUME NEW n \in 1..Len(seqs), n - 1 = 0 \/ flatten[n - 1] = f[n - 1]
      PROVE  flatten[n] = f[n]
  <2>1. /\ flatten[n] = IF n = 1 THEN seqs[n] ELSE flatten[n - 1] \o seqs[n]
        /\ f[n] = IF n = 1 THEN seqs[n] ELSE f[n - 1] \o seqs[n]
    BY <1>2, <1>3
  <2> QED
    BY <1>1, <1>5, <2>1
<1>6. 0 \in G /\ \A n \in 1..Len(seqs) : n - 1 \in G => n \in G
  BY <1>1, <1>5
<1>7. Len(seqs) \in G
  <2> HIDE DEF G
  <2> QED
    BY <1>1, <1>6, Upwards
<1> QED
  BY <1>1, <1>4, <1>7

(***************************************************************************)
(* What FlattenSeq makes of no sequences.                                  *)
(***************************************************************************)
LEMMA FlattenEmpty == FlattenSeq(<<>>) = <<>>
BY DEF FlattenSeq

(***************************************************************************)
(* What FlattenSeq makes of one sequence more.                             *)
(***************************************************************************)
LEMMA FlattenAppend ==
  ASSUME NEW S, NEW seqs \in Seq(Seq(S)), NEW s \in Seq(S)
  PROVE  /\ FlattenSeq(seqs) \in Seq(S)
         /\ FlattenSeq(Append(seqs, s)) = FlattenSeq(seqs) \o s
<1> DEFINE n == Len(seqs)
           more == Append(seqs, s)
<1>1. /\ n \in Nat /\ more \in Seq(Seq(S)) /\ Len(more) = n + 1 /\ more # <<>> /\ more[n + 1] = s
      /\ \A i \in 1..n : more[i] = seqs[i]
  BY AppendProperties, LenProperties
<1> HIDE DEF more
<1>2. PICK f \in [1..Len(more) -> Seq(S)] : Flattens(f, more)
  BY <1>1, SomeFlattens
<1>3. FlattenSeq(more) = f[n + 1]
  BY <1>1, <1>2, FlattenIs
<1>4. CASE seqs = <<>>
  <2>1. f[1] = s /\ FlattenSeq(seqs) = <<>>
    BY <1>1, <1>2, <1>4, FlattenEmpty DEF Flattens
  <2>2. <<>> \in Seq(S) /\ <<>> \o s = s
    BY ConcatEmptySeq
  <2>3. n = 0
    BY <1>4
  <2> QED
    BY <1>3, <2>1, <2>2, <2>3 DEF more
<1>5. CASE seqs # <<>>
  <2> DEFINE g == [i \in 1..n |-> f[i]]
  <2>1. g \in [1..n -> Seq(S)] /\ n # 0
    BY <1>1, <1>2, <1>5
  <2>2. Flattens(g, seqs)
    <3> SUFFICES ASSUME NEW i \in 1..n PROVE g[i] = IF i = 1 THEN seqs[i] ELSE g[i - 1] \o seqs[i]
      BY DEF Flattens
    <3>1. i \in 1..Len(more) /\ (i = 1 \/ i - 1 \in 1..n)
      BY <1>1
    <3>2. f[i] = IF i = 1 THEN seqs[i] ELSE f[i - 1] \o seqs[i]
      BY <1>1, <1>2, <3>1 DEF Flattens
    <3>3. g[i] = f[i] /\ (i # 1 => g[i - 1] = f[i - 1])
      BY <3>1
    <3> HIDE DEF g
    <3> QED
      BY <3>2, <3>3
  <2>0. n \in 1..n /\ g[n] = f[n]
    BY <1>1, <2>1
  <2>3. FlattenSeq(seqs) = g[n] /\ g[n] \in Seq(S)
    <3> HIDE DEF g
    <3> QED
      BY <1>1, <1>5, <2>0, <2>1, <2>2, FlattenIs
  <2>4. f[n + 1] = f[n] \o s
    <3>1. n + 1 \in 1..Len(more) /\ n + 1 # 1 /\ n + 1 - 1 = n
      BY <1>1, <2>1
    <3>2. PICK k \in 1..Len(more) : k = n + 1 /\ k # 1 /\ k - 1 = n
      BY <3>1
    <3>3. f[k] = f[k - 1] \o more[k]
      BY <1>2, <3>2 DEF Flattens
    <3> QED
      BY <1>1, <3>2, <3>3
  <2> HIDE DEF g
  <2> QED
    BY <1>3, <2>0, <2>3, <2>4 DEF more
<1> QED
  BY <1>4, <1>5

(***************************************************************************)
(* The same for the beginnings of a sequence of sequences: what inductions *)
(* over it step through.                                                   *)
(***************************************************************************)
LEMMA FlattenUpto ==
  ASSUME NEW S, NEW seqs \in Seq(Seq(S))
  PROVE  /\ FlattenSeq(SubSeq(seqs, 1, 0)) = <<>>
         /\ FlattenSeq(SubSeq(seqs, 1, Len(seqs))) = FlattenSeq(seqs)
         /\ \A n \in 0..Len(seqs) : FlattenSeq(SubSeq(seqs, 1, n)) \in Seq(S)
         /\ \A n \in 1..Len(seqs) :
              FlattenSeq(SubSeq(seqs, 1, n)) = FlattenSeq(SubSeq(seqs, 1, n - 1)) \o seqs[n]
<1>1. Len(seqs) \in Nat /\ \A i \in 1..Len(seqs) : seqs[i] \in Seq(S)
  OBVIOUS
<1>2. SubSeq(seqs, 1, 0) = <<>> /\ SubSeq(seqs, 1, Len(seqs)) = seqs
  BY SubSeqEmpty, SubSeqFull
<1>3. \A n \in 0..Len(seqs) : SubSeq(seqs, 1, n) \in Seq(Seq(S))
  BY <1>1, SubSeqProperties
<1>4. \A n \in 0..Len(seqs) : FlattenSeq(SubSeq(seqs, 1, n)) \in Seq(S)
  BY <1>3, FlattenAppend, EmptySeq
<1>5. ASSUME NEW n \in 1..Len(seqs)
      PROVE  FlattenSeq(SubSeq(seqs, 1, n)) = FlattenSeq(SubSeq(seqs, 1, n - 1)) \o seqs[n]
  <2>1. SubSeq(seqs, 1, n) = Append(SubSeq(seqs, 1, n - 1), seqs[n])
    BY <1>1, SubSeqRecursiveSecond
  <2>2. n - 1 \in 0..Len(seqs)
    BY <1>1
  <2>3. SubSeq(seqs, 1, n - 1) \in Seq(Seq(S)) /\ seqs[n] \in Seq(S)
    BY <1>1, <1>3, <2>2
  <2> QED
    BY <2>1, <2>3, FlattenAppend
<1> QED
  BY <1>2, <1>4, <1>5, FlattenEmpty

(***************************************************************************)
(* The longer the sequences, the longer what they are joined to.           *)
(***************************************************************************)
LEMMA FlattenLonger ==
  ASSUME NEW S, NEW a \in Seq(Seq(S)), NEW b \in Seq(Seq(S)), Len(a) = Len(b),
         \A i \in 1..Len(a) : Len(a[i]) <= Len(b[i])
  PROVE  /\ Len(FlattenSeq(a)) <= Len(FlattenSeq(b))
         /\ (\E i \in 1..Len(a) : Len(a[i]) < Len(b[i])) => Len(FlattenSeq(a)) < Len(FlattenSeq(b))
<1> DEFINE x(n) == Len(FlattenSeq(SubSeq(a, 1, n)))
           y(n) == Len(FlattenSeq(SubSeq(b, 1, n)))
           Good(n) == /\ x(n) <= y(n)
                      /\ (\E i \in 1..n : Len(a[i]) < Len(b[i])) => x(n) < y(n)
           G == {n \in 0..Len(a) : Good(n)}
<1>1. /\ Len(a) \in Nat
      /\ \A i \in 1..Len(a) : a[i] \in Seq(S) /\ Len(a[i]) \in Nat
      /\ \A i \in 1..Len(a) : b[i] \in Seq(S) /\ Len(b[i]) \in Nat
  OBVIOUS
<1>2. /\ \A n \in 0..Len(a) : x(n) \in Nat /\ y(n) \in Nat
      /\ x(0) = 0 /\ y(0) = 0
      /\ x(Len(a)) = Len(FlattenSeq(a)) /\ y(Len(a)) = Len(FlattenSeq(b))
  <2>1. /\ \A n \in 0..Len(a) : /\ FlattenSeq(SubSeq(a, 1, n)) \in Seq(S)
                                /\ FlattenSeq(SubSeq(b, 1, n)) \in Seq(S)
        /\ FlattenSeq(SubSeq(a, 1, 0)) = <<>> /\ FlattenSeq(SubSeq(b, 1, 0)) = <<>>
        /\ FlattenSeq(SubSeq(a, 1, Len(a))) = FlattenSeq(a)
        /\ FlattenSeq(SubSeq(b, 1, Len(a))) = FlattenSeq(b)
    BY FlattenUpto
  <2> QED
    BY <2>1, LenProperties
<1>3. \A n \in 1..Len(a) : x(n) = x(n - 1) + Len(a[n]) /\ y(n) = y(n - 1) + Len(b[n])
  <2> TAKE n \in 1..Len(a)
  <2>1. n - 1 \in 0..Len(a)
    BY <1>1
  <2>2. /\ FlattenSeq(SubSeq(a, 1, n)) = FlattenSeq(SubSeq(a, 1, n - 1)) \o a[n]
        /\ FlattenSeq(SubSeq(b, 1, n)) = FlattenSeq(SubSeq(b, 1, n - 1)) \o b[n]
        /\ FlattenSeq(SubSeq(a, 1, n - 1)) \in Seq(S) /\ FlattenSeq(SubSeq(b, 1, n - 1)) \in Seq(S)
    BY <2>1, FlattenUpto
  <2>3. Len(FlattenSeq(SubSeq(a, 1, n))) = Len(FlattenSeq(SubSeq(a, 1, n - 1))) + Len(a[n])
    BY ONLY <1>1, <2>2, ConcatProperties
  <2>4. Len(FlattenSeq(SubSeq(b, 1, n))) = Len(FlattenSeq(SubSeq(b, 1, n - 1))) + Len(b[n])
    BY ONLY <1>1, <2>2, ConcatProperties
  <2> QED
    BY <2>3, <2>4
<1> HIDE DEF x, y
<1>4. ASSUME NEW n \in 1..Len(a), Good(n - 1) PROVE Good(n)
  <2>1. n - 1 \in 0..Len(a) /\ n \in 0..Len(a)
    BY <1>1
  <2>0. /\ x(n - 1) \in Nat /\ y(n - 1) \in Nat /\ x(n - 1) <= y(n - 1)
        /\ Len(a[n]) \in Nat /\ Len(b[n]) \in Nat /\ Len(a[n]) <= Len(b[n])
        /\ x(n) = x(n - 1) + Len(a[n]) /\ y(n) = y(n - 1) + Len(b[n])
    BY <1>1, <1>2, <1>3, <1>4, <2>1
  <2>2. x(n) <= y(n)
    BY <2>0
  <2>3. ASSUME NEW i \in 1..n, Len(a[i]) < Len(b[i]) PROVE x(n) < y(n)
    <3>1. CASE i = n
      BY <2>0, <2>3, <3>1
    <3>2. CASE i # n
      <4>1. i \in 1..(n - 1)
        BY <2>1, <3>2
      <4>2. x(n - 1) < y(n - 1)
        BY <1>4, <2>3, <4>1
      <4> QED
        BY <2>0, <4>2
    <3> QED
      BY <3>1, <3>2
  <2> QED
    BY <2>2, <2>3
<1>5. Good(0)
  BY <1>2
<1> HIDE DEF Good
<1>6. 0 \in G /\ \A n \in 1..Len(a) : n - 1 \in G => n \in G
  BY <1>1, <1>4, <1>5
<1>7. Len(a) \in G
  <2> HIDE DEF G
  <2> QED
    BY <1>1, <1>6, Upwards
<1> QED
  BY <1>1, <1>2, <1>7 DEF Good

-----------------------------------------------------------------------------
(***************************************************************************)
(* Export: the archive of a history.                                       *)
(***************************************************************************)

\* The records an export can meet, and a history of them.
AllRecorded == {Recorded(e, n) : e \in ExportEvents, n \in Nat}
History(s) == s \in Seq(AllRecorded) /\ \A i \in DOMAIN s : s[i].id = i

\* The bundle of a history, as write_tarball puts it together.
Bundle(events) ==
  [kind |-> "bundle", events |-> events, metadata |-> from_events(events).metadata,
   readme |-> generate_readme(from_events(events)), replay |-> replay_script(events),
   files |-> RequiredFiles \cup {<<"validate.sh">>, <<"replay.R">>}
             \cup extract_code_files(events) \cup DecodedPlots(events)]

ArchiveIInv ==
  /\ History(recorded)
  /\ archive = NoArchive \/ \E events \in Seq(AllRecorded) :
                                events # <<>> /\ History(events) /\ archive = Bundle(events)

(***************************************************************************)
(* What a record of a run says of its blocks and plots.                    *)
(***************************************************************************)
LEMMA RecordedFields ==
  ASSUME ExportAssumption, NEW e \in ExportEvents, NEW n
  PROVE  /\ Recorded(e, n).id = n
         /\ Recorded(e, n).blocks = e.blocks
         /\ Recorded(e, n).plots =
                [p \in DOMAIN e.plots |-> [file |-> <<n, p>>, data |-> e.plots[p]]]
<1> DEFINE plots == [p \in DOMAIN e.plots |-> [file |-> <<n, p>>, data |-> e.plots[p]]]
           kept == [e EXCEPT !.plots = plots]
           named == With(kept, [id |-> n])
<1>1. {"id", "blocks", "plots"} \cap DOMAIN e = {"blocks", "plots"}
  BY DEF ExportAssumption
<1>2. DOMAIN kept = DOMAIN e /\ kept.blocks = e.blocks /\ kept.plots = plots
  <2> HIDE DEF plots
  <2> QED
    BY <1>1
<1> HIDE DEF kept
<1>3. /\ DOMAIN named = DOMAIN kept \cup {"id"}
      /\ named.id = n /\ named.blocks = kept.blocks /\ named.plots = kept.plots
  BY <1>1, <1>2 DEF With
<1> HIDE DEF named
<1>4. /\ create_record(named).id = named.id
      /\ create_record(named).blocks = named.blocks /\ create_record(named).plots = named.plots
  BY <1>1, <1>2, <1>3 DEF create_record, With
<1>5. Recorded(e, n) = create_record(named)
  BY DEF Recorded, named, kept
<1> QED
  BY <1>2, <1>3, <1>4, <1>5

(***************************************************************************)
(* What a record has in its blocks and plots.                              *)
(***************************************************************************)
LEMMA RecordedShape ==
  ASSUME ExportAssumption, NEW r \in AllRecorded
  PROVE  /\ r.blocks \in Seq(SUBSET STRING)
         /\ r.plots \in Seq([file : {r.id} \X Nat, data : {"image", "broken", "empty"}])
<1>1. PICK e \in ExportEvents, n \in Nat : r = Recorded(e, n)
  BY DEF AllRecorded
<1>2. /\ r.id = n /\ r.blocks = e.blocks
      /\ r.plots = [p \in DOMAIN e.plots |-> [file |-> <<n, p>>, data |-> e.plots[p]]]
  BY <1>1, RecordedFields
<1>3. e.blocks \in Seq(SUBSET STRING) /\ e.plots \in Seq({"image", "broken", "empty"})
  BY DEF ExportAssumption
<1>4. DOMAIN e.plots = 1..Len(e.plots) /\ Len(e.plots) \in Nat
      /\ \A p \in DOMAIN e.plots : e.plots[p] \in {"image", "broken", "empty"}
  BY <1>3
<1> QED
  BY <1>2, <1>3, <1>4, IsASeq

(***************************************************************************)
(* The script accepts the archive of a history just when every plot can be *)
(* decoded and every document was run from.                                *)
(***************************************************************************)
LEMMA ScriptAccepts ==
  ASSUME ExportAssumption, NEW events, History(events), events # <<>>
  PROVE  validate_script(Bundle(events)) <=>
            \A i \in DOMAIN events :
                /\ \A p \in DOMAIN events[i].plots : events[i].plots[p].data = "image"
                /\ events[i].document # NoValue =>
                        \E j \in DOMAIN events :
                            /\ events[j].document = events[i].document
                            /\ events[j].blocks # <<>>
<1> DEFINE files == RequiredFiles \cup {<<"validate.sh">>, <<"replay.R">>}
                    \cup extract_code_files(events) \cup DecodedPlots(events)
           refs == code_files(events) \cup plot_files(events)
<1>1. validate_script(Bundle(events)) <=> refs \subseteq files
  <2>1. Bundle(events).metadata.references = refs /\ Bundle(events).files = files
    BY DEF Bundle, from_events
  <2>2. RequiredFiles \subseteq files
    OBVIOUS
  <2> HIDE DEF files, refs
  <2> QED
    BY <2>1, <2>2 DEF validate_script
<1>2. \A i \in DOMAIN events : events[i].document # NoValue =>
         (<<"code", events[i].document>> \in files <=>
            \E j \in DOMAIN events : /\ events[j].document = events[i].document
                                     /\ events[j].blocks # <<>>)
  BY DEF RequiredFiles, extract_code_files, DecodedPlots
<1>3. \A i \in DOMAIN events : \A p \in DOMAIN events[i].plots :
         <<"plots", events[i].id, p>> \in files <=> events[i].plots[p].data = "image"
  <2> TAKE i \in DOMAIN events
  <2> TAKE p \in DOMAIN events[i].plots
  <2>1. events[i].id = i /\ \A j \in DOMAIN events : events[j].id = j
    BY DEF History
  <2>2. <<"plots", i, p>> \in files <=> <<"plots", i, p>> \in DecodedPlots(events)
    BY DEF RequiredFiles, extract_code_files
  <2>3. <<"plots", i, p>> \in DecodedPlots(events) <=> events[i].plots[p].data = "image"
    BY <2>1 DEF DecodedPlots
  <2> QED
    BY <2>1, <2>2, <2>3
<1>4. refs \subseteq files <=>
         /\ \A i \in DOMAIN events :
               events[i].document # NoValue => <<"code", events[i].document>> \in files
         /\ \A i \in DOMAIN events : \A p \in DOMAIN events[i].plots :
               <<"plots", events[i].id, p>> \in files
  <2> HIDE DEF files
  <2> QED
    BY DEF code_files, plot_files
<1> HIDE DEF files, refs
<1>5. (\A i \in DOMAIN events :
           events[i].document # NoValue => <<"code", events[i].document>> \in files)
      <=> \A i \in DOMAIN events :
             events[i].document # NoValue =>
                \E j \in DOMAIN events : /\ events[j].document = events[i].document
                                         /\ events[j].blocks # <<>>
  BY ONLY <1>2
<1>6. (\A i \in DOMAIN events : \A p \in DOMAIN events[i].plots :
           <<"plots", events[i].id, p>> \in files)
      <=> \A i \in DOMAIN events : \A p \in DOMAIN events[i].plots :
             events[i].plots[p].data = "image"
  BY ONLY <1>3
<1> QED
  BY ONLY <1>1, <1>4, <1>5, <1>6

(***************************************************************************)
(* The replay is the session's code just when no event has two blocks.     *)
(***************************************************************************)
LEMMA ReplayIsWhole ==
  ASSUME ExportAssumption, NEW events, History(events)
  PROVE  replay_script(events) = FlattenSeq([i \in DOMAIN events |->
                                    [b \in DOMAIN events[i].blocks |-> <<events[i].id, b>>]])
         <=> \A i \in DOMAIN events : Len(events[i].blocks) <= 1
<1> DEFINE first == [i \in DOMAIN events |->
                        IF events[i].blocks = <<>> THEN <<>> ELSE <<<<events[i].id, 1>>>>]
           all == [i \in DOMAIN events |-> [b \in DOMAIN events[i].blocks |-> <<events[i].id, b>>]]
           Named == Nat \X Nat
<1>1. /\ DOMAIN events = 1..Len(events) /\ Len(events) \in Nat
      /\ \A i \in 1..Len(events) : events[i] \in AllRecorded /\ events[i].id = i
  BY DEF History
<1>2. \A i \in 1..Len(events) : /\ Len(events[i].blocks) \in Nat
                                /\ DOMAIN events[i].blocks = 1..Len(events[i].blocks)
                                /\ events[i].blocks = <<>> <=> Len(events[i].blocks) = 0
  <2> TAKE i \in 1..Len(events)
  <2>1. events[i].blocks \in Seq(SUBSET STRING)
    BY <1>1, RecordedShape
  <2> QED
    BY <2>1, EmptySeq
<1>3. \A i \in 1..Len(events) :
         /\ first[i] \in Seq(Named) /\ all[i] \in Seq(Named)
         /\ Len(all[i]) = Len(events[i].blocks)
         /\ Len(first[i]) = IF Len(events[i].blocks) = 0 THEN 0 ELSE 1
         /\ Len(events[i].blocks) <= 1 => first[i] = all[i]
  <2> TAKE i \in 1..Len(events)
  <2> DEFINE n == Len(events[i].blocks)
  <2>1. /\ n \in Nat /\ DOMAIN events[i].blocks = 1..n /\ events[i].id = i /\ i \in Nat
        /\ events[i].blocks = <<>> <=> n = 0
    BY <1>1, <1>2
  <2>2. all[i] = [b \in 1..n |-> <<i, b>>] /\ first[i] = IF n = 0 THEN <<>> ELSE <<<<i, 1>>>>
    BY <1>1, <2>1
  <2> HIDE DEF n, all, first
  <2>3. all[i] \in Seq(Named) /\ Len(all[i]) = n
    <3>1. \A b \in 1..n : <<i, b>> \in Named
      BY <2>1
    <3>2. [b \in 1..n |-> <<i, b>>] \in Seq(Named)
      BY <2>1, <3>1, IsASeq
    <3> QED
      BY <2>1, <2>2, <3>2
  <2>4. first[i] \in Seq(Named) /\ Len(first[i]) = IF n = 0 THEN 0 ELSE 1
    <3>1. <<i, 1>> \in Named
      BY <2>1
    <3>2. PICK x \in Named : x = <<i, 1>>
      BY <3>1
    <3>3. <<x>> \in Seq(Named) /\ Len(<<x>>) = 1 /\ <<>> \in Seq(Named) /\ Len(<<>>) = 0
      BY ONLY x \in Named
    <3> QED
      BY ONLY <2>2, <3>2, <3>3
  <2>5. ASSUME n <= 1 PROVE first[i] = all[i]
    <3>1. n = 0 \/ n = 1
      BY <2>1, <2>5
    <3>2. \A b \in 1..n : first[i][b] = all[i][b]
      BY <2>2, <3>1
    <3> QED
      BY <2>3, <2>4, <3>1, <3>2, SeqEqual
  <2> QED
    BY <2>3, <2>4, <2>5 DEF n
<1>4. /\ first \in Seq(Seq(Named)) /\ all \in Seq(Seq(Named))
      /\ Len(first) = Len(events) /\ Len(all) = Len(events)
      /\ DOMAIN first = 1..Len(events) /\ DOMAIN all = 1..Len(events)
  <2>1. DOMAIN first = 1..Len(events) /\ DOMAIN all = 1..Len(events)
    BY <1>1
  <2>2. first = [i \in 1..Len(events) |-> first[i]] /\ all = [i \in 1..Len(events) |-> all[i]]
    BY <1>1
  <2> HIDE DEF first, all
  <2>3. first \in Seq(Seq(Named)) /\ all \in Seq(Seq(Named))
    BY <1>1, <1>3, <2>2, IsASeq
  <2> QED
    BY <1>1, <2>1, <2>3, LenProperties
<1>5. replay_script(events) = FlattenSeq(first)
  BY DEF replay_script
<1> HIDE DEF first, all, Named
<1>6. ASSUME \A i \in DOMAIN events : Len(events[i].blocks) <= 1
      PROVE  FlattenSeq(first) = FlattenSeq(all)
  <2>1. \A i \in 1..Len(events) : first[i] = all[i]
    BY <1>1, <1>3, <1>6
  <2>2. first = all
    BY <1>4, <2>1, SeqEqual
  <2> QED
    BY <2>2
<1>7. ASSUME NEW k \in DOMAIN events, ~(Len(events[k].blocks) <= 1)
      PROVE  FlattenSeq(first) # FlattenSeq(all)
  <2>1. /\ \A i \in 1..Len(first) : Len(first[i]) <= Len(all[i])
        /\ k \in 1..Len(first) /\ Len(first[k]) < Len(all[k])
    <3>1. k \in 1..Len(events) /\ Len(events[k].blocks) \in Nat /\ Len(events[k].blocks) > 1
      BY <1>1, <1>2, <1>7
    <3>2. \A i \in 1..Len(events) : Len(first[i]) <= Len(all[i])
      BY <1>2, <1>3, SMTT(30)
    <3>3. Len(first[k]) = 1 /\ Len(all[k]) = Len(events[k].blocks)
      <4>1. /\ Len(all[k]) = Len(events[k].blocks)
            /\ Len(first[k]) = IF Len(events[k].blocks) = 0 THEN 0 ELSE 1
        BY <1>3, <3>1
      <4> QED
        BY <3>1, <4>1
    <3> QED
      BY <1>4, <3>1, <3>2, <3>3
  <2>2. Len(FlattenSeq(first)) < Len(FlattenSeq(all))
    BY <1>4, <2>1, FlattenLonger
  <2> QED
    BY <2>2
<1> QED
  BY <1>5, <1>6, <1>7 DEF all

(***************************************************************************)
(* The history is numbered, and an archive is the bundle of one.           *)
(***************************************************************************)
LEMMA ArchiveInductive ==
  ASSUME ExportAssumption
  PROVE  /\ ExportInit => ArchiveIInv
         /\ ArchiveIInv /\ [ExportNext]_exportVars => ArchiveIInv'
<1>1. ExportInit => ArchiveIInv
  BY DEF ExportInit, ArchiveIInv, History
<1>2. ASSUME ArchiveIInv, RecordRun PROVE ArchiveIInv'
  <2>1. PICK e \in ExportEvents : recorded' = Append(recorded, Recorded(e, Len(recorded) + 1))
    BY <1>2 DEF RecordRun
  <2>2. PICK r : r = Recorded(e, Len(recorded) + 1)
    OBVIOUS
  <2>3. /\ recorded \in Seq(AllRecorded) /\ Len(recorded) \in Nat
        /\ \A i \in 1..Len(recorded) : recorded[i].id = i
    BY <1>2 DEF ArchiveIInv, History
  <2>4. r \in AllRecorded /\ r.id = Len(recorded) + 1
    <3>1. PICK n \in Nat : n = Len(recorded) + 1
      BY <2>3
    <3>2. r = Recorded(e, n)
      BY <2>2, <3>1
    <3>3. r \in AllRecorded
      BY <3>2 DEF AllRecorded
    <3>4. Recorded(e, n).id = n
      BY RecordedFields
    <3> QED
      BY <3>1, <3>2, <3>3, <3>4
  <2>5. /\ recorded' \in Seq(AllRecorded)
        /\ DOMAIN recorded' = 1..(Len(recorded) + 1)
        /\ \A i \in 1..(Len(recorded) + 1) : recorded'[i].id = i
    BY ONLY <2>1, <2>2, <2>3, <2>4
  <2>6. History(recorded')
    BY <2>5 DEF History
  <2> QED
    BY <1>2, <2>6 DEF ArchiveIInv, RecordRun, History, NoArchive, Bundle
<1>3. ASSUME ArchiveIInv, write_tarball PROVE ArchiveIInv'
  <2>1. archive' = Bundle(recorded) /\ recorded' = recorded /\ recorded # <<>>
    BY <1>3 DEF write_tarball, Bundle
  <2> QED
    BY <1>3, <2>1 DEF ArchiveIInv, History
<1>4. ASSUME ArchiveIInv, UNCHANGED <<recorded, archive>> PROVE ArchiveIInv'
  BY <1>4 DEF ArchiveIInv, NoArchive
<1> QED
  BY <1>1, <1>2, <1>3, <1>4
     DEF ExportNext, exportVars, DeleteImage, ReadTimeline, ReadDocument, materialize_plots,
         RewriteLinks, WriteRMarkdown, render_pdf_document

(***************************************************************************)
(* The archive's own validate.sh (writer.rs, bundle.rs, scripts.rs) accepts*)
(* the archive of a session just when of every document that the history   *)
(* names a block was run, and every plot in it is an image; and replay.R is*)
(* the session's code just when no event has two blocks of code.           *)
(***************************************************************************)
THEOREM ArchiveAlwaysValidates ==
  ASSUME ExportAssumption
  PROVE  ExportSpec => []ArchiveValidates
<1>1. ArchiveIInv => ArchiveValidates
  <2> SUFFICES ASSUME ArchiveIInv, archive.kind = "bundle" PROVE ArchiveValidates
    BY DEF ArchiveValidates
  <2>1. PICK events \in Seq(AllRecorded) :
           events # <<>> /\ History(events) /\ archive = Bundle(events)
    BY DEF ArchiveIInv, NoArchive
  <2>2. archive.events = events /\ archive.replay = replay_script(events)
    BY <2>1 DEF Bundle
  <2>3. validate_script(archive) <=> validate_script(Bundle(events))
    BY <2>1
  <2> QED
    BY <2>1, <2>2, <2>3, ScriptAccepts, ReplayIsWhole DEF ArchiveValidates
<1> QED
  BY <1>1, ArchiveInductive, PTL DEF ExportSpec

\* `earlier` is an order of all of I: the members before each.
Ordered(I, earlier) ==
  /\ IsFiniteSet(I)
  /\ \A i \in I : earlier[i] \subseteq I /\ i \notin earlier[i]
  /\ \A i, j \in I : i = j \/ i \in earlier[j] \/ j \in earlier[i]
  /\ \A i, j \in I : i \in earlier[j] => earlier[i] \subseteq earlier[j]

\* The members are listed, each at its place.
Lists(places, I, earlier) ==
  /\ Cardinality(I) \in Nat
  /\ places \in [1..Cardinality(I) -> I]
  /\ \A k \in 1..Cardinality(I) : Cardinality(earlier[places[k]]) = k - 1
  /\ \A i \in I : /\ Cardinality(earlier[i]) \in 0..(Cardinality(I) - 1)
                  /\ places[Cardinality(earlier[i]) + 1] = i

(***************************************************************************)
(* A member has fewer before it than there are members, and more than each *)
(* of those before it has.                                                 *)
(***************************************************************************)
LEMMA FewerBefore ==
  ASSUME NEW I, NEW earlier, Ordered(I, earlier), NEW i \in I
  PROVE  /\ Cardinality(earlier[i]) \in 0..(Cardinality(I) - 1)
         /\ Cardinality(I) \in Nat
         /\ IsFiniteSet(earlier[i])
         /\ \A j \in I : j \in earlier[i] => Cardinality(earlier[j]) < Cardinality(earlier[i])
<1>1. IsFiniteSet(I) /\ Cardinality(I) \in Nat
  BY FS_CardinalityType DEF Ordered
<1>2. IsFiniteSet(earlier[i]) /\ Cardinality(earlier[i]) \in Nat
  BY <1>1, FS_Subset, FS_CardinalityType DEF Ordered
<1>3. Cardinality(earlier[i]) < Cardinality(I)
  <2>1. earlier[i] \in SUBSET I /\ earlier[i] # I
    BY DEF Ordered
  <2>2. Cardinality(earlier[i]) <= Cardinality(I) /\ Cardinality(I) # Cardinality(earlier[i])
    BY <1>1, <2>1, FS_Subset
  <2> QED
    BY <1>1, <1>2, <2>2
<1>4. ASSUME NEW j \in I, j \in earlier[i]
      PROVE  Cardinality(earlier[j]) < Cardinality(earlier[i])
  <2>1. earlier[j] \in SUBSET earlier[i] /\ earlier[j] # earlier[i]
    BY <1>4 DEF Ordered
  <2>2. IsFiniteSet(earlier[j]) /\ Cardinality(earlier[j]) \in Nat
    BY <1>2, <2>1, FS_Subset, FS_CardinalityType
  <2>3. Cardinality(earlier[j]) <= Cardinality(earlier[i])
        /\ Cardinality(earlier[i]) # Cardinality(earlier[j])
    BY <1>2, <2>1, FS_Subset
  <2> QED
    BY <1>2, <2>2, <2>3
<1> QED
  BY <1>1, <1>2, <1>3, <1>4

(***************************************************************************)
(* InOrder lists the members, each after those before it.                  *)
(***************************************************************************)
LEMMA OrderIsListed ==
  ASSUME NEW I, NEW earlier, Ordered(I, earlier)
  PROVE  Lists(InOrder(I, earlier), I, earlier)
<1> DEFINE n == Cardinality(I)
           rank == [i \in I |-> Cardinality(earlier[i])]
           Is(k, i) == Cardinality(earlier[i]) = k - 1
           places == InOrder(I, earlier)
<1>1. IsFiniteSet(I) /\ n \in Nat
  BY FS_CardinalityType DEF Ordered
<1>2. \A i \in I : Cardinality(earlier[i]) \in 0..(n - 1)
  BY FewerBefore
<1>3. \A i, j \in I : Cardinality(earlier[i]) = Cardinality(earlier[j]) => i = j
  <2> SUFFICES ASSUME NEW i \in I, NEW j \in I, i # j
               PROVE  Cardinality(earlier[i]) # Cardinality(earlier[j])
    OBVIOUS
  <2>1. i \in earlier[j] \/ j \in earlier[i]
    BY DEF Ordered
  <2>2. Cardinality(earlier[i]) \in Nat /\ Cardinality(earlier[j]) \in Nat
    BY <1>1, <1>2
  <2>3. CASE i \in earlier[j]
    BY <2>2, <2>3, FewerBefore
  <2>4. CASE j \in earlier[i]
    BY <2>2, <2>4, FewerBefore
  <2> QED
    BY <2>1, <2>3, <2>4
<1>4. \A k \in 0..(n - 1) : \E i \in I : Cardinality(earlier[i]) = k
  <2>1. rank \in Injection(I, 0..(n - 1))
    BY <1>2, <1>3 DEF Injection, IsInjective
  <2>2. IsFiniteSet(0..(n - 1)) /\ Cardinality(0..(n - 1)) = n
    <3>1. 0 \in Int /\ n - 1 \in Int /\ ~(0 > n - 1 + 1) /\ (n - 1) - 0 + 1 = n
          /\ (0 > n - 1 <=> n = 0)
      BY <1>1
    <3> HIDE DEF n
    <3>2. /\ IsFiniteSet(0..(n - 1))
          /\ Cardinality(0..(n - 1)) = IF 0 > n - 1 THEN 0 ELSE (n - 1) - 0 + 1
      BY ONLY <3>1, FS_Interval, SMTT(30)
    <3> QED
      BY ONLY <3>1, <3>2
  <2>3. rank \in Surjection(I, 0..(n - 1))
    <3> HIDE DEF rank
    <3> QED
      BY <1>1, <2>1, <2>2, FS_Injection
  <2> QED
    BY <2>3 DEF Surjection
<1>5. \A k \in 1..n : places[k] = CHOOSE i \in I : Is(k, i)
  BY DEF InOrder
<1>6. \A k \in 1..n : places[k] \in I /\ Is(k, places[k])
  <2> SUFFICES ASSUME NEW k \in 1..n PROVE places[k] \in I /\ Is(k, places[k])
    OBVIOUS
  <2>1. k - 1 \in 0..(n - 1)
    BY <1>1
  <2>2. \E i \in I : Is(k, i)
    BY <1>4, <2>1
  <2>3. places[k] = CHOOSE i \in I : Is(k, i)
    BY <1>5
  <2> HIDE DEF Is, places
  <2> QED
    BY <2>2, <2>3
<1>7. places \in [1..n -> I]
  <2>1. places = [k \in 1..n |-> places[k]]
    BY DEF InOrder
  <2> HIDE DEF places, n
  <2> QED
    BY <1>6, <2>1
<1>8. ASSUME NEW i \in I PROVE places[Cardinality(earlier[i]) + 1] = i
  <2>1. PICK k \in 1..n : k - 1 = Cardinality(earlier[i]) /\ k = Cardinality(earlier[i]) + 1
    BY <1>1, <1>2
  <2>2. places[k] \in I /\ Cardinality(earlier[places[k]]) = k - 1
    BY <1>6
  <2> HIDE DEF places
  <2>3. places[k] = i
    BY <1>3, <2>1, <2>2
  <2> QED
    BY <2>1, <2>3
<1>9. \A k \in 1..n : Cardinality(earlier[places[k]]) = k - 1
  BY <1>6
<1> HIDE DEF places
<1>10. Lists(places, I, earlier)
  BY ONLY <1>1, <1>2, <1>7, <1>8, <1>9 DEF Lists
<1> QED
  BY <1>10 DEF places

\* The places up to one, of a set of naturals.
Below(K) == [i \in K |-> {j \in K : j < i}]

(***************************************************************************)
(* Naturals are ordered.                                                   *)
(***************************************************************************)
LEMMA PlacesAreOrdered ==
  ASSUME NEW K, K \subseteq Nat, IsFiniteSet(K)
  PROVE  Ordered(K, Below(K))
<1>1. \A i \in K : Below(K)[i] = {j \in K : j < i}
  BY DEF Below
<1>2. \A i \in K : i \in Nat
  OBVIOUS
<1> DEFINE earlier == Below(K)
<1>3. \A i \in K : earlier[i] \subseteq K /\ i \notin earlier[i]
  BY <1>1, <1>2
<1>4. \A i, j \in K : i = j \/ i \in earlier[j] \/ j \in earlier[i]
  BY <1>1, <1>2
<1>5. ASSUME NEW i \in K, NEW j \in K, i \in earlier[j] PROVE earlier[i] \subseteq earlier[j]
  <2>1. i < j /\ i \in Nat /\ j \in Nat
    BY <1>1, <1>2, <1>5
  <2>2. \A k \in K : k \in Nat /\ (k < i => k < j)
    BY <1>2, <2>1
  <2> QED
    BY <1>1, <2>2
<1> HIDE DEF earlier
<1>6. Ordered(K, earlier)
  BY <1>3, <1>4, <1>5 DEF Ordered
<1> QED
  BY <1>6 DEF earlier

\* p lists K in rising order.
Rises(p, K) ==
  /\ Cardinality(K) \in Nat
  /\ p \in [1..Cardinality(K) -> K]
  /\ \A k, l \in 1..Cardinality(K) : k < l => p[k] < p[l]
  /\ \A i \in K : \E k \in 1..Cardinality(K) : p[k] = i

\* c has the elements of s at the places K, which p lists.
Takes(p, c, s, K) == Rises(p, K) /\ c = [k \in 1..Cardinality(K) |-> s[p[k]]]

(***************************************************************************)
(* What Chosen makes of a sequence: its elements at some places, in their  *)
(* order.                                                                  *)
(***************************************************************************)
LEMMA ChosenIs ==
  ASSUME NEW s, NEW K, K \subseteq Nat, IsFiniteSet(K)
  PROVE  \E p : Takes(p, Chosen(s, K), s, K)
<1> DEFINE p == InOrder(K, Below(K))
           n == Cardinality(K)
<1>1. Lists(p, K, Below(K))
  BY PlacesAreOrdered, OrderIsListed
<1>2. Chosen(s, K) = [k \in 1..n |-> s[p[k]]]
  BY DEF Chosen, Below
<1> HIDE DEF p
<1>3. /\ n \in Nat /\ p \in [1..n -> K]
      /\ \A k \in 1..n : Cardinality(Below(K)[p[k]]) = k - 1
      /\ \A i \in K : /\ Cardinality(Below(K)[i]) \in 0..(n - 1)
                      /\ p[Cardinality(Below(K)[i]) + 1] = i
  BY <1>1 DEF Lists
<1>4. ASSUME NEW i \in K PROVE \E k \in 1..n : p[k] = i
  BY <1>3
<1>5. ASSUME NEW k \in 1..n, NEW l \in 1..n, k < l PROVE p[k] < p[l]
  <2>1. p[k] \in K /\ p[l] \in K /\ p[k] \in Nat /\ p[l] \in Nat
    BY <1>3
  <2>2. p[k] # p[l]
    BY <1>3, <1>5
  <2>3. SUFFICES ASSUME p[l] < p[k] PROVE FALSE
    BY <2>1, <2>2
  <2>4. p[l] \in Below(K)[p[k]]
    BY <2>1, <2>3 DEF Below
  <2>5. Cardinality(Below(K)[p[l]]) < Cardinality(Below(K)[p[k]])
    BY <2>1, <2>4, FewerBefore, PlacesAreOrdered
  <2> QED
    BY <1>3, <1>5, <2>5
<1> HIDE DEF n
<1>6. Rises(p, K)
  BY <1>3, <1>4, <1>5 DEF Rises, n
<1> QED
  BY <1>2, <1>6 DEF Takes, n

\* Which of two records is sooner in an order, and which are before each of some.
Sooner(records, order, i, j) ==
  \/ order = "asc" /\ records[i].created < records[j].created
  \/ order = "desc" /\ records[i].created > records[j].created
  \/ records[i].created = records[j].created /\ i < j
Ahead(records, order, I) == [i \in I |-> {j \in I : Sooner(records, order, j, i)}]

\* Records, with their times.
Timed(records) ==
  /\ Len(records) \in Nat /\ DOMAIN records = 1..Len(records)
  /\ \A i \in DOMAIN records : records[i].created \in Nat

(***************************************************************************)
(* The order of a sort is one.                                             *)
(***************************************************************************)
LEMMA RecordsAreOrdered ==
  ASSUME NEW records, Timed(records), NEW order \in Orders, NEW I, I \subseteq DOMAIN records
  PROVE  IsFiniteSet(I) /\ Ordered(I, Ahead(records, order, I))
<1> DEFINE earlier == Ahead(records, order, I)
<1>1. IsFiniteSet(I)
  <2>1. IsFiniteSet(1..Len(records))
    BY FS_Interval DEF Timed
  <2> QED
    BY <2>1, FS_Subset DEF Timed
<1>2. \A i \in I : earlier[i] = {j \in I : Sooner(records, order, j, i)}
  BY DEF Ahead
<1>3. \A i \in I : i \in Nat /\ records[i].created \in Nat
  BY DEF Timed
<1> HIDE DEF earlier
<1>4. \A i \in I : earlier[i] \subseteq I /\ i \notin earlier[i]
  BY <1>2, <1>3 DEF Sooner
<1>5. ASSUME NEW i \in I, NEW j \in I PROVE i = j \/ i \in earlier[j] \/ j \in earlier[i]
  <2>1. i = j \/ Sooner(records, order, i, j) \/ Sooner(records, order, j, i)
    BY <1>3 DEF Sooner, Orders
  <2> QED
    BY <1>2, <2>1
<1>6. ASSUME NEW i \in I, NEW j \in I, i \in earlier[j] PROVE earlier[i] \subseteq earlier[j]
  <2> SUFFICES ASSUME NEW k \in I, Sooner(records, order, k, i)
               PROVE  Sooner(records, order, k, j)
    BY <1>2
  <2>1. Sooner(records, order, i, j)
    BY <1>2, <1>6
  <2> QED
    BY <1>3, <2>1 DEF Sooner, Orders
<1>7. Ordered(I, earlier)
  BY ONLY <1>1, <1>4, <1>5, <1>6 DEF Ordered
<1> QED
  BY <1>1, <1>7 DEF earlier

\* The numbers of the records that match.
Hits(records, filters) == {i \in DOMAIN records : Matches(records[i], filters)}

\* They are in order.
Arranged(records, filters, order) ==
  InOrder(Hits(records, filters), Ahead(records, order, Hits(records, filters)))

(***************************************************************************)
(* The records a query finds: those that match, in the order of the sort,  *)
(* wherever the filter had put them. (That a sort after a filter arranges  *)
(* the records of the file: the ranks among the records that were found    *)
(* are the ranks among those of the file that match.)                      *)
(***************************************************************************)
LEMMA FoundIsArranged ==
  ASSUME NEW records, Timed(records), NEW order \in Orders, NEW filters
  PROVE  LET H == Hits(records, filters)
             places == Arranged(records, filters, order)
             found == sort_records(apply_filters(records, filters), order)
         IN  /\ Lists(places, H, Ahead(records, order, H))
             /\ found = [k \in 1..Cardinality(H) |-> records[places[k]]]
             /\ Len(apply_filters(records, filters)) = Cardinality(H)
<1> DEFINE H == Hits(records, filters)
           n == Cardinality(H)
           places == Arranged(records, filters, order)
           c == apply_filters(records, filters)
           E == Ahead(records, order, H)
<1>1. H \subseteq DOMAIN records /\ H \subseteq Nat
  BY DEF Hits, Timed
<1>2. IsFiniteSet(H) /\ Ordered(H, E)
  BY <1>1, RecordsAreOrdered
<1>3. Lists(places, H, E)
  BY <1>2, OrderIsListed DEF Arranged
<1>4. c = Chosen(records, H)
  BY DEF apply_filters, Hits
<1> HIDE DEF places, H, c
<1>17. PICK p : Takes(p, c, records, H)
  BY <1>1, <1>2, <1>4, ChosenIs
<1>5. Rises(p, H) /\ c = [k \in 1..n |-> records[p[k]]]
  BY <1>17 DEF Takes
<1>6. /\ n \in Nat /\ p \in [1..n -> H]
      /\ \A k, l \in 1..n : k < l => p[k] < p[l]
      /\ \A i \in H : \E k \in 1..n : p[k] = i
  BY <1>5 DEF Rises
<1>7. DOMAIN c = 1..n /\ Len(c) = n /\ \A k \in 1..n : c[k] = records[p[k]] /\ p[k] \in Nat
  BY <1>1, <1>5, <1>6
<1>8. Timed(c)
  BY <1>1, <1>6, <1>7 DEF Timed
<1> DEFINE Ec == Ahead(c, order, 1..n)
           sorted == InOrder(1..n, Ec)
<1>9. IsFiniteSet(1..n) /\ Ordered(1..n, Ec)
  BY <1>7, <1>8, RecordsAreOrdered
<1>10. Lists(sorted, 1..n, Ec)
  BY <1>9, OrderIsListed
<1>11. sort_records(c, order) = [k \in 1..n |-> c[sorted[k]]]
  BY <1>7 DEF sort_records, Ahead, Sooner
<1> HIDE DEF sorted
<1>12. ASSUME NEW k \in 1..n, NEW l \in 1..n
       PROVE  Sooner(c, order, k, l) <=> Sooner(records, order, p[k], p[l])
  <2>1. k < l <=> p[k] < p[l]
    BY SMTT(30), <1>6, <1>7
  <2> QED
    BY <1>7, <2>1 DEF Sooner
<1>13. ASSUME NEW a \in 1..n
       PROVE  Cardinality(Ec[a]) = Cardinality(E[p[a]])
  <2> DEFINE S == Ec[a]
             T == E[p[a]]
             g == [b \in S |-> p[b]]
  <2>1. S = {b \in 1..n : Sooner(c, order, b, a)} /\ S \subseteq 1..n
    BY DEF Ahead
  <2>2. T = {i \in H : Sooner(records, order, i, p[a])}
    BY <1>6 DEF Ahead
  <2> HIDE DEF S, T
  <2>3. g \in [S -> T]
    BY <1>6, <1>12, <2>1, <2>2
  <2>4. \A b, d \in S : g[b] = g[d] => b = d
    BY <1>6, <1>7, <2>1
  <2>5. ASSUME NEW i \in T PROVE \E b \in S : g[b] = i
    <3>1. PICK b \in 1..n : p[b] = i
      BY <1>6, <2>2
    <3> QED
      BY <1>12, <2>1, <2>2, <3>1
  <2>6. g \in Bijection(S, T)
    <3> HIDE DEF g
    <3> QED
      BY <2>3, <2>4, <2>5 DEF Bijection, Injection, Surjection, IsInjective
  <2>7. IsFiniteSet(S)
    BY <1>9, <2>1, FS_Subset
  <2>8. ExistsBijection(S, T)
    BY <2>6 DEF ExistsBijection
  <2>9. Cardinality(T) = Cardinality(S)
    BY <2>7, <2>8, FS_Bijection
  <2> QED
    BY <2>9 DEF S, T
<1> HIDE DEF Ec, E
<1>14. Cardinality(1..n) = n
  BY <1>6, FS_Interval
<1>15. ASSUME NEW k \in 1..n PROVE c[sorted[k]] = records[places[k]]
  <2>1. sorted[k] \in 1..n /\ Cardinality(Ec[sorted[k]]) = k - 1
    BY <1>10, <1>14 DEF Lists
  <2>2. p[sorted[k]] \in H /\ Cardinality(E[p[sorted[k]]]) = k - 1 /\ k - 1 + 1 = k
    BY <1>6, <1>13, <2>1
  <2>3. places[k] = p[sorted[k]]
    BY <1>3, <2>2 DEF Lists
  <2> QED
    BY <1>7, <2>1, <2>3
<1>16. sort_records(c, order) = [k \in 1..n |-> records[places[k]]]
  BY <1>11, <1>15
<1> QED
  BY <1>3, <1>7, <1>16 DEF H, c, places, E

\* What a run may be recorded as, at its start, while it is not over and at its end; the
\* records, and a history of them.
RunEvents == NewEvents \cup {Running(e) : e \in NewEvents}
               \cup {[Running(e) EXCEPT !.error = NoValue] : e \in NewEvents}
AllStored == {Record(n, e) : n \in Nat, e \in RunEvents}
Numbered(records) == records \in Seq(AllStored) /\ \A i \in DOMAIN records : records[i].id = i

(***************************************************************************)
(* What a run is recorded as has the fields of an event.                   *)
(***************************************************************************)
LEMMA RunEventsAre ==
  ASSUME PageAssumption, NEW e \in RunEvents
  PROVE  /\ DOMAIN e = {"created", "actor", "source", "plots", "error", "blocks"}
         /\ e.created \in Nat
<1>1. PICK f \in NewEvents : \/ e = f
                             \/ e = Running(f)
                             \/ e = [Running(f) EXCEPT !.error = NoValue]
  BY DEF RunEvents
<1>2. DOMAIN f = {"created", "actor", "source", "plots", "error", "blocks"} /\ f.created \in Nat
  BY DEF PageAssumption
<1>3. DOMAIN Running(f) = DOMAIN f /\ Running(f).created = f.created
  BY <1>2 DEF Running
<1> QED
  BY <1>1, <1>2, <1>3

(***************************************************************************)
(* What a record says of its event.                                        *)
(***************************************************************************)
LEMMA StoredFields ==
  ASSUME PageAssumption, NEW e \in RunEvents, NEW n \in Nat
  PROVE  LET r == Record(n, e)
         IN  /\ r \in AllStored /\ r.id = n
             /\ r.created \in Nat /\ r.has_errors \in BOOLEAN
<1> DEFINE ev == With(e, [id |-> n])
           r == Record(n, e)
           extra == [has_plots |-> ev.plots # <<>>, has_errors |-> ev.error # NoValue,
                     code_text |-> UNION {ev.blocks[i] : i \in DOMAIN ev.blocks}]
<1>1. DOMAIN e = {"created", "actor", "source", "plots", "error", "blocks"} /\ e.created \in Nat
  BY RunEventsAre
<1>2. /\ DOMAIN ev = {"created", "actor", "source", "plots", "error", "blocks", "id"}
      /\ ev.id = n /\ ev.created = e.created
  BY <1>1 DEF With
<1>3. r = With(ev, extra)
  BY DEF Record, create_record
<1>4. DOMAIN extra = {"has_plots", "has_errors", "code_text"} /\ extra.has_errors \in BOOLEAN
  OBVIOUS
<1> HIDE DEF ev, extra, r
<1>5. r.id = ev.id /\ r.created = ev.created /\ r.has_errors = extra.has_errors
  BY <1>2, <1>3, <1>4 DEF With
<1> QED
  BY <1>1, <1>2, <1>4, <1>5 DEF ev, r, AllStored

(***************************************************************************)
(* What the proofs need to know of a record.                               *)
(***************************************************************************)
LEMMA StoredAre ==
  ASSUME PageAssumption, NEW r \in AllStored
  PROVE  r.id \in Nat /\ r.created \in Nat /\ r.has_errors \in BOOLEAN
<1>1. PICK e \in RunEvents, n \in Nat : r = Record(n, e)
  BY DEF AllStored
<1>2. LET s == Record(n, e)
      IN  s.id = n /\ s.created \in Nat /\ s.has_errors \in BOOLEAN
  BY StoredFields
<1> QED
  BY <1>1, <1>2

(***************************************************************************)
(* Records of a history have times.                                        *)
(***************************************************************************)
LEMMA NumberedIsTimed ==
  ASSUME PageAssumption, NEW records, Numbered(records)
  PROVE  Timed(records)
<1>1. /\ Len(records) \in Nat /\ DOMAIN records = 1..Len(records)
      /\ \A i \in DOMAIN records : records[i] \in AllStored
  BY LenProperties, ElementOfSeq DEF Numbered
<1> QED
  BY <1>1, StoredAre DEF Timed

\* Records of which none is there twice; records that are the history's.
Distinct(events) ==
  \A i, j \in DOMAIN events : events[i].id = events[j].id => i = j
AsStored(events, records) == \A i \in DOMAIN events : events[i] = records[events[i].id]

\* How many of the records that match are before one; the numbers of a page's.
Rank(records, filters, order, i) ==
  Cardinality(Ahead(records, order, Hits(records, filters))[i])
Window(records, filters, order, offset) ==
  {i \in Hits(records, filters) : /\ Rank(records, filters, order, i) >= offset
                                  /\ Rank(records, filters, order, i) < offset + PageSize}

\* The requests of the panel.
AllFilters == PageFilters \cup {<<>>}
AllRequests ==
  {r \in [kind : {"first", "more"}, filters : AllFilters, sort : Orders,
          limit : {PageSize}, offset : Nat] : r.kind = "first" => r.offset = 0}

(***************************************************************************)
(* A page has the records that match whose ranks are its offset or up to a *)
(* page's size more, none twice.                                           *)
(***************************************************************************)
LEMMA PageIs ==
  ASSUME PageAssumption, QueriesAssumption, NEW records, Numbered(records), NEW filters,
         NEW order \in Orders, NEW o \in Nat
  PROVE  LET found == sort_records(apply_filters(records, filters), order)
             events == SubSeq(found, o + 1, AtMost(o + PageSize, Len(found)))
         IN  /\ Len(found) \in Nat
             /\ events \in Seq(AllStored) /\ Distinct(events)
             /\ AsStored(events, records) /\ Len(events) <= PageSize
             /\ Ids(events) = Window(records, filters, order, o)
<1> DEFINE H == Hits(records, filters)
           n == Cardinality(H)
           places == Arranged(records, filters, order)
           E == Ahead(records, order, H)
           found == sort_records(apply_filters(records, filters), order)
           events == SubSeq(found, o + 1, AtMost(o + PageSize, Len(found)))
           last == AtMost(o + PageSize, n)
<1>0. PageSize \in Nat \ {0}
  BY DEF PageAssumption, QueriesAssumption
<1>2. Timed(records)
  BY NumberedIsTimed
<1>3. Lists(places, H, E) /\ found = [k \in 1..n |-> records[places[k]]]
  BY <1>2, FoundIsArranged
<1> HIDE DEF found, places, H, E
<1>7. /\ n \in Nat /\ places \in [1..n -> H]
      /\ \A k \in 1..n : Cardinality(E[places[k]]) = k - 1
      /\ \A i \in H : Cardinality(E[i]) \in 0..(n - 1) /\ places[Cardinality(E[i]) + 1] = i
  BY <1>3 DEF Lists
<1>8. H \subseteq DOMAIN records /\ \A i \in H : records[i] \in AllStored /\ records[i].id = i
  <2>1. \A i \in DOMAIN records : records[i] \in AllStored /\ records[i].id = i
    BY ElementOfSeq, LenProperties DEF Numbered
  <2> QED
    BY <2>1 DEF H, Hits
<1> HIDE DEF n
<1>9. /\ found \in Seq(AllStored) /\ Len(found) = n /\ DOMAIN found = 1..n
      /\ \A k \in 1..n : found[k] = records[places[k]] /\ found[k].id = places[k]
  <2>1. \A k \in 1..n : found[k] = records[places[k]] /\ places[k] \in H
    BY <1>3, <1>7
  <2>2. \A k \in 1..n : found[k] \in AllStored /\ found[k].id = places[k]
    BY <1>8, <2>1
  <2>3. found \in [1..n -> AllStored]
    BY <1>3, <2>2
  <2> QED
    BY <1>7, <2>1, <2>2, <2>3
<1>11. events = SubSeq(found, o + 1, last)
  BY <1>9 DEF n
<1> HIDE DEF events
<1>12. /\ last \in Nat /\ last <= n /\ last <= o + PageSize
       /\ last = n \/ last = o + PageSize
  BY <1>0, <1>7 DEF AtMost, n
<1> HIDE DEF last
<1>13. /\ events \in Seq(AllStored)
       /\ Len(events) = IF o + 1 <= last THEN last - o ELSE 0
       /\ \A j \in 1..Len(events) : events[j] = found[o + j]
  <2>1. CASE o + 1 <= last
    <3>1. o + 1 \in 1..(n + 1) /\ last \in 1..n /\ last + 1 - (o + 1) = last - o
      BY <1>7, <1>12, <2>1
    <3>2. PICK a \in 1..(n + 1) : a = o + 1
      BY <3>1
    <3>3. /\ SubSeq(found, a, last) \in Seq(AllStored)
          /\ Len(SubSeq(found, a, last)) = IF a <= last THEN last - a + 1 ELSE 0
          /\ \A j \in 1..(last - a + 1) : SubSeq(found, a, last)[j] = found[a + j - 1]
      BY ONLY <1>7, <1>9, <1>12, <3>1, <3>2, SubSeqProperties
    <3>4. last - a + 1 = last - o /\ \A j \in Int : a + j - 1 = o + j
      BY <1>12, <3>2
    <3>5. Len(events) = last - o /\ events \in Seq(AllStored)
      BY <1>11, <2>1, <3>2, <3>3, <3>4
    <3> QED
      BY <1>11, <2>1, <3>2, <3>3, <3>4, <3>5
  <2>2. CASE ~(o + 1 <= last)
    <3>1. events = <<>>
      BY <1>9, <1>11, <1>12, <2>2, SubSeqEmpty
    <3> QED
      BY <2>2, <3>1
  <2> QED
    BY <2>1, <2>2
<1>14. /\ Len(events) \in Nat /\ DOMAIN events = 1..Len(events)
       /\ Len(events) <= PageSize
       /\ \A j \in 1..Len(events) : o + j \in 1..n
  <2>1. Len(events) \in Nat /\ DOMAIN events = 1..Len(events)
    BY <1>13, LenProperties
  <2> QED
    BY <1>0, <1>7, <1>12, <1>13, <2>1
<1>15. \A j \in 1..Len(events) : events[j].id = places[o + j] /\ places[o + j] \in H
  BY <1>7, <1>9, <1>13, <1>14
<1>16. Distinct(events)
  <2> SUFFICES ASSUME NEW i \in 1..Len(events), NEW j \in 1..Len(events),
                      events[i].id = events[j].id
               PROVE  i = j
    BY <1>14 DEF Distinct
  <2>1. places[o + i] = places[o + j]
    BY <1>15
  <2>2. o + i - 1 = o + j - 1
    <3>1. PICK a \in 1..n, b \in 1..n : a = o + i /\ b = o + j
      BY <1>14
    <3>2. a - 1 = b - 1
      BY <1>7, <2>1, <3>1
    <3> QED
      BY <3>1, <3>2
  <2> QED
    BY <1>14, <2>2
<1> DEFINE W == Window(records, filters, order, o)
<1>17. \A i : i \in W <=> /\ i \in H /\ Cardinality(E[i]) >= o
                          /\ Cardinality(E[i]) < o + PageSize
  BY DEF Window, Rank, H, E
<1> HIDE DEF W
<1>18. ASSUME NEW j \in 1..Len(events) PROVE events[j].id \in W
  <2>1. PICK i \in H : i = places[o + j] /\ i = events[j].id
    BY <1>15
  <2>2. Cardinality(E[i]) = o + j - 1
    <3>1. PICK a \in 1..n : a = o + j
      BY <1>14
    <3>2. Cardinality(E[places[a]]) = a - 1
      BY <1>7
    <3>3. o + j = a
      BY <3>1
    <3>4. i = places[a]
      BY <2>1, <3>3
    <3>5. a - 1 = o + j - 1
      BY <3>3
    <3> QED
      BY <3>2, <3>4, <3>5
  <2>3. o + j - 1 >= o /\ o + j - 1 < o + PageSize
    BY <1>0, <1>14
  <2> QED
    BY <1>17, <2>1, <2>2, <2>3
<1>19. ASSUME NEW i \in W PROVE \E j \in 1..Len(events) : events[j].id = i
  <2>1. /\ i \in H /\ Cardinality(E[i]) >= o /\ Cardinality(E[i]) < o + PageSize
        /\ Cardinality(E[i]) \in 0..(n - 1) /\ places[Cardinality(E[i]) + 1] = i
    BY <1>7, <1>17
  <2>2. PICK r \in 0..(n - 1) :
          r = Cardinality(E[i]) /\ r >= o /\ r < o + PageSize /\ places[r + 1] = i
    BY <2>1
  <2>3. PICK j \in 1..Len(events) : o + j = r + 1
    <3>1. r + 1 - o \in 1..Len(events) /\ o + (r + 1 - o) = r + 1
      <4>1. Len(events) = IF o + 1 <= last THEN last - o ELSE 0
        BY <1>13
      <4>2. r < last /\ r >= o /\ r \in Nat /\ o \in Nat /\ last \in Nat
        BY <1>7, <1>12, <2>2
      <4> QED
        BY ONLY <4>1, <4>2
    <3> QED
      BY <3>1
  <2> QED
    BY <1>15, <2>2, <2>3
<1>20. Ids(events) = W
  BY <1>14, <1>18, <1>19 DEF Ids
<1>21. AsStored(events, records)
  <2> SUFFICES ASSUME NEW j \in 1..Len(events) PROVE events[j] = records[events[j].id]
    BY <1>14 DEF AsStored
  <2>1. PICK k \in 1..n : k = o + j
    BY <1>14
  <2>2. events[j] = found[k] /\ found[k] = records[places[k]] /\ found[k].id = places[k]
    BY <1>9, <1>13, <2>1
  <2> QED
    BY <2>2
<1> QED
  BY <1>7, <1>9, <1>13, <1>14, <1>16, <1>20, <1>21 DEF events, W, found

(***************************************************************************)
(* The answer to a request of the panel is such a page: its filters and    *)
(* its sort are valid, and its limit is not above the cap.                 *)
(***************************************************************************)
LEMMA AnswerIs ==
  ASSUME QueriesAssumption, PageAssumption, NEW records, Numbered(records),
         NEW q \in AllRequests
  PROVE  LET response == query(records, q)
         IN  /\ into_domain(q) = q
             /\ response.events \in Seq(AllStored) /\ Distinct(response.events)
             /\ AsStored(response.events, records) /\ Len(response.events) <= PageSize
             /\ Ids(response.events) = Window(records, q.filters, q.sort, q.offset)
             /\ response.total \in Nat /\ response.has_more \in BOOLEAN
<1> DEFINE found == sort_records(apply_filters(records, q.filters), q.sort)
           events == query(records, q).events
<1>0. /\ q.filters \in AllFilters /\ q.sort \in Orders /\ q.limit = PageSize /\ q.offset \in Nat
      /\ PageSize \in Nat \ {0} /\ PageSize <= QueryCap /\ QueryCap \in Nat
      /\ NoValue \notin Nat
  BY DEF AllRequests, PageAssumption, QueriesAssumption
<1>1. into_domain(q) = q
  <2>1. "actor" \in DOMAIN q.filters => q.filters.actor \in Actors
    BY <1>0 DEF AllFilters, PageAssumption
  <2>2. "source" \in DOMAIN q.filters => q.filters.source \in Sources
    BY <1>0 DEF AllFilters, PageAssumption
  <2> QED
    BY <1>0, <2>1, <2>2 DEF into_domain
<1>4. Given(q.sort, "desc") = q.sort
  BY <1>0 DEF Given, QueriesAssumption
<1>5. AtMost(Given(q.limit, DefaultLimit), QueryCap) = PageSize
  BY <1>0 DEF Given, AtMost
<1>6. Given(q.offset, 0) = q.offset
  BY <1>0 DEF Given
<1>7. /\ events = SubSeq(found, q.offset + 1, AtMost(q.offset + PageSize, Len(found)))
      /\ query(records, q).total = Len(found)
      /\ query(records, q).has_more = (q.offset + PageSize < Len(found))
  BY <1>4, <1>5, <1>6 DEF query
<1> HIDE DEF found, events
<1>8. PICK f \in AllFilters, s \in Orders, o \in Nat : f = q.filters /\ s = q.sort /\ o = q.offset
  BY <1>0
<1>9. LET g == sort_records(apply_filters(records, f), s)
          page1 == SubSeq(g, o + 1, AtMost(o + PageSize, Len(g)))
      IN  /\ Len(g) \in Nat
          /\ page1 \in Seq(AllStored) /\ Distinct(page1)
          /\ AsStored(page1, records) /\ Len(page1) <= PageSize
          /\ Ids(page1) = Window(records, f, s, o)
  BY PageIs
<1>10. found = sort_records(apply_filters(records, f), s)
  BY <1>8 DEF found
<1> QED
  BY SMTT(30), <1>1, <1>7, <1>8, <1>9, <1>10 DEF events

\* A list of events, none of them twice.
Shows(events) == events \in Seq(AllStored) /\ Distinct(events)

(***************************************************************************)
(* How many numbers there are up to one.                                   *)
(***************************************************************************)
LEMMA Interval ==
  ASSUME NEW n \in Nat
  PROVE  IsFiniteSet(1..n) /\ Cardinality(1..n) = n
BY FS_Interval

(***************************************************************************)
(* A list of distinct events has as many numbers as events.                *)
(***************************************************************************)
LEMMA ShowsNoneTwice ==
  ASSUME NEW events, Shows(events)
  PROVE  NoneTwice(events) /\ IsFiniteSet(Ids(events)) /\ Cardinality(Ids(events)) = Len(events)
<1> DEFINE g == [i \in 1..Len(events) |-> events[i].id]
<1>1. Len(events) \in Nat /\ DOMAIN events = 1..Len(events)
  BY LenProperties DEF Shows
<1>2. g \in Bijection(1..Len(events), Ids(events))
  <2>1. g \in [1..Len(events) -> Ids(events)]
    BY <1>1 DEF Ids
  <2>2. \A i, j \in 1..Len(events) : g[i] = g[j] => i = j
    BY <1>1 DEF Shows, Distinct
  <2>3. \A x \in Ids(events) : \E i \in 1..Len(events) : g[i] = x
    BY <1>1 DEF Ids
  <2> HIDE DEF g
  <2> QED
    BY <2>1, <2>2, <2>3 DEF Bijection, Injection, Surjection, IsInjective
<1>3. IsFiniteSet(1..Len(events)) /\ Cardinality(1..Len(events)) = Len(events)
  BY <1>1, Interval
<1>4. ExistsBijection(1..Len(events), Ids(events))
  BY <1>2 DEF ExistsBijection
<1> QED
  BY <1>3, <1>4, FS_Bijection DEF NoneTwice

\* A list of events of two others.
MadeOf(list, shown, events) ==
  \A i \in DOMAIN list : \/ \E j \in DOMAIN shown : list[i] = shown[j]
                         \/ \E j \in DOMAIN events : list[i] = events[j]

(***************************************************************************)
(* It is the history's when they are.                                      *)
(***************************************************************************)
LEMMA MadeAsStored ==
  ASSUME NEW list, NEW shown, NEW events, MadeOf(list, shown, events), NEW records,
         AsStored(shown, records), AsStored(events, records)
  PROVE  AsStored(list, records)
BY DEF MadeOf, AsStored

(***************************************************************************)
(* What appendEvents shows: the events from before and those of the        *)
(* answer, none twice.                                                     *)
(***************************************************************************)
LEMMA MergedShows ==
  ASSUME NEW shown, Shows(shown), NEW events, Shows(events)
  PROVE  LET new == Chosen(events, {i \in DOMAIN events : events[i].id \notin Ids(shown)})
             merged == shown \o new
         IN  /\ Shows(merged) /\ Ids(merged) = Ids(shown) \cup Ids(events)
             /\ MadeOf(merged, shown, events)
             /\ Len(merged) \in Len(shown)..(Len(shown) + Len(events))
<1> DEFINE K == {i \in DOMAIN events : events[i].id \notin Ids(shown)}
           new == Chosen(events, K)
           n == Cardinality(K)
           merged == shown \o new
<1>1. /\ Len(events) \in Nat /\ DOMAIN events = 1..Len(events)
      /\ Len(shown) \in Nat /\ DOMAIN shown = 1..Len(shown)
      /\ \A i \in 1..Len(events) : events[i] \in AllStored
      /\ \A i \in 1..Len(shown) : shown[i] \in AllStored
  BY LenProperties, ElementOfSeq DEF Shows
<1>2. IsFiniteSet(1..Len(events)) /\ Cardinality(1..Len(events)) = Len(events)
  BY <1>1, Interval
<1>3. K \in SUBSET (1..Len(events)) /\ K \subseteq Nat
  BY <1>1
<1>4. IsFiniteSet(K) /\ n \in Nat /\ n <= Len(events)
  BY <1>2, <1>3, FS_Subset, FS_CardinalityType
<1>5. \A i \in K : i \in 1..Len(events) /\ events[i].id \notin Ids(shown)
  BY <1>1
<1>0. \A i \in 1..Len(events) : i \notin K => events[i].id \in Ids(shown)
  BY <1>1
<1>22. new = Chosen(events, K)
  OBVIOUS
<1> HIDE DEF K, new
<1>23. PICK p : Takes(p, new, events, K)
  BY <1>3, <1>4, <1>22, ChosenIs
<1>6. Rises(p, K) /\ new = [k \in 1..n |-> events[p[k]]]
  BY <1>23 DEF Takes
<1> HIDE DEF n
<1>7. /\ p \in [1..n -> K]
      /\ \A k, l \in 1..n : k < l => p[k] < p[l]
      /\ \A i \in K : \E k \in 1..n : p[k] = i
  BY <1>6 DEF Rises, n
<1>8. \A k \in 1..n : p[k] \in 1..Len(events) /\ p[k] \in K
  BY <1>5, <1>7
<1>9. /\ new \in Seq(AllStored) /\ Len(new) = n /\ DOMAIN new = 1..n
      /\ \A k \in 1..n : new[k] = events[p[k]]
  <2>1. new \in [1..n -> AllStored]
    BY <1>1, <1>6, <1>8
  <2> QED
    BY <1>4, <1>6, <2>1
<1>10. /\ merged \in Seq(AllStored) /\ Len(merged) = Len(shown) + n
       /\ \A i \in 1..(Len(shown) + n) :
             merged[i] = IF i <= Len(shown) THEN shown[i] ELSE new[i - Len(shown)]
  BY ONLY <1>9, ConcatProperties, Shows(shown) DEF Shows
<1> HIDE DEF merged
<1>11. DOMAIN merged = 1..(Len(shown) + n)
  BY <1>10, LenProperties
<1>12. \A i \in 1..Len(shown) : i \in 1..(Len(shown) + n) /\ merged[i] = shown[i]
  BY <1>1, <1>4, <1>10
<1>13. \A k \in 1..n : Len(shown) + k \in 1..(Len(shown) + n) /\ merged[Len(shown) + k] = new[k]
  <2> SUFFICES ASSUME NEW k \in 1..n
               PROVE  Len(shown) + k \in 1..(Len(shown) + n) /\ merged[Len(shown) + k] = new[k]
    OBVIOUS
  <2>1. PICK i \in 1..(Len(shown) + n) : i = Len(shown) + k
    BY <1>1, <1>4
  <2>2. ~(i <= Len(shown)) /\ i - Len(shown) = k
    BY <1>1, <1>4, <2>1
  <2> QED
    BY <1>10, <2>1, <2>2
<1>14. ASSUME NEW i \in 1..(Len(shown) + n)
       PROVE  \/ i \in 1..Len(shown)
              \/ \E k \in 1..n : i = Len(shown) + k
  <2>1. i <= Len(shown) \/ (i - Len(shown) \in 1..n /\ i = Len(shown) + (i - Len(shown)))
    BY <1>1, <1>4
  <2> QED
    BY <1>1, <2>1
<1>15. \A k \in 1..n : new[k].id \notin Ids(shown) /\ new[k].id \in Ids(events)
  BY <1>1, <1>5, <1>8, <1>9 DEF Ids
<1>16. \A k, l \in 1..n : new[k].id = new[l].id => k = l
  <2> SUFFICES ASSUME NEW k \in 1..n, NEW l \in 1..n, new[k].id = new[l].id PROVE k = l
    OBVIOUS
  <2>1. p[k] = p[l]
    BY <1>1, <1>8, <1>9 DEF Shows, Distinct
  <2>2. p[k] \in Nat /\ ~(k < l) /\ ~(l < k)
    BY <1>7, <1>8, <2>1
  <2> QED
    BY <1>4, <2>2
<1>17. \A i, j \in 1..Len(shown) : shown[i].id = shown[j].id => i = j
  BY <1>1 DEF Shows, Distinct
<1>18. \A i \in 1..Len(shown) : shown[i].id \in Ids(shown)
  BY <1>1 DEF Ids
<1>19. Distinct(merged)
  <2> SUFFICES ASSUME NEW i \in 1..(Len(shown) + n), NEW j \in 1..(Len(shown) + n),
                      merged[i].id = merged[j].id
               PROVE  i = j
    BY <1>11 DEF Distinct
  <2>1. CASE i \in 1..Len(shown) /\ j \in 1..Len(shown)
    BY <1>12, <1>17, <2>1
  <2>2. CASE i \in 1..Len(shown) /\ j \notin 1..Len(shown)
    BY SMTT(30), <1>12, <1>13, <1>14, <1>15, <1>18, <2>2
  <2>3. CASE i \notin 1..Len(shown) /\ j \in 1..Len(shown)
    BY SMTT(30), <1>12, <1>13, <1>14, <1>15, <1>18, <2>3
  <2>4. CASE i \notin 1..Len(shown) /\ j \notin 1..Len(shown)
    <3>1. PICK k \in 1..n, l \in 1..n : i = Len(shown) + k /\ j = Len(shown) + l
      BY <1>14, <2>4
    <3>2. k = l
      BY <1>13, <1>16, <3>1
    <3> QED
      BY <3>1, <3>2
  <2> QED
    BY <2>1, <2>2, <2>3, <2>4
<1>20. Ids(merged) = Ids(shown) \cup Ids(events)
  <2>1. ASSUME NEW x \in Ids(merged) PROVE x \in Ids(shown) \cup Ids(events)
    <3>1. PICK i \in 1..(Len(shown) + n) : x = merged[i].id
      BY <1>11 DEF Ids
    <3> QED
      BY <1>12, <1>13, <1>14, <1>15, <1>18, <3>1
  <2>2. ASSUME NEW x \in Ids(shown) PROVE x \in Ids(merged)
    <3>1. PICK i \in 1..Len(shown) : x = shown[i].id
      BY <1>1 DEF Ids
    <3> QED
      BY <1>11, <1>12, <3>1 DEF Ids
  <2>3. ASSUME NEW x \in Ids(events) PROVE x \in Ids(merged)
    <3>1. PICK i \in 1..Len(events) : x = events[i].id
      BY <1>1 DEF Ids
    <3>2. CASE i \in K
      <4>1. PICK k \in 1..n : p[k] = i
        BY <1>7, <3>2
      <4>2. x = new[k].id
        BY ONLY <1>9, <3>1, <4>1
      <4>3. Len(shown) + k \in DOMAIN merged /\ merged[Len(shown) + k].id = x
        BY ONLY <1>11, <1>13, <4>2
      <4> QED
        BY ONLY <4>3 DEF Ids
    <3>3. CASE i \notin K
      BY <1>0, <2>2, <3>1, <3>3
    <3> QED
      BY <3>2, <3>3
  <2> QED
    BY <2>1, <2>2, <2>3
<1>21. Len(merged) \in Len(shown)..(Len(shown) + Len(events))
  BY <1>1, <1>4, <1>10
<1>24. MadeOf(merged, shown, events)
  <2> SUFFICES ASSUME NEW i \in 1..(Len(shown) + n)
               PROVE  \/ \E j \in 1..Len(shown) : merged[i] = shown[j]
                      \/ \E j \in 1..Len(events) : merged[i] = events[j]
    BY <1>1, <1>11 DEF MadeOf
  <2>1. CASE i \in 1..Len(shown)
    BY <1>12, <2>1
  <2>2. CASE \E k \in 1..n : i = Len(shown) + k
    <3>1. PICK k \in 1..n : i = Len(shown) + k
      BY <2>2
    <3>2. merged[i] = new[k] /\ new[k] = events[p[k]] /\ p[k] \in 1..Len(events)
      BY <1>8, <1>9, <1>13, <3>1
    <3> QED
      BY <3>2
  <2> QED
    BY <1>14, <2>1, <2>2
<1> QED
  BY <1>10, <1>19, <1>20, <1>21, <1>24 DEF merged, new, K, Shows

(***************************************************************************)
(* An event that is put before or after those shown, of which a page       *)
(* stays.                                                                  *)
(***************************************************************************)
LEMMA LiveShows ==
  ASSUME PageAssumption, QueriesAssumption, NEW shown, Shows(shown), NEW event \in AllStored,
         event.id \notin Ids(shown)
  PROVE  LET back == Append(shown, event)
             front == <<event>> \o shown
         IN  /\ Shows(back) /\ Shows(front)
             /\ Len(back) > PageSize =>
                  Shows(SubSeq(back, Len(back) - PageSize + 1, Len(back)))
             /\ Len(front) > PageSize => Shows(SubSeq(front, 1, PageSize))
<1> DEFINE n == Len(shown)
           back == Append(shown, event)
           front == <<event>> \o shown
<1>0. PageSize \in Nat \ {0}
  BY DEF PageAssumption, QueriesAssumption
<1>1. /\ n \in Nat /\ DOMAIN shown = 1..n
      /\ \A i \in 1..n : shown[i] \in AllStored
      /\ \A i \in 1..n : shown[i].id # event.id
      /\ \A i, j \in 1..n : shown[i].id = shown[j].id => i = j
  BY LenProperties, ElementOfSeq DEF Shows, Distinct, Ids
<1>2. /\ back \in Seq(AllStored) /\ Len(back) = n + 1
      /\ \A i \in 1..n : back[i] = shown[i]
      /\ back[n + 1] = event
  BY ONLY AppendProperties, event \in AllStored, Shows(shown) DEF Shows
<1>3. /\ front \in Seq(AllStored) /\ Len(front) = 1 + n
      /\ \A i \in 1..(1 + n) : front[i] = IF i <= 1 THEN <<event>>[i] ELSE shown[i - 1]
  <2>1. <<event>> \in Seq(AllStored) /\ Len(<<event>>) = 1
    OBVIOUS
  <2> QED
    BY ONLY <2>1, ConcatProperties, Shows(shown) DEF Shows
<1> HIDE DEF back, front
<1>4. Distinct(back)
  <2> SUFFICES ASSUME NEW i \in 1..(n + 1), NEW j \in 1..(n + 1), back[i].id = back[j].id
               PROVE  i = j
    BY <1>2, LenProperties DEF Distinct
  <2>1. (i \in 1..n \/ i = n + 1) /\ (j \in 1..n \/ j = n + 1)
    BY <1>1
  <2> QED
    BY <1>1, <1>2, <2>1
<1>5. Distinct(front)
  <2> SUFFICES ASSUME NEW i \in 1..(1 + n), NEW j \in 1..(1 + n), front[i].id = front[j].id
               PROVE  i = j
    BY <1>3, LenProperties DEF Distinct
  <2>1. \A k \in 1..(1 + n) : k = 1 \/ (k - 1 \in 1..n /\ ~(k <= 1))
    BY <1>1
  <2>2. \A k \in 1..(1 + n) : \/ k = 1 /\ front[k] = event
                              \/ k # 1 /\ k - 1 \in 1..n /\ front[k] = shown[k - 1]
    BY <1>3, <2>1
  <2> QED
    BY <1>1, <2>2
<1>6. ASSUME NEW s, Shows(s), NEW a \in Int, NEW b \in Int, a >= 1, b <= Len(s)
      PROVE  Shows(SubSeq(s, a, b))
  <2>1. s \in Seq(AllStored) /\ Len(s) \in Nat /\ DOMAIN s = 1..Len(s)
    BY <1>6, LenProperties DEF Shows
  <2>2. CASE a <= b
    <3> DEFINE t == SubSeq(s, a, b)
    <3>0. a \in 1..(Len(s) + 1) /\ b \in (a - 1)..Len(s)
      BY <1>6, <2>1, <2>2
    <3>1. /\ t \in Seq(AllStored) /\ Len(t) = b - a + 1
          /\ \A i \in 1..(b - a + 1) : t[i] = s[a + i - 1]
      BY ONLY <2>1, <2>2, <3>0, SubSeqProperties
    <3> HIDE DEF t
    <3>2. DOMAIN t = 1..(b - a + 1)
      BY <3>1, LenProperties
    <3>3. ASSUME NEW i \in 1..(b - a + 1), NEW j \in 1..(b - a + 1), t[i].id = t[j].id
          PROVE  i = j
      <4>1. a + i - 1 \in DOMAIN s /\ a + j - 1 \in DOMAIN s
        BY <1>6, <2>1, <2>2
      <4>2. s[a + i - 1].id = s[a + j - 1].id
        BY <3>1, <3>3
      <4>3. a + i - 1 = a + j - 1
        BY <1>6, <4>1, <4>2 DEF Shows, Distinct
      <4> QED
        BY <4>3
    <3> QED
      BY <3>1, <3>2, <3>3 DEF Shows, Distinct, t
  <2>3. CASE ~(a <= b)
    <3>1. SubSeq(s, a, b) = <<>>
      BY <2>1, <2>3, SubSeqEmpty
    <3> QED
      BY <3>1 DEF Shows, Distinct
  <2> QED
    BY <2>2, <2>3
<1>7. Shows(back) /\ Shows(front)
  BY <1>2, <1>3, <1>4, <1>5 DEF Shows
<1>8. Len(back) > PageSize => Shows(SubSeq(back, Len(back) - PageSize + 1, Len(back)))
  <2>1. Len(back) > PageSize => Len(back) - PageSize + 1 \in Int /\ Len(back) - PageSize + 1 >= 1
    BY <1>0, <1>1, <1>2
  <2> QED
    BY <1>1, <1>2, <1>6, <1>7, <2>1
<1>9. Len(front) > PageSize => Shows(SubSeq(front, 1, PageSize))
  BY <1>0, <1>1, <1>3, <1>6, <1>7
<1> QED
  BY <1>7, <1>8, <1>9 DEF back, front

\* The panel's slices.
Slices == [shown : Seq(AllStored), total : Nat, more : BOOLEAN, offset : Nat, loading : BOOLEAN,
           filters : AllFilters, sort : Orders, changes : Nat, faults : Nat,
           late : Nat, disturbed : BOOLEAN]

\* What was asked after the last first request is asked with the present query.
OnlyMoreAfter(Q, i) == \A j \in DOMAIN Q : j > i => Q[j].kind = "more"
Pertinent(p, Q) ==
  \A i \in DOMAIN Q : OnlyMoreAfter(Q, i) => Q[i].filters = p.filters /\ Q[i].sort = p.sort

\* A first request is not answered yet; then the page at the panel's offset was asked for after it.
Unfinished(Q) == \E i \in DOMAIN Q : Q[i].kind = "first"
Awaits(p, Q) ==
  Unfinished(Q) /\ p.offset # 0 =>
    \E i \in DOMAIN Q : Q[i].kind = "more" /\ Q[i].offset = p.offset /\ OnlyMoreAfter(Q, i)

\* The step of Settle, from a panel with the offset `old`.
Settles(p, rest, old, p1, Q1) ==
  LET again == p.offset # old /\ p.offset # 0
  IN  /\ p1 = [p EXCEPT !.loading = @ \/ again]
      /\ Q1 = IF again THEN Append(rest, Request("more", p, p.offset)) ELSE rest

(***************************************************************************)
(* The step of Settle.                                                     *)
(***************************************************************************)
LEMMA SettleSettles ==
  ASSUME NEW p, NEW rest, Settle(p, rest)
  PROVE  Settles(p, rest, page.offset, page', pageRequests')
BY DEF Settle, Settles

(***************************************************************************)
(* A queue of requests.                                                    *)
(***************************************************************************)
LEMMA QueueIs ==
  ASSUME NEW Q \in Seq(AllRequests)
  PROVE  /\ Len(Q) \in Nat /\ DOMAIN Q = 1..Len(Q)
         /\ \A i \in DOMAIN Q : /\ Q[i] \in AllRequests /\ Q[i].offset \in Nat
                                /\ Q[i].kind \in {"first", "more"}
<1>1. Len(Q) \in Nat /\ DOMAIN Q = 1..Len(Q) /\ \A i \in 1..Len(Q) : Q[i] \in AllRequests
  BY LenProperties, ElementOfSeq
<1>2. \A r \in AllRequests : r.offset \in Nat /\ r.kind \in {"first", "more"}
  BY DEF AllRequests
<1> QED
  BY <1>1, <1>2

(***************************************************************************)
(* It without its first.                                                   *)
(***************************************************************************)
LEMMA QueueTail ==
  ASSUME NEW Q \in Seq(AllRequests), Q # <<>>
  PROVE  /\ Head(Q) = Q[1] /\ 1 \in DOMAIN Q
         /\ Tail(Q) \in Seq(AllRequests) /\ Len(Tail(Q)) = Len(Q) - 1
         /\ DOMAIN Tail(Q) = 1..(Len(Q) - 1)
         /\ \A i \in DOMAIN Tail(Q) : i + 1 \in DOMAIN Q /\ Tail(Q)[i] = Q[i + 1]
<1>1. Len(Q) \in Nat \ {0} /\ DOMAIN Q = 1..Len(Q)
  BY LenProperties
<1>2. Tail(Q) \in Seq(AllRequests) /\ Len(Tail(Q)) = Len(Q) - 1 /\ Head(Q) = Q[1]
      /\ \A i \in 1..(Len(Q) - 1) : Tail(Q)[i] = Q[i + 1]
  BY <1>1, HeadTailProperties
<1> QED
  BY <1>1, <1>2, LenProperties

(***************************************************************************)
(* It with one request more.                                               *)
(***************************************************************************)
LEMMA QueueMore ==
  ASSUME NEW Q \in Seq(AllRequests), NEW r \in AllRequests
  PROVE  /\ Append(Q, r) \in Seq(AllRequests) /\ Len(Append(Q, r)) = Len(Q) + 1
         /\ Len(Q) \in Nat
         /\ DOMAIN Q = 1..Len(Q) /\ DOMAIN Append(Q, r) = 1..(Len(Q) + 1)
         /\ \A i \in 1..Len(Q) : Append(Q, r)[i] = Q[i]
         /\ Append(Q, r)[Len(Q) + 1] = r
<1>1. Append(Q, r) \in Seq(AllRequests) /\ Len(Append(Q, r)) = Len(Q) + 1
  BY AppendProperties
<1> QED
  BY <1>1, AppendProperties, LenProperties

(***************************************************************************)
(* The request of a page.                                                  *)
(***************************************************************************)
LEMMA RequestIs ==
  ASSUME PageAssumption, NEW p \in Slices, NEW kind \in {"first", "more"}, NEW o \in Nat,
         kind = "first" => o = 0
  PROVE  /\ Request(kind, p, o) \in AllRequests
         /\ Request(kind, p, o).kind = kind /\ Request(kind, p, o).offset = o
         /\ Request(kind, p, o).filters = p.filters /\ Request(kind, p, o).sort = p.sort
BY DEF Request, AllRequests, Slices

(***************************************************************************)
(* What is there after Settle.                                             *)
(***************************************************************************)
LEMMA SettlesTypes ==
  ASSUME PageAssumption, NEW p \in Slices, NEW rest \in Seq(AllRequests), NEW old \in Nat,
         NEW p1, NEW Q1, Settles(p, rest, old, p1, Q1)
  PROVE  /\ p1 \in Slices /\ Q1 \in Seq(AllRequests)
         /\ p1.shown = p.shown /\ p1.offset = p.offset /\ p1.filters = p.filters
         /\ p1.sort = p.sort /\ p1.disturbed = p.disturbed /\ p1.late = p.late
         /\ p1.loading = (p.loading \/ (p.offset # old /\ p.offset # 0))
<1>1. p.offset \in Nat /\ p.loading \in BOOLEAN
  BY DEF Slices
<1>2. Request("more", p, p.offset) \in AllRequests
  BY <1>1, RequestIs
<1>3. Q1 \in Seq(AllRequests)
  BY <1>2, QueueMore DEF Settles
<1> DEFINE b == p.loading \/ (p.offset # old /\ p.offset # 0)
<1>4. b \in BOOLEAN /\ p1 = [p EXCEPT !.loading = b]
  BY DEF Settles
<1> HIDE DEF b
<1>5. /\ p1 \in Slices /\ p1.shown = p.shown /\ p1.offset = p.offset /\ p1.filters = p.filters
      /\ p1.sort = p.sort /\ p1.disturbed = p.disturbed /\ p1.late = p.late /\ p1.loading = b
  BY <1>4 DEF Slices
<1> QED
  BY <1>3, <1>5 DEF b

(***************************************************************************)
(* The requests are with the present query when the first has been         *)
(* answered,                                                               *)
(***************************************************************************)
LEMMA TailPertinent ==
  ASSUME NEW Q \in Seq(AllRequests), Q # <<>>, NEW p, Pertinent(p, Q),
         NEW p1, p1.filters = p.filters, p1.sort = p.sort
  PROVE  Pertinent(p1, Tail(Q))
<1> DEFINE R == Tail(Q)
<1>1. /\ Len(Q) \in Nat /\ DOMAIN Q = 1..Len(Q) /\ DOMAIN R = 1..(Len(Q) - 1)
      /\ \A i \in DOMAIN R : i + 1 \in DOMAIN Q /\ R[i] = Q[i + 1]
  BY QueueIs, QueueTail
<1> HIDE DEF R
<1>2. ASSUME NEW i \in DOMAIN R, OnlyMoreAfter(R, i)
      PROVE  R[i].filters = p.filters /\ R[i].sort = p.sort
  <2>1. ASSUME NEW j \in DOMAIN Q, j > i + 1 PROVE Q[j].kind = "more"
    <3>1. j - 1 \in DOMAIN R /\ j - 1 > i /\ (j - 1) + 1 = j
      BY <1>1, <2>1
    <3>2. PICK k \in DOMAIN R : k = j - 1 /\ k > i /\ k + 1 = j
      BY <3>1
    <3>3. R[k] = Q[k + 1] /\ R[k].kind = "more"
      BY <1>1, <1>2, <3>2 DEF OnlyMoreAfter
    <3> QED
      BY <3>2, <3>3
  <2>2. PICK m \in DOMAIN Q : m = i + 1 /\ R[i] = Q[m]
    BY <1>1
  <2>3. OnlyMoreAfter(Q, m)
    BY <2>1, <2>2 DEF OnlyMoreAfter
  <2> QED
    BY <2>2, <2>3 DEF Pertinent
<1> QED
  BY <1>2 DEF Pertinent, R

(***************************************************************************)
(* and when another page was asked for.                                    *)
(***************************************************************************)
LEMMA SettlesPertinent ==
  ASSUME PageAssumption, NEW p \in Slices, NEW rest \in Seq(AllRequests), NEW old \in Nat,
         NEW p1, NEW Q1, Settles(p, rest, old, p1, Q1), Pertinent(p, rest)
  PROVE  Pertinent(p1, Q1)
<1> DEFINE r == Request("more", p, p.offset)
           n == Len(rest)
<1>1. p1.filters = p.filters /\ p1.sort = p.sort
  BY SettlesTypes
<1>2. CASE Q1 = rest
  BY <1>1, <1>2 DEF Pertinent
<1>3. CASE Q1 = Append(rest, r)
  <2>1. p.offset \in Nat
    BY DEF Slices
  <2>2. r \in AllRequests /\ r.filters = p.filters /\ r.sort = p.sort
    BY <2>1, RequestIs
  <2> HIDE DEF r
  <2>3. /\ n \in Nat /\ DOMAIN rest = 1..n /\ DOMAIN Q1 = 1..(n + 1)
        /\ \A i \in 1..n : Q1[i] = rest[i]
        /\ Q1[n + 1] = r
    BY <1>3, <2>2, QueueMore
  <2> HIDE DEF n
  <2>4. ASSUME NEW i \in DOMAIN Q1, OnlyMoreAfter(Q1, i)
        PROVE  Q1[i].filters = p.filters /\ Q1[i].sort = p.sort
    <3>1. CASE i = n + 1
      BY <2>2, <2>3, <3>1
    <3>2. CASE i \in 1..n
      <4>1. OnlyMoreAfter(rest, i)
        BY <2>3, <2>4, <3>2 DEF OnlyMoreAfter
      <4> QED
        BY <2>3, <3>2, <4>1 DEF Pertinent
    <3> QED
      BY <2>3, <3>1, <3>2
  <2> QED
    BY <1>1, <2>4 DEF Pertinent
<1> QED
  BY <1>2, <1>3 DEF Settles

(***************************************************************************)
(* The page at the panel's offset stays asked for when the first has been  *)
(* answered,                                                               *)
(***************************************************************************)
LEMMA TailAwaits ==
  ASSUME NEW Q \in Seq(AllRequests), Q # <<>>, NEW p, Awaits(p, Q),
         NEW p1, p1.offset = p.offset
  PROVE  Awaits(p1, Tail(Q))
<1> DEFINE R == Tail(Q)
<1>1. /\ Len(Q) \in Nat /\ DOMAIN Q = 1..Len(Q) /\ DOMAIN R = 1..(Len(Q) - 1)
      /\ \A i \in DOMAIN R : i + 1 \in DOMAIN Q /\ R[i] = Q[i + 1]
  BY QueueIs, QueueTail
<1> HIDE DEF R
<1> SUFFICES ASSUME NEW f \in DOMAIN R, R[f].kind = "first", p.offset # 0
             PROVE  \E i \in DOMAIN R : /\ R[i].kind = "more" /\ R[i].offset = p.offset
                                        /\ OnlyMoreAfter(R, i)
  BY DEF Awaits, Unfinished, R
<1>2. PICK g \in DOMAIN Q : g = f + 1 /\ Q[g].kind = "first"
  BY <1>1
<1>3. PICK i \in DOMAIN Q : Q[i].kind = "more" /\ Q[i].offset = p.offset /\ OnlyMoreAfter(Q, i)
  BY <1>2 DEF Awaits, Unfinished
<1>4. ~(g > i)
  BY <1>2, <1>3 DEF OnlyMoreAfter
<1>5. PICK k \in DOMAIN R : k + 1 = i
  <2>1. i - 1 \in DOMAIN R /\ (i - 1) + 1 = i
    BY <1>1, <1>2, <1>3, <1>4
  <2> QED
    BY <2>1
<1>6. R[k].kind = "more" /\ R[k].offset = p.offset
  BY <1>1, <1>3, <1>5
<1>7. OnlyMoreAfter(R, k)
  <2> SUFFICES ASSUME NEW j \in DOMAIN R, j > k PROVE R[j].kind = "more"
    BY DEF OnlyMoreAfter
  <2>1. PICK m \in DOMAIN Q : m = j + 1 /\ R[j] = Q[m]
    BY <1>1
  <2>2. m > i
    BY <1>1, <1>5, <2>1
  <2> QED
    BY <1>3, <2>1, <2>2 DEF OnlyMoreAfter
<1> QED
  BY <1>6, <1>7

(***************************************************************************)
(* and when the offset moves, for then it is asked for.                    *)
(***************************************************************************)
LEMMA SettlesAwaits ==
  ASSUME PageAssumption, NEW p \in Slices, NEW rest \in Seq(AllRequests), NEW old \in Nat,
         NEW p1, NEW Q1, Settles(p, rest, old, p1, Q1), p.offset = old => Awaits(p, rest)
  PROVE  Awaits(p1, Q1)
<1> DEFINE r == Request("more", p, p.offset)
           n == Len(rest)
<1>1. p1.offset = p.offset
  BY SettlesTypes
<1>2. CASE p.offset = 0
  BY <1>1, <1>2 DEF Awaits
<1>3. CASE p.offset = old
  <2>1. Q1 = rest
    BY <1>3 DEF Settles
  <2> QED
    BY <1>1, <1>3, <2>1 DEF Awaits
<1>4. CASE p.offset # old /\ p.offset # 0
  <2>1. p.offset \in Nat /\ Q1 = Append(rest, r)
    BY <1>4 DEF Slices, Settles
  <2>2. r \in AllRequests /\ r.kind = "more" /\ r.offset = p.offset
    BY <2>1, RequestIs
  <2> HIDE DEF r
  <2>3. n \in Nat /\ DOMAIN Q1 = 1..(n + 1) /\ Q1[n + 1] = r
    BY <2>1, <2>2, QueueMore
  <2>4. n + 1 \in DOMAIN Q1 /\ OnlyMoreAfter(Q1, n + 1)
    BY <2>3 DEF OnlyMoreAfter
  <2> QED
    BY <1>1, <2>2, <2>3, <2>4 DEF Awaits
<1> QED
  BY <1>2, <1>3, <1>4

\* Of the requests Q, those at the places K will bring all that is not shown yet, where nothing
\* before the rank lo is missing.
Follow(lo, K, Q) ==
  \A i \in K : \/ Q[i].offset <= lo
               \/ \E j \in K : j < i /\ Q[i].offset <= Q[j].offset + PageSize
Reach(lo, K, Q, s) == lo >= s + PageSize \/ \E i \in K : s <= Q[i].offset
Stands(K, Q, p) ==
  \/ p.offset = Len(p.shown)
  \/ /\ p.loading /\ p.offset = Len(p.shown) + PageSize
     /\ Q # <<>> /\ Q[Len(Q)].offset = p.offset /\ Len(Q) \notin K
Asked(lo, K, Q, p) ==
  /\ K \subseteq DOMAIN Q
  /\ Follow(lo, K, Q) /\ Reach(lo, K, Q, Len(p.shown)) /\ Stands(K, Q, p)

\* Where nothing is missing after the page at o is shown.
Raised(lo, o) == IF o <= lo /\ lo < o + PageSize THEN o + PageSize ELSE lo

(***************************************************************************)
(* What Raised is at least.                                                *)
(***************************************************************************)
LEMMA RaisedIs ==
  ASSUME PageAssumption, QueriesAssumption, NEW lo \in Nat, NEW o \in Nat
  PROVE  /\ Raised(lo, o) \in Nat /\ Raised(lo, o) >= lo
         /\ o <= lo => Raised(lo, o) >= o + PageSize
BY DEF Raised, PageAssumption, QueriesAssumption

\* The places that are left when the first request is answered.
Left(K, Q) == {i \in DOMAIN Tail(Q) : i + 1 \in K}

(***************************************************************************)
(* When a page was shown the remaining requests bring what remains.        *)
(***************************************************************************)
LEMMA AskedTail ==
  ASSUME PageAssumption, QueriesAssumption, NEW Q \in Seq(AllRequests), Q # <<>>,
         NEW lo \in Nat, NEW K, K \subseteq DOMAIN Q, Follow(lo, K, Q),
         NEW s \in Nat, Reach(lo, K, Q, s)
  PROVE  /\ Follow(Raised(lo, Q[1].offset), Left(K, Q), Tail(Q))
         /\ Reach(Raised(lo, Q[1].offset), Left(K, Q), Tail(Q), s)
<1> DEFINE R == Tail(Q)
           K0 == Left(K, Q)
           lo1 == Raised(lo, Q[1].offset)
<1>0. PageSize \in Nat \ {0}
  BY DEF PageAssumption, QueriesAssumption
<1>1. /\ Len(Q) \in Nat /\ DOMAIN Q = 1..Len(Q) /\ DOMAIN R = 1..(Len(Q) - 1)
      /\ \A i \in DOMAIN R : i + 1 \in DOMAIN Q /\ R[i] = Q[i + 1]
      /\ \A i \in DOMAIN Q : Q[i].offset \in Nat
      /\ 1 \in DOMAIN Q
  BY QueueIs, QueueTail
<1>2. PICK o \in Nat : o = Q[1].offset
  BY <1>1
<1>3. lo1 \in Nat /\ lo1 >= lo /\ (o <= lo => lo1 >= o + PageSize)
  BY <1>2, RaisedIs
<1>4. \A i \in K0 : i \in DOMAIN R /\ i + 1 \in K
  BY DEF Left
<1>5. ASSUME NEW i \in K, i # 1
      PROVE  \E k \in K0 : k + 1 = i /\ R[k] = Q[i]
  <2>1. i - 1 \in DOMAIN R /\ (i - 1) + 1 = i
    BY <1>1, <1>5
  <2>2. i - 1 \in K0
    BY <2>1 DEF Left
  <2> QED
    BY <1>1, <2>1, <2>2
<1> HIDE DEF R, K0, lo1
<1>6. 1 \in K => o <= lo
  <2> SUFFICES ASSUME 1 \in K PROVE o <= lo
    OBVIOUS
  <2>1. \A j \in K : ~(j < 1)
    BY <1>1
  <2> QED
    BY <1>2, <2>1 DEF Follow
<1>7. Follow(lo1, K0, R)
  <2> SUFFICES ASSUME NEW i \in K0
               PROVE  \/ R[i].offset <= lo1
                      \/ \E j \in K0 : j < i /\ R[i].offset <= R[j].offset + PageSize
    BY DEF Follow
  <2>1. PICK m \in K : m = i + 1 /\ R[i] = Q[m] /\ Q[m].offset \in Nat /\ i \in Nat
    BY <1>1, <1>4
  <2>2. CASE Q[m].offset <= lo
    BY <1>3, <2>1, <2>2
  <2>3. CASE \E j \in K : j < m /\ Q[m].offset <= Q[j].offset + PageSize
    <3>1. PICK j \in K : j < m /\ Q[m].offset <= Q[j].offset + PageSize
      BY <2>3
    <3>2. CASE j = 1
      <4>1. Q[m].offset <= o + PageSize /\ o <= lo
        BY <1>2, <1>6, <3>1, <3>2
      <4> QED
        BY <1>0, <1>3, <2>1, <4>1
    <3>3. CASE j # 1
      <4>1. PICK k \in K0 : k + 1 = j /\ R[k] = Q[j]
        BY <1>5, <3>3
      <4>2. k < i
        BY <1>1, <1>4, <2>1, <3>1, <4>1
      <4> QED
        BY <2>1, <3>1, <4>1, <4>2
    <3> QED
      BY <3>2, <3>3
  <2> QED
    BY <2>2, <2>3 DEF Follow
<1>8. Reach(lo1, K0, R, s)
  <2>1. CASE lo >= s + PageSize
    BY <1>0, <1>3, <2>1 DEF Reach
  <2>2. CASE \E i \in K : s <= Q[i].offset
    <3>1. PICK i \in K : s <= Q[i].offset
      BY <2>2
    <3>2. CASE i = 1
      <4>1. s <= o /\ o <= lo
        BY <1>2, <1>6, <3>1, <3>2
      <4> QED
        BY <1>0, <1>3, <4>1 DEF Reach
    <3>3. CASE i # 1
      <4>1. PICK k \in K0 : k + 1 = i /\ R[k] = Q[i]
        BY <1>5, <3>3
      <4> QED
        BY <3>1, <4>1 DEF Reach
    <3> QED
      BY <3>2, <3>3
  <2> QED
    BY <2>1, <2>2 DEF Reach
<1> QED
  BY <1>7, <1>8 DEF R, K0, lo1

(***************************************************************************)
(* One request more, at the place n, after those at the places K.          *)
(***************************************************************************)
LEMMA AskedOneMore ==
  ASSUME PageAssumption, QueriesAssumption, NEW Q \in Seq(AllRequests),
         NEW lo \in Nat, NEW K, K \subseteq DOMAIN Q, NEW n \in DOMAIN Q,
         \A i \in K : i < n, Follow(lo, K, Q),
         NEW s \in Nat, Reach(lo, K, Q, s), NEW s1 \in Nat, s1 <= s + PageSize,
         Q[n].offset = s1
  PROVE  Follow(lo, K \cup {n}, Q) /\ Reach(lo, K \cup {n}, Q, s1)
<1>0. PageSize \in Nat \ {0}
  BY DEF PageAssumption, QueriesAssumption
<1>1. \A i \in DOMAIN Q : Q[i].offset \in Nat
  BY QueueIs
<1>2. Reach(lo, K \cup {n}, Q, s1)
  BY DEF Reach
<1>3. ASSUME NEW i \in K
      PROVE  \/ Q[i].offset <= lo
             \/ \E j \in K \cup {n} : j < i /\ Q[i].offset <= Q[j].offset + PageSize
  BY DEF Follow
<1>4. \/ Q[n].offset <= lo
      \/ \E j \in K \cup {n} : j < n /\ Q[n].offset <= Q[j].offset + PageSize
  <2>1. CASE lo >= s + PageSize
    BY <1>0, <2>1
  <2>2. CASE \E i \in K : s <= Q[i].offset
    <3>1. PICK i \in K : s <= Q[i].offset /\ Q[i].offset \in Nat /\ i < n
      BY <1>1, <2>2
    <3>2. s1 <= Q[i].offset + PageSize
      BY <1>0, <3>1
    <3> QED
      BY <3>1, <3>2
  <2> QED
    BY <2>1, <2>2 DEF Reach
<1> QED
  BY <1>2, <1>3, <1>4 DEF Follow

(***************************************************************************)
(* The same places in a queue that is longer.                              *)
(***************************************************************************)
LEMMA AskedAppended ==
  ASSUME NEW Q \in Seq(AllRequests), NEW r \in AllRequests,
         NEW lo \in Nat, NEW K, K \subseteq DOMAIN Q, Follow(lo, K, Q),
         NEW s \in Nat, Reach(lo, K, Q, s)
  PROVE  /\ K \subseteq DOMAIN Append(Q, r) /\ Follow(lo, K, Append(Q, r))
         /\ Reach(lo, K, Append(Q, r), s)
<1> DEFINE A == Append(Q, r)
<1>1. /\ Len(Q) \in Nat /\ DOMAIN Q = 1..Len(Q) /\ DOMAIN A = 1..(Len(Q) + 1)
      /\ \A i \in 1..Len(Q) : A[i] = Q[i]
  BY QueueMore
<1> HIDE DEF A
<1>2. K \subseteq DOMAIN A /\ \A i \in K : A[i] = Q[i]
  BY <1>1
<1>3. Follow(lo, K, A)
  BY <1>2 DEF Follow
<1>4. Reach(lo, K, A, s)
  BY <1>2 DEF Reach
<1> QED
  BY <1>2, <1>3, <1>4 DEF A

(***************************************************************************)
(* An answer that shows events of a page at most leaves all that is        *)
(* missing asked for: if the panel's offset moves, to the number that is   *)
(* shown, the page there is asked for as well, and it starts at most a     *)
(* page after a request that is there.                                     *)
(***************************************************************************)
LEMMA AskedAnswer ==
  ASSUME PageAssumption, QueriesAssumption, NEW Q \in Seq(AllRequests), Q # <<>>,
         NEW lo \in Nat, NEW K, NEW p \in Slices, Asked(lo, K, Q, p),
         NEW p0 \in Slices, Len(p0.shown) \in Len(p.shown)..(Len(p.shown) + PageSize),
         p0.offset = Len(p0.shown), NEW p1, NEW Q1, Settles(p0, Tail(Q), p.offset, p1, Q1)
  PROVE  \E K1 : Asked(Raised(lo, Q[1].offset), K1, Q1, p1)
<1> DEFINE R == Tail(Q)
           K0 == Left(K, Q)
           lo1 == Raised(lo, Q[1].offset)
           s == Len(p.shown)
           s1 == Len(p0.shown)
           n == Len(R)
           r == Request("more", p0, p0.offset)
<1>0. PageSize \in Nat \ {0}
  BY DEF PageAssumption, QueriesAssumption
<1>1. /\ Len(Q) \in Nat \ {0} /\ DOMAIN Q = 1..Len(Q) /\ DOMAIN R = 1..(Len(Q) - 1)
      /\ \A i \in DOMAIN R : i + 1 \in DOMAIN Q /\ R[i] = Q[i + 1]
      /\ \A i \in DOMAIN Q : Q[i].offset \in Nat
      /\ R \in Seq(AllRequests) /\ n = Len(Q) - 1
  BY QueueIs, QueueTail
<1>2. s \in Nat /\ s1 \in Nat /\ s <= s1 /\ s1 <= s + PageSize /\ p.offset \in Nat
  <2>1. p.shown \in Seq(AllStored) /\ p0.shown \in Seq(AllStored) /\ p.offset \in Nat
    BY DEF Slices
  <2>2. s \in Nat /\ s1 \in Nat
    BY <2>1, LenProperties
  <2> QED
    BY <1>0, <2>1, <2>2
<1>3. K \subseteq DOMAIN Q /\ Follow(lo, K, Q) /\ Reach(lo, K, Q, s) /\ Stands(K, Q, p)
  BY DEF Asked
<1>4. lo1 \in Nat /\ lo1 >= lo /\ (Q[1].offset <= lo => lo1 >= Q[1].offset + PageSize)
  <2>1. PICK o \in Nat : o = Q[1].offset
    BY <1>1
  <2> QED
    BY <2>1, RaisedIs
<1>5. Follow(lo1, K0, R) /\ Reach(lo1, K0, R, s) /\ K0 \subseteq DOMAIN R
  BY <1>1, <1>2, <1>3, AskedTail DEF Left
<1>6. /\ p1.shown = p0.shown /\ p1.offset = s1
  <2>1. PICK rest \in Seq(AllRequests), old \in Nat : Settles(p0, rest, old, p1, Q1)
    BY <1>1, <1>2
  <2>2. p1.shown = p0.shown /\ p1.offset = p0.offset
    BY <2>1, SettlesTypes
  <2> QED
    BY <2>2
<1>7. \A i \in K0 : i + 1 \in K
  BY DEF Left
<1>8. r \in AllRequests /\ r.offset = s1
  BY <1>2, RequestIs
<1> HIDE DEF R, K0, lo1, n, r, s, s1
<1>9. ASSUME NEW K1, K1 \subseteq DOMAIN Q1, Follow(lo1, K1, Q1), Reach(lo1, K1, Q1, s1)
      PROVE  Asked(lo1, K1, Q1, p1)
  BY <1>6, <1>9 DEF Asked, Stands, s1
<1>10. CASE s1 # p.offset /\ s1 # 0
  <2>1. Q1 = Append(R, r)
    BY <1>10 DEF Settles, s1, r, R
  <2>2. /\ n \in Nat /\ DOMAIN R = 1..n /\ DOMAIN Q1 = 1..(n + 1) /\ Q1[n + 1] = r
        /\ Q1 \in Seq(AllRequests)
    BY <1>1, <1>8, <2>1, QueueMore DEF n
  <2>3. K0 \subseteq DOMAIN Q1 /\ Follow(lo1, K0, Q1) /\ Reach(lo1, K0, Q1, s)
    BY <1>1, <1>2, <1>4, <1>5, <1>8, <2>1, AskedAppended
  <2>4. n + 1 \in DOMAIN Q1 /\ \A i \in K0 : i < n + 1
    BY <1>5, <2>2
  <2>5. PICK m \in DOMAIN Q1 : m = n + 1 /\ Q1[m].offset = s1 /\ \A i \in K0 : i < m
    BY <1>8, <2>2, <2>4
  <2>6. Follow(lo1, K0 \cup {m}, Q1) /\ Reach(lo1, K0 \cup {m}, Q1, s1)
    BY <1>2, <1>4, <2>2, <2>3, <2>5, AskedOneMore
  <2>7. Asked(lo1, K0 \cup {m}, Q1, p1)
    BY <1>9, <2>3, <2>5, <2>6
  <2> QED
    BY <2>7 DEF lo1
<1>11. CASE s1 = s /\ ~(s1 # p.offset /\ s1 # 0)
  <2>1. Q1 = R
    BY <1>11 DEF Settles, s1, R
  <2>2. Asked(lo1, K0, Q1, p1)
    BY <1>5, <1>9, <1>11, <2>1
  <2> QED
    BY <2>2 DEF lo1
<1>12. CASE s1 # s /\ ~(s1 # p.offset /\ s1 # 0)
  <2>1. s1 = p.offset /\ Q1 = R
    BY <1>2, <1>12 DEF Settles, s1, R
  <2>2. /\ p.offset = s + PageSize /\ Q[Len(Q)].offset = p.offset /\ Len(Q) \notin K
    BY <1>3, <1>12, <2>1 DEF Stands, s
  <2>3. CASE Len(Q) = 1
    <3>1. K = {}
      BY <1>1, <1>3, <2>2, <2>3
    <3>2. lo >= s + PageSize
      BY <1>3, <3>1 DEF Reach
    <3>3. Q[1].offset = s1 /\ s1 <= lo
      BY <2>1, <2>2, <2>3, <3>2
    <3>4. lo1 >= s1 + PageSize
      BY <1>4, <3>3
    <3>5. Reach(lo1, K0, R, s1)
      BY <3>4 DEF Reach
    <3>6. Asked(lo1, K0, Q1, p1)
      BY <1>5, <1>9, <2>1, <3>5
    <3> QED
      BY <3>6 DEF lo1
  <2>4. CASE Len(Q) # 1
    <3>1. PICK m \in DOMAIN R : m = n /\ m + 1 = Len(Q) /\ m \in Nat /\ DOMAIN R = 1..m
      BY <1>1, <2>4
    <3>2. R[m].offset = s1
      BY <1>1, <2>1, <2>2, <3>1
    <3>3. \A i \in K0 : i < m
      <4> SUFFICES ASSUME NEW i \in K0 PROVE i < m
        OBVIOUS
      <4>1. i \in 1..m /\ i + 1 \in K /\ i + 1 # m + 1
        BY <1>5, <1>7, <2>2, <3>1
      <4> QED
        BY <3>1, <4>1
    <3>4. Follow(lo1, K0 \cup {m}, R) /\ Reach(lo1, K0 \cup {m}, R, s1)
      BY <1>1, <1>2, <1>4, <1>5, <3>2, <3>3, AskedOneMore
    <3>5. Asked(lo1, K0 \cup {m}, Q1, p1)
      BY <1>5, <1>9, <2>1, <3>4
    <3> QED
      BY <3>5 DEF lo1
  <2> QED
    BY <2>3, <2>4
<1> QED
  BY <1>10, <1>11, <1>12

(***************************************************************************)
(* loadMore leaves it so: it asks for a page more than is needed.          *)
(***************************************************************************)
LEMMA AskedLoadMore ==
  ASSUME PageAssumption, QueriesAssumption, NEW Q \in Seq(AllRequests),
         NEW lo \in Nat, NEW K, NEW p \in Slices, Asked(lo, K, Q, p), ~p.loading,
         NEW p0 \in Slices, p0.shown = p.shown, p0.offset = p.offset + PageSize,
         NEW p1, NEW Q1, Settles(p0, Q, p.offset, p1, Q1)
  PROVE  Asked(lo, K, Q1, p1)
<1> DEFINE r == Request("more", p0, p0.offset)
           s == Len(p.shown)
           n == Len(Q)
<1>0. PageSize \in Nat \ {0} /\ s \in Nat /\ p.offset \in Nat
  BY LenProperties DEF PageAssumption, QueriesAssumption, Slices
<1>1. K \subseteq DOMAIN Q /\ Follow(lo, K, Q) /\ Reach(lo, K, Q, s) /\ p.offset = s
  BY DEF Asked, Stands
<1>2. p0.offset = s + PageSize /\ p0.offset # p.offset /\ p0.offset # 0
  BY <1>0, <1>1
<1>3. r \in AllRequests /\ r.offset = s + PageSize
  BY <1>0, <1>2, RequestIs
<1>4. p1.shown = p.shown /\ p1.offset = s + PageSize /\ p1.loading
  <2>1. /\ p1.shown = p0.shown /\ p1.offset = p0.offset
        /\ p1.loading = (p0.loading \/ (p0.offset # p.offset /\ p0.offset # 0))
    BY <1>0, SettlesTypes
  <2> QED
    BY <1>2, <2>1
<1>5. Q1 = Append(Q, r)
  BY <1>2 DEF Settles
<1> HIDE DEF r, s
<1>6. /\ n \in Nat /\ DOMAIN Q = 1..n /\ Len(Q1) = n + 1 /\ Q1[n + 1] = r
      /\ Q1 \in Seq(AllRequests)
  BY <1>3, <1>5, QueueMore
<1>7. K \subseteq DOMAIN Q1 /\ Follow(lo, K, Q1) /\ Reach(lo, K, Q1, s)
  BY <1>0, <1>1, <1>3, <1>5, AskedAppended
<1> HIDE DEF n
<1>8. Q1[Len(Q1)].offset = p1.offset /\ Len(Q1) \notin K /\ Q1 # <<>>
  <2>1. n + 1 \notin 1..n
    BY <1>6
  <2> QED
    BY <1>1, <1>3, <1>4, <1>6, <2>1
<1>9. Stands(K, Q1, p1)
  BY <1>4, <1>8 DEF Stands, s
<1> QED
  BY <1>4, <1>7, <1>9 DEF Asked, s

\* What is shown matches, and nothing is missing before the rank lo.
Seen(lo, records, p) ==
  /\ Ids(p.shown) \subseteq Hits(records, p.filters)
  /\ \A m \in Hits(records, p.filters) :
       m \notin Ids(p.shown) => Rank(records, p.filters, p.sort, m) >= lo

(***************************************************************************)
(* A record has a rank.                                                    *)
(***************************************************************************)
LEMMA RankIs ==
  ASSUME PageAssumption, NEW records, Numbered(records), NEW filters, NEW order \in Orders,
         NEW m \in Hits(records, filters)
  PROVE  /\ Rank(records, filters, order, m) \in Nat
         /\ IsFiniteSet(Ahead(records, order, Hits(records, filters))[m])
<1>1. Timed(records) /\ Hits(records, filters) \subseteq DOMAIN records
  BY NumberedIsTimed DEF Hits
<1>2. Ordered(Hits(records, filters), Ahead(records, order, Hits(records, filters)))
  BY <1>1, RecordsAreOrdered
<1> QED
  BY <1>2, FewerBefore DEF Rank

(***************************************************************************)
(* A page at an offset that is not beyond the ranks of which nothing is    *)
(* missing raises them to its end.                                         *)
(***************************************************************************)
LEMMA SeenAnswer ==
  ASSUME PageAssumption, QueriesAssumption, NEW records, Numbered(records),
         NEW p \in Slices, NEW lo \in Nat, Seen(lo, records, p), NEW o \in Nat, NEW p1,
         p1.filters = p.filters, p1.sort = p.sort,
         Ids(p1.shown) = Ids(p.shown) \cup Window(records, p.filters, p.sort, o)
  PROVE  Seen(Raised(lo, o), records, p1)
<1> DEFINE H == Hits(records, p.filters)
           W == Window(records, p.filters, p.sort, o)
<1>0. PageSize \in Nat \ {0} /\ p.sort \in Orders
  BY DEF PageAssumption, QueriesAssumption, Slices
<1>1. W \subseteq H
  BY DEF Window
<1>2. ASSUME NEW m \in H, m \notin Ids(p1.shown)
      PROVE  Rank(records, p.filters, p.sort, m) >= Raised(lo, o)
  <2>1. PICK k \in Nat : k = Rank(records, p.filters, p.sort, m)
    BY <1>0, RankIs
  <2>2. k >= lo /\ ~(k >= o /\ k < o + PageSize)
    BY <1>2, <2>1 DEF Seen, Window
  <2>3. k >= Raised(lo, o)
    BY <1>0, <2>2 DEF Raised
  <2> QED
    BY <2>1, <2>3
<1> QED
  BY <1>1, <1>2 DEF Seen

(***************************************************************************)
(* The first page, alone: nothing is missing before its end.               *)
(***************************************************************************)
LEMMA SeenFirst ==
  ASSUME PageAssumption, QueriesAssumption, NEW records, Numbered(records),
         NEW p \in Slices, Ids(p.shown) = Window(records, p.filters, p.sort, 0)
  PROVE  Seen(PageSize, records, p)
<1>0. PageSize \in Nat \ {0} /\ p.sort \in Orders
  BY DEF PageAssumption, QueriesAssumption, Slices
<1>1. ASSUME NEW m \in Hits(records, p.filters), m \notin Ids(p.shown)
      PROVE  Rank(records, p.filters, p.sort, m) >= PageSize
  <2>1. PICK k \in Nat : k = Rank(records, p.filters, p.sort, m)
    BY <1>0, RankIs
  <2>2. ~(k >= 0 /\ k < 0 + PageSize)
    BY <1>1, <2>1 DEF Window
  <2> QED
    BY <1>0, <2>1, <2>2
<1> QED
  BY <1>1 DEF Seen, Window

(***************************************************************************)
(* A history with one record more is one,                                  *)
(***************************************************************************)
LEMMA RecordedMore ==
  ASSUME NEW records, Numbered(records), NEW r \in AllStored, r.id = Len(records) + 1
  PROVE  LET more == Append(records, r)
         IN  /\ Numbered(more) /\ DOMAIN records = 1..Len(records) /\ Len(records) \in Nat
             /\ DOMAIN more = 1..(Len(records) + 1)
<1> DEFINE n == Len(records)
           more == Append(records, r)
<1>1. records \in Seq(AllStored) /\ n \in Nat /\ DOMAIN records = 1..n
  BY LenProperties DEF Numbered
<1>4. /\ more \in Seq(AllStored) /\ Len(more) = n + 1
      /\ \A i \in 1..n : more[i] = records[i]
      /\ more[n + 1] = r
  BY ONLY <1>1, r \in AllStored, AppendProperties
<1> HIDE DEF more
<1>5. DOMAIN more = 1..(n + 1)
  BY <1>4, LenProperties
<1>6. ASSUME NEW i \in 1..(n + 1) PROVE more[i].id = i
  <2>1. i \in 1..n \/ i = n + 1
    BY <1>1
  <2> QED
    BY <1>1, <1>4, <2>1 DEF Numbered
<1> QED
  BY <1>1, <1>4, <1>5, <1>6 DEF Numbered, more

(***************************************************************************)
(* and so is one with a record written again.                              *)
(***************************************************************************)
LEMMA RewrittenIs ==
  ASSUME NEW records, Numbered(records), NEW r \in AllStored, NEW i \in DOMAIN records, r.id = i
  PROVE  LET again == [records EXCEPT ![i] = r]
         IN  Numbered(again) /\ DOMAIN again = DOMAIN records
<1> DEFINE again == [records EXCEPT ![i] = r]
<1>1. records \in Seq(AllStored) /\ DOMAIN records = 1..Len(records)
  BY LenProperties DEF Numbered
<1>2. again \in Seq(AllStored) /\ DOMAIN again = DOMAIN records
  BY ONLY <1>1, r \in AllStored, i \in DOMAIN records, ExceptSeq
<1>3. \A j \in DOMAIN records : again[j] = IF j = i THEN r ELSE records[j]
  BY ONLY <1>1
<1> QED
  BY <1>2, <1>3 DEF Numbered

(***************************************************************************)
(* What apply_filters finds are the records that match.                    *)
(***************************************************************************)
LEMMA ListedIds ==
  ASSUME PageAssumption, NEW records, Numbered(records), NEW filters
  PROVE  Ids(apply_filters(records, filters)) = Hits(records, filters)
<1> DEFINE H == Hits(records, filters)
           n == Cardinality(H)
           c == apply_filters(records, filters)
<1>1. Timed(records) /\ H \subseteq DOMAIN records /\ H \subseteq Nat
  BY NumberedIsTimed DEF Hits, Timed
<1>2. IsFiniteSet(H)
  BY <1>1, RecordsAreOrdered DEF Orders
<1>3. c = Chosen(records, H)
  BY DEF apply_filters, Hits
<1>4. \A i \in H : records[i].id = i
  BY <1>1 DEF Numbered
<1> HIDE DEF H, c
<1>5. PICK p : Takes(p, c, records, H)
  BY <1>1, <1>2, <1>3, ChosenIs
<1>6. /\ p \in [1..n -> H] /\ c = [k \in 1..n |-> records[p[k]]]
      /\ \A i \in H : \E k \in 1..n : p[k] = i
  BY <1>5 DEF Takes, Rises
<1> HIDE DEF n
<1>7. DOMAIN c = 1..n /\ \A k \in 1..n : c[k].id = p[k] /\ p[k] \in H
  BY <1>4, <1>6
<1>8. Ids(c) = H
  BY <1>6, <1>7 DEF Ids
<1> QED
  BY <1>8 DEF H, c

(***************************************************************************)
(* At rest nothing is missing.                                             *)
(***************************************************************************)
LEMMA NothingMissing ==
  ASSUME PageAssumption, QueriesAssumption, NEW records, Numbered(records), NEW p \in Slices,
         Distinct(p.shown), NEW lo \in Nat, NEW K, Asked(lo, K, <<>>, p),
         Seen(lo, records, p)
  PROVE  Ids(p.shown) = Hits(records, p.filters)
<1> DEFINE H == Hits(records, p.filters)
           E == Ahead(records, p.sort, H)
           places == InOrder(H, E)
           s == Len(p.shown)
           n == Cardinality(H)
<1>0. /\ PageSize \in Nat \ {0} /\ p.sort \in Orders /\ s \in Nat /\ DOMAIN p.shown = 1..s
      /\ p.shown \in Seq(AllStored)
  BY LenProperties DEF PageAssumption, QueriesAssumption, Slices
<1>1. K = {}
  BY DEF Asked
<1>2. lo >= s + PageSize
  BY <1>1 DEF Asked, Reach
<1>3. /\ Timed(records) /\ H \subseteq DOMAIN records /\ H \subseteq 1..Len(records)
      /\ Len(records) \in Nat
  BY NumberedIsTimed DEF Hits, Timed
<1>4. Lists(places, H, E)
  BY <1>0, <1>3, RecordsAreOrdered, OrderIsListed
<1> SUFFICES ASSUME NEW x \in H, x \notin Ids(p.shown) PROVE FALSE
  BY DEF Seen
<1>5. ASSUME NEW m \in H, m \notin Ids(p.shown) PROVE Cardinality(E[m]) >= lo
  BY <1>5 DEF Seen, Rank
<1> HIDE DEF places, E, H
<1>6. /\ n \in Nat /\ places \in [1..n -> H]
      /\ \A k \in 1..n : Cardinality(E[places[k]]) = k - 1
      /\ Cardinality(E[x]) \in 0..(n - 1)
  BY <1>4 DEF Lists
<1> HIDE DEF n
<1>7. Cardinality(E[x]) >= lo
  BY <1>5
<1>8. s + 1 <= n
  BY <1>0, <1>2, <1>6, <1>7
<1>9. ASSUME NEW k \in 1..(s + 1) PROVE k \in 1..n /\ places[k] \in H /\ places[k] \in Ids(p.shown)
  <2>1. k \in 1..n /\ places[k] \in H /\ Cardinality(E[places[k]]) = k - 1
    BY <1>0, <1>6, <1>8
  <2>2. ~(k - 1 >= lo)
    BY <1>0, <1>2
  <2> QED
    BY <1>5, <2>1, <2>2
<1> DEFINE g == [k \in 1..(s + 1) |-> places[k]]
<1>10. g \in [1..(s + 1) -> Ids(p.shown)]
  BY <1>9
<1>11. IsFiniteSet(Ids(p.shown)) /\ Cardinality(Ids(p.shown)) = s
  BY <1>0, ShowsNoneTwice DEF Shows
<1>12. IsFiniteSet(1..(s + 1)) /\ Cardinality(1..(s + 1)) = s + 1
  BY <1>0, Interval
<1>13. Cardinality(Ids(p.shown)) < Cardinality(1..(s + 1))
  BY <1>0, <1>11, <1>12
<1>14. PICK k, l \in 1..(s + 1) : k # l /\ g[k] = g[l]
  <2> HIDE DEF g
  <2>1. PICK S, T : S = 1..(s + 1) /\ T = Ids(p.shown)
    OBVIOUS
  <2>2. /\ g \in [S -> T] /\ IsFiniteSet(S) /\ IsFiniteSet(T)
        /\ Cardinality(T) < Cardinality(S)
    BY ONLY <1>10, <1>11, <1>12, <1>13, <2>1
  <2>3. \E k, l \in S : k # l /\ g[k] = g[l]
    BY ONLY <2>2, FS_PigeonHole
  <2> QED
    BY ONLY <2>1, <2>3
<1>15. places[k] = places[l] /\ k \in 1..n /\ l \in 1..n
  BY <1>9, <1>14
<1>16. k - 1 = l - 1
  BY <1>6, <1>15
<1> QED
  BY <1>0, <1>14, <1>16

PageTypes ==
  /\ Numbered(stored) /\ unfinished \subseteq DOMAIN stored /\ live \in Seq(AllStored)
  /\ page \in Slices /\ pageRequests \in Seq(AllRequests)

\* While every answer is taken by its own request the requests are these.
InTurn(p, Q) == p.late = 0 => Pertinent(p, Q) /\ Awaits(p, Q)

\* What a panel shows that nothing disturbed is the history's, its answers are taken by their
\* own requests, and once the first page is there what is missing has been asked for.
Coming(p, Q, records) ==
  ~p.disturbed =>
    /\ p.late = 0 /\ AsStored(p.shown, records)
    /\ ~Unfinished(Q) =>
         \E lo \in Nat : \E K : Asked(lo, K, Q, p) /\ Seen(lo, records, p)

PagesIInv ==
  /\ PageTypes /\ Distinct(page.shown)
  /\ InTurn(page, pageRequests) /\ Coming(page, pageRequests, stored)

(***************************************************************************)
(* If there is no first request after Settle there was none before.        *)
(***************************************************************************)
LEMMA SettlesFinished ==
  ASSUME PageAssumption, NEW p \in Slices, NEW rest \in Seq(AllRequests), NEW old \in Nat,
         NEW p1, NEW Q1, Settles(p, rest, old, p1, Q1), ~Unfinished(Q1)
  PROVE  ~Unfinished(rest)
<1> DEFINE r == Request("more", p, p.offset)
<1>1. CASE Q1 = rest
  BY <1>1
<1>2. CASE Q1 = Append(rest, r)
  <2>1. p.offset \in Nat
    BY DEF Slices
  <2>2. r \in AllRequests
    BY <2>1, RequestIs
  <2> HIDE DEF r
  <2>3. \A i \in DOMAIN rest : i \in DOMAIN Q1 /\ Q1[i] = rest[i]
    BY <1>2, <2>2, QueueMore
  <2> QED
    BY <2>3 DEF Unfinished
<1> QED
  BY <1>1, <1>2 DEF Settles

(***************************************************************************)
(* What every answer leaves right, whatever it says.                       *)
(***************************************************************************)
LEMMA AnswerSettles ==
  ASSUME PageAssumption, PageTypes, InTurn(page, pageRequests),
         pageRequests # <<>>, NEW p0 \in Slices, p0.filters = page.filters,
         p0.sort = page.sort, p0.late = page.late, Distinct(p0.shown),
         Settle(p0, Tail(pageRequests))
  PROVE  /\ page' \in Slices /\ pageRequests' \in Seq(AllRequests) /\ Distinct(page'.shown)
         /\ InTurn(page', pageRequests') /\ page'.late = page.late
         /\ page'.shown = p0.shown /\ page'.offset = p0.offset /\ page'.filters = p0.filters
         /\ page'.sort = p0.sort /\ page'.disturbed = p0.disturbed
         /\ ~Unfinished(pageRequests') => ~Unfinished(Tail(pageRequests))
<1>1. PICK rest \in Seq(AllRequests), old \in Nat : rest = Tail(pageRequests) /\ old = page.offset
  BY QueueTail DEF PageTypes, Slices
<1>2. Settles(p0, rest, old, page', pageRequests')
  BY <1>1, SettleSettles
<1>3. PICK p1, Q1 : p1 = page' /\ Q1 = pageRequests'
  OBVIOUS
<1>4. Settles(p0, rest, old, p1, Q1)
  BY <1>2, <1>3
<1>5. /\ p1 \in Slices /\ Q1 \in Seq(AllRequests)
      /\ p1.shown = p0.shown /\ p1.offset = p0.offset /\ p1.filters = p0.filters
      /\ p1.sort = p0.sort /\ p1.disturbed = p0.disturbed /\ p1.late = p0.late
  <2>1. old \in Nat /\ rest \in Seq(AllRequests)
    OBVIOUS
  <2>2. /\ p1 \in Slices /\ Q1 \in Seq(AllRequests)
        /\ p1.shown = p0.shown /\ p1.offset = p0.offset /\ p1.filters = p0.filters
        /\ p1.sort = p0.sort /\ p1.disturbed = p0.disturbed /\ p1.late = p0.late
        /\ p1.loading = (p0.loading \/ (p0.offset # old /\ p0.offset # 0))
    BY ONLY PageAssumption, <1>4, <2>1, p0 \in Slices, SettlesTypes
  <2> QED
    BY <2>2
<1>6. ASSUME page.late = 0 PROVE Pertinent(p1, Q1) /\ Awaits(p1, Q1)
  <2>1. Pertinent(page, pageRequests) /\ Awaits(page, pageRequests)
    BY <1>6 DEF InTurn
  <2>2. Pertinent(p0, rest)
    BY <1>1, <2>1, TailPertinent DEF PageTypes
  <2>3. Pertinent(p1, Q1)
    BY <1>1, <1>4, <2>2, SettlesPertinent
  <2>4. p0.offset = old => Awaits(p0, rest)
    BY <1>1, <2>1, TailAwaits DEF PageTypes
  <2>5. Awaits(p1, Q1)
    BY <1>1, <1>4, <2>4, SettlesAwaits
  <2> QED
    BY <2>3, <2>5
<1>7. InTurn(p1, Q1)
  BY <1>5, <1>6 DEF InTurn
<1>10. ~Unfinished(Q1) => ~Unfinished(rest)
  BY <1>1, <1>4, SettlesFinished
<1> QED
  BY <1>1, <1>3, <1>5, <1>7, <1>10

\* Slices, for any sets of lists, filters and orders; one with what a further page shows.
SlicesOf(S, F, O) ==
  [shown : S, total : Nat, more : BOOLEAN, offset : Nat, loading : BOOLEAN,
   filters : F, sort : O, changes : Nat, faults : Nat, late : Nat, disturbed : BOOLEAN]
WithMore(p, m, total, more, n) ==
  [p EXCEPT !.shown = m, !.total = total, !.more = more, !.offset = n, !.loading = FALSE]

(***************************************************************************)
(* The panel's slice with what a further page shows in it.                 *)
(***************************************************************************)
LEMMA SliceOfMore ==
  ASSUME NEW S, NEW F, NEW O, NEW p \in SlicesOf(S, F, O),
         NEW m \in S, NEW n \in Nat, NEW total \in Nat, NEW more \in BOOLEAN
  PROVE  LET q == WithMore(p, m, total, more, n)
         IN  /\ q \in SlicesOf(S, F, O) /\ q.shown = m /\ q.offset = n
             /\ q.filters = p.filters /\ q.sort = p.sort /\ q.late = p.late
             /\ q.disturbed = p.disturbed
<1>1. PICK q : q = WithMore(p, m, total, more, n)
  OBVIOUS
<1>2. q = [shown |-> m, total |-> total, more |-> more, offset |-> n, loading |-> FALSE,
           filters |-> p.filters, sort |-> p.sort, changes |-> p.changes,
           faults |-> p.faults, late |-> p.late, disturbed |-> p.disturbed]
  BY <1>1 DEF WithMore, SlicesOf
<1>3. /\ p.filters \in F /\ p.sort \in O /\ p.changes \in Nat /\ p.faults \in Nat
      /\ p.late \in Nat /\ p.disturbed \in BOOLEAN
  BY DEF SlicesOf
<1> QED
  BY ONLY <1>1, <1>2, <1>3, m \in S, n \in Nat, total \in Nat, more \in BOOLEAN DEF SlicesOf

(***************************************************************************)
(* A more answer.                                                          *)
(***************************************************************************)
LEMMA MoreAnswer ==
  ASSUME PageAssumption, QueriesAssumption, PagesIInv, pageRequests # <<>>,
         Waiting.kind = "more", NEW q, q = Head(pageRequests),
         NEW response, response = query(stored, into_domain(q)),
         Settle(appendEvents(page, response), Tail(pageRequests)),
         UNCHANGED <<stored, unfinished, live>>
  PROVE  PagesIInv'
<1> DEFINE p0 == appendEvents(page, response)
           new == Chosen(response.events,
                         {i \in DOMAIN response.events :
                            response.events[i].id \notin Ids(page.shown)})
           merged == page.shown \o new
<1>1. /\ PageTypes /\ page \in Slices /\ pageRequests \in Seq(AllRequests) /\ Numbered(stored)
      /\ stored \in Seq(AllStored)
      /\ Shows(page.shown) /\ page.offset \in Nat
  BY LenProperties DEF PagesIInv, PageTypes, Slices, Shows, Numbered
<1>2. q = pageRequests[1] /\ 1 \in DOMAIN pageRequests /\ q \in AllRequests /\ q.offset \in Nat
  <2>1. q = pageRequests[1] /\ 1 \in DOMAIN pageRequests
    BY <1>1, QueueTail
  <2> QED
    BY <1>1, <2>1, QueueIs
<1>3. /\ into_domain(q) = q
      /\ response.events \in Seq(AllStored) /\ Distinct(response.events)
      /\ AsStored(response.events, stored) /\ Len(response.events) <= PageSize
      /\ Ids(response.events) = Window(stored, q.filters, q.sort, q.offset)
      /\ response.total \in Nat /\ response.has_more \in BOOLEAN
  <2>1. into_domain(q) = q
    BY <1>1, <1>2, AnswerIs
  <2> QED
    BY <1>1, <1>2, <2>1, AnswerIs
<1>4. /\ Shows(merged) /\ Ids(merged) = Ids(page.shown) \cup Ids(response.events)
      /\ MadeOf(merged, page.shown, response.events)
      /\ Len(merged) \in Len(page.shown)..(Len(page.shown) + Len(response.events))
  <2>1. PICK shown, events : shown = page.shown /\ events = response.events
    OBVIOUS
  <2>2. Shows(shown) /\ Shows(events)
    BY <1>1, <1>3, <2>1 DEF Shows
  <2>3. LET m == shown \o Chosen(events, {i \in DOMAIN events : events[i].id \notin Ids(shown)})
        IN  /\ Shows(m) /\ Ids(m) = Ids(shown) \cup Ids(events) /\ MadeOf(m, shown, events)
            /\ Len(m) \in Len(shown)..(Len(shown) + Len(events))
    BY <2>2, MergedShows
  <2> QED
    BY <2>1, <2>3
<1>5. /\ Len(merged) \in Nat /\ Len(page.shown) \in Nat /\ Len(response.events) \in Nat
      /\ Len(merged) \in Len(page.shown)..(Len(page.shown) + PageSize)
  <2>1. /\ Len(merged) \in Nat /\ Len(page.shown) \in Nat /\ Len(response.events) \in Nat
    BY <1>1, <1>3, <1>4, LenProperties DEF Shows
  <2>5. PageSize \in Nat
    BY DEF PageAssumption, QueriesAssumption
  <2> HIDE DEF merged
  <2>2. PICK m, n, k, z \in Nat : /\ m = Len(merged) /\ n = Len(page.shown)
                                 /\ k = Len(response.events) /\ z = PageSize
    BY <2>1, <2>5
  <2>3. m \in n..(n + k) /\ k <= z
    BY <1>3, <1>4, <2>2
  <2>4. m \in n..(n + z)
    BY <2>3
  <2> QED
    BY <2>1, <2>2, <2>4
<1>6. p0 = [page EXCEPT !.shown = merged, !.total = response.total, !.more = response.has_more,
                        !.offset = Len(merged), !.loading = FALSE]
  BY DEF appendEvents
<1> HIDE DEF p0, merged
<1>7. /\ p0 \in Slices /\ p0.shown = merged /\ p0.offset = Len(merged)
      /\ p0.filters = page.filters /\ p0.sort = page.sort /\ p0.late = page.late
      /\ p0.disturbed = page.disturbed
  <2>1. PICK m, n, total, more : /\ m = merged /\ n = Len(merged)
                                 /\ total = response.total /\ more = response.has_more
    OBVIOUS
  <2>2. p0 = [page EXCEPT !.shown = m, !.total = total, !.more = more, !.offset = n,
                          !.loading = FALSE]
    BY ONLY <1>6, <2>1
  <2>3. m \in Seq(AllStored) /\ n \in Nat /\ total \in Nat /\ more \in BOOLEAN
    BY <1>3, <1>4, <1>5, <2>1 DEF Shows
  <2>4. PICK p \in Slices : p = page
    BY <1>1
  <2>6. p0 = WithMore(p, m, total, more, n)
    BY ONLY <2>2, <2>4 DEF WithMore
  <2>7. PICK S, F, O : S = Seq(AllStored) /\ F = AllFilters /\ O = Orders
    OBVIOUS
  <2>8. SlicesOf(S, F, O) = Slices
    BY ONLY <2>7 DEF Slices, SlicesOf
  <2>9. p \in SlicesOf(S, F, O) /\ m \in S
    BY ONLY <2>3, <2>4, <2>7, <2>8
  <2>10. LET q1 == WithMore(p, m, total, more, n)
         IN  /\ q1 \in SlicesOf(S, F, O) /\ q1.shown = m /\ q1.offset = n
             /\ q1.filters = p.filters /\ q1.sort = p.sort /\ q1.late = p.late
             /\ q1.disturbed = p.disturbed
    BY ONLY <2>3, <2>9, SliceOfMore
  <2>5. /\ p0 \in Slices /\ p0.shown = m /\ p0.offset = n
        /\ p0.filters = page.filters /\ p0.sort = page.sort /\ p0.late = page.late
        /\ p0.disturbed = page.disturbed
    BY ONLY <2>4, <2>6, <2>8, <2>10
  <2> QED
    BY ONLY <2>1, <2>5
<1>8. Settle(p0, Tail(pageRequests)) /\ Distinct(p0.shown)
  BY <1>4, <1>7 DEF p0, Shows
<1>9. /\ page' \in Slices /\ pageRequests' \in Seq(AllRequests) /\ Distinct(page'.shown)
      /\ InTurn(page', pageRequests') /\ page'.late = page.late
      /\ page'.shown = p0.shown /\ page'.offset = p0.offset /\ page'.filters = p0.filters
      /\ page'.sort = p0.sort /\ page'.disturbed = p0.disturbed
      /\ ~Unfinished(pageRequests') => ~Unfinished(Tail(pageRequests))
  BY <1>1, <1>7, <1>8, AnswerSettles DEF PagesIInv
<1>11. ASSUME ~page'.disturbed
       PROVE  /\ page.late = 0 /\ q.kind = "more" /\ AsStored(page.shown, stored)
              /\ Pertinent(page, pageRequests)
  <2>1. page.late = 0 /\ AsStored(page.shown, stored) /\ Pertinent(page, pageRequests)
    BY <1>7, <1>9, <1>11 DEF PagesIInv, Coming, InTurn
  <2>2. Waiting = pageRequests[1]
    BY <2>1 DEF Waiting
  <2> QED
    BY <1>2, <2>1, <2>2
<1>12. ASSUME ~page'.disturbed PROVE AsStored(page'.shown, stored)
  <2>1. PICK list, shown, events : /\ list = merged /\ shown = page.shown
                                   /\ events = response.events
    OBVIOUS
  <2>2. AsStored(list, stored)
    BY <1>3, <1>4, <1>11, <1>12, <2>1, MadeAsStored
  <2> QED
    BY <1>7, <1>9, <2>1, <2>2
<1>10. Coming(page', pageRequests', stored)
  <2> SUFFICES ASSUME ~page'.disturbed, ~Unfinished(pageRequests')
               PROVE  \E lo \in Nat : \E K : /\ Asked(lo, K, pageRequests', page')
                                             /\ Seen(lo, stored, page')
    BY <1>9, <1>11, <1>12 DEF Coming
  <2>1. ~Unfinished(pageRequests)
    <3> SUFFICES ASSUME NEW i \in DOMAIN pageRequests, pageRequests[i].kind = "first"
                 PROVE  FALSE
      BY DEF Unfinished
    <3>1. i # 1
      BY <1>2, <1>11
    <3>2. PICK k \in DOMAIN Tail(pageRequests) : k + 1 = i
      <4>1. i - 1 \in DOMAIN Tail(pageRequests) /\ (i - 1) + 1 = i
        BY <1>1, <3>1, QueueIs, QueueTail
      <4> QED
        BY <4>1
    <3>3. Tail(pageRequests)[k].kind = "first"
      BY <1>1, <3>2, QueueTail
    <3> QED
      BY <1>9, <3>3 DEF Unfinished
  <2>2a. PICK lo \in Nat :
           \E K : Asked(lo, K, pageRequests, page) /\ Seen(lo, stored, page)
    BY <1>7, <1>9, <2>1 DEF PagesIInv, Coming
  <2>2. PICK K : Asked(lo, K, pageRequests, page) /\ Seen(lo, stored, page)
    BY <2>2a
  <2>3. q.filters = page.filters /\ q.sort = page.sort
    <3>1. OnlyMoreAfter(pageRequests, 1)
      BY <1>1, <2>1, QueueIs DEF OnlyMoreAfter, Unfinished
    <3> QED
      BY <1>2, <1>11, <3>1 DEF Pertinent
  <2>4. PICK o \in Nat : o = q.offset
    BY <1>2
  <2>5. Seen(Raised(lo, o), stored, page')
    <3>1. Ids(page'.shown) = Ids(page.shown) \cup Window(stored, page.filters, page.sort, o)
      BY <1>3, <1>4, <1>7, <1>9, <2>3, <2>4
    <3>2. PICK p1 : p1 = page'
      OBVIOUS
    <3>3. /\ p1.filters = page.filters /\ p1.sort = page.sort
          /\ Ids(p1.shown) = Ids(page.shown) \cup Window(stored, page.filters, page.sort, o)
      BY <1>7, <1>9, <3>1, <3>2
    <3>4. Seen(Raised(lo, o), stored, p1)
      BY <1>1, <2>2, <3>3, SeenAnswer
    <3> QED
      BY <3>2, <3>4
  <2>6. \E K1 : Asked(Raised(lo, pageRequests[1].offset), K1, pageRequests', page')
    <3>1. PICK p1, Q1 : p1 = page' /\ Q1 = pageRequests'
      OBVIOUS
    <3>2. Settles(p0, Tail(pageRequests), page.offset, p1, Q1)
      BY <1>8, <3>1, SettleSettles
    <3>3. Len(p0.shown) \in Len(page.shown)..(Len(page.shown) + PageSize)
          /\ p0.offset = Len(p0.shown)
      BY <1>5, <1>7
    <3>4. \E K1 : Asked(Raised(lo, pageRequests[1].offset), K1, Q1, p1)
      BY <1>1, <1>7, <2>2, <3>2, <3>3, AskedAnswer
    <3> QED
      BY <3>1, <3>4
  <2>7. Raised(lo, o) \in Nat
    BY RaisedIs
  <2> QED
    BY <1>2, <2>4, <2>5, <2>6, <2>7
<1> QED
  BY <1>1, <1>9, <1>10 DEF PagesIInv, PageTypes

(***************************************************************************)
(* When the first page has been shown, the pages that were asked for after *)
(* it begin, if the offset was moved meanwhile, at that offset; otherwise  *)
(* the answer moves it, to the number that is shown, and asks for that     *)
(* page.                                                                   *)
(***************************************************************************)
LEMMA AskedFirst ==
  ASSUME PageAssumption, QueriesAssumption, NEW Q \in Seq(AllRequests), Q # <<>>,
         Q[1].kind = "first", NEW p \in Slices, Awaits(p, Q), NEW p0 \in Slices,
         Len(p0.shown) <= PageSize, p0.offset = Len(p0.shown),
         NEW p1, NEW Q1, Settles(p0, Tail(Q), p.offset, p1, Q1)
  PROVE  \E K : Asked(PageSize, K, Q1, p1)
<1> DEFINE R == Tail(Q)
           s == Len(p0.shown)
           r == Request("more", p0, p0.offset)
           n == Len(R)
<1>0. PageSize \in Nat \ {0} /\ s \in Nat /\ p.offset \in Nat
  <2>1. p0.shown \in Seq(AllStored) /\ p.offset \in Nat
    BY DEF Slices
  <2> QED
    BY <2>1, LenProperties DEF PageAssumption, QueriesAssumption
<1>1. /\ Len(Q) \in Nat \ {0} /\ DOMAIN Q = 1..Len(Q) /\ DOMAIN R = 1..(Len(Q) - 1)
      /\ \A i \in DOMAIN R : i + 1 \in DOMAIN Q /\ R[i] = Q[i + 1]
      /\ R \in Seq(AllRequests) /\ n = Len(Q) - 1 /\ 1 \in DOMAIN Q
  BY QueueIs, QueueTail
<1>2. p1.shown = p0.shown /\ p1.offset = s
  <2>1. PICK rest \in Seq(AllRequests), old \in Nat : Settles(p0, rest, old, p1, Q1)
    BY <1>0, <1>1
  <2>2. p1.shown = p0.shown /\ p1.offset = p0.offset
    BY <2>1, SettlesTypes
  <2> QED
    BY <2>2
<1>3. r \in AllRequests /\ r.offset = s
  BY <1>0, RequestIs
<1> HIDE DEF R, r, n, s
<1>4. ASSUME NEW i \in DOMAIN Q1, Q1[i].offset = s
      PROVE  Asked(PageSize, {i}, Q1, p1)
  <2>1. s <= PageSize /\ s <= s
    BY <1>0 DEF s
  <2> QED
    BY <1>2, <1>4, <2>1 DEF Asked, Follow, Reach, Stands, s
<1>5. CASE s # p.offset /\ s # 0
  <2>1. Q1 = Append(R, r)
    BY <1>5 DEF Settles, s, r, R
  <2>2. n \in Nat /\ DOMAIN Q1 = 1..(n + 1) /\ Q1[n + 1] = r
    BY <1>1, <1>3, <2>1, QueueMore DEF n
  <2>3. n + 1 \in DOMAIN Q1 /\ Q1[n + 1].offset = s
    BY <1>3, <2>2
  <2> QED
    BY <1>4, <2>3
<1>6. CASE s = 0
  <2>1. PageSize >= 0 + PageSize
    BY <1>0
  <2>2. Asked(PageSize, {}, Q1, p1)
    BY <1>2, <1>6, <2>1 DEF Asked, Follow, Reach, Stands, s
  <2> QED
    BY <2>2
<1>7. CASE s = p.offset /\ s # 0
  <2>1. Q1 = R
    BY <1>7 DEF Settles, s, R
  <2>2. PICK i \in DOMAIN Q : Q[i].kind = "more" /\ Q[i].offset = p.offset
    BY <1>1, <1>7 DEF Awaits, Unfinished
  <2>3. PICK k \in DOMAIN R : k + 1 = i
    <3>1. i # 1
      BY <2>2
    <3>2. i - 1 \in DOMAIN R /\ (i - 1) + 1 = i
      BY <1>1, <3>1
    <3> QED
      BY <3>2
  <2>4. R[k].offset = s
    BY <1>1, <1>7, <2>2, <2>3
  <2> QED
    BY <1>4, <2>1, <2>4
<1> QED
  BY <1>5, <1>6, <1>7

(***************************************************************************)
(* The first answer.                                                       *)
(***************************************************************************)
LEMMA FirstAnswer ==
  ASSUME PageAssumption, QueriesAssumption, PagesIInv, pageRequests # <<>>,
         Waiting.kind = "first", NEW q, q = Head(pageRequests),
         NEW response, response = query(stored, into_domain(q)),
         Settle([setEvents(page, response) EXCEPT
                   !.disturbed = page.late > 0 \/ q.filters # page.filters
                                   \/ q.sort # page.sort],
                Tail(pageRequests)),
         UNCHANGED <<stored, unfinished, live>>
  PROVE  PagesIInv'
<1> DEFINE other == page.late > 0 \/ q.filters # page.filters \/ q.sort # page.sort
           events == response.events
           p0 == [setEvents(page, response) EXCEPT !.disturbed = other]
<1>1. /\ PageTypes /\ page \in Slices /\ pageRequests \in Seq(AllRequests) /\ Numbered(stored)
      /\ stored \in Seq(AllStored) /\ page.offset \in Nat /\ page.late \in Nat
      /\ page.filters \in AllFilters /\ page.sort \in Orders
  BY LenProperties DEF PagesIInv, PageTypes, Slices, Numbered
<1>2. /\ q = pageRequests[1] /\ 1 \in DOMAIN pageRequests /\ q \in AllRequests
      /\ page.late = 0 => q.kind = "first" /\ q.offset = 0
  <2>1. q = pageRequests[1] /\ 1 \in DOMAIN pageRequests
    BY <1>1, QueueTail
  <2>2. q \in AllRequests
    BY <1>1, <2>1, QueueIs
  <2>3. page.late = 0 => Waiting = pageRequests[1]
    BY DEF Waiting
  <2> QED
    BY <2>1, <2>2, <2>3 DEF AllRequests
<1>3. /\ response.events \in Seq(AllStored) /\ Distinct(response.events)
      /\ AsStored(response.events, stored) /\ Len(response.events) <= PageSize
      /\ Ids(response.events) = Window(stored, q.filters, q.sort, q.offset)
      /\ response.total \in Nat /\ response.has_more \in BOOLEAN
  <2>1. into_domain(q) = q
    BY <1>1, <1>2, AnswerIs
  <2> QED
    BY <1>1, <1>2, <2>1, AnswerIs
<1>4. Len(events) \in Nat /\ other \in BOOLEAN
  BY <1>3, LenProperties
<1>5. p0 = [page EXCEPT !.shown = events, !.total = response.total, !.more = response.has_more,
                        !.offset = Len(events), !.loading = FALSE, !.disturbed = other]
  BY <1>1 DEF setEvents, Slices
<1>6. Settle(p0, Tail(pageRequests))
  OBVIOUS
<1> HIDE DEF p0, events, other
<1>7. /\ p0 \in Slices /\ p0.shown = events /\ p0.offset = Len(events)
      /\ p0.filters = page.filters /\ p0.sort = page.sort /\ p0.late = page.late
      /\ p0.disturbed = other
  <2>1. events \in Seq(AllStored)
    BY <1>3 DEF events
  <2>2. p0 \in Slices
    BY ONLY <1>1, <1>3, <1>4, <1>5, <2>1 DEF Slices
  <2>3. /\ p0.shown = events /\ p0.offset = Len(events)
        /\ p0.filters = page.filters /\ p0.sort = page.sort /\ p0.late = page.late
        /\ p0.disturbed = other
    BY ONLY <1>1, <1>5 DEF Slices
  <2> QED
    BY <2>2, <2>3
<1>8. Distinct(p0.shown) /\ Len(p0.shown) <= PageSize /\ p0.offset = Len(p0.shown)
  BY <1>3, <1>7 DEF events
<1>9. /\ page' \in Slices /\ pageRequests' \in Seq(AllRequests) /\ Distinct(page'.shown)
      /\ InTurn(page', pageRequests') /\ page'.late = page.late
      /\ page'.shown = p0.shown /\ page'.offset = p0.offset /\ page'.filters = p0.filters
      /\ page'.sort = p0.sort /\ page'.disturbed = p0.disturbed
  BY <1>1, <1>6, <1>7, <1>8, AnswerSettles DEF PagesIInv
<1>10. Coming(page', pageRequests', stored)
  <2> SUFFICES ASSUME ~page'.disturbed
               PROVE  /\ page'.late = 0 /\ AsStored(page'.shown, stored)
                      /\ \E lo \in Nat : \E K : /\ Asked(lo, K, pageRequests', page')
                                               /\ Seen(lo, stored, page')
    BY DEF Coming
  <2>11. ~other
    BY <1>7, <1>9
  <2>0. page.late = 0
    BY ONLY <1>1, <2>11 DEF other
  <2>1. q.filters = page.filters /\ q.sort = page.sort
    BY <2>11 DEF other
  <2>2. Ids(page'.shown) = Window(stored, page.filters, page.sort, 0)
    BY <1>2, <1>3, <1>7, <1>9, <2>0, <2>1 DEF events
  <2>3. PICK p1, Q1 : p1 = page' /\ Q1 = pageRequests'
    OBVIOUS
  <2>4. p1 \in Slices /\ Ids(p1.shown) = Window(stored, p1.filters, p1.sort, 0)
    BY <1>7, <1>9, <2>2, <2>3
  <2>5. Seen(PageSize, stored, p1)
    BY <1>1, <2>4, SeenFirst
  <2>6. Settles(p0, Tail(pageRequests), page.offset, p1, Q1)
    BY <1>6, <2>3, SettleSettles
  <2>7. Awaits(page, pageRequests) /\ pageRequests[1].kind = "first"
    BY <1>2, <2>0 DEF PagesIInv, InTurn
  <2>8. \E K : Asked(PageSize, K, Q1, p1)
    BY <1>1, <1>7, <1>8, <2>6, <2>7, AskedFirst
  <2>9. PageSize \in Nat
    BY DEF PageAssumption, QueriesAssumption
  <2>10. page'.late = 0 /\ AsStored(page'.shown, stored)
    BY <1>3, <1>7, <1>9, <2>0 DEF events
  <2> QED
    BY <2>3, <2>5, <2>8, <2>9, <2>10
<1> QED
  BY <1>1, <1>9, <1>10 DEF PagesIInv, PageTypes

(***************************************************************************)
(* The panel's slice when its oldest request failed, was given up, or was  *)
(* answered after that.                                                    *)
(***************************************************************************)
LEMMA SliceOfLate ==
  ASSUME NEW p \in Slices
  PROVE  /\ GivenUp(p) \in Slices /\ GivenUp(p).late = p.late /\ GivenUp(p).shown = p.shown
         /\ GivenUp(p).filters = p.filters /\ GivenUp(p).sort = p.sort
         /\ GivenUp(p).offset = p.offset /\ GivenUp(p).disturbed
         /\ \A n \in Nat :
              LET q == [p EXCEPT !.late = n]
                  r == [GivenUp(p) EXCEPT !.late = n]
              IN  /\ q \in Slices /\ q.late = n /\ q.shown = p.shown
                  /\ q.disturbed = p.disturbed
                  /\ r \in Slices /\ r.late = n /\ r.shown = p.shown /\ r.disturbed
<1>1. p.faults + 1 \in Nat /\ p.late \in Nat
  BY DEF Slices
<1>2. PICK f \in Nat : f = p.faults + 1
  BY <1>1
<1>3. GivenUp(p) = [p EXCEPT !.loading = FALSE, !.disturbed = TRUE, !.faults = f]
  BY <1>2 DEF GivenUp
<1>4. PICK g : g = GivenUp(p)
  OBVIOUS
<1>5. /\ g \in Slices /\ g.late = p.late /\ g.shown = p.shown /\ g.filters = p.filters
      /\ g.sort = p.sort /\ g.offset = p.offset /\ g.disturbed
  BY ONLY <1>3, <1>4, p \in Slices, f \in Nat DEF Slices
<1>6. ASSUME NEW n \in Nat, NEW o \in Slices
      PROVE  /\ [o EXCEPT !.late = n] \in Slices /\ [o EXCEPT !.late = n].late = n
             /\ [o EXCEPT !.late = n].shown = o.shown
             /\ [o EXCEPT !.late = n].disturbed = o.disturbed
  BY DEF Slices
<1> QED
  BY <1>4, <1>5, <1>6

(***************************************************************************)
(* An answer that comes when the client waits for nothing any more; the    *)
(* last of them leaves no request.                                         *)
(***************************************************************************)
LEMMA LateAnswer ==
  ASSUME PageAssumption, PagesIInv, pageRequests # <<>>, ~Waits,
         page' = [page EXCEPT !.late = @ - 1], pageRequests' = Tail(pageRequests),
         UNCHANGED <<stored, unfinished, live>>
  PROVE  PagesIInv'
<1>1. /\ PageTypes /\ page \in Slices /\ page.late \in Nat /\ pageRequests \in Seq(AllRequests)
      /\ Len(pageRequests) \in Nat \ {0}
  BY QueueIs, LenProperties DEF PagesIInv, PageTypes, Slices
<1>2. /\ Tail(pageRequests) \in Seq(AllRequests)
      /\ DOMAIN Tail(pageRequests) = 1..(Len(pageRequests) - 1)
  BY <1>1, QueueTail
<1>3. page.late >= Len(pageRequests)
  BY <1>1 DEF Waits
<1>4. PICK n \in Nat : n = page.late - 1
  BY <1>1, <1>3
<1>5. /\ page' \in Slices /\ page'.late = n /\ page'.shown = page.shown
      /\ page'.disturbed = page.disturbed
  BY <1>1, <1>4, SliceOfLate
<1>6. page.disturbed
  BY <1>1, <1>3 DEF PagesIInv, Coming
<1>7. InTurn(page', pageRequests')
  <2> SUFFICES ASSUME n = 0
               PROVE  Pertinent(page', pageRequests') /\ Awaits(page', pageRequests')
    BY <1>5 DEF InTurn
  <2>1. DOMAIN pageRequests' = {}
    BY <1>1, <1>2, <1>3, <1>4
  <2> QED
    BY <2>1 DEF Pertinent, Awaits, Unfinished
<1>8. Coming(page', pageRequests', stored')
  BY <1>5, <1>6 DEF Coming
<1> QED
  BY <1>1, <1>2, <1>5, <1>7, <1>8 DEF PagesIInv, PageTypes

(***************************************************************************)
(* An answer keeps the invariant.                                          *)
(***************************************************************************)
LEMMA AnsweredStep ==
  ASSUME PageAssumption, QueriesAssumption, PagesIInv, Answered
  PROVE  PagesIInv'
<1> DEFINE q0 == into_domain(Head(pageRequests))
           response0 == query(stored, q0)
           Shown(q, response) ==
             Settle([setEvents(page, response) EXCEPT
                       !.disturbed = page.late > 0 \/ q.filters # page.filters
                                       \/ q.sort # page.sort],
                    Tail(pageRequests))
           Answers(q, response) ==
             \/ Waiting.kind = "first" /\ Shown(q, response)
             \/ Waiting.kind = "more" /\ Settle(appendEvents(page, response), Tail(pageRequests))
             \/ /\ ~Waits
                /\ page' = [page EXCEPT !.late = @ - 1]
                /\ pageRequests' = Tail(pageRequests)
<1>1. pageRequests # <<>> /\ UNCHANGED <<stored, unfinished, live>>
  BY DEF Answered
<1>2. q0 = Head(pageRequests)
  <2>1. pageRequests \in Seq(AllRequests) /\ Numbered(stored)
    BY DEF PagesIInv, PageTypes
  <2>2. PICK r \in AllRequests : r = Head(pageRequests)
    BY <1>1, <2>1, QueueIs, QueueTail
  <2>3. into_domain(r) = r
    BY <2>1, AnswerIs
  <2> QED
    BY <2>2, <2>3
<1>3. Answers(q0, response0)
  BY DEF Answered
<1>4. PICK q, response : q = q0 /\ response = response0 /\ Answers(q, response)
  BY <1>3
<1>5. q = Head(pageRequests) /\ response = query(stored, into_domain(q))
  BY <1>2, <1>4
<1>6. CASE Waiting.kind = "first" /\ Shown(q, response)
  BY <1>1, <1>5, <1>6, FirstAnswer
<1>7. CASE Waiting.kind = "more" /\ Settle(appendEvents(page, response), Tail(pageRequests))
  BY <1>1, <1>5, <1>7, MoreAnswer
<1>8. CASE /\ ~Waits
           /\ page' = [page EXCEPT !.late = @ - 1]
           /\ pageRequests' = Tail(pageRequests)
  BY <1>1, <1>8, LateAnswer
<1> QED
  BY <1>4, <1>6, <1>7, <1>8

(***************************************************************************)
(* The file could not be read.                                             *)
(***************************************************************************)
LEMMA ErrorStep ==
  ASSUME PageAssumption, PagesIInv, AnsweredWithError
  PROVE  PagesIInv'
<1>1. /\ pageRequests # <<>> /\ page' = GivenUp(page) /\ pageRequests' = Tail(pageRequests)
      /\ UNCHANGED <<stored, unfinished, live>>
  BY DEF AnsweredWithError
<1>2. page \in Slices /\ pageRequests \in Seq(AllRequests)
  BY DEF PagesIInv, PageTypes
<1>3. /\ page' \in Slices /\ page'.late = page.late /\ page'.shown = page.shown
      /\ page'.filters = page.filters /\ page'.sort = page.sort
      /\ page'.offset = page.offset /\ page'.disturbed
  BY <1>1, <1>2, SliceOfLate
<1>4. PICK p1 : p1 = page'
  OBVIOUS
<1>5. ASSUME page.late = 0
      PROVE  Pertinent(p1, Tail(pageRequests)) /\ Awaits(p1, Tail(pageRequests))
  <2>1. Pertinent(page, pageRequests) /\ Awaits(page, pageRequests)
    BY <1>5 DEF PagesIInv, InTurn
  <2>2. p1.filters = page.filters /\ p1.sort = page.sort /\ p1.offset = page.offset
    BY <1>3, <1>4
  <2> QED
    BY <1>1, <1>2, <2>1, <2>2, TailPertinent, TailAwaits
<1>6. InTurn(page', pageRequests')
  BY <1>1, <1>3, <1>4, <1>5 DEF InTurn
<1>7. Coming(page', pageRequests', stored') /\ Distinct(page'.shown)
  BY <1>3 DEF Coming, PagesIInv
<1> QED
  BY <1>1, <1>2, <1>3, <1>6, <1>7, QueueTail DEF PagesIInv, PageTypes

(***************************************************************************)
(* The client gives up its oldest request.                                 *)
(***************************************************************************)
LEMMA GiveUpStep ==
  ASSUME PageAssumption, PagesIInv, GiveUpRequest
  PROVE  PagesIInv'
<1>1. /\ page' = [GivenUp(page) EXCEPT !.late = @ + 1]
      /\ UNCHANGED <<stored, unfinished, live, pageRequests>>
  BY DEF GiveUpRequest
<1>2. page \in Slices /\ GivenUp(page).late = page.late
  BY SliceOfLate DEF PagesIInv, PageTypes
<1>3. PICK n \in Nat : n = page.late + 1 /\ n # 0
  BY <1>2 DEF Slices
<1>4. page' = [GivenUp(page) EXCEPT !.late = n]
  BY <1>1, <1>2, <1>3
<1>5. page' \in Slices /\ page'.late = n /\ page'.shown = page.shown /\ page'.disturbed
  BY <1>2, <1>4, SliceOfLate
<1>6. InTurn(page', pageRequests') /\ Coming(page', pageRequests', stored')
  BY <1>3, <1>5 DEF InTurn, Coming
<1> QED
  BY <1>1, <1>5, <1>6 DEF PagesIInv, PageTypes

(***************************************************************************)
(* A change of the history disturbs the pages and changes nothing else of  *)
(* the panel.                                                              *)
(***************************************************************************)
LEMMA HistoryChanges ==
  ASSUME PagesIInv, Numbered(stored'), unfinished' \subseteq DOMAIN stored',
         live' \in Seq(AllStored), page' = Disturbed(page), UNCHANGED pageRequests
  PROVE  PagesIInv'
<1>1. page \in Slices
  BY DEF PagesIInv, PageTypes
<1>2. /\ page' \in Slices /\ page'.shown = page.shown /\ page'.filters = page.filters
      /\ page'.sort = page.sort /\ page'.offset = page.offset /\ page'.late = page.late
      /\ page'.disturbed
  BY <1>1 DEF Disturbed, Slices
<1>3. InTurn(page', pageRequests')
  BY <1>2 DEF PagesIInv, InTurn, Pertinent, Awaits
<1>4. Coming(page', pageRequests', stored') /\ Distinct(page'.shown)
  BY <1>2 DEF Coming, PagesIInv
<1> QED
  BY <1>2, <1>3, <1>4 DEF PagesIInv, PageTypes

(***************************************************************************)
(* A run is recorded at its start.                                         *)
(***************************************************************************)
LEMMA RecordStep ==
  ASSUME PageAssumption, PagesIInv, StoreRun
  PROVE  PagesIInv'
<1>1. PICK e \in NewEvents :
        stored' = Append(stored, Record(Len(stored) + 1, [Running(e) EXCEPT !.error = NoValue]))
  BY DEF StoreRun
<1>2. /\ unfinished' = unfinished \cup {Len(stored) + 1} /\ page' = Disturbed(page)
      /\ UNCHANGED <<live, pageRequests>>
  BY DEF StoreRun
<1>3. /\ Numbered(stored) /\ unfinished \subseteq DOMAIN stored /\ live \in Seq(AllStored)
      /\ Len(stored) + 1 \in Nat
  BY LenProperties DEF PagesIInv, PageTypes, Numbered
<1>4. PICK r \in AllStored : /\ r = Record(Len(stored) + 1, [Running(e) EXCEPT !.error = NoValue])
                             /\ r.id = Len(stored) + 1
  <2>1. PICK f \in RunEvents : f = [Running(e) EXCEPT !.error = NoValue]
    BY DEF RunEvents
  <2> QED
    BY <1>3, <2>1, StoredFields
<1>5. /\ Numbered(stored') /\ DOMAIN stored = 1..Len(stored) /\ Len(stored) \in Nat
      /\ DOMAIN stored' = 1..(Len(stored) + 1)
  BY <1>1, <1>3, <1>4, RecordedMore
<1>6. unfinished' \subseteq DOMAIN stored'
  BY <1>2, <1>3, <1>5
<1> QED
  BY <1>2, <1>3, <1>5, <1>6, HistoryChanges

(***************************************************************************)
(* A record is written again.                                              *)
(***************************************************************************)
LEMMA RewriteStep ==
  ASSUME PageAssumption, PagesIInv, NEW i \in unfinished, NEW e \in RunEvents,
         RewriteRecord(i, e), unfinished' \subseteq unfinished,
         UNCHANGED live \/ live' = Append(live, Record(i, e))
  PROVE  PagesIInv'
<1>1. /\ stored' = [stored EXCEPT ![i] = Record(i, e)]
      /\ page' = Disturbed(page) /\ UNCHANGED pageRequests
  BY DEF RewriteRecord
<1>2. /\ Numbered(stored) /\ unfinished \subseteq DOMAIN stored /\ live \in Seq(AllStored)
      /\ i \in DOMAIN stored /\ i \in Nat
  BY LenProperties DEF PagesIInv, PageTypes, Numbered
<1>3. PICK r \in AllStored : r = Record(i, e) /\ r.id = i
  BY <1>2, StoredFields
<1>4. Numbered(stored') /\ DOMAIN stored' = DOMAIN stored
  BY <1>1, <1>2, <1>3, RewrittenIs
<1>5. live' \in Seq(AllStored)
  BY <1>2, <1>3, AppendProperties
<1>6. unfinished' \subseteq DOMAIN stored'
  BY <1>2, <1>4
<1> QED
  BY <1>1, <1>4, <1>5, <1>6, HistoryChanges

(***************************************************************************)
(* It is while the run is not over, and at its end.                        *)
(***************************************************************************)
LEMMA UpdateStep ==
  ASSUME PageAssumption, PagesIInv, UpdateRun \/ FinishRun
  PROVE  PagesIInv'
<1>1. \A e \in NewEvents : e \in RunEvents /\ Running(e) \in RunEvents
  BY DEF RunEvents
<1>2. CASE UpdateRun
  <2>1. PICK i \in unfinished, e \in NewEvents :
          RewriteRecord(i, Running(e)) /\ UNCHANGED <<unfinished, live>>
    BY <1>2 DEF UpdateRun
  <2> QED
    BY <1>1, <2>1, RewriteStep
<1>3. CASE FinishRun
  <2>1. PICK i \in unfinished, e \in NewEvents :
          /\ RewriteRecord(i, e) /\ unfinished' = unfinished \ {i}
          /\ live' = Append(live, Record(i, e)) \/ UNCHANGED live
    BY <1>3 DEF FinishRun
  <2> QED
    BY <1>1, <2>1, RewriteStep
<1> QED
  BY <1>2, <1>3

(***************************************************************************)
(* A live event is shown if the panel adds it, which disturbs the pages.   *)
(***************************************************************************)
LEMMA LiveStep ==
  ASSUME PageAssumption, QueriesAssumption, PagesIInv, LiveEvent \/ LoseLive
  PROVE  PagesIInv'
<1>1. page \in Slices /\ live \in Seq(AllStored)
  BY DEF PagesIInv, PageTypes
<1>2. live # <<>> /\ live' = Tail(live) /\ UNCHANGED <<stored, unfinished, pageRequests>>
  BY DEF LiveEvent, LoseLive
<1>3. Tail(live) \in Seq(AllStored) /\ Head(live) \in AllStored
  BY ONLY <1>1, <1>2, HeadTailProperties
<1>4. PICK event \in AllStored : event = Head(live)
  BY <1>3
<1>5. page' = page \/ page' = addEvent(page, event)
  BY <1>4 DEF LiveEvent, LoseLive
<1>6. /\ Shows(page.shown) /\ page.total + 1 \in Nat
  BY <1>1 DEF PagesIInv, Slices, Shows
<1>8. CASE page' = page
  BY <1>2, <1>3, <1>8 DEF PagesIInv, PageTypes
<1>9. CASE page' # page
  <2> DEFINE back == Append(page.shown, event)
             front == <<event>> \o page.shown
             longer == IF page.sort = "asc" THEN back ELSE front
             cut == IF Len(longer) <= PageSize THEN longer
                    ELSE IF page.sort = "asc"
                    THEN SubSeq(longer, Len(longer) - PageSize + 1, Len(longer))
                    ELSE SubSeq(longer, 1, PageSize)
  <2>1. event.id \notin Ids(page.shown)
    BY <1>5, <1>9 DEF addEvent
  <2>2. page' = [page EXCEPT !.shown = cut, !.total = @ + 1, !.disturbed = TRUE]
    BY <1>5, <1>9, <2>1 DEF addEvent
  <2>3. /\ Shows(back) /\ Shows(front)
        /\ Len(back) > PageSize => Shows(SubSeq(back, Len(back) - PageSize + 1, Len(back)))
        /\ Len(front) > PageSize => Shows(SubSeq(front, 1, PageSize))
    <3>1. PICK shown : shown = page.shown
      OBVIOUS
    <3>2. LET b == Append(shown, event)
              f == <<event>> \o shown
          IN  /\ Shows(b) /\ Shows(f)
              /\ Len(b) > PageSize => Shows(SubSeq(b, Len(b) - PageSize + 1, Len(b)))
              /\ Len(f) > PageSize => Shows(SubSeq(f, 1, PageSize))
      BY <1>6, <2>1, <3>1, LiveShows
    <3> QED
      BY <3>1, <3>2
  <2>4. Len(back) \in Nat /\ Len(front) \in Nat /\ PageSize \in Nat
    BY <2>3, LenProperties DEF Shows, PageAssumption, QueriesAssumption
  <2> HIDE DEF back, front
  <2>5. Shows(cut)
    BY <2>3, <2>4
  <2> HIDE DEF cut
  <2>6. /\ page' \in Slices /\ page'.shown = cut /\ page'.filters = page.filters
        /\ page'.sort = page.sort /\ page'.offset = page.offset /\ page'.late = page.late
        /\ page'.disturbed = TRUE
    BY <1>1, <1>6, <2>2, <2>5 DEF Slices, Shows
  <2>7. Distinct(page'.shown)
    BY <2>5, <2>6 DEF Shows
  <2>8. InTurn(page', pageRequests')
    BY <1>2, <2>6 DEF PagesIInv, InTurn, Pertinent, Awaits
  <2>9. Coming(page', pageRequests', stored')
    BY <2>6 DEF Coming
  <2> QED
    BY <1>2, <1>3, <2>6, <2>7, <2>8, <2>9 DEF PagesIInv, PageTypes
<1> QED
  BY <1>8, <1>9

(***************************************************************************)
(* loadMore moves the offset and asks for the page there.                  *)
(***************************************************************************)
LEMMA LoadStep ==
  ASSUME PageAssumption, QueriesAssumption, PagesIInv, loadMore
  PROVE  PagesIInv'
<1> DEFINE p0 == [page EXCEPT !.offset = @ + PageSize]
<1>1. /\ PageTypes /\ page \in Slices /\ pageRequests \in Seq(AllRequests)
      /\ page.offset \in Nat /\ PageSize \in Nat \ {0}
  BY DEF PagesIInv, PageTypes, Slices, PageAssumption, QueriesAssumption
<1>2. /\ ~page.loading /\ Settle(p0, pageRequests)
      /\ UNCHANGED <<stored, unfinished, live>>
  BY DEF loadMore
<1>3. /\ p0 \in Slices /\ p0.shown = page.shown /\ p0.offset = page.offset + PageSize
      /\ p0.filters = page.filters /\ p0.sort = page.sort /\ p0.late = page.late
      /\ p0.disturbed = page.disturbed /\ p0.offset # page.offset
  <2>1. PICK o \in Nat : o = page.offset + PageSize /\ o # page.offset
    BY <1>1
  <2>2. p0 = [page EXCEPT !.offset = o]
    BY <2>1
  <2> HIDE DEF p0
  <2> QED
    BY <1>1, <2>1, <2>2 DEF Slices
<1> HIDE DEF p0
<1>4. PICK rest \in Seq(AllRequests), old \in Nat : rest = pageRequests /\ old = page.offset
  BY <1>1
<1>5. PICK p1, Q1 : p1 = page' /\ Q1 = pageRequests'
  OBVIOUS
<1>6. Settles(p0, rest, old, p1, Q1)
  BY <1>2, <1>4, <1>5, SettleSettles
<1>7. /\ p1 \in Slices /\ Q1 \in Seq(AllRequests)
      /\ p1.shown = p0.shown /\ p1.offset = p0.offset /\ p1.filters = p0.filters
      /\ p1.sort = p0.sort /\ p1.disturbed = p0.disturbed /\ p1.late = p0.late
      /\ p1.loading = (p0.loading \/ (p0.offset # old /\ p0.offset # 0))
  BY ONLY PageAssumption, <1>3, <1>4, <1>6, SettlesTypes
<1>8. ASSUME page.late = 0 PROVE Pertinent(p1, Q1) /\ Awaits(p1, Q1)
  <2>1. Pertinent(p0, rest)
    BY <1>3, <1>4, <1>8 DEF PagesIInv, InTurn, Pertinent
  <2>2. Pertinent(p1, Q1)
    BY <1>3, <1>6, <2>1, SettlesPertinent
  <2>3. p0.offset = old => Awaits(p0, rest)
    BY <1>3, <1>4
  <2>4. Awaits(p1, Q1)
    BY <1>3, <1>6, <2>3, SettlesAwaits
  <2> QED
    BY <2>2, <2>4
<1>9. InTurn(p1, Q1)
  BY <1>3, <1>7, <1>8 DEF InTurn
<1>11. ~p1.disturbed => page.late = 0 /\ AsStored(page.shown, stored)
  BY <1>3, <1>7 DEF PagesIInv, Coming
<1>12. Coming(p1, Q1, stored)
  <2> SUFFICES ASSUME ~p1.disturbed, ~Unfinished(Q1)
               PROVE  \E lo \in Nat : \E K : /\ Asked(lo, K, Q1, p1)
                                             /\ Seen(lo, stored, p1)
    BY <1>3, <1>7, <1>11 DEF Coming
  <2>1. ~Unfinished(rest)
    BY <1>3, <1>6, SettlesFinished
  <2>2a. PICK lo \in Nat : \E K : Asked(lo, K, rest, page) /\ Seen(lo, stored, page)
    BY <1>3, <1>4, <1>7, <2>1 DEF PagesIInv, Coming
  <2>2. PICK K : Asked(lo, K, rest, page) /\ Seen(lo, stored, page)
    BY <2>2a
  <2>3. Settles(p0, rest, page.offset, p1, Q1)
    BY <1>4, <1>6
  <2>4. Asked(lo, K, Q1, p1)
    BY <1>1, <1>2, <1>3, <2>2, <2>3, AskedLoadMore
  <2>5. Seen(lo, stored, p1)
    BY <1>3, <1>7, <2>2 DEF Seen
  <2> QED
    BY <2>4, <2>5
<1>13. Distinct(p1.shown)
  BY <1>3, <1>7 DEF PagesIInv
<1> QED
  BY <1>1, <1>2, <1>5, <1>7, <1>9, <1>12, <1>13 DEF PagesIInv, PageTypes

(***************************************************************************)
(* A change of the query asks for the first page anew.                     *)
(***************************************************************************)
LEMMA ChangeStep ==
  ASSUME PageAssumption, QueriesAssumption, PagesIInv, ChangeQuery
  PROVE  PagesIInv'
<1>1. PICK f \in PageFilters, s \in Orders :
        /\ page' = [page EXCEPT !.filters = f, !.sort = s, !.offset = 0, !.loading = TRUE,
                                !.changes = @ + 1, !.disturbed = TRUE]
        /\ pageRequests' = Append(pageRequests, Request("first", [filters |-> f, sort |-> s], 0))
  BY DEF ChangeQuery
<1>2. PageTypes /\ page \in Slices /\ pageRequests \in Seq(AllRequests)
      /\ UNCHANGED <<stored, unfinished, live>> /\ page.changes + 1 \in Nat
  <2>1. PageTypes /\ page \in Slices /\ pageRequests \in Seq(AllRequests)
    BY DEF PagesIInv, PageTypes
  <2>2. UNCHANGED <<stored, unfinished, live>>
    BY DEF ChangeQuery
  <2> QED
    BY <2>1, <2>2 DEF Slices
<1> DEFINE r == Request("first", [filters |-> f, sort |-> s], 0)
           n == Len(pageRequests)
<1>3. r \in AllRequests /\ r.filters = f /\ r.sort = s /\ r.kind = "first"
  BY DEF Request, AllRequests, AllFilters
<1> HIDE DEF r
<1>4. /\ page' \in Slices /\ page'.shown = page.shown /\ page'.filters = f /\ page'.sort = s
      /\ page'.offset = 0 /\ page'.disturbed = TRUE
  BY <1>1, <1>2 DEF Slices, AllFilters
<1>5. PICK Q1 : Q1 = pageRequests'
  OBVIOUS
<1>6. /\ n \in Nat /\ DOMAIN Q1 = 1..(n + 1) /\ Q1[n + 1] = r /\ Q1 \in Seq(AllRequests)
  BY <1>1, <1>2, <1>3, <1>5, QueueMore DEF r
<1> HIDE DEF n
<1>7. Pertinent(page', Q1)
  <2> SUFFICES ASSUME NEW i \in DOMAIN Q1, OnlyMoreAfter(Q1, i)
               PROVE  Q1[i].filters = f /\ Q1[i].sort = s
    BY <1>4 DEF Pertinent
  <2>1. n + 1 \in DOMAIN Q1 /\ Q1[n + 1].kind = "first"
    BY <1>3, <1>6
  <2>2. ~(n + 1 > i)
    BY <2>1 DEF OnlyMoreAfter
  <2>3. i = n + 1
    BY <1>6, <2>2
  <2> QED
    BY <1>3, <1>6, <2>3
<1>8. InTurn(page', Q1) /\ Coming(page', Q1, stored)
  BY <1>4, <1>7 DEF InTurn, Awaits, Coming
<1>9. Distinct(page'.shown)
  BY <1>4 DEF PagesIInv
<1> QED
  BY <1>2, <1>4, <1>5, <1>6, <1>8, <1>9 DEF PagesIInv, PageTypes

(***************************************************************************)
(* The console log tool's answer is the start of the sorted history.       *)
(***************************************************************************)
LEMMA LogsAre ==
  ASSUME PageAssumption, QueriesAssumption, NEW records, Numbered(records)
  PROVE  LET logs == fetch_console_logs(records, NoValue)
         IN  \A i \in DOMAIN logs : logs[i] = sort_records(records, "desc")[i]
<1> DEFINE all == DOMAIN records
           found == sort_records(apply_filters(records, <<>>), "desc")
           sorted == InOrder(all, Ahead(records, "desc", all))
           limit == AtMost(Given(clamp_limit(NoValue), DefaultLimit), QueryCap)
           last == AtMost(0 + limit, Len(found))
           logs == fetch_console_logs(records, NoValue)
<1>1. Timed(records) /\ all = 1..Len(records) /\ Len(records) \in Nat
  BY NumberedIsTimed DEF Timed
<1>2. Hits(records, <<>>) = all
  <2>1. DOMAIN <<>> = {}
    OBVIOUS
  <2>2. \A r : Matches(r, <<>>)
    BY <2>1 DEF Matches
  <2> QED
    BY <2>2 DEF Hits
<1>3. Cardinality(all) = Len(records)
  BY <1>1, Interval
<1>4. found = [k \in 1..Len(records) |-> records[sorted[k]]]
  <2>1. found = [k \in 1..Cardinality(Hits(records, <<>>)) |->
                   records[Arranged(records, <<>>, "desc")[k]]]
    BY <1>1, FoundIsArranged DEF Orders
  <2> QED
    BY <1>2, <1>3, <2>1 DEF Arranged
<1>5. sort_records(records, "desc") = [k \in 1..Len(records) |-> records[sorted[k]]]
  BY <1>1 DEF sort_records, Ahead, Sooner
<1>6. limit \in Nat
  BY DEF AtMost, Given, clamp_limit, QueriesAssumption
<1>7. logs = SubSeq(found, 1, last)
  <2>1. Given("desc", "desc") = "desc" /\ Given(NoValue, 0) = 0 /\ 0 + 1 = 1
    BY DEF Given
  <2> QED
    BY <2>1 DEF fetch_console_logs, query
<1>8. Len(found) = Len(records) /\ DOMAIN found = 1..Len(records)
  BY <1>1, <1>4
<1> HIDE DEF found, sorted, limit, logs
<1>9. last \in 0..Len(records)
  BY <1>1, <1>6, <1>8 DEF AtMost
<1> HIDE DEF last
<1>10. PICK n \in 0..Len(records) : n = last
  BY <1>9
<1>11. n - 1 + 1 = n /\ n \in Int
  BY <1>1
<1>15. PICK S : S = {found[j] : j \in 1..n}
  OBVIOUS
<1>12. \A i \in 1..n : found[i] \in S /\ 1 + i - 1 = i
  BY <1>11, <1>15
<1>13. /\ SubSeq(found, 1, n) \in Seq(S)
       /\ Len(SubSeq(found, 1, n)) = IF 1 <= n THEN n - 1 + 1 ELSE 0
       /\ \A i \in 1..(n - 1 + 1) : SubSeq(found, 1, n)[i] = found[1 + i - 1]
  BY ONLY <1>11, <1>12, SubSeqProperties
<1>14. DOMAIN logs = 1..n /\ \A i \in 1..n : logs[i] = found[i]
  <2>1. logs = SubSeq(found, 1, n) /\ Len(logs) = n
    BY <1>1, <1>7, <1>10, <1>11, <1>13
  <2>2. DOMAIN logs = 1..n
    BY <1>13, <2>1, LenProperties
  <2> QED
    BY <1>11, <1>12, <1>13, <2>1, <2>2
<1> QED
  BY <1>4, <1>5, <1>14 DEF logs

(***************************************************************************)
(* At the start the first page is asked for.                               *)
(***************************************************************************)
LEMMA PagesInit ==
  ASSUME PageAssumption, QueriesAssumption, PageInit
  PROVE  PagesIInv
<1> DEFINE r == Request("first", [filters |-> <<>>, sort |-> "desc"], 0)
<1>1. r \in AllRequests /\ r.filters = <<>> /\ r.sort = "desc" /\ r.kind = "first"
  BY DEF Request, AllRequests, AllFilters, Orders
<1> HIDE DEF r
<1>2. pageRequests = <<r>> /\ stored = <<>> /\ unfinished = {} /\ live = <<>>
  BY DEF PageInit, r
<1>3. /\ page \in Slices /\ page.shown = <<>> /\ page.filters = <<>> /\ page.sort = "desc"
      /\ page.offset = 0 /\ page.late = 0
  BY EmptySeq DEF PageInit, Slices, AllFilters, Orders
<1>4. Numbered(stored) /\ live \in Seq(AllStored)
  BY <1>2, EmptySeq DEF Numbered
<1>5. /\ pageRequests \in Seq(AllRequests) /\ DOMAIN pageRequests = {1}
      /\ pageRequests[1] = r
  BY <1>1, <1>2
<1>6. PageTypes
  BY <1>2, <1>3, <1>4, <1>5 DEF PageTypes
<1>8. Distinct(page.shown)
  BY <1>3 DEF Distinct
<1>9. Pertinent(page, pageRequests)
  BY <1>1, <1>3, <1>5 DEF Pertinent
<1>10. Awaits(page, pageRequests)
  BY <1>3 DEF Awaits
<1>11. Unfinished(pageRequests)
  BY <1>1, <1>5 DEF Unfinished
<1>12. AsStored(page.shown, stored)
  BY <1>3 DEF AsStored
<1> QED
  BY <1>3, <1>6, <1>8, <1>9, <1>10, <1>11, <1>12 DEF PagesIInv, InTurn, Coming

(***************************************************************************)
(* Every step keeps the invariant.                                         *)
(***************************************************************************)
LEMMA PagesStep ==
  ASSUME PageAssumption, QueriesAssumption, PagesIInv, [PageNext]_pageVars
  PROVE  PagesIInv'
<1>1. CASE UNCHANGED pageVars
  BY <1>1 DEF pageVars, PagesIInv, PageTypes
<1>2. CASE PageNext
  BY <1>2, RecordStep, UpdateStep, LiveStep, AnsweredStep, ErrorStep, GiveUpStep, LoadStep,
     ChangeStep DEF PageNext
<1> QED
  BY <1>1, <1>2

(***************************************************************************)
(* The statistics count what the filters find.                             *)
(***************************************************************************)
LEMMA CountsAgree ==
  ASSUME PageAssumption, QueriesAssumption, NEW records, Numbered(records)
  PROVE  /\ \A filters \in {[actor |-> "user"], [actor |-> "ai"]} :
              Len(apply_filters(records, filters)) =
                IF filters.actor = "user" THEN stats(records).user ELSE stats(records).ai
         /\ Len(apply_filters(records, [has_errors |-> TRUE])) = stats(records).errors
<1>1. Timed(records)
  BY NumberedIsTimed
<1>2. \A filters : Len(apply_filters(records, filters)) = Cardinality(Hits(records, filters))
  BY <1>1, FoundIsArranged DEF Orders
<1>3. ASSUME NEW a
      PROVE  Hits(records, [actor |-> a]) = {i \in DOMAIN records : records[i].actor = a}
  <2> DEFINE f == [actor |-> a]
  <2>1. DOMAIN f = {"actor"} /\ f.actor = a
    OBVIOUS
  <2> HIDE DEF f
  <2>2. \A r : Matches(r, f) <=> r.actor = a
    BY <2>1 DEF Matches
  <2> QED
    BY <2>2 DEF Hits, f
<1>4. Hits(records, [has_errors |-> TRUE]) = {i \in DOMAIN records : records[i].has_errors}
  <2> DEFINE f == [has_errors |-> TRUE]
  <2>1. DOMAIN f = {"has_errors"} /\ f.has_errors = TRUE
    OBVIOUS
  <2> HIDE DEF f
  <2>2. \A r : Matches(r, f) <=> r.has_errors = TRUE
    BY <2>1 DEF Matches
  <2>3. \A i \in DOMAIN records : records[i].has_errors \in BOOLEAN
    <3>1. \A i \in DOMAIN records : records[i] \in AllStored
      BY LenProperties, ElementOfSeq DEF Numbered
    <3> QED
      BY <3>1, StoredAre
  <2> QED
    BY <2>2, <2>3 DEF Hits, f
<1>5. /\ stats(records).user = Cardinality({i \in DOMAIN records : records[i].actor = "user"})
      /\ stats(records).ai = Cardinality({i \in DOMAIN records : records[i].actor = "ai"})
      /\ stats(records).errors = Cardinality({i \in DOMAIN records : records[i].has_errors})
  BY DEF stats
<1>6. Len(apply_filters(records, [actor |-> "user"])) = stats(records).user
  <2>1. PICK f : f = [actor |-> "user"]
    OBVIOUS
  <2>2. Len(apply_filters(records, f)) = Cardinality(Hits(records, f))
    BY <1>2
  <2>3. Hits(records, [actor |-> "user"]) = {i \in DOMAIN records : records[i].actor = "user"}
    BY <1>3
  <2>4. Hits(records, f) = {i \in DOMAIN records : records[i].actor = "user"}
    BY ONLY <2>1, <2>3
  <2>5. Len(apply_filters(records, f)) = stats(records).user
    BY ONLY <2>2, <2>4, <1>5
  <2> QED
    BY ONLY <2>1, <2>5
<1>7. Len(apply_filters(records, [actor |-> "ai"])) = stats(records).ai
  <2>1. PICK f : f = [actor |-> "ai"]
    OBVIOUS
  <2>2. Len(apply_filters(records, f)) = Cardinality(Hits(records, f))
    BY <1>2
  <2>3. Hits(records, [actor |-> "ai"]) = {i \in DOMAIN records : records[i].actor = "ai"}
    BY <1>3
  <2>4. Hits(records, f) = {i \in DOMAIN records : records[i].actor = "ai"}
    BY ONLY <2>1, <2>3
  <2>5. Len(apply_filters(records, f)) = stats(records).ai
    BY ONLY <2>2, <2>4, <1>5
  <2> QED
    BY ONLY <2>1, <2>5
<1>8. Len(apply_filters(records, [has_errors |-> TRUE])) = stats(records).errors
  BY <1>2, <1>4, <1>5
<1>9. [actor |-> "user"].actor = "user" /\ [actor |-> "ai"].actor # "user"
  OBVIOUS
<1> QED
  BY <1>6, <1>7, <1>8, <1>9

(***************************************************************************)
(* At rest no request is left to bring what is missing, so nothing is.     *)
(***************************************************************************)
LEMMA PagesShow ==
  ASSUME PageAssumption, QueriesAssumption, PagesIInv
  PROVE  PagesShowTheHistory
<1>1. /\ Numbered(stored) /\ page \in Slices /\ Shows(page.shown)
  BY DEF PagesIInv, PageTypes, Slices, Shows
<1>2. NoneTwice(page.shown)
  BY <1>1, ShowsNoneTwice
<1>3. ASSUME pageRequests = <<>>, ~page.disturbed
      PROVE  /\ Ids(page.shown) = Ids(apply_filters(stored, page.filters))
             /\ \A i \in DOMAIN page.shown : page.shown[i] = stored[page.shown[i].id]
  <2>1. ~Unfinished(pageRequests)
    BY <1>3 DEF Unfinished
  <2>2a. PICK lo \in Nat : \E K : Asked(lo, K, <<>>, page) /\ Seen(lo, stored, page)
    BY <1>3, <2>1 DEF PagesIInv, Coming
  <2>2. PICK K : Asked(lo, K, <<>>, page) /\ Seen(lo, stored, page)
    BY <2>2a
  <2>3. Ids(page.shown) = Hits(stored, page.filters)
    BY <1>1, <2>2, NothingMissing DEF Shows
  <2>4. AsStored(page.shown, stored)
    BY <1>3 DEF PagesIInv, Coming
  <2> QED
    BY <1>1, <2>3, <2>4, ListedIds DEF AsStored
<1>4. LET logs == fetch_console_logs(stored, NoValue)
      IN  \A i \in DOMAIN logs : logs[i] = sort_records(stored, "desc")[i]
  BY <1>1, LogsAre
<1>5. /\ \A filters \in {[actor |-> "user"], [actor |-> "ai"]} :
           Len(apply_filters(stored, filters)) =
             IF filters.actor = "user" THEN stats(stored).user ELSE stats(stored).ai
      /\ Len(apply_filters(stored, [has_errors |-> TRUE])) = stats(stored).errors
  BY <1>1, CountsAgree
<1> QED
  BY <1>2, <1>3, <1>4, <1>5 DEF PagesShowTheHistory

(***************************************************************************)
(* PagesShowTheHistory: whatever is recorded, rewritten, requested again,  *)
(* answered late or given up, the panel of the timeline                    *)
(* (useTimelineData.ts, timelineSlice.ts) shows no run twice; and when all *)
(* requests are answered and, since the first page of the present query,   *)
(* the history has not changed and no request failed or was given up, it   *)
(* shows exactly the runs the query finds, from the first to the last      *)
(* page, as they are recorded. The console log tool's answer is the newest *)
(* of the history, and the statistics count what the filters find. For     *)
(* every set of events, filters, page size up to the cap and number of     *)
(* runs, of changes of the query and of requests that fail.                *)
(***************************************************************************)
THEOREM PagesAlwaysShow == PageSpec => []PagesShowTheHistory
<1>1. PageInit => PagesIInv
  BY PageAssumption, QueriesAssumption, PagesInit
<1>2. PagesIInv /\ [PageNext]_pageVars => PagesIInv'
  BY PageAssumption, QueriesAssumption, PagesStep
<1>3. PagesIInv => PagesShowTheHistory
  BY PageAssumption, QueriesAssumption, PagesShow
<1> QED
  BY <1>1, <1>2, <1>3, PTL DEF PageSpec

-----------------------------------------------------------------------------
(* The documents of an export.                                             *)

(***************************************************************************)
(* An element after two sequences.                                         *)
(***************************************************************************)
LEMMA ConcatAppend ==
  ASSUME NEW S, NEW s \in Seq(S), NEW t \in Seq(S), NEW x \in S
  PROVE  s \o Append(t, x) = Append(s \o t, x)
<1>1. Append(t, x) = t \o <<x>> /\ <<x>> \in Seq(S)
  OBVIOUS
<1>2. s \o t \in Seq(S)
  BY ConcatProperties
<1>3. Append(s \o t, x) = (s \o t) \o <<x>>
  BY <1>2
<1>4. (s \o t) \o <<x>> = s \o (t \o <<x>>)
  BY ONLY <1>1, ConcatAssociative, s \in Seq(S), t \in Seq(S)
<1> QED
  BY ONLY <1>1, <1>2, <1>3, <1>4

(***************************************************************************)
(* Two sequences of sequences, joined, of which the second gets one more.  *)
(***************************************************************************)
LEMMA FlattenMore ==
  ASSUME NEW S, NEW a \in Seq(Seq(S)), NEW d \in Seq(Seq(S)), NEW x \in Seq(S),
         FlattenSeq(a \o d) = FlattenSeq(a) \o FlattenSeq(d)
  PROVE  FlattenSeq(a \o Append(d, x)) = FlattenSeq(a) \o FlattenSeq(Append(d, x))
<1>1. a \o Append(d, x) = Append(a \o d, x)
  BY ConcatAppend
<1>2. a \o d \in Seq(Seq(S))
  BY ConcatProperties
<1>3. FlattenSeq(Append(a \o d, x)) = FlattenSeq(a \o d) \o x
  BY <1>2, FlattenAppend
<1>4. FlattenSeq(Append(d, x)) = FlattenSeq(d) \o x
  BY FlattenAppend
<1>5. FlattenSeq(a) \in Seq(S) /\ FlattenSeq(d) \in Seq(S)
  BY FlattenAppend, EmptySeq
<1>6. (FlattenSeq(a) \o FlattenSeq(d)) \o x = FlattenSeq(a) \o (FlattenSeq(d) \o x)
  BY <1>5, ConcatAssociative
<1> QED
  BY ONLY <1>1, <1>3, <1>4, <1>6, FlattenSeq(a \o d) = FlattenSeq(a) \o FlattenSeq(d)

(***************************************************************************)
(* Two sequences of sequences, joined.                                     *)
(***************************************************************************)
LEMMA FlattenConcat ==
  ASSUME NEW S, NEW a \in Seq(Seq(S)), NEW b \in Seq(Seq(S))
  PROVE  FlattenSeq(a \o b) = FlattenSeq(a) \o FlattenSeq(b)
<1> DEFINE c(n) == SubSeq(b, 1, n)
           Good(n) == FlattenSeq(a \o c(n)) = FlattenSeq(a) \o FlattenSeq(c(n))
           G == {n \in 0..Len(b) : Good(n)}
<1>0. a \in Seq(Seq(S))
  OBVIOUS
<1>1. /\ Len(b) \in Nat /\ \A n \in 1..Len(b) : b[n] \in Seq(S)
      /\ c(0) = <<>> /\ c(Len(b)) = b
  BY SubSeqEmpty, SubSeqFull
<1>2. \A n \in 0..Len(b) : c(n) \in Seq(Seq(S))
  BY <1>1, SubSeqProperties
<1>3. /\ FlattenSeq(a) \in Seq(S)
      /\ \A n \in 0..Len(b) : FlattenSeq(c(n)) \in Seq(S)
  BY <1>2, FlattenAppend, EmptySeq
<1>4. \A n \in 1..Len(b) : c(n) = Append(c(n - 1), b[n]) /\ n - 1 \in 0..Len(b)
  BY <1>1, SubSeqRecursiveSecond
<1> HIDE DEF c
<1>5. Good(0)
  <2>1. a \o <<>> = a /\ FlattenSeq(a) \o <<>> = FlattenSeq(a)
    BY <1>3, ConcatEmptySeq
  <2> QED
    BY <1>1, <2>1, FlattenEmpty
<1>6. ASSUME NEW n \in 1..Len(b), Good(n - 1) PROVE Good(n)
  <2>1. PICK d : d = c(n - 1)
    OBVIOUS
  <2>2. d \in Seq(Seq(S)) /\ c(n) = Append(d, b[n]) /\ b[n] \in Seq(S) /\ FlattenSeq(d) \in Seq(S)
    BY <1>1, <1>2, <1>3, <1>4, <2>1
  <2>3. FlattenSeq(a \o d) = FlattenSeq(a) \o FlattenSeq(d)
    BY <1>6, <2>1
  <2>4. FlattenSeq(a \o Append(d, b[n])) = FlattenSeq(a) \o FlattenSeq(Append(d, b[n]))
    BY ONLY <1>0, <2>2, <2>3, FlattenMore
  <2> QED
    BY ONLY <2>2, <2>4
<1> HIDE DEF Good
<1>7. 0 \in G /\ \A n \in 1..Len(b) : n - 1 \in G => n \in G
  BY <1>1, <1>5, <1>6
<1>8. Len(b) \in G
  <2> HIDE DEF G
  <2> QED
    BY <1>1, <1>7, Upwards
<1> QED
  BY <1>1, <1>8 DEF Good

(***************************************************************************)
(* One element each.                                                       *)
(***************************************************************************)
LEMMA FlattenSingles ==
  ASSUME NEW S, NEW a \in Seq(Seq(S)), NEW h \in Seq(S), Len(a) = Len(h),
         \A i \in 1..Len(a) : a[i] = <<h[i]>>
  PROVE  FlattenSeq(a) = h
<1> DEFINE Good(n) == FlattenSeq(SubSeq(a, 1, n)) = SubSeq(h, 1, n)
           G == {n \in 0..Len(a) : Good(n)}
<1>1. /\ Len(a) \in Nat /\ SubSeq(h, 1, 0) = <<>> /\ SubSeq(h, 1, Len(a)) = h
      /\ FlattenSeq(SubSeq(a, 1, 0)) = <<>>
      /\ FlattenSeq(SubSeq(a, 1, Len(a))) = FlattenSeq(a)
  <2>1. Len(a) \in Nat /\ SubSeq(h, 1, 0) = <<>> /\ SubSeq(h, 1, Len(a)) = h
    BY SubSeqEmpty, SubSeqFull
  <2> QED
    BY <2>1, FlattenUpto
<1>2. \A n \in 1..Len(a) :
        FlattenSeq(SubSeq(a, 1, n)) = FlattenSeq(SubSeq(a, 1, n - 1)) \o a[n]
  BY FlattenUpto
<1>3. \A n \in 1..Len(a) : SubSeq(h, 1, n) = SubSeq(h, 1, n - 1) \o <<h[n]>>
  <2> TAKE n \in 1..Len(a)
  <2>1. n \in 1..Len(h) /\ 1 \in 1..Len(h) /\ n \in 1..Len(h)
    BY <1>1
  <2> QED
    BY <2>1, SubSeqRecursiveSecond
<1>4. Good(0) /\ \A n \in 1..Len(a) : Good(n - 1) => Good(n)
  BY <1>1, <1>2, <1>3
<1> HIDE DEF Good
<1>5. 0 \in G /\ \A n \in 1..Len(a) : n - 1 \in G => n \in G
  BY <1>1, <1>4
<1>6. Len(a) \in G
  <2> HIDE DEF G
  <2> QED
    BY <1>1, <1>5, Upwards
<1> QED
  BY <1>1, <1>6 DEF Good

(***************************************************************************)
(* Nothing each.                                                           *)
(***************************************************************************)
LEMMA FlattenNothing ==
  ASSUME NEW a \in Seq({<<>>})
  PROVE  FlattenSeq(a) = <<>>
<1> DEFINE Good(n) == FlattenSeq(SubSeq(a, 1, n)) = <<>>
           G == {n \in 0..Len(a) : Good(n)}
<1>0. Len(a) \in Nat /\ \A n \in 1..Len(a) : a[n] = <<>> /\ a[n] \in Seq({})
  <2>1. Len(a) \in Nat /\ \A n \in 1..Len(a) : a[n] \in {<<>>}
    BY LenProperties, ElementOfSeq
  <2>2. <<>> \in Seq({})
    BY EmptySeq
  <2> QED
    BY <2>1, <2>2
<1>1. a \in Seq(Seq({}))
  BY <1>0
<1>2. /\ Len(a) \in Nat /\ FlattenSeq(SubSeq(a, 1, 0)) = <<>>
      /\ FlattenSeq(SubSeq(a, 1, Len(a))) = FlattenSeq(a)
      /\ \A n \in 1..Len(a) :
            FlattenSeq(SubSeq(a, 1, n)) = FlattenSeq(SubSeq(a, 1, n - 1)) \o a[n]
  BY <1>0, <1>1, FlattenUpto
<1>3. \A n \in 1..Len(a) : a[n] = <<>>
  BY <1>0
<1>4. <<>> \o <<>> = <<>>
  BY ConcatEmptySeq, EmptySeq
<1>5. \A n \in 1..Len(a) : Good(n - 1) => Good(n)
  BY <1>2, <1>3, <1>4
<1> HIDE DEF Good
<1>8. Good(0)
  BY <1>2 DEF Good
<1>6. 0 \in G /\ \A n \in 1..Len(a) : n - 1 \in G => n \in G
  BY <1>2, <1>5, <1>8
<1>7. Len(a) \in G
  <2> HIDE DEF G
  <2> QED
    BY <1>2, <1>6, Upwards
<1> QED
  BY <1>2, <1>7 DEF Good

\* g makes sequences over U of what is in T.
Makes(g, T, U) == g \in [T -> Seq(U)]

\* What the elements of a sequence become, joined.
Each(g, s) == FlattenSeq([i \in DOMAIN s |-> g[s[i]]])

(***************************************************************************)
(* Of two sequences joined: the two joined.                                *)
(***************************************************************************)
LEMMA EachConcat ==
  ASSUME NEW T, NEW U, NEW g, Makes(g, T, U), NEW s \in Seq(T), NEW t \in Seq(T)
  PROVE  /\ Each(g, s) \in Seq(U)
         /\ Each(g, s \o t) = Each(g, s) \o Each(g, t)
<1> DEFINE a == [i \in DOMAIN s |-> g[s[i]]]
           b == [i \in DOMAIN t |-> g[t[i]]]
           st == s \o t
           c == [i \in DOMAIN st |-> g[st[i]]]
<1>0. g \in [T -> Seq(U)]
  BY DEF Makes
<1>1. /\ DOMAIN s = 1..Len(s) /\ Len(s) \in Nat /\ \A i \in 1..Len(s) : s[i] \in T
      /\ DOMAIN t = 1..Len(t) /\ Len(t) \in Nat /\ \A i \in 1..Len(t) : t[i] \in T
  OBVIOUS
<1>2. /\ st \in Seq(T) /\ Len(st) = Len(s) + Len(t)
      /\ \A i \in 1..Len(s) + Len(t) : st[i] = IF i <= Len(s) THEN s[i] ELSE t[i - Len(s)]
  BY ConcatProperties
<1> HIDE DEF st
<1>3. a \in Seq(Seq(U)) /\ b \in Seq(Seq(U)) /\ c \in Seq(Seq(U))
  <2>1. \A i \in 1..Len(s) : g[s[i]] \in Seq(U)
    BY <1>0, <1>1
  <2>2. \A i \in 1..Len(t) : g[t[i]] \in Seq(U)
    BY <1>0, <1>1
  <2>3. DOMAIN st = 1..Len(st) /\ Len(st) \in Nat /\ \A i \in 1..Len(st) : g[st[i]] \in Seq(U)
    BY <1>0, <1>2
  <2> QED
    BY <1>1, <2>1, <2>2, <2>3, IsASeq
<1>4. Len(a) = Len(s) /\ Len(b) = Len(t) /\ Len(c) = Len(s) + Len(t)
  <2>1. DOMAIN a = 1..Len(s) /\ DOMAIN b = 1..Len(t) /\ DOMAIN c = 1..(Len(s) + Len(t))
    BY <1>1, <1>2
  <2> HIDE DEF a, b, c
  <2> QED
    BY <1>1, <1>3, <2>1, LenProperties
<1>5. /\ \A i \in 1..Len(s) : a[i] = g[s[i]]
      /\ \A i \in 1..Len(t) : b[i] = g[t[i]]
      /\ \A i \in 1..(Len(s) + Len(t)) : c[i] = g[st[i]]
  BY <1>1, <1>2
<1>6. Each(g, s) = FlattenSeq(a) /\ Each(g, t) = FlattenSeq(b) /\ Each(g, st) = FlattenSeq(c)
  BY DEF Each
<1> HIDE DEF a, b, c
<1>7. c = a \o b
  <2>1. /\ a \o b \in Seq(Seq(U)) /\ Len(a \o b) = Len(s) + Len(t)
        /\ \A i \in 1..Len(s) + Len(t) :
              (a \o b)[i] = IF i <= Len(s) THEN a[i] ELSE b[i - Len(s)]
    <3>1. PICK x \in Seq(Seq(U)), y \in Seq(Seq(U)) : x = a /\ y = b
      BY <1>3
    <3>2. /\ x \o y \in Seq(Seq(U)) /\ Len(x \o y) = Len(x) + Len(y)
          /\ \A i \in 1..Len(x) + Len(y) :
                (x \o y)[i] = IF i <= Len(x) THEN x[i] ELSE y[i - Len(x)]
      BY ONLY ConcatProperties, x \in Seq(Seq(U)), y \in Seq(Seq(U))
    <3> QED
      BY ONLY <1>4, <3>1, <3>2
  <2>2. ASSUME NEW i \in 1..(Len(s) + Len(t)) PROVE c[i] = (a \o b)[i]
    <3>1. CASE i <= Len(s)
      <4>1. i \in 1..Len(s)
        BY <1>1, <3>1
      <4> QED
        <5>1. c[i] = g[st[i]] /\ st[i] = s[i]
          BY <1>2, <1>5, <3>1
        <5>2. (a \o b)[i] = a[i] /\ a[i] = g[s[i]]
          BY <1>5, <2>1, <3>1, <4>1
        <5> QED
          BY <5>1, <5>2
    <3>2. CASE ~(i <= Len(s))
      <4>1. i - Len(s) \in 1..Len(t)
        BY <1>1, <3>2
      <4> QED
        <5>1. c[i] = g[st[i]] /\ st[i] = t[i - Len(s)]
          BY <1>2, <1>5, <3>2
        <5>2. PICK j \in 1..Len(t) : j = i - Len(s)
          BY <4>1
        <5>3. (a \o b)[i] = b[j] /\ b[j] = g[t[j]]
          BY <1>5, <2>1, <3>2, <5>2
        <5> QED
          BY <5>1, <5>2, <5>3
    <3> QED
      BY <3>1, <3>2
  <2> QED
    BY ONLY <1>3, <1>4, <2>1, <2>2, SeqEqual
<1>8. FlattenSeq(a) \in Seq(U)
  BY <1>3, FlattenAppend, EmptySeq
<1> QED
  <2>1. FlattenSeq(a \o b) = FlattenSeq(a) \o FlattenSeq(b)
    BY ONLY <1>3, FlattenConcat
  <2> QED
    BY ONLY <1>6, <1>7, <1>8, <2>1 DEF st

(***************************************************************************)
(* Of one element.                                                         *)
(***************************************************************************)
LEMMA EachOne ==
  ASSUME NEW T, NEW U, NEW g, Makes(g, T, U), NEW x \in T
  PROVE  Each(g, <<x>>) = g[x] /\ Each(g, <<>>) = <<>>
<1>1. [i \in DOMAIN <<x>> |-> g[<<x>>[i]]] = <<g[x]>>
  OBVIOUS
<1>2. g[x] \in Seq(U) /\ <<g[x]>> = Append(<<>>, g[x])
  BY DEF Makes
<1>3. FlattenSeq(Append(<<>>, g[x])) = FlattenSeq(<<>>) \o g[x]
  BY <1>2, EmptySeq, FlattenAppend
<1>4. FlattenSeq(<<g[x]>>) = g[x]
  BY ONLY <1>2, <1>3, FlattenEmpty, ConcatEmptySeq
<1>5. [i \in DOMAIN <<>> |-> g[<<>>[i]]] = <<>>
  OBVIOUS
<1> QED
  BY <1>1, <1>4, <1>5, FlattenEmpty DEF Each

(***************************************************************************)
(* Of many sequences joined: the many joined.                              *)
(***************************************************************************)
LEMMA EachFlatten ==
  ASSUME NEW T, NEW U, NEW g, Makes(g, T, U), NEW ss \in Seq(Seq(T)), NEW ms \in Seq(Seq(U)),
         Len(ms) = Len(ss), \A i \in 1..Len(ss) : ms[i] = Each(g, ss[i])
  PROVE  Each(g, FlattenSeq(ss)) = FlattenSeq(ms)
<1> DEFINE Good(n) == Each(g, FlattenSeq(SubSeq(ss, 1, n))) = FlattenSeq(SubSeq(ms, 1, n))
           G == {n \in 0..Len(ss) : Good(n)}
<1>1. /\ Len(ss) \in Nat /\ \A i \in 1..Len(ss) : ss[i] \in Seq(T)
      /\ Len(ms) = Len(ss)
  OBVIOUS
<1>2. /\ FlattenSeq(SubSeq(ss, 1, 0)) = <<>>
      /\ FlattenSeq(SubSeq(ss, 1, Len(ss))) = FlattenSeq(ss)
      /\ \A n \in 0..Len(ss) : FlattenSeq(SubSeq(ss, 1, n)) \in Seq(T)
      /\ \A n \in 1..Len(ss) :
           FlattenSeq(SubSeq(ss, 1, n)) = FlattenSeq(SubSeq(ss, 1, n - 1)) \o ss[n]
  BY FlattenUpto
<1>3. /\ FlattenSeq(SubSeq(ms, 1, 0)) = <<>>
      /\ FlattenSeq(SubSeq(ms, 1, Len(ss))) = FlattenSeq(ms)
      /\ \A n \in 1..Len(ss) :
           FlattenSeq(SubSeq(ms, 1, n)) = FlattenSeq(SubSeq(ms, 1, n - 1)) \o ms[n]
  BY <1>1, FlattenUpto
<1>4. Good(0)
  <2>1. Each(g, <<>>) = <<>>
    BY FlattenEmpty DEF Each
  <2> QED
    BY <1>2, <1>3, <2>1
<1>5. ASSUME NEW n \in 1..Len(ss), Good(n - 1) PROVE Good(n)
  <2>1. n - 1 \in 0..Len(ss)
    BY <1>1
  <2>2. PICK f \in Seq(T) : f = FlattenSeq(SubSeq(ss, 1, n - 1))
    BY <1>2, <2>1
  <2>3. FlattenSeq(SubSeq(ss, 1, n)) = f \o ss[n] /\ ss[n] \in Seq(T)
    BY <1>1, <1>2, <2>2
  <2>4. Each(g, f \o ss[n]) = Each(g, f) \o Each(g, ss[n])
    <3> HIDE DEF Good, G
    <3>1. PICK t \in Seq(T) : t = ss[n]
      BY <2>3
    <3>2. Each(g, f \o t) = Each(g, f) \o Each(g, t)
      BY ONLY EachConcat, Makes(g, T, U), f \in Seq(T), t \in Seq(T), SMTT(30)
    <3> QED
      BY ONLY <3>1, <3>2
  <2>5. Each(g, f) = FlattenSeq(SubSeq(ms, 1, n - 1))
    BY <1>5, <2>2
  <2>6. FlattenSeq(SubSeq(ms, 1, n)) = FlattenSeq(SubSeq(ms, 1, n - 1)) \o ms[n]
        /\ ms[n] = Each(g, ss[n])
    BY <1>3
  <2> QED
    BY ONLY <2>3, <2>4, <2>5, <2>6 DEF Good
<1> HIDE DEF Good
<1>6. 0 \in G /\ \A n \in 1..Len(ss) : n - 1 \in G => n \in G
  BY <1>1, <1>4, <1>5
<1>7. Len(ss) \in G
  <2> HIDE DEF G
  <2> QED
    BY <1>1, <1>6, Upwards
<1> QED
  BY <1>2, <1>3, <1>7 DEF Good

(***************************************************************************)
(* Of a sequence whose elements become nothing, or one element each.       *)
(***************************************************************************)
LEMMA EachNothing ==
  ASSUME NEW g, NEW s, NEW T, s \in Seq(T), \A i \in 1..Len(s) : g[s[i]] = <<>>
  PROVE  Each(g, s) = <<>>
<1>1. DOMAIN s = 1..Len(s) /\ Len(s) \in Nat
  BY LenProperties
<1>2. \A i \in 1..Len(s) : g[s[i]] \in {<<>>}
  OBVIOUS
<1>3. [i \in 1..Len(s) |-> g[s[i]]] \in Seq({<<>>})
  BY <1>1, <1>2, IsASeq
<1> QED
  BY <1>1, <1>3, FlattenNothing DEF Each

\* g makes one element of each of s, which are h.
Singles(g, s, h) == Len(h) = Len(s) /\ \A i \in 1..Len(s) : g[s[i]] = <<h[i]>>

(***************************************************************************)
(* Then g makes h of s.                                                    *)
(***************************************************************************)
LEMMA EachSingle ==
  ASSUME NEW g, NEW T, NEW U, NEW s \in Seq(T), NEW h \in Seq(U), Singles(g, s, h)
  PROVE  Each(g, s) = h
<1>0. Len(h) = Len(s) /\ \A i \in 1..Len(s) : g[s[i]] = <<h[i]>>
  BY DEF Singles
<1>1. DOMAIN s = 1..Len(s) /\ Len(s) \in Nat
  BY LenProperties
<1>2. \A i \in 1..Len(s) : g[s[i]] \in Seq(U)
  <2> TAKE i \in 1..Len(s)
  <2>1. i \in 1..Len(h)
    BY <1>0
  <2>2. h[i] \in U
    BY <2>1, ElementOfSeq
  <2>3. PICK x \in U : x = h[i]
    BY <2>2
  <2>4. <<x>> \in Seq(U) /\ g[s[i]] = <<h[i]>>
    BY <1>0, <2>3
  <2> QED
    BY ONLY <2>3, <2>4
<1>3. PICK a : a = [i \in 1..Len(s) |-> g[s[i]]]
  OBVIOUS
<1>4. a \in Seq(Seq(U))
  BY <1>1, <1>2, <1>3, IsASeq
<1>5. Len(a) = Len(s) /\ \A i \in 1..Len(s) : a[i] = <<h[i]>>
  BY <1>0, <1>1, <1>3, <1>4, LenProperties
<1>6. FlattenSeq(a) = h
  BY <1>0, <1>4, <1>5, FlattenSingles
<1> QED
  BY <1>1, <1>3, <1>6 DEF Each

(***************************************************************************)
(* What a record of a run says besides.                                    *)
(***************************************************************************)
LEMMA RecordedSays ==
  ASSUME ExportAssumption, NEW e \in ExportEvents, NEW n
  PROVE  /\ Recorded(e, n).created = e.created /\ Recorded(e, n).actor = e.actor
         /\ Recorded(e, n).output = e.output /\ Recorded(e, n).error = e.error
         /\ Recorded(e, n).has_plots <=> Recorded(e, n).plots # <<>>
         /\ Recorded(e, n).has_errors <=> e.error # NoValue
<1> DEFINE plots == [p \in DOMAIN e.plots |-> [file |-> <<n, p>>, data |-> e.plots[p]]]
           kept == [e EXCEPT !.plots = plots]
           named == With(kept, [id |-> n])
           says == [has_plots |-> named.plots # <<>>, has_errors |-> named.error # NoValue,
                    code_text |-> UNION {named.blocks[i] : i \in DOMAIN named.blocks}]
<1>1. DOMAIN e = {"created", "triggered", "actor", "source", "document", "blocks",
                  "output", "error", "plots", "r_version"}
  BY DEF ExportAssumption
<1>2. /\ DOMAIN kept = DOMAIN e /\ kept.plots = plots
      /\ kept.created = e.created /\ kept.actor = e.actor
      /\ kept.output = e.output /\ kept.error = e.error
  <2> HIDE DEF plots
  <2> QED
    BY <1>1
<1> HIDE DEF kept
<1>3. /\ DOMAIN named = DOMAIN e \cup {"id"} /\ named.plots = kept.plots
      /\ named.created = e.created /\ named.actor = e.actor
      /\ named.output = e.output /\ named.error = e.error
  BY <1>1, <1>2 DEF With
<1> HIDE DEF named
<1>4. /\ DOMAIN says = {"has_plots", "has_errors", "code_text"}
      /\ says.has_plots <=> named.plots # <<>>
      /\ says.has_errors <=> named.error # NoValue
  OBVIOUS
<1>5. Recorded(e, n) = With(named, says)
  BY DEF Recorded, create_record, named, kept
<1> HIDE DEF says
<1>6. /\ With(named, says).created = named.created /\ With(named, says).actor = named.actor
      /\ With(named, says).output = named.output /\ With(named, says).error = named.error
      /\ With(named, says).plots = named.plots
      /\ With(named, says).has_plots = says.has_plots
      /\ With(named, says).has_errors = says.has_errors
  BY <1>1, <1>3, <1>4 DEF With
<1> QED
  BY <1>3, <1>4, <1>5, <1>6

\* The plots of records.
Pictures == [file : Nat \X Nat, data : {"image", "broken", "empty"}]

\* What a record says.
Says(r) ==
  /\ r.id \in Nat /\ r.created \in Nat /\ r.actor \in Actors
  /\ r.output \in Nat /\ r.error \in Nat \cup {NoValue}
  /\ r.has_plots <=> r.plots # <<>>
  /\ r.has_errors <=> r.error # NoValue
  /\ r.blocks \in Seq(SUBSET STRING) /\ r.plots \in Seq(Pictures)
  /\ DOMAIN r.plots = 1..Len(r.plots) /\ Len(r.plots) \in Nat
  /\ \A p \in DOMAIN r.plots : r.plots[p].file = <<r.id, p>>

(***************************************************************************)
(* The records of a history do.                                            *)
(***************************************************************************)
LEMMA AllSay ==
  ASSUME ExportAssumption, NEW r \in AllRecorded
  PROVE  Says(r)
<1>1. PICK e \in ExportEvents, n \in Nat : r = Recorded(e, n)
  BY DEF AllRecorded
<1>2. /\ e.created \in Nat /\ e.actor \in Actors
      /\ e.output \in Nat /\ e.error \in Nat \cup {NoValue}
      /\ e.blocks \in Seq(SUBSET STRING) /\ e.plots \in Seq({"image", "broken", "empty"})
  BY DEF ExportAssumption
<1>3. /\ r.id = n /\ r.blocks = e.blocks
      /\ r.plots = [p \in DOMAIN e.plots |-> [file |-> <<n, p>>, data |-> e.plots[p]]]
  BY <1>1, RecordedFields
<1>4. DOMAIN e.plots = 1..Len(e.plots) /\ Len(e.plots) \in Nat
  BY <1>2
<1>5. \A p \in DOMAIN r.plots : r.plots[p].file = <<r.id, p>>
  BY <1>3
<1>6. DOMAIN r.plots = 1..Len(r.plots) /\ Len(r.plots) \in Nat
  <2>1. DOMAIN r.plots = 1..Len(e.plots)
    BY <1>3, <1>4
  <2>2. r.plots \in Seq([file : {r.id} \X Nat, data : {"image", "broken", "empty"}])
    BY RecordedShape
  <2> QED
    BY <2>2, LenProperties
<1>8. r.plots \in Seq(Pictures)
  <2>1. \A p \in 1..Len(e.plots) : [file |-> <<n, p>>, data |-> e.plots[p]] \in Pictures
    BY <1>4 DEF Pictures
  <2> QED
    BY <1>3, <1>4, <2>1, IsASeq
<1>7. /\ r.created = e.created /\ r.actor = e.actor /\ r.output = e.output /\ r.error = e.error
      /\ r.has_plots <=> r.plots # <<>>
      /\ r.has_errors <=> e.error # NoValue
  BY <1>1, RecordedSays
<1> QED
  BY <1>2, <1>3, <1>5, <1>6, <1>7, <1>8 DEF Says

\* The query of an export, and what it finds.
ExportQuery == [filters |-> <<>>, sort |-> "asc", offset |-> NoValue, limit |-> ExportLimit]
FoundIn(h) == query(h, ExportQuery).events

\* Events as an export finds them in a history.
Gathered(events, h) ==
  /\ DOMAIN events = 1..Len(events) /\ Len(events) \in Nat
  /\ \A i \in DOMAIN events : /\ events[i] \in AllRecorded /\ events[i].id \in DOMAIN h
                              /\ events[i] = h[events[i].id]
  /\ \A i, j \in DOMAIN events : i < j => /\ events[i].created <= events[j].created
                                         /\ events[i].id # events[j].id
  /\ Len(h) <= QueryCap => {events[i].id : i \in DOMAIN events} = 1..Len(h)

(***************************************************************************)
(* The smaller of two numbers.                                             *)
(***************************************************************************)
LEMMA AtMostIs ==
  ASSUME NEW a \in Nat, NEW b \in Nat
  PROVE  AtMost(a, b) \in 0..b /\ (b <= a => AtMost(a, b) = b)
BY DEF AtMost

(***************************************************************************)
(* What an export finds.                                                   *)
(***************************************************************************)
LEMMA FoundIsGathered ==
  ASSUME ExportAssumption, QueriesAssumption, NEW h, History(h)
  PROVE  Gathered(FoundIn(h), h)
<1> DEFINE H == Hits(h, <<>>)
           n == Len(h)
           E == Ahead(h, "asc", H)
           places == Arranged(h, <<>>, "asc")
           found == sort_records(apply_filters(h, <<>>), "asc")
           m == AtMost(QueryCap, n)
           events == FoundIn(h)
<1>1. /\ n \in Nat /\ DOMAIN h = 1..n
      /\ \A i \in 1..n : h[i] \in AllRecorded /\ h[i].id = i /\ h[i].created \in Nat
  <2>1. n \in Nat /\ DOMAIN h = 1..n /\ \A i \in 1..n : h[i] \in AllRecorded /\ h[i].id = i
    BY DEF History
  <2> QED
    BY <2>1, AllSay DEF Says
<1>2. Timed(h)
  BY <1>1 DEF Timed
<1>3. "asc" \in Orders /\ NoValue # "asc" /\ QueryCap \in Nat \ {0} /\ NoValue \notin Nat
  BY DEF Orders, QueriesAssumption
<1>4. H = 1..n
  <2>1. \A i \in DOMAIN h : Matches(h[i], <<>>)
    BY NoLines DEF Matches
  <2> QED
    BY <1>1, <2>1 DEF Hits
<1>5. Cardinality(H) = n /\ IsFiniteSet(H)
  BY <1>1, <1>4, FS_Interval
<1>6. Lists(places, H, E) /\ found = [k \in 1..n |-> h[places[k]]]
  BY <1>2, <1>3, <1>5, FoundIsArranged
<1>7. Ordered(H, E)
  BY <1>1, <1>2, <1>3, <1>4, RecordsAreOrdered
<1>20. m = AtMost(QueryCap, n) /\ n = Len(h)
  OBVIOUS
<1>21. \A i \in H : E[i] = {j \in H : Sooner(h, "asc", j, i)}
  BY DEF Ahead
<1> HIDE DEF found, places, E, H, n, m
<1>8. /\ places \in [1..n -> 1..n]
      /\ \A k \in 1..n : Cardinality(E[places[k]]) = k - 1
      /\ \A i \in 1..n : \E k \in 1..n : places[k] = i
  <2>1. /\ places \in [1..n -> H]
        /\ \A k \in 1..n : Cardinality(E[places[k]]) = k - 1
        /\ \A i \in H : /\ Cardinality(E[i]) \in 0..(n - 1)
                        /\ places[Cardinality(E[i]) + 1] = i
    BY <1>5, <1>6 DEF Lists
  <2>2. ASSUME NEW i \in 1..n PROVE \E k \in 1..n : places[k] = i
    <3>1. PICK k \in 1..n : k = Cardinality(E[i]) + 1
      BY <1>1, <1>4, <2>1
    <3> QED
      BY <1>4, <2>1, <3>1
  <2> QED
    BY <1>4, <2>1, <2>2
<1>9. found \in Seq(AllRecorded) /\ Len(found) = n /\ \A k \in 1..n : found[k] = h[places[k]]
  <2>1. \A k \in 1..n : h[places[k]] \in AllRecorded
    BY <1>1, <1>8
  <2>2. found \in Seq(AllRecorded)
    BY <1>1, <1>6, <2>1, IsASeq
  <2> QED
    BY <1>1, <1>6, <2>2, LenProperties
<1>10. m \in 0..n /\ (n <= QueryCap => m = n)
  <2>1. n \in Nat /\ QueryCap \in Nat
    BY <1>1, <1>3
  <2> QED
    BY ONLY <1>20, <2>1, AtMostIs
<1>11. events = SubSeq(found, 1, m)
  <2> DEFINE limit == AtMost(Given(ExportLimit, DefaultLimit), QueryCap)
             offset == Given(NoValue, 0)
  <2>1. limit = QueryCap /\ offset = 0
    BY <1>3 DEF AtMost, Given, ExportAssumption
  <2>2. Given("asc", "desc") = "asc"
    BY <1>3 DEF Given
  <2>3. events = LET f == sort_records(apply_filters(h, <<>>), Given("asc", "desc"))
                 IN  SubSeq(f, offset + 1, AtMost(offset + limit, Len(f)))
    BY DEF FoundIn, query, ExportQuery
  <2> HIDE DEF limit, offset, events
  <2>4. events = SubSeq(found, offset + 1, AtMost(offset + limit, Len(found)))
    BY <2>2, <2>3 DEF found
  <2> QED
    <3>1. offset + 1 = 1 /\ offset + limit = QueryCap
      BY <1>3, <2>1
    <3> QED
      BY ONLY <1>9, <1>20, <2>4, <3>1
<1> HIDE DEF events
<1>12. /\ DOMAIN events = 1..m /\ Len(events) = m /\ m \in Nat
       /\ \A k \in 1..m : events[k] = h[places[k]] /\ k \in 1..n
  <2>1. /\ events \in Seq(AllRecorded) /\ Len(events) = m
        /\ \A k \in 1..m : events[k] = found[k] /\ k \in 1..n
    BY <1>1, <1>9, <1>10, <1>11, SubSeqProperties
  <2> QED
    BY <1>9, <1>10, <2>1
<1>13. \A k \in 1..m : /\ events[k] \in AllRecorded /\ events[k].id = places[k]
                       /\ places[k] \in 1..n
  BY <1>1, <1>8, <1>12
<1>14. ASSUME NEW k \in 1..m, NEW l \in 1..m, k < l
       PROVE  events[k].created <= events[l].created /\ events[k].id # events[l].id
  <2>1. /\ places[k] \in H /\ places[l] \in H /\ k \in Nat /\ l \in Nat
        /\ Cardinality(E[places[k]]) = k - 1 /\ Cardinality(E[places[l]]) = l - 1
    <3>1. k \in 1..n /\ l \in 1..n
      BY <1>12
    <3>2. places[k] \in H /\ places[l] \in H
      BY <1>4, <1>8, <3>1
    <3>3. Cardinality(E[places[k]]) = k - 1 /\ Cardinality(E[places[l]]) = l - 1
      BY <1>8, <3>1
    <3> QED
      BY <3>1, <3>2, <3>3
  <2>2. places[k] # places[l]
    BY <1>14, <2>1
  <2>3. places[l] \notin E[places[k]]
    <3> SUFFICES ASSUME places[l] \in E[places[k]] PROVE FALSE
      OBVIOUS
    <3>1. Cardinality(E[places[l]]) < Cardinality(E[places[k]])
      BY <1>7, <2>1, FewerBefore
    <3> QED
      BY <1>14, <2>1, <3>1
  <2>4. places[k] \in E[places[l]]
    BY <1>7, <2>1, <2>2, <2>3 DEF Ordered
  <2>5. Sooner(h, "asc", places[k], places[l])
    BY <1>21, <2>1, <2>4
  <2>6. h[places[k]].created <= h[places[l]].created
    <3>1. PICK a \in 1..n, b \in 1..n : a = places[k] /\ b = places[l]
      BY <1>4, <2>1
    <3>2. h[a].created \in Nat /\ h[b].created \in Nat
      BY <1>1
    <3> QED
      BY <2>5, <3>1, <3>2 DEF Sooner
  <2> QED
    BY <1>12, <1>13, <2>2, <2>6
<1>15. n <= QueryCap => {events[i].id : i \in DOMAIN events} = 1..n
  <2> SUFFICES ASSUME n <= QueryCap PROVE {events[i].id : i \in DOMAIN events} = 1..n
    OBVIOUS
  <2>1. DOMAIN events = 1..n /\ \A k \in 1..n : events[k].id = places[k]
    BY <1>10, <1>12, <1>13
  <2>2. \A i \in 1..n : \E k \in 1..n : events[k].id = i
    BY <1>8, <2>1
  <2>3. \A k \in 1..n : events[k].id \in 1..n
    BY <1>8, <2>1
  <2>4. {events[i].id : i \in 1..n} = 1..n
    BY ONLY <2>2, <2>3
  <2> QED
    BY <2>1, <2>4
<1>16. /\ DOMAIN events = 1..Len(events) /\ Len(events) \in Nat
       /\ \A i \in DOMAIN events : /\ events[i] \in AllRecorded /\ events[i].id \in DOMAIN h
                                   /\ events[i] = h[events[i].id]
  BY ONLY <1>1, <1>12, <1>13
<1>17. \A i, j \in DOMAIN events : i < j => /\ events[i].created <= events[j].created
                                            /\ events[i].id # events[j].id
  BY ONLY <1>12, <1>14
<1> QED
  BY ONLY <1>15, <1>16, <1>17, <1>20 DEF Gathered, events

\* A sequence over T of which g makes w.
Yields(g, T, s, w) == s \in Seq(T) /\ Each(g, s) = w

(***************************************************************************)
(* Of two sequences joined, one of which becomes nothing.                  *)
(***************************************************************************)
LEMMA YieldsNext ==
  ASSUME NEW T, NEW U, NEW g, Makes(g, T, U), NEW s, NEW t, NEW w, w \in Seq(U),
         Yields(g, T, s, w), Yields(g, T, t, <<>>)
  PROVE  Yields(g, T, s \o t, w)
<1>0. s \in Seq(T) /\ t \in Seq(T) /\ Each(g, s) = w /\ Each(g, t) = <<>>
  BY DEF Yields
<1>1. Each(g, s \o t) = Each(g, s) \o Each(g, t)
  <2>1. PICK x \in Seq(T), y \in Seq(T) : x = s /\ y = t
    BY <1>0
  <2>2. Each(g, x \o y) = Each(g, x) \o Each(g, y)
    BY ONLY EachConcat, Makes(g, T, U), x \in Seq(T), y \in Seq(T)
  <2> QED
    BY ONLY <2>1, <2>2
<1>2. w \o <<>> = w
  BY ConcatEmptySeq
<1>3. s \o t \in Seq(T)
  BY <1>0, ConcatProperties
<1> QED
  BY ONLY <1>0, <1>1, <1>2, <1>3 DEF Yields

(***************************************************************************)
(* Of two sequences joined, what becomes of each.                          *)
(***************************************************************************)
LEMMA YieldsTwo ==
  ASSUME NEW T, NEW U, NEW g, Makes(g, T, U), NEW s, NEW t, NEW v, NEW w,
         Yields(g, T, s, v), Yields(g, T, t, w)
  PROVE  Yields(g, T, s \o t, v \o w)
<1>0. s \in Seq(T) /\ t \in Seq(T) /\ Each(g, s) = v /\ Each(g, t) = w
  BY DEF Yields
<1>1. Each(g, s \o t) = Each(g, s) \o Each(g, t)
  <2>1. PICK x \in Seq(T), y \in Seq(T) : x = s /\ y = t
    BY <1>0
  <2>2. Each(g, x \o y) = Each(g, x) \o Each(g, y)
    BY ONLY EachConcat, Makes(g, T, U), x \in Seq(T), y \in Seq(T)
  <2> QED
    BY ONLY <2>1, <2>2
<1>3. s \o t \in Seq(T)
  BY <1>0, ConcatProperties
<1> QED
  BY ONLY <1>0, <1>1, <1>3 DEF Yields

\* The parts of an event's section.
HeadingOf(e, options) ==
  [kind |-> "heading", event |-> e.id, actor |-> IF options.show_actor THEN e.actor ELSE NoValue]
CodeOfBlock(e, b, options) ==
  chunk_header([kind |-> "code", event |-> e.id, block |-> b], options)
OutputOf(e, options) ==
  [kind |-> "output", event |-> e.id, text |-> trim_output(e.output, options)]
ErrorOf(e, options) ==
  [kind |-> "error", event |-> e.id, text |-> trim_output(e.error, options)]
PlotOf(e, p) ==
  [kind |-> "plot", event |-> e.id, file |-> e.plots[p].file, prefixes |-> 0]

SectionParts(e, options) ==
  {HeadingOf(e, options), OutputOf(e, options), ErrorOf(e, options)}
  \cup {CodeOfBlock(e, b, options) : b \in DOMAIN e.blocks}
  \cup {PlotOf(e, p) : p \in {q \in DOMAIN e.plots : options.embed_plots}}

\* What the code of a section is in.
CodesOf(e, options) == [b \in DOMAIN e.blocks |-> CodeOfBlock(e, b, options)]

(***************************************************************************)
(* A part, or none.                                                        *)
(***************************************************************************)
LEMMA PartIfIs ==
  ASSUME NEW T, NEW x \in T, NEW c, NEW U, NEW g, Makes(g, T, U), g[x] = <<>>
  PROVE  PartIf(c, x) \in Seq(T) /\ Each(g, PartIf(c, x)) = <<>>
<1>1. CASE c
  <2>1. PartIf(c, x) = <<x>>
    BY <1>1 DEF PartIf
  <2> QED
    BY <2>1, EachOne
<1>2. CASE ~c
  <2>1. PartIf(c, x) = <<>>
    BY <1>2 DEF PartIf
  <2> QED
    BY <2>1, EachOne, EmptySeq
<1> QED
  BY <1>1, <1>2

(***************************************************************************)
(* What a section becomes when only its heading and its code become        *)
(* anything.                                                               *)
(***************************************************************************)
LEMMA SectionEach ==
  ASSUME NEW e, Says(e), NEW options, NEW T, SectionParts(e, options) \subseteq T,
         NEW U, NEW g, Makes(g, T, U),
         g[OutputOf(e, options)] = <<>>, g[ErrorOf(e, options)] = <<>>,
         options.embed_plots => \A p \in DOMAIN e.plots : g[PlotOf(e, p)] = <<>>
  PROVE  /\ format_event(e, options) \in Seq(T) /\ CodesOf(e, options) \in Seq(T)
         /\ Each(g, format_event(e, options))
              = g[HeadingOf(e, options)] \o Each(g, CodesOf(e, options))
<1> DEFINE h == HeadingOf(e, options)
           a == <<h>>
           b == CodesOf(e, options)
           c == PartIf(options.include_outputs /\ e.output > 0, OutputOf(e, options))
           d == PartIf(options.include_errors /\ e.error # NoValue, ErrorOf(e, options))
           all == [p \in DOMAIN e.plots |-> PlotOf(e, p)]
           f == IF options.embed_plots THEN all ELSE <<>>
<1>1. format_event(e, options) = a \o b \o c \o d \o f
  BY DEF format_event, HeadingOf, CodesOf, CodeOfBlock, OutputOf, ErrorOf, PlotOf
<1>2. a \in Seq(T) /\ Each(g, a) = g[h] /\ g[h] \in Seq(U)
  <2>1. h \in T
    BY DEF SectionParts
  <2> QED
    BY <2>1, EachOne DEF Makes
<1>3. b \in Seq(T)
  <2>1. DOMAIN e.blocks = 1..Len(e.blocks) /\ Len(e.blocks) \in Nat
    BY DEF Says
  <2>2. \A i \in 1..Len(e.blocks) : CodeOfBlock(e, i, options) \in T
    BY <2>1 DEF SectionParts
  <2> QED
    BY <2>1, <2>2, IsASeq DEF CodesOf
<1>4. c \in Seq(T) /\ Each(g, c) = <<>> /\ d \in Seq(T) /\ Each(g, d) = <<>>
  <2>1. OutputOf(e, options) \in T /\ ErrorOf(e, options) \in T
    BY DEF SectionParts
  <2> QED
    BY <2>1, PartIfIs
<1>5. f \in Seq(T) /\ Each(g, f) = <<>>
  <2>1. DOMAIN e.plots = 1..Len(e.plots) /\ Len(e.plots) \in Nat
    BY DEF Says
  <2>2. CASE options.embed_plots
    <3>1. \A p \in 1..Len(e.plots) : PlotOf(e, p) \in T
      BY <2>1, <2>2 DEF SectionParts
    <3>2. all \in Seq(T)
      BY <2>1, <3>1, IsASeq
    <3>3. \A p \in 1..Len(all) : g[all[p]] = <<>>
      BY <2>1, <2>2
    <3> HIDE DEF all
    <3>4. Each(g, all) = <<>>
      BY <3>2, <3>3, EachNothing
    <3> QED
      BY <2>2, <3>2, <3>4
  <2>3. CASE ~options.embed_plots
    <3>1. <<>> \in Seq(T) /\ Each(g, <<>>) = <<>>
      BY FlattenEmpty, EmptySeq DEF Each
    <3> QED
      BY <2>3, <3>1
  <2> QED
    BY <2>2, <2>3
<1>6. Each(g, b) \in Seq(U)
  BY <1>3, EachConcat
<1> HIDE DEF a, b, c, d, f
<1>7. Makes(g, T, U)
  OBVIOUS
<1>8. PICK w : w = g[h] \o Each(g, b) /\ w \in Seq(U)
  BY <1>2, <1>6, ConcatProperties
<1>9. /\ Yields(g, T, a, g[h]) /\ Yields(g, T, b, Each(g, b))
      /\ Yields(g, T, c, <<>>) /\ Yields(g, T, d, <<>>) /\ Yields(g, T, f, <<>>)
  BY <1>2, <1>3, <1>4, <1>5 DEF Yields
<1>10. Yields(g, T, a \o b, w)
  BY ONLY <1>7, <1>8, <1>9, YieldsTwo
<1>11. Yields(g, T, a \o b \o c, w)
  BY ONLY <1>7, <1>8, <1>9, <1>10, YieldsNext
<1>12. Yields(g, T, a \o b \o c \o d, w)
  BY ONLY <1>7, <1>8, <1>9, <1>11, YieldsNext
<1>13. Yields(g, T, a \o b \o c \o d \o f, w)
  BY ONLY <1>7, <1>8, <1>9, <1>12, YieldsNext
<1> QED
  BY ONLY <1>1, <1>3, <1>8, <1>13 DEF Yields, b, h

\* The parts of a timeline's document.
YamlOf(options) == [kind |-> "yaml", code_folding |-> options.code_folding]
SessionOf(events) == [kind |-> "session", duration |-> from_events(events).metadata.duration]
SummaryOf(events) == generate_summary(from_events(events).metadata)
TimelineParts(events, options) ==
  {YamlOf(options), SessionOf(events), SummaryOf(events)}
  \cup UNION {SectionParts(events[i], options) : i \in DOMAIN events}

\* The sections of a document.
SectionsOf(events, options) == [i \in DOMAIN events |-> format_event(events[i], options)]

\* g makes nothing of the parts that are neither headings nor code.
Passes(g, events, options) ==
  /\ g[YamlOf(options)] = <<>> /\ g[SessionOf(events)] = <<>> /\ g[SummaryOf(events)] = <<>>
  /\ \A i \in DOMAIN events :
       /\ g[OutputOf(events[i], options)] = <<>> /\ g[ErrorOf(events[i], options)] = <<>>
       /\ options.embed_plots => \A p \in DOMAIN events[i].plots : g[PlotOf(events[i], p)] = <<>>

\* Events that say what records do.
Listed(events) ==
  /\ Len(events) \in Nat /\ DOMAIN events = 1..Len(events)
  /\ \A i \in DOMAIN events : Says(events[i])

\* ms is what g makes of the headings and the code of events.
Become(ms, g, events, options, U) ==
  /\ ms \in Seq(Seq(U)) /\ Len(ms) = Len(events)
  /\ \A i \in 1..Len(events) : ms[i] = g[HeadingOf(events[i], options)]
                                      \o Each(g, CodesOf(events[i], options))

(***************************************************************************)
(* What a document becomes: what its sections become.                      *)
(***************************************************************************)
LEMMA DocumentEach ==
  ASSUME NEW events, Listed(events), NEW options, NEW T, T = TimelineParts(events, options),
         NEW U, NEW g, Makes(g, T, U), Passes(g, events, options),
         NEW ms, Become(ms, g, events, options, U)
  PROVE  Yields(g, T, from_timeline(from_events(events), options), FlattenSeq(ms))
<1>0. /\ Len(events) \in Nat /\ DOMAIN events = 1..Len(events)
      /\ \A i \in DOMAIN events : Says(events[i])
      /\ ms \in Seq(Seq(U)) /\ Len(ms) = Len(events)
      /\ \A i \in 1..Len(events) : ms[i] = g[HeadingOf(events[i], options)]
                                          \o Each(g, CodesOf(events[i], options))
  BY DEF Listed, Become
<1> DEFINE y == YamlOf(options)
           s == SessionOf(events)
           m == SummaryOf(events)
           ss == SectionsOf(events, options)
           body == FlattenSeq(ss)
           last == PartIf(options.include_summary, m)
<1>1. from_timeline(from_events(events), options) = <<y>> \o <<s>> \o body \o last
  BY DEF from_timeline, yaml_header, YamlOf, SessionOf, SummaryOf, SectionsOf, from_events
<1>2. y \in T /\ s \in T /\ m \in T
  BY DEF TimelineParts
<1>3. \A i \in 1..Len(events) : /\ ss[i] \in Seq(T)
                                /\ Each(g, ss[i]) = ms[i]
  <2> TAKE i \in 1..Len(events)
  <2>1. SectionParts(events[i], options) \subseteq T /\ Says(events[i])
    BY <1>0 DEF TimelineParts
  <2>2. ss[i] = format_event(events[i], options)
    BY <1>0 DEF SectionsOf
  <2>3. PICK e : e = events[i]
    OBVIOUS
  <2>4. /\ g[OutputOf(e, options)] = <<>> /\ g[ErrorOf(e, options)] = <<>>
        /\ options.embed_plots => \A p \in DOMAIN e.plots : g[PlotOf(e, p)] = <<>>
    BY <1>0, <2>3 DEF Passes
  <2>5. /\ format_event(e, options) \in Seq(T)
        /\ Each(g, format_event(e, options))
              = g[HeadingOf(e, options)] \o Each(g, CodesOf(e, options))
    <3>1. Says(e) /\ SectionParts(e, options) \subseteq T /\ Makes(g, T, U)
      BY <2>1, <2>3
    <3> QED
      BY ONLY <2>4, <3>1, SectionEach
  <2> QED
    BY <1>0, <2>2, <2>3, <2>5
<1>4. ss \in Seq(Seq(T)) /\ Len(ss) = Len(events)
  <2>1. DOMAIN ss = 1..Len(events) /\ ss = [i \in 1..Len(events) |-> ss[i]]
    BY <1>0 DEF SectionsOf
  <2>2. [i \in 1..Len(events) |-> ss[i]] \in Seq(Seq(T))
    <3> HIDE DEF ss
    <3> QED
      BY <1>0, <1>3, IsASeq
  <2> HIDE DEF ss
  <2> QED
    BY <1>0, <2>1, <2>2, LenProperties
<1> HIDE DEF ss
<1>5. body \in Seq(T) /\ Each(g, body) = FlattenSeq(ms)
  <2>1. body \in Seq(T)
    BY <1>4, FlattenAppend, EmptySeq
  <2>2. Each(g, FlattenSeq(ss)) = FlattenSeq(ms)
    BY <1>0, <1>3, <1>4, EachFlatten
  <2> QED
    BY <2>1, <2>2
<1>6. last \in Seq(T) /\ Each(g, last) = <<>>
  BY <1>2, PartIfIs DEF Passes
<1>7. <<y>> \in Seq(T) /\ <<s>> \in Seq(T) /\ Each(g, <<y>>) = <<>> /\ Each(g, <<s>>) = <<>>
  BY <1>2, EachOne DEF Passes
<1>8. FlattenSeq(ms) \in Seq(U)
  BY <1>0, FlattenAppend, EmptySeq
<1> HIDE DEF y, s, body, last
<1>9. Makes(g, T, U)
  OBVIOUS
<1>10. PICK w : w = FlattenSeq(ms) /\ w \in Seq(U) /\ <<>> \in Seq(U) /\ <<>> \o w = w
  BY <1>8, ConcatEmptySeq, EmptySeq
<1>11. /\ Yields(g, T, <<y>>, <<>>) /\ Yields(g, T, <<s>>, <<>>)
       /\ Yields(g, T, body, w) /\ Yields(g, T, last, <<>>)
  BY <1>5, <1>6, <1>7, <1>10 DEF Yields
<1>12. Yields(g, T, <<y>> \o <<s>>, <<>>)
  BY ONLY <1>9, <1>10, <1>11, YieldsNext
<1>13. Yields(g, T, <<y>> \o <<s>> \o body, w)
  BY ONLY <1>9, <1>10, <1>11, <1>12, YieldsTwo
<1>14. Yields(g, T, <<y>> \o <<s>> \o body \o last, w)
  BY ONLY <1>9, <1>10, <1>11, <1>13, YieldsNext
<1> QED
  BY ONLY <1>1, <1>10, <1>14

\* The fields of a part that are looked at and set.
Shaped(x) ==
  /\ "kind" \in DOMAIN x
  /\ "echo" \in DOMAIN x <=> x.kind \in {"code", "chunk"}
  /\ x.kind = "code" => {"event", "block", "eval"} \subseteq DOMAIN x
  /\ x.kind = "chunk" => {"lines", "eval"} \subseteq DOMAIN x
  /\ x.kind = "plot" => {"file", "prefixes"} \subseteq DOMAIN x

\* A chunk that is not run again, and shown as the request says.
Unrun(x, shows) ==
  x.kind \in {"code", "chunk"} => ~x.eval /\ x.echo = IF shows THEN NoValue ELSE FALSE

\* What options say of a chunk and of a trimmed text.
Asks(options, shows) ==
  /\ options.head_lines \in Nat /\ options.tail_lines \in Nat /\ options.max_lines \in Nat
  /\ options.show_code <=> shows

\* x is the chunk of a block.
IsCode(x, e, b, options) ==
  /\ DOMAIN x = {"kind", "event", "block", "echo", "eval"}
  /\ x.kind = "code" /\ x.event = e.id /\ x.block = b /\ ~x.eval
  /\ x.echo = IF options.show_code THEN NoValue ELSE FALSE

(***************************************************************************)
(* The header of a chunk.                                                  *)
(***************************************************************************)
LEMMA CodeIs ==
  ASSUME NEW e, NEW b, NEW options
  PROVE  IsCode(CodeOfBlock(e, b, options), e, b, options)
BY DEF CodeOfBlock, chunk_header, With, IsCode

(***************************************************************************)
(* What is shown of a text and what is skipped is all of it.               *)
(***************************************************************************)
LEMMA TrimmedIsAll ==
  ASSUME NEW total \in Nat, NEW options, NEW shows, Asks(options, shows)
  PROVE  LET text == trim_output(total, options)
         IN  text.head + text.skipped + text.tail = total
<1> DEFINE head == AtMost(options.head_lines, total)
           tail == AtMost(options.tail_lines, total - head)
<1>1. head \in 0..total
  BY AtMostIs DEF Asks
<1> HIDE DEF head
<1>2. total - head \in Nat
  BY <1>1
<1>3. tail \in 0..(total - head)
  BY <1>2, AtMostIs DEF Asks
<1> HIDE DEF tail
<1>4. trim_output(total, options)
        = IF total <= options.max_lines \/ head + tail >= total
          THEN [head |-> total, skipped |-> 0, tail |-> 0]
          ELSE [head |-> head, skipped |-> total - (head + tail), tail |-> tail]
  BY DEF trim_output, head, tail
<1> QED
  BY <1>1, <1>3, <1>4

\* A part that is what it should be.
Fine(x, events, shows) ==
  /\ Shaped(x) /\ Unrun(x, shows)
  /\ x.kind \in {"heading", "code"} => x.event \in Nat
  /\ x.kind = "code" => x.block \in Nat
  /\ x.kind = "output" =>
       \E i \in DOMAIN events :
          x.event = events[i].id /\ x.text.head + x.text.skipped + x.text.tail = events[i].output
  /\ x.kind = "summary" => x.statistics = SummaryOf(events).statistics
  /\ x.kind = "plot" =>
       \E i \in DOMAIN events : \E p \in DOMAIN events[i].plots : x.file = events[i].plots[p].file

(***************************************************************************)
(* The parts of a section are.                                             *)
(***************************************************************************)
LEMMA SectionFine ==
  ASSUME NEW events, NEW i \in DOMAIN events, Says(events[i]), NEW options, NEW shows,
         Asks(options, shows), NEW x \in SectionParts(events[i], options)
  PROVE  Fine(x, events, shows)
<1> DEFINE e == events[i]
<1>1. e.id \in Nat /\ e.output \in Nat /\ DOMAIN e.blocks \subseteq Nat
  BY DEF Says
<1>2. CASE x = HeadingOf(e, options)
  BY <1>1, <1>2 DEF Fine, Shaped, Unrun, HeadingOf
<1>3. CASE x = OutputOf(e, options)
  <2>1. x.event = e.id /\ x.text = trim_output(e.output, options) /\ x.kind = "output"
        /\ DOMAIN x = {"kind", "event", "text"}
    BY <1>3 DEF OutputOf
  <2>2. PICK n \in Nat : n = e.output
    BY <1>1
  <2>3. x.text.head + x.text.skipped + x.text.tail = n
    BY <2>1, <2>2, TrimmedIsAll
  <2> QED
    BY <2>1, <2>2, <2>3 DEF Fine, Shaped, Unrun
<1>4. CASE x = ErrorOf(e, options)
  <2>1. x.kind = "error" /\ DOMAIN x = {"kind", "event", "text"}
    BY <1>4 DEF ErrorOf
  <2> QED
    BY <2>1 DEF Fine, Shaped, Unrun
<1>5. CASE \E b \in DOMAIN e.blocks : x = CodeOfBlock(e, b, options)
  <2>1. PICK b \in DOMAIN e.blocks : x = CodeOfBlock(e, b, options)
    BY <1>5
  <2>2. IsCode(x, e, b, options)
    BY <2>1, CodeIs
  <2>3. /\ DOMAIN x = {"kind", "event", "block", "echo", "eval"}
        /\ x.kind = "code" /\ x.event = e.id /\ x.block = b /\ ~x.eval
        /\ x.echo = IF options.show_code THEN NoValue ELSE FALSE
    BY <2>2 DEF IsCode
  <2> QED
    BY <1>1, <2>3 DEF Fine, Shaped, Unrun, Asks
<1>6. CASE \E p \in {q \in DOMAIN e.plots : options.embed_plots} : x = PlotOf(e, p)
  <2>1. PICK p \in DOMAIN e.plots : x = PlotOf(e, p)
    BY <1>6
  <2>2. /\ DOMAIN x = {"kind", "event", "file", "prefixes"}
        /\ x.kind = "plot" /\ x.file = e.plots[p].file
    BY <2>1 DEF PlotOf
  <2> QED
    BY <2>2 DEF Fine, Shaped, Unrun
<1> QED
  BY <1>2, <1>3, <1>4, <1>5, <1>6 DEF SectionParts

(***************************************************************************)
(* The parts of a document are.                                            *)
(***************************************************************************)
LEMMA TimelineFine ==
  ASSUME NEW events, \A i \in DOMAIN events : Says(events[i]), NEW options, NEW shows,
         Asks(options, shows), NEW x \in TimelineParts(events, options)
  PROVE  Fine(x, events, shows)
<1>1. CASE x = YamlOf(options)
  <2>1. x.kind = "yaml" /\ DOMAIN x = {"kind", "code_folding"}
    BY <1>1 DEF YamlOf
  <2> QED
    BY <2>1 DEF Fine, Shaped, Unrun
<1>2. CASE x = SessionOf(events)
  <2>1. x.kind = "session" /\ DOMAIN x = {"kind", "duration"}
    BY <1>2 DEF SessionOf
  <2> QED
    BY <2>1 DEF Fine, Shaped, Unrun
<1>3. CASE x = SummaryOf(events)
  <2>1. x.kind = "summary" /\ DOMAIN x = {"kind", "statistics", "duration"}
    BY <1>3 DEF SummaryOf, generate_summary
  <2> QED
    BY <1>3, <2>1 DEF Fine, Shaped, Unrun
<1>4. CASE \E i \in DOMAIN events : x \in SectionParts(events[i], options)
  BY <1>4, SectionFine
<1> QED
  BY <1>1, <1>2, <1>3, <1>4 DEF TimelineParts

(***************************************************************************)
(* A document has no plots unless they were asked for.                     *)
(***************************************************************************)
LEMMA NoPlots ==
  ASSUME NEW events, NEW options, ~options.embed_plots,
         NEW x \in TimelineParts(events, options)
  PROVE  x.kind # "plot"
<1>1. \A e, b : CodeOfBlock(e, b, options).kind = "code"
  <2> TAKE e, b
  <2>1. IsCode(CodeOfBlock(e, b, options), e, b, options)
    BY CodeIs
  <2> QED
    BY <2>1 DEF IsCode
<1> QED
  BY <1>1 DEF TimelineParts, SectionParts, YamlOf, SessionOf, SummaryOf, generate_summary,
              HeadingOf, OutputOf, ErrorOf

\* What becomes of a part among the headings, and among the blocks.
HeadingFor(T) == [x \in T |-> PartIf(x.kind = "heading", x.event)]
BlockFor(T) == [x \in T |-> PartIf(x.kind = "code", <<x.event, x.block>>)]

(***************************************************************************)
(* The document of events has the headings and the blocks of each, in      *)
(* order.                                                                  *)
(***************************************************************************)
LEMMA DocumentTells ==
  ASSUME NEW events, Listed(events), NEW options, NEW shows, Asks(options, shows)
  PROVE  LET parts == from_timeline(from_events(events), options)
         IN  /\ parts \in Seq(TimelineParts(events, options))
             /\ HeadingsIn(parts) = [i \in DOMAIN events |-> events[i].id]
             /\ BlocksIn(parts) = FlattenSeq([i \in DOMAIN events |->
                                    [b \in DOMAIN events[i].blocks |-> <<events[i].id, b>>]])
<1> DEFINE T == TimelineParts(events, options)
           parts == from_timeline(from_events(events), options)
           hg == HeadingFor(T)
           cg == BlockFor(T)
           ids == [i \in DOMAIN events |-> events[i].id]
           hs == [i \in DOMAIN events |-> <<events[i].id>>]
           cs == [i \in DOMAIN events |-> [b \in DOMAIN events[i].blocks |-> <<events[i].id, b>>]]
           Pairs == Nat \X Nat
<1>0. /\ Len(events) \in Nat /\ DOMAIN events = 1..Len(events)
      /\ \A i \in DOMAIN events : Says(events[i])
  BY DEF Listed
<1>1. \A x \in T : Fine(x, events, shows)
  BY <1>0, TimelineFine
<1>2. /\ \A x \in T : hg[x] = PartIf(x.kind = "heading", x.event)
      /\ \A x \in T : cg[x] = PartIf(x.kind = "code", <<x.event, x.block>>)
  BY DEF HeadingFor, BlockFor
<1>3. Makes(hg, T, Nat)
  <2>1. \A x \in T : PartIf(x.kind = "heading", x.event) \in Seq(Nat)
    BY <1>1, EmptySeq DEF Fine, PartIf
  <2> QED
    BY <2>1 DEF Makes, HeadingFor
<1>4. Makes(cg, T, Pairs)
  <2>1. \A x \in T : PartIf(x.kind = "code", <<x.event, x.block>>) \in Seq(Pairs)
    <3> TAKE x \in T
    <3>1. CASE x.kind = "code"
      <4>1. PICK y \in Pairs : y = <<x.event, x.block>>
        BY <1>1, <3>1 DEF Fine
      <4> QED
        BY <3>1, <4>1 DEF PartIf
    <3>2. CASE x.kind # "code"
      BY <3>2, EmptySeq DEF PartIf
    <3> QED
      BY <3>1, <3>2
  <2> QED
    BY <2>1 DEF Makes, BlockFor
<1>5. /\ YamlOf(options) \in T /\ SessionOf(events) \in T /\ SummaryOf(events) \in T
      /\ \A i \in DOMAIN events :
           /\ HeadingOf(events[i], options) \in T
           /\ OutputOf(events[i], options) \in T /\ ErrorOf(events[i], options) \in T
           /\ \A b \in DOMAIN events[i].blocks : CodeOfBlock(events[i], b, options) \in T
           /\ options.embed_plots =>
                \A p \in DOMAIN events[i].plots : PlotOf(events[i], p) \in T
  BY <1>0 DEF TimelineParts, SectionParts
<1>6. /\ YamlOf(options).kind = "yaml" /\ SessionOf(events).kind = "session"
      /\ SummaryOf(events).kind = "summary"
      /\ \A e : /\ HeadingOf(e, options).kind = "heading" /\ HeadingOf(e, options).event = e.id
                /\ OutputOf(e, options).kind = "output" /\ ErrorOf(e, options).kind = "error"
                /\ \A p : PlotOf(e, p).kind = "plot"
  BY DEF YamlOf, SessionOf, SummaryOf, generate_summary, HeadingOf, OutputOf, ErrorOf, PlotOf
<1> HIDE DEF T, hg, cg, parts
<1>7. Passes(hg, events, options) /\ Passes(cg, events, options)
  BY <1>2, <1>5, <1>6 DEF Passes, PartIf
<1>8. ASSUME NEW i \in 1..Len(events)
      PROVE  /\ hs[i] = hg[HeadingOf(events[i], options)] \o Each(hg, CodesOf(events[i], options))
             /\ cs[i] = cg[HeadingOf(events[i], options)] \o Each(cg, CodesOf(events[i], options))
             /\ hs[i] \in Seq(Nat) /\ cs[i] \in Seq(Pairs)
  <2> DEFINE e == events[i]
             codes == CodesOf(e, options)
             n == Len(e.blocks)
  <2>1. e.id \in Nat /\ n \in Nat /\ DOMAIN e.blocks = 1..n
    BY <1>0 DEF Says
  <2>2. \A b \in 1..n : /\ CodeOfBlock(e, b, options) \in T
                        /\ CodeOfBlock(e, b, options).kind = "code"
                        /\ CodeOfBlock(e, b, options).event = e.id
                        /\ CodeOfBlock(e, b, options).block = b
    <3> TAKE b \in 1..n
    <3>1. IsCode(CodeOfBlock(e, b, options), e, b, options)
      BY CodeIs
    <3> QED
      BY <1>5, <2>1, <3>1 DEF IsCode
  <2>3. codes \in Seq(T) /\ Len(codes) = n /\ \A b \in 1..n : codes[b] = CodeOfBlock(e, b, options)
    <3>1. codes = [b \in 1..n |-> CodeOfBlock(e, b, options)]
      BY <2>1 DEF CodesOf
    <3>2. codes \in Seq(T)
      BY <2>1, <2>2, <3>1, IsASeq
    <3> QED
      BY <2>1, <3>1, <3>2, LenProperties
  <2>4. hg[HeadingOf(e, options)] = <<e.id>> /\ cg[HeadingOf(e, options)] = <<>>
    <3>1. PICK x \in T : x = HeadingOf(e, options) /\ x.kind = "heading" /\ x.event = e.id
      BY <1>0, <1>5, <1>6
    <3> QED
      BY <1>2, <3>1 DEF PartIf
  <2>5. hs[i] = <<e.id>> /\ cs[i] = [b \in 1..n |-> <<e.id, b>>]
    BY <1>0, <2>1
  <2> HIDE DEF codes, e, n, hs, cs
  <2>6. Each(hg, codes) = <<>>
    <3>1. \A b \in 1..Len(codes) : hg[codes[b]] = <<>>
      BY <1>2, <2>2, <2>3 DEF PartIf
    <3> QED
      BY <2>3, <3>1, EachNothing
  <2>7. cs[i] \in Seq(Pairs) /\ Len(cs[i]) = n
    <3>1. \A b \in 1..n : <<e.id, b>> \in Pairs
      BY <2>1
    <3>2. [b \in 1..n |-> <<e.id, b>>] \in Seq(Pairs)
      BY <2>1, <3>1, IsASeq
    <3> QED
      BY <2>1, <2>5, <3>2, LenProperties
  <2>8. Each(cg, codes) = cs[i]
    <3>1. PICK c : c = cs[i]
      OBVIOUS
    <3>2. c \in Seq(Pairs) /\ Len(c) = Len(codes) /\ \A b \in 1..n : c[b] = <<e.id, b>>
      BY <2>3, <2>5, <2>7, <3>1
    <3>3. ASSUME NEW b \in 1..n PROVE cg[codes[b]] = <<c[b]>>
      <4>1. PICK x \in T : x = codes[b] /\ x.kind = "code" /\ x.event = e.id /\ x.block = b
        BY <2>2, <2>3
      <4>2. cg[x] = <<<<x.event, x.block>>>>
        BY <1>2, <4>1 DEF PartIf
      <4> QED
        BY <3>2, <4>1, <4>2
    <3>4. \A b \in 1..Len(codes) : cg[codes[b]] = <<c[b]>>
      BY <2>3, <3>3
    <3>5. Each(cg, codes) = c
      <4>1. PICK s \in Seq(T), h \in Seq(Pairs) : s = codes /\ h = c
        BY <2>3, <3>2
      <4>2. Singles(cg, s, h)
        BY <3>2, <3>4, <4>1 DEF Singles
      <4>3. Each(cg, s) = h
        BY ONLY <4>2, EachSingle, s \in Seq(T), h \in Seq(Pairs)
      <4> QED
        BY <4>1, <4>3
    <3> QED
      BY <3>1, <3>5
  <2>9. hs[i] \in Seq(Nat) /\ <<e.id>> \o <<>> = <<e.id>> /\ <<>> \o cs[i] = cs[i]
    BY <2>1, <2>5, <2>7, ConcatEmptySeq
  <2>10. /\ hs[i] = hg[HeadingOf(e, options)] \o Each(hg, codes)
         /\ cs[i] = cg[HeadingOf(e, options)] \o Each(cg, codes)
    BY ONLY <2>4, <2>5, <2>6, <2>8, <2>9
  <2> QED
    BY <2>7, <2>9, <2>10 DEF codes, e
<1>9. /\ hs \in Seq(Seq(Nat)) /\ Len(hs) = Len(events)
      /\ cs \in Seq(Seq(Pairs)) /\ Len(cs) = Len(events)
  <2>1. hs = [i \in 1..Len(events) |-> hs[i]] /\ cs = [i \in 1..Len(events) |-> cs[i]]
    BY <1>0
  <2> HIDE DEF hs, cs
  <2>2. [i \in 1..Len(events) |-> hs[i]] \in Seq(Seq(Nat))
    BY <1>0, <1>8, IsASeq
  <2>3. [i \in 1..Len(events) |-> cs[i]] \in Seq(Seq(Pairs))
    BY <1>0, <1>8, IsASeq
  <2>4. DOMAIN hs = 1..Len(events) /\ DOMAIN cs = 1..Len(events)
    BY <2>1
  <2> QED
    BY <2>1, <2>2, <2>3, <2>4, LenProperties
<1>10. ids \in Seq(Nat) /\ Len(ids) = Len(events) /\ \A i \in 1..Len(hs) : hs[i] = <<ids[i]>>
  <2>1. \A i \in 1..Len(events) : events[i].id \in Nat
    BY <1>0 DEF Says
  <2>2. [i \in 1..Len(events) |-> events[i].id] \in Seq(Nat)
    BY <1>0, <2>1, IsASeq
  <2>3. ids \in Seq(Nat) /\ DOMAIN ids = 1..Len(events)
    BY <1>0, <2>2
  <2> QED
    BY <1>0, <1>9, <2>3, LenProperties
<1> HIDE DEF hs, ids, cs
<1>15. T = TimelineParts(events, options) /\ parts = from_timeline(from_events(events), options)
  BY DEF T, parts
<1>16. Become(hs, hg, events, options, Nat) /\ Become(cs, cg, events, options, Pairs)
  BY <1>8, <1>9 DEF Become
<1>11. parts \in Seq(T) /\ Each(hg, parts) = FlattenSeq(hs)
  <2>1. Yields(hg, T, parts, FlattenSeq(hs))
    BY ONLY <1>3, <1>7, <1>15, <1>16, DocumentEach, Listed(events)
  <2> QED
    BY <2>1 DEF Yields
<1>12. Each(cg, parts) = FlattenSeq(cs)
  <2>1. Yields(cg, T, parts, FlattenSeq(cs))
    BY ONLY <1>4, <1>7, <1>15, <1>16, DocumentEach, Listed(events)
  <2> QED
    BY <2>1 DEF Yields
<1>13. FlattenSeq(hs) = ids
  BY <1>9, <1>10, FlattenSingles
<1>14. HeadingsIn(parts) = Each(hg, parts) /\ BlocksIn(parts) = Each(cg, parts)
  <2>1. \A i \in DOMAIN parts : parts[i] \in T
    BY <1>11
  <2> QED
    BY <1>2, <2>1 DEF HeadingsIn, BlocksIn, Each
<1> QED
  BY ONLY <1>11, <1>12, <1>13, <1>14 DEF T, parts, ids, cs

\* What a summary says against what the timeline counts.
Agree(told, known) ==
  /\ <<told.executions, told.user, told.ai, told.errors>>
        = <<known.events, known.user, known.ai, known.errors>>
  /\ told.user + told.ai = told.executions /\ known.plots <= told.plots

(***************************************************************************)
(* Each event that has plots has at least one.                             *)
(***************************************************************************)
LEMMA PlotsAreMore ==
  ASSUME NEW events, Listed(events)
  PROVE  /\ Len(PlotsOf(events)) \in Nat
         /\ Cardinality({i \in DOMAIN events : events[i].has_plots}) <= Len(PlotsOf(events))
<1> DEFINE pl == [i \in DOMAIN events |-> events[i].plots]
           N == Len(events)
           Drawn(n) == {i \in 1..n : events[i].has_plots}
           x(n) == Len(FlattenSeq(SubSeq(pl, 1, n)))
           Good(n) == IsFiniteSet(Drawn(n)) /\ Cardinality(Drawn(n)) <= x(n)
           G == {n \in 0..N : Good(n)}
<1>1. /\ N \in Nat /\ DOMAIN events = 1..N
      /\ \A i \in 1..N : /\ events[i].plots \in Seq(Pictures)
                         /\ events[i].has_plots <=> events[i].plots # <<>>
  BY DEF Listed, Says
<1>2. pl \in Seq(Seq(Pictures)) /\ Len(pl) = N /\ \A i \in 1..N : pl[i] = events[i].plots
  <2>1. [i \in 1..N |-> events[i].plots] \in Seq(Seq(Pictures))
    BY <1>1, IsASeq
  <2>2. pl = [i \in 1..N |-> events[i].plots]
    BY <1>1
  <2> QED
    BY <1>1, <2>1, <2>2, LenProperties
<1> HIDE DEF pl, N
<1>3. /\ \A n \in 0..N : FlattenSeq(SubSeq(pl, 1, n)) \in Seq(Pictures)
      /\ FlattenSeq(SubSeq(pl, 1, 0)) = <<>> /\ FlattenSeq(SubSeq(pl, 1, N)) = FlattenSeq(pl)
      /\ \A n \in 1..N :
            FlattenSeq(SubSeq(pl, 1, n)) = FlattenSeq(SubSeq(pl, 1, n - 1)) \o pl[n]
  BY <1>2, FlattenUpto
<1>4. /\ \A n \in 0..N : x(n) \in Nat
      /\ x(0) = 0 /\ x(N) = Len(FlattenSeq(pl))
  BY <1>3, LenProperties
<1>5. \A n \in 1..N : x(n) = x(n - 1) + Len(pl[n]) /\ Len(pl[n]) \in Nat
  <2> TAKE n \in 1..N
  <2>1. n - 1 \in 0..N
    BY <1>1
  <2>2. PICK s \in Seq(Pictures), t \in Seq(Pictures) :
            s = FlattenSeq(SubSeq(pl, 1, n - 1)) /\ t = pl[n]
    BY <1>1, <1>2, <1>3, <2>1
  <2>3. Len(s \o t) = Len(s) + Len(t) /\ Len(t) \in Nat
    BY ConcatProperties, LenProperties
  <2>4. FlattenSeq(SubSeq(pl, 1, n)) = s \o t
    BY <1>3, <2>2
  <2> QED
    BY <2>2, <2>3, <2>4
<1> HIDE DEF x
<1>6. Good(0)
  <2>1. Drawn(0) = {}
    OBVIOUS
  <2> QED
    BY <1>4, <2>1, FS_EmptySet
<1>7. ASSUME NEW n \in 1..N, Good(n - 1) PROVE Good(n)
  <2>1. n - 1 \in 0..N /\ x(n - 1) \in Nat /\ x(n) = x(n - 1) + Len(pl[n]) /\ Len(pl[n]) \in Nat
    BY <1>1, <1>4, <1>5
  <2>2. PICK a : a = Drawn(n - 1) /\ IsFiniteSet(a) /\ Cardinality(a) <= x(n - 1)
    BY <1>7
  <2>3. Cardinality(a) \in Nat
    BY <2>2, FS_CardinalityType
  <2>4. PICK b : b = Drawn(n)
    OBVIOUS
  <2>5. \A i \in 1..n : i = n \/ i \in 1..(n - 1)
    BY <1>1
  <2>6. IsFiniteSet(b) /\ Cardinality(b) <= x(n)
    <3>1. CASE ~events[n].has_plots
      <4>1. b = a
        BY <1>1, <2>2, <2>4, <2>5, <3>1
      <4> QED
        BY ONLY <2>1, <2>2, <2>3, <4>1
    <3>2. CASE events[n].has_plots
      <4>1. b = a \cup {n} /\ n \notin a
        BY <1>1, <2>2, <2>4, <2>5, <3>2
      <4>2. IsFiniteSet(b) /\ Cardinality(b) = Cardinality(a) + 1
        BY ONLY <2>2, <4>1, FS_AddElement
      <4>3. pl[n] # <<>> /\ pl[n] \in Seq(Pictures)
        BY <1>1, <1>2, <3>2
      <4>4. Len(pl[n]) # 0
        BY <4>3
      <4> QED
        BY ONLY <2>1, <2>2, <2>3, <4>2, <4>4
    <3> QED
      BY <3>1, <3>2
  <2> QED
    BY <2>4, <2>6
<1> HIDE DEF Good
<1>8. 0 \in G /\ \A n \in 1..N : n - 1 \in G => n \in G
  BY <1>1, <1>6, <1>7
<1>9. N \in G
  <2> HIDE DEF G
  <2> QED
    BY <1>1, <1>8, Upwards
<1>10. Cardinality(Drawn(N)) <= Len(FlattenSeq(pl)) /\ Len(FlattenSeq(pl)) \in Nat
  BY <1>1, <1>4, <1>9 DEF Good
<1> QED
  BY <1>1, <1>10 DEF PlotsOf, pl

(***************************************************************************)
(* The statistics of a bundle agree with those of the timeline.            *)
(***************************************************************************)
LEMMA StatisticsAgree ==
  ASSUME NEW events, Listed(events)
  PROVE  Agree(SummaryOf(events).statistics, stats(events))
<1> DEFINE told == SummaryOf(events).statistics
           known == stats(events)
           N == Len(events)
           users == {i \in DOMAIN events : events[i].actor = "user"}
           ais == {i \in DOMAIN events : events[i].actor = "ai"}
           failed == {i \in DOMAIN events : events[i].error # NoValue}
           drawn == {i \in DOMAIN events : events[i].has_plots}
<1>1. /\ N \in Nat /\ DOMAIN events = 1..N
      /\ \A i \in 1..N : /\ events[i].actor \in Actors
                         /\ events[i].has_errors <=> events[i].error # NoValue
  BY DEF Listed, Says
<1>2. known.events = N /\ known.user = Cardinality(users) /\ known.ai = Cardinality(ais)
      /\ known.plots = Cardinality(drawn)
      /\ known.errors = Cardinality({i \in DOMAIN events : events[i].has_errors})
  BY DEF stats
<1>3. {i \in DOMAIN events : events[i].has_errors} = failed
  BY <1>1
<1>4. told = IF events = <<>> THEN [executions |-> 0, user |-> 0, ai |-> 0, plots |-> 0,
                                    errors |-> 0, documents |-> 0]
             ELSE calculate_statistics(events)
  BY DEF SummaryOf, generate_summary, from_events, NewMetadata
<1>5. Cardinality(users) + Cardinality(ais) = N
  <2>1. users \cup ais = 1..N /\ users \cap ais = {}
    BY <1>1 DEF Actors
  <2>2. IsFiniteSet(1..N) /\ Cardinality(1..N) = N
    BY <1>1, FS_Interval
  <2>3. IsFiniteSet(users) /\ IsFiniteSet(ais) /\ users \subseteq 1..N /\ ais \subseteq 1..N
    BY <1>1, <2>2, FS_Subset
  <2>4. /\ Cardinality(users \cup ais)
             = Cardinality(users) + Cardinality(ais) - Cardinality(users \cap ais)
        /\ Cardinality(users) \in Nat /\ Cardinality(ais) \in Nat
    BY <2>3, FS_Union, FS_CardinalityType
  <2> QED
    <3>1. Cardinality(users \cup ais) = N /\ Cardinality(users \cap ais) = 0
      BY <2>1, <2>2, FS_EmptySet
    <3>2. PICK u \in Nat, a \in Nat : u = Cardinality(users) /\ a = Cardinality(ais)
      BY <2>4
    <3>3. N = u + a - 0
      BY ONLY <2>4, <3>1, <3>2
    <3>4. N = u + a
      BY ONLY <3>3, u \in Nat, a \in Nat
    <3> QED
      BY ONLY <3>2, <3>4
<1>6. CASE events = <<>>
  <2>1. users = {} /\ ais = {} /\ failed = {} /\ drawn = {} /\ N = 0
    BY <1>6
  <2> HIDE DEF users, ais, failed, drawn, told, known
  <2>2. told.executions = 0 /\ told.user = 0 /\ told.ai = 0 /\ told.plots = 0 /\ told.errors = 0
    BY <1>4, <1>6
  <2>3. /\ known.events = 0 /\ known.user = 0 /\ known.ai = 0 /\ known.plots = 0
        /\ known.errors = 0
    BY <1>2, <1>3, <2>1, FS_EmptySet
  <2> QED
    BY <2>2, <2>3 DEF Agree, told, known
<1>7. CASE events # <<>>
  <2>1. /\ told.executions = N /\ told.user = Cardinality(users) /\ told.ai = Cardinality(ais)
        /\ told.plots = Len(PlotsOf(events)) /\ told.errors = Cardinality(failed)
    BY <1>4, <1>7 DEF calculate_statistics
  <2>2. Cardinality(drawn) <= Len(PlotsOf(events))
    BY PlotsAreMore
  <2> HIDE DEF users, ais, failed, drawn, told, known
  <2> QED
    BY <1>2, <1>3, <1>5, <2>1, <2>2 DEF Agree, told, known
<1> QED
  BY <1>6, <1>7

\* Whether the code of a document is shown.
ShowsCode(request) == request.pdf = NoValue \/ request.pdf.include_source

(***************************************************************************)
(* What the options of a request say.                                      *)
(***************************************************************************)
LEMMA OptionsSay ==
  ASSUME ExportAssumption, NEW request \in ExportRequests, into_options(request) # NoValue
  PROVE  /\ request.format \in {"rmarkdown", "pdf"}
         /\ Asks(into_options(request), ShowsCode(request))
<1> DEFINE trim == Given(request.truncation, DefaultTrimming)
           both == With(request.options, trim)
           more == [show_code |-> request.pdf = NoValue \/ request.pdf.include_source,
                    code_folding |-> Given(request.code_folding, "show")]
<1>1. /\ request.options \in [Options -> BOOLEAN]
      /\ request.truncation \in Trimmings \cup {NoValue} /\ DefaultTrimming \in Trimmings
  BY DEF ExportAssumption
<1>2. trim \in Trimmings
  BY <1>1 DEF Given
<1>3. WellFormed(request) /\ into_options(request) = With(both, more)
  BY DEF into_options
<1>4. /\ DOMAIN trim = {"head_lines", "tail_lines", "max_lines"}
      /\ trim.head_lines \in Nat /\ trim.tail_lines \in Nat /\ trim.max_lines \in Nat
  <2> HIDE DEF trim
  <2> QED
    BY <1>2 DEF Trimmings
<1>5. DOMAIN more = {"show_code", "code_folding"} /\ (more.show_code <=> ShowsCode(request))
  BY DEF ShowsCode
<1> HIDE DEF trim, more
<1>6. /\ DOMAIN both = Options \cup {"head_lines", "tail_lines", "max_lines"}
      /\ both.head_lines = trim.head_lines /\ both.tail_lines = trim.tail_lines
      /\ both.max_lines = trim.max_lines
  BY <1>1, <1>4 DEF With, Options
<1> HIDE DEF both
<1>7. /\ With(both, more).head_lines = both.head_lines
      /\ With(both, more).tail_lines = both.tail_lines
      /\ With(both, more).max_lines = both.max_lines
      /\ With(both, more).show_code = more.show_code
  BY <1>5, <1>6 DEF With, Options
<1> QED
  BY <1>3, <1>4, <1>5, <1>6, <1>7 DEF WellFormed, Asks

(***************************************************************************)
(* What a PDF's default says.                                              *)
(***************************************************************************)
LEMMA SourceIs ==
  ASSUME ExportAssumption, NEW request \in ExportRequests
  PROVE  /\ pdf_options(request).include_source \in BOOLEAN
         /\ pdf_options(request).include_source <=> ShowsCode(request)
<1>1. request.pdf \in [include_source : BOOLEAN, toc : BOOLEAN] \cup {NoValue}
  BY DEF ExportAssumption
<1>2. CASE request.pdf = NoValue
  <2>1. pdf_options(request) = [include_source |-> TRUE, toc |-> TRUE]
    BY <1>2 DEF pdf_options, Given
  <2> QED
    BY <1>2, <2>1 DEF ShowsCode
<1>3. CASE request.pdf # NoValue
  <2>1. pdf_options(request) = request.pdf
    BY <1>3 DEF pdf_options, Given
  <2> QED
    BY <1>1, <1>3, <2>1 DEF ShowsCode
<1> QED
  BY <1>2, <1>3

\* y is x but for how it is shown and linked.
Same(x, y) ==
  /\ DOMAIN y = DOMAIN x /\ y.kind = x.kind
  /\ x.kind \notin {"code", "chunk", "plot"} => y = x
  /\ x.kind = "code" => y.event = x.event /\ y.block = x.block /\ y.eval = x.eval
  /\ x.kind = "chunk" => y.lines = x.lines /\ y.eval = x.eval
  /\ x.kind = "plot" => y.file = x.file
Conveys(p, q) == DOMAIN q = DOMAIN p /\ \A i \in DOMAIN p : Same(p[i], q[i])

(***************************************************************************)
(* What a document tells, it tells however its chunks are shown and its    *)
(* plots are linked.                                                       *)
(***************************************************************************)
LEMMA ConveysAll ==
  ASSUME NEW p, NEW q, Conveys(p, q)
  PROVE  /\ HeadingsIn(q) = HeadingsIn(p) /\ BlocksIn(q) = BlocksIn(p)
         /\ ScriptLinesIn(q) = ScriptLinesIn(p)
<1>1. DOMAIN q = DOMAIN p /\ \A i \in DOMAIN p : Same(p[i], q[i])
  BY DEF Conveys
<1>2. ASSUME NEW i \in DOMAIN p
      PROVE  /\ PartIf(q[i].kind = "heading", q[i].event)
                  = PartIf(p[i].kind = "heading", p[i].event)
             /\ PartIf(q[i].kind = "code", <<q[i].event, q[i].block>>)
                  = PartIf(p[i].kind = "code", <<p[i].event, p[i].block>>)
             /\ (IF q[i].kind = "chunk" THEN q[i].lines ELSE <<>>)
                  = IF p[i].kind = "chunk" THEN p[i].lines ELSE <<>>
  <2>1. PICK x, y : x = p[i] /\ y = q[i] /\ Same(x, y)
    BY <1>1
  <2>2. PartIf(y.kind = "heading", y.event) = PartIf(x.kind = "heading", x.event)
    BY <2>1 DEF Same, PartIf
  <2>3. PartIf(y.kind = "code", <<y.event, y.block>>)
          = PartIf(x.kind = "code", <<x.event, x.block>>)
    BY <2>1 DEF Same, PartIf
  <2>4. (IF y.kind = "chunk" THEN y.lines ELSE <<>>) = IF x.kind = "chunk" THEN x.lines ELSE <<>>
    BY <2>1 DEF Same
  <2> QED
    BY <2>1, <2>2, <2>3, <2>4
<1>3. [i \in DOMAIN q |-> PartIf(q[i].kind = "heading", q[i].event)]
        = [i \in DOMAIN p |-> PartIf(p[i].kind = "heading", p[i].event)]
  BY <1>1, <1>2
<1>4. [i \in DOMAIN q |-> PartIf(q[i].kind = "code", <<q[i].event, q[i].block>>)]
        = [i \in DOMAIN p |-> PartIf(p[i].kind = "code", <<p[i].event, p[i].block>>)]
  BY <1>1, <1>2
<1>5. [i \in DOMAIN q |-> IF q[i].kind = "chunk" THEN q[i].lines ELSE <<>>]
        = [i \in DOMAIN p |-> IF p[i].kind = "chunk" THEN p[i].lines ELSE <<>>]
  BY <1>1, <1>2
<1> QED
  BY <1>3, <1>4, <1>5 DEF HeadingsIn, BlocksIn, ScriptLinesIn

(***************************************************************************)
(* Absolute links: each plot has the one path of its file.                 *)
(***************************************************************************)
LEMMA LinksAreOnce ==
  ASSUME NEW events, Listed(events), NEW shows, NEW parts,
         \A i, j \in DOMAIN events : i < j => events[i].id # events[j].id,
         \A i \in DOMAIN parts : Fine(parts[i], events, shows)
  PROVE  LET linked == absolute_links(parts, events)
         IN  /\ Conveys(parts, linked)
             /\ \A i \in DOMAIN linked :
                  /\ Fine(linked[i], events, shows)
                  /\ linked[i].kind = "plot" => linked[i].prefixes = 1
<1> DEFINE Named(file) == UNION {{<<i, p>> : p \in {q \in DOMAIN events[i].plots :
                                                  events[i].plots[q].file = file}} :
                                i \in DOMAIN events}
           linked == absolute_links(parts, events)
<1>1. /\ Len(events) \in Nat /\ DOMAIN events = 1..Len(events)
      /\ \A i \in DOMAIN events : /\ events[i].id \in Nat
                                  /\ \A p \in DOMAIN events[i].plots :
                                        events[i].plots[p].file = <<events[i].id, p>>
  BY DEF Listed, Says
<1>2. \A i, j \in DOMAIN events : events[i].id = events[j].id => i = j
  <2> SUFFICES ASSUME NEW i \in DOMAIN events, NEW j \in DOMAIN events,
                      events[i].id = events[j].id, i # j PROVE FALSE
    OBVIOUS
  <2>1. i \in Nat /\ j \in Nat
    BY <1>1
  <2>2. i < j \/ j < i
    BY ONLY <2>1, i # j
  <2> QED
    BY <2>2
<1>3. DOMAIN linked = DOMAIN parts
      /\ \A i \in DOMAIN parts :
            linked[i] = IF parts[i].kind = "plot"
                        THEN [parts[i] EXCEPT !.prefixes = Cardinality(Named(parts[i].file))]
                        ELSE parts[i]
  BY DEF absolute_links
<1>4. ASSUME NEW i \in DOMAIN events, NEW p \in DOMAIN events[i].plots
      PROVE  Cardinality(Named(events[i].plots[p].file)) = 1
  <2>1. PICK file : file = events[i].plots[p].file /\ file = <<events[i].id, p>>
    BY <1>1
  <2>2. ASSUME NEW j \in DOMAIN events, NEW q \in DOMAIN events[j].plots,
               events[j].plots[q].file = file
        PROVE  j = i /\ q = p
    <3>1. <<events[j].id, q>> = <<events[i].id, p>>
      BY <1>1, <2>1, <2>2
    <3>2. events[j].id = events[i].id /\ q = p
      BY ONLY <3>1
    <3> QED
      BY ONLY <1>2, <3>2, i \in DOMAIN events, j \in DOMAIN events
  <2>3. \A x \in Named(file) : x = <<i, p>>
    <3> TAKE x \in Named(file)
    <3>1. PICK j \in DOMAIN events : x \in {<<j, q>> : q \in {q \in DOMAIN events[j].plots :
                                                  events[j].plots[q].file = file}}
      OBVIOUS
    <3>2. PICK q \in DOMAIN events[j].plots : events[j].plots[q].file = file /\ x = <<j, q>>
      BY <3>1
    <3> QED
      BY <2>2, <3>2
  <2>4. <<i, p>> \in Named(file)
    <3>1. p \in {q \in DOMAIN events[i].plots : events[i].plots[q].file = file}
      BY <2>1
    <3>2. <<i, p>> \in {<<i, q>> : q \in {q \in DOMAIN events[i].plots :
                                              events[i].plots[q].file = file}}
      BY <3>1
    <3> QED
      BY <3>2
  <2>5. Named(file) = {<<i, p>>}
    <3> HIDE DEF Named
    <3> QED
      BY <2>3, <2>4
  <2>6. Cardinality({<<i, p>>}) = 1
    BY FS_Singleton
  <2> HIDE DEF Named
  <2>7. Cardinality(Named(file)) = 1
    BY ONLY <2>5, <2>6
  <2> QED
    BY ONLY <2>1, <2>7
<1> HIDE DEF linked, Named
<1>5. ASSUME NEW i \in DOMAIN parts
      PROVE  /\ Same(parts[i], linked[i]) /\ Fine(linked[i], events, shows)
             /\ linked[i].kind = "plot" => linked[i].prefixes = 1
  <2>1. PICK x : x = parts[i]
    OBVIOUS
  <2>2. Fine(x, events, shows)
    BY <2>1
  <2>3. CASE x.kind = "plot"
    <3>1. PICK j \in DOMAIN events :
             \E p \in DOMAIN events[j].plots : x.file = events[j].plots[p].file
      BY <2>2, <2>3 DEF Fine
    <3>2. PICK p \in DOMAIN events[j].plots : x.file = events[j].plots[p].file
      BY <3>1
    <3>3. Cardinality(Named(x.file)) = 1
      BY <1>4, <3>2
    <3>4. linked[i] = [x EXCEPT !.prefixes = Cardinality(Named(x.file))]
      BY <1>3, <2>1, <2>3
    <3>5. linked[i] = [x EXCEPT !.prefixes = 1]
      BY ONLY <3>3, <3>4
    <3>6. PICK y : y = linked[i]
      OBVIOUS
    <3>7. {"kind", "file", "prefixes"} \subseteq DOMAIN x
      BY <2>2, <2>3 DEF Fine, Shaped
    <3>8. DOMAIN y = DOMAIN x /\ y.kind = x.kind /\ y.file = x.file /\ y.prefixes = 1
      BY ONLY <3>5, <3>6, <3>7
    <3>9. Same(x, y)
      BY <2>3, <3>8 DEF Same
    <3>10. Fine(y, events, shows)
      BY <2>2, <2>3, <3>7, <3>8 DEF Fine, Shaped, Unrun
    <3> QED
      BY <2>1, <3>6, <3>8, <3>9, <3>10
  <2>4. CASE x.kind # "plot"
    <3>1. linked[i] = x
      BY <1>3, <2>1, <2>4
    <3> QED
      BY <2>1, <2>2, <2>4, <3>1 DEF Same
  <2> QED
    BY <2>3, <2>4
<1> QED
  BY <1>3, <1>5 DEF Conveys, linked

\* The chunk options of a finished document.
ShownAs(x, request) ==
  x.kind \in {"code", "chunk"} =>
    /\ ~x.eval
    /\ x.echo \in IF request.format = "rmarkdown" THEN {FALSE, NoValue}
                  ELSE {pdf_options(request).include_source}

(***************************************************************************)
(* The renderer's own default for its chunks.                              *)
(***************************************************************************)
LEMMA RenderedShows ==
  ASSUME ExportAssumption, NEW request \in ExportRequests, request.format = "pdf", NEW parts,
         \A i \in DOMAIN parts : Shaped(parts[i]) /\ Unrun(parts[i], ShowsCode(request))
  PROVE  LET script == build_pdf_render_script(parts, pdf_options(request))
         IN  /\ Conveys(parts, script)
             /\ \A i \in DOMAIN parts :
                  /\ ShownAs(script[i], request)
                  /\ parts[i].kind = "plot" => script[i] = parts[i]
<1> DEFINE inc == pdf_options(request).include_source
           script == build_pdf_render_script(parts, pdf_options(request))
<1>1. inc \in BOOLEAN /\ (inc <=> ShowsCode(request))
  BY SourceIs
<1>2. /\ DOMAIN script = DOMAIN parts
      /\ \A i \in DOMAIN parts :
            script[i] = IF "echo" \in DOMAIN parts[i]
                        THEN [parts[i] EXCEPT !.echo = Given(@, inc)] ELSE parts[i]
  BY DEF build_pdf_render_script
<1>0. inc = pdf_options(request).include_source
  OBVIOUS
<1> HIDE DEF inc, script
<1>3. ASSUME NEW i \in DOMAIN parts
      PROVE  /\ Same(parts[i], script[i]) /\ ShownAs(script[i], request)
             /\ parts[i].kind = "plot" => script[i] = parts[i]
  <2>1. PICK x, y : x = parts[i] /\ y = script[i]
    OBVIOUS
  <2>2. Shaped(x) /\ Unrun(x, ShowsCode(request))
    BY <2>1
  <2>3. CASE x.kind \in {"code", "chunk"}
    <3>1. /\ "echo" \in DOMAIN x /\ "kind" \in DOMAIN x /\ "eval" \in DOMAIN x
          /\ x.kind = "code" => {"event", "block"} \subseteq DOMAIN x
          /\ x.kind = "chunk" => "lines" \in DOMAIN x
      BY <2>2, <2>3 DEF Shaped
    <3>2. y = [x EXCEPT !.echo = Given(x.echo, inc)]
      <4>1. y = [x EXCEPT !.echo = Given(@, inc)]
        BY <1>2, <2>1, <3>1
      <4> QED
        BY <3>1, <4>1
    <3>3. Given(x.echo, inc) = inc
      <4>1. x.echo = IF ShowsCode(request) THEN NoValue ELSE FALSE
        BY <2>2, <2>3 DEF Unrun
      <4>2. CASE inc
        BY <1>1, <4>1, <4>2 DEF Given
      <4>3. CASE ~inc
        <5>1. x.echo = FALSE
          BY <1>1, <4>1, <4>3
        <5>2. inc = FALSE
          BY <1>1, <4>3
        <5> QED
          BY <5>1, <5>2 DEF Given
      <4> QED
        BY <4>2, <4>3
    <3>4. y = [x EXCEPT !.echo = inc]
      BY ONLY <3>2, <3>3
    <3>5. /\ DOMAIN y = DOMAIN x /\ y.kind = x.kind /\ y.eval = x.eval /\ y.echo = inc
          /\ x.kind = "code" => y.event = x.event /\ y.block = x.block
          /\ x.kind = "chunk" => y.lines = x.lines
      BY ONLY <3>1, <3>4
    <3>6. Same(x, y)
      BY <2>3, <3>5 DEF Same
    <3>7. ShownAs(y, request)
      <4>1. ~x.eval
        BY <2>2, <2>3 DEF Unrun
      <4> QED
        BY <1>0, <3>5, <4>1 DEF ShownAs
    <3> QED
      BY <2>1, <2>3, <3>6, <3>7
  <2>4. CASE x.kind \notin {"code", "chunk"}
    <3>1. "echo" \notin DOMAIN x
      BY <2>2, <2>4 DEF Shaped
    <3>2. y = x
      BY <1>2, <2>1, <3>1
    <3> QED
      BY <2>1, <2>4, <3>2 DEF Same, ShownAs
  <2> QED
    BY <2>3, <2>4
<1> QED
  BY <1>2, <1>3 DEF Conveys, script

(***************************************************************************)
(* The chunks of an R Markdown document.                                   *)
(***************************************************************************)
LEMMA MarkdownShows ==
  ASSUME NEW request, request.format = "rmarkdown", NEW x, NEW shows, Unrun(x, shows)
  PROVE  ShownAs(x, request)
BY DEF Unrun, ShownAs

\* A step for each number, and what there is after each of them.
Stepping(step, A, N) == step \in [A \X (1..N) -> A]
Stepped(f, A, z, N, step) ==
  /\ f \in [0..N -> A] /\ f[0] = z
  /\ \A i \in 1..N : f[i] = step[<<f[i - 1], i>>]

(***************************************************************************)
(* Steps of any number, one after the other.                               *)
(***************************************************************************)
LEMMA SomeSteps ==
  ASSUME NEW A, NEW z \in A, NEW N \in Nat, NEW step, Stepping(step, A, N)
  PROVE  \E f : Stepped(f, A, z, N, step)
<1> DEFINE Until(f, n) == f[0] = z /\ \A i \in 1..n : f[i] = step[<<f[i - 1], i>>]
           G == {n \in 0..N : \E f \in [0..n -> A] : Until(f, n)}
<1>0. step \in [A \X (1..N) -> A]
  BY DEF Stepping
<1>1. 0 \in G
  <2>1. PICK f : f = [i \in 0..0 |-> z]
    OBVIOUS
  <2>2. f \in [0..0 -> A] /\ Until(f, 0) /\ 0 \in 0..N
    BY <2>1
  <2> HIDE DEF Until
  <2> QED
    BY <2>2
<1>2. ASSUME NEW n \in 1..N, n - 1 \in G PROVE n \in G
  <2>1. PICK f \in [0..(n - 1) -> A] : Until(f, n - 1)
    BY <1>2
  <2>2. n - 1 \in 0..(n - 1) /\ n \in Nat
    OBVIOUS
  <2>3. f[n - 1] \in A
    BY <2>2
  <2>4. PICK y \in A : y = step[<<f[n - 1], n>>]
    BY <1>0, <2>3
  <2>5. PICK h : h = [i \in 0..n |-> IF i = n THEN y ELSE f[i]]
    OBVIOUS
  <2>6. h \in [0..n -> A] /\ h[n] = y /\ \A i \in 0..(n - 1) : h[i] = f[i]
    <3>1. \A i \in 0..n : i = n \/ i \in 0..(n - 1)
      BY <2>2
    <3>2. \A i \in 0..(n - 1) : i \in 0..n /\ i # n
      BY <2>2
    <3> QED
      BY <2>2, <2>5, <3>1, <3>2
  <2>7. h[0] = z
    BY <2>1, <2>2, <2>6
  <2>8. ASSUME NEW i \in 1..n PROVE h[i] = step[<<h[i - 1], i>>]
    <3>1. i - 1 \in 0..(n - 1)
      BY <2>2
    <3>2. h[i - 1] = f[i - 1]
      BY <2>6, <3>1
    <3>3. CASE i = n
      BY <2>4, <2>6, <3>2, <3>3
    <3>4. CASE i # n
      <4>1. i \in 1..(n - 1) /\ i \in 0..(n - 1)
        BY <2>2, <3>4
      <4> QED
        BY <2>1, <2>6, <3>2, <4>1
    <3> QED
      BY <3>3, <3>4
  <2> QED
    BY <2>6, <2>7, <2>8
<1> HIDE DEF G
<1>3. N \in G
  BY <1>1, <1>2, Upwards
<1> QED
  BY <1>3 DEF G, Stepped

\* The parts of a script's document, and what extract_code_chunks has after some lines.
ChunkOf(numbers, options) == chunk_header([kind |-> "chunk", lines |-> numbers], options)
TitleOf(i) == [kind |-> "title", line |-> i]
ScriptParts(script, options) ==
  {YamlOf(options)} \cup {TitleOf(i) : i \in 1..Len(script)}
  \cup {ChunkOf(numbers, options) : numbers \in Seq(1..Len(script))}
Readings(script, options) ==
  [section : Seq(1..Len(script)), parts : Seq(ScriptParts(script, options))]

\* Its Flush and its Line.
FlushOf(a, script, options) ==
  IF \E i \in DOMAIN a.section : script[a.section[i]] # "blank"
  THEN [section |-> <<>>, parts |-> Append(a.parts, ChunkOf(a.section, options))]
  ELSE a
ReadLine(a, i, script, options) ==
  CASE script[i] = "header" ->
         [FlushOf(a, script, options) EXCEPT !.parts = Append(@, TitleOf(i))]
    [] script[i] = "bare" -> FlushOf(a, script, options)
    [] OTHER -> [a EXCEPT !.section = Append(@, i)]

\* x is the chunk of these lines.
IsChunk(x, numbers, options) ==
  /\ DOMAIN x = {"kind", "lines", "echo", "eval"}
  /\ x.kind = "chunk" /\ x.lines = numbers /\ ~x.eval
  /\ x.echo = IF options.show_code THEN NoValue ELSE FALSE

(***************************************************************************)
(* The header of a chunk of a script.                                      *)
(***************************************************************************)
LEMMA ChunkIs ==
  ASSUME NEW numbers, NEW options
  PROVE  IsChunk(ChunkOf(numbers, options), numbers, options)
BY DEF ChunkOf, chunk_header, With, IsChunk

(***************************************************************************)
(* The parts of a script's document have their fields.                     *)
(***************************************************************************)
LEMMA ScriptFine ==
  ASSUME NEW script, NEW options, NEW shows, Asks(options, shows),
         NEW x \in ScriptParts(script, options)
  PROVE  Shaped(x) /\ Unrun(x, shows)
<1>1. CASE x = YamlOf(options)
  <2>1. x.kind = "yaml" /\ DOMAIN x = {"kind", "code_folding"}
    BY <1>1 DEF YamlOf
  <2> QED
    BY <2>1 DEF Shaped, Unrun
<1>2. CASE \E i \in 1..Len(script) : x = TitleOf(i)
  <2>1. x.kind = "title" /\ DOMAIN x = {"kind", "line"}
    BY <1>2 DEF TitleOf
  <2> QED
    BY <2>1 DEF Shaped, Unrun
<1>3. CASE \E numbers \in Seq(1..Len(script)) : x = ChunkOf(numbers, options)
  <2>1. PICK numbers \in Seq(1..Len(script)) : x = ChunkOf(numbers, options)
    BY <1>3
  <2>2. IsChunk(x, numbers, options)
    BY <2>1, ChunkIs
  <2>3. /\ DOMAIN x = {"kind", "lines", "echo", "eval"} /\ x.kind = "chunk" /\ ~x.eval
        /\ x.echo = IF options.show_code THEN NoValue ELSE FALSE
    BY <2>2 DEF IsChunk
  <2> QED
    BY <2>3 DEF Shaped, Unrun, Asks
<1> QED
  BY <1>1, <1>2, <1>3 DEF ScriptParts

\* What becomes of a line among the lines of code, and of a part among the lines.
CodeFor(script) == [k \in 1..Len(script) |-> PartIf(script[k] = "code", k)]
LinesFor(P) == [x \in P |-> IF x.kind = "chunk" THEN x.lines ELSE <<>>]

\* The lines of code that are in chunks, and those that are read for the next one.
Written(a, script, options) ==
  Each(CodeFor(script), Each(LinesFor(ScriptParts(script, options)), a.parts))
Unwritten(a, script) == Each(CodeFor(script), a.section)

(***************************************************************************)
(* They are sequences of lines.                                            *)
(***************************************************************************)
LEMMA ScriptMakes ==
  ASSUME NEW script, Len(script) \in Nat, NEW options
  PROVE  /\ Makes(CodeFor(script), 1..Len(script), Nat)
         /\ Makes(LinesFor(ScriptParts(script, options)), ScriptParts(script, options),
                  1..Len(script))
<1> DEFINE P == ScriptParts(script, options)
<1>1. \A k \in 1..Len(script) : PartIf(script[k] = "code", k) \in Seq(Nat)
  <2> TAKE k \in 1..Len(script)
  <2>1. PICK n \in Nat : n = k
    OBVIOUS
  <2>2. <<n>> \in Seq(Nat) /\ <<>> \in Seq(Nat)
    BY EmptySeq
  <2> QED
    BY <2>1, <2>2 DEF PartIf
<1>2. \A x \in P : (IF x.kind = "chunk" THEN x.lines ELSE <<>>) \in Seq(1..Len(script))
  <2> TAKE x \in P
  <2>1. CASE x = YamlOf(options) \/ \E i \in 1..Len(script) : x = TitleOf(i)
    <3>1. x.kind # "chunk"
      BY <2>1 DEF YamlOf, TitleOf
    <3> QED
      BY <3>1, EmptySeq
  <2>2. CASE \E numbers \in Seq(1..Len(script)) : x = ChunkOf(numbers, options)
    <3>1. PICK numbers \in Seq(1..Len(script)) : x = ChunkOf(numbers, options)
      BY <2>2
    <3>2. IsChunk(x, numbers, options)
      BY <3>1, ChunkIs
    <3> QED
      BY <3>2 DEF IsChunk
  <2> QED
    BY <2>1, <2>2 DEF ScriptParts
<1>3. Makes(CodeFor(script), 1..Len(script), Nat)
  BY <1>1 DEF Makes, CodeFor
<1> HIDE DEF P
<1>4. Makes(LinesFor(P), P, 1..Len(script))
  BY <1>2 DEF Makes, LinesFor
<1> QED
  BY <1>3, <1>4 DEF P

(***************************************************************************)
(* One more element.                                                       *)
(***************************************************************************)
LEMMA EachMore ==
  ASSUME NEW T, NEW U, NEW g, Makes(g, T, U), NEW s \in Seq(T), NEW x \in T
  PROVE  /\ Each(g, s) \in Seq(U) /\ g[x] \in Seq(U)
         /\ Each(g, Append(s, x)) = Each(g, s) \o g[x]
<1>1. <<x>> \in Seq(T) /\ Append(s, x) = s \o <<x>>
  OBVIOUS
<1>2. PICK t \in Seq(T) : t = <<x>>
  BY <1>1
<1>3. Each(g, s \o t) = Each(g, s) \o Each(g, t) /\ Each(g, s) \in Seq(U)
  BY ONLY EachConcat, Makes(g, T, U), s \in Seq(T), t \in Seq(T)
<1>4. Each(g, <<x>>) = g[x]
  BY EachOne
<1>5. g[x] \in Seq(U)
  BY DEF Makes
<1> QED
  BY <1>1, <1>2, <1>3, <1>4, <1>5

\* What a reading holds.
Holds(a, script, options, w) ==
  /\ a \in Readings(script, options)
  /\ Written(a, script, options) \in Seq(Nat) /\ Unwritten(a, script) \in Seq(Nat)
  /\ Written(a, script, options) \o Unwritten(a, script) = w

(***************************************************************************)
(* A reading holds sequences of lines.                                     *)
(***************************************************************************)
LEMMA ReadingHolds ==
  ASSUME NEW script, Len(script) \in Nat, NEW options, NEW a \in Readings(script, options)
  PROVE  /\ Holds(a, script, options, Written(a, script, options) \o Unwritten(a, script))
         /\ Each(LinesFor(ScriptParts(script, options)), a.parts) \in Seq(1..Len(script))
<1> DEFINE n == Len(script)
           P == ScriptParts(script, options)
           cg == CodeFor(script)
           lg == LinesFor(P)
<1>1. Makes(cg, 1..n, Nat) /\ Makes(lg, P, 1..n)
  BY ScriptMakes
<1>2. a.section \in Seq(1..n) /\ a.parts \in Seq(P)
  BY DEF Readings
<1> HIDE DEF P, n, cg, lg
<1>3. PICK s \in Seq(1..n), p \in Seq(P) : s = a.section /\ p = a.parts
  BY <1>2
<1>4. Each(lg, p) \in Seq(1..n)
  BY ONLY <1>1, EachConcat, p \in Seq(P)
<1>5. PICK l \in Seq(1..n) : l = Each(lg, p)
  BY <1>4
<1>6. Each(cg, l) \in Seq(Nat) /\ Each(cg, s) \in Seq(Nat)
  BY ONLY <1>1, EachConcat, l \in Seq(1..n), s \in Seq(1..n)
<1> QED
  BY <1>3, <1>4, <1>5, <1>6 DEF Holds, Written, Unwritten, P, n, cg, lg

(***************************************************************************)
(* Flush writes what was read, unless it is blank, and loses nothing.      *)
(***************************************************************************)
LEMMA FlushKeeps ==
  ASSUME NEW script, Len(script) \in Nat, NEW options, NEW a, NEW w, Holds(a, script, options, w)
  PROVE  /\ Holds(FlushOf(a, script, options), script, options, w)
         /\ Written(FlushOf(a, script, options), script, options) = w
<1> DEFINE n == Len(script)
           P == ScriptParts(script, options)
           cg == CodeFor(script)
           lg == LinesFor(P)
           x == ChunkOf(a.section, options)
           b == [section |-> <<>>, parts |-> Append(a.parts, x)]
<1>1. Makes(cg, 1..n, Nat) /\ Makes(lg, P, 1..n)
  BY ScriptMakes
<1>2. /\ a \in Readings(script, options) /\ a.section \in Seq(1..n) /\ a.parts \in Seq(P)
      /\ Each(cg, Each(lg, a.parts)) \in Seq(Nat) /\ Each(cg, a.section) \in Seq(Nat)
      /\ Each(cg, Each(lg, a.parts)) \o Each(cg, a.section) = w
  BY DEF Holds, Readings, Written, Unwritten
<1>3. x \in P /\ lg[x] = a.section
  <2>1. x \in P
    BY <1>2 DEF ScriptParts
  <2>2. IsChunk(x, a.section, options)
    BY ChunkIs
  <2> QED
    BY <2>1, <2>2 DEF IsChunk, LinesFor
<1> HIDE DEF x
<1>4. CASE \E i \in DOMAIN a.section : script[a.section[i]] # "blank"
  <2>1. FlushOf(a, script, options) = b
    BY <1>4 DEF FlushOf, x
  <2>2. b \in Readings(script, options) /\ b.section = <<>> /\ b.parts = Append(a.parts, x)
    BY <1>2, <1>3, EmptySeq DEF Readings
  <2> HIDE DEF P, n, cg, lg, b
  <2>3. PICK s \in Seq(1..n), p \in Seq(P) : s = a.section /\ p = a.parts
    BY <1>2
  <2>4. Each(lg, Append(p, x)) = Each(lg, p) \o s /\ Each(lg, p) \in Seq(1..n)
    <3>1. PICK y \in P : y = x
      BY <1>3
    <3>2. Each(lg, p) \in Seq(1..n) /\ Each(lg, Append(p, y)) = Each(lg, p) \o lg[y]
      BY ONLY <1>1, EachMore, p \in Seq(P), y \in P
    <3> QED
      BY <1>3, <2>3, <3>1, <3>2
  <2>5. PICK l \in Seq(1..n) : l = Each(lg, p)
    BY <2>4
  <2>6. Each(cg, l \o s) = Each(cg, l) \o Each(cg, s)
    <3>1. PICK T : T = 1..n
      OBVIOUS
    <3>2. Makes(cg, T, Nat) /\ l \in Seq(T) /\ s \in Seq(T)
      BY ONLY <1>1, <3>1, l \in Seq(1..n), s \in Seq(1..n)
    <3> QED
      BY ONLY <3>2, EachConcat
  <2>7. Each(cg, Each(lg, b.parts)) = w
    BY <1>2, <2>2, <2>3, <2>4, <2>5, <2>6
  <2>8. w \in Seq(Nat)
    BY <1>2, ConcatProperties
  <2>9. Each(cg, b.section) = <<>> /\ w \o <<>> = w /\ <<>> \in Seq(Nat)
    <3>1. Each(cg, <<>>) = <<>>
      BY FlattenEmpty DEF Each
    <3> QED
      BY <2>2, <2>8, <3>1, ConcatEmptySeq, EmptySeq
  <2> QED
    BY <2>1, <2>2, <2>7, <2>8, <2>9 DEF Holds, Written, Unwritten, cg, lg, P
<1>5. CASE \A i \in DOMAIN a.section : script[a.section[i]] = "blank"
  <2>1. FlushOf(a, script, options) = a
    BY <1>5 DEF FlushOf
  <2>2. \A i \in 1..Len(a.section) : cg[a.section[i]] = <<>>
    <3> TAKE i \in 1..Len(a.section)
    <3>1. a.section[i] \in 1..n /\ script[a.section[i]] = "blank"
      BY <1>2, <1>5
    <3> QED
      BY <3>1 DEF CodeFor, PartIf
  <2>3. Each(cg, a.section) = <<>>
    <3> HIDE DEF cg, n
    <3>1. PICK s \in Seq(1..n) : s = a.section
      BY <1>2
    <3>2. \A i \in 1..Len(s) : cg[s[i]] = <<>>
      BY <2>2, <3>1
    <3>3. Each(cg, s) = <<>>
      BY ONLY EachNothing, <3>2, s \in Seq(1..n)
    <3> QED
      BY <3>1, <3>3
  <2>4. Each(cg, Each(lg, a.parts)) \o <<>> = Each(cg, Each(lg, a.parts))
    BY <1>2, ConcatEmptySeq
  <2>5. Each(cg, Each(lg, a.parts)) = w
    BY ONLY <1>2, <2>3, <2>4
  <2> QED
    BY <2>1, <2>5 DEF Written
<1> QED
  BY <1>4, <1>5

(***************************************************************************)
(* Three sequences joined, in turn.                                        *)
(***************************************************************************)
LEMMA ThreeJoined ==
  ASSUME NEW S, NEW x, NEW y, NEW z, x \in Seq(S), y \in Seq(S), z \in Seq(S)
  PROVE  x \o (y \o z) = (x \o y) \o z
BY ONLY ConcatAssociative, x \in Seq(S), y \in Seq(S), z \in Seq(S), SMTT(30)

(***************************************************************************)
(* A line that is read is added to what a reading holds, if it is code.    *)
(***************************************************************************)
LEMMA ReadKeeps ==
  ASSUME NEW script, Len(script) \in Nat, NEW options, NEW a, NEW w, Holds(a, script, options, w),
         NEW i \in 1..Len(script)
  PROVE  Holds(ReadLine(a, i, script, options), script, options, w \o CodeFor(script)[i])
<1> DEFINE n == Len(script)
           P == ScriptParts(script, options)
           cg == CodeFor(script)
           lg == LinesFor(P)
<1>1. Makes(cg, 1..n, Nat) /\ Makes(lg, P, 1..n)
  BY ScriptMakes
<1>2. cg[i] = PartIf(script[i] = "code", i) /\ cg[i] \in Seq(Nat)
  <2>1. cg[i] = PartIf(script[i] = "code", i)
    BY DEF CodeFor
  <2> HIDE DEF cg
  <2> QED
    BY <1>1, <2>1 DEF Makes
<1>3. PICK b : b = FlushOf(a, script, options)
  OBVIOUS
<1>4. Holds(b, script, options, w)
  BY <1>3, FlushKeeps
<1>5. w \in Seq(Nat)
  BY <1>4, ConcatProperties DEF Holds
<1>6. CASE script[i] = "header"
  <2> DEFINE c == [b EXCEPT !.parts = Append(@, TitleOf(i))]
  <2>1. ReadLine(a, i, script, options) = c
    BY <1>3, <1>6 DEF ReadLine
  <2>2. TitleOf(i) \in P /\ lg[TitleOf(i)] = <<>>
    <3>1. TitleOf(i) \in P /\ TitleOf(i).kind = "title"
      BY DEF ScriptParts, TitleOf
    <3> QED
      BY <3>1 DEF LinesFor
  <2>3. b.section \in Seq(1..n) /\ b.parts \in Seq(P) /\ DOMAIN b = {"section", "parts"}
    BY <1>4 DEF Holds, Readings
  <2> HIDE DEF P, n, lg, cg
  <2>4. c = [section |-> b.section, parts |-> Append(b.parts, TitleOf(i))]
    <3>1. b \in [section : Seq(1..n), parts : Seq(P)]
      BY <1>4 DEF Holds, Readings, P, n
    <3>2. b = [section |-> b.section, parts |-> b.parts]
      BY ONLY <3>1
    <3>3. PICK s, p : s = b.section /\ p = b.parts
      OBVIOUS
    <3>4. b = [section |-> s, parts |-> p]
      BY ONLY <3>2, <3>3
    <3>5. [b EXCEPT !.parts = Append(@, TitleOf(i))]
            = [section |-> s, parts |-> Append(p, TitleOf(i))]
      BY ONLY <3>4
    <3> QED
      BY <3>3, <3>5
  <2> HIDE DEF c
  <2>5. /\ c \in Readings(script, options) /\ c.section = b.section
        /\ c.parts = Append(b.parts, TitleOf(i))
    <3>1. c.section = b.section /\ c.parts = Append(b.parts, TitleOf(i))
      BY <2>4
    <3>2. Append(b.parts, TitleOf(i)) \in Seq(P)
      BY <2>2, <2>3
    <3> QED
      BY <2>3, <2>4, <3>1, <3>2 DEF Readings, P, n
  <2>6. Each(lg, c.parts) = Each(lg, b.parts)
    <3>1. PICK p \in Seq(P), y \in P : p = b.parts /\ y = TitleOf(i)
      BY <2>2, <2>3
    <3>2. Each(lg, p) \in Seq(1..n) /\ Each(lg, Append(p, y)) = Each(lg, p) \o lg[y]
      BY ONLY <1>1, EachMore, p \in Seq(P), y \in P
    <3>3. Each(lg, p) \o <<>> = Each(lg, p)
      BY <3>2, ConcatEmptySeq
    <3> QED
      BY <2>2, <2>5, <3>1, <3>2, <3>3
  <2>7. cg[i] = <<>> /\ w \o <<>> = w
    BY <1>2, <1>5, <1>6, ConcatEmptySeq DEF PartIf
  <2> QED
    BY <1>4, <2>1, <2>5, <2>6, <2>7 DEF Holds, Written, Unwritten, lg, P, cg
<1>7. CASE script[i] = "bare"
  <2>1. ReadLine(a, i, script, options) = b
    BY <1>3, <1>7 DEF ReadLine
  <2>2. cg[i] = <<>> /\ w \o <<>> = w
    <3> HIDE DEF cg
    <3> QED
      BY <1>2, <1>5, <1>7, ConcatEmptySeq DEF PartIf
  <2> QED
    BY <1>4, <2>1, <2>2
<1>8. CASE script[i] # "header" /\ script[i] # "bare"
  <2> DEFINE c == [a EXCEPT !.section = Append(@, i)]
  <2>1. ReadLine(a, i, script, options) = c
    BY <1>8 DEF ReadLine
  <2>2. /\ a.section \in Seq(1..n) /\ a.parts \in Seq(P)
        /\ Each(cg, Each(lg, a.parts)) \in Seq(Nat) /\ Each(cg, a.section) \in Seq(Nat)
        /\ Each(cg, Each(lg, a.parts)) \o Each(cg, a.section) = w
    BY DEF Holds, Readings, Written, Unwritten
  <2>3. c = [section |-> Append(a.section, i), parts |-> a.parts]
    <3>1. a \in [section : Seq(1..n), parts : Seq(P)]
      BY DEF Holds, Readings
    <3> HIDE DEF P, n
    <3>2. a = [section |-> a.section, parts |-> a.parts]
      BY ONLY <3>1
    <3>3. PICK s, p : s = a.section /\ p = a.parts
      OBVIOUS
    <3>4. a = [section |-> s, parts |-> p]
      BY ONLY <3>2, <3>3
    <3>5. [a EXCEPT !.section = Append(@, i)] = [section |-> Append(s, i), parts |-> p]
      BY ONLY <3>4
    <3> QED
      BY <3>3, <3>5
  <2> HIDE DEF c
  <2>4. c \in Readings(script, options) /\ c.section = Append(a.section, i) /\ c.parts = a.parts
    <3>1. c.section = Append(a.section, i) /\ c.parts = a.parts
      BY <2>3
    <3>2. Append(a.section, i) \in Seq(1..n)
      BY <2>2
    <3> QED
      BY <2>2, <2>3, <3>1, <3>2 DEF Readings
  <2>0. i \in 1..n
    OBVIOUS
  <2> HIDE DEF P, n, lg, cg
  <2>5. Each(cg, c.section) = Each(cg, a.section) \o cg[i]
    <3>1. PICK T : T = 1..n
      OBVIOUS
    <3>2. PICK s \in Seq(T), k \in T : s = a.section /\ k = i
      BY ONLY <2>0, <2>2, <3>1
    <3>3. Makes(cg, T, Nat)
      BY <1>1, <3>1
    <3>4. Each(cg, Append(s, k)) = Each(cg, s) \o cg[k]
      BY ONLY <3>3, EachMore, s \in Seq(T), k \in T
    <3> QED
      BY <2>4, <3>2, <3>4
  <2>6. PICK x, y, z : x = Each(cg, Each(lg, a.parts)) /\ y = Each(cg, a.section) /\ z = cg[i]
    OBVIOUS
  <2>7. x \o (y \o z) = (x \o y) \o z /\ y \o z \in Seq(Nat) /\ x \in Seq(Nat)
    <3>1. x \in Seq(Nat) /\ y \in Seq(Nat) /\ z \in Seq(Nat)
      BY <1>2, <2>2, <2>6
    <3>2. PICK T : T = Nat
      OBVIOUS
    <3>4. x \in Seq(T) /\ y \in Seq(T) /\ z \in Seq(T)
      BY ONLY <3>1, <3>2
    <3>5. x \o (y \o z) = (x \o y) \o z
      BY ONLY <3>4, ThreeJoined, SMTT(30)
    <3>3. y \o z \in Seq(Nat)
      BY ONLY <3>1, ConcatProperties
    <3> QED
      BY <3>1, <3>3, <3>5
  <2>8. /\ Each(cg, Each(lg, c.parts)) = x /\ Each(cg, c.section) = y \o z
        /\ w \o cg[i] = (x \o y) \o z
    BY <2>2, <2>4, <2>5, <2>6
  <2> QED
    BY <2>1, <2>4, <2>7, <2>8 DEF Holds, Written, Unwritten, lg, P, cg
<1> QED
  BY <1>6, <1>7, <1>8

\* The lines read.
FirstLines(i) == [k \in 1..i |-> k]

(***************************************************************************)
(* The code of the first lines.                                            *)
(***************************************************************************)
LEMMA FirstCode ==
  ASSUME NEW script, Len(script) \in Nat, NEW i \in 1..Len(script)
  PROVE  /\ Each(CodeFor(script), FirstLines(0)) = <<>>
         /\ Each(CodeFor(script), FirstLines(i))
              = Each(CodeFor(script), FirstLines(i - 1)) \o CodeFor(script)[i]
<1> DEFINE n == Len(script)
           cg == CodeFor(script)
<1>1. Makes(cg, 1..n, Nat)
  BY ScriptMakes
<1>2. i - 1 \in Nat /\ n \in Nat /\ i \in 1..n
  OBVIOUS
<1>3. PICK s : s = FirstLines(i - 1)
  OBVIOUS
<1>4. s \in Seq(1..n) /\ Len(s) = i - 1 /\ \A k \in 1..(i - 1) : s[k] = k
  <2>1. \A k \in 1..(i - 1) : k \in 1..n
    BY <1>2
  <2>2. [k \in 1..(i - 1) |-> k] \in Seq(1..n)
    BY <1>2, <2>1, IsASeq
  <2>3. s = [k \in 1..(i - 1) |-> k]
    BY <1>3 DEF FirstLines
  <2>4. DOMAIN s = 1..(i - 1) /\ s \in Seq(1..n)
    BY <2>2, <2>3
  <2> QED
    BY <1>2, <2>3, <2>4, LenProperties
<1> HIDE DEF n, cg
<1>5. FirstLines(i) = Append(s, i)
  <2>1. Append(s, i) \in Seq(1..n) /\ Len(Append(s, i)) = i
    BY <1>2, <1>4
  <2>2. \A k \in 1..i : Append(s, i)[k] = k
    <3> TAKE k \in 1..i
    <3>1. CASE k = i
      BY <1>2, <1>4, <3>1
    <3>2. CASE k # i
      <4>1. k \in 1..(i - 1)
        BY <1>2, <3>2
      <4> QED
        BY <1>2, <1>4, <4>1
    <3> QED
      BY <3>1, <3>2
  <2>3. DOMAIN Append(s, i) = 1..i
    BY <2>1, LenProperties
  <2>4. PICK t : t = Append(s, i)
    OBVIOUS
  <2>5. t \in Seq(1..n) /\ DOMAIN t = 1..i /\ \A k \in 1..i : t[k] = k
    BY <2>1, <2>2, <2>3, <2>4
  <2>6. t = [k \in DOMAIN t |-> t[k]]
    BY <2>5
  <2> QED
    BY <2>4, <2>5, <2>6 DEF FirstLines
<1>6. Each(cg, Append(s, i)) = Each(cg, s) \o cg[i]
  BY ONLY <1>1, <1>2, <1>4, EachMore
<1>7. FirstLines(0) = <<>>
  BY DEF FirstLines
<1>8. Each(cg, <<>>) = <<>>
  BY FlattenEmpty DEF Each
<1> QED
  BY <1>3, <1>5, <1>6, <1>7, <1>8 DEF cg

\* What extract_code_chunks has after each line.
Reads(after, script, options) ==
  after = [i \in 0..Len(script) |-> IF i = 0 THEN [section |-> <<>>, parts |-> <<>>]
                                    ELSE ReadLine(after[i - 1], i, script, options)]

(***************************************************************************)
(* It reads the script to its end.                                         *)
(***************************************************************************)
LEMMA ScriptIsRead ==
  ASSUME NEW script, Len(script) \in Nat, NEW options
  PROVE  \E after : /\ Reads(after, script, options)
                    /\ extract_code_chunks(script, options)
                         = FlushOf(after[Len(script)], script, options).parts
<1> DEFINE n == Len(script)
           A == Readings(script, options)
           z == [section |-> <<>>, parts |-> <<>>]
           step == [p \in A \X (1..n) |-> ReadLine(p[1], p[2], script, options)]
           after == CHOOSE g : Reads(g, script, options)
<1>1. z \in A
  BY EmptySeq DEF Readings
<1>2. \A a \in A, i \in 1..n : ReadLine(a, i, script, options) \in A
  <2> TAKE a \in A, i \in 1..n
  <2>1. PICK w : Holds(a, script, options, w)
    BY ReadingHolds
  <2>2. Holds(ReadLine(a, i, script, options), script, options, w \o CodeFor(script)[i])
    BY <2>1, ReadKeeps
  <2> QED
    BY <2>2 DEF Holds
<1>3. step \in [A \X (1..n) -> A]
  <2> HIDE DEF A
  <2>1. \A p \in A \X (1..n) : ReadLine(p[1], p[2], script, options) \in A
    BY <1>2
  <2> QED
    BY <2>1
<1>4. PICK f \in [0..n -> A] : f[0] = z /\ \A i \in 1..n : f[i] = step[<<f[i - 1], i>>]
  <2>1. n \in Nat
    OBVIOUS
  <2> HIDE DEF A, z, step, n
  <2>2. Stepping(step, A, n)
    BY <1>3 DEF Stepping
  <2>3. \E f : Stepped(f, A, z, n, step)
    BY ONLY <1>1, <2>1, <2>2, SomeSteps
  <2> QED
    BY <2>3 DEF Stepped
<1>5. Reads(f, script, options)
  <2>1. \A i \in 1..n : f[i] = ReadLine(f[i - 1], i, script, options)
    <3> TAKE i \in 1..n
    <3>1. i - 1 \in 0..n
      OBVIOUS
    <3>2. PICK a \in A : a = f[i - 1]
      BY <1>4, <3>1
    <3>3. <<a, i>> \in A \X (1..n)
      OBVIOUS
    <3>4. step[<<a, i>>] = ReadLine(a, i, script, options)
      <4> HIDE DEF A
      <4> QED
        BY <3>3
    <3> HIDE DEF step, A
    <3> QED
      BY <1>4, <3>2, <3>4
  <2>2. \A i \in 0..n : f[i] = IF i = 0 THEN z ELSE ReadLine(f[i - 1], i, script, options)
    <3> HIDE DEF z
    <3>1. \A i \in 0..n : i = 0 \/ i \in 1..n
      OBVIOUS
    <3>2. f[0] = z
      BY <1>4
    <3>3. \A i \in 1..n : i # 0
      OBVIOUS
    <3> QED
      BY ONLY <2>1, <3>1, <3>2, <3>3
  <2>3. f = [i \in 0..n |-> f[i]]
    BY <1>4
  <2>4. f = [i \in 0..n |-> IF i = 0 THEN z ELSE ReadLine(f[i - 1], i, script, options)]
    <3> HIDE DEF z
    <3> QED
      BY ONLY <2>2, <2>3
  <2> QED
    BY <2>4 DEF Reads
<1>6. Reads(after, script, options)
  BY <1>5
<1>7. extract_code_chunks(script, options) = FlushOf(after[n], script, options).parts
  BY DEF extract_code_chunks, Reads, FlushOf, ReadLine, ChunkOf, TitleOf
<1> QED
  BY <1>6, <1>7

(***************************************************************************)
(* What a reading holds at the end is the script's code.                   *)
(***************************************************************************)
LEMMA ReadingsHold ==
  ASSUME NEW script, Len(script) \in Nat, NEW options, NEW after, Reads(after, script, options)
  PROVE  Holds(after[Len(script)], script, options,
               Each(CodeFor(script), FirstLines(Len(script))))
<1> DEFINE n == Len(script)
           z == [section |-> <<>>, parts |-> <<>>]
           cg == CodeFor(script)
           code(i) == Each(cg, FirstLines(i))
           G == {i \in 0..n : Holds(after[i], script, options, code(i))}
<1>1. /\ after[0] = z
      /\ \A i \in 1..n : after[i] = ReadLine(after[i - 1], i, script, options)
  <2>1. after = [i \in 0..n |-> IF i = 0 THEN z ELSE ReadLine(after[i - 1], i, script, options)]
    BY DEF Reads
  <2> HIDE DEF z
  <2>2. \A i \in 0..n : after[i] = IF i = 0 THEN z ELSE ReadLine(after[i - 1], i, script, options)
    BY <2>1
  <2> QED
    BY <2>2
<1>2. Holds(z, script, options, code(0))
  <2>1. z \in Readings(script, options) /\ z.section = <<>> /\ z.parts = <<>>
    BY EmptySeq DEF Readings
  <2>2. \A g : Each(g, <<>>) = <<>>
    BY FlattenEmpty DEF Each
  <2>3. FirstLines(0) = <<>>
    BY DEF FirstLines
  <2>4. <<>> \in Seq(Nat) /\ <<>> \o <<>> = <<>>
    BY EmptySeq, ConcatEmptySeq
  <2> QED
    BY <2>1, <2>2, <2>3, <2>4 DEF Holds, Written, Unwritten
<1>3. ASSUME NEW i \in 1..n, i - 1 \in G PROVE i \in G
  <2>1. PICK a, w : a = after[i - 1] /\ w = code(i - 1) /\ Holds(a, script, options, w)
    BY <1>3
  <2>2. Holds(ReadLine(a, i, script, options), script, options, w \o cg[i])
    BY <2>1, ReadKeeps
  <2>3. code(i) = w \o cg[i]
    BY <2>1, FirstCode
  <2>4. after[i] = ReadLine(a, i, script, options)
    BY <1>1, <2>1
  <2>5. i \in 0..n
    OBVIOUS
  <2> HIDE DEF code
  <2> QED
    BY <2>2, <2>3, <2>4, <2>5
<1>4. 0 \in G
  BY <1>1, <1>2
<1>5. n \in G
  <2> HIDE DEF G
  <2> QED
    BY <1>3, <1>4, Upwards
<1> QED
  BY <1>5

(***************************************************************************)
(* The document of a script has its code, each line once and in order.     *)
(***************************************************************************)
LEMMA ScriptTells ==
  ASSUME NEW script, DOMAIN script = 1..Len(script), Len(script) \in Nat,
         NEW options, NEW shows, Asks(options, shows)
  PROVE  LET parts == from_document(script, options)
         IN  /\ \A i \in DOMAIN parts : Shaped(parts[i]) /\ Unrun(parts[i], shows)
             /\ CodeOf(script, ScriptLinesIn(parts))
                  = CodeOf(script, [i \in DOMAIN script |-> i])
<1> DEFINE n == Len(script)
           P == ScriptParts(script, options)
           cg == CodeFor(script)
           lg == LinesFor(P)
           y == YamlOf(options)
           parts == from_document(script, options)
<1>1. PICK after : /\ Reads(after, script, options)
                   /\ extract_code_chunks(script, options)
                        = FlushOf(after[n], script, options).parts
  BY ScriptIsRead
<1>2. Holds(after[n], script, options, Each(cg, FirstLines(n)))
  BY <1>1, ReadingsHold
<1>3. PICK b : b = FlushOf(after[n], script, options)
  OBVIOUS
<1>4. /\ Holds(b, script, options, Each(cg, FirstLines(n)))
      /\ Written(b, script, options) = Each(cg, FirstLines(n))
  <2>1. PICK w : w = Each(cg, FirstLines(n))
    OBVIOUS
  <2>2. Holds(after[n], script, options, w)
    BY <1>2, <2>1
  <2>3. Holds(b, script, options, w) /\ Written(b, script, options) = w
    BY <1>3, <2>2, FlushKeeps
  <2> QED
    BY <2>1, <2>3
<1>5. b.parts \in Seq(P) /\ parts = <<y>> \o b.parts
  BY <1>1, <1>3, <1>4 DEF Holds, Readings, from_document, yaml_header, YamlOf
<1>6. Makes(lg, P, 1..n) /\ y \in P /\ lg[y] = <<>>
  <2>1. y \in P /\ y.kind = "yaml"
    BY DEF ScriptParts, YamlOf
  <2> QED
    BY <2>1, ScriptMakes DEF LinesFor
<1>7. Each(lg, b.parts) \in Seq(1..n)
  BY <1>4, ReadingHolds DEF Holds
<1>8. Each(cg, Each(lg, b.parts)) = Each(cg, FirstLines(n))
  BY <1>4 DEF Written
<1>9. \A numbers : (\A i \in DOMAIN numbers : numbers[i] \in 1..n)
                      => CodeOf(script, numbers) = Each(cg, numbers)
  <2> SUFFICES ASSUME NEW numbers, \A i \in DOMAIN numbers : numbers[i] \in 1..n
               PROVE  CodeOf(script, numbers) = Each(cg, numbers)
    OBVIOUS
  <2>1. \A i \in DOMAIN numbers :
           cg[numbers[i]] = PartIf(script[numbers[i]] = "code", numbers[i])
    BY DEF CodeFor
  <2> HIDE DEF cg
  <2> QED
    BY <2>1 DEF CodeOf, Each
<1> HIDE DEF P, cg, lg, y, parts
<1>10. parts \in Seq(P) /\ Each(lg, parts) = Each(lg, b.parts)
  <2>0. <<y>> \in Seq(P)
    <3>1. PICK x \in P : x = y
      BY <1>6
    <3>2. <<x>> \in Seq(P)
      OBVIOUS
    <3> QED
      BY <3>1, <3>2
  <2>1. PICK p \in Seq(P), q \in Seq(P) : p = <<y>> /\ q = b.parts
    BY <1>5, <2>0
  <2>2. Each(lg, p \o q) = Each(lg, p) \o Each(lg, q)
    BY ONLY <1>6, EachConcat, p \in Seq(P), q \in Seq(P)
  <2>3. Each(lg, <<y>>) = lg[y]
    BY <1>6, EachOne
  <2>4. <<>> \o Each(lg, b.parts) = Each(lg, b.parts)
    BY <1>7, ConcatEmptySeq
  <2>5. p \o q \in Seq(P)
    BY ConcatProperties
  <2> QED
    BY <1>5, <1>6, <2>1, <2>2, <2>3, <2>4, <2>5
<1>11. ScriptLinesIn(parts) = Each(lg, parts)
  <2>1. \A i \in DOMAIN parts : parts[i] \in P
    BY <1>10
  <2>2. \A i \in DOMAIN parts :
           lg[parts[i]] = IF parts[i].kind = "chunk" THEN parts[i].lines ELSE <<>>
    BY <2>1 DEF lg, LinesFor
  <2> QED
    BY <2>2 DEF ScriptLinesIn, Each
<1>12. CodeOf(script, ScriptLinesIn(parts)) = Each(cg, Each(lg, b.parts))
  <2>1. PICK l \in Seq(1..n) : l = Each(lg, b.parts)
    BY <1>7
  <2>2. \A i \in DOMAIN l : l[i] \in 1..n
    OBVIOUS
  <2> QED
    BY <1>9, <1>10, <1>11, <2>1, <2>2
<1>13. CodeOf(script, [i \in DOMAIN script |-> i]) = Each(cg, FirstLines(n))
  <2>1. [i \in DOMAIN script |-> i] = FirstLines(n)
    BY DEF FirstLines
  <2>2. \A i \in DOMAIN FirstLines(n) : FirstLines(n)[i] \in 1..n
    BY DEF FirstLines
  <2> QED
    BY <1>9, <2>1, <2>2
<1>14. \A i \in DOMAIN parts : Shaped(parts[i]) /\ Unrun(parts[i], shows)
  <2>1. \A i \in DOMAIN parts : parts[i] \in P
    BY <1>10
  <2> QED
    BY <2>1, ScriptFine DEF P
<1> QED
  BY <1>8, <1>12, <1>13, <1>14 DEF parts

\* An export's events are those of a history when it was read.
IsFrom(events, asof, h) ==
  /\ asof \in 0..Len(h)
  /\ Gathered(events, SubSeq(h, 1, asof))

(***************************************************************************)
(* They still are when more has been recorded.                             *)
(***************************************************************************)
LEMMA StillFrom ==
  ASSUME NEW h, History(h), NEW r \in AllRecorded, NEW events, NEW asof, IsFrom(events, asof, h)
  PROVE  IsFrom(events, asof, Append(h, r))
<1>1. /\ h \in Seq(AllRecorded) /\ Len(h) \in Nat /\ asof \in 0..Len(h)
      /\ Gathered(events, SubSeq(h, 1, asof))
  BY DEF History, IsFrom
<1>2. /\ Append(h, r) \in Seq(AllRecorded) /\ Len(Append(h, r)) = Len(h) + 1
      /\ \A i \in 1..Len(h) : Append(h, r)[i] = h[i]
  BY <1>1
<1>3. asof \in 0..Len(Append(h, r))
  BY <1>1, <1>2
<1>4. PICK g \in Seq(AllRecorded) : g = Append(h, r)
  BY <1>2
<1>5. SubSeq(g, 1, asof) = SubSeq(h, 1, asof)
  <2>1. /\ SubSeq(g, 1, asof) \in Seq(AllRecorded) /\ Len(SubSeq(g, 1, asof)) = asof
        /\ \A i \in 1..asof : SubSeq(g, 1, asof)[i] = g[i] /\ i \in 1..Len(h)
    BY <1>1, <1>2, <1>3, <1>4, SubSeqProperties
  <2>2. /\ SubSeq(h, 1, asof) \in Seq(AllRecorded) /\ Len(SubSeq(h, 1, asof)) = asof
        /\ \A i \in 1..asof : SubSeq(h, 1, asof)[i] = h[i] /\ i \in 1..Len(h)
    BY <1>1, SubSeqProperties
  <2>3. \A i \in 1..asof : SubSeq(g, 1, asof)[i] = SubSeq(h, 1, asof)[i]
    BY <1>2, <1>4, <2>1, <2>2
  <2> QED
    BY ONLY <2>1, <2>2, <2>3, SeqEqual
<1> QED
  BY <1>1, <1>3, <1>4, <1>5 DEF IsFrom

\* The headings and blocks of parts are those of events.
Tells(parts, events) ==
  /\ HeadingsIn(parts) = [i \in DOMAIN events |-> events[i].id]
  /\ BlocksIn(parts) = FlattenSeq([i \in DOMAIN events |->
                                  [b \in DOMAIN events[i].blocks |-> <<events[i].id, b>>]])
LinkedOnce(x) == x.kind = "plot" => x.prefixes = 1

\* A job on the history h, and one on a script.
TimelineJob(j, h) ==
  /\ DOMAIN j = {"step", "kind", "request", "events", "asof", "todo", "parts"}
  /\ j.kind = "timeline" /\ j.request \in ExportRequests
  /\ j.request.format \in {"rmarkdown", "pdf"}
  /\ j.step = "rmarkdown" <=> j.request.format = "rmarkdown"
  /\ IsFrom(j.events, j.asof, h)
  /\ Tells(j.parts, j.events)
  /\ \A i \in DOMAIN j.parts : /\ Fine(j.parts[i], j.events, ShowsCode(j.request))
                               /\ j.step = "pdf" => LinkedOnce(j.parts[i])
ScriptTold(j) ==
  CodeOf(j.script, ScriptLinesIn(j.parts)) = CodeOf(j.script, [i \in DOMAIN j.script |-> i])
ScriptJob(j) ==
  /\ DOMAIN j = {"step", "kind", "request", "script", "parts"}
  /\ j.kind = "document" /\ j.request \in ExportRequests
  /\ j.request.format \in {"rmarkdown", "pdf"} /\ j.step = j.request.format
  /\ \A i \in DOMAIN j.parts : Shaped(j.parts[i]) /\ Unrun(j.parts[i], ShowsCode(j.request))
  /\ ScriptTold(j)

\* What a finished document says of the events.
Told(x, events) ==
  /\ x.kind = "output" =>
       \E i \in DOMAIN events :
          x.event = events[i].id /\ x.text.head + x.text.skipped + x.text.tail = events[i].output
  /\ x.kind = "summary" => x.statistics = SummaryOf(events).statistics
Finished(d, h) ==
  /\ d.kind = "timeline" =>
       /\ IsFrom(d.events, d.asof, h) /\ Tells(d.parts, d.events)
       /\ \A i \in DOMAIN d.parts : Told(d.parts[i], d.events)
       /\ d.request.format = "pdf" => \A i \in DOMAIN d.parts : LinkedOnce(d.parts[i])
  /\ d.kind = "document" => ScriptTold(d)
  /\ d.kind \in {"timeline", "document"} =>
       \A i \in DOMAIN d.parts : ShownAs(d.parts[i], d.request)

DocumentIInv ==
  /\ History(recorded)
  /\ job = NoJob \/ TimelineJob(job, recorded) \/ ScriptJob(job)
  /\ Finished(document, recorded)

(***************************************************************************)
(* What an export finds, it can say.                                       *)
(***************************************************************************)
LEMMA FoundSays ==
  ASSUME ExportAssumption, NEW events, NEW asof, NEW h, IsFrom(events, asof, h)
  PROVE  Listed(events) /\ \A i, j \in DOMAIN events : i < j => events[i].id # events[j].id
<1>1. /\ DOMAIN events = 1..Len(events) /\ Len(events) \in Nat
      /\ \A i \in DOMAIN events : events[i] \in AllRecorded
      /\ \A i, j \in DOMAIN events : i < j => events[i].id # events[j].id
  BY DEF IsFrom, Gathered
<1> QED
  BY <1>1, AllSay DEF Listed

(***************************************************************************)
(* A document that is right says what the property asks of it.             *)
(***************************************************************************)
LEMMA FinishedTells ==
  ASSUME ExportAssumption, History(recorded), Finished(document, recorded)
  PROVE  DocumentTellsTheRuns
<1>1. ASSUME document.kind = "timeline"
      PROVE  LET events == document.events
                 parts == document.parts
             IN  /\ document.asof <= QueryCap =>
                      {events[i].id : i \in DOMAIN events} = 1..document.asof
                 /\ \A i, j \in DOMAIN events : i < j => /\ events[i].created <= events[j].created
                                                        /\ events[i].id # events[j].id
                 /\ HeadingsIn(parts) = [i \in DOMAIN events |-> events[i].id]
                 /\ BlocksIn(parts) = FlattenSeq([i \in DOMAIN events |->
                                         [b \in DOMAIN events[i].blocks |-> <<events[i].id, b>>]])
                 /\ \A i \in DOMAIN parts : parts[i].kind = "output" =>
                     LET text == parts[i].text
                     IN  text.head + text.skipped + text.tail = recorded[parts[i].event].output
                 /\ \A i \in DOMAIN parts : parts[i].kind = "summary" =>
                     LET told == parts[i].statistics
                         known == stats(events)
                     IN  /\ <<told.executions, told.user, told.ai, told.errors>>
                             = <<known.events, known.user, known.ai, known.errors>>
                         /\ told.user + told.ai = told.executions /\ known.plots <= told.plots
                 /\ document.request.format = "pdf" =>
                     \A i \in DOMAIN parts : parts[i].kind = "plot" => parts[i].prefixes = 1
  <2> DEFINE events == document.events
             parts == document.parts
             asof == document.asof
             h == SubSeq(recorded, 1, asof)
  <2>1. /\ IsFrom(events, asof, recorded) /\ Tells(parts, events)
        /\ \A i \in DOMAIN parts : Told(parts[i], events)
        /\ document.request.format = "pdf" => \A i \in DOMAIN parts : LinkedOnce(parts[i])
    BY <1>1 DEF Finished
  <2>2. Listed(events)
    BY <2>1, FoundSays
  <2>3. /\ Len(h) = asof /\ DOMAIN h = 1..asof /\ \A i \in 1..asof : h[i] = recorded[i]
    <3>1. recorded \in Seq(AllRecorded) /\ asof \in 0..Len(recorded) /\ Len(recorded) \in Nat
      BY <2>1 DEF History, IsFrom
    <3>2. /\ h \in Seq(AllRecorded) /\ Len(h) = asof
          /\ \A i \in 1..asof : h[i] = recorded[i]
      BY <3>1, SubSeqProperties
    <3> QED
      BY <3>2
  <2>4. /\ \A i \in DOMAIN events : events[i].id \in DOMAIN h /\ events[i] = h[events[i].id]
        /\ \A i, j \in DOMAIN events : i < j => /\ events[i].created <= events[j].created
                                               /\ events[i].id # events[j].id
        /\ Len(h) <= QueryCap => {events[i].id : i \in DOMAIN events} = 1..Len(h)
    BY <2>1 DEF IsFrom, Gathered
  <2> HIDE DEF events, parts, asof, h
  <2>5. asof <= QueryCap => {events[i].id : i \in DOMAIN events} = 1..asof
    BY <2>3, <2>4
  <2>6. ASSUME NEW i \in DOMAIN parts, parts[i].kind = "output"
        PROVE  parts[i].text.head + parts[i].text.skipped + parts[i].text.tail
                 = recorded[parts[i].event].output
    <3>1. PICK k \in DOMAIN events :
             /\ parts[i].event = events[k].id
             /\ parts[i].text.head + parts[i].text.skipped + parts[i].text.tail = events[k].output
      BY <2>1, <2>6 DEF Told
    <3>2. events[k] = recorded[events[k].id]
      BY <2>3, <2>4
    <3> QED
      BY <3>1, <3>2
  <2>7. ASSUME NEW i \in DOMAIN parts, parts[i].kind = "summary"
        PROVE  Agree(parts[i].statistics, stats(events))
    BY <2>1, <2>2, <2>7, StatisticsAgree DEF Told
  <2>8. /\ HeadingsIn(parts) = [i \in DOMAIN events |-> events[i].id]
        /\ BlocksIn(parts) = FlattenSeq([i \in DOMAIN events |->
                                         [b \in DOMAIN events[i].blocks |-> <<events[i].id, b>>]])
    BY <2>1 DEF Tells
  <2>9. document.request.format = "pdf" =>
           \A i \in DOMAIN parts : parts[i].kind = "plot" => parts[i].prefixes = 1
    BY <2>1 DEF LinkedOnce
  <2> QED
    BY <2>4, <2>5, <2>6, <2>7, <2>8, <2>9 DEF Agree, events, parts, asof
<1>2. ASSUME document.kind = "document"
      PROVE  CodeOf(document.script, ScriptLinesIn(document.parts))
               = CodeOf(document.script, [i \in DOMAIN document.script |-> i])
  BY <1>2 DEF Finished, ScriptTold
<1>3. ASSUME document.kind \in {"timeline", "document"},
             NEW i \in DOMAIN document.parts, document.parts[i].kind \in {"code", "chunk"}
      PROVE  /\ ~document.parts[i].eval
             /\ document.parts[i].echo
                  \in IF document.request.format = "rmarkdown" THEN {FALSE, NoValue}
                     ELSE {pdf_options(document.request).include_source}
  BY <1>3 DEF Finished, ShownAs
<1> QED
  BY <1>1, <1>2, <1>3 DEF DocumentTellsTheRuns

(***************************************************************************)
(* A job that is written as R Markdown is a finished document.             *)
(***************************************************************************)
LEMMA WrittenIsFinished ==
  ASSUME NEW j, NEW h, TimelineJob(j, h) \/ ScriptJob(j), j.step = "rmarkdown"
  PROVE  Finished(j, h)
<1>1. CASE TimelineJob(j, h)
  <2>1. /\ j.kind = "timeline" /\ j.request.format = "rmarkdown"
        /\ IsFrom(j.events, j.asof, h) /\ Tells(j.parts, j.events)
        /\ \A i \in DOMAIN j.parts : Fine(j.parts[i], j.events, ShowsCode(j.request))
    BY <1>1 DEF TimelineJob
  <2>2. \A i \in DOMAIN j.parts : Told(j.parts[i], j.events) /\ ShownAs(j.parts[i], j.request)
    <3> TAKE i \in DOMAIN j.parts
    <3>1. PICK x : x = j.parts[i] /\ Fine(x, j.events, ShowsCode(j.request))
      BY <2>1
    <3>2. Told(x, j.events) /\ Unrun(x, ShowsCode(j.request))
      BY <3>1 DEF Fine, Told
    <3>3. ShownAs(x, j.request)
      BY <2>1, <3>2, MarkdownShows
    <3> QED
      BY <3>1, <3>2, <3>3
  <2> QED
    BY <2>1, <2>2 DEF Finished
<1>2. CASE ScriptJob(j)
  <2>1. /\ j.kind = "document" /\ j.request.format = "rmarkdown" /\ ScriptTold(j)
        /\ \A i \in DOMAIN j.parts : Unrun(j.parts[i], ShowsCode(j.request))
    BY <1>2 DEF ScriptJob
  <2>2. \A i \in DOMAIN j.parts : ShownAs(j.parts[i], j.request)
    BY <2>1, MarkdownShows
  <2> QED
    BY <2>1, <2>2 DEF Finished
<1> QED
  BY <1>1, <1>2

(***************************************************************************)
(* A job that is rendered is.                                              *)
(***************************************************************************)
LEMMA RenderedIsFinished ==
  ASSUME ExportAssumption, NEW j, NEW h, TimelineJob(j, h) \/ ScriptJob(j), j.step = "pdf"
  PROVE  Finished([j EXCEPT !.parts = build_pdf_render_script(@, pdf_options(j.request))], h)
<1> DEFINE q == build_pdf_render_script(j.parts, pdf_options(j.request))
<1>1. PICK d : d = [j EXCEPT !.parts = q]
  OBVIOUS
<1>2. /\ j.request \in ExportRequests /\ j.request.format = "pdf"
      /\ {"kind", "request", "parts"} \subseteq DOMAIN j
      /\ \A i \in DOMAIN j.parts : Shaped(j.parts[i]) /\ Unrun(j.parts[i], ShowsCode(j.request))
  <2>1. CASE TimelineJob(j, h)
    <3>1. /\ j.request \in ExportRequests /\ j.request.format \in {"rmarkdown", "pdf"}
          /\ j.step = "rmarkdown" <=> j.request.format = "rmarkdown"
          /\ DOMAIN j = {"step", "kind", "request", "events", "asof", "todo", "parts"}
      BY <2>1 DEF TimelineJob
    <3>2. \A i \in DOMAIN j.parts : Shaped(j.parts[i]) /\ Unrun(j.parts[i], ShowsCode(j.request))
      BY <2>1 DEF TimelineJob, Fine
    <3> QED
      BY <3>1, <3>2
  <2>2. CASE ScriptJob(j)
    BY <2>2 DEF ScriptJob
  <2> QED
    BY <2>1, <2>2
<1>3. /\ Conveys(j.parts, q)
      /\ \A i \in DOMAIN j.parts : /\ ShownAs(q[i], j.request)
                                   /\ j.parts[i].kind = "plot" => q[i] = j.parts[i]
  BY <1>2, RenderedShows
<1> HIDE DEF q
<1>4. d.kind = j.kind /\ d.request = j.request /\ d.parts = q
  BY <1>1, <1>2
<1>5. /\ HeadingsIn(q) = HeadingsIn(j.parts) /\ BlocksIn(q) = BlocksIn(j.parts)
      /\ ScriptLinesIn(q) = ScriptLinesIn(j.parts)
  BY <1>3, ConveysAll
<1>6. DOMAIN q = DOMAIN j.parts /\ \A i \in DOMAIN q : Same(j.parts[i], q[i])
  BY <1>3 DEF Conveys
<1>7. \A i \in DOMAIN d.parts : ShownAs(d.parts[i], d.request)
  BY <1>3, <1>4, <1>6
<1>8. Finished(d, h)
  <2>1. CASE TimelineJob(j, h)
    <3>1. /\ DOMAIN j = {"step", "kind", "request", "events", "asof", "todo", "parts"}
          /\ j.kind = "timeline" /\ IsFrom(j.events, j.asof, h) /\ Tells(j.parts, j.events)
          /\ \A i \in DOMAIN j.parts : /\ Fine(j.parts[i], j.events, ShowsCode(j.request))
                                       /\ LinkedOnce(j.parts[i])
      BY <2>1 DEF TimelineJob
    <3>2. d.events = j.events /\ d.asof = j.asof
      BY <1>1, <3>1
    <3>3. Tells(q, j.events)
      BY <1>5, <3>1 DEF Tells
    <3>4. \A i \in DOMAIN q : Told(q[i], j.events) /\ LinkedOnce(q[i])
      <4> TAKE i \in DOMAIN q
      <4>1. PICK x, y : x = j.parts[i] /\ y = q[i]
        OBVIOUS
      <4>2. /\ Fine(x, j.events, ShowsCode(j.request)) /\ LinkedOnce(x) /\ Same(x, y)
            /\ x.kind = "plot" => y = x
        BY <1>3, <1>6, <3>1, <4>1
      <4>3. Told(x, j.events)
        BY <4>2 DEF Fine, Told
      <4>4. CASE x.kind \in {"code", "chunk"}
        <5>1. y.kind \in {"code", "chunk"}
          BY <4>2, <4>4 DEF Same
        <5> QED
          BY <4>1, <5>1 DEF Told, LinkedOnce
      <4>5. CASE x.kind \notin {"code", "chunk"}
        <5>1. y = x
          BY <4>2, <4>5 DEF Same
        <5> QED
          BY <4>1, <4>2, <4>3, <5>1
      <4> QED
        BY <4>4, <4>5
    <3> QED
      BY <1>4, <1>7, <3>1, <3>2, <3>3, <3>4 DEF Finished
  <2>2. CASE ScriptJob(j)
    <3>1. /\ DOMAIN j = {"step", "kind", "request", "script", "parts"}
          /\ j.kind = "document" /\ ScriptTold(j)
      BY <2>2 DEF ScriptJob
    <3>2. d.script = j.script
      BY <1>1, <3>1
    <3>3. ScriptTold(d)
      BY <1>4, <1>5, <3>1, <3>2 DEF ScriptTold
    <3> QED
      BY <1>4, <1>7, <3>1, <3>3 DEF Finished
  <2> QED
    BY <2>1, <2>2
<1> QED
  <2>1. [j EXCEPT !.parts = build_pdf_render_script(@, pdf_options(j.request))] = d
    BY <1>1, <1>2 DEF q
  <2> QED
    BY <1>8, <2>1

(***************************************************************************)
(* What an export of the timeline reads.                                   *)
(***************************************************************************)
LEMMA TimelineIsRead ==
  ASSUME ExportAssumption, QueriesAssumption, History(recorded), ReadTimeline
  PROVE  TimelineJob(job', recorded)
<1>1. PICK request \in ExportRequests :
        LET options == into_options(request)
            response == query(recorded, [filters |-> <<>>, sort |-> "asc", offset |-> NoValue,
                                         limit |-> ExportLimit])
        IN  /\ options # NoValue /\ request.mode = "timeline"
            /\ job' = [step |-> IF request.format = "pdf" /\ options.embed_plots
                               THEN "plots" ELSE request.format,
                       kind |-> "timeline", request |-> request,
                       events |-> response.events, asof |-> Len(recorded),
                       todo |-> PlotsOf(response.events),
                       parts |-> from_timeline(from_events(response.events), options)]
  BY DEF ReadTimeline
<1> DEFINE options == into_options(request)
           events == FoundIn(recorded)
           parts == from_timeline(from_events(events), options)
<1>2. /\ options # NoValue
      /\ job' = [step |-> IF request.format = "pdf" /\ options.embed_plots
                         THEN "plots" ELSE request.format,
                 kind |-> "timeline", request |-> request,
                 events |-> events, asof |-> Len(recorded), todo |-> PlotsOf(events),
                 parts |-> parts]
  BY <1>1 DEF FoundIn, ExportQuery
<1>3. request.format \in {"rmarkdown", "pdf"} /\ Asks(options, ShowsCode(request))
  BY <1>2, OptionsSay
<1> HIDE DEF options, events, parts
<1>4. PICK j : j = job'
  OBVIOUS
<1>5. /\ DOMAIN j = {"step", "kind", "request", "events", "asof", "todo", "parts"}
      /\ j.step = (IF request.format = "pdf" /\ options.embed_plots
                   THEN "plots" ELSE request.format)
      /\ j.kind = "timeline" /\ j.request = request /\ j.events = events
      /\ j.asof = Len(recorded) /\ j.parts = parts
  BY <1>2, <1>4
<1>6. IsFrom(events, Len(recorded), recorded)
  <2>1. Gathered(events, recorded)
    BY FoundIsGathered DEF events
  <2>2. recorded \in Seq(AllRecorded) /\ Len(recorded) \in Nat
    BY DEF History
  <2>3. SubSeq(recorded, 1, Len(recorded)) = recorded
    BY <2>2, SubSeqFull
  <2>4. Len(recorded) \in 0..Len(recorded)
    BY <2>2
  <2>5. Gathered(events, SubSeq(recorded, 1, Len(recorded)))
    BY ONLY <2>1, <2>3
  <2> QED
    BY ONLY <2>4, <2>5 DEF IsFrom
<1>7. Listed(events)
  BY <1>6, FoundSays
<1>8. /\ parts \in Seq(TimelineParts(events, options))
      /\ Tells(parts, events)
  BY <1>3, <1>7, DocumentTells DEF parts, Tells
<1>9. ASSUME NEW i \in DOMAIN parts
      PROVE  /\ Fine(parts[i], events, ShowsCode(request))
             /\ j.step = "pdf" => LinkedOnce(parts[i])
  <2>1. PICK x \in TimelineParts(events, options) : x = parts[i]
    BY <1>8
  <2>2. Fine(x, events, ShowsCode(request))
    <3>1. \A k \in DOMAIN events : Says(events[k])
      BY <1>7 DEF Listed
    <3> QED
      BY <1>3, <3>1, TimelineFine
  <2>3. j.step = "pdf" => LinkedOnce(x)
    <3> SUFFICES ASSUME j.step = "pdf" PROVE LinkedOnce(x)
      OBVIOUS
    <3>1. ~options.embed_plots
      BY <1>3, <1>5
    <3>2. x.kind # "plot"
      BY <3>1, NoPlots
    <3> QED
      BY <3>2 DEF LinkedOnce
  <2> QED
    BY <2>1, <2>2, <2>3
<1>10. j.step = "rmarkdown" <=> request.format = "rmarkdown"
  BY <1>3, <1>5
<1>11. TimelineJob(j, recorded)
  BY <1>3, <1>5, <1>6, <1>8, <1>9, <1>10 DEF TimelineJob
<1> QED
  BY <1>4, <1>11

(***************************************************************************)
(* What an export of a script reads.                                       *)
(***************************************************************************)
LEMMA DocumentIsRead ==
  ASSUME ExportAssumption, ReadDocument
  PROVE  ScriptJob(job')
<1>1. PICK request \in ExportRequests, script \in Scripts :
        LET options == into_options(request)
        IN  /\ options # NoValue /\ request.mode = "document"
            /\ job' = [step |-> request.format, kind |-> "document", request |-> request,
                       script |-> script, parts |-> from_document(script, options)]
  BY DEF ReadDocument
<1> DEFINE options == into_options(request)
           parts == from_document(script, options)
<1>2. request.format \in {"rmarkdown", "pdf"} /\ Asks(options, ShowsCode(request))
  BY <1>1, OptionsSay
<1>3. DOMAIN script = 1..Len(script) /\ Len(script) \in Nat
  <2>1. script \in Seq({"header", "bare", "code", "blank"})
    BY DEF ExportAssumption
  <2> QED
    BY <2>1, LenProperties
<1>4. job' = [step |-> request.format, kind |-> "document", request |-> request,
              script |-> script, parts |-> parts]
  BY <1>1
<1>5. PICK j : j = job'
  OBVIOUS
<1> HIDE DEF options
<1>6. /\ \A i \in DOMAIN parts : Shaped(parts[i]) /\ Unrun(parts[i], ShowsCode(request))
      /\ CodeOf(script, ScriptLinesIn(parts)) = CodeOf(script, [i \in DOMAIN script |-> i])
  BY <1>2, <1>3, ScriptTells
<1> HIDE DEF parts
<1>7. /\ DOMAIN j = {"step", "kind", "request", "script", "parts"}
      /\ j.kind = "document" /\ j.request = request /\ j.step = request.format
      /\ j.script = script /\ j.parts = parts
  BY <1>4, <1>5
<1>8. ScriptJob(j)
  BY <1>2, <1>6, <1>7 DEF ScriptJob, ScriptTold
<1> QED
  BY <1>5, <1>8

(***************************************************************************)
(* The links of a job are made absolute.                                   *)
(***************************************************************************)
LEMMA LinksAreRewritten ==
  ASSUME ExportAssumption, NEW j, NEW h, TimelineJob(j, h), j.step = "plots"
  PROVE  TimelineJob([j EXCEPT !.step = "pdf", !.parts = absolute_links(@, j.events)], h)
<1>1. /\ DOMAIN j = {"step", "kind", "request", "events", "asof", "todo", "parts"}
      /\ j.kind = "timeline" /\ j.request \in ExportRequests
      /\ j.request.format \in {"rmarkdown", "pdf"} /\ j.request.format # "rmarkdown"
      /\ IsFrom(j.events, j.asof, h) /\ Tells(j.parts, j.events)
      /\ \A i \in DOMAIN j.parts : Fine(j.parts[i], j.events, ShowsCode(j.request))
  BY DEF TimelineJob
<1> DEFINE q == absolute_links(j.parts, j.events)
<1>2. PICK d : d = [j EXCEPT !.step = "pdf", !.parts = absolute_links(@, j.events)]
  OBVIOUS
<1>3. /\ Conveys(j.parts, q)
      /\ \A i \in DOMAIN q : /\ Fine(q[i], j.events, ShowsCode(j.request))
                             /\ q[i].kind = "plot" => q[i].prefixes = 1
  <2>1. Listed(j.events) /\ \A i, k \in DOMAIN j.events : i < k => j.events[i].id # j.events[k].id
    BY <1>1, FoundSays
  <2>2. PICK events, parts, shows :
           events = j.events /\ parts = j.parts /\ shows = ShowsCode(j.request)
    OBVIOUS
  <2>3. /\ Listed(events) /\ \A i, k \in DOMAIN events : i < k => events[i].id # events[k].id
        /\ \A i \in DOMAIN parts : Fine(parts[i], events, shows)
    BY <1>1, <2>1, <2>2
  <2>4. /\ Conveys(parts, absolute_links(parts, events))
        /\ \A i \in DOMAIN absolute_links(parts, events) :
             /\ Fine(absolute_links(parts, events)[i], events, shows)
             /\ absolute_links(parts, events)[i].kind = "plot"
                  => absolute_links(parts, events)[i].prefixes = 1
    BY ONLY <2>3, LinksAreOnce
  <2> QED
    BY <2>2, <2>4
<1>4. d = [j EXCEPT !.step = "pdf", !.parts = q]
  BY <1>1, <1>2
<1> HIDE DEF q
<1>5. /\ DOMAIN d = DOMAIN j /\ d.step = "pdf" /\ d.parts = q /\ d.kind = j.kind
      /\ d.request = j.request /\ d.events = j.events /\ d.asof = j.asof
  BY <1>1, <1>4
<1>6. Tells(q, j.events)
  BY <1>1, <1>3, ConveysAll DEF Tells
<1>7. TimelineJob(d, h)
  BY <1>1, <1>3, <1>5, <1>6 DEF TimelineJob, LinkedOnce
<1> QED
  BY <1>2, <1>7

(***************************************************************************)
(* What is true of jobs and documents stays true when a run is recorded.   *)
(***************************************************************************)
LEMMA RecordingKeeps ==
  ASSUME ExportAssumption, DocumentIInv, RecordRun
  PROVE  DocumentIInv'
<1>1. PICK e \in ExportEvents : recorded' = Append(recorded, Recorded(e, Len(recorded) + 1))
  BY DEF RecordRun
<1>2. PICK n, r : n = Len(recorded) + 1 /\ r = Recorded(e, n)
  OBVIOUS
<1>3. /\ recorded \in Seq(AllRecorded) /\ Len(recorded) \in Nat
      /\ \A i \in 1..Len(recorded) : recorded[i].id = i
  BY DEF DocumentIInv, History
<1>4. r \in AllRecorded /\ r.id = n /\ n \in Nat
  <2>1. n \in Nat
    BY <1>2, <1>3
  <2>2. r \in AllRecorded
    BY <1>2, <2>1 DEF AllRecorded
  <2>3. Recorded(e, n).id = n
    BY RecordedFields
  <2> QED
    BY ONLY <1>2, <2>1, <2>2, <2>3
<1>5. recorded' = Append(recorded, r)
  BY <1>1, <1>2
<1>6. History(recorded')
  <2>1. /\ recorded' \in Seq(AllRecorded)
        /\ DOMAIN recorded' = 1..(Len(recorded) + 1)
        /\ \A i \in 1..(Len(recorded) + 1) : recorded'[i].id = i
    BY ONLY <1>2, <1>3, <1>4, <1>5
  <2> QED
    BY <2>1 DEF History
<1>7. \A events, asof : IsFrom(events, asof, recorded) => IsFrom(events, asof, recorded')
  BY <1>4, <1>5, StillFrom DEF DocumentIInv
<1>8. UNCHANGED <<job, document>>
  BY DEF RecordRun
<1>9. \A j : TimelineJob(j, recorded) => TimelineJob(j, recorded')
  BY <1>7 DEF TimelineJob
<1>10. \A d : Finished(d, recorded) => Finished(d, recorded')
  BY <1>7 DEF Finished
<1> QED
  BY <1>6, <1>8, <1>9, <1>10 DEF DocumentIInv

(***************************************************************************)
(* The history is numbered, a job is right, and so is a document.          *)
(***************************************************************************)
LEMMA DocumentInductive ==
  ASSUME ExportAssumption, QueriesAssumption
  PROVE  /\ ExportInit => DocumentIInv
         /\ DocumentIInv /\ [ExportNext]_exportVars => DocumentIInv'
<1>1. ExportInit => DocumentIInv
  BY DEF ExportInit, DocumentIInv, History, Finished, NoDocument
<1>2. ASSUME DocumentIInv, RecordRun PROVE DocumentIInv'
  BY <1>2, RecordingKeeps
<1>3. ASSUME DocumentIInv, UNCHANGED <<recorded, job, document>> PROVE DocumentIInv'
  BY <1>3 DEF DocumentIInv
<1>4. ASSUME DocumentIInv, ReadTimeline PROVE DocumentIInv'
  <2>1. TimelineJob(job', recorded) /\ UNCHANGED <<recorded, document>>
    BY <1>4, TimelineIsRead DEF DocumentIInv, ReadTimeline
  <2> QED
    BY <1>4, <2>1 DEF DocumentIInv
<1>5. ASSUME DocumentIInv, ReadDocument PROVE DocumentIInv'
  <2>1. ScriptJob(job') /\ UNCHANGED <<recorded, document>>
    BY <1>5, DocumentIsRead DEF ReadDocument
  <2> QED
    BY <1>5, <2>1 DEF DocumentIInv
<1>6. NoJob.step = "idle"
  BY DEF NoJob
<1>7. \A j : ScriptJob(j) => j.step \in {"rmarkdown", "pdf"}
  BY DEF ScriptJob
<1>8. ASSUME DocumentIInv, materialize_plots PROVE DocumentIInv'
  <2>1. UNCHANGED <<recorded, document>> /\ job.step = "plots"
    BY <1>8 DEF materialize_plots
  <2>2. TimelineJob(job, recorded)
    BY <1>6, <1>7, <1>8, <2>1 DEF DocumentIInv
  <2>3. job' = NoJob \/ job' = [job EXCEPT !.todo = Tail(@)]
    BY <1>8 DEF materialize_plots
  <2>4. ASSUME job' = [job EXCEPT !.todo = Tail(@)] PROVE TimelineJob(job', recorded)
    <3>1. DOMAIN job = {"step", "kind", "request", "events", "asof", "todo", "parts"}
      BY <2>2 DEF TimelineJob
    <3>2. PICK d : d = job'
      OBVIOUS
    <3>3. /\ DOMAIN d = DOMAIN job /\ d.step = job.step /\ d.kind = job.kind
          /\ d.request = job.request /\ d.events = job.events /\ d.asof = job.asof
          /\ d.parts = job.parts
      BY <2>4, <3>1, <3>2
    <3>4. TimelineJob(d, recorded)
      BY <2>2, <3>3 DEF TimelineJob
    <3> QED
      BY <3>2, <3>4
  <2> QED
    BY <1>8, <2>1, <2>3, <2>4 DEF DocumentIInv
<1>9. ASSUME DocumentIInv, RewriteLinks PROVE DocumentIInv'
  <2>1. /\ UNCHANGED <<recorded, document>> /\ job.step = "plots"
        /\ job' = [job EXCEPT !.step = "pdf", !.parts = absolute_links(@, job.events)]
    BY <1>9 DEF RewriteLinks
  <2>2. TimelineJob(job, recorded)
    BY <1>6, <1>7, <1>9, <2>1 DEF DocumentIInv
  <2>3. TimelineJob(job', recorded)
    BY <2>1, <2>2, LinksAreRewritten
  <2> QED
    BY <1>9, <2>1, <2>3 DEF DocumentIInv
<1>10. ASSUME DocumentIInv, WriteRMarkdown PROVE DocumentIInv'
  <2>1. /\ recorded' = recorded /\ job' = NoJob /\ job.step = "rmarkdown"
        /\ document' \in {document, [kind |-> "torn"], job}
    BY <1>10 DEF WriteRMarkdown
  <2>2. Finished(job, recorded)
    <3>1. TimelineJob(job, recorded) \/ ScriptJob(job)
      BY <1>6, <1>10, <2>1 DEF DocumentIInv
    <3> QED
      BY <2>1, <3>1, WrittenIsFinished
  <2>3. Finished([kind |-> "torn"], recorded)
    BY DEF Finished
  <2>4. Finished(document', recorded)
    BY <1>10, <2>1, <2>2, <2>3 DEF DocumentIInv
  <2> QED
    BY <1>10, <2>1, <2>4 DEF DocumentIInv
<1>11. ASSUME DocumentIInv, render_pdf_document PROVE DocumentIInv'
  <2>1. /\ recorded' = recorded /\ job' = NoJob /\ job.step = "pdf"
        /\ \/ document' = [job EXCEPT !.parts =
                                build_pdf_render_script(@, pdf_options(job.request))]
           \/ document' = document
    BY <1>11 DEF render_pdf_document
  <2>2. Finished([job EXCEPT !.parts = build_pdf_render_script(@, pdf_options(job.request))],
                 recorded)
    <3>1. TimelineJob(job, recorded) \/ ScriptJob(job)
      BY <1>6, <1>11, <2>1 DEF DocumentIInv
    <3> QED
      BY <2>1, <3>1, RenderedIsFinished
  <2>3. Finished(document', recorded)
    BY <1>11, <2>1, <2>2 DEF DocumentIInv
  <2> QED
    BY <1>11, <2>1, <2>3 DEF DocumentIInv
<1> QED
  BY <1>1, <1>2, <1>3, <1>4, <1>5, <1>8, <1>9, <1>10, <1>11
     DEF ExportNext, exportVars, DeleteImage, write_tarball

(***************************************************************************)
(* A document that was exported (rmarkdown.rs, export_handler.rs) says what*)
(* the timeline held when it was read: each event once and in order, its   *)
(* blocks, every line of its output or the number of those left out, and   *)
(* the timeline's own statistics; a script's document has all its code, in *)
(* order; links are absolute just once, and chunks are shown as was asked. *)
(***************************************************************************)
THEOREM DocumentsTellTheRuns ==
  ASSUME ExportAssumption, QueriesAssumption
  PROVE  ExportSpec => []DocumentTellsTheRuns
<1>1. DocumentIInv => DocumentTellsTheRuns
  BY FinishedTells DEF DocumentIInv
<1> QED
  BY <1>1, DocumentInductive, PTL DEF ExportSpec
=============================================================================
