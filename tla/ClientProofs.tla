------------------------------ MODULE ClientProofs ------------------------------
(***************************************************************************)
(* Theorems about what the client shows: RunView, for every set of runs,   *)
(* every limit of a query, every length of the receiver, every amount of   *)
(* output, and every number of connections, queries and mishaps, and       *)
(* FileTree.                                                               *)
(*                                                                         *)
(* ViewCatchesUp speaks of a client with nothing under way, so the         *)
(* inductive invariant has to say what is under way otherwise: that the    *)
(* events behind one another tell the life of a run in its order (InOrder, *)
(* Happened), that together with the answer to the last query they bring   *)
(* the client to the run's status (StatusComes), and that together with    *)
(* what it shows they bring it to the run's whole output (OutputComes).    *)
(* All but the order is said of one run at a time (RunInv): a step about   *)
(* another run can only lose its events (Others).                          *)
(***************************************************************************)
EXTENDS RunView, FileTree, SequenceTheorems, WellFoundedInduction, TLAPS

TaskStates == {"none", "created", "orphan", "queued", "running", "recorded", "finished"}
\* The task has not started: R has put out nothing for the run.
NotStarted == {"none", "created", "orphan", "queued"}
Statuses == {"none", "queued", "running", "finished"}
Records == [status : Statuses, chunks : SUBSET Nat]
EventKinds == {"started", "output", "finished"}
Events == [kind : EventKinds, run : ViewedRuns, chunk : Nat]

\* An event of the kind about the run is on its way.
Sent(q, kind, r) == \E i \in DOMAIN q : q[i].kind = kind /\ q[i].run = r
\* The chunks of the run's output that are on their way.
ChunksIn(q, r) ==
    {q[i].chunk : i \in {i \in DOMAIN q : q[i].kind = "output" /\ q[i].run = r}}
ChunksOf(e, r) == IF e.kind = "output" /\ e.run = r THEN {e.chunk} ELSE {}

ViewTyped ==
    /\ task \in [ViewedRuns -> TaskStates]
    /\ record \in [ViewedRuns -> Records]
    /\ produced \in [ViewedRuns -> Nat]
    /\ buffered \in [ViewedRuns -> SUBSET Nat]
    /\ receiver \in Seq(Events)
    /\ queried \in [pc : {"idle", "answer"}, records : [ViewedRuns -> Records],
                    latest : SUBSET ViewedRuns]
    /\ view \in [ViewedRuns -> [status : {"unknown", "pending", "finished"},
                                chunks : SUBSET Nat]]
    /\ complete \subseteq ViewedRuns
    /\ current \in BOOLEAN

\* Among the events about a run the started ones are first, the finished one is last.
InOrder(q) == \A i, j \in DOMAIN q :
    i < j /\ q[i].run = q[j].run =>
        /\ q[i].kind # "finished"
        /\ q[j].kind = "started" => q[i].kind = "started"

\* Nobody knows of a chunk that R has not put out.
Produced(r) ==
    /\ task[r] \in NotStarted => produced[r] = 0
    /\ record[r].chunks \subseteq 1..produced[r]
    /\ buffered[r] \subseteq 1..produced[r]
    /\ queried.records[r].chunks \subseteq 1..produced[r]
    /\ view[r].chunks \subseteq 1..produced[r]
    /\ ChunksIn(receiver, r) \subseteq 1..produced[r]

\* The events about a run are those of what its task has done; when it is done the one that
\* says so is behind any other.
Happened(r) ==
    /\ Sent(receiver, "started", r) => task[r] \notin {"none", "created", "orphan"}
    /\ Sent(receiver, "output", r) => task[r] \notin NotStarted
    /\ Sent(receiver, "finished", r) => task[r] = "finished"
    /\ task[r] = "finished" =>
        \A kind \in EventKinds : Sent(receiver, kind, r) => Sent(receiver, "finished", r)

\* Nobody takes a run for finished before its task has tried to record that.
DoneWhenOver(r) ==
    "finished" \in {record[r].status, queried.records[r].status, view[r].status}
        => task[r] \in {"recorded", "finished"}

\* A record is missing only if it was put back, and the list has nothing of a run it does not
\* know.
Known(r) ==
    /\ record[r].status = "none" /\ r \notin undone => task[r] = "none"
    /\ view[r].status = "unknown" => view[r] = Unseen

\* The status that the client shows when it has received the answer to its query, if there is
\* one.
Answer(r) ==
    IF queried.pc = "idle" THEN view[r].status
    ELSE IF r \in queried.latest THEN ShownStatus(queried.records[r].status)
    ELSE "unknown"

\* A client that has lost nothing since it asked last shows how far a run is, or will be
\* told of it.
StatusComes(r) ==
    current /\ r \notin undone /\ ~(Answer(r) = "unknown" /\ LeftOut(r)) =>
        /\ task[r] \in {"queued", "running"} =>
                Sent(receiver, "started", r) \/ Answer(r) = "pending"
        /\ task[r] = "finished" =>
                \/ Sent(receiver, "finished", r)
                \/ /\ Answer(r) # "unknown"
                   /\ record[r].status = "finished" => Answer(r) = "finished"

\* A client that has lost no event of a run shows its chunks or will receive them: all of
\* them if a start of the run is still to come, which clears what is shown.
OutputComes(r) ==
    r \in complete =>
        IF Sent(receiver, "started", r)
        THEN ChunksIn(receiver, r) = 1..produced[r]
        ELSE task[r] \notin {"none", "created", "orphan"} =>
                /\ view[r] # Unseen
                /\ view[r].chunks \cup ChunksIn(receiver, r) = 1..produced[r]

RunInv(r) ==
    /\ Produced(r) /\ Happened(r) /\ DoneWhenOver(r) /\ Known(r)
    /\ StatusComes(r) /\ OutputComes(r)

\* The inductive invariant.
ViewIInv == ViewTyped /\ InOrder(receiver) /\ \A r \in ViewedRuns : RunInv(r)

-----------------------------------------------------------------------------

(***************************************************************************)
(* What is behind the first event.                                         *)
(***************************************************************************)
LEMMA Behind ==
  ASSUME NEW q \in Seq(Events), q # <<>>, InOrder(q)
  PROVE  /\ Tail(q) \in Seq(Events) /\ Head(q) \in Events /\ InOrder(Tail(q))
         /\ \A kind, r : Sent(q, kind, r) <=> \/ Sent(Tail(q), kind, r)
                                              \/ Head(q).kind = kind /\ Head(q).run = r
         /\ \A r : ChunksIn(q, r) = ChunksIn(Tail(q), r) \cup ChunksOf(Head(q), r)
         /\ Head(q).kind # "started" => ~Sent(Tail(q), "started", Head(q).run)
         /\ Head(q).kind = "finished" => \A kind : ~Sent(Tail(q), kind, Head(q).run)
<1> DEFINE t == Tail(q)
<1>1. /\ Len(q) \in Nat /\ DOMAIN q = 1..Len(q) /\ Len(q) # 0 /\ q \in [1..Len(q) -> Events]
      /\ Head(q) = q[1]
  BY LenProperties, EmptySeq
<1>2. /\ t \in Seq(Events) /\ Len(t) = Len(q) - 1 /\ Head(q) \in Events
      /\ \A i \in 1..(Len(q) - 1) : t[i] = q[i + 1]
  BY HeadTailProperties
<1>3. DOMAIN t = 1..(Len(q) - 1)
  BY <1>2, LenProperties
<1> HIDE DEF t
<1>4. ASSUME NEW i \in DOMAIN t
      PROVE  i + 1 \in DOMAIN q /\ t[i] = q[i + 1] /\ 1 < i + 1 /\ 1 \in DOMAIN q
  BY <1>1, <1>2, <1>3
<1>5. ASSUME NEW k \in DOMAIN q
      PROVE  k = 1 \/ (k - 1 \in DOMAIN t /\ t[k - 1] = q[k])
  <2>1. k # 1 => k - 1 \in 1..(Len(q) - 1) /\ (k - 1) + 1 = k
    BY <1>1
  <2> QED
    BY <1>2, <1>3, <2>1
<1>6. InOrder(t)
  <2> SUFFICES ASSUME NEW i \in DOMAIN t, NEW j \in DOMAIN t, i < j, t[i].run = t[j].run
               PROVE  /\ t[i].kind # "finished"
                      /\ t[j].kind = "started" => t[i].kind = "started"
    BY DEF InOrder
  <2>1. i + 1 < j + 1
    BY <1>3
  <2> QED
    BY <1>4, <2>1 DEF InOrder
<1>7. ASSUME NEW kind, NEW r
      PROVE  Sent(q, kind, r) <=> \/ Sent(t, kind, r)
                                  \/ Head(q).kind = kind /\ Head(q).run = r
  <2>1. ASSUME NEW i \in DOMAIN t, t[i].kind = kind, t[i].run = r PROVE Sent(q, kind, r)
    BY <1>4, <2>1 DEF Sent
  <2>2. ASSUME NEW k \in DOMAIN q, q[k].kind = kind, q[k].run = r
        PROVE  Sent(t, kind, r) \/ (Head(q).kind = kind /\ Head(q).run = r)
    BY <1>1, <1>5, <2>2 DEF Sent
  <2>3. ASSUME Head(q).kind = kind, Head(q).run = r PROVE Sent(q, kind, r)
    <3>1. 1 \in DOMAIN q
      BY <1>1
    <3> QED
      BY <1>1, <2>3, <3>1 DEF Sent
  <2> QED
    BY <2>1, <2>2, <2>3 DEF Sent
<1>8. ASSUME NEW r
      PROVE  ChunksIn(q, r) = ChunksIn(t, r) \cup ChunksOf(Head(q), r)
  <2>1. 1 \in DOMAIN q
    BY <1>1
  <2>2. ASSUME NEW n \in ChunksIn(t, r) PROVE n \in ChunksIn(q, r)
    BY <1>4 DEF ChunksIn
  <2>3. ASSUME NEW n \in ChunksIn(q, r)
        PROVE  n \in ChunksIn(t, r) \/ (Head(q).kind = "output" /\ Head(q).run = r
                                          /\ n = Head(q).chunk)
    BY <1>1, <1>5 DEF ChunksIn
  <2>4. Head(q).kind = "output" /\ Head(q).run = r => Head(q).chunk \in ChunksIn(q, r)
    BY <1>1, <2>1 DEF ChunksIn
  <2> QED
    BY <2>2, <2>3, <2>4 DEF ChunksOf
<1>9. Head(q).kind # "started" => ~Sent(t, "started", Head(q).run)
  BY <1>1, <1>4 DEF Sent, InOrder
<1>10. Head(q).kind = "finished" => \A kind : ~Sent(t, kind, Head(q).run)
  BY <1>1, <1>4 DEF Sent, InOrder
<1> QED
  BY <1>2, <1>6, <1>7, <1>8, <1>9, <1>10 DEF t

(***************************************************************************)
(* What a new event changes.                                               *)
(***************************************************************************)
LEMMA Joined ==
  ASSUME NEW q \in Seq(Events), NEW e \in Events, InOrder(q),
         ~Sent(q, "finished", e.run),
         e.kind = "started" => ~Sent(q, "output", e.run)
  PROVE  /\ Append(q, e) \in Seq(Events) /\ InOrder(Append(q, e))
         /\ \A kind, r : Sent(Append(q, e), kind, r) <=> \/ Sent(q, kind, r)
                                                         \/ e.kind = kind /\ e.run = r
         /\ \A r : ChunksIn(Append(q, e), r) = ChunksIn(q, r) \cup ChunksOf(e, r)
<1> DEFINE t == Append(q, e)
<1>1. Len(q) \in Nat /\ DOMAIN q = 1..Len(q) /\ \A i \in DOMAIN q : q[i] \in Events
  BY LenProperties
<1>2. /\ t \in Seq(Events) /\ Len(t) = Len(q) + 1
      /\ \A i \in 1..Len(q) : t[i] = q[i]
      /\ t[Len(q) + 1] = e
  BY AppendProperties
<1>3. DOMAIN t = 1..(Len(q) + 1)
  BY <1>2, LenProperties
<1> HIDE DEF t
<1>4. ASSUME NEW i \in DOMAIN t
      PROVE  \/ i \in DOMAIN q /\ t[i] = q[i]
             \/ i = Len(q) + 1 /\ t[i] = e
  BY <1>1, <1>2, <1>3
<1>5. \A i \in DOMAIN q : i \in DOMAIN t /\ t[i] = q[i]
  BY <1>1, <1>2, <1>3
<1>6. Len(q) + 1 \in DOMAIN t
  BY <1>1, <1>3
<1>7. ASSUME NEW kind, NEW r
      PROVE  Sent(t, kind, r) <=> Sent(q, kind, r) \/ (e.kind = kind /\ e.run = r)
  BY <1>2, <1>4, <1>5, <1>6 DEF Sent
<1>8. ASSUME NEW r
      PROVE  ChunksIn(t, r) = ChunksIn(q, r) \cup ChunksOf(e, r)
  <2>1. ASSUME NEW n \in ChunksIn(q, r) PROVE n \in ChunksIn(t, r)
    BY <1>5 DEF ChunksIn
  <2>2. ASSUME NEW n \in ChunksIn(t, r)
        PROVE  n \in ChunksIn(q, r) \/ (e.kind = "output" /\ e.run = r /\ n = e.chunk)
    BY <1>4 DEF ChunksIn
  <2>3. e.kind = "output" /\ e.run = r => e.chunk \in ChunksIn(t, r)
    BY <1>2, <1>6 DEF ChunksIn
  <2> QED
    BY <2>1, <2>2, <2>3 DEF ChunksOf
<1>9. InOrder(t)
  <2> SUFFICES ASSUME NEW i \in DOMAIN t, NEW j \in DOMAIN t, i < j, t[i].run = t[j].run
               PROVE  /\ t[i].kind # "finished"
                      /\ t[j].kind = "started" => t[i].kind = "started"
    BY DEF InOrder
  <2>1. i \in DOMAIN q /\ t[i] = q[i]
    BY <1>1, <1>3, <1>4
  <2>2. CASE j \in DOMAIN q /\ t[j] = q[j]
    BY <2>1, <2>2 DEF InOrder
  <2>3. CASE t[j] = e
    <3>1. q[i].kind \in EventKinds /\ q[i].run = e.run
      BY <1>1, <2>1, <2>3 DEF Events
    <3>2. q[i].kind # "finished" /\ (e.kind = "started" => q[i].kind # "output")
      BY <2>1, <3>1 DEF Sent
    <3> QED
      BY <2>1, <2>3, <3>1, <3>2 DEF EventKinds
  <2> QED
    BY <1>4, <2>2, <2>3
<1> QED
  BY <1>2, <1>7, <1>8, <1>9 DEF t

\* What is left of the events of run r, and of what the client is known to have been sent.
Thinned(r) ==
    /\ \A kind : Sent(receiver', kind, r) => Sent(receiver, kind, r)
    /\ ChunksIn(receiver', r) \subseteq ChunksIn(receiver, r)
    /\ (\E kind : Sent(receiver', kind, r)) /\ Sent(receiver, "finished", r)
            => Sent(receiver', "finished", r)
    /\ current' \/ r \in complete' =>
            /\ \A kind : Sent(receiver, kind, r) => Sent(receiver', kind, r)
            /\ ChunksIn(receiver, r) \subseteq ChunksIn(receiver', r)
    /\ (r \in complete' => r \in complete) /\ (current' => current)

\* The same with a new event.
Joins(kind, r, n) ==
    /\ \A k : Sent(receiver', k, r) => Sent(receiver, k, r) \/ k = kind
    /\ Sent(receiver', kind, r)
    /\ ChunksIn(receiver', r) \subseteq
            ChunksIn(receiver, r) \cup IF kind = "output" THEN {n} ELSE {}
    /\ current' \/ r \in complete' =>
            /\ \A k : Sent(receiver, k, r) => Sent(receiver', k, r)
            /\ ChunksIn(receiver, r) \cup (IF kind = "output" THEN {n} ELSE {})
                    \subseteq ChunksIn(receiver', r)
    /\ (r \in complete' => r \in complete) /\ (current' => current)

(***************************************************************************)
(* SendEvent puts the event behind the others, and drops the oldest one if *)
(* the receiver is full; a run that is still complete has lost none.       *)
(***************************************************************************)
LEMMA Sending ==
  ASSUME ViewIInv, NEW kind \in EventKinds, NEW r \in ViewedRuns, NEW n \in Nat,
         SendEvent(kind, r, n), ~Sent(receiver, "finished", r),
         kind = "started" => ~Sent(receiver, "output", r)
  PROVE  /\ receiver' \in Seq(Events) /\ InOrder(receiver')
         /\ complete' \subseteq ViewedRuns /\ current' \in BOOLEAN
         /\ \A o \in ViewedRuns \ {r} : Thinned(o)
         /\ Joins(kind, r, n)
<1> DEFINE e == [kind |-> kind, run |-> r, chunk |-> n]
           sent == Append(receiver, e)
           lagged == Len(sent) > EventBuffer
<1>1. /\ receiver' = (IF lagged THEN Tail(sent) ELSE sent)
      /\ complete' = (IF lagged THEN complete \ {Head(sent).run} ELSE complete)
      /\ current' = (current /\ ~lagged)
  BY DEF SendEvent
<1>2. /\ receiver \in Seq(Events) /\ InOrder(receiver) /\ current \in BOOLEAN
      /\ complete \subseteq ViewedRuns /\ e \in Events
      /\ e.kind = kind /\ e.run = r /\ e.chunk = n
  BY DEF ViewIInv, ViewTyped, Events
<1>3. \A o : ChunksOf(e, o) = IF kind = "output" /\ o = r THEN {n} ELSE {}
  BY <1>2 DEF ChunksOf
<1> HIDE DEF e
<1>4. CASE ~lagged
  <2>1. receiver' = Append(receiver, e) /\ complete' = complete /\ current' = current
    BY <1>1, <1>2, <1>4
  <2>2. /\ receiver' \in Seq(Events) /\ InOrder(receiver')
        /\ \A k, o : Sent(receiver', k, o) <=> Sent(receiver, k, o) \/ (kind = k /\ r = o)
        /\ \A o : ChunksIn(receiver', o) = ChunksIn(receiver, o) \cup ChunksOf(e, o)
    BY <1>2, <2>1, Joined
  <2> QED
    BY <1>2, <1>3, <2>1, <2>2 DEF Thinned, Joins
<1>5. CASE lagged
  <2>1. Len(receiver) \in Nat /\ Len(sent) = Len(receiver) + 1
    BY <1>2, AppendProperties, LenProperties
  <2>2. Len(receiver) # 0
    BY <1>5, <2>1, RunViewAssumption
  <2>3. receiver # <<>>
    BY <1>2, <2>2, EmptySeq
  <2>4. Tail(sent) = Append(Tail(receiver), e) /\ Head(sent) = Head(receiver)
    BY <1>2, <2>3, HeadTailAppend
  <2>5. PICK q, first : q = Tail(receiver) /\ first = Head(receiver)
    OBVIOUS
  <2>6. /\ q \in Seq(Events) /\ first \in Events /\ InOrder(q)
        /\ \A k, o : Sent(receiver, k, o) <=> Sent(q, k, o) \/ (first.kind = k /\ first.run = o)
        /\ \A o : ChunksIn(receiver, o) = ChunksIn(q, o) \cup ChunksOf(first, o)
        /\ first.kind = "finished" => \A k : ~Sent(q, k, first.run)
    BY <1>2, <2>3, <2>5, Behind
  <2>7. receiver' = Append(q, e) /\ complete' = complete \ {first.run} /\ ~current'
    BY <1>1, <1>5, <2>4, <2>5
  <2>8. /\ receiver' \in Seq(Events) /\ InOrder(receiver')
        /\ \A k, o : Sent(receiver', k, o) <=> Sent(q, k, o) \/ (kind = k /\ r = o)
        /\ \A o : ChunksIn(receiver', o) = ChunksIn(q, o) \cup ChunksOf(e, o)
    BY <1>2, <2>6, <2>7, Joined
  <2>9. \A o : o # first.run => ChunksOf(first, o) = {}
    BY DEF ChunksOf
  <2>10. current' = FALSE
    BY <1>1, <1>5
  <2>11. ASSUME NEW o \in ViewedRuns \ {r} PROVE Thinned(o)
    <3>1. ChunksOf(e, o) = {} /\ ChunksIn(receiver', o) = ChunksIn(q, o)
      BY <1>3, <2>8
    <3>2. ASSUME NEW k, Sent(receiver', k, o), Sent(receiver, "finished", o)
          PROVE  Sent(receiver', "finished", o)
      BY <2>6, <2>8, <3>2
    <3> QED
      BY <2>6, <2>7, <2>8, <2>9, <2>10, <3>1, <3>2 DEF Thinned
  <2>12. Joins(kind, r, n)
    BY <1>3, <2>6, <2>7, <2>8, <2>9, <2>10 DEF Joins
  <2> QED
    BY <1>2, <2>7, <2>8, <2>10, <2>11, <2>12
<1> QED
  BY <1>4, <1>5

\* A step of the server about run r leaves the rest as it is.
ServerStep(r) ==
    /\ UNCHANGED clientVars
    /\ undone \subseteq undone'
    /\ \A o \in ViewedRuns \ {r} :
        /\ task'[o] = task[o] /\ record'[o] = record[o]
        /\ produced'[o] = produced[o] /\ buffered'[o] = buffered[o]
        /\ Thinned(o)

(***************************************************************************)
(* A step about a run does not matter to another, whose events may be      *)
(* lost.                                                                   *)
(***************************************************************************)
LEMMA Others ==
  ASSUME ViewIInv, NEW r \in ViewedRuns, ServerStep(r), NEW o \in ViewedRuns \ {r}
  PROVE  RunInv(o)'
<1>1. RunInv(o) /\ UNCHANGED clientVars /\ Thinned(o) /\ undone \subseteq undone'
      /\ task'[o] = task[o] /\ record'[o] = record[o]
      /\ produced'[o] = produced[o] /\ buffered'[o] = buffered[o]
  BY DEF ViewIInv, ServerStep
<1>2. queried' = queried /\ view' = view
  BY <1>1 DEF clientVars
<1>3. (Answer(o) = Answer(o)') /\ (LeftOut(o) <=> LeftOut(o)')
  BY <1>2 DEF Answer, LeftOut
<1>4. Produced(o)' /\ DoneWhenOver(o)' /\ Known(o)'
  BY <1>1, <1>2 DEF RunInv, Produced, DoneWhenOver, Known, Thinned
<1>5. Happened(o)'
  BY <1>1 DEF RunInv, Happened, Thinned
<1>6. StatusComes(o)'
  BY <1>1, <1>3 DEF RunInv, StatusComes, Thinned
<1>7. OutputComes(o)'
  BY <1>1, <1>2 DEF RunInv, OutputComes, Thinned
<1> QED
  BY <1>4, <1>5, <1>6, <1>7 DEF RunInv

(***************************************************************************)
(* So the invariant is kept when it is kept for the run the step is about. *)
(***************************************************************************)
LEMMA ServerKeeps ==
  ASSUME ViewIInv, NEW r \in ViewedRuns, ServerStep(r), ViewTyped', InOrder(receiver'),
         RunInv(r)'
  PROVE  ViewIInv'
<1>1. \A o \in ViewedRuns \ {r} : RunInv(o)'
  BY Others
<1> QED
  BY <1>1 DEF ViewIInv

(***************************************************************************)
(* A step without an event.                                                *)
(***************************************************************************)
LEMMA NothingSent ==
  ASSUME ViewIInv, UNCHANGED eventVars
  PROVE  /\ receiver' = receiver /\ complete' = complete /\ current' = current
         /\ InOrder(receiver') /\ \A o : Thinned(o)
BY DEF eventVars, Thinned, ViewIInv

(***************************************************************************)
(* A record that exists is written again, or stays.                        *)
(***************************************************************************)
LEMMA Rewritten ==
  ASSUME ViewIInv, NEW r \in ViewedRuns, NEW status \in Statuses \ {"none"},
         NEW chunks \in SUBSET Nat, Rewrite(r, status, chunks)
  PROVE  /\ record' \in [ViewedRuns -> Records]
         /\ \A o \in ViewedRuns \ {r} : record'[o] = record[o]
         /\ \/ record[r].status # "none" /\ record'[r] = [status |-> status, chunks |-> chunks]
            \/ record'[r] = record[r]
<1>1. record \in [ViewedRuns -> Records]
  BY DEF ViewIInv, ViewTyped
<1>2. [status |-> status, chunks |-> chunks] \in Records
  BY DEF Records
<1> QED
  BY <1>1, <1>2 DEF Rewrite, InTimeline

(***************************************************************************)
(* create_run.                                                             *)
(***************************************************************************)
LEMMA CreateKeepsView ==
  ASSUME ViewIInv, NEW r \in ViewedRuns, CreateRun(r)
  PROVE  ViewIInv'
<1>1. /\ task[r] = "none" /\ task' = [task EXCEPT ![r] = "created"]
      /\ record' = [record EXCEPT ![r].status = "queued"]
      /\ produced' = produced /\ buffered' = buffered /\ undone' = undone
      /\ UNCHANGED eventVars /\ UNCHANGED clientVars
  BY DEF CreateRun
<1>2. ViewTyped /\ RunInv(r)
  BY DEF ViewIInv
<1>3. /\ receiver' = receiver /\ complete' = complete /\ current' = current
      /\ InOrder(receiver') /\ \A o : Thinned(o)
  BY <1>1, NothingSent
<1>4. queried' = queried /\ view' = view
  BY <1>1 DEF clientVars
<1>5. /\ task' \in [ViewedRuns -> TaskStates] /\ task'[r] = "created"
      /\ \A o \in ViewedRuns \ {r} : task'[o] = task[o]
  BY <1>1, <1>2 DEF ViewTyped, TaskStates
<1>6. /\ record' \in [ViewedRuns -> Records] /\ record'[r].status = "queued"
      /\ record'[r].chunks = record[r].chunks
      /\ \A o \in ViewedRuns \ {r} : record'[o] = record[o]
  BY <1>1, <1>2 DEF ViewTyped, Records, Statuses
<1>7. ViewTyped'
  BY <1>1, <1>2, <1>3, <1>4, <1>5, <1>6 DEF ViewTyped
<1>8. ServerStep(r)
  BY <1>1, <1>3, <1>5, <1>6 DEF ServerStep
<1>9. Answer(r)' = Answer(r)
  BY <1>4 DEF Answer
<1>10. Produced(r)' /\ Happened(r)' /\ DoneWhenOver(r)' /\ Known(r)'
  BY <1>1, <1>2, <1>3, <1>4, <1>5, <1>6
     DEF RunInv, Produced, Happened, DoneWhenOver, Known, NotStarted, EventKinds
<1>11. StatusComes(r)'
  BY <1>5 DEF StatusComes
<1>12. OutputComes(r)'
  BY <1>1, <1>2, <1>3, <1>4, <1>5 DEF RunInv, OutputComes, Happened
<1>13. RunInv(r)'
  BY <1>10, <1>11, <1>12 DEF RunInv
<1> QED
  BY <1>3, <1>7, <1>8, <1>13, ServerKeeps

(***************************************************************************)
(* RunAccepted that cannot be sent.                                        *)
(***************************************************************************)
LEMMA AcceptFailsKeepsView ==
  ASSUME ViewIInv, NEW r \in ViewedRuns, AcceptFails(r)
  PROVE  ViewIInv'
<1>1. /\ task[r] = "created" /\ task' = [task EXCEPT ![r] = "orphan"]
      /\ record' = record /\ produced' = produced /\ buffered' = buffered
      /\ undone' = undone /\ UNCHANGED eventVars /\ UNCHANGED clientVars
  BY DEF AcceptFails
<1>2. ViewTyped /\ RunInv(r)
  BY DEF ViewIInv
<1>3. /\ receiver' = receiver /\ complete' = complete /\ current' = current
      /\ InOrder(receiver') /\ \A o : Thinned(o)
  BY <1>1, NothingSent
<1>4. queried' = queried /\ view' = view
  BY <1>1 DEF clientVars
<1>5. /\ task' \in [ViewedRuns -> TaskStates] /\ task'[r] = "orphan"
      /\ \A o \in ViewedRuns \ {r} : task'[o] = task[o]
  BY <1>1, <1>2 DEF ViewTyped, TaskStates
<1>6. ViewTyped'
  BY <1>1, <1>2, <1>3, <1>4, <1>5 DEF ViewTyped
<1>7. ServerStep(r)
  BY <1>1, <1>3, <1>5 DEF ServerStep
<1>8. Produced(r)' /\ Happened(r)' /\ DoneWhenOver(r)' /\ Known(r)'
  BY <1>1, <1>2, <1>3, <1>4, <1>5
     DEF RunInv, Produced, Happened, DoneWhenOver, Known, NotStarted, EventKinds
<1>9. StatusComes(r)'
  BY <1>5 DEF StatusComes
<1>10. OutputComes(r)'
  BY <1>1, <1>2, <1>3, <1>4, <1>5 DEF RunInv, OutputComes, Happened
<1>11. RunInv(r)'
  BY <1>8, <1>9, <1>10 DEF RunInv
<1> QED
  BY <1>3, <1>6, <1>7, <1>11, ServerKeeps

(***************************************************************************)
(* RunStarted of a queued run.                                             *)
(***************************************************************************)
LEMMA QueuedKeepsView ==
  ASSUME ViewIInv, NEW r \in ViewedRuns, AnnounceQueued(r)
  PROVE  ViewIInv'
<1>1. /\ task[r] = "created" /\ task' = [task EXCEPT ![r] = "queued"]
      /\ SendEvent("started", r, 0)
      /\ record' = record /\ produced' = produced /\ buffered' = buffered
      /\ undone' = undone /\ UNCHANGED clientVars
  BY DEF AnnounceQueued
<1>2. ViewTyped /\ RunInv(r)
  BY DEF ViewIInv
<1>3. /\ ~Sent(receiver, "started", r) /\ ~Sent(receiver, "output", r)
      /\ ~Sent(receiver, "finished", r) /\ ChunksIn(receiver, r) = {}
      /\ produced[r] = 0 /\ 1..0 = {}
  BY <1>1, <1>2 DEF RunInv, Produced, Happened, NotStarted, ViewTyped
<1>4. /\ receiver' \in Seq(Events) /\ InOrder(receiver')
      /\ complete' \subseteq ViewedRuns /\ current' \in BOOLEAN
      /\ \A o \in ViewedRuns \ {r} : Thinned(o)
      /\ Joins("started", r, 0)
  BY <1>1, <1>3, Sending DEF EventKinds
<1>5. queried' = queried /\ view' = view
  BY <1>1 DEF clientVars
<1>6. /\ task' \in [ViewedRuns -> TaskStates] /\ task'[r] = "queued"
      /\ \A o \in ViewedRuns \ {r} : task'[o] = task[o]
  BY <1>1, <1>2 DEF ViewTyped, TaskStates
<1>7. ViewTyped'
  BY <1>1, <1>2, <1>4, <1>5, <1>6 DEF ViewTyped
<1>8. ServerStep(r)
  BY <1>1, <1>4, <1>6 DEF ServerStep
<1>9. /\ Sent(receiver', "started", r) /\ ~Sent(receiver', "output", r)
      /\ ~Sent(receiver', "finished", r) /\ ChunksIn(receiver', r) = {}
  BY <1>3, <1>4 DEF Joins
<1>10. Produced(r)'
  BY <1>1, <1>2, <1>3, <1>5, <1>6, <1>9 DEF RunInv, Produced
<1>11. Happened(r)'
  BY <1>6, <1>9 DEF Happened, NotStarted
<1>12. DoneWhenOver(r)' /\ Known(r)'
  BY <1>1, <1>2, <1>5, <1>6 DEF RunInv, DoneWhenOver, Known
<1>13. StatusComes(r)'
  BY <1>6, <1>9 DEF StatusComes
<1>14. OutputComes(r)'
  BY <1>1, <1>3, <1>9 DEF OutputComes
<1>15. RunInv(r)'
  BY <1>10, <1>11, <1>12, <1>13, <1>14 DEF RunInv
<1> QED
  BY <1>4, <1>7, <1>8, <1>15, ServerKeeps

(***************************************************************************)
(* The task begins.                                                        *)
(***************************************************************************)
LEMMA StartKeepsView ==
  ASSUME ViewIInv, NEW r \in ViewedRuns, StartRun(r)
  PROVE  ViewIInv'
<1>1. /\ task[r] = "queued" /\ task' = [task EXCEPT ![r] = "running"]
      /\ Rewrite(r, "running", {}) /\ SendEvent("started", r, 0)
      /\ produced' = produced /\ buffered' = buffered
      /\ undone' = undone /\ UNCHANGED clientVars
  BY DEF StartRun
<1>2. ViewTyped /\ RunInv(r)
  BY DEF ViewIInv
<1>3. /\ ~Sent(receiver, "output", r) /\ ~Sent(receiver, "finished", r)
      /\ ChunksIn(receiver, r) = {} /\ produced[r] = 0 /\ 1..0 = {}
  BY <1>1, <1>2 DEF RunInv, Produced, Happened, NotStarted, ViewTyped
<1>4. /\ receiver' \in Seq(Events) /\ InOrder(receiver')
      /\ complete' \subseteq ViewedRuns /\ current' \in BOOLEAN
      /\ \A o \in ViewedRuns \ {r} : Thinned(o)
      /\ Joins("started", r, 0)
  BY <1>1, <1>3, Sending DEF EventKinds
<1>5. /\ record' \in [ViewedRuns -> Records]
      /\ \A o \in ViewedRuns \ {r} : record'[o] = record[o]
      /\ \/ record[r].status # "none" /\ record'[r] = [status |-> "running", chunks |-> {}]
         \/ record'[r] = record[r]
  BY <1>1, Rewritten DEF Statuses
<1>6. queried' = queried /\ view' = view
  BY <1>1 DEF clientVars
<1>7. /\ task' \in [ViewedRuns -> TaskStates] /\ task'[r] = "running"
      /\ \A o \in ViewedRuns \ {r} : task'[o] = task[o]
  BY <1>1, <1>2 DEF ViewTyped, TaskStates
<1>8. ViewTyped'
  BY <1>1, <1>2, <1>4, <1>5, <1>6, <1>7 DEF ViewTyped
<1>9. ServerStep(r)
  BY <1>1, <1>4, <1>5, <1>7 DEF ServerStep
<1>10. /\ Sent(receiver', "started", r) /\ ~Sent(receiver', "output", r)
       /\ ~Sent(receiver', "finished", r) /\ ChunksIn(receiver', r) = {}
  BY <1>3, <1>4 DEF Joins
<1>11. Produced(r)'
  BY <1>1, <1>2, <1>3, <1>5, <1>6, <1>7, <1>10 DEF RunInv, Produced, NotStarted
<1>12. Happened(r)'
  BY <1>7, <1>10 DEF Happened, NotStarted
<1>13. DoneWhenOver(r)' /\ Known(r)'
  BY <1>1, <1>2, <1>5, <1>6, <1>7 DEF RunInv, DoneWhenOver, Known
<1>14. StatusComes(r)'
  BY <1>7, <1>10 DEF StatusComes
<1>15. OutputComes(r)'
  BY <1>1, <1>3, <1>10 DEF OutputComes
<1>16. RunInv(r)'
  BY <1>11, <1>12, <1>13, <1>14, <1>15 DEF RunInv
<1> QED
  BY <1>4, <1>8, <1>9, <1>16, ServerKeeps

(***************************************************************************)
(* A chunk of output.                                                      *)
(***************************************************************************)
LEMMA OutputKeepsView ==
  ASSUME ViewIInv, NEW r \in ViewedRuns, Output(r)
  PROVE  ViewIInv'
<1> DEFINE n == produced[r] + 1
<1>1. /\ task[r] = "running" /\ task' = task
      /\ produced' = [produced EXCEPT ![r] = n]
      /\ buffered' = [buffered EXCEPT ![r] = @ \cup {n}]
      /\ SendEvent("output", r, n)
      /\ Rewrite(r, "running", 1..n) \/ record' = record
      /\ undone' = undone /\ UNCHANGED clientVars
  BY DEF Output
<1>2. ViewTyped /\ RunInv(r)
  BY DEF ViewIInv
<1>3. produced[r] \in Nat /\ n \in Nat /\ 1..n \in SUBSET Nat /\ 1..n = 1..produced[r] \cup {n}
  BY <1>2 DEF ViewTyped
<1> HIDE DEF n
<1>4. ~Sent(receiver, "finished", r)
  BY <1>1, <1>2 DEF RunInv, Happened
<1>5. /\ receiver' \in Seq(Events) /\ InOrder(receiver')
      /\ complete' \subseteq ViewedRuns /\ current' \in BOOLEAN
      /\ \A o \in ViewedRuns \ {r} : Thinned(o)
      /\ Joins("output", r, n)
  BY <1>1, <1>3, <1>4, Sending DEF EventKinds
<1>6. /\ record' \in [ViewedRuns -> Records]
      /\ \A o \in ViewedRuns \ {r} : record'[o] = record[o]
      /\ \/ record[r].status # "none" /\ record'[r] = [status |-> "running", chunks |-> 1..n]
         \/ record'[r] = record[r]
  <2>1. CASE record' = record
    BY <1>2, <2>1 DEF ViewTyped
  <2>2. CASE Rewrite(r, "running", 1..n)
    BY <1>3, <2>2, Rewritten DEF Statuses
  <2> QED
    BY <1>1, <2>1, <2>2
<1>7. queried' = queried /\ view' = view
  BY <1>1 DEF clientVars
<1>8. /\ produced' \in [ViewedRuns -> Nat] /\ produced'[r] = n
      /\ \A o \in ViewedRuns \ {r} : produced'[o] = produced[o]
      /\ buffered' \in [ViewedRuns -> SUBSET Nat] /\ buffered'[r] = buffered[r] \cup {n}
      /\ \A o \in ViewedRuns \ {r} : buffered'[o] = buffered[o]
  BY <1>1, <1>2, <1>3 DEF ViewTyped
<1>9. ViewTyped'
  BY <1>1, <1>2, <1>5, <1>6, <1>7, <1>8 DEF ViewTyped
<1>10. ServerStep(r)
  BY <1>1, <1>5, <1>6, <1>8 DEF ServerStep
<1>11. /\ ChunksIn(receiver', r) \subseteq ChunksIn(receiver, r) \cup {n}
       /\ \A k : Sent(receiver', k, r) => Sent(receiver, k, r) \/ k = "output"
       /\ current' => current
       /\ r \in complete' => /\ r \in complete
                             /\ ChunksIn(receiver', r) = ChunksIn(receiver, r) \cup {n}
       /\ current' \/ r \in complete' =>
             (Sent(receiver', "started", r) <=> Sent(receiver, "started", r))
  BY <1>5 DEF Joins
<1>12. Produced(r)'
  BY <1>1, <1>2, <1>3, <1>6, <1>7, <1>8, <1>11 DEF RunInv, Produced, NotStarted
<1>13. Happened(r)'
  BY <1>1, <1>2, <1>4, <1>11 DEF RunInv, Happened, NotStarted
<1>14. DoneWhenOver(r)' /\ Known(r)'
  BY <1>1, <1>2, <1>6, <1>7 DEF RunInv, DoneWhenOver, Known
<1>15. (Answer(r) = Answer(r)') /\ (LeftOut(r) <=> LeftOut(r)')
  BY <1>7 DEF Answer, LeftOut
<1>16. StatusComes(r)'
  BY <1>1, <1>2, <1>11, <1>15 DEF RunInv, StatusComes
<1>17. OutputComes(r)'
  BY <1>1, <1>2, <1>3, <1>7, <1>8, <1>11 DEF RunInv, OutputComes
<1>18. RunInv(r)'
  BY <1>12, <1>13, <1>14, <1>16, <1>17 DEF RunInv
<1> QED
  BY <1>5, <1>9, <1>10, <1>18, ServerKeeps

(***************************************************************************)
(* finish_run.                                                             *)
(***************************************************************************)
LEMMA FinishKeepsView ==
  ASSUME ViewIInv, NEW r \in ViewedRuns, Finish(r)
  PROVE  ViewIInv'
<1>1. /\ task[r] = "running" /\ task' = [task EXCEPT ![r] = "recorded"]
      /\ Rewrite(r, "finished", 1..produced[r])
      /\ buffered' = [buffered EXCEPT ![r] = {}]
      /\ produced' = produced /\ undone' = undone
      /\ UNCHANGED eventVars /\ UNCHANGED clientVars
  BY DEF Finish
<1>2. ViewTyped /\ RunInv(r)
  BY DEF ViewIInv
<1>3. /\ receiver' = receiver /\ complete' = complete /\ current' = current
      /\ InOrder(receiver') /\ \A o : Thinned(o)
  BY <1>1, NothingSent
<1>4. queried' = queried /\ view' = view
  BY <1>1 DEF clientVars
<1>5. /\ task' \in [ViewedRuns -> TaskStates] /\ task'[r] = "recorded"
      /\ \A o \in ViewedRuns \ {r} : task'[o] = task[o]
      /\ buffered' \in [ViewedRuns -> SUBSET Nat] /\ buffered'[r] = {}
      /\ \A o \in ViewedRuns \ {r} : buffered'[o] = buffered[o]
  BY <1>1, <1>2 DEF ViewTyped, TaskStates
<1>6. 1..produced[r] \in SUBSET Nat
  BY <1>2 DEF ViewTyped
<1>7. /\ record' \in [ViewedRuns -> Records]
      /\ \A o \in ViewedRuns \ {r} : record'[o] = record[o]
      /\ \/ /\ record[r].status # "none"
            /\ record'[r] = [status |-> "finished", chunks |-> 1..produced[r]]
         \/ record'[r] = record[r]
  BY <1>1, <1>6, Rewritten DEF Statuses
<1>8. ViewTyped'
  BY <1>1, <1>2, <1>3, <1>4, <1>5, <1>7 DEF ViewTyped
<1>9. ServerStep(r)
  BY <1>1, <1>3, <1>5, <1>7 DEF ServerStep
<1>10. Produced(r)'
  <2>1. Produced(r) /\ produced' = produced
    BY <1>1, <1>2 DEF RunInv
  <2>2. record'[r].chunks \subseteq 1..produced[r]
    <3>1. CASE record'[r] = [status |-> "finished", chunks |-> 1..produced[r]]
      <4>1. record'[r].chunks = 1..produced[r]
        BY <3>1
      <4> QED
        BY <4>1
    <3>2. CASE record'[r] = record[r]
      BY <2>1, <3>2 DEF Produced
    <3> QED
      BY <1>7, <3>1, <3>2
  <2> QED
    BY <1>3, <1>4, <1>5, <2>1, <2>2 DEF Produced, NotStarted
<1>11. Happened(r)'
  BY <1>1, <1>2, <1>3, <1>5 DEF RunInv, Happened, NotStarted
<1>12. DoneWhenOver(r)' /\ Known(r)'
  BY <1>1, <1>2, <1>4, <1>5, <1>7 DEF RunInv, DoneWhenOver, Known
<1>13. StatusComes(r)'
  BY <1>5 DEF StatusComes
<1>14. OutputComes(r)'
  BY <1>1, <1>2, <1>3, <1>4, <1>5 DEF RunInv, OutputComes
<1>15. RunInv(r)'
  BY <1>10, <1>11, <1>12, <1>13, <1>14 DEF RunInv
<1> QED
  BY <1>3, <1>8, <1>9, <1>15, ServerKeeps

(***************************************************************************)
(* RunFinished.                                                            *)
(***************************************************************************)
LEMMA AnnounceKeepsView ==
  ASSUME ViewIInv, NEW r \in ViewedRuns, AnnounceRunFinished(r)
  PROVE  ViewIInv'
<1>1. /\ task[r] = "recorded" /\ task' = [task EXCEPT ![r] = "finished"]
      /\ SendEvent("finished", r, 0)
      /\ record' = record /\ produced' = produced /\ buffered' = buffered
      /\ undone' = undone /\ UNCHANGED clientVars
  BY DEF AnnounceRunFinished
<1>2. ViewTyped /\ RunInv(r)
  BY DEF ViewIInv
<1>3. ~Sent(receiver, "finished", r)
  BY <1>1, <1>2 DEF RunInv, Happened
<1>4. /\ receiver' \in Seq(Events) /\ InOrder(receiver')
      /\ complete' \subseteq ViewedRuns /\ current' \in BOOLEAN
      /\ \A o \in ViewedRuns \ {r} : Thinned(o)
      /\ Joins("finished", r, 0)
  BY <1>1, <1>3, Sending DEF EventKinds
<1>5. queried' = queried /\ view' = view
  BY <1>1 DEF clientVars
<1>6. /\ task' \in [ViewedRuns -> TaskStates] /\ task'[r] = "finished"
      /\ \A o \in ViewedRuns \ {r} : task'[o] = task[o]
  BY <1>1, <1>2 DEF ViewTyped, TaskStates
<1>7. ViewTyped'
  BY <1>1, <1>2, <1>4, <1>5, <1>6 DEF ViewTyped
<1>8. ServerStep(r)
  BY <1>1, <1>4, <1>6 DEF ServerStep
<1>9. /\ Sent(receiver', "finished", r)
      /\ ChunksIn(receiver', r) \subseteq ChunksIn(receiver, r)
      /\ Sent(receiver', "started", r) => Sent(receiver, "started", r)
      /\ Sent(receiver', "output", r) => Sent(receiver, "output", r)
      /\ r \in complete' =>
            /\ r \in complete /\ ChunksIn(receiver', r) = ChunksIn(receiver, r)
            /\ Sent(receiver', "started", r) <=> Sent(receiver, "started", r)
  BY <1>4 DEF Joins
<1>10. Produced(r)'
  BY <1>1, <1>2, <1>5, <1>6, <1>9 DEF RunInv, Produced, NotStarted
<1>11. Happened(r)'
  BY <1>6, <1>9 DEF Happened, NotStarted
<1>12. DoneWhenOver(r)' /\ Known(r)'
  BY <1>1, <1>2, <1>5, <1>6 DEF RunInv, DoneWhenOver, Known
<1>13. StatusComes(r)'
  BY <1>6, <1>9 DEF StatusComes
<1>14. OutputComes(r)'
  BY <1>1, <1>2, <1>5, <1>6, <1>9 DEF RunInv, OutputComes
<1>15. RunInv(r)'
  BY <1>10, <1>11, <1>12, <1>13, <1>14 DEF RunInv
<1> QED
  BY <1>4, <1>7, <1>8, <1>15, ServerKeeps

(***************************************************************************)
(* Another run's update puts the record back.                              *)
(***************************************************************************)
LEMMA UndoKeepsView ==
  ASSUME ViewIInv, NEW r \in ViewedRuns, UndoRecord(r)
  PROVE  ViewIInv'
<1>1. PICK status \in EarlierStatuses[record[r].status], n \in 0..MaxOutput :
        /\ 1..n \subseteq record[r].chunks
        /\ record' = [record EXCEPT ![r] = [status |-> status, chunks |-> 1..n]]
  BY DEF UndoRecord
<1>2. /\ undone' = undone \cup {r} /\ task' = task /\ produced' = produced
      /\ buffered' = buffered /\ UNCHANGED eventVars /\ UNCHANGED clientVars
  BY DEF UndoRecord
<1>3. ViewTyped /\ RunInv(r)
  BY DEF ViewIInv
<1>4. /\ receiver' = receiver /\ complete' = complete /\ current' = current
      /\ InOrder(receiver') /\ \A o : Thinned(o)
  BY <1>2, NothingSent
<1>5. queried' = queried /\ view' = view
  BY <1>2 DEF clientVars
<1>6. record[r].status \in Statuses
  BY <1>3 DEF ViewTyped, Records
<1>7. status \in Statuses \ {"finished"}
  BY <1>6 DEF EarlierStatuses, Statuses
<1>8. 1..n \in SUBSET Nat
  BY RunViewAssumption
<1>9. [status |-> status, chunks |-> 1..n] \in Records
  BY <1>7, <1>8 DEF Records
<1>10. /\ record' \in [ViewedRuns -> Records]
       /\ record'[r] = [status |-> status, chunks |-> 1..n]
       /\ \A o \in ViewedRuns \ {r} : record'[o] = record[o]
  BY <1>1, <1>3, <1>9 DEF ViewTyped
<1>11. ViewTyped'
  BY <1>2, <1>3, <1>4, <1>5, <1>10 DEF ViewTyped
<1>12. ServerStep(r)
  BY <1>2, <1>4, <1>10 DEF ServerStep
<1>13. Produced(r)'
  BY <1>1, <1>2, <1>3, <1>4, <1>5, <1>10 DEF RunInv, Produced
<1>14. Happened(r)'
  BY <1>2, <1>3, <1>4 DEF RunInv, Happened
<1>15. DoneWhenOver(r)' /\ Known(r)' /\ StatusComes(r)'
  BY <1>2, <1>3, <1>5, <1>7, <1>10 DEF RunInv, DoneWhenOver, Known, StatusComes
<1>16. OutputComes(r)'
  BY <1>2, <1>3, <1>4, <1>5 DEF RunInv, OutputComes
<1>17. RunInv(r)'
  BY <1>13, <1>14, <1>15, <1>16 DEF RunInv
<1> QED
  BY <1>4, <1>11, <1>12, <1>17, ServerKeeps

(***************************************************************************)
(* The client's own steps.                                                 *)
(***************************************************************************)
LEMMA QueryKeepsView ==
  ASSUME ViewIInv, RunQuery
  PROVE  ViewIInv'
<1>1. PICK latest \in SUBSET InTimeline :
        /\ latest = InTimeline \/ Cardinality(latest) = RunLimit
        /\ queried' = [pc |-> "answer", records |-> record, latest |-> latest]
  BY DEF RunQuery
<1>2. /\ queried.pc = "idle" /\ current' = TRUE /\ task' = task /\ record' = record
      /\ produced' = produced /\ buffered' = buffered /\ undone' = undone
      /\ receiver' = receiver /\ view' = view /\ complete' = complete
  BY DEF RunQuery, serverVars
<1>3. ViewTyped /\ InOrder(receiver)
  BY DEF ViewIInv
<1>4. queried'.pc = "answer" /\ queried'.records = record /\ queried'.latest = latest
  BY <1>1
<1>5. ViewTyped'
  BY <1>1, <1>2, <1>3 DEF ViewTyped, InTimeline
<1>6. ASSUME NEW r \in ViewedRuns PROVE RunInv(r)'
  <2>1. RunInv(r)
    BY DEF ViewIInv
  <2>2. Produced(r)' /\ Happened(r)' /\ DoneWhenOver(r)' /\ Known(r)' /\ OutputComes(r)'
    BY <1>2, <1>4, <2>1 DEF RunInv, Produced, Happened, DoneWhenOver, Known, OutputComes
  <2>3. Answer(r)' = IF r \in latest THEN ShownStatus(record[r].status) ELSE "unknown"
    BY <1>4 DEF Answer
  <2>4. LeftOut(r)' <=> r \notin latest /\ Cardinality(latest) = RunLimit
    BY <1>4 DEF LeftOut
  <2>5. StatusComes(r)'
    <3>1. CASE r \in latest
      BY <1>2, <2>1, <2>3, <3>1 DEF RunInv, DoneWhenOver, StatusComes, ShownStatus
    <3>2. CASE r \notin latest
      <4>1. LeftOut(r)' \/ record[r].status = "none"
        BY <1>1, <2>4, <3>2 DEF InTimeline
      <4> QED
        BY <1>2, <2>1, <2>3, <3>2, <4>1 DEF RunInv, Known, StatusComes
    <3> QED
      BY <3>1, <3>2
  <2> QED
    BY <2>2, <2>5 DEF RunInv
<1> QED
  BY <1>2, <1>3, <1>5, <1>6 DEF ViewIInv

(***************************************************************************)
(* A query that finds no timeline.                                         *)
(***************************************************************************)
LEMMA QueryFailsKeepsView ==
  ASSUME ViewIInv, RunQueryFails
  PROVE  ViewIInv'
<1>1. /\ task' = task /\ record' = record /\ produced' = produced /\ buffered' = buffered
      /\ undone' = undone /\ receiver' = receiver /\ complete' = complete
      /\ current' = current /\ queried' = queried /\ view' = view
  BY DEF RunQueryFails, eventVars
<1> QED
  BY <1>1 DEF ViewIInv, ViewTyped, RunInv, Produced, Happened, DoneWhenOver, Known, StatusComes,
     OutputComes, Answer, LeftOut

(***************************************************************************)
(* The client connects again, and its list is emptied.                     *)
(***************************************************************************)
LEMMA ReconnectKeepsView ==
  ASSUME ViewIInv, Reconnect
  PROVE  ViewIInv'
<1>1. /\ task' = task /\ record' = record /\ produced' = produced /\ buffered' = buffered
      /\ undone' = undone /\ receiver' = <<>> /\ queried' = NothingRead
      /\ view' = [r \in ViewedRuns |-> Unseen] /\ current' = FALSE
      /\ complete' = {r \in ViewedRuns : task[r] \in {"none", "created"}}
  BY DEF Reconnect, serverVars
<1>2. ViewTyped
  BY DEF ViewIInv
<1>3. DOMAIN receiver' = {} /\ receiver' \in Seq(Events)
  BY <1>1
<1>4. NothingRead \in [pc : {"idle", "answer"}, records : [ViewedRuns -> Records],
                       latest : SUBSET ViewedRuns]
  BY DEF NothingRead, NoRecord, Records, Statuses
<1>5. ViewTyped'
  BY <1>1, <1>2, <1>3, <1>4 DEF ViewTyped, Unseen
<1>6. InOrder(receiver')
  BY <1>3 DEF InOrder
<1>7. ASSUME NEW r \in ViewedRuns PROVE RunInv(r)'
  <2>1. RunInv(r)
    BY DEF ViewIInv
  <2>2. (\A kind : ~Sent(receiver', kind, r)) /\ ChunksIn(receiver', r) = {}
    BY <1>3 DEF Sent, ChunksIn
  <2>3. /\ view'[r] = Unseen /\ Unseen.status = "unknown" /\ Unseen.chunks = {}
        /\ queried'.records[r].status = "none" /\ queried'.records[r].chunks = {}
    BY <1>1 DEF Unseen, NothingRead, NoRecord
  <2>4. Produced(r)' /\ Happened(r)' /\ DoneWhenOver(r)' /\ Known(r)'
    BY <1>1, <2>1, <2>2, <2>3 DEF RunInv, Produced, Happened, DoneWhenOver, Known
  <2>5. StatusComes(r)' /\ OutputComes(r)'
    BY <1>1, <2>2 DEF StatusComes, OutputComes
  <2> QED
    BY <2>4, <2>5 DEF RunInv
<1> QED
  BY <1>5, <1>6, <1>7 DEF ViewIInv

(***************************************************************************)
(* The answer and the replay of the buffered chunks.                       *)
(***************************************************************************)
LEMMA AnswerKeepsView ==
  ASSUME ViewIInv, build_run_state_responses
  PROVE  ViewIInv'
<1> DEFINE chunks(r) == view[r].chunks \cup Replay(r)
<1>1. /\ queried.pc = "answer"
      /\ view' = [r \in ViewedRuns |->
                    IF r \notin queried.latest THEN Unseen
                    ELSE [status |-> ShownStatus(queried.records[r].status),
                          chunks |-> chunks(r)]]
      /\ queried' = [NothingRead EXCEPT !.latest = queried.latest]
      /\ complete' = {r \in complete : r \in queried.latest \/ view[r] = Unseen}
      /\ task' = task /\ record' = record /\ produced' = produced /\ buffered' = buffered
      /\ undone' = undone /\ receiver' = receiver /\ current' = current
  BY DEF build_run_state_responses, ShowAnswer, serverVars
<1>2. ViewTyped /\ InOrder(receiver)
  BY DEF ViewIInv
<1>3. /\ queried' \in [pc : {"idle", "answer"}, records : [ViewedRuns -> Records],
                       latest : SUBSET ViewedRuns]
      /\ queried'.pc = "idle" /\ queried'.latest = queried.latest
      /\ queried'.records = [r \in ViewedRuns |-> NoRecord]
  BY <1>1, <1>2 DEF NothingRead, NoRecord, Records, Statuses, ViewTyped
<1>4. ASSUME NEW r \in ViewedRuns
      PROVE  /\ chunks(r) \subseteq 1..produced[r] /\ view[r].chunks \subseteq chunks(r)
             /\ chunks(r) \in SUBSET Nat
  <2>1. RunInv(r) /\ produced[r] \in Nat
    BY <1>2 DEF ViewIInv, ViewTyped
  <2>2. Replay(r) \subseteq 1..produced[r]
    BY <2>1 DEF Replay, RunInv, Produced
  <2> QED
    BY <2>1, <2>2 DEF RunInv, Produced
<1> HIDE DEF chunks
<1>5. \A r \in ViewedRuns : ShownStatus(queried.records[r].status) \in {"pending", "finished"}
  BY DEF ShownStatus
<1>6. ViewTyped'
  BY <1>1, <1>2, <1>3, <1>4, <1>5 DEF ViewTyped, Unseen
<1>7. ASSUME NEW r \in ViewedRuns PROVE RunInv(r)'
  <2>1. RunInv(r)
    BY DEF ViewIInv
  <2>2. /\ queried'.records[r].status = "none" /\ queried'.records[r].chunks = {}
        /\ view'[r] = (IF r \notin queried.latest THEN Unseen
                       ELSE [status |-> ShownStatus(queried.records[r].status),
                             chunks |-> chunks(r)])
        /\ Unseen.status = "unknown" /\ Unseen.chunks = {}
    BY <1>1, <1>3 DEF NoRecord, Unseen
  <2>3. Produced(r)'
    BY <1>1, <1>4, <2>1, <2>2 DEF RunInv, Produced
  <2>4. Happened(r)'
    BY <1>1, <2>1 DEF RunInv, Happened
  <2>5. DoneWhenOver(r)'
    BY <1>1, <2>1, <2>2 DEF RunInv, DoneWhenOver, ShownStatus
  <2>6. Known(r)'
    BY <1>1, <1>5, <2>1, <2>2 DEF RunInv, Known
  <2>7. Answer(r)' = Answer(r)
    BY <1>1, <1>3, <2>2 DEF Answer
  <2>8. LeftOut(r)' <=> LeftOut(r)
    BY <1>3 DEF LeftOut
  <2>9. StatusComes(r)'
    BY <1>1, <2>1, <2>7, <2>8 DEF RunInv, StatusComes
  <2>10. ASSUME r \in complete', ~Sent(receiver', "started", r),
                task'[r] \notin {"none", "created", "orphan"}
         PROVE  /\ view'[r] # Unseen
                /\ view'[r].chunks \cup ChunksIn(receiver', r) = 1..produced'[r]
    <3>1. /\ view[r] # Unseen /\ r \in queried.latest
          /\ view[r].chunks \cup ChunksIn(receiver, r) = 1..produced[r]
      BY <1>1, <2>1, <2>10 DEF RunInv, OutputComes
    <3>2. /\ view'[r].status # "unknown" /\ view'[r].chunks = chunks(r)
      BY <1>5, <2>2, <3>1
    <3>3. view'[r] # Unseen
      BY <2>2, <3>2
    <3> QED
      BY <1>1, <1>4, <3>1, <3>2, <3>3
  <2>11. OutputComes(r)'
    <3>1. r \in complete' /\ Sent(receiver', "started", r)
            => ChunksIn(receiver', r) = 1..produced'[r]
      BY <1>1, <2>1 DEF RunInv, OutputComes
    <3> QED
      BY <2>10, <3>1 DEF OutputComes
  <2> QED
    BY <2>3, <2>4, <2>5, <2>6, <2>9, <2>11 DEF RunInv
<1> QED
  BY <1>1, <1>2, <1>6, <1>7 DEF ViewIInv

(***************************************************************************)
(* An event.                                                               *)
(***************************************************************************)
LEMMA ReceiveKeepsView ==
  ASSUME ViewIInv, ReceiveEvent
  PROVE  ViewIInv'
<1>1. PICK event, q : event = Head(receiver) /\ q = Tail(receiver)
  OBVIOUS
<1> DEFINE o == event.run
           new == CASE event.kind = "started" -> [status |-> "pending", chunks |-> {}]
                    [] event.kind = "output" /\ view[o] # Unseen ->
                          [view[o] EXCEPT !.chunks = @ \cup {event.chunk}]
                    [] event.kind = "finished" -> [view[o] EXCEPT !.status = "finished"]
                    [] OTHER -> view[o]
<1>2. /\ queried.pc = "idle" /\ receiver # <<>>
      /\ view' = [view EXCEPT ![o] = new] /\ receiver' = q
      /\ task' = task /\ record' = record /\ produced' = produced /\ buffered' = buffered
      /\ undone' = undone /\ queried' = queried /\ complete' = complete
      /\ current' = current
  BY <1>1 DEF ReceiveEvent, serverVars
<1>3. ViewTyped /\ InOrder(receiver)
  BY DEF ViewIInv
<1>4. /\ q \in Seq(Events) /\ event \in Events /\ InOrder(q)
      /\ \A kind, r : Sent(receiver, kind, r) <=> \/ Sent(q, kind, r)
                                                  \/ event.kind = kind /\ event.run = r
      /\ \A r : ChunksIn(receiver, r) = ChunksIn(q, r) \cup ChunksOf(event, r)
      /\ event.kind # "started" => ~Sent(q, "started", event.run)
      /\ event.kind = "finished" => \A kind : ~Sent(q, kind, event.run)
  BY <1>1, <1>2, <1>3, Behind DEF ViewTyped
<1>5. /\ o \in ViewedRuns /\ event.kind \in EventKinds /\ event.chunk \in Nat
      /\ view[o] \in [status : {"unknown", "pending", "finished"}, chunks : SUBSET Nat]
  BY <1>3, <1>4 DEF Events, ViewTyped
<1>6. /\ event.kind = "started" => new.status = "pending" /\ new.chunks = {}
      /\ event.kind = "output" /\ view[o] # Unseen =>
            new.status = view[o].status /\ new.chunks = view[o].chunks \cup {event.chunk}
      /\ event.kind = "output" /\ view[o] = Unseen => new = view[o]
      /\ event.kind = "finished" => new.status = "finished" /\ new.chunks = view[o].chunks
      /\ new \in [status : {"unknown", "pending", "finished"}, chunks : SUBSET Nat]
  BY <1>5 DEF EventKinds
<1> HIDE DEF new
<1>7. view'[o] = new /\ \A r \in ViewedRuns \ {o} : view'[r] = view[r]
  BY <1>2, <1>3, <1>5 DEF ViewTyped
<1>8. view' \in [ViewedRuns -> [status : {"unknown", "pending", "finished"},
                                chunks : SUBSET Nat]]
  BY <1>2, <1>3, <1>5, <1>6 DEF ViewTyped
<1>9. ViewTyped'
  BY <1>2, <1>3, <1>4, <1>8 DEF ViewTyped
<1>10. ASSUME NEW r \in ViewedRuns \ {o} PROVE RunInv(r)'
  <2>1. RunInv(r)
    BY DEF ViewIInv
  <2>2. /\ \A kind : Sent(receiver', kind, r) <=> Sent(receiver, kind, r)
        /\ ChunksIn(receiver', r) = ChunksIn(receiver, r)
        /\ view'[r] = view[r]
    BY <1>2, <1>4, <1>7 DEF ChunksOf
  <2>3. Produced(r)' /\ Happened(r)' /\ DoneWhenOver(r)' /\ Known(r)'
    BY <1>2, <2>1, <2>2 DEF RunInv, Produced, Happened, DoneWhenOver, Known
  <2>4. (Answer(r) = Answer(r)') /\ (LeftOut(r) <=> LeftOut(r)')
    BY <1>2, <2>2 DEF Answer, LeftOut
  <2>5. StatusComes(r)'
    BY <1>2, <2>1, <2>2, <2>4 DEF RunInv, StatusComes
  <2>6. OutputComes(r)'
    BY <1>2, <2>1, <2>2 DEF RunInv, OutputComes
  <2> QED
    BY <2>3, <2>5, <2>6 DEF RunInv
<1>11. RunInv(o)'
  <2>1. RunInv(o)
    BY <1>5 DEF ViewIInv
  <2>2. /\ \A kind : Sent(receiver', kind, o) => Sent(receiver, kind, o)
        /\ \A kind : kind # event.kind =>
                (Sent(receiver', kind, o) <=> Sent(receiver, kind, o))
        /\ Sent(receiver, event.kind, o)
        /\ ChunksIn(receiver, o) = ChunksIn(receiver', o) \cup ChunksOf(event, o)
        /\ event.kind # "started" => ~Sent(receiver', "started", o)
        /\ event.kind = "finished" => \A kind : ~Sent(receiver', kind, o)
    BY <1>2, <1>4
  <2>3. ChunksOf(event, o) = IF event.kind = "output" THEN {event.chunk} ELSE {}
    BY DEF ChunksOf
  <2>4. event.chunk \in 1..produced[o] \/ event.kind # "output"
    BY <2>1, <2>2, <2>3 DEF RunInv, Produced
  <2>5. Produced(o)'
    <3>1. view'[o].chunks \subseteq 1..produced[o]
      BY <1>5, <1>6, <1>7, <2>1, <2>4 DEF RunInv, Produced, EventKinds
    <3> QED
      BY <1>2, <2>1, <2>2, <3>1 DEF RunInv, Produced
  <2>6. Happened(o)'
    <3>1. task[o] = "finished" /\ (\E kind \in EventKinds : Sent(receiver', kind, o))
            => event.kind # "finished" /\ Sent(receiver, "finished", o)
      BY <2>1, <2>2 DEF RunInv, Happened
    <3> QED
      BY <1>2, <2>1, <2>2, <3>1 DEF RunInv, Happened
  <2>7. DoneWhenOver(o)'
    BY <1>2, <1>5, <1>6, <1>7, <2>1, <2>2 DEF RunInv, DoneWhenOver, Happened, EventKinds
  <2>8. Known(o)'
    BY <1>2, <1>5, <1>6, <1>7, <2>1 DEF RunInv, Known, EventKinds
  <2>9. /\ Answer(o) = view[o].status /\ Answer(o)' = view'[o].status
        /\ (LeftOut(o) <=> LeftOut(o)')
    BY <1>2 DEF Answer, LeftOut
  <2>10. StatusComes(o)'
    <3>1. CASE event.kind = "started"
      <4>1. task[o] = "finished" => Sent(receiver', "finished", o)
        BY <2>1, <2>2, <3>1 DEF RunInv, Happened, EventKinds
      <4>2. Answer(o)' = "pending"
        BY <1>6, <1>7, <2>9, <3>1
      <4> QED
        BY <1>2, <4>1, <4>2 DEF StatusComes
    <3>2. CASE event.kind = "output"
      <4>1. Answer(o)' = Answer(o)
        BY <1>6, <1>7, <2>9, <3>2
      <4>2. \A kind \in {"started", "finished"} :
                Sent(receiver', kind, o) <=> Sent(receiver, kind, o)
        BY <2>2, <3>2
      <4> QED
        BY <1>2, <2>1, <2>9, <4>1, <4>2 DEF RunInv, StatusComes
    <3>3. CASE event.kind = "finished"
      <4>1. task[o] = "finished"
        BY <2>1, <2>2, <3>3 DEF RunInv, Happened
      <4>2. Answer(o)' = "finished"
        BY <1>6, <1>7, <2>9, <3>3
      <4> QED
        BY <1>2, <4>1, <4>2 DEF StatusComes
    <3> QED
      BY <1>5, <3>1, <3>2, <3>3 DEF EventKinds
  <2>11. OutputComes(o)'
    <3> SUFFICES ASSUME o \in complete
                 PROVE  IF Sent(receiver', "started", o)
                        THEN ChunksIn(receiver', o) = 1..produced[o]
                        ELSE task[o] \notin {"none", "created", "orphan"} =>
                            /\ view'[o] # Unseen
                            /\ view'[o].chunks \cup ChunksIn(receiver', o) = 1..produced[o]
      BY <1>2 DEF OutputComes
    <3>1. CASE event.kind = "started"
      <4>1. ChunksIn(receiver', o) = 1..produced[o]
        BY <2>1, <2>2, <2>3, <3>1 DEF RunInv, OutputComes
      <4>2. view'[o] # Unseen /\ view'[o].chunks = {}
        BY <1>6, <1>7, <3>1 DEF Unseen
      <4> QED
        BY <4>1, <4>2
    <3>2. CASE event.kind # "started"
      <4>1. ~Sent(receiver', "started", o) /\ ~Sent(receiver, "started", o)
        BY <2>2, <3>2
      <4>2. task[o] \notin {"none", "created", "orphan"}
        BY <1>5, <2>1, <2>2, <3>2 DEF RunInv, Happened, EventKinds, NotStarted
      <4>3. view[o] # Unseen /\ view[o].chunks \cup ChunksIn(receiver, o) = 1..produced[o]
        BY <2>1, <4>1, <4>2 DEF RunInv, OutputComes
      <4>4. view[o].status # "unknown"
        BY <2>1, <4>3 DEF RunInv, Known
      <4>5. view'[o].status # "unknown"
        BY <1>5, <1>6, <1>7, <3>2, <4>3, <4>4 DEF EventKinds
      <4>6. view'[o] # Unseen
        BY <4>5 DEF Unseen
      <4>7. CASE event.kind = "output"
        BY <1>6, <1>7, <2>2, <2>3, <4>1, <4>3, <4>6, <4>7
      <4>8. CASE event.kind = "finished"
        BY <1>6, <1>7, <2>2, <2>3, <4>1, <4>3, <4>6, <4>8
      <4> QED
        BY <1>5, <3>2, <4>7, <4>8 DEF EventKinds
    <3> QED
      BY <3>1, <3>2
  <2> QED
    BY <2>5, <2>6, <2>7, <2>8, <2>10, <2>11 DEF RunInv
<1> QED
  BY <1>2, <1>4, <1>9, <1>10, <1>11 DEF ViewIInv

(***************************************************************************)
(* The initial state.                                                      *)
(***************************************************************************)
LEMMA InitView == ViewInit => ViewIInv
<1> SUFFICES ASSUME ViewInit PROVE ViewIInv
  OBVIOUS
<1>1. /\ task = [r \in ViewedRuns |-> "none"]
      /\ record = [r \in ViewedRuns |-> [status |-> "none", chunks |-> {}]]
      /\ produced = [r \in ViewedRuns |-> 0] /\ buffered = [r \in ViewedRuns |-> {}]
      /\ receiver = <<>> /\ complete = ViewedRuns /\ current = TRUE
      /\ queried = [pc |-> "idle", records |-> record, latest |-> {}]
      /\ view = [r \in ViewedRuns |-> Unseen]
  BY DEF ViewInit, NothingRead, NoRecord
<1>2. DOMAIN receiver = {} /\ receiver \in Seq(Events)
  BY <1>1
<1>3. ViewTyped
  BY <1>1, <1>2 DEF ViewTyped, TaskStates, Records, Statuses, Unseen
<1>4. InOrder(receiver)
  BY <1>2 DEF InOrder
<1>5. ASSUME NEW r \in ViewedRuns PROVE RunInv(r)
  <2>1. (\A kind : ~Sent(receiver, kind, r)) /\ ChunksIn(receiver, r) = {}
    BY <1>2 DEF Sent, ChunksIn
  <2>2. task[r] = "none"
    BY <1>1
  <2>3. Produced(r) /\ Happened(r) /\ DoneWhenOver(r) /\ Known(r)
    BY <1>1, <2>1 DEF Produced, Happened, DoneWhenOver, Known, Unseen
  <2> QED
    BY <2>1, <2>2, <2>3 DEF RunInv, StatusComes, OutputComes
<1> QED
  BY <1>3, <1>4, <1>5 DEF ViewIInv

(***************************************************************************)
(* Every step keeps the invariant.                                         *)
(***************************************************************************)
LEMMA ViewStep ==
  ASSUME ViewIInv, [ViewNext]_viewVars
  PROVE  ViewIInv'
<1>1. CASE UNCHANGED viewVars
  BY <1>1 DEF viewVars, ViewIInv, ViewTyped, RunInv, Produced, Happened, DoneWhenOver, Known,
     StatusComes, OutputComes, Answer, LeftOut
<1>2. ASSUME NEW r \in ViewedRuns,
             \/ CreateRun(r) \/ AcceptFails(r) \/ AnnounceQueued(r) \/ StartRun(r)
             \/ Output(r) \/ Finish(r) \/ AnnounceRunFinished(r) \/ UndoRecord(r)
      PROVE  ViewIInv'
  BY <1>2, CreateKeepsView, AcceptFailsKeepsView, QueuedKeepsView, StartKeepsView,
     OutputKeepsView, FinishKeepsView, AnnounceKeepsView, UndoKeepsView
<1>3. CASE RunQuery \/ RunQueryFails \/ build_run_state_responses \/ Reconnect \/ ReceiveEvent
  BY <1>3, QueryKeepsView, QueryFailsKeepsView, AnswerKeepsView, ReconnectKeepsView,
     ReceiveKeepsView
<1> QED
  BY <1>1, <1>2, <1>3 DEF ViewNext

(***************************************************************************)
(* No run is shown as over that is not.  Once the client has received what *)
(* is under way, it shows every run as far as it is recorded, unless it    *)
(* lost events and has not asked again or the limit of its query left the  *)
(* run out; and it shows all the output of a run none of whose events it   *)
(* lost (executionSlice.ts, handlers/mod.rs).                              *)
(***************************************************************************)
THEOREM TheViewCatchesUp == ViewSpec => []ViewCatchesUp
<1>1. ViewInit => ViewIInv
  BY InitView
<1>2. ViewIInv /\ [ViewNext]_viewVars => ViewIInv'
  BY ViewStep
<1>3. ViewIInv => ViewCatchesUp
  <2> SUFFICES ASSUME ViewIInv, NEW r \in ViewedRuns
               PROVE  /\ view[r].status = "finished" => task[r] \in {"recorded", "finished"}
                      /\ ViewQuiet /\ current /\ r \notin undone
                                /\ ~(view[r] = Unseen /\ LeftOut(r)) =>
                            /\ task[r] \in {"queued", "running"} => view[r].status = "pending"
                            /\ task[r] = "finished" =>
                                  /\ view[r] # Unseen
                                  /\ record[r].status = "finished"
                                        => view[r].status = "finished"
                      /\ ViewQuiet /\ r \in complete => view[r].chunks = 1..produced[r]
    BY DEF ViewCatchesUp
  <2>1. RunInv(r) /\ ViewTyped
    BY DEF ViewIInv
  <2>2. view[r].status = "finished" => task[r] \in {"recorded", "finished"}
    BY <2>1 DEF RunInv, DoneWhenOver
  <2>3. ASSUME ViewQuiet
        PROVE  /\ (\A kind : ~Sent(receiver, kind, r)) /\ ChunksIn(receiver, r) = {}
               /\ Answer(r) = view[r].status
    BY <2>3 DEF ViewQuiet, Sent, ChunksIn, Answer
  <2>4. view[r].status = "unknown" <=> view[r] = Unseen
    BY <2>1 DEF RunInv, Known, Unseen
  <2>5. ASSUME ViewQuiet, current, r \notin undone, ~(view[r] = Unseen /\ LeftOut(r))
        PROVE  /\ task[r] \in {"queued", "running"} => view[r].status = "pending"
               /\ task[r] = "finished" =>
                     /\ view[r] # Unseen
                     /\ record[r].status = "finished" => view[r].status = "finished"
    BY <2>1, <2>3, <2>4, <2>5 DEF RunInv, StatusComes
  <2>6. ASSUME ViewQuiet, r \in complete
        PROVE  view[r].chunks = 1..produced[r]
    <3>1. CASE task[r] \in {"none", "created", "orphan"}
      <4>1. produced[r] = 0 /\ view[r].chunks \subseteq 1..produced[r]
        BY <2>1, <3>1 DEF RunInv, Produced, NotStarted
      <4> QED
        BY <4>1
    <3>2. CASE task[r] \notin {"none", "created", "orphan"}
      BY <2>1, <2>3, <2>6, <3>2 DEF RunInv, OutputComes
    <3> QED
      BY <3>1, <3>2
  <2> QED
    BY <2>2, <2>5, <2>6
<1> QED
  BY <1>1, <1>2, <1>3, PTL DEF ViewSpec

-----------------------------------------------------------------------------
(***************************************************************************)
(* FileTree.  What is shown of a folder and is out of date is made good    *)
(* by something under way (WillCatchUp): news of the folder, a listing of  *)
(* it that is going to be asked for or has been, or the same for a folder  *)
(* above it, with whose new listing the client forgets this one.  So it is *)
(* with an answer on its way that is out of date (AnswersCatchUp), which   *)
(* is why the last answer to arrive cannot be an old one.  An operation    *)
(* keeps that because its events name, for every folder whose content has  *)
(* changed or that is lost, a folder at or above it that is there (Heard). *)
(* A listing that fails or comes too late makes nothing good: the client   *)
(* gave it up, with the folders below it, until it takes another one, and  *)
(* then it shows this folder anew and has forgotten those below.           *)
(***************************************************************************)

\* The names that occur in paths, and every path over them.
PathNames == UNION {Range(p) : p \in TreePaths}
Paths == Seq(PathNames)

\* The project's paths are paths over its names, and none is the root.
LEMMA PathsOfProject ==
    ASSUME FileTreeAssumption PROVE TreePaths \subseteq Paths \ {RootPath}
<1> SUFFICES ASSUME NEW p \in TreePaths PROVE p \in Paths \ {RootPath}
  OBVIOUS
<1>1. p \in Seq(Range(p)) /\ Range(p) \subseteq PathNames /\ p # RootPath
  BY DEF FileTreeAssumption, PathNames, RootPath
<1> QED BY <1>1, SeqMonotonic DEF Paths

-----------------------------------------------------------------------------
(* Paths and their prefixes.                                               *)

\* What SubSeq(f, 1, n) and Front(f) are.
LEMMA PrefixOfPath ==
    ASSUME NEW f \in Paths, NEW n \in 0..Len(f)
    PROVE  /\ SubSeq(f, 1, n) \in Paths /\ Len(SubSeq(f, 1, n)) = n
           /\ \A i \in 1..n : SubSeq(f, 1, n)[i] = f[i]
<1>1. Len(f) \in Nat /\ \A i \in 1..n : f[i] \in PathNames
  BY DEF Paths
<1> QED BY <1>1, SubSeqProperties DEF Paths

\* Paths with the same names are the same.
LEMMA SamePath ==
    ASSUME NEW f \in Paths, NEW g \in Paths, Len(f) = Len(g), \A i \in 1..Len(f) : f[i] = g[i]
    PROVE  f = g
BY SeqEqual DEF Paths

\* One path is a prefix of another.
LEMMA PrefixByNames ==
    ASSUME NEW f \in Paths, NEW g \in Paths
    PROVE  IsPrefix(f, g) <=> Len(f) <= Len(g) /\ \A i \in 1..Len(f) : f[i] = g[i]
<1>1. Len(f) \in Nat /\ Len(g) \in Nat
  BY DEF Paths
<1>2. SubSeq(f, 1, Len(f)) = f
  BY SubSeqFull DEF Paths
<1>3. ASSUME Len(f) <= Len(g)
      PROVE  (f = SubSeq(g, 1, Len(f))) <=> (\A i \in 1..Len(f) : f[i] = g[i])
  <2>1. /\ SubSeq(g, 1, Len(f)) \in Paths /\ Len(SubSeq(g, 1, Len(f))) = Len(f)
        /\ \A i \in 1..Len(f) : SubSeq(g, 1, Len(f))[i] = g[i]
    BY <1>1, <1>3, PrefixOfPath
  <2>2. (\A i \in 1..Len(f) : f[i] = g[i]) => f = SubSeq(g, 1, Len(f))
    BY <2>1, SamePath
  <2>3. f = SubSeq(g, 1, Len(f)) => \A i \in 1..Len(f) : f[i] = g[i]
    BY <2>1
  <2> QED BY <2>2, <2>3
<1> QED BY <1>1, <1>2, <1>3 DEF IsPrefix

\* The folder that a path lies in.
LEMMA FrontOfPath ==
    ASSUME NEW f \in Paths, f # RootPath
    PROVE  /\ Front(f) \in Paths /\ Len(f) \in Nat \ {0} /\ Len(Front(f)) = Len(f) - 1
           /\ \A i \in 1..Len(f) - 1 : Front(f)[i] = f[i]
           /\ Front(f) # f /\ IsPrefix(Front(f), f) /\ ~IsPrefix(f, Front(f))
<1>1. Len(f) \in Nat \ {0}
  BY EmptySeq DEF Paths, RootPath
<1>2. Len(f) - 1 \in 0..Len(f)
  BY <1>1
<1>3. /\ Front(f) \in Paths /\ Len(Front(f)) = Len(f) - 1
      /\ \A i \in 1..Len(f) - 1 : Front(f)[i] = f[i]
  BY <1>2, PrefixOfPath DEF Front
<1>4. IsPrefix(Front(f), f) /\ ~IsPrefix(f, Front(f))
  BY <1>1, <1>3, PrefixByNames
<1> QED BY <1>1, <1>3, <1>4

\* Being a prefix is an order, the root is below all, and the prefixes of a path are a chain.
LEMMA PrefixOrder ==
    ASSUME NEW f \in Paths, NEW g \in Paths, NEW h \in Paths
    PROVE  /\ IsPrefix(f, f) /\ IsPrefix(RootPath, f) /\ RootPath \in Paths
           /\ IsPrefix(f, g) /\ IsPrefix(g, h) => IsPrefix(f, h)
           /\ IsPrefix(f, g) /\ IsPrefix(g, f) => f = g
           /\ IsPrefix(f, g) /\ f # g => g # RootPath /\ IsPrefix(f, Front(g))
           /\ IsPrefix(f, h) /\ IsPrefix(g, h) => IsPrefix(f, g) \/ IsPrefix(g, f)
<1>1. Len(f) \in Nat /\ Len(g) \in Nat /\ Len(h) \in Nat /\ RootPath \in Paths /\ Len(RootPath) = 0
  BY DEF Paths, RootPath
<1>2. IsPrefix(f, f) /\ IsPrefix(RootPath, f)
  BY <1>1, PrefixByNames
<1>3. IsPrefix(f, g) /\ IsPrefix(g, h) => IsPrefix(f, h)
  BY <1>1, PrefixByNames
<1>4. IsPrefix(f, g) /\ IsPrefix(g, f) => f = g
  BY <1>1, PrefixByNames, SamePath
<1>5. ASSUME IsPrefix(f, g), f # g PROVE g # RootPath /\ IsPrefix(f, Front(g))
  <2>1. Len(f) <= Len(g) /\ \A i \in 1..Len(f) : f[i] = g[i]
    BY <1>5, PrefixByNames
  <2>2. Len(f) # Len(g)
    BY <1>5, <2>1, SamePath
  <2>3. g # RootPath
    BY <1>1, <2>1, <2>2
  <2>4. /\ Front(g) \in Paths /\ Len(Front(g)) = Len(g) - 1
        /\ \A i \in 1..Len(g) - 1 : Front(g)[i] = g[i]
    BY <2>3, FrontOfPath
  <2>5. Len(f) <= Len(Front(g)) /\ \A i \in 1..Len(f) : f[i] = Front(g)[i]
    BY <1>1, <2>1, <2>2, <2>4
  <2> QED BY <2>3, <2>4, <2>5, PrefixByNames
<1>6. IsPrefix(f, h) /\ IsPrefix(g, h) => IsPrefix(f, g) \/ IsPrefix(g, f)
  BY <1>1, PrefixByNames
<1> QED BY <1>1, <1>2, <1>3, <1>4, <1>5, <1>6

\* Every prefix of a path is one of its SubSeq(f, 1, n), and the other way round.
LEMMA PrefixByLength ==
    ASSUME NEW f \in Paths, NEW n \in 0..Len(f)
    PROVE  /\ SubSeq(f, 1, n) \in Paths /\ IsPrefix(SubSeq(f, 1, n), f)
           /\ SubSeq(f, 1, n) = RootPath <=> n = 0
           /\ n # 0 => Front(SubSeq(f, 1, n)) = SubSeq(f, 1, n - 1)
<1>1. Len(f) \in Nat
  BY DEF Paths
<1>2. /\ SubSeq(f, 1, n) \in Paths /\ Len(SubSeq(f, 1, n)) = n
      /\ \A i \in 1..n : SubSeq(f, 1, n)[i] = f[i]
  BY PrefixOfPath
<1>3. IsPrefix(SubSeq(f, 1, n), f)
  <2> DEFINE g == SubSeq(f, 1, n)
  <2>1. g \in Paths /\ Len(g) = n /\ \A i \in 1..n : g[i] = f[i]
    BY <1>2
  <2> HIDE DEF g
  <2>2. IsPrefix(g, f)
    BY <1>1, <2>1, PrefixByNames
  <2> QED BY <2>2 DEF g
<1>4. SubSeq(f, 1, n) = RootPath <=> n = 0
  BY <1>2, EmptySeq DEF RootPath, Paths
<1>5. ASSUME n # 0 PROVE Front(SubSeq(f, 1, n)) = SubSeq(f, 1, n - 1)
  <2> DEFINE g == SubSeq(f, 1, n)
  <2>1. n - 1 \in 0..Len(f) /\ n - 1 \in 0..Len(g)
    BY <1>1, <1>2, <1>5
  <2>2. g \in Paths /\ g # RootPath
    BY <1>2, <1>4, <1>5
  <2>3. /\ SubSeq(f, 1, n - 1) \in Paths /\ Len(SubSeq(f, 1, n - 1)) = n - 1
        /\ \A i \in 1..n - 1 : SubSeq(f, 1, n - 1)[i] = f[i]
    BY <2>1, PrefixOfPath
  <2>4. /\ Front(g) \in Paths /\ Len(Front(g)) = n - 1
        /\ \A i \in 1..n - 1 : Front(g)[i] = f[i]
    <3>1. Len(g) = n /\ \A i \in 1..n : g[i] = f[i]
      BY <1>2
    <3> HIDE DEF g
    <3> QED BY <1>1, <2>2, <3>1, FrontOfPath
  <2> QED BY <2>3, <2>4, SamePath
<1> QED BY <1>2, <1>3, <1>4, <1>5

\* Every prefix of a path is one of its SubSeq(f, 1, n).
LEMMA PrefixHasLength ==
    ASSUME NEW f \in Paths, NEW h \in Paths, IsPrefix(h, f)
    PROVE  Len(h) \in 0..Len(f) /\ h = SubSeq(f, 1, Len(h))
<1>1. Len(f) \in Nat /\ Len(h) \in Nat /\ Len(h) <= Len(f) /\ \A i \in 1..Len(h) : h[i] = f[i]
  BY PrefixByNames DEF Paths
<1>2. /\ SubSeq(f, 1, Len(h)) \in Paths /\ Len(SubSeq(f, 1, Len(h))) = Len(h)
      /\ \A i \in 1..Len(h) : SubSeq(f, 1, Len(h))[i] = f[i]
  BY <1>1, PrefixOfPath
<1> DEFINE g == SubSeq(f, 1, Len(h))
<1>3. g \in Paths /\ Len(g) = Len(h) /\ \A i \in 1..Len(h) : g[i] = f[i]
  BY <1>2
<1> HIDE DEF g
<1>4. h = g
  BY <1>1, <1>3, SamePath
<1> QED BY <1>1, <1>4 DEF g

\* Every set of natural numbers that has an element has a least one.
LEMMA Least ==
    ASSUME NEW T, T \subseteq Nat, T # {}
    PROVE  \E n \in T : \A m \in T : n <= m
<1>1. PICK n \in T : \A m \in T : <<m, n>> \notin OpToRel(<, Nat)
  BY NatLessThanWellFounded, WFMin
<1>2. \A m \in T : ~(m < n)
  BY <1>1 DEF OpToRel
<1> QED BY <1>2

\* Among some paths there is a shortest one.
LEMMA ShortestOf ==
    ASSUME NEW G \in SUBSET Paths, G # {}
    PROVE  \E g \in G : \A k \in G : Len(g) <= Len(k)
<1> DEFINE T == {Len(g) : g \in G}
<1>1. T \subseteq Nat /\ T # {}
  <2>1. \A g \in Paths : Len(g) \in Nat
    BY LenProperties DEF Paths
  <2> QED BY <2>1
<1>3. PICK n \in T : \A m \in T : n <= m
  BY ONLY <1>1, Least
<1> QED BY <1>3 DEF T

-----------------------------------------------------------------------------
(* Folders.                                                                *)

\* Every path lies in folders.
WellFormed(t) ==
    /\ t \in [DOMAIN t -> {"dir", "file"}] /\ DOMAIN t \subseteq Paths \ {RootPath}
    /\ \A p \in DOMAIN t : IsDir(t, Front(p))

\* The project's folder is well formed at first.
LEMMA InitialIsWellFormed ==
    ASSUME FileTreeAssumption, NEW t \in InitialTrees
    PROVE  WellFormed(t)
<1>1. /\ t \in [DOMAIN t -> {"dir", "file"}] /\ DOMAIN t \subseteq TreePaths
      /\ \A p \in DOMAIN t : Len(p) > 1 => Front(p) \in DOMAIN t /\ t[Front(p)] = "dir"
  BY DEF FileTreeAssumption
<1>2. DOMAIN t \subseteq Paths \ {RootPath}
  BY <1>1, PathsOfProject
<1>3. ASSUME NEW p \in DOMAIN t PROVE IsDir(t, Front(p))
  <2>1. Len(p) \in Nat \ {0} /\ Front(p) \in Paths /\ Len(Front(p)) = Len(p) - 1
    BY <1>2, FrontOfPath
  <2>2. CASE Len(p) > 1
    BY <1>1, <2>2 DEF IsDir
  <2>3. CASE Len(p) = 1
    BY <2>1, <2>3, EmptySeq DEF Paths, IsDir, RootPath
  <2> QED BY <2>1, <2>2, <2>3
<1> QED BY <1>1, <1>2, <1>3 DEF WellFormed

\* What is above something that exists is a folder.
LEMMA FoldersAbove ==
    ASSUME NEW t, WellFormed(t), NEW f \in DOMAIN t, NEW h \in Paths, IsPrefix(h, f), h # f
    PROVE  IsDir(t, h)
<1> DEFINE G == {g \in DOMAIN t : IsPrefix(h, g) /\ IsPrefix(g, f) /\ g # h}
<1>1. DOMAIN t \subseteq Paths \ {RootPath} /\ \A p \in DOMAIN t : IsDir(t, Front(p))
  BY DEF WellFormed
<1>2. f \in G /\ G \in SUBSET Paths
  BY <1>1, PrefixOrder
<1>3. PICK g \in G : \A k \in G : Len(g) <= Len(k)
  BY <1>2, ShortestOf
<1>4. g \in Paths /\ g # RootPath /\ IsDir(t, Front(g))
  BY <1>1, <1>3
<1>5. Front(g) \in Paths /\ IsPrefix(Front(g), g) /\ Len(Front(g)) < Len(g)
  BY <1>4, FrontOfPath
<1>6. IsPrefix(h, Front(g)) /\ IsPrefix(Front(g), f)
  BY <1>2, <1>3, <1>4, <1>5, PrefixOrder
<1>7. Front(g) \notin G
  <2>1. Len(Front(g)) \in Nat /\ Len(g) \in Nat
    BY <1>4, <1>5 DEF Paths
  <2> QED BY <1>3, <1>5, <2>1
<1>8. CASE Front(g) = RootPath
  BY <1>5, <1>6, <1>8, PrefixOrder DEF IsDir
<1>9. CASE Front(g) # RootPath
  BY <1>4, <1>6, <1>7, <1>9 DEF IsDir
<1> QED BY <1>8, <1>9

\* Of the folders above one that is no folder any more, the topmost that is none either lies
\* in one that still is.
LEMMA TopmostLost ==
    ASSUME NEW t, NEW u, WellFormed(t), NEW f \in Paths, IsDir(t, f), ~IsDir(u, f)
    PROVE  \E g \in DOMAIN t : /\ g \in Paths \ {RootPath} /\ IsPrefix(g, f)
                               /\ IsDir(t, g) /\ ~IsDir(u, g) /\ IsDir(u, Front(g))
<1> DEFINE G == {g \in Paths : IsPrefix(g, f) /\ IsDir(t, g) /\ ~IsDir(u, g)}
<1>1. f \in G
  BY PrefixOrder
<1>2. PICK g \in G : \A k \in G : Len(g) <= Len(k)
  BY <1>1, ShortestOf
<1>3. g \in Paths /\ g # RootPath /\ g \in DOMAIN t /\ IsDir(t, Front(g))
  BY <1>2 DEF IsDir, WellFormed
<1>4. Front(g) \in Paths /\ IsPrefix(Front(g), g) /\ Len(Front(g)) < Len(g)
  BY <1>3, FrontOfPath
<1>5. IsPrefix(Front(g), f)
  BY <1>2, <1>4, PrefixOrder
<1>6. Front(g) \notin G
  <2>1. Len(Front(g)) \in Nat /\ Len(g) \in Nat
    BY <1>3, <1>4 DEF Paths
  <2> QED BY <1>2, <1>4, <2>1
<1>7. IsDir(u, Front(g))
  BY <1>3, <1>4, <1>5, <1>6
<1> QED BY <1>2, <1>3, <1>7

-----------------------------------------------------------------------------
(* What an operation changes, and who hears of it.                         *)

\* A folder's listing changes only with something that lies in it.
LEMMA ListingChanges ==
    ASSUME NEW t, NEW u, NEW f, list_dir(t, f) # list_dir(u, f)
    PROVE  \E q \in Changed(t, u) : Front(q) = f
<1> SUFFICES ASSUME \A q \in Changed(t, u) : Front(q) # f PROVE list_dir(t, f) = list_dir(u, f)
  OBVIOUS
<1>1. \A q \in DOMAIN t \cup DOMAIN u :
          Front(q) = f => q \in DOMAIN t /\ q \in DOMAIN u /\ t[q] = u[q]
  BY DEF Changed
<1>2. list_dir(t, f) \subseteq list_dir(u, f)
  BY <1>1 DEF list_dir
<1>3. list_dir(u, f) \subseteq list_dir(t, f)
  BY <1>1 DEF list_dir
<1> QED BY <1>2, <1>3

\* The client will list a folder.
Told(events, h) == \E e \in events : h \in map_event(e)

\* Where the content of a folder changes, or a folder is lost, the client will list a folder
\* above it that is there.
Heard(t, u, events, missed) == \A f \in Paths :
    \/ list_dir(t, f) # list_dir(u, f) /\ f \notin missed
    \/ IsDir(t, f) /\ ~IsDir(u, f)
    => \E h \in Paths : IsPrefix(h, f) /\ IsDir(u, h) /\ Told(events, h)

\* EventsOf tells of the folder in which something has changed.
LEMMA ChangeIsTold ==
    ASSUME NEW t, NEW u, NEW q \in Changed(t, u)
    PROVE  Told(EventsOf(t, u), Front(q))
<1> DEFINE e == [kind |-> CASE q \notin DOMAIN t -> "create" [] q \notin DOMAIN u -> "remove"
                            [] OTHER -> "modify",
                 paths |-> <<q>>]
<1>1. e \in EventsOf(t, u)
  BY DEF EventsOf
<1>2. e.kind # "name"
  OBVIOUS
<1>3. q \in Range(e.paths)
  <2>1. e.paths = <<q>> /\ DOMAIN <<q>> = {1} /\ <<q>>[1] = q
    OBVIOUS
  <2> QED BY <2>1 DEF Range
<1> HIDE DEF e
<1>4. Front(q) \in map_event(e)
  BY <1>2, <1>3 DEF map_event, ParentsOf
<1> QED BY <1>1, <1>4 DEF Told

\* EventsOf tells of all that an operation has changed.
LEMMA EventsAreHeard ==
    ASSUME NEW t, NEW u, WellFormed(t), WellFormed(u)
    PROVE  Heard(t, u, EventsOf(t, u), {})
<1> SUFFICES ASSUME NEW f \in Paths,
                    list_dir(t, f) # list_dir(u, f) \/ (IsDir(t, f) /\ ~IsDir(u, f))
             PROVE  \E h \in Paths :
                        IsPrefix(h, f) /\ IsDir(u, h) /\ Told(EventsOf(t, u), h)
  BY DEF Heard
<1>1. CASE IsDir(u, f)
  <2>1. PICK q \in Changed(t, u) : Front(q) = f
    BY <1>1, ListingChanges
  <2> QED BY <1>1, <2>1, ChangeIsTold, PrefixOrder
<1>2. CASE ~IsDir(u, f)
  <2>1. IsDir(t, f)
    <3> SUFFICES ASSUME list_dir(t, f) # list_dir(u, f) PROVE IsDir(t, f)
      OBVIOUS
    <3>1. PICK q \in Changed(t, u) : Front(q) = f
      BY ListingChanges
    <3> QED BY <1>2, <3>1 DEF Changed, WellFormed
  <2>2. PICK g \in DOMAIN t : /\ g \in Paths \ {RootPath} /\ IsPrefix(g, f)
                              /\ IsDir(t, g) /\ ~IsDir(u, g) /\ IsDir(u, Front(g))
    BY <1>2, <2>1, TopmostLost
  <2>3. g \in Changed(t, u)
    BY <2>2 DEF Changed, IsDir
  <2>4. Front(g) \in Paths /\ IsPrefix(Front(g), f)
    BY <2>2, FrontOfPath, PrefixOrder
  <2> QED BY <2>2, <2>3, <2>4, ChangeIsTold
<1> QED BY <1>1, <1>2

-----------------------------------------------------------------------------
(* The operations leave every path in folders.                             *)

\* What Rebased(s, p, to) is: to, and what s has below p.
LEMMA PathsRebased ==
    ASSUME NEW s \in Paths, NEW p \in Paths, NEW to \in Paths, IsPrefix(p, s)
    PROVE  /\ Rebased(s, p, to) \in Paths /\ Len(Rebased(s, p, to)) = Len(to) + Len(s) - Len(p)
           /\ \A i \in 1..Len(to) + Len(s) - Len(p) :
                  Rebased(s, p, to)[i] = IF i <= Len(to) THEN to[i] ELSE s[i - Len(to) + Len(p)]
<1>1. Len(s) \in Nat /\ Len(p) \in Nat /\ Len(to) \in Nat /\ Len(p) <= Len(s)
  BY PrefixByNames DEF Paths
<1> DEFINE tail == SubSeq(s, Len(p) + 1, Len(s))
<1>2. /\ tail \in Paths /\ Len(tail) = Len(s) - Len(p)
      /\ \A i \in 1..Len(s) - Len(p) : tail[i] = s[Len(p) + i]
  <2>1. \A i \in Len(p) + 1..Len(s) : s[i] \in PathNames
    BY <1>1, ElementOfSeq DEF Paths
  <2>2. /\ tail \in Seq(PathNames)
        /\ Len(tail) = IF Len(p) + 1 <= Len(s) THEN Len(s) - (Len(p) + 1) + 1 ELSE 0
        /\ \A i \in 1..Len(s) - (Len(p) + 1) + 1 : tail[i] = s[Len(p) + 1 + i - 1]
    BY <1>1, <2>1, SubSeqProperties
  <2> HIDE DEF tail
  <2>3. ASSUME NEW i \in 1..Len(s) - Len(p) PROVE tail[i] = s[Len(p) + i]
    <3>1. i \in 1..Len(s) - (Len(p) + 1) + 1 /\ Len(p) + 1 + i - 1 = Len(p) + i
      BY <1>1
    <3> QED BY <2>2, <3>1
  <2> QED BY <1>1, <2>2, <2>3 DEF Paths
<1>3. Rebased(s, p, to) = to \o tail
  BY DEF Rebased
<1> HIDE DEF tail
<1>4. /\ to \o tail \in Paths /\ Len(to \o tail) = Len(to) + Len(tail)
      /\ \A i \in 1..Len(to) + Len(tail) :
             (to \o tail)[i] = IF i <= Len(to) THEN to[i] ELSE tail[i - Len(to)]
  BY <1>2, ConcatProperties DEF Paths
<1>5. ASSUME NEW i \in 1..Len(to) + Len(s) - Len(p)
      PROVE  (to \o tail)[i] = IF i <= Len(to) THEN to[i] ELSE s[i - Len(to) + Len(p)]
  <2>1. i \in 1..Len(to) + Len(tail)
    BY <1>1, <1>2
  <2>2. ASSUME ~(i <= Len(to)) PROVE tail[i - Len(to)] = s[i - Len(to) + Len(p)]
    <3>1. i - Len(to) \in 1..Len(s) - Len(p) /\ Len(p) + (i - Len(to)) = i - Len(to) + Len(p)
      BY <1>1, <2>2
    <3> QED BY <1>2, <3>1
  <2> QED BY <1>4, <2>1, <2>2
<1> QED BY <1>1, <1>2, <1>3, <1>4, <1>5

\* A path is moved with what is above it, and can be moved back.
LEMMA MovedPaths ==
    ASSUME NEW s \in Paths, NEW p \in Paths, NEW to \in Paths, IsPrefix(p, s)
    PROVE  /\ IsPrefix(to, Rebased(s, p, to)) /\ Rebased(Rebased(s, p, to), to, p) = s
           /\ Rebased(s, p, to) = to <=> s = p
           /\ s # p => /\ s # RootPath /\ IsPrefix(p, Front(s))
                       /\ Front(Rebased(s, p, to)) = Rebased(Front(s), p, to)
<1> DEFINE r == Rebased(s, p, to)
<1>1. /\ Len(s) \in Nat /\ Len(p) \in Nat /\ Len(to) \in Nat /\ Len(p) <= Len(s)
      /\ \A i \in 1..Len(p) : p[i] = s[i]
  BY PrefixByNames DEF Paths
<1>2. /\ r \in Paths /\ Len(r) = Len(to) + Len(s) - Len(p)
      /\ \A i \in 1..Len(to) + Len(s) - Len(p) :
             r[i] = IF i <= Len(to) THEN to[i] ELSE s[i - Len(to) + Len(p)]
  BY PathsRebased
<1> HIDE DEF r
<1>3. IsPrefix(to, r)
  <2>1. Len(to) <= Len(r) /\ \A i \in 1..Len(to) : to[i] = r[i]
    BY <1>1, <1>2
  <2> QED BY <1>2, <2>1, PrefixByNames
<1>4. Rebased(r, to, p) = s
  <2> DEFINE b == Rebased(r, to, p)
  <2>1. /\ b \in Paths /\ Len(b) = Len(p) + Len(r) - Len(to)
        /\ \A i \in 1..Len(p) + Len(r) - Len(to) :
               b[i] = IF i <= Len(p) THEN p[i] ELSE r[i - Len(p) + Len(to)]
    BY <1>2, <1>3, PathsRebased
  <2> HIDE DEF b
  <2>2. ASSUME NEW i \in 1..Len(s) PROVE b[i] = s[i]
    <3>1. i \in 1..Len(p) + Len(r) - Len(to)
      BY <1>1, <1>2
    <3>2. CASE i <= Len(p)
      BY <1>1, <2>1, <3>1, <3>2
    <3>3. CASE ~(i <= Len(p))
      <4> DEFINE j == i - Len(p) + Len(to)
      <4>1. j \in 1..Len(to) + Len(s) - Len(p) /\ ~(j <= Len(to)) /\ j - Len(to) + Len(p) = i
        BY <1>1, <3>3
      <4>2. r[j] = s[i]
        BY <1>2, <4>1
      <4> QED BY <2>1, <3>1, <3>3, <4>2
    <3> QED BY <3>2, <3>3
  <2>3. b = s
    BY <1>1, <1>2, <2>1, <2>2, SamePath
  <2> QED BY <2>3 DEF b
<1>5. r = to <=> s = p
  <2>1. ASSUME r = to PROVE s = p
    BY <1>1, <1>2, <2>1, SamePath
  <2>2. ASSUME s = p PROVE r = to
    BY <1>1, <1>2, <2>2, SamePath
  <2> QED BY <2>1, <2>2
<1>6. ASSUME s # p
      PROVE  s # RootPath /\ IsPrefix(p, Front(s)) /\ Front(r) = Rebased(Front(s), p, to)
  <2>1. s # RootPath /\ IsPrefix(p, Front(s)) /\ r # RootPath
    <3>1. r # to /\ IsPrefix(to, r)
      BY <1>3, <1>5, <1>6
    <3> QED BY <1>2, <1>6, <3>1, PrefixOrder
  <2>2. /\ Front(s) \in Paths /\ Len(Front(s)) = Len(s) - 1
        /\ \A i \in 1..Len(s) - 1 : Front(s)[i] = s[i]
    BY <2>1, FrontOfPath
  <2>3. /\ Front(r) \in Paths /\ Len(Front(r)) = Len(r) - 1
        /\ \A i \in 1..Len(r) - 1 : Front(r)[i] = r[i]
    BY <1>2, <2>1, FrontOfPath
  <2> DEFINE b == Rebased(Front(s), p, to)
  <2>4. /\ b \in Paths /\ Len(b) = Len(to) + Len(Front(s)) - Len(p)
        /\ \A i \in 1..Len(to) + Len(Front(s)) - Len(p) :
               b[i] = IF i <= Len(to) THEN to[i] ELSE Front(s)[i - Len(to) + Len(p)]
    BY <2>1, <2>2, PathsRebased
  <2> HIDE DEF b
  <2>5. ASSUME NEW i \in 1..Len(r) - 1 PROVE Front(r)[i] = b[i]
    <3>1. /\ i \in 1..Len(to) + Len(s) - Len(p)
          /\ i \in 1..Len(to) + Len(Front(s)) - Len(p)
      BY <1>1, <1>2, <2>2
    <3>2. ASSUME ~(i <= Len(to))
          PROVE  Front(s)[i - Len(to) + Len(p)] = s[i - Len(to) + Len(p)]
      <4>1. i - Len(to) + Len(p) \in 1..Len(s) - 1
        BY <1>1, <1>2, <3>2
      <4> QED BY <2>2, <4>1
    <3> QED BY <1>2, <2>3, <2>4, <3>1, <3>2
  <2>6. Len(Front(r)) = Len(b) /\ \A i \in 1..Len(Front(r)) : Front(r)[i] = b[i]
    BY <1>1, <1>2, <2>2, <2>3, <2>4, <2>5
  <2>7. Front(r) = b
    BY <2>3, <2>4, <2>6, SamePath
  <2> QED BY <2>1, <2>7 DEF b
<1> QED BY <1>3, <1>4, <1>5, <1>6 DEF r

\* create_dir adds folders and leaves the rest.
LEMMA FoldersMade ==
    ASSUME NEW t, WellFormed(t), NEW p \in Paths
    PROVE  /\ WellFormed(create_dir(t, p).tree) /\ create_dir(t, p).ok \in BOOLEAN
           /\ \A q \in DOMAIN t :
                  q \in DOMAIN create_dir(t, p).tree /\ create_dir(t, p).tree[q] = t[q]
           /\ create_dir(t, p).ok => IsDir(create_dir(t, p).tree, p)
<1> DEFINE way == {SubSeq(p, 1, n) : n \in 1..Len(p)}
           files == {q \in way : q \in DOMAIN t /\ t[q] # "dir"}
           made == {q \in way : \A f \in files : ~IsPrefix(f, q)}
           new == [q \in made |-> "dir"]
           w == Over(t, new)
<1>1. create_dir(t, p).tree = w /\ create_dir(t, p).ok = (files = {})
  BY DEF create_dir, Outcome
<1>2. way = {q \in Paths \ {RootPath} : IsPrefix(q, p)}
  <2>1. Len(p) \in Nat
    BY DEF Paths
  <2>2. ASSUME NEW q \in way PROVE q \in Paths /\ q # RootPath /\ IsPrefix(q, p)
    <3>1. PICK n \in 1..Len(p) : q = SubSeq(p, 1, n)
      BY <2>2
    <3>2. n \in 0..Len(p) /\ n # 0
      BY <2>1, <3>1
    <3> QED BY <3>1, <3>2, PrefixByLength
  <2>3. ASSUME NEW q \in Paths, q # RootPath, IsPrefix(q, p) PROVE q \in way
    <3>1. Len(q) \in 0..Len(p) /\ q = SubSeq(p, 1, Len(q))
      BY <2>3, PrefixHasLength
    <3>2. Len(q) # 0
      BY <2>3, EmptySeq DEF Paths, RootPath
    <3>3. Len(q) \in 1..Len(p)
      BY <2>1, <3>1, <3>2
    <3> QED BY <3>1, <3>3
  <2> HIDE DEF way
  <2> QED BY <2>2, <2>3
<1> HIDE DEF way
<1>3. /\ t \in [DOMAIN t -> {"dir", "file"}] /\ DOMAIN t \subseteq Paths \ {RootPath}
      /\ \A q \in DOMAIN t : IsDir(t, Front(q))
  BY DEF WellFormed
<1>4. ASSUME NEW q \in made PROVE q \in DOMAIN t => t[q] = "dir"
  BY <1>2, PrefixOrder
<1>5. ASSUME NEW q \in made PROVE Front(q) = RootPath \/ Front(q) \in made
  <2>1. q \in Paths /\ q # RootPath /\ IsPrefix(q, p) /\ \A f \in files : ~IsPrefix(f, q)
    BY <1>2
  <2>2. Front(q) \in Paths /\ IsPrefix(Front(q), q)
    BY <2>1, FrontOfPath
  <2>3. IsPrefix(Front(q), p)
    BY <2>1, <2>2, PrefixOrder
  <2>4. \A f \in files : ~IsPrefix(f, Front(q))
    BY <1>2, <2>1, <2>2, PrefixOrder
  <2> QED BY <1>2, <2>2, <2>3, <2>4
<1>6. made \subseteq Paths \ {RootPath}
  BY <1>2
<1>7. files = {} /\ p # RootPath => p \in made
  BY <1>2, PrefixOrder
<1> HIDE DEF made
<1>8. DOMAIN w = DOMAIN t \cup made
  BY DEF Over
<1>9. \A q \in DOMAIN t : q \in DOMAIN w /\ w[q] = t[q]
  BY DEF Over
<1>10. \A q \in made : w[q] = "dir"
  BY <1>4 DEF Over
<1>11. w \in [DOMAIN w -> {"dir", "file"}]
  <2>1. \A q \in DOMAIN w : w[q] \in {"dir", "file"}
    BY <1>3, <1>8, <1>9, <1>10
  <2>2. w = [q \in DOMAIN w |-> w[q]]
    BY DEF Over
  <2> HIDE DEF w
  <2> QED BY <2>1, <2>2
<1> HIDE DEF w
<1>12. \A q \in DOMAIN w : IsDir(w, Front(q))
  <2>1. \A q \in DOMAIN t : IsDir(w, Front(q))
    BY <1>3, <1>9 DEF IsDir
  <2>2. \A q \in made : IsDir(w, Front(q))
    BY <1>5, <1>8, <1>10 DEF IsDir
  <2> QED BY <1>8, <2>1, <2>2
<1>13. files = {} => IsDir(w, p)
  BY <1>7, <1>8, <1>10 DEF IsDir
<1>14. WellFormed(w)
  BY <1>3, <1>6, <1>8, <1>11, <1>12 DEF WellFormed
<1> QED BY <1>1, <1>9, <1>13, <1>14

\* A file is put in a folder, where no folder is.
LEMMA FilePut ==
    ASSUME NEW t, WellFormed(t), NEW p \in Paths \ {RootPath}, IsDir(t, Front(p)), ~IsDir(t, p)
    PROVE  WellFormed(Over(Only(p, "file"), t))
<1> DEFINE u == Over(Only(p, "file"), t)
<1>1. /\ DOMAIN u = DOMAIN t \cup {p} /\ u[p] = "file"
      /\ \A q \in DOMAIN t : q # p => u[q] = t[q]
      /\ u = [q \in DOMAIN u |-> u[q]]
  BY DEF Over, Only
<1> HIDE DEF u
<1>2. /\ t \in [DOMAIN t -> {"dir", "file"}] /\ DOMAIN t \subseteq Paths \ {RootPath}
      /\ \A q \in DOMAIN t : IsDir(t, Front(q))
  BY DEF WellFormed
<1>3. u \in [DOMAIN u -> {"dir", "file"}]
  BY <1>1, <1>2
<1>4. ASSUME NEW q \in DOMAIN u PROVE IsDir(u, Front(q))
  <2>1. IsDir(t, Front(q)) /\ Front(q) # p
    BY <1>1, <1>2
  <2> QED BY <1>1, <2>1 DEF IsDir
<1>5. WellFormed(u)
  BY <1>1, <1>2, <1>3, <1>4 DEF WellFormed
<1> QED BY <1>5 DEF u

\* write_file.
LEMMA WriteKeeps ==
    ASSUME NEW t, WellFormed(t), NEW p \in Paths \ {RootPath}
    PROVE  WellFormed(write_file(t, p).tree)
<1> DEFINE parents == create_dir(t, Front(p))
<1>1. Front(p) \in Paths
  BY FrontOfPath
<1>2. WellFormed(parents.tree) /\ (parents.ok => IsDir(parents.tree, Front(p)))
  BY <1>1, FoldersMade
<1> HIDE DEF parents
<1>3. parents.ok /\ ~IsDir(parents.tree, p) => WellFormed(Over(Only(p, "file"), parents.tree))
  BY <1>2, FilePut
<1>4. write_file(t, p) = IF parents.ok /\ ~IsDir(parents.tree, p)
                         THEN Outcome(Over(Only(p, "file"), parents.tree), TRUE)
                         ELSE Outcome(parents.tree, FALSE)
  BY DEF write_file, parents
<1> QED BY <1>2, <1>3, <1>4 DEF Outcome

\* What no path lies in is taken away with all that lies in it.
LEMMA TakenAway ==
    ASSUME NEW t, WellFormed(t), NEW S,
           \A q \in DOMAIN t : Front(q) \in S => q \in S
    PROVE  WellFormed(Without(t, S))
<1> DEFINE u == Without(t, S)
<1>1. /\ DOMAIN u = DOMAIN t \ S /\ \A q \in DOMAIN u : u[q] = t[q]
      /\ u = [q \in DOMAIN u |-> u[q]]
  BY DEF Without
<1> HIDE DEF u
<1>2. /\ t \in [DOMAIN t -> {"dir", "file"}] /\ DOMAIN t \subseteq Paths \ {RootPath}
      /\ \A q \in DOMAIN t : IsDir(t, Front(q))
  BY DEF WellFormed
<1>3. u \in [DOMAIN u -> {"dir", "file"}]
  BY <1>1, <1>2
<1>4. ASSUME NEW q \in DOMAIN u PROVE IsDir(u, Front(q))
  <2>1. IsDir(t, Front(q)) /\ Front(q) \notin S
    BY <1>1, <1>2
  <2> QED BY <1>1, <2>1 DEF IsDir
<1>5. WellFormed(u)
  BY <1>1, <1>2, <1>3, <1>4 DEF WellFormed
<1> QED BY <1>5 DEF u

\* What lies in something at or below a path is below it too.
LEMMA UnderFront ==
    ASSUME NEW t, WellFormed(t), NEW p \in Paths \ {RootPath}, NEW q \in DOMAIN t,
           Front(q) \in Under(t, p)
    PROVE  q \in Under(t, p)
<1>1. q \in Paths \ {RootPath}
  BY DEF WellFormed
<1>2. Front(q) \in Paths /\ IsPrefix(Front(q), q)
  BY <1>1, FrontOfPath
<1> QED BY <1>1, <1>2, PrefixOrder DEF Under

\* delete_path.
LEMMA DeleteKeeps ==
    ASSUME NEW t, WellFormed(t), NEW p \in Paths \ {RootPath}
    PROVE  WellFormed(delete_path(t, p).tree)
BY UnderFront, TakenAway DEF delete_path, Outcome

\* What lies at or below a path, put at or below another.
LEMMA PutElsewhere ==
    ASSUME NEW u, WellFormed(u), NEW p \in Paths \ {RootPath}, NEW to \in Paths \ {RootPath},
           NEW S, S \subseteq Under(u, p),
           \A s \in S, r \in Under(u, p) : IsPrefix(r, s) => r \in S,
           NEW base, WellFormed(base), IsDir(base, Front(to)),
           \A s \in S : LET q == Rebased(s, p, to) IN
               /\ q \in DOMAIN base => base[q] = u[s]
    PROVE  WellFormed(Over([q \in {Rebased(s, p, to) : s \in S} |-> u[Rebased(q, to, p)]], base))
<1> DEFINE targets == {Rebased(s, p, to) : s \in S}
           moved == [q \in targets |-> u[Rebased(q, to, p)]]
           v == Over(moved, base)
<1>1. /\ u \in [DOMAIN u -> {"dir", "file"}] /\ DOMAIN u \subseteq Paths \ {RootPath}
      /\ \A q \in DOMAIN u : IsDir(u, Front(q))
      /\ base \in [DOMAIN base -> {"dir", "file"}] /\ DOMAIN base \subseteq Paths \ {RootPath}
      /\ \A q \in DOMAIN base : IsDir(base, Front(q))
  BY DEF WellFormed
<1>2. ASSUME NEW s \in S
      PROVE  s \in DOMAIN u /\ s \in Paths /\ IsPrefix(p, s)
  BY <1>1 DEF Under
<1>3. \A s \in S : moved[Rebased(s, p, to)] = u[s]
  <2> SUFFICES ASSUME NEW s \in S PROVE moved[Rebased(s, p, to)] = u[s]
    OBVIOUS
  <2>1. Rebased(s, p, to) \in targets
    OBVIOUS
  <2>2. Rebased(Rebased(s, p, to), to, p) = s
    BY <1>2, MovedPaths
  <2> QED BY <2>1, <2>2
<1>4. /\ DOMAIN v = targets \cup DOMAIN base /\ v = [q \in DOMAIN v |-> v[q]]
      /\ \A q \in targets : v[q] = moved[q]
      /\ \A q \in DOMAIN base \ targets : v[q] = base[q]
  <2>1. DOMAIN moved = targets
    OBVIOUS
  <2> HIDE DEF moved, targets
  <2> QED BY <2>1 DEF Over
<1> HIDE DEF v, moved
<1>5. \A s \in S : Rebased(s, p, to) \in DOMAIN v /\ v[Rebased(s, p, to)] = u[s]
  BY <1>3, <1>4
<1>6. \A q \in DOMAIN base : q \in DOMAIN v /\ v[q] = base[q]
  BY <1>3, <1>4
<1>7. DOMAIN v \subseteq Paths \ {RootPath}
  <2>1. ASSUME NEW s \in S PROVE Rebased(s, p, to) \in Paths \ {RootPath}
    <3>1. Rebased(s, p, to) \in Paths /\ IsPrefix(to, Rebased(s, p, to))
      BY <1>2, PathsRebased, MovedPaths
    <3> QED BY <3>1, PrefixOrder
  <2> QED BY <1>1, <1>4, <2>1
<1>8. v \in [DOMAIN v -> {"dir", "file"}]
  <2>1. \A q \in DOMAIN v : v[q] \in {"dir", "file"}
    BY <1>1, <1>2, <1>4, <1>5, <1>6
  <2> QED BY <1>4, <2>1
<1>9. ASSUME NEW q \in DOMAIN base PROVE IsDir(v, Front(q))
  BY <1>1, <1>6, <1>9 DEF IsDir
<1>10. ASSUME NEW s \in S PROVE IsDir(v, Front(Rebased(s, p, to)))
  <2>1. CASE s = p
    <3>1. Rebased(s, p, to) = to
      BY <1>2, <2>1, MovedPaths
    <3> QED BY <1>6, <3>1 DEF IsDir
  <2>2. CASE s # p
    <3>1. s # RootPath /\ IsPrefix(p, Front(s))
          /\ Front(Rebased(s, p, to)) = Rebased(Front(s), p, to)
      BY <1>2, <2>2, MovedPaths
    <3>2. Front(s) \in Paths /\ IsPrefix(Front(s), s) /\ IsDir(u, Front(s))
      BY <1>1, <1>2, <3>1, FrontOfPath
    <3>3. Front(s) # RootPath
      BY <3>1, PrefixOrder
    <3>4. Front(s) \in DOMAIN u /\ u[Front(s)] = "dir"
      BY <3>2, <3>3 DEF IsDir
    <3>5. Front(s) \in S
      BY <3>1, <3>2, <3>4 DEF Under
    <3> QED BY <1>5, <3>1, <3>4, <3>5 DEF IsDir
  <2> QED BY <2>1, <2>2
<1>11. WellFormed(v)
  <2>1. \A q \in DOMAIN v : IsDir(v, Front(q))
    BY <1>4, <1>9, <1>10
  <2> QED BY <1>7, <1>8, <2>1 DEF WellFormed
<1> QED BY <1>11 DEF v, moved

\* copy_path, whether it succeeds or stops half-way.
LEMMA CopyKeeps ==
    ASSUME NEW t, WellFormed(t), NEW p \in Paths \ {RootPath}, NEW to \in Paths \ {RootPath},
           NEW o \in copy_path(t, p, to)
    PROVE  WellFormed(o.tree)
<1> DEFINE parents == create_dir(t, Front(to))
           u == parents.tree
           source == Under(u, p)
           Fits(s) == Rebased(s, p, to) \notin DOMAIN u \/ u[Rebased(s, p, to)] = u[s]
           Add(S) == Over([q \in {Rebased(s, p, to) : s \in S} |-> u[Rebased(q, to, p)]], u)
           Grown(S) == \A s \in S, r \in source : IsPrefix(r, s) => r \in S
<1>1. Front(to) \in Paths
  BY FrontOfPath
<1>2. WellFormed(u) /\ (parents.ok => IsDir(u, Front(to)))
  BY <1>1, FoldersMade
<1>3. \/ o = Outcome(u, FALSE)
      \/ parents.ok /\ (\A s \in source : Fits(s)) /\ o = Outcome(Add(source), TRUE)
      \/ parents.ok /\ \E S \in SUBSET {s \in source : Fits(s)} :
             Grown(S) /\ o = Outcome(Add(S), FALSE)
  BY DEF copy_path
<1> HIDE DEF parents
<1>4. ASSUME parents.ok, NEW S, S \subseteq source, Grown(S), \A s \in S : Fits(s)
      PROVE  WellFormed(Add(S))
  BY <1>2, <1>4, PutElsewhere
<1>5. CASE o = Outcome(u, FALSE)
  BY <1>2, <1>5 DEF Outcome
<1>6. CASE parents.ok /\ (\A s \in source : Fits(s)) /\ o = Outcome(Add(source), TRUE)
  <2>1. Grown(source)
    OBVIOUS
  <2>2. WellFormed(Add(source))
    BY <1>4, <1>6, <2>1
  <2> QED BY <1>6, <2>2 DEF Outcome
<1>7. CASE parents.ok /\ \E S \in SUBSET {s \in source : Fits(s)} :
               Grown(S) /\ o = Outcome(Add(S), FALSE)
  <2>1. PICK S \in SUBSET {s \in source : Fits(s)} : Grown(S) /\ o = Outcome(Add(S), FALSE)
    BY <1>7
  <2>2. WellFormed(Add(S))
    BY <1>4, <1>7, <2>1
  <2> QED BY <2>1, <2>2 DEF Outcome
<1> QED BY <1>3, <1>5, <1>6, <1>7

\* The event with both paths tells of both folders.
LEMMA RenameIsTold ==
    ASSUME NEW p, NEW to
    PROVE  Told(RenameEvents(p, to), Front(p)) /\ Told(RenameEvents(p, to), Front(to))
<1> DEFINE e == [kind |-> "name", paths |-> <<p, to>>]
<1>1. e \in RenameEvents(p, to) /\ e.paths = <<p, to>> /\ ~(Len(e.paths) < 2)
  BY DEF RenameEvents
<1>2. p \in Range(e.paths) /\ to \in Range(e.paths)
  <2>1. DOMAIN <<p, to>> = {1, 2} /\ <<p, to>>[1] = p /\ <<p, to>>[2] = to
    OBVIOUS
  <2> QED BY <2>1, Zenon DEF Range
<1> HIDE DEF e
<1>3. Front(p) \in map_event(e) /\ Front(to) \in map_event(e)
  BY <1>1, <1>2 DEF map_event, ParentsOf
<1> QED BY <1>1, <1>3 DEF Told

\* A rename that succeeds: what was at or below p is at or below to.
LEMMA Renamed ==
    ASSUME NEW t, WellFormed(t), NEW p \in Paths \ {RootPath}, NEW to \in Paths \ {RootPath},
           ~IsPrefix(p, to), rename_path(t, p, to).ok
    PROVE  /\ WellFormed(rename_path(t, p, to).tree)
           /\ Heard(t, rename_path(t, p, to).tree,
                    EventsOf(t, create_dir(t, Front(to)).tree) \cup RenameEvents(p, to), {})
<1> DEFINE parents == create_dir(t, Front(to))
           u == parents.tree
           moved == [q \in {Rebased(s, p, to) : s \in Under(u, p)} |-> u[Rebased(q, to, p)]]
           base == Without(u, Under(u, p))
           v == Over(moved, base)
           events == EventsOf(t, u) \cup RenameEvents(p, to)
<1>1. Front(to) \in Paths /\ IsPrefix(Front(to), to) /\ ~IsPrefix(to, Front(to))
  BY FrontOfPath
<1>2. WellFormed(u) /\ (\A q \in DOMAIN t : q \in DOMAIN u /\ u[q] = t[q])
      /\ (parents.ok => IsDir(u, Front(to)))
  BY <1>1, FoldersMade
<1>3. /\ rename_path(t, p, to).tree = v /\ parents.ok /\ p \in DOMAIN u
      /\ to \notin DOMAIN u \/ to = p \/ (u[to] = u[p] /\ Under(u, to) = {to})
  BY DEF rename_path, Outcome
<1> HIDE DEF parents
<1>4. /\ u \in [DOMAIN u -> {"dir", "file"}] /\ DOMAIN u \subseteq Paths \ {RootPath}
      /\ \A q \in DOMAIN u : IsDir(u, Front(q))
  BY <1>2 DEF WellFormed
<1>5. p # to /\ Front(p) \in Paths /\ IsPrefix(Front(p), p) /\ ~IsPrefix(p, Front(p))
  BY PrefixOrder, FrontOfPath
\* The target is not there, or it is alone.
<1>6. ASSUME NEW q \in DOMAIN u, IsPrefix(to, q) PROVE q = to /\ u[to] = u[p]
  <2>1. to \in DOMAIN u
    <3>1. CASE q = to
      BY <3>1
    <3>2. CASE q # to
      <4>1. IsDir(u, to)
        BY <1>2, <1>6, <3>2, FoldersAbove
      <4> QED BY <4>1 DEF IsDir
    <3> QED BY <3>1, <3>2
  <2>2. u[to] = u[p] /\ Under(u, to) = {to}
    BY <1>3, <1>5, <2>1
  <2> QED BY <1>6, <2>2 DEF Under
<1>7. /\ DOMAIN base = DOMAIN u \ Under(u, p)
      /\ \A q \in DOMAIN base : base[q] = u[q]
  BY DEF Without
<1>8. WellFormed(base)
  BY <1>2, UnderFront, TakenAway
<1>9. ~IsPrefix(p, Front(to))
  BY <1>1, PrefixOrder
<1>10. IsDir(base, Front(to))
  <2>1. IsDir(u, Front(to))
    BY <1>2, <1>3
  <2> HIDE DEF base
  <2> QED BY <1>7, <1>9, <2>1 DEF IsDir, Under
<1>11. ASSUME NEW s \in Under(u, p), Rebased(s, p, to) \in DOMAIN base
       PROVE  base[Rebased(s, p, to)] = u[s]
  <2>1. s \in Paths /\ IsPrefix(p, s)
    BY <1>4 DEF Under
  <2>2. IsPrefix(to, Rebased(s, p, to)) /\ (Rebased(s, p, to) = to <=> s = p)
    BY <2>1, MovedPaths
  <2>3. Rebased(s, p, to) \in DOMAIN u /\ base[Rebased(s, p, to)] = u[Rebased(s, p, to)]
    BY <1>7, <1>11
  <2> HIDE DEF base
  <2> QED BY <1>6, <2>2, <2>3
<1>12. \A s \in Under(u, p), r \in Under(u, p) : IsPrefix(r, s) => r \in Under(u, p)
  OBVIOUS
<1>13. WellFormed(v)
  <2> HIDE DEF base, u
  <2> QED BY <1>2, <1>8, <1>10, <1>11, <1>12, PutElsewhere
\* Elsewhere nothing has changed.
<1>14. ASSUME NEW f \in Paths, ~IsPrefix(p, f), ~IsPrefix(to, f)
       PROVE  (f \in DOMAIN v <=> f \in DOMAIN u) /\ (f \in DOMAIN u => v[f] = u[f])
  <2>1. f \notin DOMAIN moved
    <3> SUFFICES ASSUME NEW s \in Under(u, p), f = Rebased(s, p, to) PROVE FALSE
      OBVIOUS
    <3>1. s \in Paths /\ IsPrefix(p, s)
      BY <1>4 DEF Under
    <3> QED BY <1>14, <3>1, MovedPaths
  <2>2. f \in DOMAIN base <=> f \in DOMAIN u
    BY <1>7, <1>14 DEF Under
  <2> HIDE DEF moved, base
  <2> QED BY <1>7, <2>1, <2>2 DEF Over
<1>15. ASSUME NEW f \in Paths, ~IsPrefix(p, f), ~IsPrefix(to, f)
       PROVE  IsDir(v, f) <=> IsDir(u, f)
  BY <1>14, <1>15 DEF IsDir
<1>16. Told(events, Front(p)) /\ Told(events, Front(to))
  BY RenameIsTold DEF Told
<1>17. IsDir(v, Front(p))
  <2>1. ~IsPrefix(to, Front(p))
    <3> SUFFICES ASSUME IsPrefix(to, Front(p)) PROVE FALSE
      OBVIOUS
    <3>1. IsPrefix(to, p)
      BY <1>5, PrefixOrder
    <3> QED BY <1>3, <1>5, <1>6, <3>1
  <2> QED BY <1>3, <1>4, <1>5, <1>15, <2>1
<1>18. IsDir(v, Front(to))
  BY <1>1, <1>2, <1>3, <1>9, <1>15
<1> HIDE DEF v
<1>19. ASSUME NEW f \in Paths,
              list_dir(t, f) # list_dir(v, f) \/ (IsDir(t, f) /\ ~IsDir(v, f))
       PROVE  \E h \in Paths : IsPrefix(h, f) /\ IsDir(v, h) /\ Told(events, h)
  <2>1. CASE IsPrefix(p, f)
    BY <1>5, <1>16, <1>17, <2>1, PrefixOrder
  <2>2. CASE IsPrefix(to, f)
    BY <1>1, <1>16, <1>18, <2>2, PrefixOrder
  <2>3. CASE f = Front(p) \/ f = Front(to)
    BY <1>16, <1>17, <1>18, <2>3, PrefixOrder
  <2>4. CASE ~IsPrefix(p, f) /\ ~IsPrefix(to, f) /\ f # Front(p) /\ f # Front(to)
    <3>1. list_dir(u, f) = list_dir(v, f)
      <4> SUFFICES ASSUME list_dir(u, f) # list_dir(v, f) PROVE FALSE
        OBVIOUS
      <4>1. PICK q \in Changed(u, v) : Front(q) = f
        BY ListingChanges
      <4>2. q \in Paths
        BY <1>4, <1>13 DEF Changed, WellFormed
      <4>3. IsPrefix(p, q) \/ IsPrefix(to, q)
        BY <1>14, <4>1, <4>2 DEF Changed
      <4> QED BY <2>4, <4>1, <4>2, <4>3, PrefixOrder
    <3>2. IsDir(v, f) <=> IsDir(u, f)
      BY <1>15, <2>4
    <3>3. IsDir(t, f) => IsDir(u, f)
      BY <1>2 DEF IsDir
    <3>4. PICK q \in Changed(t, u) : Front(q) = f
      BY <1>19, <3>1, <3>2, <3>3, ListingChanges
    <3>5. q \in DOMAIN u
      BY <1>2, <3>4 DEF Changed
    <3>6. IsDir(v, f)
      BY <1>4, <3>2, <3>4, <3>5
    <3>7. Told(events, f)
      BY <3>4, ChangeIsTold DEF Told
    <3> QED BY <3>6, <3>7, PrefixOrder
  <2> QED BY <2>1, <2>2, <2>3, <2>4
<1>20. Heard(t, v, events, {})
  BY <1>19 DEF Heard
<1> QED BY <1>3, <1>13, <1>20 DEF parents

\* A file comes or goes, and nobody is told.
LEMMA MovedAcross ==
    ASSUME NEW t, WellFormed(t), NEW p \in Paths \ {RootPath}, IsDir(t, Front(p)), ~IsDir(t, p),
           NEW u, u = IF p \in DOMAIN t THEN Without(t, {p}) ELSE Over(Only(p, "file"), t)
    PROVE  WellFormed(u) /\ \A events : Heard(t, u, events, {Front(p)})
<1>1. Front(p) \in Paths /\ \A q \in DOMAIN t : IsDir(t, Front(q))
  BY FrontOfPath DEF WellFormed
<1>2. WellFormed(u)
  <2>1. p \in DOMAIN t => WellFormed(Without(t, {p}))
    BY <1>1, TakenAway
  <2> QED BY <2>1, FilePut
<1>3. Changed(t, u) \subseteq {p}
  BY DEF Changed, Without, Over, Only
<1>4. \A f : IsDir(t, f) => IsDir(u, f)
  <2>1. \A f : f # p /\ f \in DOMAIN t => f \in DOMAIN u /\ u[f] = t[f]
    BY DEF Without, Over, Only
  <2> QED BY <2>1 DEF IsDir
<1>5. \A f : list_dir(t, f) # list_dir(u, f) => f = Front(p)
  BY <1>3, ListingChanges
<1> QED BY <1>2, <1>4, <1>5 DEF Heard

-----------------------------------------------------------------------------
(* The inductive invariant.                                                *)

Entries == [path : Paths, is_dir : BOOLEAN]
Messages ==
    [type : {"fs_event", "fs_result"}, folders : SUBSET Paths]
    \cup [type : {"list"}, folder : Paths, ok : BOOLEAN, entries : SUBSET Entries]

BrowserTyped ==
    /\ WellFormed(tree)
    /\ raw \subseteq SUBSET Paths /\ watching \in BOOLEAN
    /\ lists \in Seq(Paths) /\ arriving \in Seq(Messages)
    /\ refreshing \subseteq Paths
    /\ DOMAIN shown \subseteq Paths

AnswerAbout(m, f) == m.type = "list" /\ m.folder = f
Tells(m, f) == m.type # "list" /\ f \in m.folders

\* What arrives about the folder from position i on are no failures.
NoFailure(i, f) == \A k \in i..Len(arriving) : AnswerAbout(arriving[k], f) => arriving[k].ok

\* The folder is there, and what has not arrived by position i makes the client list it or is
\* the answer, or the client lists it as soon as it is opened.
WillList(i, f) ==
    /\ IsDir(tree, f)
    /\ \/ \E folders \in raw : f \in folders
       \/ \E j \in i..Len(arriving) : Tells(arriving[j], f) /\ NoFailure(j, f)
       \/ /\ i = 1 /\ NoFailure(1, f)
          /\ f \in refreshing \/ f \in awaited \/ (f # RootPath /\ f \notin expanded)

\* So it is with a folder above, with whose listing this one is forgotten.
WillCatchUp(i, f) == \E h \in Paths : IsPrefix(h, f) /\ WillList(i, h)

\* What the client has loaded hangs together.
NodesAbove == \A f \in DOMAIN shown, g \in Paths : IsPrefix(g, f) /\ g # RootPath => Node(g)

\* Without a watcher all that is shown and on its way is what is there, but for what has
\* changed untold.
UnwatchedIsReal == ~watching =>
    /\ raw = {}
    /\ \A f \in DOMAIN shown \ unseen : shown[f] = list_dir(tree, f)
    /\ \A i \in DOMAIN arriving : LET m == arriving[i] IN
           m.type = "list" /\ m.folder \notin unseen => m.entries = list_dir(tree, m.folder)

AnswersCatchUp == watching => \A i \in DOMAIN arriving : LET m == arriving[i] IN
    m.type = "list" /\ m.ok /\ m.folder \notin unseen /\ m.entries # list_dir(tree, m.folder)
        => WillCatchUp(i + 1, m.folder)

\* No listing of the folder, or of one above it, was given up.
NotGivenUp(f) == \A h \in givenUp : ~IsPrefix(h, f)

ShownCatchesUp == watching => \A f \in DOMAIN shown \ unseen :
    NotGivenUp(f) /\ shown[f] # list_dir(tree, f) => WillCatchUp(1, f)

BrowserIInv ==
    /\ BrowserTyped /\ NodesAbove
    /\ UnwatchedIsReal /\ AnswersCatchUp /\ ShownCatchesUp

\* The invariant holds at first.
LEMMA BrowserStarts == ASSUME FileTreeAssumption, TreeInit PROVE BrowserIInv
<1>1. WellFormed(tree)
  BY InitialIsWellFormed DEF TreeInit
<1>2. {RootPath} \subseteq Paths /\ <<>> \in Seq(Paths) /\ <<>> \in Seq(Messages)
  BY DEF RootPath, Paths
<1>3. BrowserTyped
  <2>1. DOMAIN shown = {}
    BY DEF TreeInit
  <2>2. raw \subseteq SUBSET Paths
    BY DEF TreeInit
  <2> QED BY <1>1, <1>2, <2>1, <2>2 DEF TreeInit, BrowserTyped
<1> QED BY <1>3 DEF TreeInit, BrowserIInv, NodesAbove, UnwatchedIsReal, AnswersCatchUp,
                ShownCatchesUp

\* What a message carries.
LEMMA MessageKinds ==
    ASSUME NEW m \in Messages
    PROVE  /\ m.type = "list" => m.folder \in Paths /\ m.ok \in BOOLEAN
           /\ m.type # "list" => m.folders \subseteq Paths
BY DEF Messages

\* One more message is on its way.
LEMMA Arrives ==
    ASSUME arriving \in Seq(Messages), NEW m \in Messages, arriving' = Append(arriving, m)
    PROVE  /\ arriving' \in Seq(Messages) /\ Len(arriving') = Len(arriving) + 1
           /\ DOMAIN arriving' = 1..Len(arriving')
           /\ \A k \in 1..Len(arriving) : arriving'[k] = arriving[k]
           /\ \A k \in Len(arriving) + 1..Len(arriving') : arriving'[k] = m
<1>1. /\ arriving' \in Seq(Messages) /\ Len(arriving') = Len(arriving) + 1
      /\ \A k \in 1..Len(arriving) : arriving'[k] = arriving[k]
      /\ arriving'[Len(arriving) + 1] = m
  BY AppendProperties
<1>2. DOMAIN arriving' = 1..Len(arriving') /\ Len(arriving) \in Nat
  BY <1>1, LenProperties
<1>3. \A k \in Len(arriving) + 1..Len(arriving') : k = Len(arriving) + 1
  BY ONLY <1>1, <1>2
<1> QED BY <1>1, <1>2, <1>3

\* What more arrives behind the rest leaves a folder to be listed, if the folder stays and
\* the news of it is not dropped.
LEMMA StillListed ==
    ASSUME NEW i \in 1..Len(arriving) + 1, NEW h, WillList(i, h), IsDir(tree', h),
           arriving \in Seq(Messages), arriving' \in Seq(Messages),
           Len(arriving) <= Len(arriving'),
           \A k \in 1..Len(arriving) : arriving'[k] = arriving[k],
           \A k \in Len(arriving) + 1..Len(arriving') :
               AnswerAbout(arriving'[k], h) => arriving'[k].ok,
           \A folders \in raw : h \in folders =>
               \/ folders \in raw'
               \/ Len(arriving') = Len(arriving) + 1 /\ Tells(arriving'[Len(arriving) + 1], h),
           h \in refreshing \/ h \in awaited \/ (h # RootPath /\ h \notin expanded)
               => h \in refreshing' \/ h \in awaited' \/ (h # RootPath /\ h \notin expanded')
    PROVE  WillList(i, h)'
<1>1. Len(arriving) \in Nat /\ Len(arriving') \in Nat
  OBVIOUS
<1>2. ASSUME NEW j \in 1..Len(arriving) + 1, NoFailure(j, h) PROVE NoFailure(j, h)'
  <2> SUFFICES ASSUME NEW k \in j..Len(arriving'), AnswerAbout(arriving'[k], h)
               PROVE  arriving'[k].ok
    BY DEF NoFailure, AnswerAbout
  <2>1. CASE k \in j..Len(arriving)
    BY <1>1, <1>2, <2>1 DEF NoFailure
  <2>2. CASE k \in Len(arriving) + 1..Len(arriving')
    BY <2>2
  <2> QED BY <1>1, <2>1, <2>2
<1>3. CASE \E folders \in raw : h \in folders
  <2>1. PICK folders \in raw : h \in folders
    BY <1>3
  <2>2. CASE folders \in raw'
    BY <2>1, <2>2 DEF WillList
  <2>3. CASE Len(arriving') = Len(arriving) + 1 /\ Tells(arriving'[Len(arriving) + 1], h)
    <3>1. PICK j \in 1..Len(arriving) + 1 : j = Len(arriving) + 1
      BY <1>1
    <3>2. NoFailure(j, h)'
      <4>1. NoFailure(j, h)
        BY <1>1, <3>1 DEF NoFailure
      <4> QED BY <1>2, <4>1
    <3>3. j \in i..Len(arriving') /\ Tells(arriving'[j], h)
      BY <1>1, <2>3, <3>1
    <3> QED BY <3>2, <3>3 DEF WillList, Tells
  <2> QED BY <2>1, <2>2, <2>3
<1>4. CASE \E j \in i..Len(arriving) : Tells(arriving[j], h) /\ NoFailure(j, h)
  <2>1. PICK j \in i..Len(arriving) : Tells(arriving[j], h) /\ NoFailure(j, h)
    BY <1>4
  <2>2. j \in 1..Len(arriving) /\ j \in i..Len(arriving') /\ arriving'[j] = arriving[j]
    BY <1>1, <2>1
  <2>3. NoFailure(j, h)'
    BY <1>1, <1>2, <2>1, <2>2
  <2> QED BY <2>1, <2>2, <2>3 DEF WillList, Tells
<1>5. CASE /\ i = 1 /\ NoFailure(1, h)
           /\ h \in refreshing \/ h \in awaited \/ (h # RootPath /\ h \notin expanded)
  <2>1. NoFailure(1, h)'
    BY <1>1, <1>2, <1>5
  <2> QED BY <1>5, <2>1 DEF WillList
<1> QED BY <1>3, <1>4, <1>5 DEF WillList

\* A step that leaves the folder and what is shown alone.
LEMMA BehindTheRest ==
    ASSUME BrowserIInv, BrowserTyped', UNCHANGED <<tree, shown, unseen, givenUp, watching>>,
           watching \/ raw' = {},
           Len(arriving) <= Len(arriving'),
           \A k \in 1..Len(arriving) : arriving'[k] = arriving[k],
           \A k \in Len(arriving) + 1..Len(arriving') :
               LET m == arriving'[k] IN m.type = "list" => m.entries = list_dir(tree, m.folder),
           \A i \in 1..Len(arriving) + 1, h \in Paths : WillList(i, h) => WillList(i, h)'
    PROVE  BrowserIInv'
<1>1. /\ arriving \in Seq(Messages) /\ arriving' \in Seq(Messages)
      /\ Len(arriving) \in Nat /\ Len(arriving') \in Nat
      /\ DOMAIN arriving = 1..Len(arriving) /\ DOMAIN arriving' = 1..Len(arriving')
  <2>1. arriving \in Seq(Messages) /\ arriving' \in Seq(Messages)
    BY DEF BrowserIInv, BrowserTyped
  <2> QED BY <2>1, LenProperties
<1>2. ASSUME NEW i \in 1..Len(arriving) + 1, NEW f, WillCatchUp(i, f) PROVE WillCatchUp(i, f)'
  BY <1>2 DEF WillCatchUp
<1>3. NodesAbove'
  BY DEF BrowserIInv, NodesAbove, Node
<1>4. UnwatchedIsReal'
  <2>1. ASSUME ~watching', NEW i \in DOMAIN arriving', arriving'[i].type = "list",
               arriving'[i].folder \notin unseen'
        PROVE  arriving'[i].entries = list_dir(tree', arriving'[i].folder)
    <3>1. CASE i \in 1..Len(arriving)
      BY <1>1, <2>1, <3>1 DEF BrowserIInv, UnwatchedIsReal
    <3>2. CASE i \in Len(arriving) + 1..Len(arriving')
      BY <2>1, <3>2
    <3> QED BY <1>1, <3>1, <3>2
  <2> QED BY <2>1 DEF BrowserIInv, UnwatchedIsReal
<1>5. AnswersCatchUp'
  <2> SUFFICES ASSUME watching', NEW i \in DOMAIN arriving', arriving'[i].type = "list",
                      arriving'[i].ok, arriving'[i].folder \notin unseen',
                      arriving'[i].entries # list_dir(tree', arriving'[i].folder)
               PROVE  WillCatchUp(i + 1, arriving[i].folder)' 
    BY DEF AnswersCatchUp
  <2>1. i \in 1..Len(arriving) /\ i + 1 \in 1..Len(arriving) + 1
    BY <1>1
  <2>2. WillCatchUp(i + 1, arriving[i].folder)
    BY <1>1, <2>1 DEF BrowserIInv, AnswersCatchUp
  <2> QED BY <1>2, <2>1, <2>2
<1>6. ShownCatchesUp'
  <2>1. 1 \in 1..Len(arriving) + 1
    BY <1>1
  <2> QED BY <1>2, <2>1 DEF BrowserIInv, ShownCatchesUp, NotGivenUp
<1> QED BY <1>3, <1>4, <1>5, <1>6 DEF BrowserIInv

-----------------------------------------------------------------------------
(* Steps that change the folder.                                           *)

\* A change of the folder whose events tell of it (Heard) keeps the invariant.
LEMMA TreeChanges ==
    ASSUME BrowserIInv, NEW u, NEW events, NEW missed,
           WellFormed(u), Heard(tree, u, events, missed),
           \A e \in events : map_event(e) \subseteq Paths,
           ChangeTree(u, events, missed),
           UNCHANGED <<lists, awaited, refreshing, expanded, shown, givenUp>>,
           \/ arriving' = arriving
           \/ \E F \in SUBSET Paths :
                  arriving' = Append(arriving, [type |-> "fs_result", folders |-> F])
    PROVE  BrowserIInv'
<1>1. /\ tree' = u /\ watching' = watching
      /\ raw' = IF watching THEN raw \cup ({map_event(e) : e \in events} \ {{}}) ELSE raw
      /\ unseen' = unseen \cup IF watching THEN missed ELSE ParentsOf(Changed(tree, u))
  BY DEF ChangeTree
<1>2. /\ arriving \in Seq(Messages) /\ Len(arriving) \in Nat
      /\ DOMAIN arriving = 1..Len(arriving)
  BY LenProperties DEF BrowserIInv, BrowserTyped
<1>3. /\ arriving' \in Seq(Messages) /\ Len(arriving) <= Len(arriving')
      /\ DOMAIN arriving' = 1..Len(arriving')
      /\ \A k \in 1..Len(arriving) : arriving'[k] = arriving[k]
      /\ \A k \in Len(arriving) + 1..Len(arriving') : arriving'[k].type # "list"
  <2>1. CASE arriving' = arriving
    BY <1>2, <2>1
  <2>2. ASSUME NEW F \in SUBSET Paths,
               arriving' = Append(arriving, [type |-> "fs_result", folders |-> F])
        PROVE  <1>3
    <3> DEFINE m == [type |-> "fs_result", folders |-> F]
    <3>1. m \in Messages /\ m.type # "list"
      BY DEF Messages
    <3> HIDE DEF m
    <3>2. arriving' = Append(arriving, m)
      BY <2>2 DEF m
    <3>3. /\ arriving' \in Seq(Messages) /\ Len(arriving') = Len(arriving) + 1
          /\ DOMAIN arriving' = 1..Len(arriving')
          /\ \A k \in 1..Len(arriving) : arriving'[k] = arriving[k]
          /\ \A k \in Len(arriving) + 1..Len(arriving') : arriving'[k] = m
      BY <1>2, <3>1, <3>2, Arrives
    <3> QED BY <1>2, <3>1, <3>3
  <2> QED BY <2>1, <2>2
<1>4. BrowserTyped'
  <2>1. raw' \subseteq SUBSET Paths
    BY <1>1 DEF BrowserIInv, BrowserTyped
  <2> QED BY <1>1, <1>3, <2>1 DEF BrowserIInv, BrowserTyped
<1>5. NodesAbove'
  BY DEF BrowserIInv, NodesAbove, Node
\* An answer in arriving' was there before.
<1>6. ASSUME NEW i \in DOMAIN arriving', arriving'[i].type = "list"
      PROVE  i \in DOMAIN arriving /\ arriving'[i] = arriving[i] /\ arriving[i].folder \in Paths
  <2>1. i \notin Len(arriving) + 1..Len(arriving')
    BY <1>3, <1>6
  <2>2. i \in Nat /\ Len(arriving') \in Nat /\ i >= 1 /\ i <= Len(arriving')
    <3>1. i \in 1..Len(arriving') /\ Len(arriving') \in Nat
      BY <1>3, <1>6, LenProperties
    <3> QED BY <3>1
  <2>3. i \in 1..Len(arriving)
    BY <1>2, <2>1, <2>2
  <2>4. arriving'[i] = arriving[i] /\ arriving[i] \in Messages
    BY <1>2, <1>3, <2>3, ElementOfSeq
  <2> QED BY <1>2, <1>6, <2>3, <2>4, MessageKinds
<1>7. UnwatchedIsReal'
  <2> SUFFICES ASSUME ~watching PROVE UnwatchedIsReal'
    BY <1>1 DEF UnwatchedIsReal
  <2>1. ASSUME NEW f, f \notin unseen' PROVE list_dir(tree, f) = list_dir(tree', f)
    BY <1>1, <2>1, ListingChanges DEF ParentsOf
  <2>2. \A f \in DOMAIN shown' \ unseen' : shown'[f] = list_dir(tree', f)
    BY <1>1, <2>1 DEF BrowserIInv, UnwatchedIsReal
  <2>3. ASSUME NEW i \in DOMAIN arriving', arriving'[i].type = "list",
               arriving'[i].folder \notin unseen'
        PROVE  arriving'[i].entries = list_dir(tree', arriving'[i].folder)
    BY <1>1, <1>6, <2>1, <2>3 DEF BrowserIInv, UnwatchedIsReal
  <2> QED BY <1>1, <2>2, <2>3 DEF BrowserIInv, UnwatchedIsReal
\* A folder above that is told of will be listed.
<1>8. ASSUME watching, NEW i, NEW f \in Paths,
             \/ list_dir(tree, f) # list_dir(u, f) /\ f \notin missed
             \/ IsDir(tree, f) /\ ~IsDir(u, f)
      PROVE  WillCatchUp(i, f)'
  <2>1. PICK h \in Paths : IsPrefix(h, f) /\ IsDir(u, h) /\ Told(events, h)
    BY <1>8 DEF Heard
  <2>2. \E folders \in raw' : h \in folders
    BY <1>1, <1>8, <2>1 DEF Told
  <2>3. WillList(i, h)'
    BY <1>1, <2>1, <2>2 DEF WillList
  <2> QED BY <2>1, <2>3 DEF WillCatchUp
<1>9. ASSUME watching, NEW i \in 1..Len(arriving) + 1, NEW f \in Paths, WillCatchUp(i, f)
      PROVE  WillCatchUp(i, f)'
  <2>1. PICK h \in Paths : IsPrefix(h, f) /\ WillList(i, h)
    BY <1>9 DEF WillCatchUp
  <2>2. CASE IsDir(u, h)
    <3>1. \A folders \in raw : folders \in raw'
      BY <1>1
    <3>2. WillList(i, h)'
      BY <1>1, <1>2, <1>3, <2>1, <2>2, <3>1, StillListed DEF AnswerAbout
    <3> QED BY <2>1, <3>2 DEF WillCatchUp
  <2>3. CASE ~IsDir(u, h)
    <3>1. IsDir(tree, h)
      BY <2>1 DEF WillList
    <3>2. WillCatchUp(i, h)'
      BY <1>8, <1>9, <2>3, <3>1
    <3>3. PICK g \in Paths : IsPrefix(g, h) /\ WillList(i, g)'
      BY <3>2 DEF WillCatchUp
    <3>4. IsPrefix(g, f)
      BY <2>1, <3>3, PrefixOrder
    <3> QED BY <3>3, <3>4 DEF WillCatchUp
  <2> QED BY <2>2, <2>3
<1>10. AnswersCatchUp'
  <2> SUFFICES ASSUME watching, NEW i \in DOMAIN arriving', arriving'[i].type = "list",
                      arriving'[i].ok, NEW f, f = arriving'[i].folder, f \notin unseen',
                      arriving'[i].entries # list_dir(u, f)
               PROVE  WillCatchUp(i + 1, f)'
    BY <1>1 DEF AnswersCatchUp
  <2>1. i \in DOMAIN arriving /\ arriving'[i] = arriving[i] /\ f \in Paths
    BY <1>6
  <2>2. i + 1 \in 1..Len(arriving) + 1 /\ f \notin unseen /\ f \notin missed
    BY <1>1, <1>2, <2>1
  <2>3. CASE list_dir(tree, f) = list_dir(u, f)
    <3>1. WillCatchUp(i + 1, f)
      BY <2>1, <2>2, <2>3 DEF BrowserIInv, AnswersCatchUp
    <3> QED BY <1>9, <2>1, <2>2, <3>1
  <2>4. CASE list_dir(tree, f) # list_dir(u, f)
    BY <1>8, <2>1, <2>2, <2>4
  <2> QED BY <2>3, <2>4
<1>11. ShownCatchesUp'
  <2> SUFFICES ASSUME watching, NEW f \in DOMAIN shown \ unseen', NotGivenUp(f),
                      shown[f] # list_dir(u, f)
               PROVE  WillCatchUp(1, f)'
    BY <1>1 DEF ShownCatchesUp, NotGivenUp
  <2>1. f \in Paths /\ f \notin unseen /\ f \notin missed /\ 1 \in 1..Len(arriving) + 1
    BY <1>1, <1>2 DEF BrowserIInv, BrowserTyped
  <2>2. CASE list_dir(tree, f) = list_dir(u, f)
    BY <1>9, <2>1, <2>2 DEF BrowserIInv, ShownCatchesUp
  <2>3. CASE list_dir(tree, f) # list_dir(u, f)
    BY <1>8, <2>1, <2>3
  <2> QED BY <2>2, <2>3
<1> QED BY <1>4, <1>5, <1>7, <1>10, <1>11 DEF BrowserIInv

\* EventsOf tells of paths.
LEMMA EventsName ==
    ASSUME NEW t, NEW u, WellFormed(t), WellFormed(u)
    PROVE  \A e \in EventsOf(t, u) : map_event(e) \subseteq Paths
<1> SUFFICES ASSUME NEW e \in EventsOf(t, u) PROVE map_event(e) \subseteq Paths
  OBVIOUS
<1>1. PICK p \in Changed(t, u) : e.paths = <<p>>
  BY DEF EventsOf
<1>2. p \in Paths \ {RootPath}
  BY DEF Changed, WellFormed
<1>3. Range(<<p>>) = {p} /\ Front(p) \in Paths
  BY <1>2, FrontOfPath DEF Range
<1> QED BY <1>1, <1>3 DEF map_event, ParentsOf

\* An operation, and the refresh of the browser that asked for it.
LEMMA Operated ==
    ASSUME BrowserIInv, NEW o, NEW events, NEW F \in SUBSET Paths,
           WellFormed(o.tree), Heard(tree, o.tree, events, {}),
           \A e \in events : map_event(e) \subseteq Paths,
           Operate(o, events, F)
    PROVE  BrowserIInv'
<1>1. ChangeTree(o.tree, events, {})
      /\ UNCHANGED <<lists, awaited, refreshing, expanded, shown, givenUp>>
      /\ (arriving' = arriving
          \/ arriving' = Append(arriving, [type |-> "fs_result", folders |-> F]))
  BY DEF Operate
<1> QED BY <1>1, TreeChanges

\* Most operations raise the events for what they have changed.
LEMMA OperatedPlainly ==
    ASSUME BrowserIInv, NEW o, NEW F \in SUBSET Paths, WellFormed(o.tree),
           Operate(o, EventsOf(tree, o.tree), F)
    PROVE  BrowserIInv'
<1>1. WellFormed(tree)
  BY DEF BrowserIInv, BrowserTyped
<1> QED BY <1>1, Operated, EventsAreHeard, EventsName

\* The paths that operations name lie in folders.
LEMMA NamedAreFolded ==
    ASSUME FileTreeAssumption, NEW p \in NamedPaths
    PROVE  p \in Paths \ {RootPath} /\ Front(p) \in Paths
<1>1. p \in Paths \ {RootPath}
  BY PathsOfProject DEF FileTreeAssumption
<1> QED BY <1>1, FrontOfPath

\* CreateDir, WriteFile, DeletePath and CopyPath.
LEMMA OperationsKeep ==
    ASSUME FileTreeAssumption, BrowserIInv,
           CreateDir \/ WriteFile \/ DeletePath \/ CopyPath
    PROVE  BrowserIInv'
<1>1. WellFormed(tree)
  BY DEF BrowserIInv, BrowserTyped
<1>2. CASE CreateDir
  <2>1. PICK p \in NamedPaths : LET o == create_dir(tree, p) IN
            Operate(o, EventsOf(tree, o.tree), IF o.ok THEN {Front(p)} ELSE {})
    BY <1>2 DEF CreateDir
  <2>2. PICK o : o = create_dir(tree, p)
    OBVIOUS
  <2>3. PICK F : F = IF o.ok THEN {Front(p)} ELSE {}
    OBVIOUS
  <2>4. WellFormed(o.tree) /\ F \in SUBSET Paths
    BY <1>1, <2>2, <2>3, NamedAreFolded, FoldersMade
  <2>5. Operate(o, EventsOf(tree, o.tree), F)
    BY <2>1, <2>2, <2>3
  <2> QED BY <2>4, <2>5, OperatedPlainly
<1>3. CASE WriteFile
  <2>1. PICK p \in NamedPaths : LET o == write_file(tree, p) IN
            Operate(o, EventsOf(tree, o.tree), IF o.ok THEN {Front(p)} ELSE {})
    BY <1>3 DEF WriteFile
  <2>2. PICK o : o = write_file(tree, p)
    OBVIOUS
  <2>3. PICK F : F = IF o.ok THEN {Front(p)} ELSE {}
    OBVIOUS
  <2>4. WellFormed(o.tree) /\ F \in SUBSET Paths
    BY <1>1, <2>2, <2>3, NamedAreFolded, WriteKeeps
  <2>5. Operate(o, EventsOf(tree, o.tree), F)
    BY <2>1, <2>2, <2>3
  <2> QED BY <2>4, <2>5, OperatedPlainly
<1>4. CASE DeletePath
  <2>1. PICK p \in NamedPaths : LET o == delete_path(tree, p) IN
            Operate(o, EventsOf(tree, o.tree), {Front(p)})
    BY <1>4 DEF DeletePath
  <2>2. PICK o : o = delete_path(tree, p)
    OBVIOUS
  <2>3. PICK F : F = {Front(p)}
    OBVIOUS
  <2>4. WellFormed(o.tree) /\ F \in SUBSET Paths
    BY <1>1, <2>2, <2>3, NamedAreFolded, DeleteKeeps
  <2>5. Operate(o, EventsOf(tree, o.tree), F)
    BY <2>1, <2>2, <2>3
  <2> QED BY <2>4, <2>5, OperatedPlainly
<1>5. CASE CopyPath
  <2>1. PICK p \in NamedPaths, to \in NamedPaths :
            \E o \in copy_path(tree, p, to) : Operate(o, EventsOf(tree, o.tree), {Front(to)})
    BY <1>5 DEF CopyPath
  <2>2. PICK o \in copy_path(tree, p, to) : Operate(o, EventsOf(tree, o.tree), {Front(to)})
    BY <2>1
  <2>3. WellFormed(o.tree)
    BY <1>1, <2>2, NamedAreFolded, CopyKeeps
  <2>4. PICK F : F = {Front(to)}
    OBVIOUS
  <2>5. F \in SUBSET Paths /\ Operate(o, EventsOf(tree, o.tree), F)
    BY <2>2, <2>4, NamedAreFolded
  <2> QED BY <2>3, <2>5, OperatedPlainly
<1> QED BY <1>2, <1>3, <1>4, <1>5

\* RenamePath.
LEMMA RenameSteps ==
    ASSUME FileTreeAssumption, BrowserIInv, RenamePath
    PROVE  BrowserIInv'
<1>1. WellFormed(tree)
  BY DEF BrowserIInv, BrowserTyped
<1>2. PICK p \in NamedPaths, to \in NamedPaths :
          /\ ~IsPrefix(p, to)
          /\ LET o == rename_path(tree, p, to)
             IN  Operate(o, EventsOf(tree, create_dir(tree, Front(to)).tree)
                            \cup IF o.ok THEN RenameEvents(p, to) ELSE {}, ParentsOf({p, to}))
  BY DEF RenamePath, Transferable
<1> DEFINE o == rename_path(tree, p, to)
           u == create_dir(tree, Front(to)).tree
           events == EventsOf(tree, u) \cup IF o.ok THEN RenameEvents(p, to) ELSE {}
<1>3. /\ p \in Paths \ {RootPath} /\ Front(p) \in Paths
      /\ to \in Paths \ {RootPath} /\ Front(to) \in Paths
  BY NamedAreFolded
<1>4. ParentsOf({p, to}) \subseteq Paths
  BY <1>3 DEF ParentsOf
<1>5. WellFormed(u)
  BY <1>1, <1>3, FoldersMade
<1>6. \A e \in EventsOf(tree, u) : map_event(e) \subseteq Paths
  BY <1>1, <1>5, EventsName
<1>7. \A e \in RenameEvents(p, to) : map_event(e) \subseteq Paths
  <2> SUFFICES ASSUME NEW e \in RenameEvents(p, to) PROVE map_event(e) \subseteq Paths
    OBVIOUS
  <2>1. e.kind = "name" /\ (Len(e.paths) < 2 \/ e.paths = <<p, to>>)
    <3>1. Len(<<p>>) < 2 /\ Len(<<to>>) < 2
      OBVIOUS
    <3>2. e.kind = "name" /\ (e.paths = <<p>> \/ e.paths = <<to>> \/ e.paths = <<p, to>>)
      BY DEF RenameEvents
    <3> QED BY <3>1, <3>2
  <2>2. Range(<<p, to>>) = {p, to}
    BY DEF Range
  <2> QED BY <1>4, <2>1, <2>2 DEF map_event
<1>8. CASE o.ok
  <2>1. events = EventsOf(tree, u) \cup RenameEvents(p, to)
    BY <1>8
  <2>2. WellFormed(o.tree) /\ Heard(tree, o.tree, events, {})
    BY <1>1, <1>2, <1>3, <1>8, <2>1, Renamed
  <2>3. \A e \in events : map_event(e) \subseteq Paths
    BY <1>6, <1>7, <2>1
  <2> HIDE DEF events, o
  <2>4. Operate(o, events, ParentsOf({p, to}))
    BY <1>2 DEF events, o
  <2> QED BY <1>4, <2>2, <2>3, <2>4, Operated
<1>9. CASE ~o.ok
  <2>1. events = EventsOf(tree, u)
    BY <1>9
  <2>2. o.tree = u
    <3>1. \A w : Outcome(w, TRUE).ok /\ Outcome(w, FALSE).tree = w
      BY DEF Outcome
    <3> QED BY <1>9, <3>1 DEF rename_path
  <2>3. WellFormed(o.tree) /\ Heard(tree, o.tree, events, {})
    <3> HIDE DEF u, o, events
    <3> QED BY <1>1, <1>5, <2>1, <2>2, EventsAreHeard
  <2>4. \A e \in events : map_event(e) \subseteq Paths
    BY <1>6, <2>1
  <2> HIDE DEF events, o
  <2>5. Operate(o, events, ParentsOf({p, to}))
    BY <1>2 DEF events, o
  <2> QED BY <1>4, <2>3, <2>4, <2>5, Operated
<1> QED BY <1>8, <1>9

\* MoveAcross.
LEMMA MoveSteps ==
    ASSUME FileTreeAssumption, BrowserIInv, MoveAcross
    PROVE  BrowserIInv'
<1>1. WellFormed(tree)
  BY DEF BrowserIInv, BrowserTyped
<1>2. PICK p \in NamedPaths :
          /\ IsDir(tree, Front(p)) /\ ~IsDir(tree, p)
          /\ ChangeTree(IF p \in DOMAIN tree THEN Without(tree, {p})
                        ELSE Over(Only(p, "file"), tree),
                        {[kind |-> "name", paths |-> <<p>>]}, {Front(p)})
          /\ UNCHANGED browserVars
  BY DEF MoveAcross
<1> DEFINE u == IF p \in DOMAIN tree THEN Without(tree, {p}) ELSE Over(Only(p, "file"), tree)
           events == {[kind |-> "name", paths |-> <<p>>]}
<1>3. p \in Paths \ {RootPath}
  BY NamedAreFolded
<1>4. WellFormed(u) /\ Heard(tree, u, events, {Front(p)})
  BY <1>1, <1>2, <1>3, MovedAcross
<1>5. \A e \in events : map_event(e) \subseteq Paths
  <2> SUFFICES ASSUME NEW e \in events PROVE map_event(e) \subseteq Paths
    OBVIOUS
  <2>1. Len(<<p>>) < 2
    OBVIOUS
  <2>2. e.kind = "name" /\ e.paths = <<p>>
    OBVIOUS
  <2>3. map_event(e) = {}
    BY <2>1, <2>2 DEF map_event
  <2> QED BY <2>3
<1> HIDE DEF u, events
<1>6. ChangeTree(u, events, {Front(p)})
  BY <1>2 DEF u, events
<1>7. UNCHANGED <<lists, awaited, refreshing, expanded, shown, givenUp>> /\ arriving' = arriving
  BY <1>2 DEF browserVars
<1> QED BY <1>4, <1>5, <1>6, <1>7, TreeChanges

-----------------------------------------------------------------------------
(* Steps of the watcher, the socket and the client.                        *)

\* What an answer lists.
LEMMA ListingTyped ==
    ASSUME BrowserTyped, NEW f PROVE list_dir(tree, f) \subseteq Entries
<1> SUFFICES ASSUME NEW q \in DOMAIN tree
             PROVE  [path |-> q, is_dir |-> tree[q] = "dir"] \in Entries
  BY DEF list_dir
<1>1. q \in Paths /\ (tree[q] = "dir") \in BOOLEAN
  BY DEF BrowserTyped, WellFormed
<1> QED BY <1>1 DEF Entries

\* StartWatching: until then all was as it is.
LEMMA WatchingStarts == ASSUME BrowserIInv, StartWatching PROVE BrowserIInv'
<1>1. ~watching /\ watching' = TRUE
      /\ UNCHANGED <<tree, raw, lists, arriving, awaited, refreshing, expanded, shown, unseen,
                     givenUp>>
  BY DEF StartWatching, browserVars
<1>2. BrowserTyped' /\ NodesAbove' /\ UnwatchedIsReal'
  BY <1>1 DEF BrowserIInv, BrowserTyped, NodesAbove, Node, UnwatchedIsReal
<1>3. AnswersCatchUp' /\ ShownCatchesUp'
  BY <1>1 DEF BrowserIInv, UnwatchedIsReal, AnswersCatchUp, ShownCatchesUp
<1> QED BY <1>2, <1>3 DEF BrowserIInv

\* WatchEvent: what was told to the socket is on its way to the client.
LEMMA EventsAreSent == ASSUME BrowserIInv, WatchEvent PROVE BrowserIInv'
<1>1. PICK folders \in raw :
          /\ raw' = raw \ {folders}
          /\ arriving' = Append(arriving, [type |-> "fs_event", folders |-> folders])
  BY DEF WatchEvent
<1>2. UNCHANGED <<tree, watching, lists, awaited, refreshing, expanded, shown, unseen, givenUp>>
  BY DEF WatchEvent
<1>3. BrowserTyped /\ watching
  BY <1>1 DEF BrowserIInv, BrowserTyped, UnwatchedIsReal
<1> DEFINE m == [type |-> "fs_event", folders |-> folders]
<1>4. m \in Messages /\ m.type # "list" /\ m.folders = folders
  BY <1>1, <1>3 DEF BrowserTyped, Messages
<1>5. arriving' = Append(arriving, m)
  BY <1>1
<1> HIDE DEF m
<1>6. /\ arriving \in Seq(Messages) /\ arriving' \in Seq(Messages) /\ Len(arriving) \in Nat
      /\ Len(arriving') = Len(arriving) + 1
      /\ \A k \in 1..Len(arriving) : arriving'[k] = arriving[k]
      /\ \A k \in Len(arriving) + 1..Len(arriving') : arriving'[k] = m
  BY <1>3, <1>4, <1>5, Arrives DEF BrowserTyped
<1>7. BrowserTyped'
  BY <1>1, <1>2, <1>3, <1>6 DEF BrowserTyped
<1>8. arriving'[Len(arriving) + 1] = m
  BY <1>6
<1>9. ASSUME NEW i \in 1..Len(arriving) + 1, NEW h \in Paths, WillList(i, h)
      PROVE  WillList(i, h)'
  <2>1. IsDir(tree', h)
    BY <1>2, <1>9 DEF WillList
  <2>2. \A F \in raw : h \in F => F \in raw' \/ Tells(arriving'[Len(arriving) + 1], h)
    BY <1>1, <1>4, <1>8 DEF Tells
  <2> QED BY <1>2, <1>4, <1>6, <1>9, <2>1, <2>2, StillListed DEF AnswerAbout
<1> QED BY <1>2, <1>3, <1>4, <1>6, <1>7, <1>9, BehindTheRest

\* AnswerList: the answer is up to date when it is sent.
LEMMA ListsAreAnswered == ASSUME BrowserIInv, AnswerList PROVE BrowserIInv'
<1> DEFINE f == Head(lists)
           m == [type |-> "list", folder |-> f, ok |-> IsDir(tree, f),
                 entries |-> list_dir(tree, f)]
<1>1. /\ lists # <<>> /\ lists' = Tail(lists) /\ arriving' = Append(arriving, m)
      /\ UNCHANGED <<tree, raw, watching, awaited, refreshing, expanded, shown, unseen, givenUp>>
  BY DEF AnswerList
<1>2. BrowserTyped
  BY DEF BrowserIInv
<1>3. f \in Paths /\ lists' \in Seq(Paths)
  BY <1>1, <1>2, HeadTailProperties DEF BrowserTyped
<1>4. m \in Messages
  <2>1. list_dir(tree, f) \in SUBSET Entries /\ IsDir(tree, f) \in BOOLEAN
    BY <1>2, ListingTyped DEF IsDir
  <2> HIDE DEF f
  <2> QED BY <1>3, <2>1 DEF Messages
<1>5. m.type = "list" /\ m.folder = f /\ m.ok = IsDir(tree, f) /\ m.entries = list_dir(tree, f)
  OBVIOUS
<1> HIDE DEF m
<1>6. /\ arriving \in Seq(Messages) /\ arriving' \in Seq(Messages) /\ Len(arriving) \in Nat
      /\ Len(arriving') = Len(arriving) + 1
      /\ \A k \in 1..Len(arriving) : arriving'[k] = arriving[k]
      /\ \A k \in Len(arriving) + 1..Len(arriving') : arriving'[k] = m
  BY <1>1, <1>2, <1>4, Arrives DEF BrowserTyped
<1>7. BrowserTyped'
  BY <1>1, <1>2, <1>3, <1>6 DEF BrowserTyped
<1>8. ASSUME NEW i \in 1..Len(arriving) + 1, NEW h \in Paths, WillList(i, h)
      PROVE  WillList(i, h)'
  <2>1. IsDir(tree', h) /\ IsDir(tree, h)
    BY <1>1, <1>8 DEF WillList
  <2>2. AnswerAbout(m, h) => m.ok
    BY <1>5, <2>1 DEF AnswerAbout
  <2> QED BY <1>1, <1>6, <1>8, <2>1, <2>2, StillListed
<1>9. watching \/ raw' = {}
  BY <1>1 DEF BrowserIInv, BrowserTyped, UnwatchedIsReal
<1> QED BY <1>1, <1>5, <1>6, <1>7, <1>8, <1>9, BehindTheRest

\* A step of the client that takes no message.
LEMMA ClientAlone ==
    ASSUME BrowserIInv, BrowserTyped',
           UNCHANGED <<tree, raw, watching, arriving, shown, unseen, givenUp>>,
           \A h : h \in refreshing \/ h \in awaited \/ (h # RootPath /\ h \notin expanded)
               => h \in refreshing' \/ h \in awaited' \/ (h # RootPath /\ h \notin expanded')
    PROVE  BrowserIInv'
<1>1. /\ arriving \in Seq(Messages) /\ arriving' \in Seq(Messages) /\ Len(arriving) \in Nat
      /\ Len(arriving) + 1..Len(arriving') = {}
  BY DEF BrowserIInv, BrowserTyped
<1>2. ASSUME NEW i \in 1..Len(arriving) + 1, NEW h \in Paths, WillList(i, h)
      PROVE  WillList(i, h)'
  <2>1. IsDir(tree', h)
    BY <1>2 DEF WillList
  <2> QED BY <1>1, <1>2, <2>1, StillListed
<1>3. watching \/ raw' = {}
  BY DEF BrowserIInv, BrowserTyped, UnwatchedIsReal
<1> QED BY <1>1, <1>2, <1>3, BehindTheRest

\* A listing is given up: so are those that only this one would have brought.
LEMMA ListingFails ==
    ASSUME BrowserIInv, UNCHANGED <<tree, raw, watching, lists, arriving, expanded, shown, unseen>>,
           NEW f, givenUp' = givenUp \cup {f},
           refreshing' \subseteq refreshing, refreshing \ {f} \subseteq refreshing',
           awaited \ {f} \subseteq awaited'
    PROVE  BrowserIInv'
<1>1. BrowserTyped' /\ NodesAbove' /\ UnwatchedIsReal'
  BY DEF BrowserIInv, BrowserTyped, NodesAbove, Node, UnwatchedIsReal
<1>2. DOMAIN arriving = 1..Len(arriving) /\ Len(arriving) \in Nat
  BY LenProperties DEF BrowserIInv, BrowserTyped
<1>3. AnswersCatchUp'
  <2> SUFFICES ASSUME watching, NEW i \in DOMAIN arriving, WillCatchUp(i + 1, arriving[i].folder)
               PROVE  WillCatchUp(i + 1, arriving[i].folder)'
    BY DEF BrowserIInv, AnswersCatchUp
  <2>1. i + 1 # 1
    BY <1>2
  <2> QED BY <2>1 DEF WillCatchUp, WillList, NoFailure
<1>4. ShownCatchesUp'
  <2> SUFFICES ASSUME watching, NEW g \in DOMAIN shown \ unseen, NotGivenUp(g)',
                      shown[g] # list_dir(tree, g)
               PROVE  WillCatchUp(1, g)'
    BY DEF ShownCatchesUp
  <2>1. NotGivenUp(g) /\ ~IsPrefix(f, g)
    BY DEF NotGivenUp
  <2>2. PICK h \in Paths : IsPrefix(h, g) /\ WillList(1, h)
    BY <2>1 DEF BrowserIInv, ShownCatchesUp, WillCatchUp
  <2>3. WillList(1, h)'
    BY <2>1, <2>2 DEF WillList, NoFailure
  <2> QED BY <2>2, <2>3 DEF WillCatchUp
<1> QED BY <1>1, <1>3, <1>4 DEF BrowserIInv

\* RefreshFolder: a folder that is not open is left until it is.
LEMMA FoldersAreRefreshed == ASSUME BrowserIInv, RefreshFolder PROVE BrowserIInv'
<1>1. PICK f \in refreshing :
          /\ refreshing' = refreshing \ {f}
          /\ IF f = RootPath \/ f \in expanded
             THEN \/ /\ lists' = Append(lists, f) /\ awaited' = awaited \cup {f}
                     /\ UNCHANGED givenUp
                  \/ givenUp' = givenUp \cup {f} /\ UNCHANGED <<lists, awaited>>
             ELSE UNCHANGED <<lists, awaited, givenUp>>
  BY DEF RefreshFolder, GiveUp
<1>2. UNCHANGED <<tree, raw, watching, arriving, expanded, shown, unseen>>
  BY DEF RefreshFolder
<1>3. CASE UNCHANGED givenUp
  <2>1. BrowserTyped /\ f \in Paths
    BY <1>1 DEF BrowserIInv, BrowserTyped
  <2>2. lists' \in Seq(Paths)
    BY <1>1, <2>1, AppendProperties DEF BrowserTyped
  <2>3. BrowserTyped'
    BY <1>1, <1>2, <2>1, <2>2 DEF BrowserTyped
  <2>4. \/ lists' = Append(lists, f) /\ awaited' = awaited \cup {f}
        \/ (f = RootPath \/ f \in expanded) /\ givenUp' = givenUp \cup {f}
              /\ UNCHANGED <<lists, awaited>>
        \/ f # RootPath /\ f \notin expanded /\ awaited' = awaited
    BY <1>1
  <2>5. CASE UNCHANGED lists /\ givenUp' = givenUp \cup {f} /\ UNCHANGED awaited
    BY <1>1, <1>2, <2>5, ListingFails
  <2> QED BY <1>1, <1>2, <1>3, <2>3, <2>4, <2>5, ClientAlone
<1>4. CASE givenUp' = givenUp \cup {f} /\ UNCHANGED <<lists, awaited>>
  BY <1>1, <1>2, <1>4, ListingFails
<1> QED BY <1>1, <1>3, <1>4

\* TimeoutList.
LEMMA ListsTimeOut == ASSUME BrowserIInv, TimeoutList PROVE BrowserIInv'
<1>1. PICK f \in awaited :
          /\ awaited' = awaited \ {f} \/ awaited' = awaited
          /\ givenUp' = givenUp \cup {f}
  BY DEF TimeoutList, GiveUp
<1>2. UNCHANGED <<tree, raw, watching, lists, arriving, refreshing, expanded, shown, unseen>>
  BY DEF TimeoutList
<1> QED BY <1>1, <1>2, ListingFails

\* toggleFolder: a folder that is opened is listed.
LEMMA FoldersAreToggled ==
    ASSUME FileTreeAssumption, BrowserIInv, toggleFolder PROVE BrowserIInv'
<1>1. PICK f \in TreePaths :
          IF f \in expanded THEN expanded' = expanded \ {f} /\ UNCHANGED refreshing
          ELSE expanded' = expanded \cup {f} /\ refreshing' = refreshing \cup {f}
  BY DEF toggleFolder
<1>2. UNCHANGED <<tree, raw, watching, lists, arriving, awaited, shown, unseen, givenUp>>
  BY DEF toggleFolder
<1>3. f \in Paths
  BY PathsOfProject
<1>4. BrowserTyped'
  BY <1>1, <1>2, <1>3 DEF BrowserIInv, BrowserTyped
<1> QED BY <1>1, <1>2, <1>4, ClientAlone

\* The first message has arrived.
LEMMA Arrived ==
    ASSUME arriving \in Seq(Messages), arriving # <<>>, arriving' = Tail(arriving)
    PROVE  /\ Head(arriving) \in Messages /\ Head(arriving) = arriving[1]
           /\ arriving' \in Seq(Messages)
           /\ Len(arriving') \in Nat /\ Len(arriving) = Len(arriving') + 1
           /\ DOMAIN arriving = 1..Len(arriving) /\ DOMAIN arriving' = 1..Len(arriving')
           /\ \A k \in 1..Len(arriving') : arriving'[k] = arriving[k + 1]
<1>1. /\ Head(arriving) \in Messages /\ arriving' \in Seq(Messages)
      /\ Len(arriving') = Len(arriving) - 1
      /\ \A k \in 1..Len(arriving') : arriving'[k] = arriving[k + 1]
  BY HeadTailProperties
<1>2. /\ Len(arriving') \in Nat /\ Len(arriving) \in Nat
      /\ DOMAIN arriving = 1..Len(arriving) /\ DOMAIN arriving' = 1..Len(arriving')
  BY <1>1, LenProperties
<1>3. Head(arriving) = arriving[1]
  OBVIOUS
<1> QED BY <1>1, <1>2, <1>3

\* What arrives without failure still does behind the first message.
LEMMA NoFailureLater ==
    ASSUME arriving \in Seq(Messages), arriving # <<>>, arriving' = Tail(arriving),
           NEW j \in Nat, j >= 1, NEW h, NoFailure(j + 1, h)
    PROVE  NoFailure(j, h)'
<1> SUFFICES ASSUME NEW k \in j..Len(arriving'), AnswerAbout(arriving'[k], h)
             PROVE  arriving'[k].ok
  BY DEF NoFailure, AnswerAbout
<1>1. k \in 1..Len(arriving') /\ k + 1 \in j + 1..Len(arriving)
  BY Arrived
<1>2. arriving'[k] = arriving[k + 1]
  BY <1>1, Arrived
<1> QED BY <1>1, <1>2 DEF NoFailure

\* What later messages bring is brought one message sooner.
LEMMA ListedSooner ==
    ASSUME arriving \in Seq(Messages), arriving # <<>>, arriving' = Tail(arriving),
           UNCHANGED <<tree, raw>>, NEW i \in 1..Len(arriving), NEW h, WillList(i + 1, h)
    PROVE  WillList(i, h)'
<1>1. IsDir(tree', h) /\ Len(arriving) \in Nat /\ i + 1 # 1
  BY DEF WillList
<1>2. CASE \E folders \in raw : h \in folders
  BY <1>1, <1>2 DEF WillList
<1>3. CASE \E j \in i + 1..Len(arriving) : Tells(arriving[j], h) /\ NoFailure(j, h)
  <2>1. PICK j \in i + 1..Len(arriving) : Tells(arriving[j], h) /\ NoFailure(j, h)
    BY <1>3
  <2>2. PICK k \in i..Len(arriving') : j = k + 1
    BY <1>1, <2>1, Arrived
  <2>3. k \in Nat /\ k >= 1 /\ k \in 1..Len(arriving')
    BY <1>1, <2>2
  <2>4. arriving'[k] = arriving[j] /\ NoFailure(k, h)'
    BY <2>1, <2>2, <2>3, Arrived, NoFailureLater
  <2> QED BY <1>1, <2>1, <2>2, <2>4 DEF WillList, Tells
<1> QED BY <1>1, <1>2, <1>3 DEF WillList

\* What the first message brings is brought by what the client makes of it.
LEMMA ListedNext ==
    ASSUME arriving \in Seq(Messages), arriving # <<>>, arriving' = Tail(arriving),
           UNCHANGED <<tree, raw>>, NEW h, WillList(1, h),
           \/ Tells(Head(arriving), h)
           \/ h \in refreshing \/ h \in awaited \/ (h # RootPath /\ h \notin expanded)
           => \/ ~NoFailure(1, h)
              \/ h \in refreshing' \/ h \in awaited' \/ (h # RootPath /\ h \notin expanded')
    PROVE  WillList(1, h)'
<1>1. IsDir(tree', h) /\ Len(arriving) \in Nat /\ Len(arriving) >= 1
  BY Arrived DEF WillList
<1>2. ASSUME NoFailure(1, h) PROVE NoFailure(1, h)'
  <2>1. NoFailure(1 + 1, h)
    BY <1>1, <1>2 DEF NoFailure
  <2> QED BY <2>1, NoFailureLater
<1>3. CASE \E folders \in raw : h \in folders
  BY <1>1, <1>3 DEF WillList
<1>4. ASSUME NEW j \in 1..Len(arriving), j # 1, Tells(arriving[j], h), NoFailure(j, h)
      PROVE  WillList(1, h)'
  <2>1. 1 \in 1..Len(arriving) /\ j \in 1 + 1..Len(arriving)
    BY <1>1, <1>4
  <2>2. WillList(1 + 1, h)
    BY <1>1, <1>4, <2>1 DEF WillList
  <2> QED BY <2>1, <2>2, ListedSooner
<1>5. CASE Tells(arriving[1], h) /\ NoFailure(1, h)
  <2>1. Head(arriving) = arriving[1]
    BY Arrived
  <2> QED BY <1>1, <1>2, <1>5, <2>1 DEF WillList
<1>6. CASE /\ NoFailure(1, h)
           /\ h \in refreshing \/ h \in awaited \/ (h # RootPath /\ h \notin expanded)
  BY <1>1, <1>2, <1>6 DEF WillList
<1> QED BY <1>3, <1>4, <1>5, <1>6 DEF WillList

\* HearOfChange.
LEMMA ChangesAreHeard == ASSUME BrowserIInv, HearOfChange PROVE BrowserIInv'
<1>1. /\ arriving # <<>> /\ Head(arriving).type # "list" /\ arriving' = Tail(arriving)
      /\ refreshing' = refreshing \cup Head(arriving).folders
      /\ UNCHANGED <<tree, raw, watching, lists, awaited, expanded, shown, unseen, givenUp>>
  BY DEF HearOfChange
<1>2. BrowserTyped /\ arriving \in Seq(Messages)
  BY DEF BrowserIInv, BrowserTyped
<1>3. /\ Head(arriving) \in Messages /\ arriving' \in Seq(Messages)
      /\ Len(arriving') \in Nat /\ Len(arriving) = Len(arriving') + 1
      /\ DOMAIN arriving = 1..Len(arriving) /\ DOMAIN arriving' = 1..Len(arriving')
      /\ \A k \in 1..Len(arriving') : arriving'[k] = arriving[k + 1]
  BY <1>1, <1>2, Arrived
<1>4. BrowserTyped'
  <2>1. Head(arriving).folders \subseteq Paths
    BY <1>1, <1>3, MessageKinds
  <2> QED BY <1>1, <1>2, <1>3, <2>1 DEF BrowserTyped
<1>5. NodesAbove'
  BY <1>1 DEF BrowserIInv, NodesAbove, Node
<1>6. \A i \in DOMAIN arriving' : i \in 1..Len(arriving) /\ i + 1 \in DOMAIN arriving
                                   /\ arriving'[i] = arriving[i + 1]
  BY <1>3
<1>7. UnwatchedIsReal'
  BY <1>1, <1>6 DEF BrowserIInv, UnwatchedIsReal
<1>8. AnswersCatchUp'
  <2> SUFFICES ASSUME watching, NEW i \in DOMAIN arriving', NEW f, f = arriving'[i].folder,
                      arriving'[i].type = "list", arriving'[i].ok, f \notin unseen,
                      arriving'[i].entries # list_dir(tree, f)
               PROVE  WillCatchUp(i + 1, f)'
    BY <1>1 DEF AnswersCatchUp
  <2>1. PICK h \in Paths : IsPrefix(h, f) /\ WillList(i + 1 + 1, h)
    BY <1>6 DEF BrowserIInv, AnswersCatchUp, WillCatchUp
  <2>2. i + 1 \in 1..Len(arriving)
    BY <1>3, <1>6
  <2>3. WillList(i + 1, h)'
    BY <1>1, <1>2, <2>1, <2>2, ListedSooner
  <2> QED BY <2>1, <2>3 DEF WillCatchUp
<1>9. ShownCatchesUp'
  <2> SUFFICES ASSUME watching, NEW f \in DOMAIN shown \ unseen, NotGivenUp(f),
                      shown[f] # list_dir(tree, f)
               PROVE  WillCatchUp(1, f)'
    BY <1>1 DEF ShownCatchesUp, NotGivenUp
  <2>1. PICK h \in Paths : IsPrefix(h, f) /\ WillList(1, h)
    BY DEF BrowserIInv, ShownCatchesUp, WillCatchUp
  <2>2. WillList(1, h)'
    BY <1>1, <1>2, <2>1, ListedNext DEF Tells
  <2> QED BY <2>1, <2>2 DEF WillCatchUp
<1> QED BY <1>4, <1>5, <1>7, <1>8, <1>9 DEF BrowserIInv

\* What the client has loaded once it has new children of a folder.
LEMMA ChildrenUpdated ==
    ASSUME BrowserTyped, NodesAbove, NEW g \in Paths, NEW entries, NEW s,
           s = updateChildren(g, entries)
    PROVE  /\ \A f \in DOMAIN s : f # g =>
                  f \in DOMAIN shown /\ s[f] = shown[f] /\ ~IsPrefix(g, f)
           /\ g \in DOMAIN s => s[g] = entries /\ (g = RootPath \/ Node(g))
           /\ \A f \in DOMAIN shown : ~IsPrefix(g, f) => f \in DOMAIN s /\ s[f] = shown[f]
<1>1. CASE g = RootPath
  <2>1. DOMAIN s = {g} /\ s[g] = entries
    BY <1>1 DEF updateChildren, Only
  <2>2. \A f \in DOMAIN shown : IsPrefix(g, f)
    BY <1>1, PrefixOrder DEF BrowserTyped
  <2> QED BY <1>1, <2>1, <2>2
<1>2. CASE g # RootPath /\ Node(g)
  <2> DEFINE rest == [f \in {f \in DOMAIN shown : ~IsPrefix(g, f)} |-> shown[f]]
  <2>1. s = Over(Only(g, entries), rest)
    BY <1>2 DEF updateChildren
  <2>2. /\ DOMAIN rest = {f \in DOMAIN shown : ~IsPrefix(g, f)}
        /\ \A f \in DOMAIN rest : rest[f] = shown[f]
    OBVIOUS
  <2> HIDE DEF rest
  <2>3. IsPrefix(g, g)
    BY PrefixOrder
  <2>4. /\ DOMAIN s = {g} \cup DOMAIN rest /\ s[g] = entries
        /\ \A f \in DOMAIN rest : s[f] = rest[f]
    BY <2>1, <2>2, <2>3 DEF Over, Only
  <2> QED BY <1>2, <2>2, <2>4
<1>3. CASE g # RootPath /\ ~Node(g)
  <2>1. s = shown
    BY <1>3 DEF updateChildren
  <2>2. \A f \in DOMAIN shown : ~IsPrefix(g, f)
    BY <1>3 DEF NodesAbove
  <2> QED BY <2>1, <2>2, PrefixOrder
<1> QED BY <1>1, <1>2, <1>3

\* ReceiveList: an answer that is out of date has news behind it.
LEMMA AnswersAreShown == ASSUME BrowserIInv, ReceiveList PROVE BrowserIInv'
<1> DEFINE m == Head(arriving)
           g == m.folder
<1>1. /\ arriving # <<>> /\ m.type = "list" /\ arriving' = Tail(arriving)
      /\ awaited' = awaited \ {g}
      /\ IF g \in awaited /\ m.ok
         THEN /\ shown' = updateChildren(g, m.entries)
              /\ unseen' = IF Outdated(g) THEN unseen ELSE unseen \ {g}
              /\ givenUp' = IF Outdated(g) THEN givenUp ELSE givenUp \ {g}
         ELSE UNCHANGED <<shown, unseen, givenUp>>
      /\ UNCHANGED <<tree, raw, watching, lists, refreshing, expanded>>
  BY DEF ReceiveList
<1>2. BrowserTyped /\ NodesAbove /\ arriving \in Seq(Messages)
  BY DEF BrowserIInv, BrowserTyped
<1>3. /\ m \in Messages /\ m = arriving[1] /\ arriving' \in Seq(Messages)
      /\ Len(arriving') \in Nat /\ Len(arriving) = Len(arriving') + 1
      /\ DOMAIN arriving = 1..Len(arriving) /\ DOMAIN arriving' = 1..Len(arriving')
      /\ \A k \in 1..Len(arriving') : arriving'[k] = arriving[k + 1]
  BY <1>1, <1>2, Arrived
<1>4. g \in Paths /\ m.ok \in BOOLEAN
  BY <1>1, <1>3, MessageKinds
<1> HIDE DEF m
<1>5. 1 \in DOMAIN arriving /\ 1 \in 1..Len(arriving)
      /\ \A i \in DOMAIN arriving' : i + 1 \in 1..Len(arriving) /\ i + 1 \in DOMAIN arriving
                                     /\ arriving'[i] = arriving[i + 1]
  BY <1>3
\* What is shown of a folder, and no longer unseen, is from before or just arrived.
<1>6. ASSUME NEW f \in DOMAIN shown' \ unseen'
      PROVE  \/ /\ f \in DOMAIN shown \ unseen /\ shown'[f] = shown[f]
                /\ g \in awaited /\ m.ok => ~IsPrefix(g, f)
             \/ /\ g \in awaited /\ m.ok /\ f = g /\ shown'[f] = m.entries
                /\ g \in unseen => ~Outdated(g)
  <2>1. CASE g \in awaited /\ m.ok
    <3>1. PICK s : s = updateChildren(g, m.entries)
      OBVIOUS
    <3>2. shown' = s
      BY <1>1, <2>1, <3>1
    <3>3. /\ f # g => f \in DOMAIN shown /\ s[f] = shown[f] /\ ~IsPrefix(g, f)
          /\ f = g => s[f] = m.entries
      BY <1>2, <1>4, <1>6, <3>1, <3>2, ChildrenUpdated
    <3>4. unseen' = IF Outdated(g) THEN unseen ELSE unseen \ {g}
      BY <1>1, <2>1
    <3> QED BY <1>6, <2>1, <3>2, <3>3, <3>4
  <2>2. CASE ~(g \in awaited /\ m.ok)
    BY <1>1, <1>6, <2>2
  <2> QED BY <2>1, <2>2
\* So is what is on its way.
<1>7. ASSUME NEW i \in DOMAIN arriving', arriving'[i].type = "list",
             arriving'[i].folder \notin unseen',
             arriving'[i].entries # list_dir(tree, arriving'[i].folder)
      PROVE  arriving[i + 1].folder \notin unseen
  <2>1. i + 1 \in DOMAIN arriving /\ arriving'[i] = arriving[i + 1]
    BY <1>5
  <2>2. Outdated(arriving[i + 1].folder)
    BY <1>7, <2>1 DEF Outdated
  <2> QED BY <1>1, <1>7, <2>1, <2>2
<1>8. BrowserTyped'
  <2>1. DOMAIN shown' \subseteq Paths
    <3>1. CASE g \in awaited /\ m.ok
      <4>1. PICK s : s = updateChildren(g, m.entries)
        OBVIOUS
      <4>2. \A f \in DOMAIN s : f # g => f \in DOMAIN shown
        BY <1>2, <1>4, <4>1, ChildrenUpdated
      <4> QED BY <1>1, <1>2, <1>4, <3>1, <4>1, <4>2 DEF BrowserTyped
    <3>2. CASE ~(g \in awaited /\ m.ok)
      BY <1>1, <1>2, <3>2 DEF BrowserTyped
    <3> QED BY <3>1, <3>2
  <2> QED BY <1>1, <1>2, <1>3, <2>1 DEF BrowserTyped
<1>9. NodesAbove'
  <2>1. CASE g \in awaited /\ m.ok
    <3> SUFFICES ASSUME NEW f \in DOMAIN shown', NEW k \in Paths, IsPrefix(k, f), k # RootPath
                 PROVE  Node(k)'
      BY DEF NodesAbove
    <3>1. PICK s : s = updateChildren(g, m.entries)
      OBVIOUS
    <3>2. shown' = s
      BY <1>1, <2>1, <3>1
    <3>3. /\ f # g => f \in DOMAIN shown /\ ~IsPrefix(g, f)
          /\ f = g => g = RootPath \/ Node(g)
          /\ \A q \in DOMAIN shown : ~IsPrefix(g, q) => q \in DOMAIN s /\ s[q] = shown[q]
      BY <1>2, <1>4, <3>1, <3>2, ChildrenUpdated
    <3>4. f \in Paths
      BY <1>8 DEF BrowserTyped
    <3>5. Front(k) \in Paths /\ IsPrefix(Front(k), k) /\ ~IsPrefix(k, Front(k))
      BY FrontOfPath
    <3>6. Node(k)
      <4>1. CASE f # g
        BY <1>2, <3>3, <4>1 DEF NodesAbove
      <4>2. CASE f = g
        <5>1. g # RootPath /\ Node(g)
          BY <3>3, <4>2, PrefixOrder
        <5>2. CASE k = g
          BY <5>1, <5>2
        <5>3. CASE k # g
          <6>1. Front(g) \in DOMAIN shown /\ IsPrefix(k, Front(g))
            BY <1>4, <4>2, <5>1, <5>3, PrefixOrder DEF Node
          <6> QED BY <1>2, <6>1 DEF NodesAbove
        <5> QED BY <5>2, <5>3
      <4> QED BY <4>1, <4>2
    <3>7. ~IsPrefix(g, Front(k))
      <4> SUFFICES ASSUME IsPrefix(g, Front(k)) PROVE FALSE
        OBVIOUS
      <4>1. IsPrefix(g, k)
        BY <1>4, <3>5, PrefixOrder
      <4>2. IsPrefix(g, f)
        BY <1>4, <3>4, <4>1, PrefixOrder
      <4>3. f = g
        BY <3>3, <4>2
      <4> QED BY <1>4, <3>5, <4>1, <4>3, PrefixOrder
    <3> QED BY <3>2, <3>3, <3>6, <3>7 DEF Node
  <2>2. CASE ~(g \in awaited /\ m.ok)
    BY <1>1, <1>2, <2>2 DEF NodesAbove, Node
  <2> QED BY <2>1, <2>2
<1>10. UnwatchedIsReal'
  <2> SUFFICES ASSUME ~watching PROVE UnwatchedIsReal'
    BY <1>1 DEF UnwatchedIsReal
  <2>1. ASSUME NEW f \in DOMAIN shown' \ unseen' PROVE shown'[f] = list_dir(tree, f)
    <3>1. ASSUME f = g, g \in unseen => ~Outdated(g) PROVE m.entries = list_dir(tree, f)
      <4>1. CASE g \in unseen
        BY <1>1, <1>3, <1>5, <3>1, <4>1 DEF Outdated
      <4>2. CASE g \notin unseen
        BY <1>1, <1>3, <1>5, <3>1, <4>2 DEF BrowserIInv, UnwatchedIsReal
      <4> QED BY <4>1, <4>2
    <3> QED BY <1>6, <3>1 DEF BrowserIInv, UnwatchedIsReal
  <2>2. ASSUME NEW i \in DOMAIN arriving', arriving'[i].type = "list",
               arriving'[i].folder \notin unseen'
        PROVE  arriving'[i].entries = list_dir(tree, arriving'[i].folder)
    BY <1>5, <1>7, <2>2 DEF BrowserIInv, UnwatchedIsReal
  <2> QED BY <1>1, <2>1, <2>2 DEF BrowserIInv, UnwatchedIsReal
<1>11. AnswersCatchUp'
  <2> SUFFICES ASSUME watching, NEW i \in DOMAIN arriving', NEW f, f = arriving'[i].folder,
                      arriving'[i].type = "list", arriving'[i].ok, f \notin unseen',
                      arriving'[i].entries # list_dir(tree, f)
               PROVE  WillCatchUp(i + 1, f)'
    BY <1>1 DEF AnswersCatchUp
  <2>1. f \notin unseen
    BY <1>5, <1>7
  <2>2. PICK h \in Paths : IsPrefix(h, f) /\ WillList(i + 1 + 1, h)
    BY <1>5, <2>1 DEF BrowserIInv, AnswersCatchUp, WillCatchUp
  <2>3. WillList(i + 1, h)'
    BY <1>1, <1>2, <1>5, <2>2, ListedSooner
  <2> QED BY <2>2, <2>3 DEF WillCatchUp
<1>12. ShownCatchesUp'
  <2> SUFFICES ASSUME watching, NEW f \in DOMAIN shown' \ unseen', NotGivenUp(f)',
                      shown'[f] # list_dir(tree, f)
               PROVE  WillCatchUp(1, f)'
    BY <1>1 DEF ShownCatchesUp
  <2>1. CASE /\ f \in DOMAIN shown \ unseen /\ shown'[f] = shown[f]
             /\ g \in awaited /\ m.ok => ~IsPrefix(g, f)
    <3>0. NotGivenUp(f)
      <4>1. CASE g \in awaited /\ m.ok
        BY <1>1, <2>1, <4>1 DEF NotGivenUp
      <4>2. CASE ~(g \in awaited /\ m.ok)
        BY <1>1, <4>2 DEF NotGivenUp
      <4> QED BY <4>1, <4>2
    <3>1. PICK h \in Paths : IsPrefix(h, f) /\ WillList(1, h)
      BY <2>1, <3>0 DEF BrowserIInv, ShownCatchesUp, WillCatchUp
    <3>2. ~Tells(Head(arriving), h)
      BY <1>1 DEF Tells, m
    <3>3. h = g /\ g \in awaited => ~NoFailure(1, h)
      BY <1>1, <1>3, <1>5, <2>1, <3>1 DEF NoFailure, AnswerAbout
    <3>4. WillList(1, h)'
      BY <1>1, <1>2, <3>1, <3>2, <3>3, ListedNext
    <3> QED BY <3>1, <3>4 DEF WillCatchUp
  <2>2. CASE /\ g \in awaited /\ m.ok /\ f = g /\ shown'[f] = m.entries
             /\ g \in unseen => ~Outdated(g)
    <3>1. Outdated(g)
      BY <1>1, <1>3, <1>5, <2>2 DEF Outdated
    <3>2. WillCatchUp(1 + 1, g)
      BY <1>1, <1>3, <1>5, <2>2, <3>1 DEF BrowserIInv, AnswersCatchUp
    <3>3. PICK h \in Paths : IsPrefix(h, g) /\ WillList(1 + 1, h)
      BY <3>2 DEF WillCatchUp
    <3>4. WillList(1, h)'
      BY <1>1, <1>2, <1>5, <3>3, ListedSooner
    <3> QED BY <2>2, <3>3, <3>4 DEF WillCatchUp
  <2> QED BY <1>6, <2>1, <2>2
<1> QED BY <1>8, <1>9, <1>10, <1>11, <1>12 DEF BrowserIInv

-----------------------------------------------------------------------------
\* Every step keeps the invariant.
LEMMA BrowserSteps ==
    ASSUME FileTreeAssumption, BrowserIInv, [TreeNext]_treeVars
    PROVE  BrowserIInv'
<1>1. CASE CreateDir \/ WriteFile \/ DeletePath \/ CopyPath
  BY <1>1, OperationsKeep
<1>2. CASE RenamePath
  BY <1>2, RenameSteps
<1>3. CASE MoveAcross
  BY <1>3, MoveSteps
<1>4. CASE StartWatching
  BY <1>4, WatchingStarts
<1>5. CASE WatchEvent
  BY <1>5, EventsAreSent
<1>6. CASE AnswerList
  BY <1>6, ListsAreAnswered
<1>7. CASE RefreshFolder
  BY <1>7, FoldersAreRefreshed
<1>8. CASE HearOfChange
  BY <1>8, ChangesAreHeard
<1>9. CASE ReceiveList
  BY <1>9, AnswersAreShown
<1>10. CASE toggleFolder
  BY <1>10, FoldersAreToggled
<1>11. CASE TimeoutList
  BY <1>11, ListsTimeOut
<1>12. CASE UNCHANGED treeVars
  BY <1>12 DEF treeVars, BrowserIInv, BrowserTyped, NodesAbove, Node, UnwatchedIsReal,
               AnswersCatchUp, ShownCatchesUp, NotGivenUp, WillCatchUp, WillList, NoFailure
<1> QED BY <1>1, <1>2, <1>3, <1>4, <1>5, <1>6, <1>7, <1>8, <1>9, <1>10, <1>11, <1>12
        DEF TreeNext

\* With nothing under way nothing can be made good any more.
LEMMA CaughtUp == ASSUME BrowserIInv PROVE ShownFoldersAreReal
<1>1. \A p \in DOMAIN tree : IsDir(tree, Front(p))
  BY DEF BrowserIInv, BrowserTyped, WellFormed
<1>2. ASSUME TreeQuiet, NEW f \in DOMAIN shown, Visible(f), f \notin unseen, NotGivenUp(f),
             shown[f] # list_dir(tree, f)
      PROVE  FALSE
  <2>1. watching
    BY <1>2 DEF BrowserIInv, UnwatchedIsReal
  <2>2. PICK h \in Paths : IsPrefix(h, f) /\ WillList(1, h)
    BY <1>2, <2>1 DEF BrowserIInv, ShownCatchesUp, WillCatchUp
  <2>3. Len(arriving) = 0 /\ raw = {} /\ refreshing = {} /\ awaited = {}
    BY <1>2 DEF TreeQuiet
  <2>4. h # RootPath /\ h \notin expanded
    BY <2>2, <2>3 DEF WillList
  <2>5. f \in Paths
    BY DEF BrowserIInv, BrowserTyped
  <2>6. Len(h) \in 0..Len(f) /\ h = SubSeq(f, 1, Len(h)) /\ Len(h) \in Nat /\ Len(f) \in Nat
    BY <2>2, <2>5, PrefixHasLength DEF Paths
  <2>7. Len(h) # 0
    BY <2>4, EmptySeq DEF Paths, RootPath
  <2>8. Len(h) \in 1..Len(f)
    BY <2>6, <2>7
  <2> QED BY <1>2, <2>4, <2>6, <2>8 DEF Visible
<1> QED BY <1>1, <1>2 DEF ShownFoldersAreReal, NotGivenUp

(***************************************************************************)
(* Every path of the project lies in folders, and once nothing is under    *)
(* way each folder shown open shows what is in it, whoever changed it and  *)
(* however operations, events, requests and answers overlapped, but for    *)
(* changes nobody is told of and for folders whose listing the client gave *)
(* up: for every set of paths, every number of operations and failures and *)
(* every depth of folders.                                                 *)
(***************************************************************************)
THEOREM FoldersAreReal == TreeSpec => []ShownFoldersAreReal
<1>1. TreeInit => BrowserIInv
  BY FileTreeAssumption, BrowserStarts
<1>2. BrowserIInv /\ [TreeNext]_treeVars => BrowserIInv'
  BY FileTreeAssumption, BrowserSteps
<1>3. BrowserIInv => ShownFoldersAreReal
  BY CaughtUp
<1> QED BY <1>1, <1>2, <1>3, PTL DEF TreeSpec
=============================================================================
