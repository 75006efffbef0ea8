---------------------------- MODULE PendingEdits ---------------------------
(***************************************************************************)
(* Edits that an AI proposes to one file and the user accepts, changes or  *)
(* rejects (server/src/pending_edits.rs, core/src/acp/pending_edit.rs,     *)
(* gateway.rs, client.rs, core/src/edit.rs).                               *)
(*                                                                         *)
(* A project has two stores of pending edits: the runtime's, for the tools *)
(* of the API agents, and the ACP gateway's, for the ACP agent.  A store   *)
(* keeps at most one edit per session and file; its mutex is held for one  *)
(* of its methods at a time, and no longer: `accept_pending_edit` copies   *)
(* the edit, lets the mutex go, compares the file with the edit's base,    *)
(* reads and compares it once more, writes it and takes the mutex again to *)
(* remove the edit.  The calls on the gateway also hold AcpService's mutex *)
(* from beginning to end, so they never overlap each other; the agent's    *)
(* own writes do not take it.                                              *)
(*                                                                         *)
(* A text stands for itself and for its SHA-256; a file that does not      *)
(* exist reads as the empty text in some of the calls only.                *)
(***************************************************************************)
EXTENDS Naturals

CONSTANTS
  Texts,       \* contents of the file
  EmptyText,   \* one of them
  ApiEdits,    \* ids of the edits proposed through the API agents' tools
  AcpEdits,    \* ids of the edits proposed by the ACP agent
  Sessions,    \* agent sessions
  Accepts,     \* calls of accept_pending_edit
  NoEdit,      \* no edit, or no record of one
  NoText,      \* no overlay, no expected sha
  Missing      \* the file does not exist

VARIABLES
  disk,       \* the file
  proposal,   \* how far the call that proposes each edit is
  draft,      \* what it is about to register
  byId,       \* edits_by_id of both stores
  byFile,     \* edit_by_file, per store and session
  overlays,   \* overlays, per store and session
  accept,     \* how far each call of accept_pending_edit is
  taken,      \* the edit it is for
  copy,       \* the edit as it was when it was copied out of the store
  disturbed   \* ghost: others wrote the file since the call last read it

propVars == <<proposal, draft>>
storeVars == <<byId, byFile, overlays>>
acceptVars == <<accept, taken, copy>>
vars == <<disk, propVars, storeVars, acceptVars, disturbed>>

Edits == ApiEdits \cup AcpEdits

Keys == {"api", "acp"} \X Sessions

\* PendingEdit: its session, base_sha256 (old_text), new_text, expected_sha256.
Records == [session : Sessions, base : Texts, new : Texts,
            expected : Texts \cup {NoText}]

\* A write of the ACP agent between its look at the overlay and its preview.
Looks == [session : Sessions, overlay : Texts \cup {NoText}]

ASSUME PendingEditsAssumption ==
  /\ EmptyText \in Texts
  /\ NoText \notin Texts
  /\ Missing \notin Texts
  /\ ApiEdits \cap AcpEdits = {}
  /\ NoEdit \notin Edits \cup Accepts \cup Records \cup Looks

TypeOK ==
  /\ disk \in Texts \cup {Missing}
  /\ proposal \in [Edits -> {"none", "looked", "previewed", "over"}]
  /\ draft \in [Edits -> Records \cup Looks \cup {NoEdit}]
  /\ \A e \in Edits : /\ proposal[e] = "looked" => draft[e] \in Looks
                      /\ proposal[e] = "previewed" => draft[e] \in Records
  /\ byId \in [Edits -> Records \cup {NoEdit}]
  /\ byFile \in [Keys -> Edits \cup {NoEdit}]
  /\ overlays \in [Keys -> Texts \cup {NoText}]
  /\ accept \in [Accepts -> {"idle", "got", "compared", "writing", "truncated",
                             "written", "done", "failed"}]
  /\ taken \in [Accepts -> Edits \cup {NoEdit}]
  /\ copy \in [Accepts -> Records \cup {NoEdit}]
  /\ \A a \in Accepts :
       accept[a] \in {"got", "compared", "writing", "truncated", "written"}
         => taken[a] \in Edits /\ copy[a] \in Records
  /\ disturbed \in [Accepts -> BOOLEAN]

Init ==
  /\ disk \in {EmptyText, Missing}
  /\ proposal = [e \in Edits |-> "none"]
  /\ draft = [e \in Edits |-> NoEdit]
  /\ byId = [e \in Edits |-> NoEdit]
  /\ byFile = [k \in Keys |-> NoEdit]
  /\ overlays = [k \in Keys |-> NoText]
  /\ accept = [a \in Accepts |-> "idle"]
  /\ taken = [a \in Accepts |-> NoEdit]
  /\ copy = [a \in Accepts |-> NoEdit]
  /\ disturbed = [a \in Accepts |-> FALSE]

----------------------------------------------------------------------------
Key(e, s) == <<IF e \in ApiEdits THEN "api" ELSE "acp", s>>

\* read_existing
Existing == IF disk = Missing THEN EmptyText ELSE disk

\* AcpService's mutex: one call on the gateway at a time.
GatewayFree(e) ==
  e \in AcpEdits =>
    \A a \in Accepts : accept[a] \in {"idle", "done", "failed"} \/ taken[a] \in ApiEdits

Advance(a, from, to) == accept[a] = from /\ accept' = [accept EXCEPT ![a] = to]

\* Whoever writes the file disturbs the other calls that are about to write
\* it, or did.
Writing(a) == accept[a] \in {"writing", "truncated", "written"}

WriteFile(x, writer) ==
  /\ disk' = x
  /\ disturbed' = [a \in Accepts |-> disturbed[a] \/ (Writing(a) /\ a # writer)]

(* The editor, R, a terminal: anything else that writes or deletes the file. *)

Save(x) ==
  /\ x # disk
  /\ WriteFile(x, NoEdit)
  /\ UNCHANGED <<propVars, storeVars, acceptVars>>

----------------------------------------------------------------------------
(* Proposing: propose_pending_edit, and write_text_file of the ACP client. *)

Propose(e, from, s, base, new, expected) ==
  /\ proposal[e] = from
  /\ expected # NoText => expected = base
  /\ proposal' = [proposal EXCEPT ![e] = "previewed"]
  /\ draft' = [draft EXCEPT ![e] =
       [session |-> s, base |-> base, new |-> new, expected |-> expected]]
  /\ UNCHANGED <<disk, storeVars, acceptVars, disturbed>>

\* preview_text_file: the file's text is the base; an expected sha that is not
\* its sha is a conflict, and nothing is proposed.
Preview(e, s, new, expected) ==
  /\ e \in ApiEdits
  /\ Propose(e, "none", s, Existing, new, expected)

\* The ACP client first looks whether the session has an overlay of the file.
LookAtOverlay(e, s) ==
  /\ e \in AcpEdits
  /\ proposal[e] = "none"
  /\ proposal' = [proposal EXCEPT ![e] = "looked"]
  /\ draft' = [draft EXCEPT ![e] =
       [session |-> s, overlay |-> overlays[Key(e, s)]]]
  /\ UNCHANGED <<disk, storeVars, acceptVars, disturbed>>

\* Mutant: the overlay is taken for the base also if there is none.
PreviewOverlayOnly(e, new, expected) ==
  /\ proposal[e] = "looked"
  /\ Propose(e, "looked", draft[e].session, draft[e].overlay, new, expected)

\* The base is the overlay if there was one.
PreviewOverlaid(e, new, expected) ==
  LET look == draft[e] IN
  /\ proposal[e] = "looked"
  /\ Propose(e, "looked", look.session,
             IF look.overlay # NoText THEN look.overlay ELSE Existing, new, expected)

\* register_pending_edit: refused if the session has an edit of the file.
Register(e) ==
  LET k == Key(e, draft[e].session) IN
  /\ proposal[e] = "previewed"
  /\ proposal' = [proposal EXCEPT ![e] = "over"]
  /\ draft' = [draft EXCEPT ![e] = NoEdit]
  /\ IF byFile[k] # NoEdit
     THEN UNCHANGED storeVars
     ELSE /\ byId' = [byId EXCEPT ![e] = draft[e]]
          /\ byFile' = [byFile EXCEPT ![k] = e]
          /\ overlays' = [overlays EXCEPT ![k] = draft[e].new]
  /\ UNCHANGED <<disk, acceptVars, disturbed>>

----------------------------------------------------------------------------
(* The user's decision.                                                    *)

\* update_edit_text
UpdateText(e, new) ==
  /\ GatewayFree(e)
  /\ byId[e] # NoEdit
  /\ byId' = [byId EXCEPT ![e].new = new]
  /\ overlays' = [overlays EXCEPT ![Key(e, byId[e].session)] = new]
  /\ UNCHANGED <<disk, propVars, byFile, acceptVars, disturbed>>

\* Mutant: remove_edit forgets the overlay.
RemoveKeepingOverlay(e) ==
  IF byId[e] = NoEdit
  THEN UNCHANGED storeVars
  ELSE LET k == Key(e, byId[e].session) IN
       /\ byId' = [byId EXCEPT ![e] = NoEdit]
       /\ byFile' = [byFile EXCEPT ![k] = NoEdit]
       /\ UNCHANGED overlays

\* remove_edit
RemoveEdit(e) ==
  IF byId[e] = NoEdit
  THEN UNCHANGED storeVars
  ELSE LET k == Key(e, byId[e].session) IN
       /\ byId' = [byId EXCEPT ![e] = NoEdit]
       /\ byFile' = [byFile EXCEPT ![k] = NoEdit]
       /\ overlays' = [overlays EXCEPT ![k] = NoText]

Reject(e) ==
  /\ GatewayFree(e)
  /\ byId[e] # NoEdit
  /\ RemoveEdit(e)
  /\ UNCHANGED <<disk, propVars, acceptVars, disturbed>>

----------------------------------------------------------------------------
(* accept_pending_edit                                                     *)

GetEdit(a, e) ==
  /\ GatewayFree(e)
  /\ byId[e] # NoEdit
  /\ Advance(a, "idle", "got")
  /\ taken' = [taken EXCEPT ![a] = e]
  /\ copy' = [copy EXCEPT ![a] = byId[e]]
  /\ UNCHANGED <<disk, propVars, storeVars, disturbed>>

\* The call returns.
Return(a, from, to) ==
  /\ Advance(a, from, to)
  /\ taken' = [taken EXCEPT ![a] = NoEdit]
  /\ copy' = [copy EXCEPT ![a] = NoEdit]
  /\ disturbed' = [disturbed EXCEPT ![a] = FALSE]

\* The file is read and compared with the base.  The gateway gives up on a
\* file that does not exist, the server takes it for the empty text.
AtBase(a) == Existing = copy[a].base /\ (disk = Missing => taken[a] \in ApiEdits)

CompareBase(a) ==
  /\ Advance(a, "got", "compared")
  /\ AtBase(a)
  /\ UNCHANGED <<disk, propVars, storeVars, taken, copy, disturbed>>

\* Mutant: an accept that fails puts its copy of the edit back.
BaseMismatchRestoring(a) ==
  LET e == taken[a] IN
  /\ Return(a, "got", "failed")
  /\ ~AtBase(a)
  /\ byId' = [byId EXCEPT ![e] = copy[a]]
  /\ byFile' = [byFile EXCEPT ![Key(e, copy[a].session)] = e]
  /\ overlays' = [overlays EXCEPT ![Key(e, copy[a].session)] = copy[a].new]
  /\ UNCHANGED <<disk, propVars>>

BaseMismatch(a) ==
  /\ Return(a, "got", "failed")
  /\ ~AtBase(a)
  /\ UNCHANGED <<disk, propVars, storeVars>>

\* The sha edit_text_file is asked to expect.
Expected(a) == IF copy[a].expected # NoText THEN copy[a].expected ELSE copy[a].base

\* Mutant: edit_text_file does not look at the sha it is given.
CheckNothing(a) ==
  /\ Advance(a, "compared", IF Existing = copy[a].new THEN "written" ELSE "writing")
  /\ UNCHANGED <<disk, propVars, storeVars, taken, copy, disturbed>>

\* edit_text_file reads the file again: nothing to do, or a write.
CheckExpected(a) ==
  /\ Advance(a, "compared", IF Existing = copy[a].new THEN "written" ELSE "writing")
  /\ Existing = Expected(a)
  /\ UNCHANGED <<disk, propVars, storeVars, taken, copy, disturbed>>

Conflict(a) ==
  /\ Return(a, "compared", "failed")
  /\ Existing # Expected(a)
  /\ UNCHANGED <<disk, propVars, storeVars>>

\* fs::write empties the file, then writes it; it may fail before or between.
Truncate(a) ==
  /\ Advance(a, "writing", "truncated")
  /\ WriteFile(EmptyText, a)
  /\ UNCHANGED <<propVars, storeVars, taken, copy>>

WriteText(a) ==
  /\ Advance(a, "truncated", "written")
  /\ WriteFile(copy[a].new, a)
  /\ UNCHANGED <<propVars, storeVars, taken, copy>>

WriteFails(a) ==
  /\ Return(a, "writing", "failed") \/ Return(a, "truncated", "failed")
  /\ UNCHANGED <<disk, propVars, storeVars>>

Finish(a) ==
  /\ Return(a, "written", "done")
  /\ RemoveEdit(taken[a])
  /\ UNCHANGED <<disk, propVars>>

Next ==
  \/ \E x \in Texts \cup {Missing} : Save(x)
  \/ \E e \in Edits :
       \/ \E s \in Sessions, x \in Texts, y \in Texts \cup {NoText} : Preview(e, s, x, y)
       \/ \E s \in Sessions : LookAtOverlay(e, s)
       \/ \E x \in Texts, y \in Texts \cup {NoText} : PreviewOverlaid(e, x, y)
       \/ Register(e)
       \/ \E x \in Texts : UpdateText(e, x)
       \/ Reject(e)
  \/ \E a \in Accepts :
       \/ \E e \in Edits : GetEdit(a, e)
       \/ CompareBase(a) \/ BaseMismatch(a) \/ CheckExpected(a) \/ Conflict(a)
       \/ Truncate(a) \/ WriteText(a) \/ WriteFails(a) \/ Finish(a)

Spec == Init /\ [][Next]_vars

----------------------------------------------------------------------------
(***************************************************************************)
(* The three maps of a store say the same, whatever proposals, decisions   *)
(* and accepts overlap: an edit in the store is the one its session has    *)
(* for the file, its text is the session's overlay, and nothing is left of *)
(* an edit that was removed.                                               *)
(***************************************************************************)
StoreConsistent ==
  /\ \A e \in Edits : byId[e] # NoEdit => byFile[Key(e, byId[e].session)] = e
  /\ \A k \in Keys :
       IF byFile[k] = NoEdit
       THEN overlays[k] = NoText
       ELSE /\ byId[byFile[k]] # NoEdit
            /\ Key(byFile[k], byId[byFile[k]].session) = k
            /\ overlays[k] = byId[byFile[k]].new

(***************************************************************************)
(* If nobody wrote the file since an accept last read it, the accept       *)
(* replaces the text its edit was made for, and the file then has the      *)
(* edit's text: the two comparisons, with the base and with the sha the    *)
(* agent expected, never contradict each other.                            *)
(***************************************************************************)
UndisturbedAcceptReplacesBase ==
  \A a \in Accepts : ~disturbed[a] =>
    /\ accept[a] = "writing" => Existing = copy[a].base
    /\ accept[a] = "written" => Existing = copy[a].new

(***************************************************************************)
(* An edit that was accepted or rejected, or could not be registered, is   *)
(* gone: no late update or accept of another call brings it back.          *)
(***************************************************************************)
ResolvedForGood ==
  [][\A e \in Edits : proposal[e] = "over" /\ byId[e] = NoEdit => byId'[e] = NoEdit]_vars

(***************************************************************************)
(* The code's own message, "file changed since edit was created", and the  *)
(* test accept_pending_edit_rejects_base_mismatch: an accept never writes  *)
(* over a text other than the one its edit was made for.                   *)
(***************************************************************************)
AcceptNeverLosesASave ==
  \A a \in Accepts : accept[a] = "writing" => Existing = copy[a].base
=============================================================================
