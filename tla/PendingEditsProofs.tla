------------------------- MODULE PendingEditsProofs ------------------------
(***************************************************************************)
(* Theorems about PendingEdits, for all sets of texts, edits, sessions and *)
(* calls, and about EditText, for all texts and edits.                     *)
(*                                                                         *)
(* StoreConsistent needs StoredWhenOver: an edit is not registered while   *)
(* it is in a store under another session.  That an undisturbed accept     *)
(* replaces its edit's base needs ExpectedIsBase: the sha an agent         *)
(* expected, which is what edit_text_file compares with, is the base the   *)
(* accept compared with, in the draft, in the store and in the accept's    *)
(* copy.                                                                   *)
(*                                                                         *)
(* EditsApplyTogether is about one step of EditText; its proof is about    *)
(* texts: where a line starts does not change with what comes after it     *)
(* (PositionsKept), and of two edits that do not overlap the later one is  *)
(* applied first (SortedTwo, ReplaceTwo).                                  *)
(***************************************************************************)
EXTENDS PendingEdits, EditText, SequenceTheorems, FiniteSetTheorems, WellFoundedInduction, TLAPS

Agrees(r) == r.expected # NoText => r.expected = r.base

ExpectedIsBase ==
  /\ \A e \in Edits : proposal[e] = "previewed" => Agrees(draft[e])
  /\ \A e \in Edits : byId[e] # NoEdit => Agrees(byId[e])
  /\ \A a \in Accepts : copy[a] # NoEdit => Agrees(copy[a])

\* An edit is in a store only after the call that proposed it is over.
StoredWhenOver == \A e \in Edits : byId[e] # NoEdit => proposal[e] = "over"

IInv ==
  /\ TypeOK
  /\ StoreConsistent
  /\ StoredWhenOver
  /\ ExpectedIsBase
  /\ UndisturbedAcceptReplacesBase

(***************************************************************************)
(* What a preview drafts is a record that agrees with its base.            *)
(***************************************************************************)
LEMMA ProposeDraft ==
  ASSUME TypeOK, ExpectedIsBase, NEW e \in Edits, NEW from, NEW s \in Sessions,
         NEW base \in Texts, NEW new \in Texts, NEW x \in Texts \cup {NoText},
         Propose(e, from, s, base, new, x)
  PROVE  /\ proposal' = [proposal EXCEPT ![e] = "previewed"]
         /\ \E r \in Records : Agrees(r) /\ draft' = [draft EXCEPT ![e] = r]
         /\ UNCHANGED <<disk, storeVars, acceptVars, disturbed>>
<1> DEFINE r == [session |-> s, base |-> base, new |-> new, expected |-> x]
<1>1. r \in Records
  BY DEF Records
<1>2. Agrees(r)
  BY DEF Agrees, Propose
<1>3. draft' = [draft EXCEPT ![e] = r]
  BY DEF Propose
<1> QED
  BY <1>1, <1>2, <1>3 DEF Propose

(***************************************************************************)
(* The text an existing or missing file reads as.                          *)
(***************************************************************************)
LEMMA ExistingIsText ==
  ASSUME TypeOK
  PROVE  Existing \in Texts
BY PendingEditsAssumption DEF TypeOK, Existing

(***************************************************************************)
(* Both previews draft a record, from the text they read.                  *)
(***************************************************************************)
LEMMA PreviewDraft ==
  ASSUME TypeOK, ExpectedIsBase, NEW e \in Edits,
         \/ \E s \in Sessions, x \in Texts, y \in Texts \cup {NoText} : Preview(e, s, x, y)
         \/ \E x \in Texts, y \in Texts \cup {NoText} : PreviewOverlaid(e, x, y)
  PROVE  /\ proposal' = [proposal EXCEPT ![e] = "previewed"]
         /\ \E r \in Records : Agrees(r) /\ draft' = [draft EXCEPT ![e] = r]
         /\ UNCHANGED <<disk, storeVars, acceptVars, disturbed>>
<1>1. CASE \E s \in Sessions, x \in Texts, y \in Texts \cup {NoText} : Preview(e, s, x, y)
  BY <1>1, ProposeDraft, ExistingIsText DEF Preview
<1>2. ASSUME NEW x \in Texts, NEW y \in Texts \cup {NoText}, PreviewOverlaid(e, x, y)
      PROVE  /\ proposal' = [proposal EXCEPT ![e] = "previewed"]
             /\ \E r \in Records : Agrees(r) /\ draft' = [draft EXCEPT ![e] = r]
             /\ UNCHANGED <<disk, storeVars, acceptVars, disturbed>>
  <2> DEFINE base == IF draft[e].overlay # NoText THEN draft[e].overlay ELSE Existing
  <2>1. proposal[e] = "looked" /\ Propose(e, "looked", draft[e].session, base, x, y)
    BY <1>2 DEF PreviewOverlaid
  <2>2. draft[e] \in Looks
    BY <2>1 DEF TypeOK
  <2>3. draft[e].session \in Sessions /\ base \in Texts
    BY <2>2, ExistingIsText DEF Looks
  <2> QED
    BY <2>1, <2>3, ProposeDraft
<1> QED
  BY <1>1, <1>2

(***************************************************************************)
(* A store is keyed by the edit's side and its session.                    *)
(***************************************************************************)
LEMMA KeyType ==
  ASSUME NEW e \in Edits, NEW s \in Sessions
  PROVE  Key(e, s) \in Keys
BY DEF Key, Keys

(***************************************************************************)
(* Removing an edit, present or not, keeps the store typed and consistent, *)
(* and brings no edit back.                                                *)
(***************************************************************************)
LEMMA RemoveEditStep ==
  ASSUME TypeOK, StoreConsistent, NEW e \in Edits, RemoveEdit(e)
  PROVE  /\ byId' \in [Edits -> Records \cup {NoEdit}]
         /\ byFile' \in [Keys -> Edits \cup {NoEdit}]
         /\ overlays' \in [Keys -> Texts \cup {NoText}]
         /\ StoreConsistent'
         /\ \A d \in Edits : byId'[d] \in {byId[d], NoEdit}
<1>1. CASE byId[e] = NoEdit
  BY <1>1 DEF RemoveEdit, TypeOK, StoreConsistent, storeVars
<1>2. CASE byId[e] # NoEdit
  <2> DEFINE k == Key(e, byId[e].session)
  <2>1. byId[e] \in Records
    BY <1>2 DEF TypeOK
  <2>2. k \in Keys
    BY <2>1, KeyType DEF Records
  <2>3. /\ byId' = [byId EXCEPT ![e] = NoEdit]
        /\ byFile' = [byFile EXCEPT ![k] = NoEdit]
        /\ overlays' = [overlays EXCEPT ![k] = NoText]
    BY <1>2 DEF RemoveEdit
  <2>4. byFile[k] = e
    BY <1>2 DEF StoreConsistent
  <2> HIDE DEF k
  <2>5. /\ byId' \in [Edits -> Records \cup {NoEdit}]
        /\ byFile' \in [Keys -> Edits \cup {NoEdit}]
        /\ overlays' \in [Keys -> Texts \cup {NoText}]
        /\ \A d \in Edits : byId'[d] \in {byId[d], NoEdit}
    BY <2>2, <2>3 DEF TypeOK
  <2>6. ASSUME NEW d \in Edits, byId'[d] # NoEdit
        PROVE  byFile'[Key(d, byId'[d].session)] = d
    <3>1. d # e /\ byId'[d] = byId[d]
      BY <2>3, <2>6 DEF TypeOK
    <3>2. byId[d] \in Records
      BY <2>6, <3>1 DEF TypeOK
    <3>3. Key(d, byId[d].session) \in Keys
      BY <3>2, KeyType DEF Records
    <3>4. byFile[Key(d, byId[d].session)] = d
      BY <2>6, <3>1 DEF StoreConsistent
    <3> QED
      BY <2>3, <2>4, <3>1, <3>3, <3>4 DEF TypeOK
  <2>7. ASSUME NEW j \in Keys
        PROVE  IF byFile'[j] = NoEdit
               THEN overlays'[j] = NoText
               ELSE /\ byId'[byFile'[j]] # NoEdit
                    /\ Key(byFile'[j], byId'[byFile'[j]].session) = j
                    /\ overlays'[j] = byId'[byFile'[j]].new
    <3>1. CASE j = k
      BY <2>2, <2>3, <3>1 DEF TypeOK
    <3>2. CASE j # k
      <4>1. byFile'[j] = byFile[j] /\ overlays'[j] = overlays[j]
        BY <2>3, <3>2 DEF TypeOK
      <4>2. CASE byFile[j] = NoEdit
        BY <4>1, <4>2 DEF StoreConsistent
      <4>3. CASE byFile[j] # NoEdit
        <5>1. byFile[j] \in Edits
          BY <4>3 DEF TypeOK
        <5>2. Key(byFile[j], byId[byFile[j]].session) = j
          BY <4>3 DEF StoreConsistent
        <5>3. byFile[j] # e
          BY <3>2, <5>2 DEF k
        <5>4. byId'[byFile[j]] = byId[byFile[j]]
          BY <2>3, <5>1, <5>3 DEF TypeOK
        <5> QED
          BY <4>1, <4>3, <5>4 DEF StoreConsistent
      <4> QED
        BY <4>2, <4>3
    <3> QED
      BY <3>1, <3>2
  <2>8. StoreConsistent'
    BY <2>6, <2>7 DEF StoreConsistent
  <2> QED
    BY <2>5, <2>8
<1> QED
  BY <1>1, <1>2

(***************************************************************************)
(* Registering a fresh edit where its session has none keeps the store     *)
(* typed and consistent.                                                   *)
(***************************************************************************)
LEMMA RegisterStep ==
  ASSUME TypeOK, StoreConsistent, StoredWhenOver, NEW e \in Edits, Register(e)
  PROVE  /\ byId' \in [Edits -> Records \cup {NoEdit}]
         /\ byFile' \in [Keys -> Edits \cup {NoEdit}]
         /\ overlays' \in [Keys -> Texts \cup {NoText}]
         /\ StoreConsistent'
         /\ byId' \in {byId, [byId EXCEPT ![e] = draft[e]]}
<1> DEFINE k == Key(e, draft[e].session)
<1>1. proposal[e] = "previewed" /\ draft[e] \in Records
  BY DEF Register, TypeOK
<1>2. draft[e].session \in Sessions /\ draft[e].new \in Texts
  BY <1>1 DEF Records
<1>3. k \in Keys
  BY <1>2, KeyType
<1>4. CASE byFile[k] # NoEdit
  <2>1. UNCHANGED storeVars
    BY <1>4 DEF Register
  <2> QED
    BY <2>1 DEF storeVars, TypeOK, StoreConsistent
<1>5. CASE byFile[k] = NoEdit
  <2>1. /\ byId' = [byId EXCEPT ![e] = draft[e]]
        /\ byFile' = [byFile EXCEPT ![k] = e]
        /\ overlays' = [overlays EXCEPT ![k] = draft[e].new]
    BY <1>5 DEF Register
  <2>2. byId[e] = NoEdit
    BY <1>1 DEF StoredWhenOver
  <2>3. e # NoEdit /\ draft[e] # NoEdit /\ draft[e].new # NoText
    BY <1>1, <1>2, PendingEditsAssumption
  <2>4. Key(e, draft[e].session) = k
    OBVIOUS
  <2> HIDE DEF k
  <2>5. /\ byId' \in [Edits -> Records \cup {NoEdit}]
        /\ byFile' \in [Keys -> Edits \cup {NoEdit}]
        /\ overlays' \in [Keys -> Texts \cup {NoText}]
    BY <1>1, <1>2, <1>3, <2>1 DEF TypeOK
  <2>6. ASSUME NEW d \in Edits, byId'[d] # NoEdit
        PROVE  byFile'[Key(d, byId'[d].session)] = d
    <3>1. CASE d = e
      BY <1>3, <2>1, <2>4, <3>1 DEF TypeOK
    <3>2. CASE d # e
      <4>1. byId'[d] = byId[d] /\ byId[d] \in Records
        BY <2>1, <2>6, <3>2 DEF TypeOK
      <4>2. byFile[Key(d, byId[d].session)] = d /\ d # NoEdit
        BY <2>6, <4>1, PendingEditsAssumption DEF StoreConsistent
      <4>3. Key(d, byId[d].session) \in Keys
        BY <4>1, KeyType DEF Records
      <4> QED
        BY <1>5, <2>1, <4>1, <4>2, <4>3 DEF TypeOK, k
    <3> QED
      BY <3>1, <3>2
  <2>7. ASSUME NEW j \in Keys
        PROVE  IF byFile'[j] = NoEdit
               THEN overlays'[j] = NoText
               ELSE /\ byId'[byFile'[j]] # NoEdit
                    /\ Key(byFile'[j], byId'[byFile'[j]].session) = j
                    /\ overlays'[j] = byId'[byFile'[j]].new
    <3>1. CASE j = k
      BY <1>1, <1>3, <2>1, <2>3, <2>4, <3>1 DEF TypeOK
    <3>2. CASE j # k
      <4>1. byFile'[j] = byFile[j] /\ overlays'[j] = overlays[j]
        BY <2>1, <3>2 DEF TypeOK
      <4>2. CASE byFile[j] = NoEdit
        BY <4>1, <4>2 DEF StoreConsistent
      <4>3. CASE byFile[j] # NoEdit
        <5>1. byFile[j] \in Edits /\ byId[byFile[j]] # NoEdit
          BY <4>3 DEF TypeOK, StoreConsistent
        <5>2. byId'[byFile[j]] = byId[byFile[j]]
          BY <2>1, <2>2, <5>1 DEF TypeOK
        <5> QED
          BY <4>1, <4>3, <5>2 DEF StoreConsistent
      <4> QED
        BY <4>2, <4>3
    <3> QED
      BY <3>1, <3>2
  <2>8. StoreConsistent'
    BY <2>6, <2>7 DEF StoreConsistent
  <2> QED
    BY <2>1, <2>5, <2>8
<1> QED
  BY <1>4, <1>5

(***************************************************************************)
(* A changed text is changed in the edit and in its overlay alike.         *)
(***************************************************************************)
LEMMA UpdateTextStep ==
  ASSUME TypeOK, StoreConsistent, NEW e \in Edits, NEW x \in Texts, UpdateText(e, x)
  PROVE  /\ byId' \in [Edits -> Records \cup {NoEdit}]
         /\ overlays' \in [Keys -> Texts \cup {NoText}]
         /\ StoreConsistent'
         /\ \A d \in Edits : /\ byId'[d] = NoEdit <=> byId[d] = NoEdit
                             /\ byId[d] # NoEdit =>
                                  /\ byId'[d].base = byId[d].base
                                  /\ byId'[d].expected = byId[d].expected
<1> DEFINE k == Key(e, byId[e].session)
           r == [byId[e] EXCEPT !.new = x]
<1>1. byId[e] \in Records /\ byId[e] # NoEdit
  BY DEF UpdateText, TypeOK
<1>2. /\ r \in Records
      /\ r.session = byId[e].session
      /\ r.base = byId[e].base
      /\ r.expected = byId[e].expected
      /\ r.new = x
  BY <1>1 DEF Records
<1>3. k \in Keys
  BY <1>1, KeyType DEF Records
<1>4. /\ byId' = [byId EXCEPT ![e] = r]
      /\ overlays' = [overlays EXCEPT ![k] = x]
      /\ byFile' = byFile
  BY DEF UpdateText
<1>5. byFile[k] = e /\ e # NoEdit /\ r # NoEdit
  BY <1>1, <1>2, PendingEditsAssumption DEF StoreConsistent
<1>6. Key(e, r.session) = k
  BY <1>2
<1> HIDE DEF k, r
<1>7. /\ byId' \in [Edits -> Records \cup {NoEdit}]
      /\ overlays' \in [Keys -> Texts \cup {NoText}]
  BY <1>2, <1>3, <1>4 DEF TypeOK
<1>8. ASSUME NEW d \in Edits, byId'[d] # NoEdit
      PROVE  byFile'[Key(d, byId'[d].session)] = d
  <2>1. CASE d = e
    BY <1>4, <1>5, <1>6, <2>1 DEF TypeOK
  <2>2. CASE d # e
    BY <1>4, <1>8, <2>2 DEF TypeOK, StoreConsistent
  <2> QED
    BY <2>1, <2>2
<1>9. ASSUME NEW j \in Keys
      PROVE  IF byFile'[j] = NoEdit
             THEN overlays'[j] = NoText
             ELSE /\ byId'[byFile'[j]] # NoEdit
                  /\ Key(byFile'[j], byId'[byFile'[j]].session) = j
                  /\ overlays'[j] = byId'[byFile'[j]].new
  <2>1. CASE j = k
    BY <1>2, <1>3, <1>4, <1>5, <1>6, <2>1 DEF TypeOK
  <2>2. CASE j # k
    <3>1. overlays'[j] = overlays[j]
      BY <1>4, <2>2 DEF TypeOK
    <3>2. CASE byFile[j] = NoEdit
      BY <1>4, <3>1, <3>2 DEF StoreConsistent
    <3>3. CASE byFile[j] # NoEdit
      <4>1. byFile[j] \in Edits /\ Key(byFile[j], byId[byFile[j]].session) = j
        BY <3>3 DEF TypeOK, StoreConsistent
      <4>2. byFile[j] # e
        BY <2>2, <4>1 DEF k
      <4>3. byId'[byFile[j]] = byId[byFile[j]]
        BY <1>4, <4>1, <4>2 DEF TypeOK
      <4> QED
        BY <1>4, <3>1, <3>3, <4>3 DEF StoreConsistent
    <3> QED
      BY <3>2, <3>3
  <2> QED
    BY <2>1, <2>2
<1>10. StoreConsistent'
  BY <1>8, <1>9 DEF StoreConsistent
<1> QED
  BY <1>1, <1>2, <1>4, <1>5, <1>7, <1>10 DEF TypeOK

(***************************************************************************)
(* The actions, one by one: what every step may be.                        *)
(***************************************************************************)
LEMMA TypeStep ==
  ASSUME IInv, [Next]_vars
  PROVE  TypeOK'
<1> USE DEF IInv, propVars, storeVars, acceptVars
<1>1. CASE UNCHANGED vars
  BY <1>1 DEF TypeOK, vars
<1>2. ASSUME NEW x \in Texts \cup {Missing}, Save(x) PROVE TypeOK'
  BY <1>2 DEF Save, WriteFile, TypeOK
<1>3. ASSUME NEW e \in Edits,
             \/ \E s \in Sessions, x \in Texts, y \in Texts \cup {NoText} : Preview(e, s, x, y)
             \/ \E x \in Texts, y \in Texts \cup {NoText} : PreviewOverlaid(e, x, y)
      PROVE  TypeOK'
  BY <1>3, PreviewDraft DEF TypeOK
<1>4. ASSUME NEW e \in Edits, NEW s \in Sessions, LookAtOverlay(e, s) PROVE TypeOK'
  <2>1. [session |-> s, overlay |-> overlays[Key(e, s)]] \in Looks
    BY KeyType DEF TypeOK, Looks
  <2> QED
    BY <1>4, <2>1 DEF LookAtOverlay, TypeOK
<1>5. ASSUME NEW e \in Edits, Register(e) PROVE TypeOK'
  <2>1. /\ byId' \in [Edits -> Records \cup {NoEdit}]
        /\ byFile' \in [Keys -> Edits \cup {NoEdit}]
        /\ overlays' \in [Keys -> Texts \cup {NoText}]
    BY <1>5, RegisterStep
  <2>2. /\ proposal' = [proposal EXCEPT ![e] = "over"]
        /\ draft' = [draft EXCEPT ![e] = NoEdit]
        /\ UNCHANGED <<disk, accept, taken, copy, disturbed>>
    BY <1>5 DEF Register
  <2> QED
    BY <2>1, <2>2 DEF TypeOK
<1>6. ASSUME NEW e \in Edits, NEW x \in Texts, UpdateText(e, x) PROVE TypeOK'
  <2>1. /\ byId' \in [Edits -> Records \cup {NoEdit}]
        /\ overlays' \in [Keys -> Texts \cup {NoText}]
    BY <1>6, UpdateTextStep
  <2>2. UNCHANGED <<disk, proposal, draft, byFile, accept, taken, copy, disturbed>>
    BY <1>6 DEF UpdateText
  <2> QED
    BY <2>1, <2>2 DEF TypeOK
<1>7. ASSUME NEW e \in Edits, Reject(e) PROVE TypeOK'
  <2>1. /\ byId' \in [Edits -> Records \cup {NoEdit}]
        /\ byFile' \in [Keys -> Edits \cup {NoEdit}]
        /\ overlays' \in [Keys -> Texts \cup {NoText}]
    BY <1>7, RemoveEditStep DEF Reject
  <2>2. UNCHANGED <<disk, proposal, draft, accept, taken, copy, disturbed>>
    BY <1>7 DEF Reject
  <2> QED
    BY <2>1, <2>2 DEF TypeOK
<1>8. ASSUME NEW a \in Accepts, NEW e \in Edits, GetEdit(a, e) PROVE TypeOK'
  BY <1>8 DEF GetEdit, Advance, TypeOK
<1>9. ASSUME NEW a \in Accepts, CompareBase(a) PROVE TypeOK'
  BY <1>9 DEF CompareBase, Advance, TypeOK
<1>10. ASSUME NEW a \in Accepts, BaseMismatch(a) PROVE TypeOK'
  BY <1>10 DEF BaseMismatch, Return, Advance, TypeOK
<1>11. ASSUME NEW a \in Accepts, CheckExpected(a) PROVE TypeOK'
  BY <1>11 DEF CheckExpected, Advance, TypeOK
<1>12. ASSUME NEW a \in Accepts, Conflict(a) PROVE TypeOK'
  BY <1>12 DEF Conflict, Return, Advance, TypeOK
<1>13. ASSUME NEW a \in Accepts, Truncate(a) PROVE TypeOK'
  BY <1>13, PendingEditsAssumption DEF Truncate, WriteFile, Advance, TypeOK
<1>14. ASSUME NEW a \in Accepts, WriteText(a) PROVE TypeOK'
  <2>1. copy[a] \in Records
    BY <1>14 DEF WriteText, Advance, TypeOK
  <2>2. copy[a].new \in Texts
    BY <2>1 DEF Records
  <2> QED
    BY <1>14, <2>2 DEF WriteText, WriteFile, Advance, TypeOK
<1>15. ASSUME NEW a \in Accepts, WriteFails(a) PROVE TypeOK'
  BY <1>15 DEF WriteFails, Return, Advance, TypeOK
<1>16. ASSUME NEW a \in Accepts, Finish(a) PROVE TypeOK'
  <2>1. taken[a] \in Edits
    BY <1>16 DEF Finish, Return, Advance, TypeOK
  <2>2. /\ byId' \in [Edits -> Records \cup {NoEdit}]
        /\ byFile' \in [Keys -> Edits \cup {NoEdit}]
        /\ overlays' \in [Keys -> Texts \cup {NoText}]
    BY <1>16, <2>1, RemoveEditStep DEF Finish
  <2>3. /\ Return(a, "written", "done")
        /\ UNCHANGED <<disk, proposal, draft>>
    BY <1>16 DEF Finish
  <2> QED
    BY <2>2, <2>3 DEF Return, Advance, TypeOK
<1> QED
  BY <1>1, <1>2, <1>3, <1>4, <1>5, <1>6, <1>7, <1>8, <1>9, <1>10, <1>11, <1>12, <1>13,
     <1>14, <1>15, <1>16 DEF Next

\* An edit that is over and in no store stays out of it.
StaysResolved ==
  \A e \in Edits : proposal[e] = "over" /\ byId[e] = NoEdit => byId'[e] = NoEdit

(***************************************************************************)
(* The stores stay consistent, an edit enters one when its proposal is     *)
(* over, and none comes back.                                              *)
(***************************************************************************)
LEMMA StoreStep ==
  ASSUME IInv, [Next]_vars
  PROVE  StoreConsistent' /\ StoredWhenOver' /\ StaysResolved
<1> DEFINE Goal == StoreConsistent' /\ StoredWhenOver' /\ StaysResolved
<1> USE DEF IInv, propVars, storeVars
<1>1. ASSUME UNCHANGED storeVars,
             \A e \in Edits : proposal[e] = "over" => proposal'[e] = "over"
      PROVE  Goal
  BY <1>1 DEF StoreConsistent, StoredWhenOver, StaysResolved
<1>2. ASSUME NEW e \in Edits,
             \/ \E s \in Sessions, x \in Texts, y \in Texts \cup {NoText} : Preview(e, s, x, y)
             \/ \E x \in Texts, y \in Texts \cup {NoText} : PreviewOverlaid(e, x, y)
      PROVE  Goal
  <2>1. proposal[e] # "over"
    BY <1>2 DEF Preview, PreviewOverlaid, Propose
  <2>2. proposal' = [proposal EXCEPT ![e] = "previewed"] /\ UNCHANGED storeVars
    BY <1>2, PreviewDraft
  <2> QED
    BY <1>1, <2>1, <2>2 DEF TypeOK
<1>3. ASSUME NEW e \in Edits, NEW s \in Sessions, LookAtOverlay(e, s) PROVE Goal
  BY <1>1, <1>3 DEF LookAtOverlay, TypeOK
<1>4. ASSUME NEW e \in Edits, Register(e) PROVE Goal
  <2>1. StoreConsistent' /\ byId' \in {byId, [byId EXCEPT ![e] = draft[e]]}
    BY <1>4, RegisterStep
  <2>2. proposal[e] = "previewed" /\ proposal' = [proposal EXCEPT ![e] = "over"]
    BY <1>4 DEF Register
  <2> QED
    BY <2>1, <2>2 DEF TypeOK, StoredWhenOver, StaysResolved
<1>5. ASSUME NEW e \in Edits, NEW x \in Texts, UpdateText(e, x) PROVE Goal
  <2>1. StoreConsistent' /\ \A d \in Edits : byId'[d] = NoEdit <=> byId[d] = NoEdit
    BY <1>5, UpdateTextStep
  <2>2. UNCHANGED proposal
    BY <1>5 DEF UpdateText
  <2> QED
    BY <2>1, <2>2 DEF StoredWhenOver, StaysResolved
<1>6. ASSUME NEW e \in Edits, RemoveEdit(e), UNCHANGED proposal PROVE Goal
  <2>1. StoreConsistent' /\ \A d \in Edits : byId'[d] \in {byId[d], NoEdit}
    BY <1>6, RemoveEditStep
  <2> QED
    BY <1>6, <2>1 DEF StoredWhenOver, StaysResolved
<1>7. ASSUME NEW e \in Edits, Reject(e) PROVE Goal
  BY <1>6, <1>7 DEF Reject
<1>8. ASSUME NEW a \in Accepts, Finish(a) PROVE Goal
  <2>1. taken[a] \in Edits
    BY <1>8 DEF Finish, Return, Advance, TypeOK
  <2> QED
    BY <1>6, <1>8, <2>1 DEF Finish
<1>9. ASSUME \/ UNCHANGED vars
             \/ \E x \in Texts \cup {Missing} : Save(x)
             \/ \E a \in Accepts :
                  \/ \E e \in Edits : GetEdit(a, e)
                  \/ CompareBase(a) \/ BaseMismatch(a) \/ CheckExpected(a)
                  \/ Conflict(a) \/ Truncate(a) \/ WriteText(a) \/ WriteFails(a)
      PROVE  Goal
  <2>1. UNCHANGED <<proposal, storeVars>>
    BY <1>9 DEF vars, Save, GetEdit, CompareBase, BaseMismatch, CheckExpected, Conflict,
                Truncate, WriteText, WriteFails
  <2> QED
    BY <1>1, <2>1
<1> QED
  BY <1>2, <1>3, <1>4, <1>5, <1>7, <1>8, <1>9 DEF Next

(***************************************************************************)
(* What is expected is the base: when it is drafted, in the store, where   *)
(* only the new text may change, and in the copies taken from there.       *)
(***************************************************************************)
LEMMA AgreeStep ==
  ASSUME IInv, [Next]_vars
  PROVE  ExpectedIsBase'
<1> USE DEF IInv, propVars, storeVars, acceptVars
<1>1. ASSUME UNCHANGED <<proposal, draft>>,
             \A d \in Edits : byId'[d] \in {byId[d], NoEdit},
             \A a \in Accepts : copy'[a] \in {copy[a], NoEdit}
      PROVE  ExpectedIsBase'
  BY <1>1 DEF ExpectedIsBase
<1>2. ASSUME NEW e \in Edits,
             \/ \E s \in Sessions, x \in Texts, y \in Texts \cup {NoText} : Preview(e, s, x, y)
             \/ \E x \in Texts, y \in Texts \cup {NoText} : PreviewOverlaid(e, x, y)
      PROVE  ExpectedIsBase'
  BY <1>2, PreviewDraft DEF ExpectedIsBase, TypeOK
<1>3. ASSUME NEW e \in Edits, NEW s \in Sessions, LookAtOverlay(e, s)
      PROVE  ExpectedIsBase'
  BY <1>3 DEF LookAtOverlay, ExpectedIsBase, TypeOK
<1>4. ASSUME NEW e \in Edits, Register(e) PROVE ExpectedIsBase'
  <2>1. byId' \in {byId, [byId EXCEPT ![e] = draft[e]]}
    BY <1>4, RegisterStep
  <2>2. /\ proposal[e] = "previewed"
        /\ proposal' = [proposal EXCEPT ![e] = "over"]
        /\ draft' = [draft EXCEPT ![e] = NoEdit]
        /\ UNCHANGED copy
    BY <1>4 DEF Register
  <2> QED
    BY <2>1, <2>2 DEF ExpectedIsBase, TypeOK
<1>5. ASSUME NEW e \in Edits, NEW x \in Texts, UpdateText(e, x) PROVE ExpectedIsBase'
  <2>1. \A d \in Edits : /\ byId'[d] = NoEdit <=> byId[d] = NoEdit
                         /\ byId[d] # NoEdit =>
                              /\ byId'[d].base = byId[d].base
                              /\ byId'[d].expected = byId[d].expected
    BY <1>5, UpdateTextStep
  <2>2. UNCHANGED <<proposal, draft, copy>>
    BY <1>5 DEF UpdateText
  <2> QED
    BY <2>1, <2>2 DEF ExpectedIsBase, Agrees
<1>6. ASSUME NEW e \in Edits, RemoveEdit(e)
      PROVE  \A d \in Edits : byId'[d] \in {byId[d], NoEdit}
  BY <1>6, RemoveEditStep
<1>7. ASSUME NEW e \in Edits, Reject(e) PROVE ExpectedIsBase'
  BY <1>1, <1>6, <1>7 DEF Reject
<1>8. ASSUME NEW a \in Accepts, NEW e \in Edits, GetEdit(a, e) PROVE ExpectedIsBase'
  BY <1>8 DEF GetEdit, ExpectedIsBase, TypeOK
<1>9. ASSUME NEW a \in Accepts, Finish(a) PROVE ExpectedIsBase'
  <2>1. taken[a] \in Edits
    BY <1>9 DEF Finish, Return, Advance, TypeOK
  <2>2. \A d \in Edits : byId'[d] \in {byId[d], NoEdit}
    BY <1>6, <1>9, <2>1 DEF Finish
  <2>3. UNCHANGED <<proposal, draft>> /\ copy' = [copy EXCEPT ![a] = NoEdit]
    BY <1>9 DEF Finish, Return
  <2> QED
    BY <1>1, <2>2, <2>3 DEF TypeOK
<1>10. ASSUME NEW a \in Accepts,
              \/ CompareBase(a) \/ BaseMismatch(a) \/ CheckExpected(a)
              \/ Conflict(a) \/ Truncate(a) \/ WriteText(a) \/ WriteFails(a)
       PROVE  ExpectedIsBase'
  <2>1. /\ UNCHANGED <<proposal, draft, byId>>
        /\ copy' \in {copy, [copy EXCEPT ![a] = NoEdit]}
    BY <1>10 DEF CompareBase, BaseMismatch, CheckExpected, Conflict, Truncate, WriteText,
                 WriteFails, Return
  <2> QED
    BY <1>1, <2>1 DEF TypeOK
<1>11. ASSUME UNCHANGED vars \/ \E x \in Texts \cup {Missing} : Save(x)
       PROVE  ExpectedIsBase'
  BY <1>1, <1>11 DEF vars, Save
<1> QED
  BY <1>2, <1>3, <1>4, <1>5, <1>7, <1>8, <1>9, <1>10, <1>11 DEF Next

(***************************************************************************)
(* An accept that is about to write, or has written, finds the file as it  *)
(* left it unless it was disturbed: whoever else writes disturbs it.       *)
(***************************************************************************)
LEMMA UndisturbedStep ==
  ASSUME IInv, [Next]_vars
  PROVE  UndisturbedAcceptReplacesBase'
<1> DEFINE Goal == UndisturbedAcceptReplacesBase'
<1> USE DEF IInv, propVars, storeVars, acceptVars
<1>1. ASSUME UNCHANGED <<disk, accept, copy, disturbed>> PROVE Goal
  BY <1>1 DEF UndisturbedAcceptReplacesBase, Existing
<1>2. ASSUME NEW x \in Texts \cup {Missing}, Save(x) PROVE Goal
  <2>1. \A a \in Accepts : disturbed'[a] <=> disturbed[a] \/ Writing(a)
    BY <1>2, PendingEditsAssumption DEF Save, WriteFile
  <2>2. UNCHANGED <<accept, copy>>
    BY <1>2 DEF Save
  <2> QED
    BY <2>1, <2>2 DEF UndisturbedAcceptReplacesBase, Writing
<1>3. ASSUME NEW a \in Accepts, NEW x \in Texts, WriteFile(x, a), UNCHANGED copy,
             \/ Advance(a, "writing", "truncated")
             \/ Advance(a, "truncated", "written") /\ x = copy[a].new
      PROVE  Goal
  <2>1. ASSUME NEW b \in Accepts, b # a, ~disturbed'[b]
        PROVE  accept'[b] \notin {"writing", "written"}
    BY <1>3, <2>1 DEF WriteFile, Writing, Advance, TypeOK
  <2>2. accept'[a] # "writing" /\ (accept'[a] = "written" => Existing' = copy'[a].new)
    BY <1>3, PendingEditsAssumption DEF WriteFile, Advance, Existing, TypeOK
  <2> QED
    BY <2>1, <2>2 DEF UndisturbedAcceptReplacesBase
<1>4. ASSUME NEW a \in Accepts, Truncate(a) PROVE Goal
  BY <1>3, <1>4, PendingEditsAssumption DEF Truncate
<1>5. ASSUME NEW a \in Accepts, WriteText(a) PROVE Goal
  <2>1. copy[a] \in Records
    BY <1>5 DEF WriteText, Advance, TypeOK
  <2>2. copy[a].new \in Texts
    BY <2>1 DEF Records
  <2> QED
    BY <1>3, <1>5, <2>2 DEF WriteText
<1>6. ASSUME NEW a \in Accepts, CheckExpected(a) PROVE Goal
  <2>1. copy[a] \in Records /\ copy[a] # NoEdit
    BY <1>6, PendingEditsAssumption DEF CheckExpected, Advance, TypeOK
  <2>2. Expected(a) = copy[a].base
    BY <2>1 DEF Expected, ExpectedIsBase, Agrees
  <2>3. /\ Existing = Expected(a)
        /\ accept' = [accept EXCEPT ![a] =
                        IF Existing = copy[a].new THEN "written" ELSE "writing"]
        /\ UNCHANGED <<disk, copy, disturbed>>
    BY <1>6 DEF CheckExpected, Advance
  <2> QED
    BY <2>2, <2>3 DEF UndisturbedAcceptReplacesBase, Existing, TypeOK
<1>7. ASSUME NEW a \in Accepts, NEW to \in {"got", "compared", "failed", "done"},
             accept' = [accept EXCEPT ![a] = to], UNCHANGED disk,
             \A b \in Accepts \ {a} : copy'[b] = copy[b] /\ disturbed'[b] = disturbed[b]
      PROVE  Goal
  BY <1>7 DEF UndisturbedAcceptReplacesBase, Existing, TypeOK
<1>8. ASSUME NEW a \in Accepts,
             \/ \E e \in Edits : GetEdit(a, e)
             \/ CompareBase(a) \/ BaseMismatch(a) \/ Conflict(a) \/ WriteFails(a) \/ Finish(a)
      PROVE  Goal
  <2>1. \E to \in {"got", "compared", "failed", "done"} :
          accept' = [accept EXCEPT ![a] = to]
    BY <1>8 DEF GetEdit, CompareBase, BaseMismatch, Conflict, WriteFails, Finish, Return,
                Advance
  <2>2. /\ UNCHANGED disk
        /\ \A b \in Accepts \ {a} : copy'[b] = copy[b] /\ disturbed'[b] = disturbed[b]
    BY <1>8 DEF GetEdit, CompareBase, BaseMismatch, Conflict, WriteFails, Finish, Return,
                TypeOK
  <2> QED
    BY <1>7, <2>1, <2>2
<1>9. ASSUME \/ UNCHANGED vars
             \/ \E e \in Edits :
                  \/ \E s \in Sessions, x \in Texts, y \in Texts \cup {NoText} :
                       Preview(e, s, x, y)
                  \/ \E s \in Sessions : LookAtOverlay(e, s)
                  \/ \E x \in Texts, y \in Texts \cup {NoText} : PreviewOverlaid(e, x, y)
                  \/ Register(e)
                  \/ \E x \in Texts : UpdateText(e, x)
                  \/ Reject(e)
      PROVE  Goal
  <2>1. UNCHANGED <<disk, accept, copy, disturbed>>
    BY <1>9 DEF vars, Preview, PreviewOverlaid, Propose, LookAtOverlay, Register,
                UpdateText, Reject
  <2> QED
    BY <1>1, <2>1
<1> QED
  BY <1>2, <1>4, <1>5, <1>6, <1>8, <1>9 DEF Next

(***************************************************************************)
(* The inductive invariant.                                                *)
(***************************************************************************)
THEOREM Invariance == Spec => []IInv
<1>1. Init => IInv
  <2> SUFFICES ASSUME Init PROVE IInv
    OBVIOUS
  <2>1. TypeOK
    BY PendingEditsAssumption DEF Init, TypeOK
  <2>2. StoreConsistent
    BY DEF Init, StoreConsistent
  <2>3. StoredWhenOver /\ ExpectedIsBase /\ UndisturbedAcceptReplacesBase
    BY DEF Init, StoredWhenOver, ExpectedIsBase, UndisturbedAcceptReplacesBase
  <2> QED
    BY <2>1, <2>2, <2>3 DEF IInv
<1>2. IInv /\ [Next]_vars => IInv'
  BY TypeStep, StoreStep, AgreeStep, UndisturbedStep DEF IInv
<1> QED
  BY <1>1, <1>2, PTL DEF Spec

(***************************************************************************)
(* Every variable has its type in every reachable state.                   *)
(***************************************************************************)
THEOREM TypeCorrect == Spec => []TypeOK
<1>1. IInv => TypeOK
  BY DEF IInv
<1> QED
  BY <1>1, Invariance, PTL

(***************************************************************************)
(* The three maps of a store always say the same (PendingEditStore).       *)
(***************************************************************************)
THEOREM StoresAreConsistent == Spec => []StoreConsistent
<1>1. IInv => StoreConsistent
  BY DEF IInv
<1> QED
  BY <1>1, Invariance, PTL

(***************************************************************************)
(* accept_pending_edit replaces its edit's base by its edit's text unless  *)
(* someone writes the file between its last read and its own write.        *)
(***************************************************************************)
THEOREM AcceptReplacesBase == Spec => []UndisturbedAcceptReplacesBase
<1>1. IInv => UndisturbedAcceptReplacesBase
  BY DEF IInv
<1> QED
  BY <1>1, Invariance, PTL

(***************************************************************************)
(* An edit that was accepted, rejected or refused never comes back.        *)
(***************************************************************************)
THEOREM ResolvedEditsStayResolved == Spec => ResolvedForGood
<1>1. IInv /\ [Next]_vars =>
        [\A e \in Edits : proposal[e] = "over" /\ byId[e] = NoEdit => byId'[e] = NoEdit]_vars
  BY StoreStep DEF StaysResolved
<1> QED
  BY <1>1, Invariance, PTL DEF Spec, ResolvedForGood

-----------------------------------------------------------------------------
(***************************************************************************)
(* EditText: what becomes of two edits that do not overlap.                *)
(***************************************************************************)

(***************************************************************************)
(* A set of naturals that is not empty has a least element.                *)
(***************************************************************************)
LEMMA Least ==
  ASSUME NEW T, T \subseteq Nat, T # {}
  PROVE  \E n \in T : \A m \in T : n <= m
<1>1. PICK n \in T : \A m \in T : <<m, n>> \notin OpToRel(<, Nat)
  BY NatLessThanWellFounded, WFMin
<1>2. \A m \in T : ~(m < n)
  BY <1>1 DEF OpToRel
<1> QED
  BY <1>2

\* How many lines of t end within its first i characters, and how many in all.
Ended(t, i) == Cardinality({j \in Feeds(t) : j <= i})
Ends(t) == Cardinality(Feeds(t))

(***************************************************************************)
(* How the count of line feeds grows.                                      *)
(***************************************************************************)
LEMMA EndedGrows ==
  ASSUME NEW t \in Seq(STRING)
  PROVE  /\ Feeds(t) \subseteq 1..Len(t) /\ IsFiniteSet(Feeds(t)) /\ Len(t) \in Nat
         /\ Ends(t) \in Nat /\ \A i \in Nat : Ended(t, i) \in 0..Ends(t)
         /\ Ended(t, 0) = 0 /\ Ended(t, Len(t)) = Ends(t)
         /\ \A i, j \in Nat : i <= j => Ended(t, i) <= Ended(t, j)
         /\ \A i, j \in Nat : i < j /\ j \in Feeds(t) => Ended(t, i) < Ended(t, j)
         /\ \A i, j \in Nat : i < j /\ j <= i + 1 =>
                /\ Ended(t, j) <= Ended(t, i) + 1
                /\ j \notin Feeds(t) => Ended(t, j) = Ended(t, i)
<1> DEFINE First(i) == {j \in Feeds(t) : j <= i}
<1>1. Feeds(t) \subseteq 1..Len(t) /\ IsFiniteSet(Feeds(t)) /\ Len(t) \in Nat
  <2>1. Feeds(t) \subseteq 1..Len(t) /\ Len(t) \in Nat
    BY DEF Feeds
  <2>2. IsFiniteSet(1..Len(t))
    BY <2>1, FS_Interval
  <2> QED
    BY <2>1, <2>2, FS_Subset
<1>2. \A i : First(i) \subseteq Feeds(t) /\ IsFiniteSet(First(i)) /\ Ended(t, i) \in Nat
             /\ Ended(t, i) <= Ends(t)
  BY <1>1, FS_Subset, FS_CardinalityType DEF Ended, Ends
<1>3. Ends(t) \in Nat
  BY <1>1, FS_CardinalityType DEF Ends
<1>4. First(0) = {} /\ First(Len(t)) = Feeds(t)
  BY <1>1
<1>5. Ended(t, 0) = 0 /\ Ended(t, Len(t)) = Ends(t)
  BY <1>4, FS_EmptySet DEF Ended, Ends
<1>6. ASSUME NEW i \in Nat, NEW j \in Nat, i <= j PROVE Ended(t, i) <= Ended(t, j)
  <2>1. First(i) \subseteq First(j)
    BY <1>1, <1>6
  <2> QED
    BY <1>2, <2>1, FS_Subset DEF Ended
<1>7. ASSUME NEW i \in Nat, NEW j \in Nat, i < j, j \in Feeds(t) PROVE Ended(t, i) < Ended(t, j)
  <2>1. First(i) \subseteq First(j) \ {j} /\ j \in First(j)
    BY <1>1, <1>7
  <2>0. IsFiniteSet(First(i)) /\ IsFiniteSet(First(j))
    BY <1>2
  <2> HIDE DEF First
  <2>2. IsFiniteSet(First(j) \ {j}) /\ Cardinality(First(j) \ {j}) = Cardinality(First(j)) - 1
    BY <2>0, <2>1, FS_RemoveElement
  <2>3. Cardinality(First(i)) <= Cardinality(First(j) \ {j})
    BY <2>1, <2>2, FS_Subset
  <2>4. Cardinality(First(i)) \in Nat /\ Cardinality(First(j)) \in Nat
    BY <2>0, FS_CardinalityType
  <2>5. Cardinality(First(i)) < Cardinality(First(j))
    BY <2>2, <2>3, <2>4
  <2> QED
    BY <2>5 DEF Ended, First
<1>8. ASSUME NEW i \in Nat, NEW j \in Nat, i < j, j <= i + 1
      PROVE  Ended(t, j) <= Ended(t, i) + 1 /\ (j \notin Feeds(t) => Ended(t, j) = Ended(t, i))
  <2>1. CASE j \in Feeds(t)
    <3>1. First(j) = First(i) \cup {j} /\ j \notin First(i)
      BY <1>1, <1>8, <2>1
    <3>2. Cardinality(First(j)) = Cardinality(First(i)) + 1
      <4> HIDE DEF First
      <4> QED
        BY <1>2, <3>1, FS_AddElement
    <3>3. Ended(t, j) = Ended(t, i) + 1 /\ Ended(t, i) \in Nat
      BY <1>2, <3>2 DEF Ended
    <3> QED
      BY <2>1, <3>3
  <2>2. CASE j \notin Feeds(t)
    <3>1. First(j) = First(i)
      BY <1>1, <1>8, <2>2
    <3>2. Ended(t, j) = Ended(t, i) /\ Ended(t, i) \in Nat
      BY <1>2, <3>1 DEF Ended
    <3> QED
      BY <3>2
  <2> QED
    BY <2>1, <2>2
<1>9. \A i \in Nat : Ended(t, i) \in 0..Ends(t)
  <2> TAKE i \in Nat
  <2>1. Ended(t, i) \in Nat /\ Ended(t, i) <= Ends(t)
    BY <1>2
  <2> QED
    BY <1>3, <2>1
<1> HIDE DEF First
<1> QED
  BY <1>1, <1>3, <1>5, <1>6, <1>7, <1>8, <1>9

(***************************************************************************)
(* The line k of a text starts where k - 1 lines have ended.               *)
(***************************************************************************)
LEMMA LineStartIs ==
  ASSUME EditTextAssumption, NEW t \in Seq(STRING), NEW k \in 1..(Ends(t) + 1)
  PROVE  /\ LineStart(t, k) \in Feeds(t) \cup {0} /\ LineStart(t, k) \in 0..Len(t)
         /\ Ended(t, LineStart(t, k)) = k - 1
         /\ \A i \in Feeds(t) \cup {0} : Ended(t, i) = k - 1 => i = LineStart(t, k)
<1>1. Ends(t) \in Nat /\ Len(t) \in Nat /\ Feeds(t) \subseteq 1..Len(t)
  BY EndedGrows
<1>7. \A i \in Nat : Ended(t, i) \in Nat
  BY EndedGrows, SMTT(30)
<1>8. \A i, j \in Nat : i < j /\ j \in Feeds(t) => Ended(t, i) < Ended(t, j)
  BY EndedGrows
<1>9. \A i, j \in Nat : i < j /\ j <= i + 1 =>
         /\ Ended(t, j) <= Ended(t, i) + 1
         /\ j \notin Feeds(t) => Ended(t, j) = Ended(t, i)
  BY EndedGrows
<1> DEFINE T == {i \in 0..Len(t) : Ended(t, i) >= k - 1}
<1>2. PICK i \in T : \A j \in T : i <= j
  <2>1. T \subseteq Nat
    BY <1>1
  <2>2. Len(t) \in T
    BY <1>1, EndedGrows
  <2> HIDE DEF T
  <2> QED
    BY <2>1, <2>2, Least
<1>3. i \in Feeds(t) \cup {0} /\ Ended(t, i) = k - 1
  <2>1. CASE i = 0
    BY <1>1, <1>2, <2>1, EndedGrows
  <2>2. CASE i # 0
    <3>1. PICK j \in Nat : i = j + 1 /\ j \in 0..Len(t)
      BY <1>1, <1>2, <2>2
    <3>2. j \notin T
      BY <1>2, <3>1
    <3>3. ~(Ended(t, j) >= k - 1)
      BY <3>1, <3>2
    <3>4. /\ Ended(t, j) \in Nat /\ Ended(t, i) \in Nat /\ Ended(t, i) >= k - 1
          /\ Ended(t, i) <= Ended(t, j) + 1 /\ (i \notin Feeds(t) => Ended(t, i) = Ended(t, j))
      <4>1. i \in Nat /\ Ended(t, i) >= k - 1
        BY <1>1, <1>2
      <4>2. Ended(t, i) <= Ended(t, j) + 1 /\ (i \notin Feeds(t) => Ended(t, i) = Ended(t, j))
        BY <1>9, <3>1, <4>1
      <4> QED
        BY <1>7, <3>1, <4>1, <4>2
    <3> QED
      BY <1>1, <3>3, <3>4
  <2> QED
    BY <2>1, <2>2
<1>4. ASSUME NEW m \in Feeds(t) \cup {0}, NEW n \in Feeds(t) \cup {0},
             Ended(t, m) = Ended(t, n)
      PROVE  m = n
  <2>1. m \in Nat /\ n \in Nat
    BY <1>1
  <2>2. Ended(t, m) \in Nat /\ Ended(t, n) \in Nat
    BY <1>7, <2>1
  <2>3. m < n => n \in Feeds(t) /\ Ended(t, m) < Ended(t, n)
    BY <1>8, <2>1
  <2>4. n < m => m \in Feeds(t) /\ Ended(t, n) < Ended(t, m)
    BY <1>8, <2>1
  <2> QED
    BY <1>4, <2>1, <2>2, <2>3, <2>4
<1>5. LineStart(t, k) = CHOOSE n \in Feeds(t) \cup {0} : Ended(t, n) = k - 1
  BY DEF LineStart, Ended
<1>6. LineStart(t, k) \in Feeds(t) \cup {0} /\ Ended(t, LineStart(t, k)) = k - 1
  BY <1>3, <1>5
<1> QED
  BY <1>1, <1>4, <1>6

(***************************************************************************)
(* The starts of a text's lines are in order, and a line with a line feed  *)
(* reaches to the start of the next.                                       *)
(***************************************************************************)
LEMMA LinesReach ==
  ASSUME EditTextAssumption, NEW t \in Seq(STRING)
  PROVE  /\ Ends(t) \in Nat /\ LineCount(t) \in {Ends(t), Ends(t) + 1}
         /\ \A k, l \in 1..(Ends(t) + 1) : k < l => LineStart(t, k) < LineStart(t, l)
         /\ \A k \in 1..Ends(t) : Len(LineOf(t, k)) = LineStart(t, k + 1) - LineStart(t, k)
         /\ LineCount(t) = Ends(t) => LineStart(t, Ends(t) + 1) = Len(t)
         /\ LineCount(t) = Ends(t) + 1 =>
                Len(LineOf(t, Ends(t) + 1)) = Len(t) - LineStart(t, Ends(t) + 1)
<1>1. /\ Ends(t) \in Nat /\ Len(t) \in Nat /\ Feeds(t) \subseteq 1..Len(t)
      /\ Ended(t, Len(t)) = Ends(t) /\ Ended(t, 0) = 0
  BY EndedGrows
<1>2. LineCount(t) = Ends(t) + (IF t # <<>> /\ t[Len(t)] # LineFeed THEN 1 ELSE 0)
  BY DEF LineCount, Ends
<1>3. ASSUME NEW k \in 1..(Ends(t) + 1), NEW l \in 1..(Ends(t) + 1), k < l
      PROVE  LineStart(t, k) < LineStart(t, l)
  <2>1. /\ LineStart(t, k) \in Nat /\ LineStart(t, l) \in Nat
        /\ Ended(t, LineStart(t, k)) = k - 1 /\ Ended(t, LineStart(t, l)) = l - 1
    BY LineStartIs, <1>1
  <2>2. ~(LineStart(t, l) <= LineStart(t, k))
    <3> SUFFICES ASSUME LineStart(t, l) <= LineStart(t, k) PROVE FALSE
      OBVIOUS
    <3>1. Ended(t, LineStart(t, l)) <= Ended(t, LineStart(t, k))
      BY <2>1, EndedGrows
    <3> QED
      BY <1>1, <1>3, <2>1, <3>1
  <2> QED
    BY <2>1, <2>2
<1>4. LineCount(t) = Ends(t) => LineStart(t, Ends(t) + 1) = Len(t)
  <2> SUFFICES ASSUME LineCount(t) = Ends(t) PROVE LineStart(t, Ends(t) + 1) = Len(t)
    OBVIOUS
  <2>1. t = <<>> \/ t[Len(t)] = LineFeed
    BY <1>1, <1>2
  <2>2. Len(t) \in Feeds(t) \cup {0}
    BY <1>1, <2>1 DEF Feeds
  <2> QED
    BY <1>1, <2>2, LineStartIs
<1>5. ASSUME NEW k \in 1..Ends(t)
      PROVE  Len(LineOf(t, k)) = LineStart(t, k + 1) - LineStart(t, k)
  <2>1. /\ LineStart(t, k) \in 0..Len(t) /\ LineStart(t, k + 1) \in 0..Len(t)
        /\ LineStart(t, k) < LineStart(t, k + 1)
    BY <1>1, <1>3, LineStartIs
  <2>2. (IF k < LineCount(t) THEN LineStart(t, k + 1) ELSE Len(t)) = LineStart(t, k + 1)
    BY <1>1, <1>2, <1>4
  <2>3. LineOf(t, k) = SubSeq(t, LineStart(t, k) + 1, LineStart(t, k + 1))
    BY <2>2 DEF LineOf
  <2> QED
    BY <1>1, <2>1, <2>3, SubSeqProperties
<1>6. LineCount(t) = Ends(t) + 1 =>
          Len(LineOf(t, Ends(t) + 1)) = Len(t) - LineStart(t, Ends(t) + 1)
  <2> SUFFICES ASSUME LineCount(t) = Ends(t) + 1
               PROVE  Len(LineOf(t, Ends(t) + 1)) = Len(t) - LineStart(t, Ends(t) + 1)
    OBVIOUS
  <2>1. LineStart(t, Ends(t) + 1) \in 0..Len(t)
    BY <1>1, LineStartIs
  <2>2. LineOf(t, Ends(t) + 1) = SubSeq(t, LineStart(t, Ends(t) + 1) + 1, Len(t))
    <3>1. ~(Ends(t) + 1 < LineCount(t))
      BY <1>1
    <3> QED
      BY <3>1 DEF LineOf
  <2> QED
    BY <1>1, <2>1, <2>2, SubSeqProperties
<1> QED
  BY <1>1, <1>2, <1>3, <1>4, <1>5, <1>6

(***************************************************************************)
(* Which character a position is before: it is counted from the start of   *)
(* its line, which must be so long; the line after the last is the end.    *)
(***************************************************************************)
LEMMA IndexIs ==
  ASSUME EditTextAssumption, NEW t \in Seq(STRING), NEW p \in Nat \X Nat
  PROVE  /\ p[1] = 0 \/ p[2] = 0 => line_col_to_index(t, p) = NoResult
         /\ p[2] > 0 /\ p[1] \in 1..LineCount(t) =>
                line_col_to_index(t, p) =
                    IF p[2] - 1 <= Len(LineOf(t, p[1])) THEN LineStart(t, p[1]) + p[2] - 1
                    ELSE NoResult
         /\ p[2] > 0 /\ p[1] = LineCount(t) + 1 => line_col_to_index(t, p) = Len(t)
         /\ p[1] > LineCount(t) + 1 => line_col_to_index(t, p) = NoResult
<1>1. p[1] \in Nat /\ p[2] \in Nat /\ LineCount(t) \in Nat
  BY LinesReach
<1>2. ~(p[1] \in 1..LineCount(t) /\ p[1] = LineCount(t) + 1)
  BY <1>1
<1> DEFINE first == p[1] = 0 \/ p[2] = 0
           second == p[1] \in 1..LineCount(t) /\ p[2] > 0
           third == p[1] = LineCount(t) + 1 /\ p[2] > 0
           inside == IF p[2] - 1 <= Len(LineOf(t, p[1])) THEN LineStart(t, p[1]) + p[2] - 1
                     ELSE NoResult
<1>3. ~(first /\ second) /\ ~(first /\ third) /\ ~(second /\ third)
  BY <1>1
<1>4. line_col_to_index(t, p) = CASE first -> NoResult [] second -> inside
                                  [] third -> Len(t) [] OTHER -> NoResult
  BY DEF line_col_to_index
<1>5. p[1] > LineCount(t) + 1 => ~second /\ ~third
  BY <1>1
<1> HIDE DEF second, third, inside, first
<1>6. /\ first => line_col_to_index(t, p) = NoResult
      /\ second => line_col_to_index(t, p) = inside
      /\ third => line_col_to_index(t, p) = Len(t)
      /\ ~second /\ ~third => line_col_to_index(t, p) = NoResult
  BY <1>3, <1>4
<1> QED
  BY <1>5, <1>6 DEF first, second, third, inside

\* r has the text of t up to the position q, which is on t's lines.
SameUpTo(t, r, q) ==
  LET n == line_col_to_index(t, q)
  IN  /\ OnLines(t, q) /\ n \in Nat /\ n <= Len(t) /\ n <= Len(r)
      /\ \A i \in 1..n : r[i] = t[i]

(***************************************************************************)
(* Characters before q are left as they were: every position up to q is    *)
(* still where it was, if it is a position of the new text at all.         *)
(***************************************************************************)
LEMMA PositionsKept ==
  ASSUME EditTextAssumption, NEW t \in Seq(STRING), NEW r \in Seq(STRING),
         NEW p \in Nat \X Nat, NEW q \in Nat \X Nat, ~Before(q, p), SameUpTo(t, r, q),
         line_col_to_index(r, p) # NoResult
  PROVE  /\ line_col_to_index(t, p) = line_col_to_index(r, p)
         /\ line_col_to_index(r, p) \in 0..line_col_to_index(t, q)
<1> SUFFICES ASSUME OnLines(t, q), NEW n \in Nat, line_col_to_index(t, q) = n,
                    n <= Len(t), n <= Len(r), \A i \in 1..n : r[i] = t[i]
             PROVE  /\ line_col_to_index(t, p) = line_col_to_index(r, p)
                    /\ line_col_to_index(r, p) \in 0..n
  BY DEF SameUpTo
<1> DEFINE m == q[1]
           st == LineStart(t, m)
<1>1. /\ Len(t) \in Nat /\ Len(r) \in Nat
      /\ Feeds(t) \subseteq 1..Len(t) /\ Feeds(r) \subseteq 1..Len(r)
      /\ Ends(t) \in Nat /\ Ends(r) \in Nat
      /\ LineCount(t) \in {Ends(t), Ends(t) + 1} /\ LineCount(r) \in {Ends(r), Ends(r) + 1}
  BY EndedGrows, LinesReach
<1>2. \A i \in 0..n : Ended(t, i) = Ended(r, i) /\ (i \in Feeds(t) <=> i \in Feeds(r))
  <2> TAKE i \in 0..n
  <2>1. {j \in Feeds(t) : j <= i} = {j \in Feeds(r) : j <= i}
    BY <1>1 DEF Feeds
  <2>2. Ended(t, i) = Ended(r, i)
    BY <2>1 DEF Ended
  <2>3. i \in Feeds(t) <=> i \in Feeds(r)
    BY <1>1 DEF Feeds
  <2> QED
    BY <2>2, <2>3
<1>3. /\ p[1] \in Nat \ {0} /\ p[2] \in Nat \ {0} /\ q[1] \in Nat \ {0} /\ q[2] \in Nat \ {0}
      /\ p[1] < m \/ (p[1] = m /\ p[2] <= q[2])
  <2>1. q[1] # 0 /\ q[2] # 0 /\ p[1] # 0 /\ p[2] # 0
    BY IndexIs DEF EditTextAssumption
  <2> QED
    BY <2>1 DEF Before
<1>4. /\ m \in 1..(Ends(t) + 1) /\ st \in Feeds(t) \cup {0} /\ st \in 0..n
      /\ n = st + q[2] - 1 /\ Ended(t, st) = m - 1
      /\ m = LineCount(t) + 1 => q[2] = 1
  <2>1. /\ m <= LineCount(t) \/ (m = LineCount(t) + 1 /\ q[2] = 1 /\ LineCount(t) = Ends(t))
    BY DEF OnLines, Ends
  <2>2. m \in 1..(Ends(t) + 1)
    BY <1>1, <1>3, <2>1
  <2>3. st \in Feeds(t) \cup {0} /\ Ended(t, st) = m - 1 /\ st \in Nat
    BY <2>2, <1>1, LineStartIs
  <2>4. n = st + q[2] - 1
    <3>1. CASE m <= LineCount(t)
      <4>1. m \in 1..LineCount(t) /\ q[2] > 0
        BY <1>1, <1>3, <3>1
      <4>2. n \in Nat /\ n # NoResult
        BY DEF EditTextAssumption
      <4> QED
        BY <4>1, <4>2, IndexIs
    <3>2. CASE m = LineCount(t) + 1 /\ q[2] = 1 /\ LineCount(t) = Ends(t)
      <4>1. n = Len(t)
        BY <1>3, <3>2, IndexIs
      <4>2. st = Len(t)
        BY <3>2, LinesReach
      <4> QED
        BY <1>1, <3>2, <4>1, <4>2
    <3> QED
      BY <2>1, <3>1, <3>2
  <2> QED
    BY <1>1, <1>3, <2>1, <2>2, <2>3, <2>4, SMTT(30)
<1>5. \A k \in 1..(Ends(t) + 1) : LineStart(t, k) <= n =>
         k \in 1..(Ends(r) + 1) /\ LineStart(r, k) = LineStart(t, k)
  <2> SUFFICES ASSUME NEW k \in 1..(Ends(t) + 1), LineStart(t, k) <= n
               PROVE  k \in 1..(Ends(r) + 1) /\ LineStart(r, k) = LineStart(t, k)
    OBVIOUS
  <2>1. PICK s \in 0..n : s = LineStart(t, k) /\ s \in Feeds(t) \cup {0} /\ Ended(t, s) = k - 1
    BY <1>1, LineStartIs
  <2>2. s \in Feeds(r) \cup {0} /\ Ended(r, s) = k - 1
    BY <1>2, <2>1
  <2>3. Ended(r, s) \in 0..Ends(r)
    <3>1. \A i \in Nat : Ended(r, i) \in 0..Ends(r)
      BY EndedGrows
    <3>2. s \in Nat
      OBVIOUS
    <3> QED
      BY <3>1, <3>2
  <2>4. k \in 1..(Ends(r) + 1)
    BY <1>1, <2>2, <2>3
  <2> QED
    BY <2>1, <2>2, <2>4, LineStartIs
<1>6. CASE p[1] < m
  <2> DEFINE k == p[1]
  <2>1. k \in 1..Ends(t) /\ k + 1 <= m
    <3> HIDE DEF m, st
    <3> QED
      BY <1>1, <1>3, <1>4, <1>6, SMTT(30)
  <2>2. LineStart(t, k) < LineStart(t, k + 1) /\ LineStart(t, k + 1) <= st
    <3>1. k + 1 \in 1..(Ends(t) + 1) /\ k \in 1..(Ends(t) + 1) /\ k < k + 1
      BY <1>1, <2>1
    <3>2. \A a, b \in 1..(Ends(t) + 1) : a < b => LineStart(t, a) < LineStart(t, b)
      BY LinesReach
    <3>3. LineStart(t, k + 1) \in Nat
      BY <1>1, <3>1, LineStartIs
    <3>4. k + 1 = m \/ k + 1 < m
      BY <1>4, <2>1, <3>1
    <3>5. LineStart(t, k) < LineStart(t, k + 1)
      BY <3>1, <3>2
    <3>6. k + 1 = m \/ LineStart(t, k + 1) < st
      BY <1>4, <3>1, <3>2, <3>4
    <3> QED
      BY <1>4, <3>3, <3>5, <3>6
  <2>3. /\ LineStart(t, k) \in Nat /\ LineStart(t, k + 1) \in Nat
        /\ LineStart(t, k) <= n /\ LineStart(t, k + 1) <= n
    <3>1. k \in 1..(Ends(t) + 1) /\ k + 1 \in 1..(Ends(t) + 1)
      BY <1>1, <2>1
    <3>2. LineStart(t, k) \in 0..Len(t) /\ LineStart(t, k + 1) \in 0..Len(t)
      BY <3>1, LineStartIs
    <3> QED
      BY <1>1, <1>4, <2>2, <3>2, SMTT(30)
  <2>4. /\ k \in 1..Ends(r) /\ LineStart(r, k) = LineStart(t, k)
        /\ LineStart(r, k + 1) = LineStart(t, k + 1)
    <3>1. k \in 1..(Ends(t) + 1) /\ k + 1 \in 1..(Ends(t) + 1)
      BY <1>1, <2>1
    <3>2. k + 1 \in 1..(Ends(r) + 1) /\ k \in 1..(Ends(r) + 1)
      BY <1>5, <2>3, <3>1
    <3> QED
      BY <1>1, <1>5, <2>1, <2>3, <3>1, <3>2
  <2>5. /\ Len(LineOf(t, k)) = Len(LineOf(r, k))
        /\ Len(LineOf(t, k)) = LineStart(t, k + 1) - LineStart(t, k)
    BY <2>1, <2>4, LinesReach
  <2>6. k \in 1..LineCount(t) /\ k \in 1..LineCount(r) /\ p[2] > 0
    BY <1>1, <1>3, <2>1, <2>4
  <2>9. /\ line_col_to_index(t, p) = IF p[2] - 1 <= Len(LineOf(t, k))
                                    THEN LineStart(t, k) + p[2] - 1 ELSE NoResult
        /\ line_col_to_index(r, p) = IF p[2] - 1 <= Len(LineOf(r, k))
                                    THEN LineStart(r, k) + p[2] - 1 ELSE NoResult
    BY <2>6, IndexIs
  <2>7. line_col_to_index(t, p) = line_col_to_index(r, p)
    BY <2>4, <2>5, <2>9
  <2>8. /\ line_col_to_index(r, p) = LineStart(t, k) + p[2] - 1
        /\ p[2] - 1 <= LineStart(t, k + 1) - LineStart(t, k)
    BY <2>4, <2>5, <2>9
  <2> QED
    BY <1>3, <2>3, <2>7, <2>8
<1>7. CASE p[1] = m /\ p[2] <= q[2]
  <2>1. m \in 1..(Ends(r) + 1) /\ LineStart(r, m) = st
    BY <1>4, <1>5
  <2>2. line_col_to_index(t, p) = st + p[2] - 1
    <3>1. CASE m \in 1..LineCount(t)
      <4>1. p[2] > 0 /\ q[2] > 0
        BY <1>3
      <4>2. q[2] - 1 <= Len(LineOf(t, m))
        <5>1. n # NoResult
          BY DEF EditTextAssumption
        <5>2. line_col_to_index(t, q) = IF q[2] - 1 <= Len(LineOf(t, q[1]))
                                        THEN LineStart(t, q[1]) + q[2] - 1 ELSE NoResult
          BY <3>1, <4>1, IndexIs
        <5> QED
          BY <5>1, <5>2
      <4>3. Len(LineOf(t, m)) \in Int
        <5>1. m \in 1..Ends(t) \/ (m = Ends(t) + 1 /\ LineCount(t) = Ends(t) + 1)
          <6>1. m \in Nat \ {0} /\ m <= LineCount(t)
            BY <1>1, <1>3, <3>1
          <6> HIDE DEF m, st
          <6> QED
            BY <1>1, <6>1
        <5>2. CASE m \in 1..Ends(t)
          <6>1. m + 1 \in 1..(Ends(t) + 1)
            BY <1>1, <5>2
          <6>2. LineStart(t, m + 1) \in 0..Len(t)
            BY <6>1, LineStartIs
          <6> QED
            BY <1>1, <1>4, <5>2, <6>2, LinesReach
        <5>3. CASE m = Ends(t) + 1 /\ LineCount(t) = Ends(t) + 1
          BY <1>1, <1>4, <5>3, LinesReach
        <5> QED
          BY <5>1, <5>2, <5>3
      <4>4. p[2] - 1 <= Len(LineOf(t, m))
        BY <1>3, <1>7, <4>2, <4>3
      <4> QED
        BY <1>7, <3>1, <4>1, <4>4, IndexIs
    <3>2. CASE m = LineCount(t) + 1
      <4>1. q[2] = 1 /\ p[2] = 1 /\ n = st
        BY <1>3, <1>4, <1>7, <3>2
      <4>2. line_col_to_index(t, p) = Len(t) /\ line_col_to_index(t, q) = Len(t)
        BY <1>3, <1>7, <3>2, IndexIs
      <4> QED
        BY <1>4, <4>1, <4>2
    <3> QED
      BY <1>1, <1>3, <1>4, <3>1, <3>2, SMTT(30)
  <2>3. line_col_to_index(r, p) = st + p[2] - 1
    <3>1. CASE m \in 1..LineCount(r)
      BY <1>3, <1>7, <2>1, <3>1, IndexIs
    <3>2. CASE m = LineCount(r) + 1
      <4>1. LineCount(r) = Ends(r)
        BY <1>1, <2>1, <3>2
      <4>2. st = Len(r)
        BY <2>1, <3>2, <4>1, LinesReach
      <4>3. line_col_to_index(r, p) = Len(r)
        BY <1>3, <1>7, <3>2, IndexIs
      <4>4. n = st + q[2] - 1 /\ n <= st /\ st \in Nat
        BY <1>4, <4>2
      <4>5. q[2] = 1
        BY <1>3, <4>4
      <4>6. p[2] = 1
        BY <1>3, <1>7, <4>5
      <4> QED
        BY <1>1, <4>2, <4>3, <4>4, <4>6, SMTT(30)
    <3> QED
      BY <1>1, <2>1, <3>1, <3>2
  <2> QED
    BY <1>3, <1>4, <1>7, <2>2, <2>3
<1> QED
  BY <1>3, <1>6, <1>7

(***************************************************************************)
(* A position lies in the text, if it is accepted.                         *)
(***************************************************************************)
LEMMA IndexInText ==
  ASSUME EditTextAssumption, NEW t \in Seq(STRING), NEW p \in Nat \X Nat,
         line_col_to_index(t, p) # NoResult
  PROVE  line_col_to_index(t, p) \in 0..Len(t) /\ p[1] > 0 /\ p[2] > 0
<1>1. /\ Len(t) \in Nat /\ Ends(t) \in Nat /\ LineCount(t) \in {Ends(t), Ends(t) + 1}
  BY EndedGrows, LinesReach
<1>2. p[1] \in Nat \ {0} /\ p[2] \in Nat \ {0} /\ p[1] <= LineCount(t) + 1
  BY <1>1, IndexIs
<1>3. CASE p[1] = LineCount(t) + 1
  <2>1. line_col_to_index(t, p) = Len(t)
    BY <1>2, <1>3, IndexIs
  <2> QED
    BY <1>1, <1>2, <2>1
<1>4. CASE p[1] \in 1..LineCount(t)
  <2>1. line_col_to_index(t, p) = IF p[2] - 1 <= Len(LineOf(t, p[1]))
                                  THEN LineStart(t, p[1]) + p[2] - 1 ELSE NoResult
    BY <1>2, <1>4, IndexIs
  <2>2. /\ p[2] - 1 <= Len(LineOf(t, p[1]))
        /\ line_col_to_index(t, p) = LineStart(t, p[1]) + p[2] - 1
    BY <2>1
  <2>3. CASE p[1] \in 1..Ends(t)
    <3>1. p[1] \in 1..(Ends(t) + 1) /\ p[1] + 1 \in 1..(Ends(t) + 1)
      BY <1>1, <2>3
    <3>2. LineStart(t, p[1]) \in 0..Len(t) /\ LineStart(t, p[1] + 1) \in 0..Len(t)
      BY <3>1, LineStartIs
    <3>3. Len(LineOf(t, p[1])) = LineStart(t, p[1] + 1) - LineStart(t, p[1])
      BY <2>3, LinesReach
    <3> QED
      BY <1>1, <1>2, <2>2, <3>2, <3>3
  <2>4. CASE p[1] = Ends(t) + 1 /\ LineCount(t) = Ends(t) + 1
    <3>1. p[1] \in 1..(Ends(t) + 1)
      BY <1>1, <2>4
    <3>2. LineStart(t, p[1]) \in 0..Len(t)
      BY <3>1, LineStartIs
    <3>3. Len(LineOf(t, p[1])) = Len(t) - LineStart(t, p[1])
      BY <2>4, LinesReach
    <3> QED
      BY <1>1, <1>2, <2>2, <3>2, <3>3
  <2> QED
    BY <1>1, <1>2, <1>4, <2>3, <2>4
<1> QED
  BY <1>1, <1>2, <1>3, <1>4

(***************************************************************************)
(* The characters of a part, and of two texts joined.                      *)
(***************************************************************************)
LEMMA Sliced ==
  ASSUME NEW s \in Seq(STRING), NEW m \in Nat, NEW n \in Nat, m <= n, n <= Len(s), NEW c,
         c = SubSeq(s, m + 1, n)
  PROVE  c \in Seq(STRING) /\ Len(c) = n - m /\ \A i \in 1..(n - m) : c[i] = s[m + i]
<1>1. Len(s) \in Nat /\ \A i \in (m + 1)..n : s[i] \in STRING
  OBVIOUS
<1> QED
  BY <1>1, SubSeqProperties

(***************************************************************************)
(* What three texts are joined to, and two; whichever are joined first.    *)
(***************************************************************************)
LEMMA JoinedInTurn ==
  ASSUME NEW a \in Seq(STRING), NEW b \in Seq(STRING), NEW c \in Seq(STRING)
  PROVE  (a \o b) \o c = a \o (b \o c)
BY ConcatAssociative

(***************************************************************************)
(* What two texts are joined to, character by character.                   *)
(***************************************************************************)
LEMMA Joined ==
  ASSUME NEW a \in Seq(STRING), NEW b \in Seq(STRING), NEW c, c = a \o b
  PROVE  /\ c \in Seq(STRING) /\ Len(c) = Len(a) + Len(b)
         /\ \A i \in 1..Len(a) : c[i] = a[i]
         /\ \A i \in 1..(Len(a) + Len(b)) : ~(i <= Len(a)) => c[i] = b[i - Len(a)]
BY ConcatProperties

(***************************************************************************)
(* What a cut through the first of two joined texts leaves on either side. *)
(***************************************************************************)
LEMMA CutJoined ==
  ASSUME NEW a \in Seq(STRING), NEW b \in Seq(STRING), NEW n \in 0..Len(a)
  PROVE  /\ SubSeq(a \o b, 1, n) = SubSeq(a, 1, n)
         /\ SubSeq(a \o b, n + 1, Len(a \o b)) = SubSeq(a, n + 1, Len(a)) \o b
<1>1. PICK c : c = a \o b
  OBVIOUS
<1>2. PICK la \in Nat, lb \in Nat : la = Len(a) /\ lb = Len(b)
  OBVIOUS
<1>3. /\ c \in Seq(STRING) /\ Len(c) = la + lb
      /\ \A i \in 1..la : c[i] = a[i]
      /\ \A i \in 1..(la + lb) : ~(i <= la) => c[i] = b[i - la]
  BY <1>1, <1>2, Joined
<1>4. n \in Nat /\ n <= la /\ n <= la + lb
  BY <1>2
<1>5. SubSeq(c, 1, n) = SubSeq(a, 1, n)
  <2>1. PICK front, old : front = SubSeq(c, 0 + 1, n) /\ old = SubSeq(a, 0 + 1, n)
    OBVIOUS
  <2>2. front \in Seq(STRING) /\ Len(front) = n - 0 /\ \A i \in 1..(n - 0) : front[i] = c[0 + i]
    BY <1>2, <1>3, <1>4, <2>1, Sliced
  <2>3. old \in Seq(STRING) /\ Len(old) = n - 0 /\ \A i \in 1..(n - 0) : old[i] = a[0 + i]
    BY <1>2, <1>4, <2>1, Sliced
  <2>4. \A i \in 1..n : front[i] = old[i]
    BY <1>3, <1>4, <2>2, <2>3
  <2> QED
    BY <1>4, <2>1, <2>2, <2>3, <2>4, SeqEqual
<1>6. SubSeq(c, n + 1, la + lb) = SubSeq(a, n + 1, la) \o b
  <2>1. PICK tail, part, whole : /\ tail = SubSeq(c, n + 1, la + lb) /\ part = SubSeq(a, n + 1, la)
                                 /\ whole = part \o b
    OBVIOUS
  <2>2. /\ tail \in Seq(STRING) /\ Len(tail) = la + lb - n
        /\ \A i \in 1..(la + lb - n) : tail[i] = c[n + i]
    <3>1. la + lb \in Nat /\ la + lb <= Len(c)
      BY <1>3
    <3> QED
      BY <1>3, <1>4, <2>1, <3>1, Sliced
  <2>3. part \in Seq(STRING) /\ Len(part) = la - n /\ \A i \in 1..(la - n) : part[i] = a[n + i]
    BY <1>2, <1>4, <2>1, Sliced, SMTT(30)
  <2>4. /\ whole \in Seq(STRING) /\ Len(whole) = la - n + lb
        /\ \A i \in 1..(la - n) : whole[i] = part[i]
        /\ \A i \in 1..(la - n + lb) : ~(i <= la - n) => whole[i] = b[i - (la - n)]
    <3>1. part \in Seq(STRING) /\ b \in Seq(STRING) /\ whole = part \o b
      BY <2>1, <2>3
    <3>2. /\ whole \in Seq(STRING) /\ Len(whole) = Len(part) + Len(b)
          /\ \A i \in 1..Len(part) : whole[i] = part[i]
          /\ \A i \in 1..(Len(part) + Len(b)) : ~(i <= Len(part)) => whole[i] = b[i - Len(part)]
      BY ONLY <3>1, Joined
    <3> QED
      BY ONLY <1>2, <2>3, <3>2
  <2>5. ASSUME NEW i \in 1..(la + lb - n) PROVE tail[i] = whole[i]
    <3>1. PICK k \in 1..(la + lb) : k = n + i
      BY <1>4
    <3>2. tail[i] = c[k]
      BY <2>2, <3>1
    <3>3. CASE k <= la
      <4>1. k \in 1..la /\ i \in 1..(la - n)
        BY <1>4, <3>1, <3>3
      <4>2. c[k] = a[k] /\ whole[i] = part[i] /\ part[i] = a[n + i]
        BY <1>3, <2>3, <2>4, <4>1
      <4> QED
        BY <3>1, <3>2, <4>2
    <3>4. CASE ~(k <= la)
      <4>1. i \in 1..(la - n + lb) /\ ~(i <= la - n) /\ k - la = i - (la - n)
        BY <1>4, <3>1, <3>4
      <4>2. c[k] = b[k - la] /\ whole[i] = b[i - (la - n)]
        BY <1>3, <2>4, <3>4, <4>1
      <4> QED
        BY <3>2, <4>1, <4>2
    <3> QED
      BY <3>3, <3>4
  <2>6. Len(tail) = Len(whole) /\ \A i \in 1..Len(tail) : tail[i] = whole[i]
    BY <1>4, <2>2, <2>4, <2>5
  <2>7. tail = whole
    BY <2>2, <2>4, <2>6, SeqEqual
  <2> QED
    BY <2>1, <2>7
<1> QED
  BY <1>1, <1>2, <1>3, <1>5, <1>6

(***************************************************************************)
(* A cut of the beginning of a text is a cut of the text.                  *)
(***************************************************************************)
LEMMA CutAgain ==
  ASSUME NEW t \in Seq(STRING), NEW n \in 0..Len(t), NEW m \in 0..n
  PROVE  /\ SubSeq(SubSeq(t, 1, n), 1, m) = SubSeq(t, 1, m)
         /\ SubSeq(SubSeq(t, 1, n), m + 1, n) = SubSeq(t, m + 1, n)
         /\ SubSeq(t, 1, n) \in Seq(STRING) /\ Len(SubSeq(t, 1, n)) = n
         /\ \A i \in 1..n : SubSeq(t, 1, n)[i] = t[i]
<1>1. PICK s : s = SubSeq(t, 0 + 1, n)
  OBVIOUS
<1>2. n \in Nat /\ m \in Nat /\ Len(t) \in Nat /\ m <= n /\ n <= Len(t) /\ m <= Len(t)
  OBVIOUS
<1>3. s \in Seq(STRING) /\ Len(s) = n - 0 /\ \A i \in 1..(n - 0) : s[i] = t[0 + i]
  BY <1>1, <1>2, Sliced
<1>4. s \in Seq(STRING) /\ Len(s) = n /\ \A i \in 1..n : s[i] = t[i]
  BY <1>2, <1>3
<1>5. PICK a, b : a = SubSeq(s, 0 + 1, m) /\ b = SubSeq(t, 0 + 1, m)
  OBVIOUS
<1>6. a \in Seq(STRING) /\ Len(a) = m - 0 /\ \A i \in 1..(m - 0) : a[i] = s[0 + i]
  BY <1>2, <1>4, <1>5, Sliced
<1>7. b \in Seq(STRING) /\ Len(b) = m - 0 /\ \A i \in 1..(m - 0) : b[i] = t[0 + i]
  BY <1>2, <1>5, Sliced
<1>8. \A i \in 1..m : a[i] = b[i]
  BY <1>2, <1>4, <1>6, <1>7
<1>9. a = b
  BY <1>2, <1>6, <1>7, <1>8, SeqEqual
<1>10. PICK c, d : c = SubSeq(s, m + 1, n) /\ d = SubSeq(t, m + 1, n)
  OBVIOUS
<1>11. c \in Seq(STRING) /\ Len(c) = n - m /\ \A i \in 1..(n - m) : c[i] = s[m + i]
  BY <1>2, <1>4, <1>10, Sliced
<1>12. d \in Seq(STRING) /\ Len(d) = n - m /\ \A i \in 1..(n - m) : d[i] = t[m + i]
  BY <1>2, <1>10, Sliced
<1>13. \A i \in 1..(n - m) : m + i \in 1..n
  BY <1>2
<1>14. \A i \in 1..(n - m) : c[i] = d[i]
  BY <1>4, <1>11, <1>12, <1>13
<1>15. c = d
  BY <1>2, <1>11, <1>12, <1>14, SeqEqual
<1> QED
  BY <1>1, <1>4, <1>5, <1>9, <1>10, <1>15

\* v in place of what lies between y and z.
Spliced(t, v, y, z) == SubSeq(t, 1, y) \o v \o SubSeq(t, z + 1, Len(t))

\* u in place of what lies between w and x, and v of what lies between y and z.
BothSpliced(t, u, v, w, x, y, z) ==
  SubSeq(t, 1, w) \o u \o SubSeq(t, x + 1, y) \o v \o SubSeq(t, z + 1, Len(t))

(***************************************************************************)
(* A replacement leaves what lies before it.                               *)
(***************************************************************************)
LEMMA SplicedOnce ==
  ASSUME NEW t \in Seq(STRING), NEW v \in Seq(STRING), NEW y \in Nat, NEW z \in Nat,
         y <= z, z <= Len(t)
  PROVE  /\ Spliced(t, v, y, z) \in Seq(STRING) /\ y <= Len(Spliced(t, v, y, z))
         /\ \A i \in 1..y : Spliced(t, v, y, z)[i] = t[i]
<1>1. Len(t) \in Nat /\ y \in 0..Len(t) /\ 0 \in 0..y /\ z <= Len(t) /\ Len(t) <= Len(t)
  OBVIOUS
<1>2. PICK r, first, rest : /\ r = Spliced(t, v, y, z) /\ first = SubSeq(t, 1, y)
                            /\ rest = SubSeq(t, z + 1, Len(t))
  OBVIOUS
<1>3. first \in Seq(STRING) /\ Len(first) = y /\ \A i \in 1..y : first[i] = t[i]
  BY <1>1, <1>2, CutAgain
<1>4. rest \in Seq(STRING)
  BY <1>1, <1>2, Sliced
<1>5. PICK after : after = v \o rest
  OBVIOUS
<1>6. after \in Seq(STRING)
  BY <1>4, <1>5, Joined
<1>7. r = first \o after
  <2>1. (first \o v) \o rest = first \o (v \o rest)
    <3>1. first \in Seq(STRING) /\ v \in Seq(STRING)
      BY <1>3
    <3> QED
      BY ONLY <1>4, <3>1, JoinedInTurn, SMTT(30)
  <2> QED
    BY ONLY <1>2, <1>5, <2>1 DEF Spliced
<1>8. /\ r \in Seq(STRING) /\ Len(r) = y + Len(after) /\ Len(after) \in Nat
      /\ \A i \in 1..y : r[i] = first[i]
  <2>1. /\ r \in Seq(STRING) /\ Len(r) = Len(first) + Len(after)
        /\ \A i \in 1..Len(first) : r[i] = first[i]
    <3>1. first \in Seq(STRING)
      BY <1>3
    <3> QED
      BY ONLY <3>1, <1>6, <1>7, Joined
  <2>2. Len(after) \in Nat
    BY <1>6
  <2> QED
    BY ONLY <1>3, <2>1, <2>2
<1>9. y <= Len(r)
  BY ONLY <1>8, y \in Nat
<1> QED
  BY <1>2, <1>3, <1>8, <1>9

(***************************************************************************)
(* Two replacements, the later one first, are both at once.                *)
(***************************************************************************)
LEMMA SplicedTwice ==
  ASSUME NEW t \in Seq(STRING), NEW u \in Seq(STRING), NEW v \in Seq(STRING),
         NEW w \in Nat, NEW x \in Nat, NEW y \in Nat, NEW z \in Nat,
         w <= x, x <= y, y <= z, z <= Len(t)
  PROVE  Spliced(Spliced(t, v, y, z), u, w, x) = BothSpliced(t, u, v, w, x, y, z)
<1>0. PICK r : r = Spliced(t, v, y, z)
  OBVIOUS
<1>1. /\ Len(t) \in Nat /\ y \in 0..Len(t) /\ w \in 0..y /\ x \in 0..y /\ w \in 0..Len(t)
      /\ z <= Len(t) /\ Len(t) <= Len(t)
  OBVIOUS
<1>2. PICK first, middle, rest, front :
         /\ first = SubSeq(t, 1, y) /\ middle = SubSeq(t, x + 1, y)
         /\ rest = SubSeq(t, z + 1, Len(t)) /\ front = SubSeq(t, 1, w)
  OBVIOUS
<1>3. /\ first \in Seq(STRING) /\ Len(first) = y /\ \A i \in 1..y : first[i] = t[i]
      /\ SubSeq(first, 1, w) = front /\ SubSeq(first, x + 1, y) = middle
  BY <1>1, <1>2, CutAgain
<1>4. rest \in Seq(STRING)
  BY <1>1, <1>2, Sliced
<1>5. middle \in Seq(STRING)
  BY <1>1, <1>2, Sliced
<1>6. front \in Seq(STRING)
  BY <1>1, <1>2, CutAgain
<1>7. PICK after : after = v \o rest
  OBVIOUS
<1>8. after \in Seq(STRING)
  BY <1>4, <1>7, Joined
<1>9. r = first \o after
  <2>1. (first \o v) \o rest = first \o (v \o rest)
    <3>1. first \in Seq(STRING) /\ v \in Seq(STRING)
      BY <1>3
    <3> QED
      BY ONLY <1>4, <3>1, JoinedInTurn, SMTT(30)
  <2> QED
    BY ONLY <1>0, <1>2, <1>7, <2>1 DEF Spliced
<1>11. SubSeq(r, 1, w) = front /\ SubSeq(r, x + 1, Len(r)) = middle \o after
  <2>1. w \in 0..Len(first) /\ x \in 0..Len(first)
    BY <1>1, <1>3
  <2>2. SubSeq(r, 1, w) = SubSeq(first, 1, w)
    BY ONLY <1>3, <1>8, <1>9, <2>1, CutJoined
  <2>3. SubSeq(r, x + 1, Len(r)) = SubSeq(first, x + 1, Len(first)) \o after
    BY ONLY <1>3, <1>8, <1>9, <2>1, CutJoined
  <2> QED
    BY <1>3, <2>2, <2>3
<1>12. PICK f : f = front \o u
  OBVIOUS
<1>13. f \in Seq(STRING)
  BY <1>6, <1>12, Joined
<1>14. f \o (middle \o (v \o rest)) = ((f \o middle) \o v) \o rest
  <2>1. PICK g : g = f \o middle
    OBVIOUS
  <2>2. g \in Seq(STRING)
    BY <1>5, <1>13, <2>1, Joined
  <2>3. f \o (middle \o after) = g \o after
    BY ONLY <1>5, <1>8, <1>13, <2>1, JoinedInTurn, SMTT(30)
  <2>4. g \o (v \o rest) = (g \o v) \o rest
    BY ONLY <1>4, <2>2, JoinedInTurn, v \in Seq(STRING)
  <2> QED
    BY <1>7, <2>1, <2>3, <2>4
<1>15. Spliced(r, u, w, x) = SubSeq(r, 1, w) \o u \o SubSeq(r, x + 1, Len(r))
  BY ONLY DEF Spliced
<1>16. BothSpliced(t, u, v, w, x, y, z) = ((f \o middle) \o v) \o rest
  BY ONLY <1>2, <1>12 DEF BothSpliced
<1> QED
  BY <1>0, <1>7, <1>11, <1>12, <1>14, <1>15, <1>16

(***************************************************************************)
(* What is made of two edits: the later one is applied first, the other in *)
(* the text it left.                                                       *)
(***************************************************************************)
LEMMA ReplaceTwo ==
  ASSUME EditTextAssumption, NEW t \in Seq(STRING), NEW es, Len(es) = 2
  PROVE  ReplaceEach(t, es) = IF ReplaceRange(t, es[1]) = NoResult THEN NoResult
                              ELSE ReplaceRange(ReplaceRange(t, es[1]), es[2])
<1> DEFINE Def(g) == g = [n \in 0..Len(es) |-> CASE n = 0 -> t
                                                 [] n > 0 /\ g[n - 1] = NoResult -> NoResult
                                                 [] OTHER -> ReplaceRange(g[n - 1], es[n])]
           one == ReplaceRange(t, es[1])
           two == IF one = NoResult THEN NoResult ELSE ReplaceRange(one, es[2])
           f == [n \in 0..2 |-> IF n = 0 THEN t ELSE IF n = 1 THEN one ELSE two]
           after == CHOOSE g : Def(g)
<1>1. t # NoResult
  BY DEF EditTextAssumption
<1>2. Def(f)
  <2>1. 0..Len(es) = {0, 1, 2} /\ 0..2 = {0, 1, 2}
    OBVIOUS
  <2>2. f[0] = t /\ f[1] = one /\ f[2] = two /\ DOMAIN f = {0, 1, 2}
    BY <2>1
  <2> HIDE DEF f
  <2> DEFINE Then(n) == CASE n = 0 -> t
                          [] n > 0 /\ f[n - 1] = NoResult -> NoResult
                          [] OTHER -> ReplaceRange(f[n - 1], es[n])
  <2>3. Then(0) = t /\ Then(1) = one /\ Then(2) = two
    BY <1>1, <2>2
  <2>4. f = [n \in {0, 1, 2} |-> f[n]]
    BY <2>2 DEF f
  <2> HIDE DEF Then
  <2>5. f = [n \in 0..Len(es) |-> Then(n)]
    BY <2>1, <2>2, <2>3, <2>4
  <2> QED
    BY <2>5 DEF Then
<1>3. Def(after)
  BY <1>2
<1>4. ReplaceEach(t, es) = after[Len(es)]
  BY DEF ReplaceEach
<1> HIDE DEF after
<1>5. after[0] = t /\ after[1] = one /\ after[2] = two
  <2> DEFINE Then(n) == CASE n = 0 -> t
                          [] n > 0 /\ after[n - 1] = NoResult -> NoResult
                          [] OTHER -> ReplaceRange(after[n - 1], es[n])
  <2>1. after[0] = Then(0) /\ after[1] = Then(1) /\ after[2] = Then(2)
    BY <1>3
  <2>2. after[0] = t
    BY <2>1
  <2>3. after[1] = one
    BY <1>1, <2>1, <2>2
  <2> QED
    BY <2>1, <2>2, <2>3
<1> QED
  BY <1>4, <1>5

(***************************************************************************)
(* The later of two edits is sorted before the other.                      *)
(***************************************************************************)
LEMMA SortedTwo ==
  ASSUME NEW es, DOMAIN es = {1, 2}, Len(es) = 2, NEW i \in {1, 2}, NEW j \in {1, 2}, i # j,
         Later(es[j], es[i]), ~Later(es[i], es[j]),
         ~Later(es[i], es[i]), ~Later(es[j], es[j]), NEW t
  PROVE  \E sorted : /\ apply_edits(t, es) = ReplaceEach(t, sorted) /\ Len(sorted) = 2
                     /\ sorted[1] = es[j] /\ sorted[2] = es[i]
<1> DEFINE Ahead(k) == {l \in DOMAIN es : Later(es[l], es[k]) \/ (l < k /\ ~Later(es[k], es[l]))}
           Rank(k) == Cardinality(Ahead(k)) + 1
           Place(k) == CHOOSE l \in DOMAIN es : Rank(l) = k
           sorted == [k \in DOMAIN es |-> es[Place(k)]]
<1>1. Ahead(j) = {} /\ Ahead(i) = {j}
  OBVIOUS
<1>6. apply_edits(t, es) = ReplaceEach(t, sorted)
  BY DEF apply_edits
<1> HIDE DEF Ahead
<1>2. Rank(j) = 1 /\ Rank(i) = 2
  <2>1. Cardinality({}) = 0 /\ Cardinality({j}) = 1
    BY FS_EmptySet, FS_Singleton
  <2> QED
    BY <1>1, <2>1
<1> HIDE DEF Rank
<1>3. Place(1) = j /\ Place(2) = i
  BY <1>2
<1> HIDE DEF Place
<1>4. sorted[1] = es[j] /\ sorted[2] = es[i]
  BY <1>3
<1>5. Len(sorted) = 2
  <2>1. sorted = [k \in 1..2 |-> es[Place(k)]]
    OBVIOUS
  <2> HIDE DEF sorted
  <2>2. sorted \in Seq({es[1], es[2]}) /\ DOMAIN sorted = 1..2
    <3>1. \A k \in 1..2 : es[Place(k)] \in {es[1], es[2]}
      BY <1>3
    <3> QED
      BY <2>1, <3>1, IsASeq
  <2> QED
    BY <2>2, LenProperties
<1> HIDE DEF sorted
<1> QED
  BY <1>4, <1>5, <1>6

\* An edit of a text, as preview_text_file is given it.
TextEdit == [from : Nat \X Nat, to : Nat \X Nat, text : Seq(STRING)]

(***************************************************************************)
(* A position is a line and a column.                                      *)
(***************************************************************************)
LEMMA Placed ==
  ASSUME NEW p \in Nat \X Nat
  PROVE  \E l \in Nat, c \in Nat : p = <<l, c>>
<1>1. p[1] \in Nat /\ p[2] \in Nat /\ p = <<p[1], p[2]>>
  OBVIOUS
<1> WITNESS p[1] \in Nat, p[2] \in Nat
<1> QED
  BY <1>1

(***************************************************************************)
(* The order of positions, and of edits that do not overlap.               *)
(***************************************************************************)
LEMMA EditOrder ==
  ASSUME NEW a \in TextEdit, NEW b \in TextEdit,
         ~Before(a.to, a.from), ~Before(b.from, a.to), a.from # b.from
  PROVE  ~Before(b.from, a.from) /\ Later(b, a) /\ ~Later(a, b) /\ ~Later(a, a) /\ ~Later(b, b)
<1>1. /\ a.from \in Nat \X Nat /\ a.to \in Nat \X Nat
      /\ b.from \in Nat \X Nat /\ b.to \in Nat \X Nat
  BY DEF TextEdit
<1>2. PICK l1 \in Nat, c1 \in Nat : a.from = <<l1, c1>>
  BY <1>1, Placed
<1>3. PICK l2 \in Nat, c2 \in Nat : a.to = <<l2, c2>>
  BY <1>1, Placed
<1>4. PICK l3 \in Nat, c3 \in Nat : b.from = <<l3, c3>>
  BY <1>1, Placed
<1>5. PICK l4 \in Nat, c4 \in Nat : b.to = <<l4, c4>>
  BY <1>1, Placed
<1>6. l1 # l3 \/ c1 # c3
  BY <1>2, <1>4
<1>7. /\ ~(l2 < l1 \/ (l2 = l1 /\ c2 < c1)) /\ ~(l3 < l2 \/ (l3 = l2 /\ c3 < c2))
  BY <1>2, <1>3, <1>4 DEF Before
<1>8. l1 < l3 \/ (l1 = l3 /\ c1 < c3)
  BY <1>6, <1>7
<1> QED
  BY <1>2, <1>3, <1>4, <1>5, <1>8 DEF Before, Later

(***************************************************************************)
(* The other edit does not notice that the later one came first.           *)
(***************************************************************************)
LEMMA ReplacedTogether ==
  ASSUME EditTextAssumption, NEW t \in Seq(STRING), NEW a \in TextEdit, NEW b \in TextEdit,
         ~Before(a.to, a.from), ~Before(b.to, b.from), ~Before(b.from, a.to),
         a.from # b.from, OnLines(t, b.to),
         ReplaceRange(t, b) # NoResult, ReplaceRange(ReplaceRange(t, b), a) # NoResult
  PROVE  ReplaceRange(ReplaceRange(t, b), a) = Together(t, a, b)
<1>1. /\ a.from \in Nat \X Nat /\ a.to \in Nat \X Nat /\ a.text \in Seq(STRING)
      /\ b.from \in Nat \X Nat /\ b.to \in Nat \X Nat /\ b.text \in Seq(STRING)
  BY DEF TextEdit
<1>2. ~Before(b.from, a.from)
  BY EditOrder
<1>3. PICK r, y, z : /\ r = ReplaceRange(t, b)
                     /\ y = line_col_to_index(t, b.from) /\ z = line_col_to_index(t, b.to)
  OBVIOUS
<1>4. /\ y # NoResult /\ z # NoResult /\ ~(y > z)
      /\ r = SubSeq(t, 1, y) \o b.text \o SubSeq(t, z + 1, Len(t))
  BY <1>3 DEF ReplaceRange
<1>5. /\ y \in 0..Len(t) /\ z \in 0..Len(t) /\ b.from[1] > 0 /\ b.from[2] > 0 /\ Len(t) \in Nat
  <2>1. y \in 0..Len(t) /\ b.from[1] > 0 /\ b.from[2] > 0
    BY <1>1, <1>3, <1>4, IndexInText
  <2>2. z \in 0..Len(t)
    BY <1>1, <1>3, <1>4, IndexInText
  <2> QED
    BY <2>1, <2>2
<1>6. y \in Nat /\ z \in Nat /\ y <= z /\ z <= Len(t) /\ y <= Len(t)
  BY <1>4, <1>5
<1>7. OnLines(t, b.from)
  <2>1. PICK n \in Nat : n = LineCount(t)
    <3>1. LineCount(t) \in Nat
      BY LinesReach
    <3> QED
      BY <3>1
  <2>2. PICK l1 \in Nat, c1 \in Nat : b.from = <<l1, c1>>
    BY <1>1, Placed
  <2>3. PICK l2 \in Nat, c2 \in Nat : b.to = <<l2, c2>>
    BY <1>1, Placed
  <2>4. l1 > 0 /\ c1 > 0 /\ ~(l2 < l1 \/ (l2 = l1 /\ c2 < c1))
    BY <1>5, <2>2, <2>3 DEF Before
  <2>5. l2 <= n \/ (l2 = n + 1 /\ c2 = 1 /\ n = Cardinality(Feeds(t)))
    BY <2>1, <2>3 DEF OnLines
  <2>6. l1 <= n \/ (l1 = n + 1 /\ c1 = 1 /\ n = Cardinality(Feeds(t)))
    BY <2>4, <2>5
  <2> QED
    BY <2>1, <2>2, <2>6 DEF OnLines
<1>8. PICK u, v : u \in Seq(STRING) /\ v \in Seq(STRING) /\ u = a.text /\ v = b.text
  BY <1>1
<1>9. r = Spliced(t, v, y, z)
  BY ONLY <1>4, <1>8 DEF Spliced
<1>10. t \in Seq(STRING) /\ y <= y
  BY <1>6
<1>11. r \in Seq(STRING) /\ y <= Len(r) /\ \A k \in 1..y : r[k] = t[k]
  <2>1. /\ Spliced(t, v, y, z) \in Seq(STRING) /\ y <= Len(Spliced(t, v, y, z))
        /\ \A k \in 1..y : Spliced(t, v, y, z)[k] = t[k]
    BY <1>6, <1>8, <1>10, SplicedOnce
  <2> QED
    BY ONLY <1>9, <2>1
<1>12. PICK w, x : w = line_col_to_index(r, a.from) /\ x = line_col_to_index(r, a.to)
  OBVIOUS
<1>13. /\ w # NoResult /\ x # NoResult /\ ~(w > x)
       /\ ReplaceRange(r, a) = Spliced(r, u, w, x)
  BY <1>3, <1>8, <1>12 DEF ReplaceRange, Spliced
<1>14. SameUpTo(t, r, b.from)
  BY <1>3, <1>6, <1>7, <1>11 DEF SameUpTo
<1>15. line_col_to_index(t, a.from) = w /\ w \in 0..y
  BY <1>1, <1>2, <1>3, <1>11, <1>12, <1>13, <1>14, PositionsKept
<1>16. line_col_to_index(t, a.to) = x /\ x \in 0..y
  BY <1>1, <1>3, <1>11, <1>12, <1>13, <1>14, PositionsKept
<1>17. w \in Nat /\ x \in Nat /\ w <= x /\ x <= y
  BY <1>6, <1>13, <1>15, <1>16
<1>18. Spliced(Spliced(t, v, y, z), u, w, x) = BothSpliced(t, u, v, w, x, y, z)
  BY ONLY <1>6, <1>8, <1>10, <1>17, SplicedTwice, SMTT(30)
<1>19. Together(t, a, b) = BothSpliced(t, u, v, w, x, y, z)
  BY ONLY <1>3, <1>8, <1>15, <1>16 DEF Together, BothSpliced
<1> QED
  BY <1>3, <1>9, <1>13, <1>18, <1>19

(***************************************************************************)
(* Edits that do not overlap are applied as if all at once.                *)
(***************************************************************************)
LEMMA TwoTogether ==
  ASSUME EditTextAssumption, NEW t \in Seq(STRING), NEW es \in EditLists, Len(es) = 2,
         apply_edits(t, es) # NoResult,
         NEW i \in DOMAIN es, NEW j \in DOMAIN es, i # j,
         ~Before(es[i].to, es[i].from), ~Before(es[j].to, es[j].from),
         ~Before(es[j].from, es[i].to), es[i].from # es[j].from, OnLines(t, es[j].to)
  PROVE  apply_edits(t, es) = Together(t, es[i], es[j])
<1>1. DOMAIN es = {1, 2} /\ i \in {1, 2} /\ j \in {1, 2} /\ es[i] \in TextEdit /\ es[j] \in TextEdit
  <2>1. es \in Seq(TextEdit)
    BY DEF EditTextAssumption, TextEdit
  <2>2. DOMAIN es = 1..2 /\ 1..2 = {1, 2}
    BY <2>1
  <2>3. \A k \in DOMAIN es : es[k] \in TextEdit
    <3> TAKE k \in DOMAIN es
    <3>1. k \in 1..Len(es)
      BY <2>1
    <3> QED
      BY ONLY <2>1, <3>1, ElementOfSeq
  <2>4. es[i] \in TextEdit /\ es[j] \in TextEdit
    BY ONLY <2>3, i \in DOMAIN es, j \in DOMAIN es
  <2> QED
    BY ONLY <2>2, <2>4, i \in DOMAIN es, j \in DOMAIN es
<1>2. Later(es[j], es[i]) /\ ~Later(es[i], es[j]) /\ ~Later(es[i], es[i]) /\ ~Later(es[j], es[j])
  BY <1>1, EditOrder
<1>3. PICK sorted : /\ apply_edits(t, es) = ReplaceEach(t, sorted) /\ Len(sorted) = 2
                    /\ sorted[1] = es[j] /\ sorted[2] = es[i]
  <2>1. i # j /\ Len(es) = 2
    OBVIOUS
  <2> QED
    BY ONLY <1>1, <1>2, <2>1, SortedTwo
<1>4. /\ ReplaceRange(t, es[j]) # NoResult
      /\ apply_edits(t, es) = ReplaceRange(ReplaceRange(t, es[j]), es[i])
  BY <1>3, ReplaceTwo
<1> QED
  BY <1>1, <1>4, ReplacedTogether

\* A proposal by edits is what they make of the old text.
EditIInv ==
  /\ edit = NoResult => file \in BaseTexts
  /\ edit # NoResult =>
        edit.edits = <<>> \/ (/\ edit.edits \in EditLists /\ edit.old \in BaseTexts
                              /\ edit.new = apply_edits(edit.old, edit.edits)
                              /\ edit.new # NoResult)

(***************************************************************************)
(* Edits that do not overlap and that lie on the text's lines are applied  *)
(* as if all at once, to the text as it was, however they are listed       *)
(* (edit.rs, apply_edits, which applies them one after another and each in *)
(* the text the others left): the later range is replaced first, and what  *)
(* the earlier one's line and column mean does not change with what comes  *)
(* after it.                                                               *)
(***************************************************************************)
THEOREM EditsAlwaysTogether ==
  ASSUME EditTextAssumption
  PROVE  EditSpec => []EditsApplyTogether
<1>1. EditInit => EditIInv
  BY DEF EditInit, EditIInv
<1>2. EditIInv /\ [EditNext]_editVars => EditIInv'
  <2> SUFFICES ASSUME EditIInv, [EditNext]_editVars PROVE EditIInv'
    OBVIOUS
  <2>1. CASE ProposeReplacement
    <3>1. PICK source, new : ProposeText(source, new)
      BY <2>1 DEF ProposeReplacement
    <3>2. edit'.edits = <<>> /\ edit = NoResult /\ file' = file
      BY <3>1 DEF ProposeText
    <3> QED
      BY <3>2 DEF EditIInv
  <2>2. CASE ProposeEdits
    <3>1. PICK edits \in EditLists :
             /\ edit = NoResult /\ apply_edits(file, edits) # NoResult /\ file' = file
             /\ edit'.edits = edits /\ edit'.old = file /\ edit'.new = apply_edits(file, edits)
      BY <2>2 DEF ProposeEdits
    <3> QED
      BY <3>1 DEF EditIInv
  <2>3. CASE UNCHANGED edit /\ (edit # NoResult \/ UNCHANGED file)
    BY <2>3 DEF EditIInv
  <2> QED
    BY <2>1, <2>2, <2>3 DEF EditNext, editVars, ReviewChange, AcceptReviewed, RejectReviewed
<1>3. EditIInv => EditsApplyTogether
  <2> SUFFICES ASSUME EditIInv, edit # NoResult,
                      NEW i \in DOMAIN edit.edits, NEW j \in DOMAIN edit.edits,
                      Len(edit.edits) = 2, i # j,
                      ~Before(edit.edits[i].to, edit.edits[i].from),
                      ~Before(edit.edits[j].to, edit.edits[j].from),
                      ~Before(edit.edits[j].from, edit.edits[i].to),
                      edit.edits[i].from # edit.edits[j].from,
                      OnLines(edit.old, edit.edits[j].to)
               PROVE  edit.new = Together(edit.old, edit.edits[i], edit.edits[j])
    BY DEF EditsApplyTogether
  <2>1. edit.edits # <<>>
    OBVIOUS
  <2>2. PICK t \in BaseTexts, es \in EditLists :
           /\ t = edit.old /\ es = edit.edits
           /\ edit.new = apply_edits(t, es) /\ edit.new # NoResult
    BY <2>1 DEF EditIInv
  <2>3. t \in Seq(STRING)
    BY DEF EditTextAssumption
  <2>4. /\ Len(es) = 2 /\ i \in DOMAIN es /\ j \in DOMAIN es /\ apply_edits(t, es) # NoResult
        /\ ~Before(es[i].to, es[i].from) /\ ~Before(es[j].to, es[j].from)
        /\ ~Before(es[j].from, es[i].to) /\ es[i].from # es[j].from /\ OnLines(t, es[j].to)
    BY <2>2
  <2>5. apply_edits(t, es) = Together(t, es[i], es[j])
    BY <2>3, <2>4, TwoTogether
  <2> QED
    BY <2>2, <2>5
<1> QED
  BY <1>1, <1>2, <1>3, PTL DEF EditSpec
=============================================================================
