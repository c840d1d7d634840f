------------------------- MODULE SettingsPageProofs -------------------------
(***************************************************************************)
(* Proofs about SettingsPage and the LlmSettings it saves to, for any      *)
(* vendors, models, keys and number of overlapping saves.  The invariant   *)
(* has two halves: what is stored and about to be (StoreInv), and what the *)
(* page shows (PageInv), from which it builds what it sends.  Two more are *)
(* built on it, of the save the page waits for (SaveInv) and of the tests  *)
(* it has sent (TestInv).                                                  *)
(***************************************************************************)
EXTENDS SettingsPage, FiniteSetTheorems, TLAPS

StoreTypeOK ==
    /\ rows \in [Providers -> Row \cup {None}]
    /\ default \in Providers \cup {None}
    /\ exaKey \in Keys \cup {None}
    /\ save \in [Saves -> Save]

(* Whatever tab it comes from, a save passed the page's checks.            *)
SavesAreSendable == \A w \in Saves : save[w].at # "idle" => save[w].body \in Sendable

(* The lock of the exa row lets one save at a time go past its first write.*)
OneWriter ==
    \A v, w \in Saves : save[v].at = "written" /\ save[w].at = "written" => v = w

(* What a save has written is still true of the rows it read.              *)
WrittenIsCurrent ==
    \A w \in Saves : save[w].at = "written" =>
        LET s == save[w]
            p == save[w].body.provider
        IN  /\ s.gone = Present(rows) \ {p}
            /\ p = None => s.row = None
            /\ p # None => /\ s.row \in Row
                           /\ SavedRow(p, s.row)
                           /\ s.row.model = s.body.model
                           /\ s.row.endpoint = s.body.endpoint
                           /\ s.row.key = Applied(s.body.llmKey, StoredKey(p))

(* The one row is that of the default provider.                            *)
DefaultIsPresent == Present(rows) = {default} \ {None}

StoreInv ==
    /\ StoreTypeOK
    /\ SavesAreSendable
    /\ OneWriter
    /\ WrittenIsCurrent
    /\ DefaultIsPresent
    /\ RowsAreServable

(* The draft has an endpoint for the custom provider only.                 *)
DraftOK ==
    /\ draft \in [provider : Providers \cup {None}, pick : Names \cup {None, Other},
                  other : Names \cup {None}, endpoint : Endpoints \cup {None}]
    /\ draft.endpoint # None => draft.provider = "custom"

FormOK ==
    /\ DraftOK
    /\ typed \in [Fields -> Keys \cup {None}]
    /\ clear \subseteq Fields

(* The settings an answer carries can be shown.                            *)
Showable(s) ==
    /\ s.provider \in Providers \cup {None}
    /\ s.model \in Names \cup {None}
    /\ s.endpoint \in Endpoints \cup {None}
AnswerOK == answer \notin {None, Refused} => Showable(answer.settings)

RestOK ==
    /\ view \in {"loading", "failed", "ready"}
    /\ mine \in Saves \cup {None}
    /\ status \in [Fields -> {"idle", "loading", "ok", "failed"}]

PageInv == FormOK /\ AnswerOK /\ RestOK
IInv == StoreInv /\ PageInv /\ sure \subseteq Fields

-----------------------------------------------------------------------------
(* The store                                                               *)

(* A key that is asked for, kept or cleared is a key or none.              *)
LEMMA AppliedType ==
    ASSUME NEW request \in Request, NEW old \in Keys \cup {None}
    PROVE  /\ Applied(request, old) \in Keys \cup {None}
           /\ Applied("keep", old) = old
           /\ request # "keep" => Applied(request, old) = Applied(request, None)
BY KeywordsAssumption DEF Applied, Request

LEMMA StoredKeyType ==
    ASSUME StoreTypeOK, NEW p
    PROVE  p \in Providers \cup {None} => StoredKey(p) \in Keys \cup {None}
BY NoneAssumption DEF StoreTypeOK, StoredKey, Row

LEMMA InitStore == SettingsInit => StoreInv
<1> SUFFICES ASSUME SettingsInit PROVE StoreInv
  OBVIOUS
<1> USE NoneAssumption, RowAssumption
<1>1. NoSave \in Save
  BY DEF NoSave, NoBody, Save, Body, Request
<1>2. StoreTypeOK
  BY <1>1 DEF SettingsInit, StoreTypeOK
<1>3. \A w \in Saves : save[w].at = "idle"
  BY DEF SettingsInit, NoSave
<1>4. SavesAreSendable /\ OneWriter /\ WrittenIsCurrent
  BY <1>3 DEF SavesAreSendable, OneWriter, WrittenIsCurrent
<1>5. DefaultIsPresent /\ RowsAreServable
  BY DEF SettingsInit, DefaultIsPresent, RowsAreServable, Present
<1> QED BY <1>2, <1>4, <1>5 DEF StoreInv

LEMMA OpenStore ==
    ASSUME StoreInv, NEW w \in Saves, NEW body \in Sendable, Open(w, body)
    PROVE  StoreInv'
<1> USE DEF StoreInv
<1>1. /\ save' = [save EXCEPT ![w] = save'[w]]
      /\ save'[w].at = "open" /\ save'[w].body = body
      /\ save'[w] \in Save
      /\ UNCHANGED stored
  BY DEF Open, StoreTypeOK, Save, Sendable
<1>2. StoreTypeOK'
  BY <1>1 DEF StoreTypeOK, stored
<1>3. SavesAreSendable'
  BY <1>1 DEF SavesAreSendable, StoreTypeOK
<1>4. \A v \in Saves : save'[v].at = "written" => save'[v] = save[v]
  BY <1>1 DEF StoreTypeOK
<1>5. OneWriter'
  BY <1>4 DEF OneWriter
<1>6. WrittenIsCurrent'
  BY <1>1, <1>4 DEF WrittenIsCurrent, stored, StoredKey, Present
<1>7. DefaultIsPresent' /\ RowsAreServable'
  BY <1>1 DEF stored, DefaultIsPresent, RowsAreServable, Present
<1> QED BY <1>2, <1>3, <1>5, <1>6, <1>7

LEMMA WriteStore ==
    ASSUME StoreInv, NEW w \in Saves, Write(w)
    PROVE  StoreInv'
<1> USE DEF StoreInv
<1> DEFINE body == save[w].body
           p == save[w].body.provider
           s == save'[w]
           old == IF p = None THEN None ELSE rows[p]
           key == Applied(body.llmKey, IF old = None THEN None ELSE old.key)
<1>1. /\ body \in Sendable /\ p \in Providers \cup {None}
      /\ body.llmKey \in Request
      /\ p # None => body.model \in Names
      /\ body.endpoint \in Endpoints \cup {None}
  BY DEF Write, SavesAreSendable, Sendable, Body
<1>2. key = Applied(body.llmKey, StoredKey(p)) /\ key \in Keys \cup {None}
  BY <1>1, AppliedType, StoredKeyType DEF StoredKey
<1>3. /\ save' = [save EXCEPT ![w] = s]
      /\ s.at = "written" /\ s.body = body /\ s.seen = save[w].seen
      /\ s.gone = Present(rows) \ {p}
      /\ s.row = IF p = None THEN None
                 ELSE [model |-> body.model, endpoint |-> body.endpoint, key |-> key]
      /\ UNCHANGED stored
  BY DEF Write, StoreTypeOK, Save
<1>4. p # None => s.row \in Row /\ SavedRow(p, s.row)
  BY <1>1, <1>2, <1>3 DEF Row, SavedRow, Sendable
<1>5. s \in Save
  <2>1. s = [save[w] EXCEPT !.at = "written", !.row = s.row, !.gone = s.gone]
    BY DEF Write, StoreTypeOK, Save
  <2>2. save[w] \in Save
    BY DEF StoreTypeOK
  <2>3. s.row \in Row \cup {None} /\ s.gone \in SUBSET Providers
    BY <1>3, <1>4 DEF Present
  <2> QED BY <2>1, <2>2, <2>3 DEF Save
<1>6. StoreTypeOK'
  BY <1>3, <1>5 DEF StoreTypeOK, stored
<1>7. SavesAreSendable'
  BY <1>1, <1>3 DEF SavesAreSendable, StoreTypeOK
<1>8. \A v \in Saves : v # w => save'[v] = save[v] /\ save[v].at # "written"
  BY <1>3 DEF Write, Locked, StoreTypeOK
<1>9. OneWriter'
  BY <1>8 DEF OneWriter
<1>10. WrittenIsCurrent'
  BY <1>2, <1>3, <1>4, <1>8 DEF WrittenIsCurrent, stored, StoredKey, Present
<1>11. DefaultIsPresent' /\ RowsAreServable'
  BY <1>3 DEF stored, DefaultIsPresent, RowsAreServable, Present
<1> QED BY <1>6, <1>7, <1>9, <1>10, <1>11

(* What a commit leaves of the rows.                                       *)
LEMMA CommittedRows ==
    ASSUME StoreInv, NEW w \in Saves, Commit(w)
    PROVE  /\ default' = save[w].body.provider
           /\ \A p \in Providers :
                rows'[p] = IF p = save[w].body.provider THEN save[w].row ELSE None
<1>1. /\ rows' = [p \in Providers |-> IF p = save[w].body.provider THEN save[w].row
                                      ELSE IF p \in save[w].gone THEN None ELSE rows[p]]
      /\ default' = save[w].body.provider
      /\ save[w].at = "written"
  BY DEF Commit
<1>2. \A p \in Providers : p \notin save[w].gone /\ p # save[w].body.provider => rows[p] = None
  BY <1>1 DEF StoreInv, WrittenIsCurrent, Present
<1> QED BY <1>1, <1>2

LEMMA Released ==
    ASSUME StoreInv, NEW w \in Saves, save' = [save EXCEPT ![w] = NoSave]
    PROVE  /\ save' \in [Saves -> Save]
           /\ SavesAreSendable' /\ OneWriter'
           /\ save[w].at = "written" => \A v \in Saves : save'[v].at # "written"
<1>1. NoSave \in Save /\ NoSave.at = "idle"
  BY DEF NoSave, NoBody, Save, Body, Request
<1>2. \A v \in Saves : save'[v] = IF v = w THEN NoSave ELSE save[v]
  BY DEF StoreInv, StoreTypeOK
<1> QED BY <1>1, <1>2 DEF StoreInv, StoreTypeOK, SavesAreSendable, OneWriter

LEMMA CommitStore ==
    ASSUME StoreInv, NEW w \in Saves, Commit(w)
    PROVE  StoreInv'
<1> USE NoneAssumption, RowAssumption DEF StoreInv
<1> DEFINE p == save[w].body.provider
<1>1. save[w].at = "written" /\ save' = [save EXCEPT ![w] = NoSave]
  BY DEF Commit
<1>2. /\ p \in Providers \cup {None}
      /\ save[w].body.exaKey \in Request /\ save[w].seen \in Keys \cup {None}
  BY DEF StoreTypeOK, Save, Body
<1>3. (p = None => save[w].row = None) /\ (p # None => save[w].row \in Row /\ SavedRow(p, save[w].row))
  BY <1>1 DEF WrittenIsCurrent
<1>4. exaKey' \in Keys \cup {None}
  BY <1>2, AppliedType DEF Commit
<1>5. rows' \in [Providers -> Row \cup {None}]
  <2>1. rows' = [q \in Providers |-> rows'[q]]
    BY DEF Commit
  <2> QED BY <2>1, <1>2, <1>3, CommittedRows
<1>6. StoreTypeOK'
  BY <1>1, <1>2, <1>4, <1>5, Released, CommittedRows DEF StoreTypeOK
<1>7. SavesAreSendable' /\ OneWriter' /\ WrittenIsCurrent'
  BY <1>1, Released DEF WrittenIsCurrent
<1>8. DefaultIsPresent' /\ RowsAreServable'
  BY <1>2, <1>3, CommittedRows DEF DefaultIsPresent, RowsAreServable, Present
<1> QED BY <1>6, <1>7, <1>8

LEMMA AbortStore ==
    ASSUME StoreInv, NEW w \in Saves, Abort(w)
    PROVE  StoreInv'
<1> USE DEF StoreInv
<1>1. save' = [save EXCEPT ![w] = NoSave] /\ UNCHANGED stored
  BY DEF Abort
<1>2. StoreTypeOK' /\ SavesAreSendable' /\ OneWriter'
  BY <1>1, Released DEF StoreTypeOK, stored
<1>3. \A v \in Saves : save'[v].at = "written" => save'[v] = save[v]
  BY <1>1 DEF StoreTypeOK, NoSave
<1>4. WrittenIsCurrent'
  BY <1>1, <1>3 DEF WrittenIsCurrent, stored, StoredKey, Present
<1>5. DefaultIsPresent' /\ RowsAreServable'
  BY <1>1 DEF stored, DefaultIsPresent, RowsAreServable, Present
<1> QED BY <1>2, <1>4, <1>5

LEMMA IdleStore ==
    ASSUME StoreInv, UNCHANGED <<stored, save>>
    PROVE  StoreInv'
BY DEF StoreInv, StoreTypeOK, SavesAreSendable, OneWriter, WrittenIsCurrent,
       DefaultIsPresent, RowsAreServable, stored, StoredKey, Present

-----------------------------------------------------------------------------
(* The page                                                                *)

(* What readSettings finds can be shown.                                   *)
LEMMA ShownType == StoreTypeOK => \A p \in ServicePicks : Showable(Shown(p))
<1> SUFFICES ASSUME StoreTypeOK, NEW p \in ServicePicks PROVE Showable(Shown(p))
  OBVIOUS
<1>1. p \in Present(rows) \cup {None}
  BY DEF ServicePicks
<1>2. Present(rows) \subseteq Providers
  BY DEF Present
<1>3. \A q \in Present(rows) : rows[q] \in Row
  BY DEF Present, StoreTypeOK
<1>4. p \notin Present(rows) => p = None
  BY <1>1
<1> QED BY <1>1, <1>2, <1>3, NoneAssumption DEF Shown, Showable, Row

LEMMA ShownNextType == (StoreTypeOK => \A p \in ServicePicks : Showable(Shown(p)))'
BY ShownType, PTL

LEMMA ModelType == DraftOK => Model(draft) \in Names \cup {None}
BY DEF DraftOK, Model

LEMMA ShowForm ==
    ASSUME NEW s, Showable(s), Show(s)
    PROVE  FormOK'
BY DEF Showable, Show, FormOK, DraftOK, BuildDraft, Fields

(* Everything the page sends has passed its checks.                        *)
LEMMA BodyIsSendable ==
    ASSUME FormOK, Complete, draft.provider = None \/ Model(draft) # None
    PROVE  BodyOf \in Sendable
<1>1. \A f \in Fields : RequestOf(f) \in Request
  BY DEF RequestOf, Request, FormOK
<1>2. BodyOf \in Body
  BY <1>1, ModelType DEF BodyOf, Body, FormOK, DraftOK, Fields, Request
<1> QED BY <1>2 DEF BodyOf, Sendable, SavedRow, Complete, FormOK, DraftOK

LEMMA InitInvariant == Init => IInv
<1> SUFFICES ASSUME Init PROVE IInv
  OBVIOUS
<1>1. StoreInv
  BY InitStore DEF Init
<1>2. PageInv
  BY DEF Init, PageInv, FormOK, DraftOK, Blank, AnswerOK, RestOK, Fields
<1> QED BY <1>1, <1>2 DEF Init, IInv

(* An edit leaves a form that can be sent or refused.                      *)
LEMMA FormStep ==
    ASSUME FormOK, Form
    PROVE  FormOK' /\ UNCHANGED <<stored, save, view, saving, testing>>
<1> USE DEF FormOK, DraftOK
<1>1. ASSUME NEW p \in Providers \cup {None}, ChooseProvider(p)
      PROVE  FormOK' /\ UNCHANGED <<stored, save, view, saving, testing>>
  BY <1>1 DEF ChooseProvider, Edit
<1>2. ASSUME NEW m \in Names \cup {Other}, ChooseModel(m)
      PROVE  FormOK' /\ UNCHANGED <<stored, save, view, saving, testing>>
  BY <1>2 DEF ChooseModel, Edit
<1>3. ASSUME NEW m \in Names \cup {None}, TypeModel(m)
      PROVE  FormOK' /\ UNCHANGED <<stored, save, view, saving, testing>>
  BY <1>3 DEF TypeModel, Edit
<1>4. ASSUME NEW e \in Endpoints \cup {None}, TypeEndpoint(e)
      PROVE  FormOK' /\ UNCHANGED <<stored, save, view, saving, testing>>
  BY <1>4 DEF TypeEndpoint, Edit
<1>5. ASSUME NEW f \in Fields, NEW k \in Keys \cup {None}, TypeKey(f, k)
      PROVE  FormOK' /\ UNCHANGED <<stored, save, view, saving, testing>>
  BY <1>5 DEF TypeKey, Edit
<1>6. ASSUME NEW f \in Fields, ClearKey(f)
      PROVE  FormOK' /\ UNCHANGED <<stored, save, view, saving, testing>>
  BY <1>6 DEF ClearKey, Edit
<1> QED BY <1>1, <1>2, <1>3, <1>4, <1>5, <1>6 DEF Form

(* The store only changes by the saves.                                    *)
LEMMA NextStore == IInv /\ [Next]_vars => StoreInv'
<1> SUFFICES ASSUME IInv, [Next]_vars PROVE StoreInv'
  OBVIOUS
<1> USE DEF IInv, PageInv
<1>1. CASE SaveSettings
  <2>1. CASE draft.provider = None \/ Model(draft) # None
    <3>1. BodyOf \in Sendable
      BY <1>1, <2>1, BodyIsSendable DEF SaveSettings
    <3>2. \E w \in Saves : Open(w, BodyOf)
      BY <1>1, <2>1 DEF SaveSettings
    <3> QED BY <3>1, <3>2, OpenStore
  <2>2. CASE ~(draft.provider = None \/ Model(draft) # None)
    BY <1>1, <2>2, IdleStore DEF SaveSettings
  <2> QED BY <1>1, <2>1, <2>2 DEF SaveSettings
<1>2. CASE SaveElsewhere
  BY <1>2, ElsewhereAssumption, OpenStore DEF SaveElsewhere
<1>3. ASSUME NEW w \in Saves, ServeSave(w) PROVE StoreInv'
  BY <1>3, WriteStore DEF ServeSave
<1>4. ASSUME NEW w \in Saves, EndSave(w) PROVE StoreInv'
  BY <1>4, CommitStore, AbortStore DEF EndSave
<1>5. CASE Form
  BY <1>5, FormStep, IdleStore
<1>6. CASE \/ Load \/ EndSaving
           \/ \E f \in Fields : TestConnection(f)
           \/ \E t \in Tests : ServeTest(t) \/ ShowResult(t)
           \/ UNCHANGED vars
  <2>1. CASE Load \/ EndSaving
    BY <2>1, IdleStore DEF Load, EndSaving
  <2>2. ASSUME NEW f \in Fields, TestConnection(f) PROVE StoreInv'
    BY <2>2, IdleStore DEF TestConnection
  <2>3. ASSUME NEW t \in Tests, ServeTest(t) PROVE StoreInv'
    BY <2>3, IdleStore DEF ServeTest
  <2>4. ASSUME NEW t \in Tests, ShowResult(t) PROVE StoreInv'
    BY <2>4, IdleStore DEF ShowResult
  <2>5. CASE UNCHANGED vars
    BY <2>5, IdleStore DEF vars
  <2> QED BY <1>6, <2>1, <2>2, <2>3, <2>4, <2>5
<1> QED BY <1>1, <1>2, <1>3, <1>4, <1>5, <1>6 DEF Next

LEMMA NextPage == IInv /\ [Next]_vars => PageInv'
<1> SUFFICES ASSUME IInv, [Next]_vars PROVE PageInv'
  OBVIOUS
<1>0. FormOK /\ AnswerOK /\ RestOK /\ StoreTypeOK /\ StoreTypeOK'
  BY NextStore DEF IInv, PageInv, StoreInv
<1>a. ASSUME UNCHANGED form PROVE FormOK'
  BY <1>0, <1>a DEF form, FormOK, DraftOK
<1>b. ASSUME UNCHANGED answer \/ answer' \in {None, Refused} PROVE AnswerOK'
  BY <1>0, <1>b DEF AnswerOK, Showable
<1>1. CASE Load
  <2>1. FormOK'
    <3>1. CASE \E p \in ServicePicks : Show(Shown(p))
      BY <1>0, <3>1, ShownType, ShowForm
    <3>2. CASE UNCHANGED form
      BY <3>2, <1>a
    <3> QED BY <1>1, <3>1, <3>2 DEF Load
  <2>2. RestOK'
    BY <1>0, <1>1 DEF Load, RestOK, saving, testing
  <2> QED BY <1>1, <1>b, <2>1, <2>2 DEF Load, PageInv, saving
<1>2. CASE Form
  BY <1>0, <1>2, <1>b, FormStep DEF PageInv, RestOK, saving, testing
<1>3. CASE SaveSettings
  <2>1. RestOK'
    BY <1>0, <1>3 DEF SaveSettings, RestOK, testing
  <2> QED BY <1>3, <1>a, <1>b, <2>1 DEF SaveSettings, PageInv
<1>4. CASE SaveElsewhere
  BY <1>0, <1>4, <1>a, <1>b DEF SaveElsewhere, PageInv, RestOK, testing
<1>5. ASSUME NEW w \in Saves, ServeSave(w) PROVE PageInv'
  BY <1>0, <1>5, <1>a, <1>b DEF ServeSave, PageInv, RestOK, page, saving, testing
<1>6. ASSUME NEW w \in Saves, EndSave(w) PROVE PageInv'
  <2>1. AnswerOK'
    <3>1. ASSUME NEW p, p \in ServicePicks', answer' = [ok |-> TRUE, settings |-> Shown(p)']
          PROVE  AnswerOK'
      <4>1. Showable(Shown(p))'
        BY <1>0, <3>1, ShownNextType
      <4> QED BY <3>1, <4>1 DEF AnswerOK
    <3> QED BY <1>6, <1>b, <3>1 DEF EndSave
  <2>2. RestOK'
    BY <1>0, <1>6 DEF EndSave, RestOK, testing
  <2> QED BY <1>6, <1>a, <2>1, <2>2 DEF EndSave, PageInv
<1>7. CASE EndSaving
  <2>1. FormOK'
    BY <1>0, <1>7, <1>a, ShowForm DEF EndSaving, AnswerOK
  <2>2. RestOK'
    BY <1>0, <1>7 DEF EndSaving, RestOK, testing
  <2> QED BY <1>7, <1>b, <2>1, <2>2 DEF EndSaving, PageInv
<1>8. ASSUME NEW f \in Fields, TestConnection(f) PROVE PageInv'
  BY <1>0, <1>8, <1>a, <1>b DEF TestConnection, PageInv, RestOK, saving
<1>9. ASSUME NEW t \in Tests, ServeTest(t) PROVE PageInv'
  BY <1>0, <1>9, <1>a, <1>b DEF ServeTest, PageInv, RestOK, saving
<1>10. ASSUME NEW t \in Tests, ShowResult(t) PROVE PageInv'
  BY <1>0, <1>10, <1>a, <1>b DEF ShowResult, PageInv, RestOK, saving
<1>11. CASE UNCHANGED vars
  BY <1>0, <1>11, <1>a, <1>b DEF vars, page, PageInv, RestOK, saving, testing
<1> QED BY <1>1, <1>2, <1>3, <1>4, <1>5, <1>6, <1>7, <1>8, <1>9, <1>10, <1>11 DEF Next

LEMMA NextInvariant == IInv /\ [Next]_vars => IInv'
<1>1. IInv /\ [Next]_vars => sure' \subseteq Fields
  BY DEF IInv, Next, Watch, Started, Lasting, vars, page
<1> QED BY <1>1, NextStore, NextPage DEF IInv

LEMMA Invariance == Spec => []IInv
BY InitInvariant, NextInvariant, PTL DEF Spec

-----------------------------------------------------------------------------
(* Every variable of the page and of the store keeps its type.             *)
THEOREM TypeCorrect == Spec => []TypeOK
<1>1. IInv => TypeOK
  BY ModelType DEF IInv, StoreInv, StoreTypeOK, PageInv, FormOK, DraftOK, RestOK, TypeOK
<1> QED BY <1>1, Invariance, PTL

(* However saves overlap, abort or lose their answers, readSettings and    *)
(* getLlmConfig agree on the tenant's LLM.                                 *)
THEOREM OneDefault == Spec => []ReadersAgree
<1>1. IInv => ReadersAgree
  BY NoneAssumption DEF IInv, StoreInv, StoreTypeOK, DefaultIsPresent, ReadersAgree,
                        ServicePicks, ResolverPicks
<1> QED BY <1>1, Invariance, PTL

(* No save of the page leaves a row createLlmAdapter would throw on.       *)
THEOREM AlwaysServable == Spec => []RowsAreServable
<1>1. IInv => RowsAreServable
  BY DEF IInv, StoreInv
<1> QED BY <1>1, Invariance, PTL

(* A vendor's row holds the key it had or one that was sent for it, and is *)
(* deleted only by a save that names another vendor or none.               *)
THEOREM KeysOnPurpose == Spec => LlmKeyOnPurpose
<1>1. IInv /\ [Next]_vars => [KeyOnPurpose]_vars
  <2> SUFFICES ASSUME IInv, Next PROVE KeyOnPurpose
    BY DEF vars
  <2> USE DEF IInv, StoreInv
  <2>1. CASE \E w \in Saves : Commit(w)
    <3> PICK w \in Saves : Commit(w)
      BY <2>1
    <3>1. save[w].at = "written"
      BY DEF Commit
    <3>2. ASSUME NEW p \in Providers, rows'[p] # None, rows'[p] # rows[p]
          PROVE  /\ save[w].body.provider = p
                 /\ \/ rows'[p].key = StoredKey(p)
                    \/ /\ save[w].body.llmKey # "keep"
                       /\ rows'[p].key = Applied(save[w].body.llmKey, None)
      <4>1. p = save[w].body.provider /\ rows'[p] = save[w].row
        BY <3>2, CommittedRows DEF Commit
      <4>2. save[w].row.key = Applied(save[w].body.llmKey, StoredKey(p))
        BY <3>1, <3>2, <4>1, NoneAssumption DEF WrittenIsCurrent
      <4>3. save[w].body.llmKey \in Request /\ StoredKey(p) \in Keys \cup {None}
        BY StoredKeyType DEF StoreTypeOK, Save, Body
      <4> QED BY <4>1, <4>2, <4>3, AppliedType
    <3>3. ASSUME NEW p \in Providers, rows'[p] = None, rows'[p] # rows[p]
          PROVE  save[w].body.provider # p
      <4>1. CASE save[w].body.provider = p
        <5>1. save[w].row \in Row /\ rows'[p] = save[w].row
          BY <3>1, <4>1, NoneAssumption DEF Commit, WrittenIsCurrent
        <5> QED BY <3>3, <5>1, RowAssumption
      <4> QED BY <4>1
    <3> QED BY <3>1, <3>2, <3>3 DEF KeyOnPurpose
  <2>2. CASE ~\E w \in Saves : Commit(w)
    <3>1. ASSUME Load \/ EndSaving PROVE rows' = rows
      BY <3>1 DEF Load, EndSaving, stored
    <3>2. ASSUME SaveSettings PROVE rows' = rows
      <4>1. UNCHANGED stored
        BY <3>2 DEF SaveSettings
      <4> QED BY <4>1 DEF stored
    <3>3. ASSUME SaveElsewhere PROVE rows' = rows
      <4>1. \E w \in Saves, body \in Elsewhere : Open(w, body)
        BY <3>3 DEF SaveElsewhere
      <4> QED BY <4>1 DEF Open, stored
    <3>4. ASSUME Form PROVE rows' = rows
      BY <3>4, FormStep DEF PageInv, stored
    <3>5. ASSUME NEW w \in Saves, ServeSave(w) PROVE rows' = rows
      BY <3>5 DEF ServeSave, Write, stored
    <3>6. ASSUME NEW w \in Saves, EndSave(w) PROVE rows' = rows
      BY <2>2, <3>6 DEF EndSave, Abort, stored
    <3>7. ASSUME NEW f \in Fields, TestConnection(f) PROVE rows' = rows
      BY <3>7 DEF TestConnection, stored
    <3>8. ASSUME NEW t \in Tests, ServeTest(t) \/ ShowResult(t) PROVE rows' = rows
      BY <3>8 DEF ServeTest, ShowResult, stored
    <3>9. rows' = rows
      BY <3>1, <3>2, <3>3, <3>4, <3>5, <3>6, <3>7, <3>8 DEF Next
    <3> QED BY <3>9 DEF KeyOnPurpose
  <2> QED BY <2>1, <2>2
<1> QED BY <1>1, Invariance, PTL DEF Spec, LlmKeyOnPurpose

-----------------------------------------------------------------------------
(* What a save does                                                        *)

(* What the save would leave of what is stored now.                        *)
Asked(body) ==
    [llm |-> IF body.provider = None THEN None
             ELSE [provider |-> body.provider, model |-> body.model,
                   endpoint |-> body.endpoint,
                   key |-> Applied(body.llmKey, StoredKey(body.provider))],
     exa |-> Applied(body.exaKey, exaKey)]

(* No key is typed and to be cleared at once.                              *)
TypedOrCleared == \A f \in Fields : typed[f] # None => f \notin clear

(* The save the page waits for. While it is alone, its body says of what   *)
(* is stored what the page showed, and the Exa key it read is the one      *)
(* stored.                                                                 *)
SaveInv ==
    /\ mine # None => save[mine].at # "idle"
    /\ alone /\ Saving => \A w \in Saves : w # mine => save[w] = NoSave
    /\ alone /\ mine # None =>
         save[mine].seen = exaKey /\ asked = Asked(save[mine].body)
    /\ SavedAsShown

LEMMA InitTyped == Init => TypedOrCleared
BY DEF Init, TypedOrCleared

LEMMA NextTyped == IInv /\ TypedOrCleared /\ [Next]_vars => TypedOrCleared'
<1> SUFFICES ASSUME IInv, TypedOrCleared, [Next]_vars PROVE TypedOrCleared'
  OBVIOUS
<1>1. ASSUME UNCHANGED <<typed, clear>> PROVE TypedOrCleared'
  BY <1>1 DEF TypedOrCleared
<1>2. ASSUME NEW s, Show(s) PROVE TypedOrCleared'
  BY <1>2 DEF Show, TypedOrCleared
<1>3. ASSUME Form PROVE TypedOrCleared'
  <2>1. ASSUME NEW f \in Fields, NEW k \in Keys \cup {None}, TypeKey(f, k) PROVE TypedOrCleared'
    BY <2>1 DEF TypeKey, TypedOrCleared, IInv, PageInv, FormOK
  <2>2. ASSUME NEW f \in Fields, ClearKey(f) PROVE TypedOrCleared'
    BY <2>2 DEF ClearKey, TypedOrCleared, IInv, PageInv, FormOK
  <2>3. ASSUME NEW p, ChooseProvider(p) PROVE UNCHANGED <<typed, clear>>
    BY <2>3 DEF ChooseProvider
  <2>4. ASSUME NEW m, ChooseModel(m) \/ TypeModel(m) \/ TypeEndpoint(m)
        PROVE  UNCHANGED <<typed, clear>>
    BY <2>4 DEF ChooseModel, TypeModel, TypeEndpoint
  <2> QED BY <1>1, <1>3, <2>1, <2>2, <2>3, <2>4 DEF Form
<1>4. CASE Load \/ EndSaving
  BY <1>1, <1>2, <1>4 DEF Load, EndSaving, form
<1>5. ASSUME SaveSettings \/ SaveElsewhere PROVE UNCHANGED form
  BY <1>5 DEF SaveSettings, SaveElsewhere
<1>6. ASSUME NEW w \in Saves, ServeSave(w) \/ EndSave(w) PROVE UNCHANGED form
  BY <1>6 DEF ServeSave, EndSave, page
<1>7. ASSUME NEW f \in Fields, TestConnection(f) PROVE UNCHANGED form
  BY <1>7 DEF TestConnection
<1>8. ASSUME NEW t \in Tests, ServeTest(t) \/ ShowResult(t) PROVE UNCHANGED form
  BY <1>8 DEF ServeTest, ShowResult
<1>9. CASE UNCHANGED vars
  BY <1>1, <1>9 DEF vars, page, form
<1> QED BY <1>1, <1>3, <1>4, <1>5, <1>6, <1>7, <1>8, <1>9 DEF Next, form

(* The body of a save asks for what the page shows.                        *)
LEMMA BodySaysWhatIsShown ==
    ASSUME StoreTypeOK, FormOK, TypedOrCleared
    PROVE  WouldLeave = Asked(BodyOf)
<1>1. ASSUME NEW f \in Fields, NEW old PROVE KeyLeft(f, old) = Applied(RequestOf(f), old)
  BY KeywordsAssumption, NoneAssumption
     DEF KeyLeft, Applied, RequestOf, FormOK, TypedOrCleared
<1>2. "llm" \in Fields /\ "exa" \in Fields
  BY DEF Fields
<1>3. WouldLeave.exa = Asked(BodyOf).exa
  BY <1>1, <1>2 DEF WouldLeave, Asked, BodyOf
<1>4. draft.provider # None =>
        KeyLeft("llm", StoredKey(draft.provider))
          = Applied(BodyOf.llmKey, StoredKey(BodyOf.provider))
  BY <1>1, <1>2 DEF BodyOf
<1>5. WouldLeave.llm = Asked(BodyOf).llm
  BY <1>4 DEF WouldLeave, Asked, BodyOf, LlmLeft
<1> QED BY <1>3, <1>5 DEF WouldLeave, Asked

(* A commit leaves what its body asked for.                                *)
LEMMA CommitLeaves ==
    ASSUME StoreInv, NEW w \in Saves, Commit(w), save[w].seen = exaKey
    PROVE  Kept' = Asked(save[w].body)
<1> DEFINE s == save[w]
           p == save[w].body.provider
<1>1. s.at = "written" /\ exaKey' = Applied(s.body.exaKey, exaKey)
  BY DEF Commit
<1>2. default' = p /\ (p \in Providers => rows'[p] = s.row) /\ p \in Providers \cup {None}
  BY CommittedRows DEF StoreInv, StoreTypeOK, Save, Body
<1>3. p # None => /\ s.row \in Row
                  /\ s.row.model = s.body.model /\ s.row.endpoint = s.body.endpoint
                  /\ s.row.key = Applied(s.body.llmKey, StoredKey(p))
  BY <1>1 DEF StoreInv, WrittenIsCurrent
<1>4. Kept'.llm = Asked(s.body).llm
  <2>1. CASE p = None
    BY <1>2, <2>1 DEF Kept, Asked
  <2>2. CASE p # None
    <3>1. default' # None /\ rows'[default'] = s.row /\ s.row # None
      BY <1>2, <1>3, <2>2, RowAssumption
    <3> HIDE DEF s
    <3> QED BY <1>2, <1>3, <2>2, <3>1 DEF Kept, Asked, s
  <2> QED BY <2>1, <2>2
<1>5. Kept'.exa = Asked(s.body).exa
  BY <1>1 DEF Kept, Asked
<1> QED BY <1>4, <1>5 DEF Kept, Asked

LEMMA InitSave == Init => SaveInv
BY DEF Init, SaveInv, Saving, SavedAsShown

LEMMA NextSave == IInv /\ TypedOrCleared /\ SaveInv /\ [Next]_vars => SaveInv'
<1> SUFFICES ASSUME IInv, TypedOrCleared, SaveInv, [Next]_vars PROVE SaveInv'
  OBVIOUS
<1> USE DEF IInv, StoreInv, PageInv
<1>1. ASSUME UNCHANGED <<stored, save, saving>> PROVE SaveInv'
  <2>1. UNCHANGED <<rows, default, exaKey, save, mine, answer, asked, alone>>
    BY <1>1 DEF stored, saving
  <2> QED BY <2>1 DEF SaveInv, Saving, SavedAsShown, Asked, Kept, StoredKey
<1>2. CASE SaveSettings
  <2>1. /\ mine = None /\ answer = None /\ UNCHANGED stored
        /\ asked' = WouldLeave /\ alone' = (\A w \in Saves : save[w] = NoSave)
    BY <1>2 DEF SaveSettings, Saving
  <2>2. CASE answer' = Refused /\ UNCHANGED <<save, mine>>
    BY <2>1, <2>2 DEF SaveInv, SavedAsShown
  <2>3. ASSUME NEW w \in Saves, Open(w, BodyOf), mine' = w, answer' = answer PROVE SaveInv'
    <3>1. /\ save'[w].at = "open" /\ save'[w].body = BodyOf /\ save'[w].seen = exaKey
          /\ \A v \in Saves : v # w => save'[v] = save[v]
      BY <2>3 DEF Open, StoreTypeOK, Save
    <3>2. asked' = Asked(BodyOf)
      BY <2>1, BodySaysWhatIsShown
    <3>3. (asked = Asked(save[mine].body))'
      BY <2>1, <2>3, <3>1, <3>2 DEF Asked, StoredKey, stored
    <3> QED BY <2>1, <2>3, <3>1, <3>3 DEF SaveInv, SavedAsShown, stored
  <2> QED BY <1>2, <2>2, <2>3 DEF SaveSettings
<1>3. CASE SaveElsewhere
  <2>1. PICK w \in Saves, body \in Elsewhere : Open(w, body)
    BY <1>3 DEF SaveElsewhere
  <2>2. /\ UNCHANGED <<stored, mine, answer, asked>>
        /\ alone' => ~Saving
    BY <1>3, <2>1 DEF SaveElsewhere, Open
  <2>3. /\ save'[w].at = "open"
        /\ \A v \in Saves : v # w => save'[v] = save[v]
    BY <2>1 DEF Open, StoreTypeOK, Save
  <2> QED BY <2>2, <2>3 DEF SaveInv, Saving, SavedAsShown, RestOK
<1>4. ASSUME NEW w \in Saves, ServeSave(w) PROVE SaveInv'
  <2>1. Write(w) /\ UNCHANGED <<mine, answer, asked, alone>> /\ UNCHANGED stored
    BY <1>4 DEF ServeSave, page, saving, Write
  <2>2. /\ save[w].at = "open" /\ save'[w].at = "written"
        /\ save'[w].body = save[w].body /\ save'[w].seen = save[w].seen
        /\ \A v \in Saves : v # w => save'[v] = save[v]
    BY <2>1 DEF Write, StoreTypeOK, Save
  <2>3. save[w] # NoSave
    BY <2>2 DEF NoSave
  <2>4. (Kept = asked)' <=> Kept = asked
    BY <2>1 DEF Kept, stored
  <2>5. ASSUME mine # None
        PROVE  /\ save'[mine].body = save[mine].body /\ save'[mine].seen = save[mine].seen
               /\ save'[mine].at # "idle"
    BY <2>2, <2>5 DEF SaveInv, RestOK
  <2>6. mine # None /\ asked = Asked(save[mine].body) => (asked = Asked(save[mine].body))'
    BY <2>1, <2>5 DEF Asked, StoredKey, stored
  <2>7. alone /\ Saving => \A v \in Saves : v # mine => save'[v] = NoSave
    BY <2>2, <2>3 DEF SaveInv
  <2> QED BY <2>1, <2>4, <2>5, <2>6, <2>7 DEF SaveInv, Saving, SavedAsShown, stored
<1>5. ASSUME NEW w \in Saves, EndSave(w) PROVE SaveInv'
  <2>1. /\ save[w] # NoSave /\ save' = [save EXCEPT ![w] = NoSave]
        /\ UNCHANGED <<asked, alone>> /\ mine' = IF w = mine THEN None ELSE mine
    <3>1. NoSave.at = "idle"
      BY DEF NoSave
    <3> QED BY <1>5, <3>1 DEF EndSave, Commit, Abort
  <2>2. save'[w] = NoSave /\ \A v \in Saves : v # w => save'[v] = save[v]
    BY <2>1 DEF StoreTypeOK
  <2>3. CASE w # mine
    <3>1. mine' = mine /\ answer' = answer
      BY <1>5, <2>1, <2>3 DEF EndSave
    <3>2. ~(alone /\ Saving)
      BY <2>1, <2>3 DEF SaveInv
    <3>3. mine # None => save'[mine] = save[mine]
      BY <2>2, <2>3 DEF RestOK
    <3>4. ~(alone' /\ Saving')
      BY <2>1, <3>1, <3>2 DEF Saving
    <3> QED BY <3>1, <3>3, <3>4 DEF SaveInv, Saving, SavedAsShown
  <2>4. CASE w = mine
    <3>1. mine # None /\ mine' = None
      BY <2>1, <2>4, SlotsAssumption
    <3>2. alone' => \A v \in Saves : save'[v] = NoSave
      BY <2>1, <2>2, <2>4, <3>1 DEF SaveInv, Saving
    <3>3. SavedAsShown'
      <4>1. CASE Commit(w)
        <5>1. alone => save[w].seen = exaKey /\ asked = Asked(save[w].body)
          BY <2>4, <3>1 DEF SaveInv
        <5>2. alone => Kept' = asked
          BY <4>1, <5>1, CommitLeaves
        <5> QED BY <2>1, <5>2 DEF SavedAsShown
      <4>2. CASE Abort(w) /\ answer' = Refused
        BY <4>2 DEF SavedAsShown
      <4> QED BY <1>5, <2>4, <4>1, <4>2 DEF EndSave
    <3> QED BY <3>1, <3>2, <3>3 DEF SaveInv
  <2> QED BY <2>3, <2>4
<1>6. CASE EndSaving
  BY <1>6 DEF EndSaving, SaveInv, Saving, SavedAsShown
<1>7. CASE Load
  BY <1>1, <1>7 DEF Load
<1>8. CASE Form
  BY <1>1, <1>8, FormStep
<1>9. ASSUME NEW f \in Fields, TestConnection(f) PROVE SaveInv'
  BY <1>1, <1>9 DEF TestConnection
<1>10. ASSUME NEW t \in Tests, ServeTest(t) PROVE SaveInv'
  BY <1>1, <1>10 DEF ServeTest
<1>11. ASSUME NEW t \in Tests, ShowResult(t) PROVE SaveInv'
  BY <1>1, <1>11 DEF ShowResult
<1>12. CASE UNCHANGED vars
  BY <1>1, <1>12 DEF vars, page
<1> QED BY <1>2, <1>3, <1>4, <1>5, <1>6, <1>7, <1>8, <1>9, <1>10, <1>11, <1>12 DEF Next

LEMMA SaveInvariance == Spec => [](IInv /\ TypedOrCleared /\ SaveInv)
BY InitInvariant, NextInvariant, InitTyped, NextTyped, InitSave, NextSave, PTL DEF Spec

(* A save that is answered, and that no other tab's save overlapped, has   *)
(* stored what the form showed when it was clicked, whatever was typed or  *)
(* tested while it ran.                                                    *)
THEOREM SavesWhatIsShown == Spec => []SavedAsShown
BY SaveInvariance, PTL DEF SaveInv

-----------------------------------------------------------------------------
(* What a test is worth                                                    *)

(* No vendor answers an unknown model with what a probe reads as a yes,    *)
(* nor a bad key, unless it lists its models to anybody.                   *)
LEMMA ProbeSaysYes ==
    ASSUME NEW p \in LlmProviders, NEW authentic \in BOOLEAN, NEW known \in BOOLEAN,
           NEW r \in Replies(p, authentic, known), Judge(p, r) = "ok"
    PROVE  known /\ (authentic \/ p \in OpenListing)
<1>1. \A s : MapHttpStatusToCode(s) # "ok"
  BY DEF MapHttpStatusToCode
<1>2. r.status = 200 /\ (p \in Listing => r.listed)
  BY <1>1 DEF Judge
<1>3. r \notin Trouble /\ r \notin Refusals /\ r # NotFound
  BY <1>2 DEF Trouble, Refusals, Reply, NotFound
<1>4. r \in Answers(p, known) /\ (authentic \/ p \in OpenListing)
  BY <1>3 DEF Replies
<1>5. known
  <2>1. CASE p \in Listing
    <3>1. p \notin {"gemini", "anthropic"}
      BY <2>1 DEF Listing
    <3>2. r = Reply(200, known, FALSE)
      BY <1>4, <2>1, <3>1 DEF Answers
    <3> QED BY <1>2, <2>1, <3>2 DEF Reply
  <2>2. CASE p \notin Listing /\ ~known
    <3>1. p \in {"anthropic", "gemini"}
      BY <2>2 DEF LlmProviders
    <3>2. r \in {NotFound, Reply(400, FALSE, TRUE)}
      BY <1>4, <2>2, <3>1 DEF Answers, Listing
    <3> QED BY <1>2, <1>3, <3>2 DEF Reply
  <2> QED BY <2>1, <2>2
<1> QED BY <1>4, <1>5

LEMMA LlmTestSaysYes ==
    ASSUME NEW p \in LlmProviders, NEW safe \in BOOLEAN, NEW hasKey \in BOOLEAN,
           NEW authentic \in BOOLEAN, NEW known \in BOOLEAN,
           "ok" \in TestLlm(p, safe, hasKey, authentic, known)
    PROVE  known /\ (authentic \/ p \in OpenListing) /\ (p = "custom" => safe)
<1>1. (p = "custom" => safe) /\ hasKey
  BY DEF TestLlm
<1>2. "ok" \in Probe(p, authentic, known)
  BY <1>1 DEF TestLlm
<1>3. Judge("custom", NotFound) # "ok"
  BY DEF Judge, NotFound, Reply, MapHttpStatusToCode
<1>4. \E r \in Replies(p, authentic, known) : Judge(p, r) = "ok"
  BY <1>2, <1>3 DEF Probe, ProbeCustom
<1> QED BY <1>1, <1>4, ProbeSaysYes

(* What the server's answer to a test means, in the route's own terms, and *)
(* for the snapshot's call: a vendor that minds no key is a stub.          *)
LEMMA LlmOkIsEarned ==
    ASSUME NEW p \in LlmProviders, NEW e, NEW k, NEW m,
           "ok" \in TestLlm(p, e \notin Unsafe, k # None, k \in Genuine, Serves(p, e, m))
    PROVE  /\ Serves(p, e, m)
           /\ p \in Stubs \/ Completes(p, k \in Genuine, Serves(p, e, m))
           /\ p = "custom" => e \notin Unsafe
<1> DEFINE safe == e \notin Unsafe
           hasKey == k # None
           authentic == k \in Genuine
           known == Serves(p, e, m)
<1>1. safe \in BOOLEAN /\ hasKey \in BOOLEAN /\ authentic \in BOOLEAN /\ known \in BOOLEAN
  BY DEF Serves
<1>2. "ok" \in TestLlm(p, safe, hasKey, authentic, known)
  OBVIOUS
<1> HIDE DEF safe, hasKey, authentic, known
<1>3. known /\ (authentic \/ p \in OpenListing) /\ (p = "custom" => safe)
  BY <1>1, <1>2, LlmTestSaysYes
<1>4. p \in Stubs \/ Completes(p, authentic, known)
  BY <1>3 DEF OpenListing, Stubs, Completes
<1> QED BY <1>3, <1>4 DEF safe, authentic, known

LEMMA ExaOkIsEarned ==
    ASSUME NEW k, "ok" \in TestExa(k # None, k \in Genuine)
    PROVE  k \in Genuine
BY DEF TestExa, MapHttpStatusToCode

-----------------------------------------------------------------------------
(* "Connected"                                                             *)

Test == [field : Fields \cup {None}, provider : Providers \cup {None},
         model : Names \cup {None}, endpoint : Endpoints \cup {None},
         key : Keys \cup {None}, passed : BOOLEAN]
TestsOK == tests \in [Tests -> Test]

(* The test asks about what a save would leave: with the key typed, or,    *)
(* with none typed, the stored one.                                        *)
Asks(f, t) ==
    LET saved == WouldLeave[f] IN
    /\ tests[t].key = None => typed[f] = None
    /\ f = "exa" => (tests[t].key # None => saved = tests[t].key)
    /\ f = "llm" =>
         /\ saved # None
         /\ saved.provider = tests[t].provider
         /\ saved.model = tests[t].model
         /\ saved.endpoint = tests[t].endpoint
         /\ tests[t].key # None => saved.key = tests[t].key

(* A test that stands is the only one of its field and asks about what a   *)
(* save would leave; if it has passed, or is shown as a success, that is   *)
(* earned.                                                                 *)
Standing(f) ==
    /\ f \notin clear
    /\ status[f] = "ok" => Vouched(f)
    /\ \A t \in Tests : tests[t].field = f =>
         /\ Asks(f, t)
         /\ tests[t].passed => Vouched(f)
         /\ \A u \in Tests : tests[u].field = f => u = t

TestInv == TestsOK /\ left \in Nat /\ \A f \in sure : Standing(f)

LEMMA FieldNames == \A f \in Fields : f = "llm" \/ f = "exa"
BY DEF Fields

LEMMA TwoIsMore ==
    ASSUME NEW S \in SUBSET Tests, NEW a \in S, NEW b \in S, a # b
    PROVE  Cardinality(S) > 1
<1>1. IsFiniteSet(S)
  BY SlotsAssumption, FS_Subset
<1>2. IsFiniteSet({a}) /\ Cardinality({a}) = 1
  BY FS_Singleton
<1>3. Cardinality({a} \cup {b}) = 2 /\ IsFiniteSet({a} \cup {b})
  BY <1>2, FS_AddElement
<1>4. {a} \cup {b} \in SUBSET S
  OBVIOUS
<1>5. Cardinality({a} \cup {b}) <= Cardinality(S) /\ Cardinality(S) \in Nat
  BY <1>1, <1>4, FS_Subset, FS_CardinalityType
<1> QED BY <1>3, <1>5

LEMMA InitTests == Init => TestInv
<1>1. NoTest \in Test
  BY DEF NoTest, Test
<1> QED BY <1>1, MaxClicksAssumption DEF Init, TestInv, TestsOK

(* Where the section stands untouched, no key appears in its field and     *)
(* none is to be cleared.                                                  *)
LEMMA FormLasts ==
    ASSUME IInv, TestInv, Next
    PROVE  /\ left' \in Nat
           /\ \A f \in Fields : ~Touched(f) /\ f \notin clear =>
                f \notin clear' /\ typed'[f] \in {typed[f], None}
<1> USE DEF TestInv
<1>1. ASSUME UNCHANGED form, left' = left \/ Click
      PROVE  /\ left' \in Nat
             /\ \A f \in Fields : ~Touched(f) /\ f \notin clear =>
                  f \notin clear' /\ typed'[f] \in {typed[f], None}
  BY <1>1 DEF form, Click
<1>2. CASE Form
  <2>1. Click
    BY <1>2 DEF Form, ChooseProvider, ChooseModel, TypeModel, TypeEndpoint, TypeKey, ClearKey, Edit
  <2>2. left' \in Nat /\ left' # left
    BY <2>1 DEF Click
  <2> QED BY <2>2 DEF Touched
<1>3. CASE Load \/ EndSaving
  <2>1. left' = left
    BY <1>3 DEF Load, EndSaving
  <2>2. ASSUME NEW s, Show(s), NEW f \in Fields PROVE f \notin clear' /\ typed'[f] = None
    BY <2>2 DEF Show
  <2>3. UNCHANGED form \/ \E s : Show(s)
    BY <1>3 DEF Load, EndSaving, form
  <2> QED BY <1>1, <2>1, <2>2, <2>3
<1>4. CASE SaveSettings \/ SaveElsewhere
  BY <1>1, <1>4 DEF SaveSettings, SaveElsewhere
<1>5. ASSUME NEW w \in Saves, ServeSave(w) \/ EndSave(w) PROVE UNCHANGED form /\ left' = left
  BY <1>5 DEF ServeSave, EndSave, page
<1>6. ASSUME NEW f \in Fields, TestConnection(f) PROVE UNCHANGED form /\ Click
  BY <1>6 DEF TestConnection
<1>7. ASSUME NEW t \in Tests, ServeTest(t) \/ ShowResult(t) PROVE UNCHANGED form /\ left' = left
  BY <1>7 DEF ServeTest, ShowResult
<1> QED BY <1>1, <1>2, <1>3, <1>4, <1>5, <1>6, <1>7 DEF Next

(* A step that is none of the tests' leaves what stands standing.          *)
LEMMA OtherLasts ==
    ASSUME IInv, TestInv, Next, UNCHANGED testing
    PROVE  TestInv'
<1> USE DEF TestInv
<1>1. UNCHANGED <<status, tests>>
  BY DEF testing
<1>2. \A f \in sure' : f \in Lasting
  BY <1>1 DEF Next, Watch, Started, Quiet
<1>3. ASSUME NEW f \in sure' PROVE Standing(f)'
  <2>1. f \in sure /\ f \in Fields /\ WouldLeave'[f] = WouldLeave[f] /\ ~Touched(f)
    BY <1>2 DEF Lasting, IInv
  <2>2. Standing(f)
    BY <2>1
  <2>3. f \notin clear' /\ typed'[f] \in {typed[f], None}
    BY <2>1, <2>2, FormLasts DEF Standing
  <2>4. Vouched(f)' <=> Vouched(f)
    BY <2>1 DEF Vouched, Earned, Serves
  <2>5. ASSUME NEW t \in Tests, Asks(f, t) PROVE Asks(f, t)'
    BY <1>1, <2>1, <2>3, <2>5 DEF Asks
  <2> QED BY <1>1, <2>2, <2>3, <2>4, <2>5 DEF Standing
<1>4. TestsOK'
  BY <1>1 DEF TestsOK
<1> QED BY <1>3, <1>4, FormLasts

(* While a test is sent, served or shown, the form and the store rest.     *)
LEMMA RestingForm ==
    ASSUME UNCHANGED <<stored, form>>
    PROVE  UNCHANGED <<WouldLeave, clear, typed>> /\ \A f \in Fields : Vouched(f)' <=> Vouched(f)
<1>1. UNCHANGED <<rows, default, exaKey, draft, typed, clear>>
  BY DEF stored, form
<1>2. UNCHANGED WouldLeave
  BY <1>1 DEF WouldLeave, LlmLeft, KeyLeft, StoredKey, Model
<1> QED BY <1>1, <1>2 DEF Vouched, Earned, Serves

LEMMA SendTest ==
    ASSUME IInv, TestInv, Next, NEW f \in Fields, TestConnection(f)
    PROVE  TestInv'
<1> USE DEF TestInv
<1>1. PICK t \in Tests :
        /\ tests[t] = NoTest
        /\ tests' = [tests EXCEPT ![t] =
              [NoTest EXCEPT !.field = f, !.key = typed[f],
                 !.provider = IF f = "llm" THEN draft.provider ELSE None,
                 !.model = IF f = "llm" THEN Model(draft) ELSE None,
                 !.endpoint = IF f = "llm" THEN draft.endpoint ELSE None]]
  BY DEF TestConnection
<1>2. /\ tests'[t] = [field |-> f, key |-> typed[f], passed |-> FALSE,
                      provider |-> IF f = "llm" THEN draft.provider ELSE None,
                      model |-> IF f = "llm" THEN Model(draft) ELSE None,
                      endpoint |-> IF f = "llm" THEN draft.endpoint ELSE None]
      /\ \A u \in Tests : u # t => tests'[u] = tests[u]
  BY <1>1 DEF TestsOK, Test, NoTest
<1>3. TestsOK'
  <2>1. /\ f \in Fields \cup {None} /\ typed[f] \in Keys \cup {None}
        /\ draft.provider \in Providers \cup {None} /\ Model(draft) \in Names \cup {None}
        /\ draft.endpoint \in Endpoints \cup {None}
    BY ModelType DEF IInv, PageInv, FormOK, DraftOK
  <2>2. tests'[t] \in Test
    BY <1>2, <2>1 DEF Test
  <2> QED BY <1>1, <2>2 DEF TestsOK
<1>4. /\ status' = [status EXCEPT ![f] = "loading"] /\ UNCHANGED <<stored, form>>
      /\ status \in [Fields -> {"idle", "loading", "ok", "failed"}]
      /\ f = "llm" => draft.provider # None
  BY DEF TestConnection, Testable, IInv, PageInv, RestOK
<1>5. tests[t].field = None /\ f # None
  BY <1>1, FieldsAssumption DEF NoTest
<1>6. ASSUME NEW g \in sure', g # f PROVE Standing(g)'
  <2>1. \A u \in Tests : tests'[u].field = g <=> tests[u].field = g /\ u # t
    <3>1. g \in Fields
      BY <1>6 DEF Next, Watch, Started, Lasting, IInv
    <3> QED BY <1>2, <1>5, <1>6, <3>1, FieldsAssumption
  <2>2. g \in sure /\ g \in Fields
    BY <2>1 DEF Next, Watch, Started, Lasting, Quiet, IInv
  <2>3. Standing(g) /\ status'[g] = status[g]
    BY <1>4, <1>6, <2>2
  <2>4. \A u \in Tests : u # t => (Asks(g, u)' <=> Asks(g, u))
    BY <1>2, <1>4, RestingForm DEF Asks
  <2> QED BY <1>2, <1>4, <2>1, <2>2, <2>3, <2>4, RestingForm DEF Standing
<1>7. ASSUME f \in sure' PROVE Standing(f)'
  <2>1. f \notin clear
    BY <1>7 DEF Next, Watch, Started, Lasting, Standing
  <2>2. Quiet(f)
    <3> SUFFICES ASSUME NEW u \in Tests, tests[u].field = f PROVE FALSE
      BY DEF Quiet
    <3> DEFINE S == {v \in Tests : tests'[v].field = f}
    <3>1. u \in S /\ t \in S /\ u # t
      BY <1>2, <1>5
    <3>2. Cardinality(S) > 1
      BY <3>1, TwoIsMore
    <3> QED BY <1>7, <3>2 DEF Next, Watch, Overtaken
  <2>3. \A u \in Tests : tests'[u].field = f => u = t
    BY <1>2, <2>2 DEF Quiet
  <2>4. Asks(f, t)'
    <3>1. CASE f = "exa"
      <4>1. tests'[t].key = typed[f] /\ WouldLeave["exa"] = KeyLeft("exa", exaKey)
        BY <1>2 DEF WouldLeave
      <4> QED BY <1>4, <3>1, <4>1, RestingForm DEF Asks, KeyLeft
    <3>2. CASE f = "llm"
      <4>1. /\ WouldLeave["llm"] = LlmLeft
            /\ LlmLeft = [provider |-> draft.provider, model |-> Model(draft),
                          endpoint |-> draft.endpoint,
                          key |-> KeyLeft("llm", StoredKey(draft.provider))]
        BY <1>4, <3>2 DEF WouldLeave, LlmLeft
      <4>2. LlmLeft \in LlmOnFile
        <5>1. /\ draft.provider \in Providers /\ Model(draft) \in Names \cup {None}
              /\ draft.endpoint \in Endpoints \cup {None}
          BY <1>4, <3>2, ModelType DEF IInv, PageInv, FormOK, DraftOK
        <5>2. KeyLeft("llm", StoredKey(draft.provider)) \in Keys \cup {None}
          BY <5>1, <3>2, StoredKeyType DEF KeyLeft, IInv, PageInv, FormOK, StoreInv
        <5> QED BY <4>1, <5>1, <5>2 DEF LlmOnFile
      <4>3. LlmLeft # None
        BY <4>2, LlmAssumption
      <4>4. typed[f] # None => LlmLeft.key = typed[f]
        BY <3>2, <4>1 DEF KeyLeft
      <4> QED BY <1>2, <1>4, <3>2, <4>1, <4>3, <4>4, RestingForm DEF Asks
    <3> QED BY <3>1, <3>2, FieldNames
  <2>5. status'[f] # "ok" /\ ~tests'[t].passed
    BY <1>2, <1>4
  <2> QED BY <1>4, <2>1, <2>3, <2>4, <2>5, RestingForm DEF Standing
<1> QED BY <1>3, <1>6, <1>7, FormLasts

(* A test served or shown ends none and starts none for what stands.       *)
LEMMA StandersStood ==
    ASSUME IInv, Next, \A t \in Tests : tests'[t].field \in {tests[t].field, None}
    PROVE  \A f \in sure' : f \in sure /\ f \in Fields
BY FieldsAssumption DEF Next, Watch, Started, Lasting, Quiet, IInv

LEMMA PassedIsEarned ==
    ASSUME IInv, TestInv, NEW t \in Tests, ServeTest(t), NEW f \in sure, tests[t].field = f
    PROVE  Vouched(f)
<1> DEFINE asks == tests[t]
           key == IF asks.key # None THEN asks.key
                  ELSE IF asks.field = "exa" THEN exaKey ELSE StoredKey(asks.provider)
           saved == WouldLeave[f]
<1>1. Standing(f) /\ Asks(f, t) /\ f \notin clear /\ f \in Fields
  BY DEF TestInv, Standing, IInv
<1>2. CASE f = "exa"
  <2>1. "ok" \in TestExa(key # None, key \in Genuine)
    BY <1>2 DEF ServeTest
  <2>2. saved = key
    BY <1>1, <1>2 DEF Asks, WouldLeave, KeyLeft
  <2> HIDE DEF key
  <2> QED BY <1>2, <2>1, <2>2, ExaOkIsEarned DEF Vouched
<1>3. CASE f = "llm"
  <2>1. "ok" \in TestLlm(asks.provider, asks.endpoint \notin Unsafe, key # None,
                         key \in Genuine,
                         Serves(asks.provider, asks.endpoint, asks.model))
    BY <1>3 DEF ServeTest
  <2>2. /\ saved # None /\ saved.provider = asks.provider /\ saved.model = asks.model
        /\ saved.endpoint = asks.endpoint
        /\ asks.key # None => saved.key = asks.key
        /\ asks.key = None => typed[f] = None
    BY <1>1, <1>3 DEF Asks
  <2>3. /\ draft.provider # None /\ draft.provider \in Providers
        /\ saved.provider = draft.provider /\ saved.endpoint = draft.endpoint
        /\ saved.key = KeyLeft("llm", StoredKey(draft.provider))
        /\ draft.provider # "custom" => draft.endpoint = None
    BY <1>3, <2>2 DEF WouldLeave, LlmLeft, IInv, PageInv, FormOK, DraftOK
  <2>4. saved.key = key
    BY <1>1, <1>3, <2>2, <2>3 DEF KeyLeft
  <2>5. asks.provider \in LlmProviders
    BY <2>2, <2>3, ProvidersAssumption
  <2> HIDE DEF key, asks
  <2>6. /\ Serves(asks.provider, asks.endpoint, asks.model)
        /\ \/ asks.provider \in Stubs
           \/ Completes(asks.provider, key \in Genuine,
                        Serves(asks.provider, asks.endpoint, asks.model))
        /\ asks.provider = "custom" => asks.endpoint \notin Unsafe
    BY <2>1, <2>5, LlmOkIsEarned
  <2>7. saved.endpoint \notin Unsafe
    BY <2>2, <2>3, <2>6, UnsafeAssumption, NoneAssumption
  <2> QED BY <1>3, <2>2, <2>4, <2>6, <2>7 DEF Vouched, Earned
<1> QED BY <1>1, <1>2, <1>3, FieldNames

LEMMA AnswerTest ==
    ASSUME IInv, TestInv, Next, NEW t \in Tests, ServeTest(t)
    PROVE  TestInv'
<1> USE DEF TestInv
<1>1. /\ tests' = [tests EXCEPT ![t].passed = TRUE]
      /\ UNCHANGED <<stored, form, status>>
  BY DEF ServeTest
<1>2. /\ \A u \in Tests : /\ tests'[u].field = tests[u].field
                          /\ tests'[u].key = tests[u].key
                          /\ tests'[u].provider = tests[u].provider
                          /\ tests'[u].model = tests[u].model
                          /\ tests'[u].endpoint = tests[u].endpoint
                          /\ u # t => tests'[u].passed = tests[u].passed
      /\ TestsOK'
  BY <1>1 DEF TestsOK, Test
<1>3. \A f \in sure' : f \in sure /\ f \in Fields
  BY <1>2, StandersStood
<1>4. ASSUME NEW f \in sure' PROVE Standing(f)'
  <2>1. Standing(f) /\ f \in Fields /\ f \in sure
    BY <1>3
  <2>2. \A u \in Tests : Asks(f, u)' <=> Asks(f, u)
    BY <1>1, <1>2, RestingForm DEF Asks
  <2>3. tests[t].field = f => Vouched(f)
    BY <2>1, PassedIsEarned
  <2> QED BY <1>1, <1>2, <2>1, <2>2, <2>3, RestingForm DEF Standing
<1> QED BY <1>2, <1>4, FormLasts

LEMMA ShowTest ==
    ASSUME IInv, TestInv, Next, NEW t \in Tests, ShowResult(t)
    PROVE  TestInv'
<1> USE DEF TestInv
<1>1. /\ status' = [status EXCEPT ![tests[t].field] = IF tests[t].passed THEN "ok" ELSE "failed"]
      /\ tests' = [tests EXCEPT ![t] = NoTest]
      /\ UNCHANGED <<stored, form>>
      /\ status \in [Fields -> {"idle", "loading", "ok", "failed"}]
  BY DEF ShowResult, IInv, PageInv, RestOK
<1>2. /\ tests'[t] = NoTest /\ \A u \in Tests : u # t => tests'[u] = tests[u]
      /\ NoTest.field = None
  BY <1>1 DEF TestsOK, Test, NoTest
<1>3. TestsOK'
  BY <1>1 DEF TestsOK, Test, NoTest
<1>4. \A f \in sure' : f \in sure /\ f \in Fields
  <2>1. \A u \in Tests : tests'[u].field \in {tests[u].field, None}
    BY <1>2
  <2> QED BY <2>1, StandersStood
<1>5. ASSUME NEW f \in sure' PROVE Standing(f)'
  <2>1. Standing(f) /\ f \in Fields /\ f # None
    BY <1>4, FieldsAssumption
  <2>2. \A u \in Tests : u # t => (Asks(f, u)' <=> Asks(f, u))
    BY <1>1, <1>2, RestingForm DEF Asks
  <2>3. \A u \in Tests : tests'[u].field = f => u # t /\ tests[u].field = f
    BY <1>2, <2>1
  <2>4. status'[f] = "ok" => Vouched(f)
    BY <1>1, <2>1 DEF Standing
  <2> QED BY <1>1, <1>2, <2>1, <2>2, <2>3, <2>4, RestingForm DEF Standing
<1> QED BY <1>3, <1>5, FormLasts

LEMMA NextTests == IInv /\ TestInv /\ [Next]_vars => TestInv'
<1> SUFFICES ASSUME IInv, TestInv, [Next]_vars PROVE TestInv'
  OBVIOUS
<1>1. CASE Next
  <2>1. CASE Load \/ Form \/ SaveSettings \/ SaveElsewhere \/ EndSaving
    <3>1. UNCHANGED testing
      BY <2>1, FormStep DEF Load, SaveSettings, SaveElsewhere, EndSaving, IInv, PageInv
    <3> QED BY <1>1, <3>1, OtherLasts
  <2>2. ASSUME NEW w \in Saves, ServeSave(w) \/ EndSave(w) PROVE TestInv'
    <3>1. UNCHANGED testing
      BY <2>2 DEF ServeSave, EndSave, page
    <3> QED BY <1>1, <3>1, OtherLasts
  <2> QED BY <1>1, <2>1, <2>2, SendTest, AnswerTest, ShowTest DEF Next
<1>2. CASE UNCHANGED vars
  <2>1. UNCHANGED <<stored, form, sure, status, tests, left>>
    BY <1>2 DEF vars, page, testing
  <2>2. ASSUME NEW f \in sure PROVE Standing(f)'
    <3>1. Standing(f) /\ f \in Fields
      BY DEF TestInv, IInv
    <3>2. \A t \in Tests : Asks(f, t)' <=> Asks(f, t)
      BY <2>1, RestingForm DEF Asks
    <3> QED BY <2>1, <3>1, <3>2, RestingForm DEF Standing
  <2> QED BY <2>1, <2>2 DEF TestInv, TestsOK
<1> QED BY <1>1, <1>2

LEMMA TestInvariance == Spec => [](IInv /\ TestInv)
BY InitInvariant, NextInvariant, InitTests, NextTests, PTL DEF Spec

(* A "Connected" that nothing has outdated since its test was sent is of a *)
(* genuine Exa key, or of a model that the vendor has at a safe endpoint,  *)
(* with which, stubs apart, the snapshot's own call completes, under any   *)
(* overlap of tests, saves and edits.                                      *)
THEOREM ConnectedLasts == Spec => []ConnectedIsEarned
<1>1. IInv /\ TestInv => ConnectedIsEarned
  BY DEF TestInv, Standing, ConnectedIsEarned
<1> QED BY <1>1, TestInvariance, PTL
=============================================================================
