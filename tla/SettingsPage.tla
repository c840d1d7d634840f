---------------------------- MODULE SettingsPage ----------------------------
(***************************************************************************)
(* The settings page of one user (settings-page.tsx, use-settings.ts,      *)
(* settings/api-fetcher.ts) over LlmSettings and ConnectionTest, while     *)
(* other tabs save too: the draft of the LLM section and of the two key    *)
(* fields, the Test buttons and the Save button. Toggles, thresholds and   *)
(* the eligibility property are sent as they stand and are left out; the   *)
(* Trigify key field has the Exa one's handlers and no test.               *)
(***************************************************************************)
EXTENDS LlmSettings, ConnectionTest

CONSTANTS Catalog,     \* LLM_CATALOG: the models offered for each provider
          Elsewhere,   \* bound: what other tabs send when they save
          Unsafe,      \* endpoints the SSRF guard refuses
          Genuine,     \* keys the vendors accept
          Served,      \* provider, endpoint or None, and model, that exist
          Tests,       \* slots for POST /api/settings/test-connection
          MaxClicks    \* bound: how often the users edit, save and test

ASSUME CatalogAssumption == Catalog \in [Providers -> SUBSET Names]
ASSUME ElsewhereAssumption == Elsewhere \subseteq Sendable
ASSUME UnsafeAssumption == Unsafe \subseteq Endpoints

ASSUME ProvidersAssumption == Providers \subseteq LlmProviders
ASSUME SlotsAssumption == None \notin Saves /\ IsFiniteSet(Tests)
ASSUME MaxClicksAssumption == MaxClicks \in Nat

Fields == {"llm", "exa"}
ASSUME FieldsAssumption == None \notin Fields

Other == "__other__"

VARIABLES
    view,      \* "loading", "failed" or "ready"
    onFile,    \* which keys the settings last answered say are stored
    draft,     \* the LLM section: provider, model picked, model typed, endpoint
    typed,     \* what is typed in each key field, or None
    clear,     \* key fields whose stored key the user wants cleared
    mine,      \* the slot of the save the page waits for, or None
    answer,    \* what it will be answered, or None
    asked,     \* history: what the page showed when Save was clicked
    alone,     \* history: no other save since
    status,    \* what each Test button's status says
    tests,     \* tests under way
    sure,      \* history: fields whose last test stood undisturbed
    left       \* clicks the bound still allows

form == <<draft, typed, clear>>
testing == <<status, tests>>
saving == <<mine, answer, asked, alone>>
page == <<view, onFile, form, saving, testing, sure, left>>
vars == <<stored, save, page>>

NoAsk == [llm |-> None, exa |-> None]
NoTest == [field |-> None, provider |-> None, model |-> None, endpoint |-> None,
           key |-> None, passed |-> FALSE]
Blank == [provider |-> None, pick |-> None, other |-> None, endpoint |-> None]

Init ==
    /\ SettingsInit
    /\ view = "loading"
    /\ onFile = [f \in Fields |-> FALSE]
    /\ draft = Blank
    /\ typed = [f \in Fields |-> None]
    /\ clear = {}
    /\ mine = None
    /\ answer = None
    /\ asked = NoAsk
    /\ alone = TRUE
    /\ status = [f \in Fields |-> "idle"]
    /\ tests = [t \in Tests |-> NoTest]
    /\ sure = {}
    /\ left = MaxClicks

Refused == [ok |-> FALSE, settings |-> None]
Ready == view = "ready"
Saving == mine # None \/ answer # None

(* resolveDraftModel                                                       *)
Model(d) == IF d.pick = Other THEN d.other ELSE d.pick

(* buildDraft and resolveInitialModelSelection: a model that is not in the *)
(* catalog is shown as typed.                                              *)
BuildDraft(s) ==
    LET known == s.provider # None /\ s.model \in Catalog[s.provider]
        typedIn == s.model # None /\ ~known
    IN  [provider |-> s.provider,
         pick |-> IF typedIn THEN Other ELSE s.model,
         other |-> IF typedIn THEN s.model ELSE None,
         endpoint |-> IF s.provider = "custom" THEN s.endpoint ELSE None]

(* The settings arrive; an effect rebuilds the draft from them, whatever   *)
(* has been typed since they were asked for.                               *)
Show(s) ==
    /\ onFile' = s.onFile
    /\ draft' = BuildDraft(s)
    /\ typed' = [f \in Fields |-> None]
    /\ clear' = {}

(* The GET of the mount.                                                   *)
Load ==
    /\ view = "loading"
    /\ \/ /\ \E p \in ServicePicks : Show(Shown(p))
          /\ view' = "ready"
       \/ /\ view' = "failed"
          /\ UNCHANGED <<onFile, form>>
    /\ UNCHANGED <<stored, save, saving, testing, left>>

-----------------------------------------------------------------------------
(* The form. It stays enabled while a save or a test is under way.         *)

Click == left > 0 /\ left' = left - 1

Edit(allowed) ==
    /\ Ready
    /\ allowed
    /\ Click
    /\ UNCHANGED <<stored, save, view, onFile, saving, testing>>

(* The model and the endpoint go with the provider; the key stays.         *)
ChooseProvider(p) ==
    /\ Edit(p # draft.provider)
    /\ draft' = [provider |-> p, pick |-> None, other |-> None,
                 endpoint |-> IF p = "custom" THEN draft.endpoint ELSE None]
    /\ UNCHANGED <<typed, clear>>

ChooseModel(m) ==
    /\ Edit(draft.provider # None /\ m \in Catalog[draft.provider] \cup {Other} /\ m # draft.pick)
    /\ draft' = [draft EXCEPT !.pick = m, !.other = IF m = Other THEN @ ELSE None]
    /\ UNCHANGED <<typed, clear>>

TypeModel(m) ==
    /\ Edit(draft.provider # None /\ draft.pick = Other /\ m # draft.other)
    /\ draft' = [draft EXCEPT !.other = m]
    /\ UNCHANGED <<typed, clear>>

TypeEndpoint(e) ==
    /\ Edit(draft.provider = "custom" /\ e # draft.endpoint)
    /\ draft' = [draft EXCEPT !.endpoint = e]
    /\ UNCHANGED <<typed, clear>>

(* Mutant: typing a key leaves the intent to clear the stored one.         *)
TypeKeyStillClears(f, k) ==
    /\ Edit(k # typed[f])
    /\ typed' = [typed EXCEPT ![f] = k]
    /\ UNCHANGED <<draft, clear>>

(* Typing a key cancels the intent to clear the stored one.                *)
TypeKey(f, k) ==
    /\ Edit(k # typed[f])
    /\ typed' = [typed EXCEPT ![f] = k]
    /\ clear' = IF k = None THEN clear ELSE clear \ {f}
    /\ UNCHANGED draft

ClearKey(f) ==
    /\ Edit(onFile[f] /\ f \notin clear)
    /\ typed' = [typed EXCEPT ![f] = None]
    /\ clear' = clear \cup {f}
    /\ UNCHANGED draft

-----------------------------------------------------------------------------
(* Save settings                                                           *)

(* What a save of the form as it is shown would leave stored.              *)
KeyLeft(f, old) ==
    CASE typed[f] # None -> typed[f]
      [] typed[f] = None /\ f \in clear -> None
      [] OTHER -> old
StoredKey(p) == IF p # None /\ rows[p] # None THEN rows[p].key ELSE None
LlmLeft ==
    IF draft.provider = None THEN None
    ELSE [provider |-> draft.provider, model |-> Model(draft), endpoint |-> draft.endpoint,
          key |-> KeyLeft("llm", StoredKey(draft.provider))]
WouldLeave == [llm |-> LlmLeft, exa |-> KeyLeft("exa", exaKey)]

LlmOnFile == [provider : Providers, model : Names \cup {None},
              endpoint : Endpoints \cup {None}, key : Keys \cup {None}]
ASSUME LlmAssumption == None \notin LlmOnFile

(* What is stored, in the same terms.                                      *)
Kept ==
    [llm |-> IF default = None \/ rows[default] = None THEN None
             ELSE [provider |-> default, model |-> rows[default].model,
                   endpoint |-> rows[default].endpoint, key |-> rows[default].key],
     exa |-> exaKey]

RequestOf(f) ==
    CASE f \in clear -> "clear"
      [] f \notin clear /\ typed[f] # None -> typed[f]
      [] OTHER -> "keep"
BodyOf ==
    [provider |-> draft.provider, model |-> Model(draft), endpoint |-> draft.endpoint,
     llmKey |-> IF draft.provider = None THEN "keep" ELSE RequestOf("llm"),
     exaKey |-> RequestOf("exa")]

(* Mutant: the page leaves the check of the endpoint to the server.        *)
CompleteUnchecked == draft.provider # None /\ draft.pick = Other => draft.other # None

(* The page's own checks, before anything is sent.                         *)
Complete ==
    /\ draft.provider = "custom" => draft.endpoint # None
    /\ draft.provider # None /\ draft.pick = Other => draft.other # None

(* saveSettings. A provider without a model is refused by the validator,   *)
(* with the whole save.                                                    *)
SaveSettings ==
    /\ Ready
    /\ ~Saving
    /\ Complete
    /\ Click
    /\ \/ /\ draft.provider # None /\ Model(draft) = None
          /\ answer' = Refused
          /\ UNCHANGED <<save, mine>>
       \/ /\ draft.provider = None \/ Model(draft) # None
          /\ \E w \in Saves : Open(w, BodyOf) /\ mine' = w
          /\ UNCHANGED answer
    /\ asked' = WouldLeave
    /\ alone' = (\A w \in Saves : save[w] = NoSave)
    /\ UNCHANGED <<stored, view, onFile, form, testing>>

(* Another tab saves.                                                      *)
SaveElsewhere ==
    /\ Click
    /\ \E w \in Saves, body \in Elsewhere : Open(w, body)
    /\ alone' = (alone /\ ~Saving)
    /\ UNCHANGED <<view, onFile, form, mine, answer, asked, testing>>

ServeSave(w) ==
    /\ Write(w)
    /\ UNCHANGED page

(* The save ends, and what it stored is read back for the answer.          *)
EndSave(w) ==
    /\ \/ /\ Commit(w)
          /\ IF w = mine
             THEN \E p \in Providers \cup {None} : p \in ServicePicks' /\ answer' = [ok |-> TRUE, settings |-> Shown(p)']
             ELSE UNCHANGED answer
       \/ /\ Abort(w)
          /\ answer' = IF w = mine THEN Refused ELSE answer
    /\ mine' = IF w = mine THEN None ELSE mine
    /\ UNCHANGED <<view, onFile, form, asked, alone, testing, left>>

(* The answer arrives, or is given up on while the server runs on. An      *)
(* error keeps the draft.                                                  *)
EndSaving ==
    /\ Saving
    /\ \/ answer \notin {None, Refused} /\ Show(answer.settings)
       \/ UNCHANGED <<onFile, form>>
    /\ mine' = None
    /\ answer' = None
    /\ asked' = NoAsk
    /\ alone' = TRUE
    /\ UNCHANGED <<stored, save, view, testing, left>>

-----------------------------------------------------------------------------
(* Test connection                                                         *)

Testable(f) ==
    /\ typed[f] # None \/ onFile[f]
    /\ f = "llm" => /\ draft.provider # None
                    /\ Model(draft) # None
                    /\ draft.provider = "custom" => draft.endpoint # None

(* runLlmTestConnection and runExaTestConnection: a blank field asks for   *)
(* the stored key. A test may be sent while another is under way.          *)
TestConnection(f) ==
    /\ Ready
    /\ Testable(f)
    /\ Click
    /\ \E t \in Tests :
        /\ tests[t] = NoTest
        /\ tests' = [tests EXCEPT ![t] =
              [NoTest EXCEPT !.field = f, !.key = typed[f],
                 !.provider = IF f = "llm" THEN draft.provider ELSE None,
                 !.model = IF f = "llm" THEN Model(draft) ELSE None,
                 !.endpoint = IF f = "llm" THEN draft.endpoint ELSE None]]
    /\ status' = [status EXCEPT ![f] = "loading"]
    /\ UNCHANGED <<stored, save, view, onFile, form, saving>>

(* Whether there is such a model: a custom vendor is its endpoint.         *)
Serves(provider, endpoint, model) ==
    <<provider, IF provider = "custom" THEN endpoint ELSE None, model>> \in Served

(* The route uses the stored key of the provider named, if none is sent.   *)
(* Any answer but ok, that of the rate limit too, is shown as a failure,   *)
(* as no answer is.                                                        *)
ServeTest(t) ==
    LET asks == tests[t]
        key == IF asks.key # None THEN asks.key
               ELSE IF asks.field = "exa" THEN exaKey ELSE StoredKey(asks.provider)
        answers == IF asks.field = "exa" THEN TestExa(key # None, key \in Genuine)
                   ELSE TestLlm(asks.provider, asks.endpoint \notin Unsafe, key # None,
                                key \in Genuine,
                                Serves(asks.provider, asks.endpoint, asks.model))
    IN  /\ asks # NoTest
        /\ "ok" \in answers
        /\ tests' = [tests EXCEPT ![t].passed = TRUE]
        /\ UNCHANGED <<stored, save, view, onFile, form, saving, status, left>>

(* The answer arrives, or the fetch fails, which is shown as an answer.    *)
ShowResult(t) ==
    /\ tests[t] # NoTest
    /\ status' = [status EXCEPT ![tests[t].field] =
                    IF tests[t].passed THEN "ok" ELSE "failed"]
    /\ tests' = [tests EXCEPT ![t] = NoTest]
    /\ UNCHANGED <<stored, save, view, onFile, form, saving, left>>

-----------------------------------------------------------------------------
Form ==
    \/ \E p \in Providers \cup {None} : ChooseProvider(p)
    \/ \E m \in Names \cup {Other} : ChooseModel(m)
    \/ \E m \in Names \cup {None} : TypeModel(m)
    \/ \E e \in Endpoints \cup {None} : TypeEndpoint(e)
    \/ \E f \in Fields, k \in Keys \cup {None} : TypeKey(f, k)
    \/ \E f \in Fields : ClearKey(f)

Quiet(f) == \A t \in Tests : tests[t].field # f

(* A test stands while the user leaves the field alone and a save would    *)
(* leave what it would have left when the test was sent, if no other test  *)
(* of the field was under way then and its key was not to be cleared.      *)
Started == {f \in Fields : Quiet(f) /\ f \notin clear /\ \E t \in Tests : tests'[t].field = f}
Touched(f) ==
    left' # left /\ (typed'[f] # typed[f] \/ clear' # clear \/ (f = "llm" /\ draft' # draft))
Lasting == {f \in sure : WouldLeave[f]' = WouldLeave[f] /\ ~Touched(f)}
Overtaken == {f \in Fields : Cardinality({t \in Tests : tests'[t].field = f}) > 1}
Watch == sure' = (Started \cup Lasting) \ Overtaken

Next ==
    /\ \/ Load
       \/ Form
       \/ SaveSettings
       \/ SaveElsewhere
       \/ \E w \in Saves : ServeSave(w)
       \/ \E w \in Saves : EndSave(w)
       \/ EndSaving
       \/ \E f \in Fields : TestConnection(f)
       \/ \E t \in Tests : ServeTest(t)
       \/ \E t \in Tests : ShowResult(t)
    /\ Watch

Spec == Init /\ [][Next]_vars

-----------------------------------------------------------------------------
(* Properties                                                              *)

(* Every variable holds a value of its type.                               *)
TypeOK ==
    /\ rows \in [Providers -> Row \cup {None}]
    /\ default \in Providers \cup {None}
    /\ exaKey \in Keys \cup {None}
    /\ save \in [Saves -> Save]
    /\ view \in {"loading", "failed", "ready"}
    /\ draft.provider \in Providers \cup {None}
    /\ Model(draft) \in Names \cup {None}
    /\ typed \in [Fields -> Keys \cup {None}]
    /\ clear \subseteq Fields
    /\ mine \in Saves \cup {None}
    /\ status \in [Fields -> {"idle", "loading", "ok", "failed"}]
    /\ sure \subseteq Fields

(* saveSettings and updateSettings together: when no other tab saves       *)
(* meanwhile, a save that is answered has stored what the page showed when *)
(* it was clicked, with the stored key of that provider under a blank      *)
(* field, whatever was typed or tested while it ran.                       *)
SavedAsShown == answer \notin {None, Refused} /\ alone => Kept = asked

(* However the saves of several tabs overlap, a vendor's row that is there *)
(* after a commit holds the key it had, or one sent for it, never another  *)
(* vendor's; and a row goes, with its key, only to a save that names       *)
(* another vendor or none.                                                 *)
KeyOnPurpose ==
    \A p \in Providers : rows'[p] # rows[p] =>
        \/ rows'[p] # None /\ rows'[p].key = StoredKey(p)
        \/ \E w \in Saves : /\ save[w].at = "written" /\ save[w].body.provider = p
                            /\ save[w].body.llmKey # "keep"
                            /\ rows'[p] # None
                            /\ rows'[p].key = Applied(save[w].body.llmKey, None)
        \/ \E w \in Saves : /\ save[w].at = "written" /\ save[w].body.provider # p
                            /\ rows'[p] = None
LlmKeyOnPurpose == [][KeyOnPurpose]_vars

(* What "Connected" is worth, if the user has not touched the section      *)
(* since the test was sent, what a save would store has not changed, and   *)
(* no other test ran over it. Exa: the key is genuine. LLM: the vendor, at *)
(* an endpoint that is safe, has the model; and unless the vendor's        *)
(* adapter is a stub, which no settings make work, the snapshot's call     *)
(* with what a save gives, or has given, completes. For a vendor that      *)
(* lists its models to anybody, nothing is said of the key: such a vendor  *)
(* must remain a stub, or be probed in another way.                        *)
Earned(row) ==
    LET known == Serves(row.provider, row.endpoint, row.model) IN
    /\ known
    /\ row.endpoint \notin Unsafe
    /\ row.provider \in Stubs \/ Completes(row.provider, row.key \in Genuine, known)
Vouched(f) ==
    LET saved == WouldLeave[f] IN
    IF f = "exa" THEN saved \in Genuine ELSE saved # None /\ Earned(saved)
ConnectedIsEarned == \A f \in sure : status[f] = "ok" => Vouched(f)
=============================================================================
