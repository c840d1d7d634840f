---------------------------- MODULE LlmSettings ----------------------------
(***************************************************************************)
(* The LLM half of one tenant's settings: its rows of `llm_config`, the    *)
(* default provider kept in tenants.settings, and the saves of the         *)
(* settings page that change them (updateSettings and readSettings of      *)
(* lib/settings-service.ts), each in a READ COMMITTED transaction of its   *)
(* own, with the Exa key that the same save writes. The snapshot reads the *)
(* rows through lib/config-resolver.ts.                                    *)
(* A save is one the page sends: it always names a provider or null, and   *)
(* always thresholds, whose upsert locks the tenant's exa row.             *)
(***************************************************************************)
EXTENDS Naturals, FiniteSets

CONSTANTS Providers,   \* LLM vendors, among them "custom"
          Names,       \* model ids
          Endpoints,   \* endpoint URLs a user may enter
          Keys,        \* API keys a user may enter
          None,        \* no key, no endpoint, no row, no provider
          Saves        \* slots for concurrent PUT /api/settings

ASSUME NoneAssumption == None \notin Providers \cup Names \cup Endpoints \cup Keys
ASSUME KeywordsAssumption == {"keep", "clear"} \cap Keys = {}

VARIABLES
    rows,      \* the committed row of each provider, or None
    default,   \* defaultLlmProvider, or None
    exaKey,    \* the committed Exa key
    save       \* each save under way

stored == <<rows, default, exaKey>>

Row == [model : Names, endpoint : Endpoints \cup {None}, key : Keys \cup {None}]
Request == Keys \cup {"keep", "clear"}
Body == [provider : Providers \cup {None}, model : Names \cup {None},
         endpoint : Endpoints \cup {None}, llmKey : Request, exaKey : Request]

ASSUME RowAssumption == None \notin Row

(* A slot: where its transaction is, what it was asked, the Exa key it     *)
(* read when it opened, the row it has written and those it has deleted.   *)
Save == [at : {"idle", "open", "written"}, body : Body,
         seen : Keys \cup {None}, row : Row \cup {None}, gone : SUBSET Providers]
NoBody == [provider |-> None, model |-> None, endpoint |-> None,
           llmKey |-> "keep", exaKey |-> "keep"]
NoSave == [at |-> "idle", body |-> NoBody, seen |-> None, row |-> None, gone |-> {}]

Present(rs) == {p \in Providers : rs[p] # None}

(* A row that was saved: custom has an endpoint, the others have none.     *)
SavedRow(p, row) == p = "custom" <=> row.endpoint # None

(* What the page's own checks let through.                                 *)
Sendable ==
    {body \in Body : body.provider # None =>
        body.model # None /\ SavedRow(body.provider, body)}

SettingsInit ==
    /\ \/ default = None /\ rows = [p \in Providers |-> None]
       \/ \E p \in Providers, row \in Row :
            /\ SavedRow(p, row)
            /\ default = p
            /\ rows = [q \in Providers |-> IF q = p THEN row ELSE None]
    /\ exaKey \in Keys \cup {None}
    /\ save = [w \in Saves |-> NoSave]

(* Mutant: only clearing is told apart.                                    *)
AppliedRaw(request, old) == IF request = "clear" THEN None ELSE request

(* What a save makes of a stored key.                                      *)
Applied(request, old) ==
    CASE request = "clear" -> None
      [] request = "keep" -> old
      [] OTHER -> request

-----------------------------------------------------------------------------
(* updateSettings                                                          *)

(* The transaction opens and reads provider_config and tenants.settings.   *)
Open(w, body) ==
    /\ save[w] = NoSave
    /\ save' = [save EXCEPT ![w].at = "open", ![w].body = body, ![w].seen = exaKey]
    /\ UNCHANGED stored

Locked(w) == \E v \in Saves \ {w} : save[v].at = "written"

(* Mutant: the key is merged with the row of the default provider.         *)
WriteDefaultsKey(w) ==
    LET body == save[w].body
        old == IF default = None THEN None ELSE rows[default]
    IN  /\ save[w].at = "open"
        /\ ~Locked(w)
        /\ save' = [save EXCEPT
              ![w].at = "written",
              ![w].row = IF body.provider = None THEN None ELSE
                 [model |-> body.model, endpoint |-> body.endpoint,
                  key |-> Applied(body.llmKey, IF old = None THEN None ELSE old.key)],
              ![w].gone = Present(rows) \ {body.provider}]
        /\ UNCHANGED stored

(* Mutant: the saves do not wait for each other.                           *)
WriteUnlocked(w) ==
    LET body == save[w].body
        old == IF body.provider = None THEN None ELSE rows[body.provider]
    IN  /\ save[w].at = "open"
        /\ save' = [save EXCEPT
              ![w].at = "written",
              ![w].row = IF body.provider = None THEN None ELSE
                 [model |-> body.model, endpoint |-> body.endpoint,
                  key |-> Applied(body.llmKey, IF old = None THEN None ELSE old.key)],
              ![w].gone = Present(rows) \ {body.provider}]
        /\ UNCHANGED stored

(* The first upsert waits for a save that holds the exa row. Then the row  *)
(* of the provider is read, for the key a save may keep, and upserted, and *)
(* the rows of the other providers, or all of them, are deleted.           *)
Write(w) ==
    LET body == save[w].body
        old == IF body.provider = None THEN None ELSE rows[body.provider]
    IN  /\ save[w].at = "open"
        /\ ~Locked(w)
        /\ save' = [save EXCEPT
              ![w].at = "written",
              ![w].row = IF body.provider = None THEN None ELSE
                 [model |-> body.model, endpoint |-> body.endpoint,
                  key |-> Applied(body.llmKey, IF old = None THEN None ELSE old.key)],
              ![w].gone = Present(rows) \ {body.provider}]
        /\ UNCHANGED stored

(* The default is the provider saved, or is removed, and all is committed. *)
(* The Exa key kept is the one that was read when the transaction opened.  *)
Commit(w) ==
    LET s == save[w] IN
    /\ s.at = "written"
    /\ rows' = [p \in Providers |-> IF p = s.body.provider THEN s.row
                                    ELSE IF p \in s.gone THEN None ELSE rows[p]]
    /\ default' = s.body.provider
    /\ exaKey' = Applied(s.body.exaKey, s.seen)
    /\ save' = [save EXCEPT ![w] = NoSave]

Abort(w) ==
    /\ save[w] # NoSave
    /\ save' = [save EXCEPT ![w] = NoSave]
    /\ UNCHANGED stored

-----------------------------------------------------------------------------
(* The two readers of the rows. Their order is that of random ids.         *)

(* readLlmRow: without a default, the first row; else the default's.       *)
ServicePicks ==
    CASE Present(rows) = {} -> {None}
      [] Present(rows) # {} /\ default = None -> Present(rows)
      [] OTHER -> {IF default \in Present(rows) THEN default ELSE None}

(* fetchLlmRow: the default's row if there is one, else the first row.     *)
ResolverPicks ==
    CASE Present(rows) = {} -> {None}
      [] default \in Present(rows) -> {default}
      [] OTHER -> Present(rows)

(* What GET and PUT answer.                                                *)
Shown(p) ==
    [provider |-> p,
     model |-> IF p = None THEN None ELSE rows[p].model,
     endpoint |-> IF p = None THEN None ELSE rows[p].endpoint,
     onFile |-> [llm |-> p # None /\ rows[p].key # None, exa |-> exaKey # None]]

-----------------------------------------------------------------------------
(* Properties                                                              *)

(* The settings page and the snapshot find the tenant's default LLM, or    *)
(* none once it is removed, whatever saves overlap or fail: readSettings   *)
(* and getLlmConfig fall back in different ways when rows and default      *)
(* disagree.                                                               *)
ReadersAgree == ServicePicks = {default} /\ ResolverPicks = {default}

(* createLlmAdapter throws on a custom row without an endpoint. The route  *)
(* accepts one: only the page's check keeps it out.                        *)
RowsAreServable == \A p \in Present(rows) : SavedRow(p, rows[p])
=============================================================================
