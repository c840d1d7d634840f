# Verification of the HubSpot account-plan app

TLA+ models of the API of this repository (`apps/api`) and of its HubSpot UI
extension (`apps/hubspot-extension`), the TLC runs that check them on small instances, and TLAPS proofs of their main invariants for every
value of the constants. All paths below are relative to `src/`.

## 1. The system

A HubSpot UI extension (`apps/hubspot-extension`) calls a Hono API
(`apps/api`) that runs as short-lived functions, several instances at once,
against one Postgres database (`packages/db`). Nothing is shared between
instances but the database: every cache is in a process. Every remote service
(HubSpot, Trigify, Exa, the LLM providers) is reached by plain HTTP calls that
may fail, or succeed and lose their answer.

| Component | State | Operations | Where |
|---|---|---|---|
| Tenant lifecycle | rows of `tenants`, `tenant_hubspot_oauth` | OAuth callback, `app_install` / `app_uninstall` webhooks, `deactivateTenant`, `reactivateTenant` | `routes/oauth.ts`, `routes/lifecycle.ts`, `lib/tenant-lifecycle.ts` |
| HubSpot client | an in-memory token per request | read the token, refresh, re-read after a refusal, deactivate | `lib/hubspot-client.ts` |
| Credit-spend gate | rows of `trigify_monitors` | plan, subscribe, pause, delete | `services/trigify/monitor-manager.ts`, `drizzle-monitor-store.ts`, `routes/settings-trigify.ts` |
| Request pipeline | rows of `signed_request_nonce`, one transaction per request | signature and timestamp check, tenant lookup, nonce, handler, release or abort; scheduled sweep | `app.ts`, `middleware/*`, `lib/tenant-tx.ts`, `lib/replay-nonce.ts` |
| Settings and config cache | rows of `provider_config`, `llm_config`, the default LLM in `tenants.settings`; a cache per process | read, save, invalidate | `lib/settings-service.ts`, `lib/config-resolver.ts`, `lib/cache-adapter.ts` |
| Connection test | none | probe a vendor with a draft or with the stored key | `lib/settings-connection-test.ts`, `routes/settings-test-connection.ts` |
| Trigify poller | rows of `signals`, `company_signal_map` | scheduled poll of every tenant, match, upsert | `services/trigify/poller.ts`, `poll-deps.ts`, `company-match.ts`, `normalize.ts` |
| Snapshot pipeline | two eligibility caches per process | eligibility, signals, trust, hygiene, people, reason, next move | `routes/snapshot.ts`, `services/*` |
| Signal adapters | none | one HTTP call each (Exa, news), or a read of the poller's rows and their ranking (Trigify) | `adapters/signal/*`, `services/trigify/signal-ranking.ts` |
| LLM adapters | none | one HTTP call each (OpenAI, Anthropic, Gemini), or a rejection (OpenRouter and custom are stubs) | `adapters/llm/*` |
| Rate limiters | a token bucket per tenant and provider in each process | acquire | `lib/rate-limiter.ts`, `lib/test-connection-rate-limit.ts` |
| Bootstrap and admin | HubSpot's webhook subscriptions | create if missing, keep-alive | `lib/hubspot-subscription-bootstrap.ts`, `routes/admin/*` |
| Encryption, role guard, logging | caches for a process's lifetime | encrypt, decrypt, check the role once | `lib/encryption.ts`, `lib/kek.ts`, `lib/db-role-guard.ts`, `lib/observability.ts` |
| Extension: card | React state of two hooks and the open evidence | show a record, fetch, open and close evidence | `apps/hubspot-extension/src/shared`, `src/features/snapshot` |
| Extension: settings page | the draft of the form, the status of the tests | load, edit, test, save | `src/settings/settings-page.tsx`, `use-settings.ts`, `api-fetcher.ts` |
| Extension: Trigify monitors | the list, the plan on offer | preview, confirm, pause, resume, delete, reload | `src/settings/trigify-settings.tsx`, `trigify-api-fetcher.ts` |

How they interact. Every `/api` request passes the pipeline and then runs its
handler in one READ COMMITTED transaction that ends when the handler does. Token
refreshes, monitor rows and settings are written in that transaction, while the
remote calls in between are not undone when it rolls back. The OAuth callback,
the webhooks and the scheduled jobs stay outside the chain and commit on their
own. The extension calls the API through `hubspot.fetch`, which gives up after at
most fifteen seconds, while the function it called runs on. Deactivation and settings saves drop the configuration cache of the
instance they happen to run on.

What is hard. Two instances acting on one tenant at once (refresh, webhook,
callback, subscribe, save); state read before a remote call and used after it;
remote effects that survive a rollback; deliveries that are repeated, late or
out of order; caches that are told of a change before it is committed or not at
all; a page whose answers arrive after the user has gone on. `PROJECT.json` lists each hazard at its line with the properties that cover it.

What makes each component correct:

- lifecycle: an uninstall takes effect, deleted credentials stay deleted, the
  stored token never goes backwards, a healthy tenant stays active;
- spend gate: no spend without a budget, a bounded overrun, no row without a
  spend, no double payment, budget never given back;
- pipeline: a signed request takes effect at most once, and is refused as a
  replay only when it did;
- settings: a save changes what it names and nothing else, the settings page and
  the snapshot choose the same LLM row, and no cache serves a configuration that
  is out of date by more than its TTL;
- poller: an item leaves a row or an error, a signal is filed only under a company
  that something leads to, a redundant poll takes no company away;
- eligibility: an answer is never older than the cache's TTL, however checks
  overlap and answers are delayed;
- snapshot: nothing restricted or untrusted reaches the reason, a missing reason
  is explained by the flags, and more signals never make a company weaker;
- card: no record is shown with another's snapshot, evidence never stays open
  across snapshots, and every swap of the record is answered;
- settings page: what is stored is what was shown, "Connected" that stands means
  that the vendor has the model and, where the adapter is not a stub, that the
  snapshot's call completes; no vendor's row takes a key that was not meant for it,
  and none is deleted but by a save of another vendor or none;
- monitors page: every credit answers a click, a calm page pays once, no monitor
  is announced that is not there.

## 2. The modules

`MC*.tla` extend a module and define only its symmetry sets and the values of its
larger constants. `*Proofs.tla` extend
a module and hold its theorems. In every module a definition introduced by
"Mutant:" is the next one with a plausible bug; no specification uses it. The
mutants show that the property they are listed with in `PROJECT.json` depends on
the code behaving as modelled.

### TenantLifecycle

One portal, its two rows, and the agents that write them. An OAuth callback is
`Exchange` (code exchanged, nothing stored), `UpsertTenant` (step 4 of
`routes/oauth.ts`), `StoreTokens` (steps 5 and 6), or `FailCallback` between any
two. A webhook delivery ignores an unknown portal, reactivates, or runs
`deactivateTenant` as `DeactivateUpdate`, `DeactivateDelete`, `CommitUninstall`;
a delivery that fails leaves the event with HubSpot, and one that succeeds may
lose its answer (`Acknowledge`). A request is admitted by the tenant middleware
and may refresh any number of times: `BeginRefresh` presents the token it read,
HubSpot rotates it (`RefreshOk`, `RefreshLost`), errs, or refuses it;
`PersistRotation` is the UPDATE at the end of `performTokenRefresh`,
`RereadAfterRefusal` its error path. Row locks (`lockT`, `lockO`) belong to the
transaction that wrote, uncommitted contents are in `newO`, `View` is what a
statement of a transaction reads, and `Deadlocked` is the cycle Postgres breaks.
A token is the install it descends from and its place in the chain of rotations.
The token's expiry is abstracted: a request may refresh whenever there is a row.

### MonitorSpend

The monitors of one tenant. `Begin` opens a request's transaction and fixes its
`now()`. `subscribe` is `Plan` (lookup and confirm), `CountDaily` and
`CountMonthly` (two statements of `checkBudget`, each seeing what is committed
then), `Charge` / `ChargeLost` / `ChargeRefused` (the remote call), `Insert` or
`InsertRefused`. `SetStatus` is `updateStatus` for pause and delete. `Finish`
commits, `Rollback` is everything else that ends a transaction. A failed insert
dooms the transaction, so the answer the route prepares is followed by a
rollback. A target stands for a (monitor type, URL) pair; time is a day and the
first day of its month.

### AtMostOnce and RequestTx

`AtMostOnce` is the promise: the writes of each signed request are committed at
most once. `RequestTx` is the chain that keeps it: `Authenticate` (timestamp
window), `BeginTx`, `RecordNonce` / `RefuseReplay` (INSERT ... ON CONFLICT, which
waits for an uncommitted row with the same key), `Handle` (a throw resolves like
a return, a failed statement dooms the transaction), `Release` (nonce and effects
commit together), `Drop` (everything that leaves nothing behind), `Sweep`. The key
is the timestamp and the body's hash, so two different requests may share it.
`Tick` never passes the maximum duration of a function under way.

### ProviderSettings

One column, the API key, of one row of `provider_config`; the other columns are
merged in the same way. `ReadRow`, `Upsert`, `Invalidate`, `Commit` are
`updateSettings` and the end of its request, in the code's order: the cache is
dropped before the commit. `Load`, `Fetch`, `Store` are `getProviderConfig`, whose
SELECT and the write of the entry are apart. `Flush` is an invalidation without a
save (deactivation, a recycled process).

### TrigifySignals and TrigifyPoll

`TrigifySignals` is what one feed item becomes: the names `TYPE_MAP` accepts, the
taxonomy, the LinkedIn URL an item is matched by, the canonical record and its
dedupe key. A URL is the page it leads to with the form it is written in, so that
two spellings of one page differ until they are normalised. `TrigifyPoll` is the
scheduled poll, several at once: `ListEnabledTenants`, then per tenant `ReadFeed`
or `SkipTenant`, per item `SkipItem` (unknown type) or `BeginMatch`, `LookupUrl`,
`LookupDomain`, `SearchCompany`, `WriteAlias` (`matchCompany`, one statement or
call each), `FailMatch` (its `catch`, where the item goes on without a match),
`UpsertSignal` / `UpsertFails`; `Kill` is the platform's time limit. Every
statement commits by itself. The feed answers any of `Pages` at each read, HubSpot
any company of `Answers` for a domain, or none: both change between reads. A row
keeps the item it was made from and its company; the other columns are functions
of the item. Whether the connection's role obeys row-level security is a
constant, because the listing of tenants runs with no tenant set.

### Eligibility

The gate of a snapshot for one company. `Begin` reads the clock and the cached
name of the property, `Resolve` reads the settings when there is none, `Lookup`
caches the name and looks for a verdict, `Ask` is HubSpot's reading, `Store` the
arrival of its answer, `Return` the end: the waits of `checkEligibility` lie
between them, so two checks interleave at each. The tenant edits the company
(`Retarget`) and the name (`Rename`) at any time, `Restart` loses the caches.
`lastTarget` and `lastNamed` record when each value was last true.

### SignalRanking, EvidenceTrust and Snapshot

`SignalRanking` computes the evidence the store adapter projects from the poller's
rows: the strength of each target's signals, under ranking settings that are
parsed whole or not at all. `EvidenceTrust` is the sifting of evidence, as
operators over a sequence of rows: deduplication, freshness, confidence, lists,
flags, and the two choices of a dominant row, by the reason and by the next move.
Ages are in half-days, so that the floor in `evaluateFreshness` and the exact limit
in `extractDominantSignal` differ; negative ages are the future. A host is the
sequence of its labels, so that matching a pattern is `IsSuffix`. The powers of
one half are a constant operator, which an instance gives for its ages. Weights and
factors are whole percents, recency, strength and confidence per mille; `Conforms` is
what the schema asks of the settings and `Merged` lays them over the defaults.

`Snapshot` is one request over them: `ResolveProviders` (the handler reads the
tenant's providers), `Gate` (any answer of `Eligibility`), `Fetch` (the composed adapters,
of which one failure fails all), `Sift`, `Reason`, `Contacts`, `NextMove`, `Reply`;
`Poll` is the poller storing a signal meanwhile. Requests share the gate's caches and
the rate limiters only, so one request is enough: what the caches do is
`Eligibility`, and a limiter's refusal is a failure of `Fetch`. `told` records the
rows the prompts name. No adapter of the route marks a row restricted today; the
assembler guards against one because the `ProviderAdapter` contract allows it,
and the instance has one. No poller sets `hs_contact_id`, so the branch of
`rankContacts` that depends on it is never taken and the order of contacts is
left out.

### LatestAnswer and SnapshotCard

`LatestAnswer` is what a data hook promises: it stands by the outcome of its last
fetch and of no other. `SnapshotCard` is `ExtensionRoot` with its two hooks, twice
that promise. `Swap` is the host putting another record under the card,
`Retrigger` any other change of a hook's inputs, `RunEffects` what React does a
little after the render: the clean-up of the effects whose inputs changed and
their next fetches. In between the card has the new record's id and the old one's
data. `Settle` is the end of a fetch: `Arrive`, `Fail`, or `Ignore` when its
effect was cleaned up. Only `useSnapshot` drops its value at the start of a fetch;
`useCompanyContext` keeps the old properties. `Screen` is the view that is
rendered, `Visible` and `DrillIn` the evidence of the person opened with `Click`,
and `Rerender`, part of every action, unmounts the eligible view with its state
when another takes its place.

### MonitorPanel

The monitors section of the settings page, over the spend gate: it extends
`MonitorSpend`, and each request of the page is a request of the gate. `Preview`,
`Confirm` and `Change` send one; `Serve` is a step of the gate with what the
handler decides to answer; `Receive` is the answer's arrival, `GiveUp` the page
giving up on it, after which the request runs on as nobody's. `ReadList` and
`ShowList` are the reload that follows every change, several at once. A plan is
kept only while it offers its confirmation, because only then does it lead to
anything. `DrivesTheGate` (proved) says that every step of this module is a step
of `MonitorSpend` or leaves the ledger alone, so what holds of the gate holds here.

### LlmSettings, ConnectionTest and SettingsPage

`LlmSettings` is the LLM half of `updateSettings`, which `ProviderSettings` leaves
out: `Open` begins a save's transaction and reads the Exa row, `Write` is the rest
of it in one step, `Commit` and `Abort` its end. One step is enough because the
upsert of the exa row, made by every save of the page, locks that row until the
end: saves write one after another. The LLM key is read under that lock, the Exa key
before it. `ServicePicks` and `ResolverPicks` are the two ways a row is chosen, by
the settings page and by the snapshot.

`ConnectionTest` is a test's answer, as operators: what each vendor may reply to
a key and a model (`Replies`), how a probe judges the reply, the guards before
it, and whether the adapter's own call would complete (`Completes`). The probes of
OpenAI, Anthropic and Gemini are taken to be refused without a good key, as the
comments of `testLlmConnection` and `probeGemini` say; nothing shows that of
OpenRouter's list of models, which is public, or of a custom server's, so these may
answer any key (`OpenListing`). A custom vendor is its endpoint: which models there
are depends on it (`Serves`). `SettingsPage` is one page over both, while other tabs save
(`SaveElsewhere`): `Load`, the edits (`ChooseProvider`, `ChooseModel`, `TypeModel`,
`TypeEndpoint`, `TypeKey`, `ClearKey`), `SaveSettings` to `EndSaving`,
`TestConnection` to `ShowResult`. The Trigify key field has the Exa field's handlers
and is left out with the toggles, the thresholds and the property's name, which
are sent as they stand.

## 3. The runs

| Run | Instance | Shows |
|---|---|---|
| `lifecycle_safety` | 2 requests, 1 delivery, 2 callbacks, 2 installs, 3 tokens per install | `RefreshNeverResurrects`, `NoTokenRegression`, `OrderlyTenantStaysActive` |
| `lifecycle_liveness` | 1 request, 1 delivery, 1 callback | `UninstallTakesEffect` under `FairSpec` |
| `monitor_spend` | 2 requests, 3 targets, cap 1 or none for day and month, 1 midnight, 2 charges per target | `OverrunIsBounded`, `OrderlyWithinBudget`, `OrderlyPaidOnce`, `UnsetBudgetNeverSpends`, `EveryRowPaid`, `CountedStaysCounted` |
| `request_tx` | 2 messages with any timestamps and bodies, 2 deliveries at once, 8 minutes, window 2, keep 4 | `TakesEffectAtMostOnce` (refinement of `AtMostOnce`), `RefusalIsBacked` |
| `provider_settings` | 2 instances, 2 saves, 1 load, 1 key or none, TTL 2, 3 minutes | `CachedWasCurrent`, `SavedKeyIsServed`, `SaveOfOtherFieldsKeepsKey` |
| `trigify_poll` | 2 polls, 3 pages of 5 items of 4 kinds, 1 enabled tenant of 2, 2 companies | `AssignedIsBacked`, `NothingSkipped`, `RepollKeepsCompany` |
| `trigify_poll_rls` | same, both enabled, a role that obeys row-level security | violation of `EnabledTenantsAreListed` |
| `eligibility` | 2 checks, 2 properties, TTL 2, 3 ticks, 1 edit | `EligibleRecently`, `NamedRecently` |
| `snapshot` | 5 sets of providers, 4 answers of Exa and 3 of the news, 4 signals, 4 contacts | `NothingHiddenIsSaid`, `ReasonIsTrusted`, `SilenceIsExplained`, `MoreSignalsNeverWeaken`, `RequestTypeOK` |
| `snapshot_card` | 2 records, 2 people, 2 rows, 7 bodies, 3 fetches of each hook | `ShownIsCurrent`, `DrillInIsVisible`, `OpenStaysOnItsSnapshot`, `HooksAreLatest` (refinement of `LatestAnswer`), `SwapIsAnswered` under `FairSpec` |
| `monitor_panel` | 2 requests, 2 reads of the list, 1 target, caps of 2 or none, one day, 2 confirmations | `EveryCreditConfirmed`, `CalmPagePaysOnce`, `CreatedIsTrue`, `ListIsCurrent` |
| `settings_page` | 2 vendors, 2 models, 2 endpoints (1 unsafe), 2 keys (1 genuine), 2 saves, 2 tests, 3 bodies of other tabs, 4 clicks | `SavedAsShown`, `ConnectedIsEarned`, `ReadersAgree`, `RowsAreServable`, `LlmKeyOnPurpose`, `TypeOK` |

Why the bounds are enough. Every race listed among the hazards is between two
agents, so each kind that can race with itself has two slots; slots are reused
without limit, so a run has any number of requests, one after another. Two installs
are an uninstall and a re-install, three tokens per install two rotations, the
shortest chain in which a late writer could go backwards. Three targets with a
cap of one let two concurrent confirms overrun it and a third try again. Eight
minutes let a message be delivered, remembered, swept and delivered again on both
sides of its window. TTL 2 in three minutes lets an entry outlive a save on the
other instance and expire. The five feed items are one that is matched by page or
domain, one event in two spellings (with and without the company Trigify knows), a
signal that leads nowhere and one of a type nobody maps; polls of one tenant
overlap, and the second tenant, which is not enabled, must stay untouched. One edit is
what a cached value can miss; with TTL 2 a check that waits over a tick stores an
entry that outlives neither. The rows of `snapshot` are a fresh one and a copy of it,
one just inside the last day, one of the future, one of a blocked host, one of an
invalid one and a restricted one; its signals are two observable ones that differ
in weight and age, a derived one and one out of the window; its providers have no
model, one provider, both, with thresholds in and out of bounds, and ranking
settings that are taken or refused. Three fetches of a hook are the first record's,
the swap's and the one of a swap back, so that two late answers, one for the record
shown again, can meet the third. One target is enough for `monitor_panel`, since
targets meet only in the caps, which `monitor_spend` has with three; its two
confirmations are the credit that was meant and one more. Four clicks are an edit
or two, a save and a test, in any order and shared with the other tabs, whose bodies
are one without an LLM, one that keeps its key and one with a key of its own. Of the
two vendors of `settings_page` one has a catalog, an adapter and a probe that needs
the key, the other, custom, has none of the three. The
proofs lift these bounds for what they cover.

`CHECK_DEADLOCK FALSE` is set where the system may really stop. `MaxInstalls` and
`MaxSerial` bound the portal's life, `MaxAsks` and `MaxClicks` what users do; and a
page whose settings or list could not be read stays as it is until it is opened
again. Type invariants that are proved are not run again, except those of
`SettingsPage` and of `Snapshot`, whose types say most about the composition.

History variables. `orderly`, `raced`, `overlap`, `clean`, `calm`, `inOrder`,
`alone` and `sure` record whether the circumstances in which the code is known to
fail have occurred, `lost` and `listed` what a poll reported; the properties that
mention them say what holds otherwise. They are never read by an action's guard.
Each is as narrow as TLC allowed: `orderly` in `MonitorSpend`, for instance, ends
at the first overlap of two requests, with each other or with midnight, at a
charge whose insert is lost, and at a re-subscription.

Fairness. Only `lifecycle_liveness` and `snapshot_card` need it. In the first,
requests end, because a function has a maximum duration (`WF` of `Finish \/ Abort`).
HubSpot delivers an event again until it sees a 200, so a delivery that can start
infinitely often does (`SF` of `BeginUninstall`), its statements get a row lock that
is freed again and again (`SF`), and a delivery is killed only finitely often.
Nothing is assumed of users, of requests arriving, or of the order of events. In
the second, React runs effects that are due (`WF` of `RunEffects`) and a fetch of
each hook ends (`WF` of its settling): `hubspot.fetch` gives up after fifteen
seconds, and the host's `fetchCrmObjectProperties` is assumed to answer. `MaxAsks`
ends the swaps, and `SwapIsAnswered` says what must follow the last one.

### What the violation run found

`trigify_poll_rls`: `poll-deps.ts` selects the enabled tenants on the raw
connection, with no `app.tenant_id` set; under the role the guard demands in
production (`lib/db-role-guard.ts`) the policy of `provider_config` shows no
row, so the poll reports success and polls nobody.

### Where the code is known to fall short, without a run

These were met while modelling; unless it says otherwise the models have the
behaviour and no property forbids it.

In the API:

- The check that tells a refresh race from a revocation (`hubspot-client.ts:286`)
  reads the row before the winner has committed it, so the race that
  `lib/__tests__/hubspot-client.test.ts:318` calls harmless deactivates the tenant.
- A deleted monitor's row is no duplicate for the plan but violates the unique
  constraint after the credit was charged (`monitor-manager.ts:302`, `:484`), against
  the rule at `monitor-manager.ts:25`; the route answers with a spend of 0
  (`routes/settings-trigify.ts:218`).
- Two saves that overlap merge into the same old row (`settings-service.ts:271`),
  so a save of other fields undoes a key rotation, against the comment at line 322.
- A save that sends an LLM key and no provider (`settings-service.ts:454`) may
  bring back a row another save deletes; the page never sends one.
- A save does not run the SSRF guard, only a test and the factory do
  (`adapters/llm/factory.ts:110`): an unsafe endpoint is stored and the snapshot's
  factory throws.
- The poller reads the first fifty items of a feed (`poller.ts:110`), and a transient
  failure caches the degraded plan limits for the whole TTL (`plan-limits.ts:74`,
  not modelled).
- An uninstall webhook between the two transactions of the OAuth callback
  (`routes/oauth.ts:274`) leaves credentials of an inactive tenant, which
  `docs/security/SECURITY.md:613` says are removed.
- `checkEligibility` swallows every error (`eligibility.ts:199`), so revoked access is
  answered like a company without the property, where
  `docs/runbooks/tenant-offboarding.md:38` expects a 401.
- When the settings cannot be read the gate goes by the default property
  (`eligibility.ts:142`), and may call a company eligible by a property the tenant
  replaced. `NamedRecently` excepts it.
- The next move's prompt takes the surest row shown, fresh and assertable or not
  (`next-move.ts:52`), so it may speak of another signal than the reason.
- A derived signal's fixed confidence of 0.2 may exceed that of a weak observable
  one, against `adapters/signal/trigify.ts:22-25`; the assertable guard keeps it from
  being the reason all the same (`ReasonIsTrusted`).
- The ranking schema is strict (`trigify-ranking.ts:121`): keys of the monitor
  settings in the same JSON make the whole ranking fall back to the defaults.

`RepollKeepsCompany` holds only for a poll whose match did not fail. When HubSpot
is down, the upsert replaces a company found earlier by none
(`poller.ts:159`); it is listed among the hazards.

- The adapters of OpenRouter and of a custom vendor are stubs whose `complete()`
  always rejects (`adapters/llm/openrouter.ts:33`, `openai-compatible.ts:39`), and no
  test shows it: "Connected" is said of them although the snapshot's call cannot
  work. For OpenRouter it does not even speak of the key, since the probe only reads
  the public list of models (`settings-connection-test.ts:301` calls the check
  auth-gated). `ConnectedIsEarned` claims no more, and would be violated by an adapter
  written for either vendor while its probe stays as it is. The factory's own
  comment (`adapters/llm/factory.ts:12`) lists Anthropic and Gemini as stubs too,
  which they no longer are.

In the extension:

- Between the render of a swap and its effects the card shows the old record's
  snapshot under the new one. `ShownIsCurrent` says what holds once the effects ran.
- A failed fetch of the properties keeps the old ones, and its error hides a good
  snapshot (`extension-root.tsx:43`).
- `wireEvidenceSchema` strips fields the server sends (`use-snapshot.ts:16`), and the
  degraded warning quotes the first row of evidence whether restricted or not
  (`snapshot-state-renderer.tsx:76`); neither is modelled.
- The status of a test is not reset by an edit, a test while a clear is pending
  uses the stored key, "Stored key on file" is about the provider that was loaded,
  and edits made during a save are lost with the draft. A provider without a
  model makes the whole save a 400.
- `settings-entry.tsx` passes no `testConnection`, so tests go to
  `DEFAULT_API_BASE_URL` whatever the page itself talks to (not modelled).
- Reloads of the monitors are not ordered (`trigify-settings.tsx:113`), so an older
  list may be shown last; `ListIsCurrent` excepts reads that overlap.

## 4. The proofs

| Module | Theorems |
|---|---|
| `TenantLifecycleProofs` | `TypeCorrect`, `Invariance`, `NoResurrection`, `NoRegression`, `OrderlyStaysActive` |
| `MonitorSpendProofs` | `TypeCorrect`, `RowsArePaid`, `FailsClosed`, `NeverUncounted`, `BoundedOverrun`, `WithinBudget`, `PaidOnce`; of `MonitorPanel`: `DrivesTheGate`, `ConfirmedSpend`, `PanelTypeCorrect`, `CalmPaysOnce`, `CreatedMeansRow`, `ListCatchesUp` |
| `RequestTxProofs` | `TypeCorrect`, `RefusalsAreBacked`, `Refinement` |
| `TrigifyPollProofs` | `TypeCorrect`, `CompaniesAreBacked`, `ItemsAreStored`, `RepollReconfirms`, `RecordsAgree`, `SpellingsShareAKey` |
| `SnapshotProofs` | of `Eligibility`: `TypeCorrect`, `EligibilityIsRecent`, `NameIsRecent`; of `Snapshot`: `RequestTypeCorrect`, `HiddenIsSilent`, `TrustedReason`, `ExplainedSilence`, `NeverWeaker` |
| `ProviderSettingsProofs` | `TypeCorrect`, `BoundedStaleness`, `SavedIsServed`, `KeyIsKept` |
| `SnapshotCardProofs` | `TypeCorrect`, `NoOtherCompany`, `EvidenceCloses`, `HooksRefine`, `ZeroLeak` |
| `SettingsPageProofs` | `TypeCorrect`, `OneDefault`, `AlwaysServable`, `KeysOnPurpose`, `SavesWhatIsShown`, `ConnectedLasts` |

They hold for any sets of agents, targets, messages, instances and keys (finite
where a cardinality is taken) and do not use the bounds of the runs.
Assumptions, each named in its module: the kinds of agents are disjoint and the
null values distinct; `MonitorSpend` needs finite sets of requests and targets and
caps that are numbers; `RequestTx` needs `MarginAssumption`; `TrigifyPoll` needs
that enabled tenants are tenants, pages sequences of items, and the answers of
HubSpot and the feed companies; `SnapshotCard` that bodies are those the schema
lets through and `Nothing` is none of the values it stands beside; `LlmSettings` that
`None` is no provider, name, endpoint, key or row, and no key is one of the two
keywords of a request; `SettingsPage` that the catalog has models, other tabs send
what a page can send, unsafe endpoints are endpoints, vendors are among those of the
enum that `ConnectionTest` lists, a page has finitely many tests under way, and
`None` is no save, field or stored LLM; `Eligibility` that the default property is
one and `NotCached` no entry. `Snapshot` needs what the schemas and the adapters give
it: confidences are between 0 and 1, ages numbers, a row's key is no key of a stored
signal, a signal is known by its id and has finitely many topics
(`AnswersAssumption`, `SignalsAssumption`); thresholds are numbers and valid ranking
settings have no negative weight, as `packages/validators/src/trigify-ranking.ts` parses them
(`SetupsAssumption`); a power of one half of a signal's age is between 0 and 1
(`DecayAssumption`).

- **Lifecycle.** `NoTokenRegression` compares a row with a write decided long
  before, so it is not inductive. `MintedIsExclusive` carries it: an agent that
  was issued a token and has not written it is the only one to know it, because
  HubSpot rotates only the live token and nobody else can present that one before
  it is in a row. Every other copy of a token of that install is older, so when
  the write comes it moves the row forward; `GrantIsNewest` and `TokensAreReal`
  keep copies behind the grant across installs, `DirtyIsNewer` does the same for
  the uncommitted write, `LockedRowExists` for its row.
  `OrderlyTenantStaysActive` says that a tenant goes inactive by a request's hand
  only after a revocation, and the request decides that long before its commit.
  `OrderlyInv` follows the live token through an orderly history: one agent at a
  time holds a token that is about to be stored (`OneAtATime`) and it is the live
  one (`HoldersHoldGrant`); unless a rotation is yet to be stored, the row holds the
  live token too, and still would if the webhook that is deleting it rolled back
  (`RowHoldsGrant`); so HubSpot refuses nobody (`NobodyRefused`), and a request that
  still holds a lock of a deactivation has gone through one (`LocksAreKept`).
- **Spend gate.** `BoundedOverrun` is not inductive in terms of rows alone. The
  strengthening counts, per period, the rows together with the requests that have
  passed its check and will date their row in it; `ClocksAgree` keeps a request's
  day and month from being ahead of its transaction's. Admission needs rows below
  the cap, which leaves room for one credit per request slot.
- **Orderly spending.** `WithinBudget` and `PaidOnce` hold while requests follow one
  another. `OrderlyInv` says what that means for the state: one request is past
  its start, its clock is the transaction's, and what was charged has a row or is
  about to get one. `BudgetInv` adds that the charges of a period are at most its
  rows and the one being bought, and that this one was counted before.
- **Monitors page.** What the page adds to the gate is who asked: `PanelInv` says
  that a request is either unused or one the page sent (`Sent`), that its place in
  the gate fits the route it calls (`Served`), and that the credits spent on a
  target and the orders still open are no more than the clicks on it
  (`Confirmed`). `PanelStep` shows that each step is one of the gate's. `PageInv`
  carries the other three properties, with one lemma for each kind of step of a
  handler. For `CreatedIsTrue`, who answers "created" is the writer of the row until
  its commit (`WritersTell`). For `CalmPagePaysOnce`, every handler of a calm page has
  someone waiting, the page asks to buy one thing at a time, and a credit charged
  has its row or the request about to insert it (`CalmInv`). For `ListIsCurrent`, a
  change the list does not show has its answer on the way, or the read that
  follows it (`ListFollows`).
- **Pipeline.** `Refinement` rests on four facts: a delivery past the check knows
  how old its message can be; of the deliveries with one key one at most holds it,
  and no row of it is committed; every message that took effect still has its row
  or is too old for any delivery, checked or to come; every row is backed by an
  effect. `MarginAssumption` (clock skew + window + duration at most the time a
  nonce is kept) is what the third needs. The code keeps nonces ten minutes and
  accepts timestamps five minutes to either side: were HubSpot's clock ahead by
  the whole window, nothing would be left for the duration of a function, and TLC
  finds a second effect. The assumption states the margin the code relies on.
- **Settings.** The clock a load takes before its SELECT is what bounds its entry:
  what it fetched was committed no earlier, so the entry ends within a TTL of it.
  `EndsAreQuiet` says that, where no load overlapped the end of a save, the entry
  is absent and no load under way when the save commits.
- **Poller.** `WorkIsGiven` ties a poll's place to a tenant and an item of a page;
  `MatchIsBacked` says at each step of the match what has been found and by which
  field of the item, so what is stored is led to by an alias. Aliases are never
  removed, which keeps earlier rows backed. For `RepollKeepsCompany` a second
  invariant, `ResolvedIsFound`, follows one poll through its lookups: where the
  row it is about to replace has a company the item does not name, an alias leads
  there, the URL or the domain lookup hits, and the poll arrives with a match.
  Two more theorems are about an item alone, for every item: `RecordsAgree`, that the
  normalizer's table and the taxonomy, two files, say the same of every code, and
  `SpellingsShareAKey`, that the key does not depend on how an event is spelled.
- **Eligibility.** An entry's end counts from the clock its check read first, and
  what the check reads it reads later (`ReadingsAreLater`), so an entry ends within a
  TTL of a time its content was true (`EntriesWereTrue`), whichever of two overlapping
  checks stores last. `HistoryIsCurrent` makes that time one a later check can be
  compared with.
- **Snapshot.** `RequestInv` says, for each place of the request, what the answer may
  hold by then: nothing before the sifting, then the positions `Sifted` leaves and the
  dominant one among them (`Chosen`). That there is a dominant row is the lemma
  `PoolHasFirst`: a finite set of rows has a first by confidence, age and position,
  shown by descent on the set of those that precede. What the reason may rest on
  then follows from the sifting (`TrustedReason`), and a missing reason from what an
  empty choice says of the rows (`ExplainedSilence`). `NeverWeaker` compares the
  strengths of two sets of signals: every part of the score, the best item, the
  volume and the derived bonus, is monotone, and `Min` and `Max` keep it so.
- **Card.** Each hook stands by its last fetch because a fetch that is not cleaned
  up is the last (`LiveIsLast`), the last is for the record shown unless an effect is
  due (`AskIsCurrent`), and what the hook holds came from it (`OutcomeIsLast`);
  `OpenIsInView` keeps a person open only in the view that can show one. Any
  number of records, bodies and fetches. `ZeroLeak` is about the view itself: a body
  the schema let through has references of every person, a set of places among them
  has a first (`HasFirst`), and the view that is rendered excludes the restricted flag.
- **Settings page.** `StoreInv` is about the saves alone: what is sent has a
  sendable shape (`SavesAreSendable`), one writes at a time (`OneWriter`), and what it has
  written agrees with what is committed (`WrittenIsCurrent`); the default then names
  the row that is present (`DefaultIsPresent`) and no row lacks what its vendor
  needs. `PageInv` carries the shape of the form, of the answer and of the rest, from
  which the page's own saves are sendable. `SaveInv` follows the save the page waits
  for: while it is alone, its body says of what is stored what the page showed
  (`Asked`), until `Write` makes it so. `TestInv` does the same for a test: one that
  stands asks about what a save would leave (`Asks`), and if it passed, the lemmas
  about `ConnectionTest` (`LlmOkIsEarned`, `ExaOkIsEarned`) say that no vendor's reply
  makes it pass unless the vendor has that model and, where the list of models is
  not open to anybody, the key is genuine; the vendors with an open list are stubs.

Only model-checked: `UninstallTakesEffect` and `SwapIsAnswered` (liveness under
fairness is out of the prover's reach), and the violation. Every other property of the
runs is a theorem.

## 5. Not modelled, and the plan

Left out for good: cryptography and the HMAC; row-level security except where the
poll meets it (Postgres enforces it; the guard is one query); logging and
correlation; HTTP clients that only read; rendering and wording; the parsing of the
environment; seeding scripts and generated types. The arithmetic of the rate
limiters is left out because a refusal is one more way for a call to fail, which
the models have. The settings' toggles, thresholds and property name are merged
like the key that `ProviderSettings` has, and sent as the page shows them. The plan
limits and their cache only clamp the lookback window of a monitor, which no
property is about.

Next, in order:

1. An abstract ledger for `MonitorSpend`, with a refinement.
2. The token buckets, whose capacity changes between calls, and the webhook
   subscription bootstrap under concurrent runs.
