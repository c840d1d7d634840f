--------------------------- MODULE TenantLifecycle ---------------------------
(***************************************************************************)
(* One HubSpot portal's life in the API: its row of `tenants`, its row of  *)
(* `tenant_hubspot_oauth`, and everything that writes them concurrently:   *)
(*   - the OAuth callback (routes/oauth.ts), several may be in flight;     *)
(*   - the lifecycle webhook (routes/lifecycle.ts, lib/tenant-lifecycle.ts)*)
(*     delivered at least once and in any order;                           *)
(*   - the HubSpot clients of /api requests (lib/hubspot-client.ts), which *)
(*     refresh tokens inside the request's one long transaction (app.ts).  *)
(* Postgres runs at READ COMMITTED: a statement sees the rows committed    *)
(* when it runs plus its own transaction's writes, and a write waits for   *)
(* the row lock of a transaction that has not ended.                       *)
(***************************************************************************)
EXTENDS Naturals

CONSTANTS Requests,     \* slots for concurrent /api requests, over all instances
          Hooks,        \* slots for concurrent webhook deliveries
          Callbacks,    \* slots for concurrent OAuth callbacks
          Nobody,       \* no transaction holds the row lock
          MaxInstalls,  \* bound: how often the portal authorises the app
          MaxSerial     \* bound: how many refresh tokens one install is issued

Agents == Requests \cup Hooks \cup Callbacks

ASSUME AgentsAssumption ==
    /\ Requests \cap Hooks = {}
    /\ Requests \cap Callbacks = {}
    /\ Hooks \cap Callbacks = {}
    /\ Nobody \notin Agents

(* A refresh token: the install it descends from and its place in that     *)
(* install's chain of rotations. Install 0 stands for "no token".          *)
Token == [install : Nat, serial : Nat]
NoToken == [install |-> 0, serial |-> 0]

Event == [kind : {"app_install", "app_uninstall"}, install : Nat]
NoEvent == [kind |-> "none", install |-> 0]

VARIABLES
    grant,     \* the refresh token HubSpot honours for the portal, or NoToken
    installs,  \* authorisations granted by HubSpot so far
    events,    \* lifecycle webhooks HubSpot has not seen acknowledged
    tenant,    \* committed tenants row: "none", "active", "inactive"
    oauth,     \* committed tenant_hubspot_oauth row, or NoToken
    lockT,     \* transaction that has deactivated the tenants row, uncommitted
    lockO,     \* transaction that has written the oauth row, uncommitted
    newO,      \* what that transaction wrote: a token, or NoToken for DELETE
    pc,        \* where each agent is
    tok,       \* the refresh token an agent holds in memory
    evt,       \* the event a webhook delivery is applying
    gone,      \* requests whose transaction holds a finished deactivation
    orderly    \* history: no refresh has raced or lost its result so far

vars == <<grant, installs, events, tenant, oauth, lockT, lockO, newO, pc, tok,
          evt, gone, orderly>>

hubspot == <<grant, installs, events>>
committed == <<tenant, oauth>>
locks == <<lockT, lockO, newO>>

Init ==
    /\ grant = NoToken
    /\ installs = 0
    /\ events = {}
    /\ tenant = "none"
    /\ oauth = NoToken
    /\ lockT = Nobody
    /\ lockO = Nobody
    /\ newO = NoToken
    /\ pc = [a \in Agents |-> "idle"]
    /\ tok = [a \in Agents |-> NoToken]
    /\ evt = [h \in Hooks |-> NoEvent]
    /\ gone = {}
    /\ orderly = TRUE

(* The oauth row a statement of transaction x reads.                       *)
View(x) == IF lockO = x THEN newO ELSE oauth

FreeT(x) == lockT \in {Nobody, x}
FreeO(x) == lockO \in {Nobody, x}

Goto(a, l) == pc' = [pc EXCEPT ![a] = l]
Hold(a, t) == tok' = [tok EXCEPT ![a] = t]

(* A request that is between presenting a refresh token and being done     *)
(* with the outcome.                                                       *)
Refreshing(r) == pc[r] \in {"refresh", "persist", "refused", "deactT", "deactO"}

-----------------------------------------------------------------------------
(* HubSpot and the OAuth callback                                          *)

(* A user authorises the app: HubSpot issues the first token of a new      *)
(* install and queues app_install. The callback has the token in memory    *)
(* and nothing in the database yet (steps 1 to 3 of routes/oauth.ts).      *)
Exchange(c) ==
    /\ pc[c] = "idle"
    /\ installs < MaxInstalls
    /\ LET t == [install |-> installs + 1, serial |-> 1] IN
         /\ grant' = t
         /\ Hold(c, t)
         /\ events' = events \cup {[kind |-> "app_install", install |-> installs + 1]}
    /\ installs' = installs + 1
    /\ Goto(c, "upsert")
    /\ orderly' = (/\ orderly
                   /\ oauth = NoToken /\ lockO = Nobody /\ gone = {}
                   /\ \A r \in Requests : ~Refreshing(r)
                   /\ \A d \in Callbacks : pc[d] = "idle")
    /\ UNCHANGED <<committed, locks, evt, gone>>

(* Step 4: upsert tenants ON CONFLICT (hubspot_portal_id), autocommitted.  *)
UpsertTenant(c) ==
    /\ pc[c] = "upsert"
    /\ FreeT(c)
    /\ tenant' = "active"
    /\ Goto(c, "store")
    /\ UNCHANGED <<hubspot, oauth, locks, tok, evt, gone, orderly>>

(* Mutant: step 6 is retried after it succeeded.                           *)
StoreTokensRetried(c) ==
    /\ pc[c] = "store"
    /\ FreeO(c)
    /\ oauth' = tok[c]
    /\ UNCHANGED <<hubspot, tenant, locks, pc, tok, evt, gone, orderly>>

(* Steps 5 and 6: upsert the encrypted tokens in a transaction of its own. *)
StoreTokens(c) ==
    /\ pc[c] = "store"
    /\ FreeO(c)
    /\ oauth' = tok[c]
    /\ Goto(c, "idle")
    /\ Hold(c, NoToken)
    /\ UNCHANGED <<hubspot, tenant, locks, evt, gone, orderly>>

(* The callback dies (identity lookup fails, database error, function      *)
(* killed): step 4 is not undone when step 6 has not run.                  *)
FailCallback(c) ==
    /\ pc[c] \in {"upsert", "store"}
    /\ Goto(c, "idle")
    /\ Hold(c, NoToken)
    /\ orderly' = FALSE
    /\ UNCHANGED <<hubspot, committed, locks, evt, gone>>

(* The portal removes the app: HubSpot revokes the grant, queues the event.*)
Uninstall ==
    /\ grant # NoToken
    /\ grant' = NoToken
    /\ events' = events \cup {[kind |-> "app_uninstall", install |-> grant.install]}
    /\ UNCHANGED <<installs, committed, locks, pc, tok, evt, gone, orderly>>

-----------------------------------------------------------------------------
(* deactivateTenant, shared by webhooks (a transaction of its own) and     *)
(* requests (a savepoint of the request's transaction)                     *)

DeactivateUpdate(x) ==
    /\ pc[x] = "deactT"
    /\ FreeT(x)
    /\ lockT' = x
    /\ Goto(x, "deactO")
    /\ UNCHANGED <<hubspot, committed, lockO, newO, tok, evt, gone, orderly>>

(* DELETE matches no row, and takes no lock, when the row is absent.       *)
DeactivateDelete(x) ==
    /\ pc[x] = "deactO"
    /\ FreeO(x)
    /\ IF View(x) = NoToken
       THEN UNCHANGED <<lockO, newO>>
       ELSE lockO' = x /\ newO' = NoToken
    /\ Goto(x, IF x \in Hooks THEN "commit" ELSE "run")
    /\ Hold(x, NoToken)
    /\ gone' = IF x \in Requests THEN gone \cup {x} ELSE gone
    /\ UNCHANGED <<hubspot, committed, lockT, evt, orderly>>

(* Two transactions wait for each other's row; Postgres fails the          *)
(* statement of one of them.                                               *)
Deadlocked(x) ==
    \E y \in (Requests \cup Hooks) \ {x} :
        \/ /\ pc[x] = "deactT" /\ lockT = y
           /\ pc[y] \in {"deactO", "persist"} /\ lockO = x
        \/ /\ pc[x] = "deactO" /\ lockO = y
           /\ pc[y] = "deactT" /\ lockT = x

(* The end of a transaction: its writes become the rows, or nothing does.  *)
Release(x) ==
    /\ lockT' = IF lockT = x THEN Nobody ELSE lockT
    /\ lockO' = IF lockO = x THEN Nobody ELSE lockO
    /\ newO' = IF lockO = x THEN NoToken ELSE newO

Publish(x) ==
    /\ tenant' = IF lockT = x THEN "inactive" ELSE tenant
    /\ oauth' = View(x)

-----------------------------------------------------------------------------
(* Lifecycle webhooks                                                      *)

(* The response may be lost: HubSpot then delivers the event again.        *)
Acknowledge(e) == events' \in {events, events \ {e}}

(* No tenant for the portal: applyHubSpotLifecycleEvent returns, 200.      *)
IgnoreEvent(h, e) ==
    /\ pc[h] = "idle"
    /\ tenant = "none"
    /\ Acknowledge(e)
    /\ UNCHANGED <<grant, installs, committed, locks, pc, tok, evt, gone, orderly>>

(* app_install: reactivateTenant is one autocommitted UPDATE.              *)
ApplyInstall(h, e) ==
    /\ pc[h] = "idle"
    /\ e.kind = "app_install"
    /\ tenant # "none"
    /\ FreeT(h)
    /\ tenant' = "active"
    /\ Acknowledge(e)
    /\ UNCHANGED <<grant, installs, oauth, locks, pc, tok, evt, gone, orderly>>

(* Mutant: the webhook answers 200 before the deactivation has committed.  *)
BeginUninstallAckFirst(h, e) ==
    /\ pc[h] = "idle"
    /\ e.kind = "app_uninstall"
    /\ tenant # "none"
    /\ Goto(h, "deactT")
    /\ evt' = [evt EXCEPT ![h] = e]
    /\ events' = events \ {e}
    /\ UNCHANGED <<grant, installs, committed, locks, tok, gone, orderly>>

(* app_uninstall: deactivateTenant opens its transaction. No handler looks *)
(* at occurredAt to order the event against what the rows already say.     *)
BeginUninstall(h, e) ==
    /\ pc[h] = "idle"
    /\ e.kind = "app_uninstall"
    /\ tenant # "none"
    /\ Goto(h, "deactT")
    /\ evt' = [evt EXCEPT ![h] = e]
    /\ UNCHANGED <<hubspot, committed, locks, tok, gone, orderly>>

CommitUninstall(h) ==
    /\ pc[h] = "commit"
    /\ Publish(h)
    /\ Release(h)
    /\ Acknowledge(evt[h])
    /\ Goto(h, "idle")
    /\ evt' = [evt EXCEPT ![h] = NoEvent]
    /\ UNCHANGED <<grant, installs, tok, gone, orderly>>

(* The transaction rolls back, HubSpot sees no 200 and keeps the event.    *)
RollbackHook(h) ==
    /\ Release(h)
    /\ Goto(h, "idle")
    /\ Hold(h, NoToken)
    /\ evt' = [evt EXCEPT ![h] = NoEvent]
    /\ UNCHANGED <<hubspot, committed, gone, orderly>>

FailHook(h) == pc[h] # "idle" /\ RollbackHook(h)

DeadlockHook(h) == Deadlocked(h) /\ RollbackHook(h)

-----------------------------------------------------------------------------
(* /api requests and their HubSpot clients                                 *)

(* tenantMiddleware admits an active tenant; the request's one transaction *)
(* opens. An inactive or unknown tenant gets 401 and changes nothing.      *)
Admit(r) ==
    /\ pc[r] = "idle"
    /\ tenant = "active"
    /\ Goto(r, "run")
    /\ UNCHANGED <<hubspot, committed, locks, tok, evt, gone, orderly>>

(* getAccessToken finds the row near expiry, or authenticatedFetch got a   *)
(* 401 and re-read it: the client presents the refresh token it read. With *)
(* no row it throws TenantAccessRevokedError, which leaves the rows alone. *)
BeginRefresh(r) ==
    /\ pc[r] = "run"
    /\ View(r) # NoToken
    /\ Hold(r, View(r))
    /\ Goto(r, "refresh")
    /\ orderly' = (/\ orderly
                   /\ FreeO(r)
                   /\ \A q \in Requests \ {r} : pc[q] \notin {"refresh", "persist"})
    /\ UNCHANGED <<hubspot, committed, locks, evt, gone>>

(* HubSpot rotates: the presented token dies, its successor is live.       *)
Rotate(r) ==
    /\ tok[r] = grant
    /\ grant.serial < MaxSerial
    /\ grant' = [grant EXCEPT !.serial = @ + 1]

RefreshOk(r) ==
    /\ pc[r] = "refresh"
    /\ Rotate(r)
    /\ Hold(r, grant')
    /\ Goto(r, "persist")
    /\ UNCHANGED <<installs, events, committed, locks, evt, gone, orderly>>

(* HubSpot rotated but the response never arrived.                         *)
RefreshLost(r) ==
    /\ pc[r] = "refresh"
    /\ Rotate(r)
    /\ Hold(r, NoToken)
    /\ Goto(r, "run")
    /\ orderly' = FALSE
    /\ UNCHANGED <<installs, events, committed, locks, evt, gone>>

(* A 5xx or a network error: rethrown, nothing written.                    *)
RefreshError(r) ==
    /\ pc[r] = "refresh"
    /\ Hold(r, NoToken)
    /\ Goto(r, "run")
    /\ UNCHANGED <<hubspot, committed, locks, evt, gone, orderly>>

(* 400 invalid_grant: the token presented is not the live one.             *)
RefreshRefused(r) ==
    /\ pc[r] = "refresh"
    /\ tok[r] # grant
    /\ Goto(r, "refused")
    /\ UNCHANGED <<hubspot, committed, locks, tok, evt, gone, orderly>>

(* Mutant: the rotated tokens are upserted.                                *)
PersistRotationUpsert(r) ==
    /\ pc[r] = "persist"
    /\ FreeO(r)
    /\ lockO' = r
    /\ newO' = tok[r]
    /\ Hold(r, NoToken)
    /\ Goto(r, "run")
    /\ UNCHANGED <<hubspot, committed, lockT, evt, gone, orderly>>

(* Mutant: the rotated tokens go to the client's cache only.               *)
PersistRotationSkipped(r) ==
    /\ pc[r] = "persist"
    /\ Hold(r, NoToken)
    /\ Goto(r, "run")
    /\ UNCHANGED <<hubspot, committed, locks, evt, gone, orderly>>

(* UPDATE ... WHERE tenant_id: matches no row once the row is deleted.     *)
PersistRotation(r) ==
    /\ pc[r] = "persist"
    /\ FreeO(r)
    /\ IF View(r) = NoToken
       THEN UNCHANGED <<lockO, newO>>
       ELSE lockO' = r /\ newO' = tok[r]
    /\ Hold(r, NoToken)
    /\ Goto(r, "run")
    /\ UNCHANGED <<hubspot, committed, lockT, evt, gone, orderly>>

(* The row re-read after the refusal: gone, or already carrying another    *)
(* token, and the client only throws; else it goes on to deactivate.       *)
RereadAfterRefusal(r) ==
    /\ pc[r] = "refused"
    /\ IF View(r) = tok[r]
       THEN Goto(r, "deactT") /\ UNCHANGED tok
       ELSE Goto(r, "run") /\ Hold(r, NoToken)
    /\ UNCHANGED <<hubspot, committed, locks, evt, gone, orderly>>

(* The savepoint of deactivateTenant rolls back and the client swallows    *)
(* the error; the request's transaction goes on.                           *)
DeadlockVictim(r) ==
    /\ Deadlocked(r)
    /\ lockT' = IF lockT = r /\ r \notin gone THEN Nobody ELSE lockT
    /\ Hold(r, NoToken)
    /\ Goto(r, "run")
    /\ UNCHANGED <<hubspot, committed, lockO, newO, evt, gone, orderly>>

(* The handler returned and handle.release() commits.                      *)
Finish(r) ==
    /\ pc[r] = "run"
    /\ Publish(r)
    /\ Release(r)
    /\ Goto(r, "idle")
    /\ gone' = gone \ {r}
    /\ UNCHANGED <<hubspot, tok, evt, orderly>>

(* A failed statement or a killed function rolls the transaction back; a   *)
(* rotated token that only it knew is lost.                                *)
Abort(r) ==
    /\ pc[r] # "idle"
    /\ Release(r)
    /\ Goto(r, "idle")
    /\ Hold(r, NoToken)
    /\ gone' = gone \ {r}
    /\ orderly' = (orderly /\ pc[r] # "persist" /\ ~(lockO = r /\ newO # NoToken))
    /\ UNCHANGED <<hubspot, committed, evt>>

-----------------------------------------------------------------------------
CallbackStep(c) ==
    Exchange(c) \/ UpsertTenant(c) \/ StoreTokens(c) \/ FailCallback(c)

HookStep(h) ==
    \/ \E e \in events : IgnoreEvent(h, e) \/ ApplyInstall(h, e) \/ BeginUninstall(h, e)
    \/ DeactivateUpdate(h) \/ DeactivateDelete(h)
    \/ CommitUninstall(h) \/ FailHook(h) \/ DeadlockHook(h)

RequestStep(r) ==
    \/ Admit(r) \/ BeginRefresh(r)
    \/ RefreshOk(r) \/ RefreshLost(r) \/ RefreshError(r) \/ RefreshRefused(r)
    \/ PersistRotation(r) \/ RereadAfterRefusal(r)
    \/ DeactivateUpdate(r) \/ DeactivateDelete(r) \/ DeadlockVictim(r)
    \/ Finish(r) \/ Abort(r)

Next ==
    \/ Uninstall
    \/ \E c \in Callbacks : CallbackStep(c)
    \/ \E h \in Hooks : HookStep(h)
    \/ \E r \in Requests : RequestStep(r)

Spec == Init /\ [][Next]_vars

(* Fairness. A function has a maximum duration, so a request always ends.  *)
(* HubSpot retries a delivery until it sees a 200; a delivery is killed    *)
(* only finitely often, and gets a row lock that is freed again and again. *)
Fairness ==
    /\ \A r \in Requests : WF_vars(Finish(r) \/ Abort(r))
    /\ \A h \in Hooks :
         /\ <>[][~FailHook(h)]_vars
         /\ SF_vars(\E e \in events : BeginUninstall(h, e))
         /\ SF_vars(DeactivateUpdate(h))
         /\ SF_vars(DeactivateDelete(h))
         /\ SF_vars(CommitUninstall(h))

FairSpec == Spec /\ Fairness

-----------------------------------------------------------------------------
(* Properties                                                              *)

(* Every variable holds a value of its type.                               *)
TypeOK ==
    /\ grant \in Token
    /\ installs \in Nat
    /\ events \subseteq Event
    /\ tenant \in {"none", "active", "inactive"}
    /\ oauth \in Token
    /\ lockT \in Requests \cup Hooks \cup {Nobody}
    /\ lockO \in Requests \cup Hooks \cup {Nobody}
    /\ newO \in Token
    /\ pc \in [Agents -> {"idle", "upsert", "store", "deactT", "deactO", "commit",
                         "run", "refresh", "persist", "refused"}]
    /\ tok \in [Agents -> Token]
    /\ evt \in [Hooks -> Event \cup {NoEvent}]
    /\ gone \subseteq Requests
    /\ orderly \in BOOLEAN

(* Credentials that an uninstall deleted come back only through an OAuth   *)
(* callback. A refresh that was in flight when the row went away, in       *)
(* whatever order its UPDATE and the DELETE ran, never writes it back      *)
(* (performTokenRefresh updates, it does not upsert).                      *)
RefreshNeverResurrects ==
    [][oauth = NoToken /\ oauth' # NoToken =>
         \E c \in Callbacks : pc[c] = "store" /\ oauth' = tok[c]]_vars

(* The stored refresh token of an install never goes back to an earlier    *)
(* link of its rotation chain: however requests, webhooks and callbacks    *)
(* interleave, no late writer replaces a token by one HubSpot rotated away *)
(* before it.                                                              *)
NoTokenRegression ==
    [][oauth' # NoToken /\ oauth'.install = oauth.install
         => oauth'.serial >= oauth.serial]_vars

(* As long as no two refreshes overlapped, none lost its result and no     *)
(* callback overlapped one, a request deactivates the tenant only when     *)
(* HubSpot really revoked the app, however webhooks and uninstalls fall.   *)
OrderlyTenantStaysActive ==
    [][orderly /\ lockT \in Requests /\ tenant = "active" /\ tenant' = "inactive"
         => grant = NoToken]_vars

(* An uninstall HubSpot keeps delivering eventually deactivates the tenant,*)
(* even when requests hold the row locks or Postgres breaks a deadlock.    *)
UninstallTakesEffect ==
    (tenant # "none" /\ \E e \in events : e.kind = "app_uninstall")
        ~> (tenant = "inactive")
=============================================================================
