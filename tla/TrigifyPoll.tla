----------------------------- MODULE TrigifyPoll -----------------------------
(***************************************************************************)
(* The multi-tenant poll of Trigify's signal feed (services/trigify/       *)
(* poller.ts, poll-deps.ts, company-match.ts, poll-company-match-deps.ts)  *)
(* with the two tables it writes, `signals` and `company_signal_map`.      *)
(* GET /admin/trigify-poll is called by two schedulers, Vercel's daily     *)
(* cron and a GitHub workflow every six hours, both at 06:00: polls        *)
(* overlap.  A poll runs outside any transaction, on the raw connection:   *)
(* each statement commits by itself and a poll that dies leaves what it    *)
(* has written.  The feed and the CRM may change between any two reads.    *)
(***************************************************************************)
EXTENDS Sequences, FiniteSets, TrigifySignals

CONSTANTS Polls,        \* slots for overlapping polls
          Tenants,      \* tenants with a provider_config row for Trigify
          Enabled,      \* those whose row is enabled
          Pages,        \* the pages the feed may answer, newest item first
          Companies,    \* HubSpot company ids
          Answers(_),   \* those HubSpot may at some time find by a domain
          EnforcesRls   \* does the connection's role obey row security?

Items == UNION {{page[n] : n \in DOMAIN page} : page \in Pages}
KnownItems == {item \in Items : IsKnown(item)}
Keys == {NormalizeFeedItem(item).dedupeKey : item \in KnownItems}

ASSUME EnabledAssumption == Enabled \subseteq Tenants
ASSUME PagesAssumption == Pages \subseteq Seq(Items)
ASSUME CompaniesAssumption ==
    /\ None \notin Companies
    /\ \A item \in Items : Answers(item.domain) \subseteq Companies
    /\ \A item \in Items : item.companyId \in Companies \cup {None}

(* What the match of an item is looked up with: a company's signal goes by *)
(* its own page, a person's by the employer's page the item names.         *)
MatchUrl(item) ==
    IF NormalizeFeedItem(item).level = "company"
    THEN NormalizeFeedItem(item).linkedinUrl
    ELSE item.companyUrl
Urls == {MatchUrl(item) : item \in KnownItems}
Domains == {item.domain : item \in KnownItems}

VARIABLES
    \* the tables
    signals,     \* the row of each tenant and key, or None
    aliases,     \* company_signal_map of each tenant
    \* the polls
    pc,          \* where each poll is
    todo,        \* tenants it has still to poll
    tenant,      \* the tenant it polls
    page,        \* the page it has read
    at,          \* the position of the item it works on
    match,       \* the company it has found for that item
    \* history
    listed,      \* the tenants a poll's listing returned
    lost,        \* positions of the page whose upsert failed
    clean        \* the match did not fail and no other poll wrote meanwhile

vars == <<signals, aliases, pc, todo, tenant, page, at, match, listed, lost,
          clean>>
tables == <<signals, aliases>>

Alias == [url : Urls \cup {None}, domain : Domains, company : Companies]
Row == [item : KnownItems, company : Companies \cup {None}]

ASSUME RowAssumption == None \notin Row

Init ==
    /\ signals = [t \in Tenants |-> [k \in Keys |-> None]]
    /\ aliases = [t \in Tenants |-> {}]
    /\ pc = [p \in Polls |-> "idle"]
    /\ todo = [p \in Polls |-> {}]
    /\ tenant = [p \in Polls |-> None]
    /\ page = [p \in Polls |-> <<>>]
    /\ at = [p \in Polls |-> 1]
    /\ match = [p \in Polls |-> None]
    /\ listed = [p \in Polls |-> {}]
    /\ lost = [p \in Polls |-> {}]
    /\ clean = [p \in Polls |-> TRUE]

Item(p) == page[p][at[p]]
Goto(p, label) == pc' = [pc EXCEPT ![p] = label]

(* A write of p: other polls of its tenant have read what was before it.   *)
Busy(q) == pc[q] \in {"url", "domain", "search", "alias", "store"}
Disturbed(p) ==
    [q \in Polls |-> clean[q] /\ (q # p /\ Busy(q) => tenant[q] # tenant[p])]

(* SELECT ... FROM provider_config: with no app.tenant_id set, a role that *)
(* obeys row security is shown no row.                                     *)
Visible == IF EnforcesRls THEN {} ELSE Enabled

ListEnabledTenants(p) ==
    /\ pc[p] = "idle"
    /\ Goto(p, "tenants")
    /\ todo' = [todo EXCEPT ![p] = Visible]
    /\ listed' = [listed EXCEPT ![p] = Visible]
    /\ UNCHANGED <<tables, tenant, page, at, match, lost, clean>>

Finish(p) ==
    /\ pc[p] = "tenants"
    /\ todo[p] = {}
    /\ Goto(p, "idle")
    /\ listed' = [listed EXCEPT ![p] = {}]
    /\ UNCHANGED <<tables, todo, tenant, page, at, match, lost, clean>>

(* One page of the feed is all a poll reads.                               *)
ReadFeed(p) ==
    /\ pc[p] = "tenants"
    /\ \E t \in todo[p], read \in Pages :
         /\ todo' = [todo EXCEPT ![p] = @ \ {t}]
         /\ tenant' = [tenant EXCEPT ![p] = t]
         /\ page' = [page EXCEPT ![p] = read]
    /\ Goto(p, "item")
    /\ UNCHANGED <<tables, at, match, listed, lost, clean>>

(* The configuration cannot be read or has no key, or the feed fails: the  *)
(* error is recorded and the next tenant polled.                           *)
SkipTenant(p) ==
    /\ pc[p] = "tenants"
    /\ \E t \in todo[p] : todo' = [todo EXCEPT ![p] = @ \ {t}]
    /\ UNCHANGED <<tables, pc, tenant, page, at, match, listed, lost, clean>>

Leave(p, label) ==
    /\ Goto(p, label)
    /\ tenant' = [tenant EXCEPT ![p] = None]
    /\ page' = [page EXCEPT ![p] = <<>>]
    /\ at' = [at EXCEPT ![p] = 1]
    /\ match' = [match EXCEPT ![p] = None]
    /\ lost' = [lost EXCEPT ![p] = {}]
    /\ clean' = [clean EXCEPT ![p] = TRUE]

EndOfPage(p) ==
    /\ pc[p] = "item"
    /\ at[p] > Len(page[p])
    /\ Leave(p, "tenants")
    /\ UNCHANGED <<tables, todo, listed>>

(* A type nobody knows is skipped.                                         *)
SkipItem(p) ==
    /\ pc[p] = "item"
    /\ at[p] <= Len(page[p])
    /\ ~IsKnown(Item(p))
    /\ at' = [at EXCEPT ![p] = @ + 1]
    /\ UNCHANGED <<tables, pc, todo, tenant, page, match, listed, lost, clean>>

(* matchCompany: with neither a page nor a domain there is nothing to find.*)
BeginMatch(p) ==
    /\ pc[p] = "item"
    /\ at[p] <= Len(page[p])
    /\ IsKnown(Item(p))
    /\ Goto(p, CASE MatchUrl(Item(p)) # None -> "url"
                 [] MatchUrl(Item(p)) = None /\ Item(p).domain # None -> "domain"
                 [] OTHER -> "store")
    /\ UNCHANGED <<tables, todo, tenant, page, at, match, listed, lost, clean>>

(* LIMIT 1 without an order: of several rows, any one.                     *)
Hit(p, rows) ==
    /\ Goto(p, "store")
    /\ \E row \in rows : match' = [match EXCEPT ![p] = row.company]
    /\ UNCHANGED <<tables, todo, tenant, page, at, listed, lost, clean>>

Miss(p, label) ==
    /\ Goto(p, label)
    /\ UNCHANGED <<tables, todo, tenant, page, at, match, listed, lost, clean>>

ByUrl(p) == {a \in aliases[tenant[p]] : a.url = MatchUrl(Item(p))}
ByDomain(p) == {a \in aliases[tenant[p]] : a.domain = Item(p).domain}

LookupUrl(p) ==
    /\ pc[p] = "url"
    /\ \/ Hit(p, ByUrl(p))
       \/ /\ ByUrl(p) = {}
          /\ Miss(p, IF Item(p).domain # None THEN "domain" ELSE "store")

LookupDomain(p) ==
    /\ pc[p] = "domain"
    /\ \/ Hit(p, ByDomain(p))
       \/ ByDomain(p) = {} /\ Miss(p, "search")

(* HubSpot's company search: the first of the companies with the domain.   *)
SearchCompany(p) ==
    /\ pc[p] = "search"
    /\ \/ Miss(p, "store")
       \/ \E company \in Answers(Item(p).domain) :
            /\ Goto(p, "alias")
            /\ match' = [match EXCEPT ![p] = company]
            /\ UNCHANGED <<tables, todo, tenant, page, at, listed, lost, clean>>

(* Mutant: the alias is not kept for later polls.                          *)
WriteAliasNot(p) ==
    /\ pc[p] = "alias"
    /\ Goto(p, "store")
    /\ UNCHANGED <<tables, todo, tenant, page, at, match, listed, lost, clean>>

WriteAlias(p) ==
    /\ pc[p] = "alias"
    /\ Goto(p, "store")
    /\ aliases' = [aliases EXCEPT ![tenant[p]] =
                     @ \cup {[url |-> MatchUrl(Item(p)),
                              domain |-> Item(p).domain,
                              company |-> match[p]]}]
    /\ clean' = Disturbed(p)
    /\ UNCHANGED <<signals, todo, tenant, page, at, match, listed, lost>>

(* Mutant: an item whose match fails is passed over.                       *)
FailMatchSkips(p) ==
    /\ pc[p] \in {"url", "domain", "search", "alias"}
    /\ Goto(p, "item")
    /\ at' = [at EXCEPT ![p] = @ + 1]
    /\ match' = [match EXCEPT ![p] = None]
    /\ UNCHANGED <<tables, todo, tenant, page, listed, lost, clean>>

(* A statement or the search throws, whether the CRM is down, refuses the  *)
(* tenant or limits the rate: the item goes on without a match.            *)
FailMatch(p) ==
    /\ pc[p] \in {"url", "domain", "search", "alias"}
    /\ Goto(p, "store")
    /\ match' = [match EXCEPT ![p] = None]
    /\ clean' = [clean EXCEPT ![p] = FALSE]
    /\ UNCHANGED <<tables, todo, tenant, page, at, listed, lost>>

(* Mutant: the variable of the match outlives the item.                    *)
NextItemKeepsMatch(p) ==
    /\ Goto(p, "item")
    /\ at' = [at EXCEPT ![p] = @ + 1]
    /\ match' = match

NextItem(p) ==
    /\ Goto(p, "item")
    /\ at' = [at EXCEPT ![p] = @ + 1]
    /\ match' = [match EXCEPT ![p] = None]

(* INSERT ... ON CONFLICT (tenant_id, dedupe_key) DO UPDATE of every column*)
(* but the key; the columns left out here are functions of the item.       *)
UpsertRow(p) ==
    [item |-> Item(p),
     company |-> FirstOf(match[p], NormalizeFeedItem(Item(p)).hsCompanyId)]

UpsertSignal(p) ==
    /\ pc[p] = "store"
    /\ NextItem(p)
    /\ signals' = [signals EXCEPT
                     ![tenant[p]][NormalizeFeedItem(Item(p)).dedupeKey] =
                        UpsertRow(p)]
    /\ clean' = [Disturbed(p) EXCEPT ![p] = TRUE]
    /\ UNCHANGED <<aliases, todo, tenant, page, listed, lost>>

UpsertFails(p) ==
    /\ pc[p] = "store"
    /\ NextItem(p)
    /\ lost' = [lost EXCEPT ![p] = @ \cup {at[p]}]
    /\ clean' = [clean EXCEPT ![p] = TRUE]
    /\ UNCHANGED <<tables, todo, tenant, page, listed>>

(* The platform ends the function at its time limit.                       *)
Kill(p) ==
    /\ pc[p] # "idle"
    /\ Leave(p, "idle")
    /\ todo' = [todo EXCEPT ![p] = {}]
    /\ listed' = [listed EXCEPT ![p] = {}]
    /\ UNCHANGED tables

Next ==
    \E p \in Polls :
        \/ ListEnabledTenants(p) \/ Finish(p)
        \/ ReadFeed(p) \/ SkipTenant(p) \/ EndOfPage(p)
        \/ SkipItem(p) \/ BeginMatch(p)
        \/ LookupUrl(p) \/ LookupDomain(p) \/ SearchCompany(p) \/ WriteAlias(p)
        \/ FailMatch(p)
        \/ UpsertSignal(p) \/ UpsertFails(p)
        \/ Kill(p)

Spec == Init /\ [][Next]_vars
-----------------------------------------------------------------------------
Labels == {"idle", "tenants", "item", "url", "domain", "search", "alias",
           "store"}

(* Types: where each poll stands, and rows and aliases made of feed data.  *)
TypeOK ==
    /\ signals \in [Tenants -> [Keys -> Row \cup {None}]]
    /\ aliases \in [Tenants -> SUBSET Alias]
    /\ pc \in [Polls -> Labels]
    /\ todo \in [Polls -> SUBSET Enabled]
    /\ tenant \in [Polls -> Tenants \cup {None}]
    /\ page \in [Polls -> Pages \cup {<<>>}]
    /\ at \in [Polls -> Nat \ {0}]
    /\ match \in [Polls -> Companies \cup {None}]
    /\ listed \in [Polls -> SUBSET Enabled]
    /\ lost \in [Polls -> SUBSET (Nat \ {0})]
    /\ clean \in [Polls -> BOOLEAN]

(* Why a stored item may stand for a company: the item names it, or an     *)
(* alias with the item's page or domain does.                              *)
Leads(t, item, company) ==
    \/ company = NormalizeFeedItem(item).hsCompanyId
    \/ \E a \in aliases[t] :
         /\ a.company = company
         /\ \/ a.url # None /\ a.url = MatchUrl(item)
            \/ a.domain # None /\ a.domain = item.domain

(* "Company matching failures are honest ... rather than a fabricated      *)
(* guess" (poller.ts): a signal is filed under a company only if the feed  *)
(* named it, or an alias of the same tenant leads there by a page or a     *)
(* domain that is really present, and every alias is one of HubSpot's      *)
(* answers for the alias's domain; across overlapping polls and polls that *)
(* die between two statements.                                             *)
AssignedIsBacked ==
    \A t \in Tenants :
        /\ \A k \in Keys :
             signals[t][k] # None /\ signals[t][k].company # None =>
                 Leads(t, signals[t][k].item, signals[t][k].company)
        /\ \A a \in aliases[t] : a.company \in Answers(a.domain)

(* A poll that comes past an item leaves a row for it or an error: no      *)
(* failure of a match, of another item, of another tenant or of another    *)
(* poll makes a signal of a known type vanish on the way.                  *)
NothingSkipped ==
    \A p \in Polls :
        \A n \in DOMAIN page[p] :
            n < at[p] /\ IsKnown(page[p][n]) /\ n \notin lost[p] =>
                signals[tenant[p]][NormalizeFeedItem(page[p][n]).dedupeKey]
                    # None

(* A redundant poll "just re-confirms already-seen signals" (docs/runbooks/*)
(* vercel-cron-hobby-plan.md) as long as its match did not fail and no     *)
(* other poll wrote under it: a row that has a company keeps one when the  *)
(* same item is stored again, because whatever led to the company still    *)
(* does.                                                                   *)
Restores(p, t, k) ==
    /\ pc[p] = "store" /\ pc[p]' = "item"
    /\ tenant[p] = t
    /\ signals[t][k] # None
    /\ signals[t][k].item = Item(p)
    /\ NormalizeFeedItem(Item(p)).dedupeKey = k
RepollKeepsCompany ==
    [][\A p \in Polls, t \in Tenants, k \in Keys :
         Restores(p, t, k) /\ clean[p] /\ signals[t][k].company # None =>
             signals'[t][k].company # None]_vars

(* "List every tenant with an ENABLED provider_config row" (poll-deps.ts). *)
EnabledTenantsAreListed ==
    \A p \in Polls : pc[p] # "idle" => listed[p] = Enabled
=============================================================================
