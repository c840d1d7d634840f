-------------------------- MODULE TrigifyPollProofs --------------------------
(* Proofs about TrigifyPoll: any feed, any tenants, any number of polls    *)
(* that overlap or die at any point, and any answers of HubSpot.           *)
EXTENDS TrigifyPoll, TLAPS

(* A poll at work on a tenant has read one of the feed's pages, and one at *)
(* work on an item stands on a known item of it.                           *)
WorkIsGiven ==
    \A p \in Polls :
        /\ Busy(p) \/ pc[p] = "item" =>
             tenant[p] \in Tenants /\ page[p] \in Pages
        /\ Busy(p) => at[p] \in DOMAIN page[p] /\ IsKnown(Item(p))
        /\ pc[p] \in {"idle", "tenants"} => page[p] = <<>> /\ at[p] = 1

(* What the match has found is found by something the item really has.     *)
MatchIsBacked ==
    \A p \in Polls :
        /\ pc[p] = "url" => MatchUrl(Item(p)) # None
        /\ pc[p] \in {"domain", "search", "alias"} => Item(p).domain # None
        /\ pc[p] = "alias" => match[p] \in Answers(Item(p).domain)
        /\ pc[p] = "store" =>
             match[p] = None \/ Leads(tenant[p], Item(p), match[p])
        /\ pc[p] \notin {"alias", "store"} => match[p] = None

IInv ==
    /\ TypeOK
    /\ WorkIsGiven
    /\ MatchIsBacked
    /\ AssignedIsBacked
    /\ NothingSkipped

(* The row of the item a poll works on is of that very item and has a      *)
(* company the item itself does not name.                                  *)
StoredKey(p) == NormalizeFeedItem(Item(p)).dedupeKey
Resolved(p) ==
    /\ signals[tenant[p]][StoredKey(p)] # None
    /\ signals[tenant[p]][StoredKey(p)].item = Item(p)
    /\ signals[tenant[p]][StoredKey(p)].company # None
    /\ NormalizeFeedItem(Item(p)).hsCompanyId = None

(* An undisturbed poll finds what led to that company the last time.       *)
ResolvedIsFound ==
    \A p \in Polls : Busy(p) /\ clean[p] /\ Resolved(p) =>
        /\ pc[p] \notin {"search", "alias"}
        /\ pc[p] = "domain" => ByDomain(p) # {}
        /\ pc[p] = "store" => match[p] # None

-----------------------------------------------------------------------------
LEMMA InitInv == Init => IInv
BY DEF Init, IInv, TypeOK, Labels, WorkIsGiven, Busy, MatchIsBacked,
       AssignedIsBacked, NothingSkipped

(* What a poll at work on an item may write.                               *)
LEMMA GivenItem ==
    ASSUME IInv, NEW p \in Polls, Busy(p)
    PROVE  /\ tenant[p] \in Tenants
           /\ Item(p) \in KnownItems
           /\ NormalizeFeedItem(Item(p)).dedupeKey \in Keys
           /\ MatchUrl(Item(p)) \in Urls
           /\ Item(p).domain \in Domains
           /\ Answers(Item(p).domain) \subseteq Companies
           /\ NormalizeFeedItem(Item(p)).hsCompanyId \in Companies \cup {None}
<1>1. /\ tenant[p] \in Tenants /\ page[p] \in Pages
      /\ at[p] \in DOMAIN page[p] /\ IsKnown(Item(p))
  BY DEF IInv, WorkIsGiven
<1>2. Item(p) \in Items
  BY <1>1 DEF Item, Items
<1>3. Item(p) \in KnownItems
  BY <1>1, <1>2 DEF KnownItems
<1>4. NormalizeFeedItem(Item(p)).hsCompanyId = Item(p).companyId
  BY DEF NormalizeFeedItem
<1>5. QED
  BY <1>1, <1>2, <1>3, <1>4, CompaniesAssumption DEF Keys, Urls, Domains

(* No step takes an alias away.                                            *)
LEMMA AliasesGrow ==
    ASSUME IInv, Next, NEW t \in Tenants
    PROVE  aliases[t] \subseteq aliases'[t]
<1>1. CASE UNCHANGED aliases
  BY <1>1
<1>2. CASE \E p \in Polls : WriteAlias(p)
  BY <1>2 DEF WriteAlias, IInv, TypeOK
<1>3. QED
  BY <1>1, <1>2 DEF Next, tables, ListEnabledTenants, Finish, ReadFeed,
     SkipTenant, EndOfPage, SkipItem, BeginMatch, LookupUrl, LookupDomain, Hit,
     Miss, SearchCompany, FailMatch, UpsertSignal, UpsertFails, Kill

(* The row a poll is about to store is well typed, and its company backed. *)
LEMMA RowToStore ==
    ASSUME IInv, NEW p \in Polls, pc[p] = "store"
    PROVE  /\ UpsertRow(p) \in Row
           /\ UpsertRow(p).item = Item(p)
           /\ UpsertRow(p).company # None =>
                Leads(tenant[p], Item(p), UpsertRow(p).company)
           /\ UpsertRow(p) # None
<1>1. Busy(p)
  BY DEF Busy
<1>2. match[p] \in Companies \cup {None}
  BY DEF IInv, TypeOK
<1>3. match[p] = None \/ Leads(tenant[p], Item(p), match[p])
  BY DEF IInv, MatchIsBacked
<1>4. /\ UpsertRow(p) \in Row
      /\ UpsertRow(p).item = Item(p)
      /\ UpsertRow(p).company = FirstOf(match[p], NormalizeFeedItem(Item(p)).hsCompanyId)
  BY <1>1, <1>2, GivenItem DEF UpsertRow, Row, FirstOf
<1>5. UpsertRow(p).company # None =>
                Leads(tenant[p], Item(p), UpsertRow(p).company)
  BY <1>3, <1>4 DEF FirstOf, Leads
<1>6. QED
  BY <1>4, <1>5, RowAssumption

LEMMA TypeStep == ASSUME IInv, Next PROVE TypeOK'
<1> USE DEF TypeOK, Labels
<1>1. TypeOK
  BY DEF IInv
<1>2. PICK p \in Polls :
        \/ ListEnabledTenants(p) \/ Finish(p)
        \/ ReadFeed(p) \/ SkipTenant(p) \/ EndOfPage(p)
        \/ SkipItem(p) \/ BeginMatch(p)
        \/ LookupUrl(p) \/ LookupDomain(p) \/ SearchCompany(p) \/ WriteAlias(p)
        \/ FailMatch(p)
        \/ UpsertSignal(p) \/ UpsertFails(p)
        \/ Kill(p)
  BY DEF Next
<1>3. CASE ListEnabledTenants(p)
  BY <1>1, <1>3 DEF ListEnabledTenants, Goto, Visible, tables
<1>4. CASE Finish(p)
  BY <1>1, <1>4 DEF Finish, Goto, tables
<1>5. CASE ReadFeed(p)
  BY <1>1, <1>5, EnabledAssumption DEF ReadFeed, Goto, tables
<1>6. CASE SkipTenant(p)
  BY <1>1, <1>6 DEF SkipTenant, tables
<1>7. CASE EndOfPage(p)
  BY <1>1, <1>7 DEF EndOfPage, Leave, Goto, tables
<1>8. CASE SkipItem(p)
  BY <1>1, <1>8 DEF SkipItem, tables
<1>9. CASE BeginMatch(p)
  <2>1. \E label \in {"url", "domain", "store"} :
           pc' = [pc EXCEPT ![p] = label]
    <3>1. CASE MatchUrl(Item(p)) # None
      BY <1>9, <3>1 DEF BeginMatch, Goto
    <3>2. CASE MatchUrl(Item(p)) = None /\ Item(p).domain # None
      BY <1>9, <3>2 DEF BeginMatch, Goto
    <3>3. CASE MatchUrl(Item(p)) = None /\ Item(p).domain = None
      BY <1>9, <3>3 DEF BeginMatch, Goto
    <3>4. QED
      BY <3>1, <3>2, <3>3
  <2>2. QED
    BY <1>1, <1>9, <2>1 DEF BeginMatch, tables
<1>10. CASE LookupUrl(p)
  <2>1. ByUrl(p) \subseteq Alias
    BY <1>1, <1>10, GivenItem DEF ByUrl, LookupUrl, Busy
  <2>2. QED
    BY <1>1, <1>10, <2>1 DEF LookupUrl, Hit, Miss, Goto, tables, Alias
<1>11. CASE LookupDomain(p)
  <2>1. ByDomain(p) \subseteq Alias
    BY <1>1, <1>11, GivenItem DEF ByDomain, LookupDomain, Busy
  <2>2. QED
    BY <1>1, <1>11, <2>1 DEF LookupDomain, Hit, Miss, Goto, tables, Alias
<1>12. CASE SearchCompany(p)
  <2>1. Answers(Item(p).domain) \subseteq Companies
    BY <1>12, GivenItem DEF SearchCompany, Busy
  <2>2. pc' \in [Polls -> Labels] /\ match' \in [Polls -> Companies \cup {None}]
    <3>1. CASE Miss(p, "store")
      BY <1>1, <3>1 DEF Miss, Goto
    <3>2. CASE ~Miss(p, "store")
      <4>1. PICK company \in Answers(Item(p).domain) :
              Goto(p, "alias") /\ match' = [match EXCEPT ![p] = company]
        BY <1>12, <3>2 DEF SearchCompany
      <4>2. QED
        BY <1>1, <2>1, <4>1 DEF Goto
    <3>3. QED
      BY <3>1, <3>2
  <2>3. QED
    BY <1>1, <1>12, <2>2 DEF SearchCompany, Miss, tables
<1>13. CASE WriteAlias(p)
  <2>1. match[p] \in Companies
    BY <1>13, GivenItem DEF WriteAlias, Busy, IInv, MatchIsBacked
  <2>2. [url |-> MatchUrl(Item(p)), domain |-> Item(p).domain,
         company |-> match[p]] \in Alias
    BY <1>13, <2>1, GivenItem DEF Alias, WriteAlias, Busy
  <2>3. aliases' \in [Tenants -> SUBSET Alias]
    BY <1>1, <1>13, <2>2 DEF WriteAlias
  <2>4. clean' \in [Polls -> BOOLEAN]
    BY <1>13 DEF WriteAlias, Disturbed
  <2>5. QED
    BY <1>1, <1>13, <2>3, <2>4 DEF WriteAlias, Goto
<1>14. CASE FailMatch(p)
  BY <1>1, <1>14 DEF FailMatch, Goto, tables
<1>15. CASE UpsertSignal(p)
  <2>1. UpsertRow(p) \in Row
    BY <1>15, RowToStore DEF UpsertSignal
  <2>2. signals' \in [Tenants -> [Keys -> Row \cup {None}]]
    BY <1>1, <1>15, <2>1 DEF UpsertSignal
  <2>3. clean' \in [Polls -> BOOLEAN]
    BY <1>15 DEF UpsertSignal, Disturbed
  <2>4. QED
    BY <1>1, <1>15, <2>2, <2>3 DEF UpsertSignal, NextItem, Goto
<1>16. CASE UpsertFails(p)
  BY <1>1, <1>16 DEF UpsertFails, NextItem, Goto, tables
<1>17. CASE Kill(p)
  BY <1>1, <1>17 DEF Kill, Leave, Goto, tables
<1>18. QED
  BY <1>2, <1>3, <1>4, <1>5, <1>6, <1>7, <1>8, <1>9, <1>10, <1>11, <1>12,
     <1>13, <1>14, <1>15, <1>16, <1>17

LEMMA WorkStep == ASSUME IInv, Next PROVE WorkIsGiven'
<1> USE DEF WorkIsGiven, Busy, Item
<1>1. TypeOK /\ WorkIsGiven
  BY DEF IInv
<1>2. SUFFICES ASSUME NEW q \in Polls
               PROVE  /\ Busy(q)' \/ pc'[q] = "item" =>
                           tenant'[q] \in Tenants /\ page'[q] \in Pages
                      /\ Busy(q)' => /\ at'[q] \in DOMAIN page'[q]
                                     /\ IsKnown(page'[q][at'[q]])
                      /\ pc'[q] \in {"idle", "tenants"} =>
                           page'[q] = <<>> /\ at'[q] = 1
  OBVIOUS
<1>3. PICK p \in Polls :
        \/ ListEnabledTenants(p) \/ Finish(p)
        \/ ReadFeed(p) \/ SkipTenant(p) \/ EndOfPage(p)
        \/ SkipItem(p) \/ BeginMatch(p)
        \/ LookupUrl(p) \/ LookupDomain(p) \/ SearchCompany(p) \/ WriteAlias(p)
        \/ FailMatch(p)
        \/ UpsertSignal(p) \/ UpsertFails(p)
        \/ Kill(p)
  BY DEF Next
<1>4. CASE ListEnabledTenants(p) \/ Finish(p) \/ SkipTenant(p)
  BY <1>1, <1>4 DEF TypeOK, ListEnabledTenants, Finish, SkipTenant, Goto
<1>5. CASE ReadFeed(p)
  BY <1>1, <1>5, EnabledAssumption DEF TypeOK, ReadFeed, Goto
<1>6. CASE EndOfPage(p) \/ Kill(p)
  BY <1>1, <1>6 DEF TypeOK, EndOfPage, Kill, Leave, Goto
<1>7. CASE SkipItem(p)
  BY <1>1, <1>7 DEF TypeOK, SkipItem
<1>8. CASE BeginMatch(p)
  <2>1. page[p] \in Seq(Items) /\ at[p] \in Nat \ {0} /\ at[p] <= Len(page[p])
    BY <1>1, <1>8, PagesAssumption DEF BeginMatch, TypeOK
  <2>2. at[p] \in DOMAIN page[p]
    BY <2>1
  <2>3. QED
    BY <1>1, <1>8, <2>2 DEF TypeOK, BeginMatch, Goto
<1>9. CASE LookupUrl(p) \/ LookupDomain(p) \/ SearchCompany(p)
  BY <1>1, <1>9
     DEF TypeOK, LookupUrl, LookupDomain, SearchCompany, Hit, Miss, Goto
<1>10. CASE WriteAlias(p) \/ FailMatch(p)
  BY <1>1, <1>10 DEF TypeOK, WriteAlias, FailMatch, Goto
<1>11. CASE UpsertSignal(p) \/ UpsertFails(p)
  BY <1>1, <1>11 DEF TypeOK, UpsertSignal, UpsertFails, NextItem, Goto
<1>12. QED
  BY <1>3, <1>4, <1>5, <1>6, <1>7, <1>8, <1>9, <1>10, <1>11

LEMMA MatchStep == ASSUME IInv, Next PROVE MatchIsBacked'
<1> USE DEF Item
<1>1. TypeOK /\ WorkIsGiven /\ MatchIsBacked
  BY DEF IInv
<1>2. SUFFICES ASSUME NEW q \in Polls
               PROVE  /\ pc'[q] = "url" => MatchUrl(Item(q)') # None
                      /\ pc'[q] \in {"domain", "search", "alias"} =>
                           Item(q)'.domain # None
                      /\ pc'[q] = "alias" =>
                           match'[q] \in Answers(Item(q)'.domain)
                      /\ pc'[q] = "store" =>
                           match'[q] = None \/ Leads(tenant[q], Item(q), match[q])'
                      /\ pc'[q] \notin {"alias", "store"} => match'[q] = None
  BY DEF MatchIsBacked
<1>3. PICK p \in Polls :
        \/ ListEnabledTenants(p) \/ Finish(p)
        \/ ReadFeed(p) \/ SkipTenant(p) \/ EndOfPage(p)
        \/ SkipItem(p) \/ BeginMatch(p)
        \/ LookupUrl(p) \/ LookupDomain(p) \/ SearchCompany(p) \/ WriteAlias(p)
        \/ FailMatch(p)
        \/ UpsertSignal(p) \/ UpsertFails(p)
        \/ Kill(p)
  BY DEF Next
<1>4. CASE q # p
  (* Another poll's step: q's own state stays and aliases only grow.       *)
  <2>1. /\ pc'[q] = pc[q] /\ tenant'[q] = tenant[q] /\ page'[q] = page[q]
        /\ at'[q] = at[q] /\ match'[q] = match[q]
    BY <1>1, <1>3, <1>4
       DEF TypeOK, ListEnabledTenants, Finish, ReadFeed, SkipTenant, EndOfPage,
           SkipItem, BeginMatch, LookupUrl, LookupDomain, Hit, Miss,
           SearchCompany, WriteAlias, FailMatch, UpsertSignal, UpsertFails,
           NextItem, Kill, Leave, Goto
  <2>2. CASE pc[q] = "store" /\ match[q] # None
    <3>1. Leads(tenant[q], Item(q), match[q]) /\ tenant[q] \in Tenants
      BY <1>1, <2>2 DEF MatchIsBacked, WorkIsGiven, Busy
    <3>2. aliases[tenant[q]] \subseteq aliases'[tenant[q]]
      BY <3>1, AliasesGrow
    <3>3. Leads(tenant[q], Item(q), match[q])'
      BY <2>1, <3>1, <3>2 DEF Leads
    <3>4. QED
      BY <2>1, <2>2, <3>3
  <2>3. CASE ~(pc[q] = "store" /\ match[q] # None)
    BY <1>1, <2>1, <2>3 DEF MatchIsBacked
  <2>4. QED
    BY <2>2, <2>3
<1>5. CASE q = p
  <2>1. CASE \/ ListEnabledTenants(p) \/ Finish(p) \/ ReadFeed(p)
             \/ SkipTenant(p) \/ EndOfPage(p) \/ Kill(p)
    <3>1. pc'[p] \in {"idle", "tenants", "item"} /\ match'[p] = None
      BY <1>1, <2>1 DEF TypeOK, MatchIsBacked, ListEnabledTenants, Finish,
         ReadFeed, SkipTenant, EndOfPage, Kill, Leave, Goto
    <3>2. QED
      BY <1>5, <3>1
  <2>2. CASE SkipItem(p) \/ UpsertSignal(p) \/ UpsertFails(p)
    <3>1. pc'[p] = "item" /\ match'[p] = None
      BY <1>1, <2>2 DEF TypeOK, MatchIsBacked, SkipItem, UpsertSignal,
         UpsertFails, NextItem, Goto
    <3>2. QED
      BY <1>5, <3>1
  <2>3. CASE BeginMatch(p)
    <3>1. match[p] = None
      BY <1>1, <2>3 DEF BeginMatch, MatchIsBacked
    <3>2. QED
      BY <1>1, <1>5, <2>3, <3>1 DEF TypeOK, BeginMatch, Goto
  <2>4. CASE LookupUrl(p)
    <3>1. /\ tenant'[p] = tenant[p] /\ page'[p] = page[p] /\ at'[p] = at[p]
          /\ aliases' = aliases
      BY <2>4 DEF LookupUrl, Hit, Miss, tables
    <3>2. CASE Hit(p, ByUrl(p))
      <4>1. pc'[p] = "store" /\ \E row \in ByUrl(p) : match'[p] = row.company
        BY <1>1, <3>2 DEF TypeOK, Hit, Goto
      <4>2. Leads(tenant[p], Item(p), match[p])'
        BY <1>1, <2>4, <3>1, <4>1 DEF MatchIsBacked, LookupUrl, ByUrl, Leads
      <4>3. QED
        BY <1>5, <4>1, <4>2
    <3>3. CASE ~Hit(p, ByUrl(p))
      BY <1>1, <1>5, <2>4, <3>1, <3>3
         DEF TypeOK, MatchIsBacked, LookupUrl, Miss, Goto
    <3>4. QED
      BY <3>2, <3>3
  <2>5. CASE LookupDomain(p)
    <3>1. /\ tenant'[p] = tenant[p] /\ page'[p] = page[p] /\ at'[p] = at[p]
          /\ aliases' = aliases
      BY <2>5 DEF LookupDomain, Hit, Miss, tables
    <3>2. CASE Hit(p, ByDomain(p))
      <4>1. pc'[p] = "store" /\ \E row \in ByDomain(p) : match'[p] = row.company
        BY <1>1, <3>2 DEF TypeOK, Hit, Goto
      <4>2. Leads(tenant[p], Item(p), match[p])'
        BY <1>1, <2>5, <3>1, <4>1 DEF MatchIsBacked, LookupDomain, ByDomain, Leads
      <4>3. QED
        BY <1>5, <4>1, <4>2
    <3>3. CASE ~Hit(p, ByDomain(p))
      BY <1>1, <1>5, <2>5, <3>1, <3>3
         DEF TypeOK, MatchIsBacked, LookupDomain, Miss, Goto
    <3>4. QED
      BY <3>2, <3>3
  <2>6. CASE SearchCompany(p)
    BY <1>1, <1>5, <2>6 DEF TypeOK, MatchIsBacked, SearchCompany, Miss, Goto
  <2>7. CASE WriteAlias(p)
    <3>1. [url |-> MatchUrl(Item(p)), domain |-> Item(p).domain,
           company |-> match[p]] \in aliases'[tenant[p]]
      BY <1>1, <2>7, GivenItem DEF TypeOK, WriteAlias, Busy
    <3>2. Leads(tenant[p], Item(p), match[p])'
      BY <1>1, <2>7, <3>1 DEF MatchIsBacked, WriteAlias, Leads
    <3>3. QED
      BY <1>1, <1>5, <2>7, <3>2 DEF TypeOK, WriteAlias, Goto
  <2>8. CASE FailMatch(p)
    BY <1>1, <1>5, <2>8 DEF TypeOK, FailMatch, Goto
  <2>9. QED
    BY <1>3, <2>1, <2>2, <2>3, <2>4, <2>5, <2>6, <2>7, <2>8
<1>6. QED
  BY <1>4, <1>5

(* Only UpsertSignal writes a row, and only that of its item.              *)
LEMMA RowsChange ==
    ASSUME IInv, Next
    PROVE  \/ signals' = signals
           \/ \E p \in Polls : UpsertSignal(p)
BY DEF Next, tables, ListEnabledTenants, Finish, ReadFeed, SkipTenant,
       EndOfPage, SkipItem, BeginMatch, LookupUrl, LookupDomain, Hit, Miss,
       SearchCompany, WriteAlias, FailMatch, UpsertFails, Kill

LEMMA UpsertedRow ==
    ASSUME IInv, NEW p \in Polls, UpsertSignal(p), NEW t \in Tenants,
           NEW k \in Keys
    PROVE  IF t = tenant[p] /\ k = NormalizeFeedItem(Item(p)).dedupeKey
           THEN signals'[t][k] = UpsertRow(p) ELSE signals'[t][k] = signals[t][k]
<1>1. signals \in [Tenants -> [Keys -> Row \cup {None}]]
  BY DEF IInv, TypeOK
<1>2. /\ tenant[p] \in Tenants
      /\ NormalizeFeedItem(Item(p)).dedupeKey \in Keys
  BY GivenItem DEF UpsertSignal, Busy
<1>3. QED
  BY <1>1, <1>2 DEF UpsertSignal

LEMMA AssignedStep == ASSUME IInv, Next PROVE AssignedIsBacked'
<1>1. ASSUME NEW t \in Tenants, NEW k \in Keys, signals'[t][k] # None,
             signals'[t][k].company # None
      PROVE  Leads(t, signals[t][k].item, signals[t][k].company)'
  <2>1. aliases[t] \subseteq aliases'[t]
    BY AliasesGrow
  <2>2. SUFFICES Leads(t, signals'[t][k].item, signals'[t][k].company)
    BY <2>1 DEF Leads
  <2>3. CASE signals'[t][k] = signals[t][k]
    BY <1>1, <2>3 DEF IInv, AssignedIsBacked
  <2>4. CASE signals'[t][k] # signals[t][k]
    <3>1. PICK p \in Polls : UpsertSignal(p)
      BY <2>4, RowsChange
    <3>2. t = tenant[p] /\ signals'[t][k] = UpsertRow(p)
      BY <2>4, <3>1, UpsertedRow
    <3>3. QED
      BY <1>1, <3>1, <3>2, RowToStore DEF UpsertSignal
  <2>5. QED
    BY <2>3, <2>4
<1>2. ASSUME NEW t \in Tenants, NEW a \in aliases'[t]
      PROVE  a.company \in Answers(a.domain)
  <2>1. CASE a \in aliases[t]
    BY <2>1 DEF IInv, AssignedIsBacked
  <2>2. CASE a \notin aliases[t]
    <3>1. PICK p \in Polls : WriteAlias(p)
      BY <1>2, <2>2 DEF Next, tables, ListEnabledTenants, Finish, ReadFeed,
         SkipTenant, EndOfPage, SkipItem, BeginMatch, LookupUrl, LookupDomain,
         Hit, Miss, SearchCompany, FailMatch, UpsertSignal, UpsertFails, Kill
    <3>2. a = [url |-> MatchUrl(Item(p)), domain |-> Item(p).domain,
               company |-> match[p]]
      BY <1>2, <2>2, <3>1 DEF WriteAlias, IInv, TypeOK
    <3>3. match[p] \in Answers(Item(p).domain)
      BY <3>1 DEF WriteAlias, IInv, MatchIsBacked
    <3>4. QED
      BY <3>2, <3>3
  <2>3. QED
    BY <2>1, <2>2
<1>3. QED
  BY <1>1, <1>2 DEF AssignedIsBacked

LEMMA RowsStay ==
    ASSUME IInv, Next, NEW t \in Tenants, NEW k \in Keys, signals[t][k] # None
    PROVE  signals'[t][k] # None
<1>1. CASE signals' = signals
  BY <1>1
<1>2. CASE \E p \in Polls : UpsertSignal(p)
  BY <1>2, UpsertedRow, RowToStore DEF UpsertSignal
<1>3. QED
  BY <1>1, <1>2, RowsChange

LEMMA SkippedStep == ASSUME IInv, Next PROVE NothingSkipped'
<1>1. TypeOK /\ WorkIsGiven /\ NothingSkipped
  BY DEF IInv
<1>2. SUFFICES ASSUME NEW q \in Polls, NEW n \in DOMAIN page'[q],
                      n < at'[q], IsKnown(page'[q][n]), n \notin lost'[q]
               PROVE  signals'[tenant'[q]]
                        [NormalizeFeedItem(page'[q][n]).dedupeKey] # None
  BY DEF NothingSkipped
<1>3. ASSUME tenant'[q] = tenant[q], page'[q] = page[q], pc[q] = "item" \/ Busy(q),
             \/ n < at[q] /\ n \notin lost[q]
             \/ n = at[q] /\ UpsertSignal(q)
      PROVE  signals'[tenant'[q]]
               [NormalizeFeedItem(page'[q][n]).dedupeKey] # None
  <2>1. /\ tenant[q] \in Tenants /\ page[q][n] \in KnownItems
        /\ NormalizeFeedItem(page[q][n]).dedupeKey \in Keys
    BY <1>1, <1>2, <1>3 DEF WorkIsGiven, Items, KnownItems, Keys
  <2>2. CASE n < at[q] /\ n \notin lost[q]
    BY <1>1, <1>2, <1>3, <2>1, <2>2, RowsStay DEF NothingSkipped
  <2>3. CASE n = at[q] /\ UpsertSignal(q)
    <3>1. Item(q) = page[q][n]
      BY <2>3 DEF Item
    <3>2. pc[q] = "store"
      BY <2>3 DEF UpsertSignal
    <3>3. QED
      BY <1>3, <2>1, <2>3, <3>1, <3>2, UpsertedRow, RowToStore
  <2>4. QED
    BY <1>3, <2>2, <2>3
<1>4. PICK p \in Polls :
        \/ ListEnabledTenants(p) \/ Finish(p)
        \/ ReadFeed(p) \/ SkipTenant(p) \/ EndOfPage(p)
        \/ SkipItem(p) \/ BeginMatch(p)
        \/ LookupUrl(p) \/ LookupDomain(p) \/ SearchCompany(p) \/ WriteAlias(p)
        \/ FailMatch(p)
        \/ UpsertSignal(p) \/ UpsertFails(p)
        \/ Kill(p)
  BY DEF Next
<1>5. at[q] \in Nat /\ n \in Nat /\ pc[q] \in Labels
  <2>1. page'[q] = <<>> \/ page'[q] \in Seq(Items)
    BY TypeStep, PagesAssumption DEF TypeOK
  <2>2. QED
    BY <1>1, <1>2, <2>1 DEF TypeOK
<1>6. CASE q # p
  <2>1. /\ pc'[q] = pc[q] /\ tenant'[q] = tenant[q] /\ page'[q] = page[q]
        /\ at'[q] = at[q] /\ lost'[q] = lost[q]
    BY <1>1, <1>4, <1>6
       DEF TypeOK, ListEnabledTenants, Finish, ReadFeed, SkipTenant, EndOfPage,
           SkipItem, BeginMatch, LookupUrl, LookupDomain, Hit, Miss,
           SearchCompany, WriteAlias, FailMatch, UpsertSignal, UpsertFails,
           NextItem, Kill, Leave, Goto
  <2>2. pc[q] = "item" \/ Busy(q)
    BY <1>1, <1>2, <1>5, <2>1 DEF WorkIsGiven, Busy, Labels
  <2>3. QED
    BY <1>2, <1>3, <2>1, <2>2
<1>7. CASE q = p
  <2>1. CASE \/ ListEnabledTenants(p) \/ Finish(p) \/ ReadFeed(p)
             \/ SkipTenant(p) \/ EndOfPage(p) \/ Kill(p)
    <3>1. at'[p] = 1
      BY <1>1, <2>1 DEF TypeOK, WorkIsGiven, ListEnabledTenants, Finish,
         ReadFeed, SkipTenant, EndOfPage, Kill, Leave, Goto
    <3>2. page'[p] = <<>> \/ page'[p] \in Seq(Items)
      BY TypeStep, PagesAssumption DEF TypeOK
    <3>3. QED
      BY <1>2, <1>7, <3>1, <3>2
  <2>2. CASE \/ BeginMatch(p) \/ LookupUrl(p) \/ LookupDomain(p)
             \/ SearchCompany(p) \/ WriteAlias(p) \/ FailMatch(p)
    <3>1. /\ tenant' = tenant /\ page' = page /\ at' = at /\ lost' = lost
          /\ pc[p] = "item" \/ Busy(p)
      BY <2>2 DEF BeginMatch, LookupUrl, LookupDomain, Hit, Miss,
         SearchCompany, WriteAlias, FailMatch, Busy
    <3>2. QED
      BY <1>2, <1>3, <1>7, <3>1
  <2>3. CASE SkipItem(p) \/ UpsertSignal(p) \/ UpsertFails(p)
    <3>1. /\ tenant' = tenant /\ page' = page /\ at'[p] = at[p] + 1
          /\ lost[p] \subseteq lost'[p]
          /\ pc[p] = "item" \/ Busy(p)
      BY <1>1, <2>3
         DEF TypeOK, SkipItem, UpsertSignal, UpsertFails, NextItem, Busy
    <3>2. CASE n < at[p]
      BY <1>2, <1>3, <1>7, <3>1, <3>2
    <3>3. CASE n = at[p]
      <4>1. ~SkipItem(p)
        BY <1>2, <1>7, <3>1, <3>3 DEF SkipItem, Item
      <4>2. ~UpsertFails(p)
        BY <1>1, <1>2, <1>7, <3>3 DEF TypeOK, UpsertFails
      <4>3. QED
        BY <1>3, <1>7, <2>3, <3>1, <3>3, <4>1, <4>2
    <3>4. QED
      BY <1>2, <1>5, <1>7, <3>1, <3>2, <3>3
  <2>4. QED
    BY <1>4, <2>1, <2>2, <2>3
<1>8. QED
  BY <1>6, <1>7

THEOREM Invariance == Spec => []IInv
<1>1. IInv /\ [Next]_vars => IInv'
  <2>1. ASSUME IInv, Next PROVE IInv'
    BY <2>1, TypeStep, WorkStep, MatchStep, AssignedStep, SkippedStep DEF IInv
  <2>2. ASSUME IInv, UNCHANGED vars PROVE IInv'
    BY <2>2 DEF vars, tables, IInv, TypeOK, WorkIsGiven, MatchIsBacked,
       AssignedIsBacked, NothingSkipped, Busy, Item, Leads
  <2>3. QED
    BY <2>1, <2>2
<1>2. QED
  BY <1>1, InitInv, PTL DEF Spec

(* Every reachable state is well typed, for any feed and any polls.        *)
THEOREM TypeCorrect == Spec => []TypeOK
<1>1. IInv => TypeOK
  BY DEF IInv
<1>2. QED
  BY <1>1, Invariance, PTL

(* No signal is filed under a company that neither the feed nor an answer  *)
(* of HubSpot gave it, however polls overlap and wherever they die.        *)
THEOREM CompaniesAreBacked == Spec => []AssignedIsBacked
<1>1. IInv => AssignedIsBacked
  BY DEF IInv
<1>2. QED
  BY <1>1, Invariance, PTL

(* No item of a known type that a poll has come past is without a row,     *)
(* unless its own write failed.                                            *)
THEOREM ItemsAreStored == Spec => []NothingSkipped
<1>1. IInv => NothingSkipped
  BY DEF IInv
<1>2. QED
  BY <1>1, Invariance, PTL

-----------------------------------------------------------------------------
(* A resolved row can be found again by the item's page or its domain.     *)
LEMMA ResolvedHasAlias ==
    ASSUME IInv, NEW p \in Polls, Busy(p), Resolved(p)
    PROVE  \/ MatchUrl(Item(p)) # None /\ ByUrl(p) # {}
           \/ Item(p).domain # None /\ ByDomain(p) # {}
<1>1. tenant[p] \in Tenants /\ StoredKey(p) \in Keys
  BY GivenItem DEF StoredKey
<1>2. Leads(tenant[p], Item(p), signals[tenant[p]][StoredKey(p)].company)
  BY <1>1 DEF Resolved, IInv, AssignedIsBacked
<1>3. QED
  BY <1>2 DEF Leads, Resolved, ByUrl, ByDomain

LEMMA HitFinds ==
    ASSUME IInv, NEW p \in Polls, Busy(p), NEW rows \in SUBSET aliases[tenant[p]],
           Hit(p, rows)
    PROVE  pc'[p] = "store" /\ match'[p] # None
<1>1. rows \subseteq Alias
  BY GivenItem DEF IInv, TypeOK
<1>2. \A row \in rows : row.company # None
  BY <1>1, CompaniesAssumption DEF Alias
<1>3. QED
  BY <1>2 DEF Hit, Goto, IInv, TypeOK

LEMMA FoundStep == ASSUME IInv, ResolvedIsFound, Next PROVE ResolvedIsFound'
<1>1. TypeOK /\ WorkIsGiven /\ MatchIsBacked
  BY DEF IInv
<1>2. SUFFICES ASSUME NEW q \in Polls, Busy(q)', clean'[q], Resolved(q)'
               PROVE  /\ pc'[q] \notin {"search", "alias"}
                      /\ pc'[q] = "domain" => ByDomain(q)' # {}
                      /\ pc'[q] = "store" => match'[q] # None
  BY DEF ResolvedIsFound
<1>3. PICK p \in Polls :
        \/ ListEnabledTenants(p) \/ Finish(p)
        \/ ReadFeed(p) \/ SkipTenant(p) \/ EndOfPage(p)
        \/ SkipItem(p) \/ BeginMatch(p)
        \/ LookupUrl(p) \/ LookupDomain(p) \/ SearchCompany(p) \/ WriteAlias(p)
        \/ FailMatch(p)
        \/ UpsertSignal(p) \/ UpsertFails(p)
        \/ Kill(p)
  BY DEF Next
<1>4. CASE q # p
  <2>1. /\ pc'[q] = pc[q] /\ tenant'[q] = tenant[q] /\ page'[q] = page[q]
        /\ at'[q] = at[q] /\ match'[q] = match[q]
    BY <1>1, <1>3, <1>4
       DEF TypeOK, ListEnabledTenants, Finish, ReadFeed, SkipTenant, EndOfPage,
           SkipItem, BeginMatch, LookupUrl, LookupDomain, Hit, Miss,
           SearchCompany, WriteAlias, FailMatch, UpsertSignal, UpsertFails,
           NextItem, Kill, Leave, Goto
  <2>2. Busy(q) /\ tenant[q] \in Tenants /\ StoredKey(q) \in Keys
    BY <1>2, <2>1, GivenItem DEF Busy, StoredKey
  <2>3. CASE \/ ListEnabledTenants(p) \/ Finish(p) \/ ReadFeed(p)
             \/ SkipTenant(p) \/ EndOfPage(p) \/ Kill(p) \/ SkipItem(p)
             \/ BeginMatch(p) \/ LookupUrl(p) \/ LookupDomain(p)
             \/ SearchCompany(p) \/ FailMatch(p) \/ UpsertFails(p)
    <3>1. signals' = signals /\ aliases' = aliases /\ clean'[q] = clean[q]
      BY <1>1, <1>4, <2>3
         DEF TypeOK, tables, ListEnabledTenants, Finish, ReadFeed, SkipTenant,
             EndOfPage, SkipItem, BeginMatch, LookupUrl, LookupDomain, Hit,
             Miss, SearchCompany, FailMatch, UpsertFails, Kill, Leave
    <3>2. Resolved(q) /\ ByDomain(q)' = ByDomain(q)
      BY <1>2, <2>1, <3>1 DEF Resolved, StoredKey, Item, ByDomain
    <3>3. QED
      BY <1>2, <2>1, <2>2, <3>1, <3>2 DEF ResolvedIsFound
  <2>4. CASE WriteAlias(p) \/ UpsertSignal(p)
    <3>1. clean'[q] = Disturbed(p)[q]
      BY <1>4, <2>4 DEF WriteAlias, UpsertSignal, Disturbed
    <3>2. clean[q] /\ tenant[q] # tenant[p]
      BY <1>2, <1>4, <2>2, <3>1 DEF Disturbed
    <3>3. signals'[tenant[q]] = signals[tenant[q]]
      BY <1>1, <2>2, <2>4, <3>2 DEF TypeOK, WriteAlias, UpsertSignal
    <3>4. aliases'[tenant[q]] = aliases[tenant[q]]
      BY <1>1, <2>2, <2>4, <3>2 DEF TypeOK, WriteAlias, UpsertSignal
    <3>5. Resolved(q) /\ ByDomain(q)' = ByDomain(q)
      BY <1>2, <2>1, <3>3, <3>4 DEF Resolved, StoredKey, Item, ByDomain
    <3>6. QED
      BY <1>2, <2>1, <2>2, <3>2, <3>5 DEF ResolvedIsFound
  <2>5. QED
    BY <1>3, <2>3, <2>4
<1>5. CASE q = p
  <2>1. CASE \/ ListEnabledTenants(p) \/ Finish(p) \/ ReadFeed(p)
             \/ SkipTenant(p) \/ EndOfPage(p) \/ Kill(p) \/ SkipItem(p)
             \/ UpsertSignal(p) \/ UpsertFails(p)
    <3>1. pc'[p] \in {"idle", "tenants", "item"}
      BY <1>1, <2>1
         DEF TypeOK, ListEnabledTenants, Finish, ReadFeed, SkipTenant,
             EndOfPage, SkipItem, UpsertSignal, UpsertFails, NextItem, Kill,
             Leave, Goto
    <3>2. QED
      BY <1>2, <1>5, <3>1 DEF Busy
  <2>2. CASE FailMatch(p)
    BY <1>1, <1>2, <1>5, <2>2 DEF TypeOK, FailMatch
  <2>3. CASE BeginMatch(p) \/ LookupUrl(p) \/ LookupDomain(p)
    <3>1. /\ signals' = signals /\ aliases' = aliases /\ clean' = clean
          /\ tenant' = tenant /\ page' = page /\ at' = at
      BY <2>3 DEF BeginMatch, LookupUrl, LookupDomain, Hit, Miss, tables
    <3>2. Resolved(p) /\ clean[p] /\ ByDomain(p)' = ByDomain(p)
      BY <1>2, <1>5, <3>1 DEF Resolved, StoredKey, Item, ByDomain
    <3>3. \/ MatchUrl(Item(p)) # None /\ ByUrl(p) # {}
          \/ Item(p).domain # None /\ ByDomain(p) # {}
      <4>1. IInv' /\ Busy(p)'
        BY <1>2, <1>5, TypeStep, WorkStep, MatchStep, AssignedStep, SkippedStep
           DEF IInv
      <4>2. tenant[p] \in Tenants /\ StoredKey(p) \in Keys
        <5>1. tenant[p] \in Tenants /\ page[p] \in Pages
          BY <1>1, <2>3
             DEF WorkIsGiven, BeginMatch, LookupUrl, LookupDomain, Busy
        <5>2. at[p] \in DOMAIN page[p] /\ IsKnown(Item(p))
          BY <3>1, <4>1 DEF IInv, WorkIsGiven, Item
        <5>3. QED
          BY <5>1, <5>2 DEF StoredKey, Keys, KnownItems, Items, Item
      <4>3. Leads(tenant[p], Item(p), signals[tenant[p]][StoredKey(p)].company)
        BY <3>2, <4>2 DEF Resolved, IInv, AssignedIsBacked
      <4>4. QED
        BY <3>2, <4>3 DEF Leads, Resolved, ByUrl, ByDomain
    <3>4. CASE BeginMatch(p)
      BY <1>1, <1>5, <3>2, <3>3, <3>4 DEF TypeOK, BeginMatch, Goto
    <3>5. CASE LookupUrl(p)
      <4>1. CASE Hit(p, ByUrl(p))
        BY <1>5, <3>5, <4>1, HitFinds DEF LookupUrl, Busy, ByUrl
      <4>2. CASE ByUrl(p) = {}
        BY <1>1, <1>5, <3>2, <3>3, <3>5, <4>2
           DEF TypeOK, LookupUrl, Hit, Miss, Goto
      <4>3. QED
        BY <3>5, <4>1, <4>2 DEF LookupUrl
    <3>6. CASE LookupDomain(p)
      <4>1. pc[p] = "domain" /\ Busy(p)
        BY <3>6 DEF LookupDomain, Busy
      <4>2. ByDomain(p) # {}
        BY <3>2, <4>1 DEF ResolvedIsFound
      <4>3. Hit(p, ByDomain(p))
        BY <3>6, <4>2 DEF LookupDomain
      <4>4. QED
        BY <1>5, <4>1, <4>3, HitFinds DEF ByDomain
    <3>7. QED
      BY <2>3, <3>4, <3>5, <3>6
  <2>4. CASE SearchCompany(p) \/ WriteAlias(p)
    (* Neither is reached: the lookups would have found the company.       *)
    <3>1. pc[p] \in {"search", "alias"} /\ Busy(p)
      BY <2>4 DEF SearchCompany, WriteAlias, Busy
    <3>2. /\ signals' = signals /\ tenant' = tenant /\ page' = page /\ at' = at
          /\ clean'[p] => clean[p]
      BY <1>1, <2>4
         DEF TypeOK, SearchCompany, Miss, WriteAlias, Disturbed, tables
    <3>3. Resolved(p) /\ clean[p]
      BY <1>2, <1>5, <3>2 DEF Resolved, StoredKey, Item
    <3>4. QED
      BY <3>1, <3>3 DEF ResolvedIsFound
  <2>5. QED
    BY <1>3, <2>1, <2>2, <2>3, <2>4
<1>6. QED
  BY <1>4, <1>5

(* A redundant poll, undisturbed and with a match that does not fail, never*)
(* takes its company from a row it stores again.                           *)
THEOREM RepollReconfirms == Spec => RepollKeepsCompany
<1>1. Init => ResolvedIsFound
  BY DEF Init, ResolvedIsFound, Busy
<1>2. IInv /\ ResolvedIsFound /\ [Next]_vars => ResolvedIsFound'
  <2>1. ASSUME IInv, ResolvedIsFound, UNCHANGED vars PROVE ResolvedIsFound'
    <3>1. ASSUME NEW p \in Polls
          PROVE  /\ Busy(p)' = Busy(p) /\ clean'[p] = clean[p]
                 /\ Resolved(p)' = Resolved(p) /\ ByDomain(p)' = ByDomain(p)
                 /\ pc'[p] = pc[p] /\ match'[p] = match[p]
      BY <2>1 DEF vars, tables, Resolved, StoredKey, Busy, Item, ByDomain
    <3>2. QED
      BY <2>1, <3>1 DEF ResolvedIsFound
  <2>2. QED
    BY <2>1, FoundStep
<1> DEFINE Kept ==
      \A p \in Polls, t \in Tenants, k \in Keys :
         Restores(p, t, k) /\ clean[p] /\ signals[t][k].company # None =>
             signals'[t][k].company # None
<1>3. IInv /\ ResolvedIsFound /\ [Next]_vars => [Kept]_vars
  <2>1. SUFFICES ASSUME IInv, ResolvedIsFound, Next,
                        NEW p \in Polls, NEW t \in Tenants, NEW k \in Keys,
                        Restores(p, t, k), clean[p], signals[t][k].company # None
                 PROVE  signals'[t][k].company # None
    OBVIOUS
  <2>2. CASE signals' = signals
    BY <2>1, <2>2
  <2>3. CASE \E q \in Polls : UpsertSignal(q)
    <3>1. PICK q \in Polls : UpsertSignal(q)
      BY <2>3
    <3>2. q = p
      BY <2>1, <3>1 DEF Restores, UpsertSignal, NextItem, Goto, IInv, TypeOK
    <3>3. signals'[t][k] = UpsertRow(p)
      BY <2>1, <3>1, <3>2, UpsertedRow DEF Restores
    <3>4. match[p] # None \/ NormalizeFeedItem(Item(p)).hsCompanyId # None
      BY <2>1 DEF Restores, ResolvedIsFound, Resolved, StoredKey, Busy
    <3>5. QED
      BY <3>3, <3>4 DEF UpsertRow, FirstOf
  <2>4. QED
    BY <2>1, <2>2, <2>3, RowsChange
<1>4. QED
  BY <1>1, <1>2, <1>3, Invariance, PTL DEF Spec, RepollKeepsCompany

-----------------------------------------------------------------------------
(* The normalization of an item, for every item                            *)

(* The names of two codes are disjoint: a name of TYPE_MAP has one code.   *)
LEMMA NamesAreApart ==
    ASSUME NEW c \in Codes, NEW d \in Codes, NEW name,
           name \in RawNames[c], name \in RawNames[d]
    PROVE  c = d
BY DEF Codes, RawNames

(* TYPE_MAP and the taxonomy, two tables of two files, agree on the level  *)
(* and the class of each code.                                             *)
LEMMA TablesAgree ==
    ASSUME NEW c \in Codes
    PROVE  /\ SignalTypes[c].level = MappedLevel(c)
           /\ SignalTypes[c].signalClass = MappedClass(c)
           /\ SignalTypes[c].copyAssertable <=> MappedClass(c) = "observable"
BY DEF Codes, RawNames, SignalTypes, Observable, Derived, MappedLevel, MappedClass

(* The record of an item of a known type says the same as the taxonomy,    *)
(* though half of it is taken from TYPE_MAP: only an observable signal may *)
(* be asserted, and a derived one names no evidence.                       *)
THEOREM RecordsAgree ==
    ASSUME NEW item, IsKnown(item)
    PROVE  LET record == NormalizeFeedItem(item)
               class == SignalTypes[record.signalType]
           IN  /\ record.signalType \in Codes
               /\ \A c \in Codes : item.type \in RawNames[c] <=> c = record.signalType
               /\ record.level = class.level
               /\ record.signalClass = class.signalClass
               /\ record.copyAssertable <=> record.signalClass = "observable"
               /\ record.signalClass # "observable" => record.evidenceUrl = None
<1> DEFINE code == ClassifySignalType(item.type)
<1>1. code \in Codes /\ item.type \in RawNames[code]
  BY DEF IsKnown, ClassifySignalType
<1> HIDE DEF code
<1>2. /\ NormalizeFeedItem(item).signalType = code
      /\ NormalizeFeedItem(item).level = MappedLevel(code)
      /\ NormalizeFeedItem(item).signalClass = MappedClass(code)
      /\ NormalizeFeedItem(item).copyAssertable = SignalTypes[code].copyAssertable
      /\ NormalizeFeedItem(item).evidenceUrl =
             IF MappedClass(code) = "observable" THEN item.url ELSE None
  BY DEF NormalizeFeedItem, code
<1> QED BY <1>1, <1>2, TablesAgree, NamesAreApart

(* Two LinkedIn URLs, missing or not, that lead to one page.               *)
SamePage(u, v) == (u = None <=> v = None) /\ NormalizeTargetId(u) = NormalizeTargetId(v)

(* One event in two deliveries of the feed has one key in the ledger, if   *)
(* they spell the type and the URLs of its pages differently: the upsert   *)
(* of the second meets the row of the first.                               *)
THEOREM SpellingsShareAKey ==
    ASSUME NEW i, NEW j,
           ClassifySignalType(i.type) = ClassifySignalType(j.type),
           i.id = j.id, i.url = j.url, i.date = j.date,
           SamePage(i.companyUrl, j.companyUrl),
           SamePage(i.orgUrl, j.orgUrl),
           SamePage(i.authorUrl, j.authorUrl)
    PROVE  NormalizeFeedItem(i).dedupeKey = NormalizeFeedItem(j).dedupeKey
<1>1. \A level : SamePage(LinkedinUrl(i, level), LinkedinUrl(j, level))
  BY DEF SamePage, LinkedinUrl, FirstOf
<1> DEFINE code == ClassifySignalType(i.type)
           Url(x) == LinkedinUrl(x, MappedLevel(code))
           Evidence(x) == IF MappedClass(code) = "observable" THEN x.url ELSE None
           Key(x) == LedgerKey(x.id, NormalizeTargetId(Url(x)), code, Evidence(x), x.date)
<1>2. NormalizeFeedItem(i).dedupeKey = Key(i) /\ NormalizeFeedItem(j).dedupeKey = Key(j)
  BY DEF NormalizeFeedItem
<1>3. NormalizeTargetId(Url(i)) = NormalizeTargetId(Url(j)) /\ Evidence(i) = Evidence(j)
  BY <1>1 DEF SamePage
<1> HIDE DEF code, Url, Evidence
<1>4. Key(i) = Key(j)
  BY <1>3
<1> QED BY <1>2, <1>4
=============================================================================
