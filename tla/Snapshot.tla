------------------------------ MODULE Snapshot ------------------------------
(***************************************************************************)
(* One request of POST /snapshot/:companyId: the route (routes/snapshot.ts), *)
(* the assembler (services/snapshot-assembler.ts) and the stages it calls, *)
(* while the poller goes on storing signals of the company.  Requests      *)
(* share nothing but the eligibility gate's caches (module Eligibility)    *)
(* and the rate limiters, whose refusal is one of the failures here.       *)
(***************************************************************************)
EXTENDS SignalRanking, EvidenceTrust

CONSTANTS Setups,            \* what the config resolver may answer
          ExaAnswers,        \* rows of Exa's search, in its order
          NewsAnswers,       \* rows of the news search
          Signals,           \* what the poller may store for the company
          MaxContacts        \* bound: contacts HubSpot knows

(* Every row the two searches may answer.                                  *)
Found == UNION {{answer[i] : i \in DOMAIN answer} : answer \in ExaAnswers \cup NewsAnswers}

ASSUME AnswersAssumption ==
    /\ ExaAnswers \cup NewsAnswers \subseteq Seq(Found)
    /\ \A row \in Found :
          /\ row.age \in Int /\ row.confidence \in 0 .. 1000
          /\ {row.restricted, row.assertable, row.valid} \subseteq BOOLEAN
          /\ \A s \in Signals : row.key # <<"row", s.id>>
ASSUME SignalsAssumption ==
    /\ \A s \in Signals :
          s.type \in Codes /\ s.age \in Int /\ IsFiniteSet(s.topics)
    /\ \A s, t \in Signals : s.id = t.id => s = t
ASSUME SetupsAssumption ==
    \A s \in Setups :
        /\ s # None
        /\ \A row \in {s.exa, s.trigify} :
              row # None /\ row.thresholds # None =>
                  row.thresholds.maxDays \in Nat /\ row.thresholds.minConfidence \in 0 .. 1000
        /\ s.trigify # None /\ s.trigify.settings.valid =>
              Conforms(Merged(s.trigify.settings.ranking))
ASSUME DecayAssumption ==
    \A s \in Signals, one \in Setups :
        one.trigify # None =>
            LET half == ParseRankingConfig(one.trigify.settings).halfLife
            IN  Decay(AgeDays(s), half) \in 0 .. 1000

VARIABLES
    stored,     \* the poller's signals of the company
    pc,         \* where the request is
    setup,      \* the tenant's providers it has resolved, or None
    rows,       \* the evidence the providers returned
    snapshot,   \* the answer so far
    told        \* history: the rows prompts have named, by position

requestVars == <<stored, pc, setup, rows, snapshot, told>>

(***************************************************************************)
(* A setup is [llm, exa, trigify]: whether a model can be built, and each  *)
(* signal provider's enabled row, or None.  A row's thresholds are None    *)
(* when they are out of bounds.                                            *)
(***************************************************************************)
DefaultThresholds == [maxDays |-> 30, minConfidence |-> 500]
NoLists == [allow |-> {}, block |-> {}]

(* The first row with valid thresholds gives the thresholds and the lists. *)
Governing ==
    LET Governs(row) == row # None /\ row.thresholds # None
    IN  IF Governs(setup.exa) THEN setup.exa
        ELSE IF Governs(setup.trigify) THEN setup.trigify
        ELSE [thresholds |-> DefaultThresholds, lists |-> NoLists]

Thresholds == Governing.thresholds
Lists == Governing.lists

(* A snapshot's evidence is the set of positions of the rows it shows, its *)
(* reason and move are the position of the row each speaks of, 0 for none. *)
Blank == [state |-> "unconfigured", shown |-> {}, reason |-> 0, people |-> 0,
          move |-> 0, restricted |-> FALSE, empty |-> FALSE, stale |-> FALSE,
          lowConfidence |-> FALSE, degraded |-> FALSE]

RequestInit ==
    /\ stored = {}
    /\ pc = "idle"
    /\ setup = None
    /\ rows = <<>>
    /\ snapshot = Blank
    /\ told = {}

-----------------------------------------------------------------------------
(* There is a model, and a provider of signals.                            *)
Resolves(s) == s.llm /\ {s.exa, s.trigify} # {None}

(* The handler resolves the providers; with no model or no signal provider *)
(* it answers at once.                                                     *)
ResolveProviders ==
    /\ pc = "idle"
    /\ setup' \in Setups
    /\ IF Resolves(setup')
       THEN pc' = "gate" /\ UNCHANGED snapshot
       ELSE pc' = "done" /\ snapshot' = [Blank EXCEPT !.empty = TRUE]
    /\ UNCHANGED <<stored, rows, told>>

(* The gate of module Eligibility: only an eligible company goes on.       *)
Gate ==
    /\ pc = "gate"
    /\ \E verdict \in {"eligible", "ineligible", "unconfigured"} :
          /\ snapshot' = [Blank EXCEPT !.state = verdict]
          /\ pc' = IF verdict = "eligible" THEN "fetch" ELSE "done"
    /\ UNCHANGED <<stored, setup, rows, told>>

(* Each provider's part of the rows: Exa's, then the news', then the       *)
(* stored signals, in any order.                                           *)
FromExa == IF setup.exa = None THEN {<<>>} ELSE ExaAnswers
FromNews == IF setup.exa # None /\ setup.exa.news THEN NewsAnswers ELSE {<<>>}
FromStore ==
    IF setup.trigify = None THEN {<<>>}
    ELSE LET cfg == ParseRankingConfig(setup.trigify.settings)
         IN  SetToSeqs({Project(s, stored, cfg) : s \in stored})

(* The composed adapters run at once, and one that fails fails them all:   *)
(* the snapshot goes on with no rows.                                      *)
Fetch ==
    /\ pc = "fetch"
    /\ \/ /\ \E exa \in FromExa, news \in FromNews, own \in FromStore :
                rows' = exa \o news \o own
          /\ UNCHANGED snapshot
       \/ /\ snapshot' = [snapshot EXCEPT !.degraded = TRUE]
          /\ UNCHANGED rows
    /\ pc' = "sift"
    /\ UNCHANGED <<stored, setup, told>>

(* A restricted row ends it; otherwise the rows are deduplicated, listed   *)
(* and flagged, and without a row to speak of the snapshot is empty.       *)
Sift ==
    /\ pc = "sift"
    /\ LET kept == Sifted(rows, Lists)
           flags == Flags(rows, Lists, Thresholds)
           dominant == ExtractDominantSignal(rows, kept, Thresholds)
       IN  IF HasRestricted(rows)
           THEN /\ snapshot' = [Blank EXCEPT !.state = "eligible",
                                             !.restricted = TRUE]
                /\ pc' = "done"
           ELSE /\ snapshot' = [snapshot EXCEPT
                       !.shown = kept, !.reason = dominant,
                       !.empty = dominant = 0, !.stale = flags.stale,
                       !.lowConfidence = flags.lowConfidence,
                       !.degraded = @ \/ flags.degraded]
                /\ pc' = IF dominant = 0 THEN "done" ELSE "reason"
    /\ UNCHANGED <<stored, setup, rows, told>>

(* The model words the reason, or the template does when it fails.         *)
Reason ==
    /\ pc = "reason"
    /\ told' = told \cup {snapshot.reason}
    /\ pc' = "contacts"
    /\ UNCHANGED <<stored, setup, rows, snapshot>>

(* Mutant: every contact is taken.                                         *)
ContactsAll ==
    /\ pc = "contacts"
    /\ \E contacts \in 0 .. MaxContacts :
          snapshot' = [snapshot EXCEPT !.people = contacts]
    /\ pc' = "move"
    /\ UNCHANGED <<stored, setup, rows, told>>

(* The first three of HubSpot's contacts; none when it fails.              *)
Contacts ==
    /\ pc = "contacts"
    /\ \E contacts \in 0 .. MaxContacts :
          snapshot' = [snapshot EXCEPT !.people = Min({3, contacts})]
    /\ pc' = "move"
    /\ UNCHANGED <<stored, setup, rows, told>>

(* The model proposes a next move on its own pick of the rows shown, or    *)
(* nothing when it fails or answers nothing.                               *)
NextMove ==
    /\ pc = "move"
    /\ LET best == PickDominant(rows, snapshot.shown)
       IN  /\ told' = told \cup {best}
           /\ \E proposed \in BOOLEAN :
                 snapshot' = [snapshot EXCEPT !.move = IF proposed THEN best
                                                       ELSE 0]
    /\ pc' = "done"
    /\ UNCHANGED <<stored, setup, rows>>

Reply ==
    /\ pc = "done"
    /\ pc' = "idle"
    /\ setup' = None
    /\ rows' = <<>>
    /\ snapshot' = Blank
    /\ told' = {}
    /\ UNCHANGED stored

(* The poller stores a signal of the company.                              *)
Poll(s) ==
    /\ s \notin stored
    /\ stored' = stored \cup {s}
    /\ UNCHANGED <<pc, setup, rows, snapshot, told>>

RequestNext ==
    \/ ResolveProviders \/ Gate \/ Fetch \/ Sift \/ Reason \/ Contacts \/ NextMove
    \/ Reply
    \/ \E s \in Signals : Poll(s)

RequestSpec == RequestInit /\ [][RequestNext]_requestVars

-----------------------------------------------------------------------------
RequestTypeOK ==
    /\ stored \subseteq Signals
    /\ pc \in {"idle", "gate", "fetch", "sift", "reason", "contacts", "move",
               "done"}
    /\ setup \in Setups \cup {None}
    /\ pc # "idle" <=> setup # None
    /\ snapshot.state \in {"eligible", "ineligible", "unconfigured"}
    /\ snapshot.shown \cup told \subseteq DOMAIN rows
    /\ {snapshot.reason, snapshot.move} \subseteq DOMAIN rows \cup {0}
    /\ snapshot.people \in 0 .. 3

(* A snapshot tells the model and the user nothing when one of the rows    *)
(* was restricted, wherever the lists and the deduplication would have     *)
(* left that row, and it tells the model of no row it does not show        *)
(* (assembleSnapshot's short-circuit, generateNextMove).                   *)
NothingHiddenIsSaid ==
    /\ told \subseteq snapshot.shown
    /\ pc # "sift" /\ (\E i \in DOMAIN rows : rows[i].restricted) =>
          /\ snapshot.restricted
          /\ snapshot.shown = {} /\ snapshot.people = 0
          /\ snapshot.reason = 0 /\ snapshot.move = 0

(* The reason speaks of a row that trust itself calls fresh and sure       *)
(* enough, that the tenant's lists admit and that no derived signal gave;  *)
(* and people are named for a reason only (extractDominantSignal against   *)
(* trust.ts, applyAllowBlockLists and the feed's taxonomy).                *)
ReasonIsTrusted ==
    /\ snapshot.reason # 0 =>
          LET row == rows[snapshot.reason]
          IN  /\ EvaluateFreshness(row, Thresholds)
              /\ EvaluateConfidence(row, Thresholds)
              /\ Admits(Lists, row)
              /\ \A s \in stored :
                    row.key = <<"row", s.id>> => SignalClass(s) = "observable"
    /\ snapshot.people > 0 => snapshot.reason # 0

(* When an eligible company gets no reason and no flag says why, whatever  *)
(* it shows is derived, or in the last part of the last day, which         *)
(* evaluateFreshness floors and extractDominantSignal does not.            *)
SilenceIsExplained ==
    LET flagged == \/ snapshot.restricted \/ snapshot.stale
                   \/ snapshot.lowConfidence \/ snapshot.degraded
    IN  pc = "done" /\ snapshot.state = "eligible" /\ snapshot.reason = 0 =>
            \/ flagged
            \/ \A i \in snapshot.shown :
                  \/ ~ rows[i].assertable
                  \/ rows[i].age \div 2 = Thresholds.maxDays

(* One signal more never makes another one of the company count for less,  *)
(* whatever their classes, ages and targets and the tenant's weights       *)
(* (scoreSignals, TrigifyStoreAdapter).                                    *)
MoreSignalsNeverWeaken ==
    [][\A s \in stored, one \in Setups :
          one.trigify # None =>
             LET cfg == ParseRankingConfig(one.trigify.settings)
             IN  Confidence(s, stored', cfg) >= Confidence(s, stored, cfg)]_stored
=============================================================================
