---------------------------- MODULE SnapshotCard ----------------------------
(***************************************************************************)
(* The card a HubSpot user sees on a company's record: ExtensionRoot       *)
(* (shared/extension-root.tsx) with its two data hooks, useCompanyContext  *)
(* and useSnapshot, and the view it renders (features/snapshot).  The host *)
(* may put another record under the card at any time.  React renders at    *)
(* once and runs the hooks' effects a little later: in between, the card   *)
(* has the new record's id and the old record's data, and a fetch may      *)
(* still settle.  An outcome is taken to arrive later than the render its  *)
(* fetch's effect causes.                                                  *)
(* A body is what the answer says: its eligibility state, its flags, the   *)
(* evidence each person refers to, and whether each row is restricted.     *)
(***************************************************************************)
EXTENDS Naturals, Sequences

CONSTANTS Companies,   \* records the host may show
          Persons,     \* people a snapshot may name
          Rows,        \* ids of evidence rows
          Bodies,      \* bodies that pass wireSnapshotSchema
          Nothing,     \* no value, no error, no fetch, nobody, no row
          MaxAsks      \* bound: fetches of each hook

Views == {"unconfigured", "ineligible", "restricted", "empty", "eligible"}
Flags == {"ineligible", "restricted", "empty"}
Body == [state : {"unconfigured", "ineligible", "eligible"}, flags : SUBSET Flags,
         refs : [Persons -> Seq(Rows)], evidence : [Rows -> {"open", "hidden", "absent"}]]

ASSUME BodiesAssumption == Bodies \subseteq Body
Ask == [no : Nat, key : Companies]
Failure == [ask : Ask, why : {"unauthorized", "failed"}]
Answer == [ask : Ask, body : Bodies \cup {Nothing}]

ASSUME NothingAssumption ==
    Nothing \notin Persons \cup Rows \cup Bodies \cup Ask \cup Failure \cup Answer

VARIABLES
    company,    \* the record the host has put under the card
    due,        \* hooks whose effect has not run since their inputs changed
    asked,      \* each hook's last fetch: its number and the record it is for
    flights,    \* fetches under way, and whether their effect was cleaned up
    loading,    \* each hook's loading flag
    error,      \* each hook's error, with the fetch it came from
    value,      \* each hook's value, with the fetch it came from
    open        \* the person whose evidence is open

vars == <<company, due, asked, flights, loading, error, value, open>>

Hooks == {"company", "snapshot"}

Init ==
    /\ company \in Companies
    /\ due = Hooks
    /\ asked = [h \in Hooks |-> Nothing]
    /\ flights = {}
    /\ loading = [h \in Hooks |-> TRUE]
    /\ error = [h \in Hooks |-> Nothing]
    /\ value = [h \in Hooks |-> Nothing]
    /\ open = Nothing

-----------------------------------------------------------------------------
(* What is rendered                                                        *)

(* SnapshotStateRenderer, first match wins.                                *)
Rendered(b) ==
    IF b.state = "unconfigured" THEN "unconfigured"
    ELSE IF b.state = "ineligible" \/ "ineligible" \in b.flags THEN "ineligible"
    ELSE IF "restricted" \in b.flags THEN "restricted"
    ELSE IF "empty" \in b.flags THEN "empty" ELSE "eligible"

(* ExtensionRoot. With no fetch settled the snapshot is still loading.     *)
Screen ==
    IF \E h \in Hooks : loading[h] THEN "loading"
    ELSE IF error["company"] # Nothing THEN "error"
    ELSE IF error["snapshot"] # Nothing
         THEN IF error["snapshot"].why = "unauthorized" THEN "reconnect" ELSE "error"
    ELSE IF value["snapshot"] = Nothing THEN "error"
    ELSE Rendered(value["snapshot"].body)

Shown == value["snapshot"].body

(* Mutant: a row flagged restricted is taken like any other.               *)
VisibleUnfiltered(p) ==
    {i \in DOMAIN Shown.refs[p] : Shown.evidence[Shown.refs[p][i]] # "absent"}

(* EligibleView: where among a person's references the rows are that exist *)
(* and are not restricted.                                                 *)
Visible(p) ==
    {i \in DOMAIN Shown.refs[p] : Shown.evidence[Shown.refs[p][i]] = "open"}

(* EvidenceDrillIn renders the first of them, unless the snapshot or the   *)
(* row is restricted.                                                      *)
DrillIn ==
    IF Screen # "eligible" \/ open = Nothing THEN Nothing
    ELSE IF Visible(open) = {} \/ "restricted" \in Shown.flags THEN Nothing
    ELSE LET first == CHOOSE i \in Visible(open) : \A j \in Visible(open) : i <= j
             row == Shown.refs[open][first]
         IN  IF Shown.evidence[row] = "hidden" THEN Nothing ELSE row

(* Mutant: who is open outlives the view.                                  *)
RerenderKeepsOpen == UNCHANGED open

(* EligibleView forgets who is open when it is unmounted.                  *)
Rerender == open' = IF Screen' = "eligible" THEN open ELSE Nothing

-----------------------------------------------------------------------------
(* The host, the effects, the outcomes and the user                        *)

Asked(h) == IF asked[h] = Nothing THEN 0 ELSE asked[h].no

(* The host shows another record.                                          *)
Swap(c) ==
    /\ c # company
    /\ \A h \in Hooks : Asked(h) < MaxAsks
    /\ company' = c
    /\ due' = Hooks
    /\ UNCHANGED <<asked, flights, loading, error, value, open>>

(* The host passes a new fetchCrmObjectProperties, or a caller refetches   *)
(* the snapshot: an input of one effect changes.                           *)
Retrigger(h) ==
    /\ asked[h] # Nothing
    /\ Asked(h) < MaxAsks
    /\ due' = due \cup {h}
    /\ UNCHANGED <<company, asked, flights, loading, error, value, open>>

NextAsk(h) == [no |-> Asked(h) + 1, key |-> company]

(* An effect's cleanup cancels the fetch before.                           *)
CleanUp(f) == IF f.hook \in due THEN [f EXCEPT !.live = FALSE] ELSE f

(* Mutant: the cleanup does not cancel the fetch before.                   *)
RunEffectsUncancelled ==
    /\ due # {}
    /\ due' = {}
    /\ asked' = [h \in Hooks |-> IF h \in due THEN NextAsk(h) ELSE asked[h]]
    /\ flights' = flights \cup {[hook |-> h, ask |-> NextAsk(h), live |-> TRUE] : h \in due}
    /\ loading' = [h \in Hooks |-> h \in due \/ loading[h]]
    /\ error' = [h \in Hooks |-> IF h \in due THEN Nothing ELSE error[h]]
    /\ value' = [value EXCEPT !["snapshot"] = IF "snapshot" \in due THEN Nothing ELSE @]
    /\ Rerender
    /\ UNCHANGED company

(* React runs the cleanups that are due, which cancel, then the effects:   *)
(* each resets its hook and fetches for the record now rendered. Only      *)
(* useSnapshot drops its value; useCompanyContext keeps the properties.    *)
RunEffects ==
    /\ due # {}
    /\ due' = {}
    /\ asked' = [h \in Hooks |-> IF h \in due THEN NextAsk(h) ELSE asked[h]]
    /\ flights' = {CleanUp(f) : f \in flights}
                  \cup {[hook |-> h, ask |-> NextAsk(h), live |-> TRUE] : h \in due}
    /\ loading' = [h \in Hooks |-> h \in due \/ loading[h]]
    /\ error' = [h \in Hooks |-> IF h \in due THEN Nothing ELSE error[h]]
    /\ value' = [value EXCEPT !["snapshot"] = IF "snapshot" \in due THEN Nothing ELSE @]
    /\ Rerender
    /\ UNCHANGED company

(* What a hook may be told: HubSpot's properties, or the body of a 2xx.    *)
Answers(h) == IF h = "snapshot" THEN Bodies ELSE {Nothing}

(* A fetch that is still wanted brings its answer.                         *)
Arrive(f) ==
    /\ f.live
    /\ \E b \in Answers(f.hook) :
          value' = [value EXCEPT ![f.hook] = [ask |-> f.ask, body |-> b]]
    /\ loading' = [loading EXCEPT ![f.hook] = FALSE]
    /\ UNCHANGED error

(* Mutant: a rejected fetch leaves the card loading.                       *)
FailStillLoading(f) ==
    /\ f.live
    /\ \E why \in {"unauthorized", "failed"} :
          error' = [error EXCEPT ![f.hook] = [ask |-> f.ask, why |-> why]]
    /\ UNCHANGED <<loading, value>>

(* A rejection, an answer that is not 2xx or not a snapshot, or fifteen    *)
(* seconds without one.                                                    *)
Fail(f) ==
    /\ f.live
    /\ \E why \in {"failed"} \cup (IF f.hook = "snapshot" THEN {"unauthorized"} ELSE {}) :
          error' = [error EXCEPT ![f.hook] = [ask |-> f.ask, why |-> why]]
    /\ loading' = [loading EXCEPT ![f.hook] = FALSE]
    /\ UNCHANGED value

(* Mutant: a cancelled fetch still ends the loading.                       *)
IgnoreButLoaded(f) ==
    /\ ~f.live
    /\ loading' = [loading EXCEPT ![f.hook] = FALSE]
    /\ UNCHANGED <<error, value>>

(* The outcome of a cancelled fetch is ignored.                            *)
Ignore(f) == ~f.live /\ UNCHANGED <<loading, error, value>>

Settle(f) ==
    /\ f \in flights
    /\ flights' = flights \ {f}
    /\ Arrive(f) \/ Fail(f) \/ Ignore(f)
    /\ Rerender
    /\ UNCHANGED <<company, due, asked>>

(* The user opens a person's evidence, or closes it.                       *)
Click(p) ==
    /\ Screen = "eligible"
    /\ open' = p
    /\ UNCHANGED <<company, due, asked, flights, loading, error, value>>

Close ==
    /\ DrillIn # Nothing
    /\ open' = Nothing
    /\ UNCHANGED <<company, due, asked, flights, loading, error, value>>

-----------------------------------------------------------------------------
Next ==
    \/ \E c \in Companies : Swap(c)
    \/ \E h \in Hooks : Retrigger(h)
    \/ RunEffects
    \/ \E f \in flights : Settle(f)
    \/ \E p \in Persons : Click(p)
    \/ Close

Spec == Init /\ [][Next]_vars

(* React runs the effects of a render it has shown; hubspot.fetch gives up *)
(* after fifteen seconds, and the host is taken to answer.                 *)
Fairness ==
    /\ WF_vars(RunEffects)
    /\ \A h \in Hooks : WF_vars(\E f \in flights : f.hook = h /\ Settle(f))

FairSpec == Spec /\ Fairness

-----------------------------------------------------------------------------
(* Properties                                                              *)

(* Every variable holds a value of its type.                               *)
TypeOK ==
    /\ company \in Companies
    /\ due \subseteq Hooks
    /\ asked \in [Hooks -> Ask \cup {Nothing}]
    /\ flights \subseteq [hook : Hooks, ask : Ask, live : BOOLEAN]
    /\ loading \in [Hooks -> BOOLEAN]
    /\ error \in [Hooks -> Failure \cup {Nothing}]
    /\ value \in [Hooks -> Answer \cup {Nothing}]
    /\ open \in Persons \cup {Nothing}

(* Once the effects of a render have run, a snapshot on the card is the    *)
(* record's own: neither a swap of the record nor an answer that comes     *)
(* after one leaves another company's people and evidence in view.         *)
ShownIsCurrent ==
    due = {} /\ Screen \in Views => value["snapshot"].ask.key = company

(* Evidence that was opened on one snapshot is closed before another is    *)
(* shown: the same person's id never opens evidence in a snapshot the user *)
(* did not click in.                                                       *)
OpenStaysOnItsSnapshot ==
    [][open # Nothing /\ open' = open => value'["snapshot"] = value["snapshot"]]_vars

(* The zero-leak rule of the eligible view and the drill-in: a person's    *)
(* open evidence is the first row the person refers to that exists and is  *)
(* not restricted, and a restricted row before it neither shows nor hides  *)
(* it.                                                                     *)
DrillInIsVisible ==
    Screen = "eligible" /\ open # Nothing =>
        LET allowed == {i \in DOMAIN Shown.refs[open] :
                            Shown.evidence[Shown.refs[open][i]] = "open"}
        IN  IF allowed = {} THEN DrillIn = Nothing
            ELSE \E i \in allowed : /\ DrillIn = Shown.refs[open][i]
                                   /\ \A j \in allowed : i <= j

(* Each hook stands by the outcome of its last fetch only, however swaps,  *)
(* refetches, late answers and effects interleave.                         *)
Answered(h) ==
    IF loading[h] THEN Nothing
    ELSE IF error[h] # Nothing THEN error[h].ask
    ELSE IF value[h] # Nothing THEN value[h].ask ELSE Nothing

CompanyHook == INSTANCE LatestAnswer
    WITH Keys <- Companies, asked <- asked["company"], answered <- Answered("company")
SnapshotHook == INSTANCE LatestAnswer
    WITH Keys <- Companies, asked <- asked["snapshot"], answered <- Answered("snapshot")
HooksAreLatest == CompanyHook!Spec /\ SnapshotHook!Spec

(* A record that stays under the card gets its answer: loading ends, in a  *)
(* view or an error that is about that record, whatever fails and whatever *)
(* was under way when it came.                                             *)
SwapIsAnswered ==
    \A c \in Companies :
        company = c ~> \/ company # c
                       \/ Screen # "loading" /\ due = {} /\ asked["snapshot"].key = c
=============================================================================
