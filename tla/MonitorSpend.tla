---------------------------- MODULE MonitorSpend ----------------------------
(***************************************************************************)
(* The credit-spend gate of one tenant's Trigify monitors                  *)
(* (services/trigify/monitor-manager.ts) with its ledger, the rows of      *)
(* `trigify_monitors` (drizzle-monitor-store.ts), as the settings routes   *)
(* (routes/settings-trigify.ts) drive it: every request runs in its own    *)
(* READ COMMITTED transaction, the credit is charged by a remote call that *)
(* no rollback undoes, and several requests may be in flight.              *)
(* A target stands for a pair of monitor type and URL, the unit the unique *)
(* constraint keys.                                                        *)
(***************************************************************************)
EXTENDS Naturals, FiniteSets

CONSTANTS Requests,   \* slots for concurrent requests of the tenant
          Targets,    \* monitor type and URL pairs
          Nobody,     \* no transaction, or no target
          Unset,      \* a cap that is not configured
          Caps,       \* bound: the caps a tenant may configure
          MaxDay,     \* bound: how many days pass
          MaxSpend    \* bound: how often one target is charged

ASSUME RequestsAssumption == IsFiniteSet(Requests) /\ Requests # {}
ASSUME TargetsAssumption == IsFiniteSet(Targets)
ASSUME NobodyAssumption == Nobody \notin Requests \cup Targets
ASSUME CapsAssumption == Caps \subseteq Nat /\ Unset \notin Nat

VARIABLES
    today,       \* the UTC day, on the clocks of the API and of Postgres
    month,       \* the first day of the month today lies in
    budget,      \* creditBudget of the tenant's provider settings
    status,      \* committed status of each target's row, "none" if no row
    created,     \* created_at of each target's row, as a day
    writer,      \* transaction with an uncommitted write of the target's row
    pending,     \* the status that transaction wrote
    pc,          \* where each request is
    on,          \* the target each request is for
    began,       \* the day its transaction began: Postgres now()
    now,         \* the instant subscribe took from its clock: day and month
    spent,       \* credits Trigify has charged for each target
    orderly,     \* history: no overlap, no loss, no re-subscription so far
    charges      \* history: credits charged this day and month while orderly

vars == <<today, month, budget, status, created, writer, pending, pc, on,
          began, now, spent, orderly, charges>>

clock == <<today, month>>
ledger == <<status, created, writer, pending>>
job == <<on, began, now>>
history == <<orderly, charges>>

Periods == {"daily", "monthly"}
Epoch == [p \in Periods |-> 0]

Init ==
    /\ today = 0
    /\ month = 0
    /\ budget \in [Periods -> Caps \cup {Unset}]
    /\ status = [t \in Targets |-> "none"]
    /\ created = [t \in Targets |-> 0]
    /\ writer = [t \in Targets |-> Nobody]
    /\ pending = [t \in Targets |-> "none"]
    /\ pc = [r \in Requests |-> "idle"]
    /\ on = [r \in Requests |-> Nobody]
    /\ began = [r \in Requests |-> 0]
    /\ now = [r \in Requests |-> Epoch]
    /\ spent = [t \in Targets |-> 0]
    /\ orderly = TRUE
    /\ charges = Epoch

Goto(r, l) == pc' = [pc EXCEPT ![r] = l]
Idle == \A r \in Requests : pc[r] = "idle"

(* The first day of the current period.                                    *)
Start(p) == IF p = "daily" THEN today ELSE month

(* countConfirmedSince counts committed rows, whatever their status.       *)
RowsSince(day) == {t \in Targets : status[t] # "none" /\ created[t] >= day}
Counted(day) == Cardinality(RowsSince(day))

(* The history ends where the orderly run does.                            *)
Disturbed == orderly' = FALSE /\ charges' = Epoch

(* Midnight, possibly that of a month's end.                               *)
Tick ==
    /\ today < MaxDay
    /\ today' = today + 1
    /\ month' \in {month, today + 1}
    /\ IF orderly /\ Idle
       THEN /\ charges' = [p \in Periods |->
                            IF p = "monthly" /\ month' = month THEN charges[p] ELSE 0]
            /\ UNCHANGED orderly
       ELSE Disturbed
    /\ UNCHANGED <<budget, ledger, pc, job, spent>>

(* A signed request for the target opens its transaction.                  *)
Begin(r, t) ==
    /\ pc[r] = "idle"
    /\ Goto(r, "open")
    /\ on' = [on EXCEPT ![r] = t]
    /\ began' = [began EXCEPT ![r] = today]
    /\ IF Idle THEN UNCHANGED history ELSE Disturbed
    /\ UNCHANGED <<clock, budget, ledger, now, spent>>

-----------------------------------------------------------------------------
(* subscribe                                                               *)

(* Mutant: a paused monitor no longer counts as a duplicate.               *)
PlanPausedIsFree(r) ==
    /\ pc[r] = "open"
    /\ now' = [now EXCEPT ![r] = [p \in Periods |-> Start(p)]]
    /\ \/ status[on[r]] = "active" /\ Goto(r, "done") /\ UNCHANGED history
       \/ status[on[r]] # "active" /\ Goto(r, "planned")
          /\ IF status[on[r]] # "deleted" THEN UNCHANGED history ELSE Disturbed
       \/ Goto(r, "done") /\ UNCHANGED history
    /\ UNCHANGED <<clock, budget, ledger, on, began, spent>>

(* planSubscribe looks the target up. A row that is not deleted is a       *)
(* duplicate and ends the call, and so does a missing confirm.             *)
Duplicate(t) == status[t] \notin {"none", "deleted"}

Plan(r) ==
    /\ pc[r] = "open"
    /\ now' = [now EXCEPT ![r] = [p \in Periods |-> Start(p)]]
    /\ \/ Goto(r, "done") /\ UNCHANGED history
       \/ /\ ~Duplicate(on[r])
          /\ Goto(r, "planned")
          /\ IF status[on[r]] = "none" THEN UNCHANGED history ELSE Disturbed
    /\ UNCHANGED <<clock, budget, ledger, on, began, spent>>

(* checkBudget: one count per statement, each of the rows committed then.  *)
WithinCap(r, p) == budget[p] # Unset => Counted(now[r][p]) + 1 <= budget[p]

(* Mutant: the cap is compared with what is already spent.                 *)
CountDailyOffByOne(r) ==
    /\ pc[r] = "planned"
    /\ Goto(r, IF budget["daily"] # Unset /\ Counted(now[r]["daily"]) > budget["daily"]
               THEN "done" ELSE "counted")
    /\ UNCHANGED <<clock, budget, ledger, job, spent, history>>

CountDaily(r) ==
    /\ pc[r] = "planned"
    /\ Goto(r, IF WithinCap(r, "daily") THEN "counted" ELSE "done")
    /\ UNCHANGED <<clock, budget, ledger, job, spent, history>>

(* Mutant: an unset budget is no limit.                                    *)
CountMonthlyFailOpen(r) ==
    /\ pc[r] = "counted"
    /\ Goto(r, IF WithinCap(r, "monthly") THEN "cleared" ELSE "done")
    /\ UNCHANGED <<clock, budget, ledger, job, spent, history>>

(* Mutant: the month's count is never compared.                            *)
CountMonthlyIgnored(r) ==
    /\ pc[r] = "counted"
    /\ Goto(r, IF \E p \in Periods : budget[p] # Unset THEN "cleared" ELSE "done")
    /\ UNCHANGED <<clock, budget, ledger, job, spent, history>>

(* Fails closed when neither cap is configured.                            *)
CountMonthly(r) ==
    /\ pc[r] = "counted"
    /\ Goto(r, IF WithinCap(r, "monthly") /\ \E p \in Periods : budget[p] # Unset
               THEN "cleared" ELSE "done")
    /\ UNCHANGED <<clock, budget, ledger, job, spent, history>>

(* createSubscription: Trigify charges the credit.                         *)
Spend(t) ==
    /\ spent[t] < MaxSpend
    /\ spent' = [spent EXCEPT ![t] = @ + 1]

Charge(r) ==
    /\ pc[r] = "cleared"
    /\ Spend(on[r])
    /\ Goto(r, "charged")
    /\ charges' = IF orderly THEN [p \in Periods |-> charges[p] + 1] ELSE charges
    /\ UNCHANGED <<clock, budget, ledger, job, orderly>>

(* Trigify charged but the answer is an error or never comes: subscribe    *)
(* throws, the route answers 500 and the ledger learns nothing.            *)
ChargeLost(r) ==
    /\ pc[r] = "cleared"
    /\ Spend(on[r])
    /\ Goto(r, "done")
    /\ Disturbed
    /\ UNCHANGED <<clock, budget, ledger, job>>

(* Mutant: an error of createSubscription is swallowed.                    *)
ChargeRefusedSwallowed(r) ==
    /\ pc[r] = "cleared"
    /\ Goto(r, "charged")
    /\ UNCHANGED <<clock, budget, ledger, job, spent, history>>

(* Trigify refuses and charges nothing: subscribe throws.                  *)
ChargeRefused(r) ==
    /\ pc[r] = "cleared"
    /\ Goto(r, "done")
    /\ UNCHANGED <<clock, budget, ledger, job, spent, history>>

(* INSERT waits for a transaction that holds the same key, then writes the *)
(* row.                                                                    *)
Insert(r) ==
    LET t == on[r] IN
    /\ pc[r] = "charged"
    /\ writer[t] = Nobody
    /\ status[t] = "none"
    /\ writer' = [writer EXCEPT ![t] = r]
    /\ pending' = [pending EXCEPT ![t] = "active"]
    /\ Goto(r, "inserted")
    /\ UNCHANGED <<clock, budget, status, created, job, spent, history>>

(* A row of any status violates the unique constraint. The route catches   *)
(* DuplicateMonitorError, but the failed statement has doomed the request's*)
(* transaction: the commit that follows the answer rolls it back.          *)
InsertRefused(r) ==
    /\ pc[r] = "charged"
    /\ writer[on[r]] = Nobody
    /\ status[on[r]] # "none"
    /\ Goto(r, "failed")
    /\ UNCHANGED <<clock, budget, ledger, job, spent, history>>

-----------------------------------------------------------------------------
(* pauseMonitor, deleteMonitor and the end of a request                    *)

(* Mutant: delete removes the row.                                         *)
SetStatusHardDelete(r, s) ==
    LET t == on[r] IN
    /\ pc[r] = "open"
    /\ status[t] # "none"
    /\ writer[t] = Nobody
    /\ writer' = [writer EXCEPT ![t] = r]
    /\ pending' = [pending EXCEPT ![t] = IF s = "deleted" THEN "none" ELSE s]
    /\ Goto(r, "done")
    /\ UNCHANGED <<clock, budget, status, created, job, spent, history>>

(* updateStatus: an UPDATE by id and tenant, whatever the row's status is, *)
(* that waits for another writer of the row.                               *)
SetStatus(r, s) ==
    LET t == on[r] IN
    /\ pc[r] = "open"
    /\ status[t] # "none"
    /\ writer[t] = Nobody
    /\ writer' = [writer EXCEPT ![t] = r]
    /\ pending' = [pending EXCEPT ![t] = s]
    /\ Goto(r, "done")
    /\ UNCHANGED <<clock, budget, status, created, job, spent, history>>

(* No committed row of that id: the route answers 404.                     *)
StatusNotFound(r) ==
    /\ pc[r] = "open"
    /\ status[on[r]] = "none"
    /\ Goto(r, "done")
    /\ UNCHANGED <<clock, budget, ledger, job, spent, history>>

Writes(r) == {t \in Targets : writer[t] = r}

(* The transaction is over and the request forgotten.                      *)
End(r) ==
    /\ writer' = [t \in Targets |-> IF t \in Writes(r) THEN Nobody ELSE writer[t]]
    /\ pending' = [t \in Targets |-> IF t \in Writes(r) THEN "none" ELSE pending[t]]
    /\ Goto(r, "idle")
    /\ on' = [on EXCEPT ![r] = Nobody]
    /\ began' = [began EXCEPT ![r] = 0]
    /\ now' = [now EXCEPT ![r] = Epoch]

(* Commit. A new row's created_at is the instant its transaction began.    *)
Finish(r) ==
    /\ pc[r] \in {"done", "inserted"}
    /\ status' = [t \in Targets |-> IF t \in Writes(r) THEN pending[t] ELSE status[t]]
    /\ created' = [t \in Targets |-> IF t \in Writes(r) /\ status[t] = "none"
                                     THEN began[r] ELSE created[t]]
    /\ End(r)
    /\ UNCHANGED <<clock, budget, spent, history>>

(* The commit of a doomed transaction, a failed commit, a killed function. *)
Rollback(r) ==
    /\ pc[r] # "idle"
    /\ End(r)
    /\ IF pc[r] \in {"charged", "inserted", "failed"} THEN Disturbed ELSE UNCHANGED history
    /\ UNCHANGED <<clock, budget, status, created, spent>>

-----------------------------------------------------------------------------
Step(r) ==
    \/ \E t \in Targets : Begin(r, t)
    \/ Plan(r) \/ CountDaily(r) \/ CountMonthly(r)
    \/ Charge(r) \/ ChargeLost(r) \/ ChargeRefused(r)
    \/ Insert(r) \/ InsertRefused(r)
    \/ \E s \in {"paused", "deleted"} : SetStatus(r, s)
    \/ StatusNotFound(r) \/ Finish(r) \/ Rollback(r)

Next == Tick \/ \E r \in Requests : Step(r)

Spec == Init /\ [][Next]_vars

-----------------------------------------------------------------------------
(* Properties                                                              *)

(* Every variable holds a value of its type.                               *)
TypeOK ==
    /\ today \in Nat
    /\ month \in Nat
    /\ budget \in [Periods -> Caps \cup {Unset}]
    /\ status \in [Targets -> {"none", "active", "paused", "deleted"}]
    /\ created \in [Targets -> Nat]
    /\ writer \in [Targets -> Requests \cup {Nobody}]
    /\ pending \in [Targets -> {"none", "active", "paused", "deleted"}]
    /\ pc \in [Requests -> {"idle", "open", "planned", "counted", "cleared",
                           "charged", "inserted", "failed", "done"}]
    /\ on \in [Requests -> Targets \cup {Nobody}]
    /\ began \in [Requests -> Nat]
    /\ now \in [Requests -> [Periods -> Nat]]
    /\ spent \in [Targets -> Nat]
    /\ orderly \in BOOLEAN
    /\ charges \in [Periods -> Nat]

(* The check of the budget and the insert it allows are far apart, so      *)
(* concurrent confirms may overrun a cap. They overrun it by less than the *)
(* number of requests in flight, for the day and for the month, however    *)
(* long the run and however requests and midnights interleave.             *)
OverrunIsBounded ==
    \A p \in Periods :
        budget[p] # Unset => Counted(Start(p)) < budget[p] + Cardinality(Requests)

(* As long as requests did not overlap each other or midnight, no charge   *)
(* lost its insert and no deleted monitor was subscribed again, Trigify    *)
(* charged no more than each cap allows.                                   *)
OrderlyWithinBudget ==
    orderly => \A p \in Periods : budget[p] # Unset => charges[p] <= budget[p]

(* In the same circumstances no target is paid for twice, whether its      *)
(* monitor is active or paused when it is asked for again.                 *)
OrderlyPaidOnce == orderly => \A t \in Targets : spent[t] <= 1

(* A tenant with no cap configured is never charged (checkBudget).         *)
UnsetBudgetNeverSpends ==
    (\A p \in Periods : budget[p] = Unset) => \A t \in Targets : spent[t] = 0

(* Every row of the ledger, committed or about to be, stands for a credit  *)
(* that was charged: no order of failures records a spend that never was.  *)
EveryRowPaid ==
    \A t \in Targets : status[t] # "none" \/ writer[t] # Nobody => spent[t] >= 1

(* What the ledger has counted stays counted: pausing or deleting a        *)
(* monitor, a refused insert or a rollback never removes or re-dates a row *)
(* and so never gives budget back.                                         *)
CountedStaysCounted ==
    [][\A t \in Targets :
         status[t] # "none" => status'[t] # "none" /\ created'[t] = created[t]]_vars
=============================================================================
