------------------------- MODULE MonitorSpendProofs -------------------------
(***************************************************************************)
(* Proofs about MonitorSpend for any finite sets of requests and targets,  *)
(* and about MonitorPanel, whose page is one way of driving it.            *)
(***************************************************************************)
EXTENDS MonitorPanel, FiniteSetTheorems, TLAPS

(* A request in flight is for a target.                                    *)
BusyHasTarget == \A r \in Requests : pc[r] # "idle" => on[r] \in Targets

(* An uncommitted write belongs to a transaction that is about to commit;  *)
(* one that has inserted is the only writer of a row that did not exist.   *)
WritersAreLive ==
    /\ \A t \in Targets : writer[t] # Nobody =>
          /\ pc[writer[t]] \in {"inserted", "done"}
          /\ on[writer[t]] = t
          /\ pending[t] # "none"
          /\ status[t] = "none" => pc[writer[t]] = "inserted"

(* The instants a request remembers are in order, and its month is the     *)
(* current one unless a month has begun since it read the clock.           *)
ClocksAgree ==
    /\ month <= today
    /\ \A r \in Requests :
         /\ began[r] <= today
         /\ pc[r] \in {"planned", "counted"} =>
              /\ began[r] <= now[r]["daily"]
              /\ now[r]["daily"] <= today
              /\ now[r]["daily"] >= month => now[r]["monthly"] = month

(* A credit was charged for every row and every request beyond the charge. *)
ChargedIsPaid ==
    /\ EveryRowPaid
    /\ \A r \in Requests : pc[r] \in {"charged", "inserted"} => spent[on[r]] >= 1

(* A request beyond the check of the budget found a cap.                   *)
ClearedHasCap ==
    \A r \in Requests :
        pc[r] \in {"cleared", "charged", "inserted"} =>
            \E p \in Periods : budget[p] # Unset

IInv ==
    /\ TypeOK
    /\ BusyHasTarget
    /\ WritersAreLive
    /\ ClocksAgree
    /\ ChargedIsPaid
    /\ ClearedHasCap
    /\ UnsetBudgetNeverSpends

(* The requests that passed a period's check and whose row, should it be   *)
(* committed, will be dated in the current period.                         *)
Passed(p) == IF p = "daily" THEN {"counted", "cleared", "charged", "inserted"}
                            ELSE {"cleared", "charged", "inserted"}
InFlight(p) == {r \in Requests : pc[r] \in Passed(p) /\ began[r] >= Start(p)}
Rows(p) == RowsSince(Start(p))

(* Rows and requests that may still add one are together within the bound. *)
OverrunInv ==
    \A p \in Periods : budget[p] # Unset =>
        Cardinality(Rows(p)) + Cardinality(InFlight(p))
            < budget[p] + Cardinality(Requests)

-----------------------------------------------------------------------------
LEMMA InitInv == Init => IInv
BY NobodyAssumption
   DEF Init, IInv, TypeOK, Epoch, Periods, BusyHasTarget, WritersAreLive,
       ClocksAgree, ChargedIsPaid, EveryRowPaid, ClearedHasCap, UnsetBudgetNeverSpends

LEMMA StepInv == IInv /\ [Next]_vars => IInv'
<1> SUFFICES ASSUME IInv, [Next]_vars PROVE IInv'
  OBVIOUS
<1> USE NobodyAssumption
    DEF IInv, TypeOK, BusyHasTarget, WritersAreLive, ClocksAgree, ChargedIsPaid,
        EveryRowPaid, ClearedHasCap, UnsetBudgetNeverSpends, Goto, Disturbed, Epoch,
        clock, ledger, job, history
<1>1. CASE Tick
  <2>1. TypeOK'
    <3>1. charges' \in [Periods -> Nat]
      BY <1>1 DEF Tick, Periods
    <3>2. orderly' \in BOOLEAN
      BY <1>1 DEF Tick
    <3>3. today' \in Nat /\ month' \in Nat /\ UNCHANGED <<budget, ledger, pc, job, spent>>
      BY <1>1 DEF Tick
    <3>9. QED
      BY <3>1, <3>2, <3>3
  <2>2. BusyHasTarget'
    BY <1>1 DEF Tick, Periods
  <2>3. WritersAreLive'
    BY <1>1 DEF Tick, Periods
  <2>4. ClocksAgree'
    BY <1>1 DEF Tick, Periods
  <2>5. ChargedIsPaid'
    BY <1>1 DEF Tick, Periods
  <2>6. ClearedHasCap'
    BY <1>1 DEF Tick, Periods
  <2>7. UnsetBudgetNeverSpends'
    BY <1>1 DEF Tick, Periods
  <2>8. QED
    BY <2>1, <2>2, <2>3, <2>4, <2>5, <2>6, <2>7
<1>2. ASSUME NEW r \in Requests, NEW t \in Targets, Begin(r, t) PROVE IInv'
  <2>1. TypeOK'
    <3>1. charges' \in [Periods -> Nat]
      BY <1>2 DEF Begin, Periods
    <3>9. QED
      BY <1>2, <3>1  DEF Begin, Periods
  <2>2. BusyHasTarget'
    BY <1>2 DEF Begin, Periods
  <2>3. WritersAreLive'
    BY <1>2 DEF Begin, Periods
  <2>4. ClocksAgree'
    BY <1>2 DEF Begin, Periods
  <2>5. ChargedIsPaid'
    BY <1>2 DEF Begin, Periods
  <2>6. ClearedHasCap'
    BY <1>2 DEF Begin, Periods
  <2>7. UnsetBudgetNeverSpends'
    BY <1>2 DEF Begin, Periods
  <2>8. QED
    BY <2>1, <2>2, <2>3, <2>4, <2>5, <2>6, <2>7
<1>3. ASSUME NEW r \in Requests, Plan(r) PROVE IInv'
  <2>1. TypeOK'
    <3>1. charges' \in [Periods -> Nat]
      BY <1>3 DEF Plan, Periods, Start
    <3>2. now' \in [Requests -> [Periods -> Nat]]
      BY <1>3 DEF Plan, Periods, Start
    <3>9. QED
      BY <1>3, <3>1 , <3>2 DEF Plan, Periods, Start
  <2>2. BusyHasTarget'
    BY <1>3 DEF Plan, Periods, Start
  <2>3. WritersAreLive'
    BY <1>3 DEF Plan, Periods, Start
  <2>4. ClocksAgree'
    BY <1>3 DEF Plan, Periods, Start
  <2>5. ChargedIsPaid'
    BY <1>3 DEF Plan, Periods, Start
  <2>6. ClearedHasCap'
    BY <1>3 DEF Plan, Periods, Start
  <2>7. UnsetBudgetNeverSpends'
    BY <1>3 DEF Plan, Periods, Start
  <2>8. QED
    BY <2>1, <2>2, <2>3, <2>4, <2>5, <2>6, <2>7
<1>4. ASSUME NEW r \in Requests, CountDaily(r) PROVE IInv'
  BY <1>4 DEF CountDaily
<1>5. ASSUME NEW r \in Requests, CountMonthly(r) PROVE IInv'
  BY <1>5 DEF CountMonthly
<1>6. ASSUME NEW r \in Requests, Charge(r) PROVE IInv'
  <2>1. TypeOK'
    BY <1>6 DEF Charge, Spend, Periods
  <2>2. BusyHasTarget'
    BY <1>6 DEF Charge, Spend, Periods
  <2>3. WritersAreLive'
    BY <1>6 DEF Charge, Spend, Periods
  <2>4. ClocksAgree'
    BY <1>6 DEF Charge, Spend, Periods
  <2>5. ChargedIsPaid'
    BY <1>6 DEF Charge, Spend, Periods
  <2>6. ClearedHasCap'
    BY <1>6 DEF Charge, Spend, Periods
  <2>7. UnsetBudgetNeverSpends'
    BY <1>6 DEF Charge, Spend, Periods
  <2>8. QED
    BY <2>1, <2>2, <2>3, <2>4, <2>5, <2>6, <2>7
<1>7. ASSUME NEW r \in Requests, ChargeLost(r) PROVE IInv'
  <2>1. TypeOK'
    <3>1. charges' \in [Periods -> Nat]
      BY <1>7 DEF ChargeLost, Spend, Periods
    <3>2. orderly' = FALSE /\ spent' \in [Targets -> Nat]
      BY <1>7 DEF ChargeLost, Spend
    <3>3. UNCHANGED <<clock, budget, ledger, job>>
      BY <1>7 DEF ChargeLost
    <3>4. pc' = [pc EXCEPT ![r] = "done"]
      BY <1>7 DEF ChargeLost
    <3>9. QED
      BY <3>1, <3>2, <3>3, <3>4
  <2>2. BusyHasTarget'
    BY <1>7 DEF ChargeLost, Spend, Periods
  <2>3. WritersAreLive'
    BY <1>7 DEF ChargeLost, Spend, Periods
  <2>4. ClocksAgree'
    BY <1>7 DEF ChargeLost, Spend, Periods
  <2>5. ChargedIsPaid'
    BY <1>7 DEF ChargeLost, Spend, Periods
  <2>6. ClearedHasCap'
    BY <1>7 DEF ChargeLost, Spend, Periods
  <2>7. UnsetBudgetNeverSpends'
    BY <1>7 DEF ChargeLost, Spend, Periods
  <2>8. QED
    BY <2>1, <2>2, <2>3, <2>4, <2>5, <2>6, <2>7
<1>8. ASSUME NEW r \in Requests, ChargeRefused(r) PROVE IInv'
  BY <1>8 DEF ChargeRefused
<1>9. ASSUME NEW r \in Requests, Insert(r) PROVE IInv'
  BY <1>9 DEF Insert
<1>10. ASSUME NEW r \in Requests, InsertRefused(r) PROVE IInv'
  BY <1>10 DEF InsertRefused
<1>11. ASSUME NEW r \in Requests, NEW s \in {"paused", "deleted"}, SetStatus(r, s)
       PROVE IInv'
  BY <1>11 DEF SetStatus
<1>12. ASSUME NEW r \in Requests, StatusNotFound(r) PROVE IInv'
  BY <1>12 DEF StatusNotFound
<1>13. ASSUME NEW r \in Requests, Finish(r) PROVE IInv'
  BY <1>13 DEF Finish, End, Writes, Periods
<1>14. ASSUME NEW r \in Requests, Rollback(r) PROVE IInv'
  <2>1. TypeOK'
    <3>1. charges' \in [Periods -> Nat]
      BY <1>14 DEF Rollback, End, Writes, Periods
    <3>2. now' \in [Requests -> [Periods -> Nat]]
      BY <1>14 DEF Rollback, End, Writes, Periods
    <3>9. QED
      BY <1>14, <3>1 , <3>2 DEF Rollback, End, Writes, Periods
  <2>2. BusyHasTarget'
    BY <1>14 DEF Rollback, End, Writes, Periods
  <2>3. WritersAreLive'
    BY <1>14 DEF Rollback, End, Writes, Periods
  <2>4. ClocksAgree'
    BY <1>14 DEF Rollback, End, Writes, Periods
  <2>5. ChargedIsPaid'
    BY <1>14 DEF Rollback, End, Writes, Periods
  <2>6. ClearedHasCap'
    BY <1>14 DEF Rollback, End, Writes, Periods
  <2>7. UnsetBudgetNeverSpends'
    BY <1>14 DEF Rollback, End, Writes, Periods
  <2>8. QED
    BY <2>1, <2>2, <2>3, <2>4, <2>5, <2>6, <2>7
<1>15. CASE UNCHANGED vars
  BY <1>15 DEF vars
<1>16. QED
  BY <1>1, <1>2, <1>3, <1>4, <1>5, <1>6, <1>7, <1>8, <1>9, <1>10, <1>11, <1>12,
     <1>13, <1>14, <1>15 DEF Next, Step

LEMMA Invariant == Spec => []IInv
BY InitInv, StepInv, PTL DEF Spec

(* Every reachable state of the ledger and its requests is well typed.     *)
THEOREM TypeCorrect == Spec => []TypeOK
<1>1. IInv => TypeOK
  BY DEF IInv
<1>2. QED
  BY <1>1, Invariant, PTL

(* No order of charges, inserts, rollbacks and deletions leaves a row in   *)
(* the ledger that no credit was charged for.                              *)
THEOREM RowsArePaid == Spec => []EveryRowPaid
<1>1. IInv => EveryRowPaid
  BY DEF IInv, ChargedIsPaid
<1>2. QED
  BY <1>1, Invariant, PTL

(* The budget fails closed: with neither cap set nothing is ever charged.  *)
THEOREM FailsClosed == Spec => []UnsetBudgetNeverSpends
<1>1. IInv => UnsetBudgetNeverSpends
  BY DEF IInv
<1>2. QED
  BY <1>1, Invariant, PTL

(* A row once counted is never removed or re-dated.                        *)
THEOREM NeverUncounted == Spec => CountedStaysCounted
<1>1. IInv /\ [Next]_vars =>
        [\A t \in Targets :
           status[t] # "none" => status'[t] # "none" /\ created'[t] = created[t]]_vars
  <2> SUFFICES ASSUME IInv, Next, NEW t \in Targets, status[t] # "none"
               PROVE  status'[t] # "none" /\ created'[t] = created[t]
    OBVIOUS
  <2>1. ASSUME NEW r \in Requests, Finish(r)
        PROVE  status'[t] # "none" /\ created'[t] = created[t]
    BY <2>1, NobodyAssumption DEF Finish, Writes, IInv, TypeOK, WritersAreLive
  <2>2. CASE UNCHANGED <<status, created>>
    BY <2>2
  <2>3. (\E r \in Requests : Finish(r)) \/ UNCHANGED <<status, created>>
    BY DEF Next, Step, Tick, Begin, Plan, CountDaily, CountMonthly, Charge, ChargeLost,
           ChargeRefused, Insert, InsertRefused, SetStatus, StatusNotFound, Rollback,
           ledger
  <2>4. QED
    BY <2>1, <2>2, <2>3
<1>2. QED
  BY <1>1, Invariant, PTL DEF Spec, CountedStaysCounted

-----------------------------------------------------------------------------
(* The bound on overruns.                                                  *)
LEMMA Finiteness ==
    ASSUME NEW p
    PROVE  /\ IsFiniteSet(Rows(p)) /\ Cardinality(Rows(p)) \in Nat
           /\ IsFiniteSet(InFlight(p)) /\ Cardinality(InFlight(p)) \in Nat
           /\ Cardinality(InFlight(p)) <= Cardinality(Requests)
           /\ Cardinality(Requests) \in Nat
           /\ Cardinality(Requests) > 0
<1>1. Rows(p) \in SUBSET Targets /\ InFlight(p) \in SUBSET Requests
  BY DEF Rows, RowsSince, InFlight
<1>2. QED
  BY <1>1, RequestsAssumption, TargetsAssumption, FS_Subset, FS_CardinalityType,
     FS_EmptySet

LEMMA InitOverrun == Init => OverrunInv
<1> SUFFICES ASSUME Init, NEW p \in Periods, budget[p] # Unset
             PROVE  Cardinality(Rows(p)) + Cardinality(InFlight(p))
                        < budget[p] + Cardinality(Requests)
  BY DEF OverrunInv
<1>1. Rows(p) = {} /\ InFlight(p) = {}
  BY DEF Init, Rows, RowsSince, InFlight, Passed
<1>2. budget[p] \in Nat
  BY CapsAssumption DEF Init
<1>3. QED
  BY <1>1, <1>2, FS_EmptySet, Finiteness

(* A step that adds neither a row nor a request that passed the check.     *)
LEMMA Shrink ==
    ASSUME IInv, NEW p \in Periods, budget[p] # Unset, OverrunInv, UNCHANGED budget,
           Rows(p)' \subseteq Rows(p), InFlight(p)' \subseteq InFlight(p)
    PROVE  Cardinality(Rows(p)') + Cardinality(InFlight(p)')
               < budget'[p] + Cardinality(Requests)
<1>1. /\ Cardinality(Rows(p)') \in Nat /\ Cardinality(InFlight(p)') \in Nat
      /\ Cardinality(Rows(p)') <= Cardinality(Rows(p))
      /\ Cardinality(InFlight(p)') <= Cardinality(InFlight(p))
  BY Finiteness, FS_Subset, FS_CardinalityType
<1>2. budget[p] \in Nat
  BY CapsAssumption DEF IInv, TypeOK
<1>3. QED
  BY <1>1, <1>2, Finiteness DEF OverrunInv

(* A request that passes the check of the current period saw room for one. *)
LEMMA Pass ==
    ASSUME IInv, NEW p \in Periods, budget[p] # Unset, OverrunInv, UNCHANGED budget,
           Rows(p)' = Rows(p), InFlight(p)' \subseteq Requests,
           Cardinality(Rows(p)) + 1 <= budget[p]
    PROVE  Cardinality(Rows(p)') + Cardinality(InFlight(p)')
               < budget'[p] + Cardinality(Requests)
<1>1. /\ Cardinality(InFlight(p)') \in Nat
      /\ Cardinality(InFlight(p)') <= Cardinality(Requests)
  BY RequestsAssumption, FS_Subset, FS_CardinalityType
<1>2. budget[p] \in Nat
  BY CapsAssumption DEF IInv, TypeOK
<1>3. QED
  BY <1>1, <1>2, Finiteness

LEMMA AddOne ==
    ASSUME NEW S, IsFiniteSet(S), NEW x, NEW T, T \subseteq S \cup {x}
    PROVE  Cardinality(T) \in Nat /\ Cardinality(T) <= Cardinality(S) + 1
<1>1. Cardinality(S) \in Nat
  BY FS_CardinalityType
<1>2. /\ IsFiniteSet(S \cup {x})
      /\ Cardinality(S \cup {x}) = IF x \in S THEN Cardinality(S) ELSE Cardinality(S) + 1
  BY FS_AddElement
<1>3. IsFiniteSet(T) /\ Cardinality(T) <= Cardinality(S \cup {x})
  BY <1>2, FS_Subset
<1>4. Cardinality(T) \in Nat
  BY <1>3, FS_CardinalityType
<1>5. QED
  BY <1>1, <1>2, <1>3, <1>4

LEMMA CapIsNumber == ASSUME TypeOK, NEW p \in Periods, budget[p] # Unset
                     PROVE  budget[p] \in Nat
BY CapsAssumption DEF TypeOK

(* A commit turns the request that inserted into at most one row.          *)
LEMMA Commit ==
    ASSUME IInv, NEW p \in Periods, budget[p] # Unset, OverrunInv,
           NEW r \in Requests, Finish(r)
    PROVE  Cardinality(Rows(p)') + Cardinality(InFlight(p)')
               < budget'[p] + Cardinality(Requests)
<1> USE NobodyAssumption DEF IInv, TypeOK, WritersAreLive, BusyHasTarget
<1>1. InFlight(p)' = InFlight(p) \ {r}
  BY DEF Finish, End, Goto, InFlight, Passed, Start, clock
<1>2. UNCHANGED budget
  BY DEF Finish
<1>3. CASE pc[r] = "inserted" /\ began[r] >= Start(p)
  <2>1. r \in InFlight(p)
    BY <1>3 DEF InFlight, Passed
  <2>2. Rows(p)' \subseteq Rows(p) \cup {on[r]}
    BY DEF Finish, End, Writes, Rows, RowsSince, Start, clock
  <2>3. Cardinality(InFlight(p)') = Cardinality(InFlight(p)) - 1
    BY <1>1, <2>1, Finiteness, FS_RemoveElement
  <2>5. /\ Cardinality(Rows(p)') \in Nat
        /\ Cardinality(Rows(p)') <= Cardinality(Rows(p)) + 1
    BY <2>2, Finiteness, AddOne
  <2>6. budget[p] \in Nat
    BY CapIsNumber
  <2>7. QED
    BY <1>2, <2>3, <2>5, <2>6, Finiteness DEF OverrunInv
<1>4. CASE ~(pc[r] = "inserted" /\ began[r] >= Start(p))
  <2>1. Start(p) \in Nat /\ began[r] \in Nat
    BY DEF Start
  <2>2. Rows(p)' \subseteq Rows(p)
    BY <1>4, <2>1 DEF Finish, End, Writes, Rows, RowsSince, Start, clock
  <2>3. QED
    BY <1>1, <1>2, <2>2, Shrink
<1>5. QED
  BY <1>3, <1>4

(* A request dated in the current period counts from its first day.        *)
LEMMA ClockIsCurrent ==
    ASSUME IInv, NEW r \in Requests, pc[r] \in {"planned", "counted"},
           NEW p \in Periods, began[r] >= Start(p)
    PROVE  now[r][p] = Start(p)
<1>1. /\ now[r]["daily"] \in Nat /\ now[r]["monthly"] \in Nat
      /\ began[r] \in Nat /\ today \in Nat /\ month \in Nat
  BY DEF IInv, TypeOK, Periods
<1>2. /\ began[r] <= now[r]["daily"] /\ now[r]["daily"] <= today
      /\ now[r]["daily"] >= month => now[r]["monthly"] = month
  BY DEF IInv, ClocksAgree
<1>3. CASE p = "daily"
  BY <1>1, <1>2, <1>3 DEF Start
<1>4. CASE p = "monthly"
  BY <1>1, <1>2, <1>4 DEF Start
<1>5. QED
  BY <1>3, <1>4 DEF Periods

Counts(r, p) == IF p = "daily" THEN CountDaily(r) ELSE CountMonthly(r)

LEMMA StepOverrun == IInv /\ OverrunInv /\ [Next]_vars => OverrunInv'
<1> SUFFICES ASSUME IInv, OverrunInv, [Next]_vars, NEW p \in Periods, budget'[p] # Unset
             PROVE  Cardinality(Rows(p)') + Cardinality(InFlight(p)')
                        < budget'[p] + Cardinality(Requests)
  BY DEF OverrunInv, Rows, InFlight
<1>b. UNCHANGED budget
  BY DEF Next, Step, Tick, Begin, Plan, CountDaily, CountMonthly, Charge, ChargeLost,
         ChargeRefused, Insert, InsertRefused, SetStatus, StatusNotFound, Finish,
         Rollback, vars
<1>s. (Rows(p)' \subseteq Rows(p) /\ InFlight(p)' \subseteq InFlight(p)) =>
      Cardinality(Rows(p)') + Cardinality(InFlight(p)') < budget'[p] + Cardinality(Requests)
  BY <1>b, Shrink
<1>1. CASE Tick
  <2>1. Start(p) \in Nat /\ Start(p)' \in Nat /\ Start(p)' >= Start(p)
    BY <1>1 DEF Tick, Start, IInv, TypeOK, ClocksAgree
  <2>2. Rows(p)' \subseteq Rows(p)
    BY <1>1, <2>1 DEF Tick, Rows, RowsSince, ledger, IInv, TypeOK
  <2>3. InFlight(p)' \subseteq InFlight(p)
    BY <1>1, <2>1 DEF Tick, InFlight, job, IInv, TypeOK
  <2>4. QED
    BY <1>s, <2>2, <2>3
<1>2. ASSUME NEW r \in Requests, NEW t \in Targets, Begin(r, t)
      PROVE Rows(p)' \subseteq Rows(p) /\ InFlight(p)' \subseteq InFlight(p)
  BY <1>2 DEF Begin, Goto, Rows, RowsSince, InFlight, Passed, Start, clock, ledger, IInv, TypeOK
<1>3. ASSUME NEW r \in Requests, Plan(r)
      PROVE Rows(p)' \subseteq Rows(p) /\ InFlight(p)' \subseteq InFlight(p)
  BY <1>3 DEF Plan, Goto, Rows, RowsSince, InFlight, Passed, Start, clock, ledger, IInv, TypeOK
<1>4. ASSUME NEW r \in Requests, NEW q \in Periods, Counts(r, q)
      PROVE Cardinality(Rows(p)') + Cardinality(InFlight(p)')
                < budget'[p] + Cardinality(Requests)
  <2> USE <1>4 DEF Counts, CountDaily, CountMonthly, Periods, Goto, clock, ledger, job, IInv, TypeOK
  <2>1. Rows(p)' = Rows(p)
    BY DEF Rows, RowsSince, Start
  <2>2. CASE p = q /\ WithinCap(r, p) /\ began[r] >= Start(p)
    <3>0. pc[r] \in {"planned", "counted"}
      BY <2>2
    <3>1. now[r][p] = Start(p)
      BY <2>2, <3>0, ClockIsCurrent
    <3>2. Cardinality(Rows(p)) + 1 <= budget[p]
      BY <2>2, <3>1, <1>b DEF WithinCap, Counted, Rows
    <3>3. InFlight(p)' \subseteq Requests
      BY DEF InFlight
    <3>4. QED
      BY <2>1, <3>2, <3>3, <1>b, Pass
  <2>3. CASE ~(p = q /\ WithinCap(r, p) /\ began[r] >= Start(p))
    <3>1. InFlight(p)' \subseteq InFlight(p)
      BY <2>3 DEF InFlight, Passed, Start, Periods
    <3>2. QED
      BY <2>1, <3>1, <1>s
  <2>4. QED
    BY <2>2, <2>3
<1>5. ASSUME NEW r \in Requests, Charge(r)
      PROVE Rows(p)' \subseteq Rows(p) /\ InFlight(p)' \subseteq InFlight(p)
  BY <1>5 DEF Charge, Goto, Rows, RowsSince, InFlight, Passed, Start, clock, ledger, job, IInv, TypeOK
<1>6. ASSUME NEW r \in Requests, ChargeLost(r)
      PROVE Rows(p)' \subseteq Rows(p) /\ InFlight(p)' \subseteq InFlight(p)
  BY <1>6 DEF ChargeLost, Goto, Rows, RowsSince, InFlight, Passed, Start, clock, ledger, job, IInv, TypeOK
<1>7. ASSUME NEW r \in Requests, ChargeRefused(r) \/ InsertRefused(r) \/ StatusNotFound(r)
      PROVE Rows(p)' \subseteq Rows(p) /\ InFlight(p)' \subseteq InFlight(p)
  BY <1>7 DEF ChargeRefused, InsertRefused, StatusNotFound, Goto, Rows, RowsSince, InFlight,
              Passed, Start, clock, ledger, job, IInv, TypeOK
<1>8. ASSUME NEW r \in Requests, Insert(r)
      PROVE Rows(p)' \subseteq Rows(p) /\ InFlight(p)' \subseteq InFlight(p)
  BY <1>8 DEF Insert, Goto, Rows, RowsSince, InFlight, Passed, Start, clock, job, IInv, TypeOK
<1>9. ASSUME NEW r \in Requests, NEW s \in {"paused", "deleted"}, SetStatus(r, s)
      PROVE Rows(p)' \subseteq Rows(p) /\ InFlight(p)' \subseteq InFlight(p)
  BY <1>9 DEF SetStatus, Goto, Rows, RowsSince, InFlight, Passed, Start, clock, job, IInv, TypeOK
<1>10. ASSUME NEW r \in Requests, Rollback(r)
       PROVE Rows(p)' \subseteq Rows(p) /\ InFlight(p)' \subseteq InFlight(p)
  BY <1>10 DEF Rollback, End, Goto, Rows, RowsSince, InFlight, Passed, Start, clock, IInv, TypeOK
<1>11. ASSUME NEW r \in Requests, Finish(r)
       PROVE Cardinality(Rows(p)') + Cardinality(InFlight(p)')
                < budget'[p] + Cardinality(Requests)
  BY <1>11, <1>b, Commit
<1>12. CASE UNCHANGED vars
  <2>1. Rows(p)' = Rows(p) /\ InFlight(p)' = InFlight(p)
    BY <1>12 DEF vars, Rows, RowsSince, InFlight, Start
  <2>2. QED
    BY <2>1, <1>s
<1>13. ASSUME NEW r \in Requests, Step(r)
       PROVE Cardinality(Rows(p)') + Cardinality(InFlight(p)')
                < budget'[p] + Cardinality(Requests)
  <2>1. CASE CountDaily(r) \/ CountMonthly(r)
    <3>1. "daily" \in Periods /\ "monthly" \in Periods
      BY DEF Periods
    <3>2. Counts(r, "daily") \/ Counts(r, "monthly")
      BY <2>1 DEF Counts
    <3>3. QED
      BY <3>1, <3>2, <1>4
  <2>2. CASE Finish(r)
    BY <2>2, <1>11
  <2>3. CASE ~(CountDaily(r) \/ CountMonthly(r) \/ Finish(r))
    <3>1. Rows(p)' \subseteq Rows(p) /\ InFlight(p)' \subseteq InFlight(p)
      <4>1. CASE \E t \in Targets : Begin(r, t)
        BY <4>1, <1>2
      <4>2. CASE Plan(r)
        BY <4>2, <1>3
      <4>3. CASE Charge(r) \/ ChargeLost(r) \/ ChargeRefused(r)
        BY <4>3, <1>5, <1>6, <1>7
      <4>4. CASE Insert(r) \/ InsertRefused(r) \/ StatusNotFound(r)
        BY <4>4, <1>7, <1>8
      <4>5. CASE (\E s \in {"paused", "deleted"} : SetStatus(r, s)) \/ Rollback(r)
        BY <4>5, <1>9, <1>10
      <4>6. QED
        BY <1>13, <2>3, <4>1, <4>2, <4>3, <4>4, <4>5 DEF Step
    <3>2. QED
      BY <3>1, <1>s
  <2>4. QED
    BY <2>1, <2>2, <2>3
<1>14. QED
  BY <1>1, <1>12, <1>13 DEF Next

(* Concurrent confirms overrun no cap by as many as there are requests.    *)
THEOREM BoundedOverrun == Spec => []OverrunIsBounded
<1>1. IInv /\ OverrunInv => OverrunIsBounded
  <2> SUFFICES ASSUME IInv, OverrunInv, NEW p \in Periods, budget[p] # Unset
               PROVE  Cardinality(Rows(p)) < budget[p] + Cardinality(Requests)
    BY DEF OverrunIsBounded, Counted, Rows
  <2>1. QED
    BY Finiteness, CapIsNumber DEF OverrunInv, IInv
<1>2. QED
  BY <1>1, InitOverrun, StepOverrun, Invariant, PTL DEF Spec

-----------------------------------------------------------------------------
(* Orderly use: requests that neither overlap each other nor midnight.     *)
Buying(r) == pc[r] \in {"planned", "counted", "cleared"}
Paying(r) == pc[r] \in {"charged", "inserted"}

(* One request at a time, on today's date. What it buys has no row, and    *)
(* what was paid for has one or is being bought.                           *)
OneAtATime ==
    \A r, q \in Requests : pc[r] # "idle" /\ pc[q] # "idle" => r = q

BuyerIsCurrent ==
    \A r \in Requests :
        /\ pc[r] # "failed"
        /\ pc[r] # "idle" => began[r] = today
        /\ Buying(r) => /\ \A p \in Periods : now[r][p] = Start(p)
                        /\ spent[on[r]] = 0
        /\ Buying(r) \/ Paying(r) => status[on[r]] = "none"
        /\ pc[r] = "inserted" => writer[on[r]] = r

PaidHasRow ==
    \A t \in Targets : spent[t] # 0 =>
        /\ spent[t] = 1
        /\ status[t] # "none" \/ \E r \in Requests : Paying(r) /\ on[r] = t

OrderlyInv == orderly => OneAtATime /\ BuyerIsCurrent /\ PaidHasRow

(* The charges of a period are rows of it, but for one being bought, which *)
(* was counted before.                                                     *)
BudgetInv ==
    orderly => \A p \in Periods : budget[p] # Unset =>
        /\ charges[p] <= budget[p]
        /\ charges[p] <= Counted(Start(p)) + 1
        /\ (\A r \in Requests : ~Paying(r)) => charges[p] <= Counted(Start(p))
        /\ \A r \in Requests :
             pc[r] = "cleared" \/ (p = "daily" /\ pc[r] = "counted")
                => Counted(Start(p)) + 1 <= budget[p]

LEMMA InitOrderly == Init => OrderlyInv
BY DEF Init, OrderlyInv, OneAtATime, BuyerIsCurrent, PaidHasRow, Buying, Paying

(* A step by which the run remains orderly was taken by the one request    *)
(* under way, or begins one when there is none.                            *)
LEMMA StepOrderly == IInv /\ OrderlyInv /\ [Next]_vars => OrderlyInv'
<1> SUFFICES ASSUME IInv, OrderlyInv, [Next]_vars, orderly'
             PROVE  OneAtATime' /\ BuyerIsCurrent' /\ PaidHasRow'
  BY DEF OrderlyInv
<1>a. orderly
  BY DEF Next, Step, Tick, Begin, Plan, CountDaily, CountMonthly, Charge, ChargeLost,
         ChargeRefused, Insert, InsertRefused, SetStatus, StatusNotFound, Finish,
         Rollback, vars, Disturbed, history
<1> USE NobodyAssumption
    DEF OrderlyInv, OneAtATime, BuyerIsCurrent, PaidHasRow, IInv, TypeOK, BusyHasTarget,
        Buying, Paying, Start, Goto, Disturbed, clock, ledger, job, history
<1>1. CASE Tick
  BY <1>1 DEF Tick, Idle
<1>2. ASSUME NEW r \in Requests, NEW t \in Targets, Begin(r, t)
      PROVE  OneAtATime' /\ BuyerIsCurrent' /\ PaidHasRow'
  <2>1. OneAtATime'
    BY <1>a, <1>2 DEF Begin, Idle
  <2>2. BuyerIsCurrent'
    BY <1>a, <1>2 DEF Begin, Idle
  <2>3. PaidHasRow'
    BY <1>a, <1>2 DEF Begin, Idle
  <2> QED BY <2>1, <2>2, <2>3
<1>3. ASSUME NEW r \in Requests, Plan(r)
      PROVE  OneAtATime' /\ BuyerIsCurrent' /\ PaidHasRow'
  <2>1. OneAtATime'
    BY <1>a, <1>3 DEF Plan
  <2>2. BuyerIsCurrent'
    BY <1>a, <1>3 DEF Plan
  <2>3. PaidHasRow'
    BY <1>a, <1>3 DEF Plan
  <2> QED BY <2>1, <2>2, <2>3
<1>4. ASSUME NEW r \in Requests, CountDaily(r) \/ CountMonthly(r)
      PROVE  OneAtATime' /\ BuyerIsCurrent' /\ PaidHasRow'
  <2>1. OneAtATime'
    BY <1>a, <1>4 DEF CountDaily, CountMonthly
  <2>2. BuyerIsCurrent'
    BY <1>a, <1>4 DEF CountDaily, CountMonthly
  <2>3. PaidHasRow'
    BY <1>a, <1>4 DEF CountDaily, CountMonthly
  <2> QED BY <2>1, <2>2, <2>3
<1>5. ASSUME NEW r \in Requests, Charge(r)
      PROVE  OneAtATime' /\ BuyerIsCurrent' /\ PaidHasRow'
  BY <1>5 DEF Charge, Spend
<1>6. ASSUME NEW r \in Requests, ChargeLost(r)
      PROVE  FALSE
  BY <1>6 DEF ChargeLost
<1>7. ASSUME NEW r \in Requests, ChargeRefused(r) \/ StatusNotFound(r)
      PROVE  OneAtATime' /\ BuyerIsCurrent' /\ PaidHasRow'
  <2>1. OneAtATime'
    BY <1>a, <1>7 DEF ChargeRefused, StatusNotFound
  <2>2. BuyerIsCurrent'
    BY <1>a, <1>7 DEF ChargeRefused, StatusNotFound
  <2>3. PaidHasRow'
    BY <1>a, <1>7 DEF ChargeRefused, StatusNotFound
  <2> QED BY <2>1, <2>2, <2>3
<1>8. ASSUME NEW r \in Requests, Insert(r)
      PROVE  OneAtATime' /\ BuyerIsCurrent' /\ PaidHasRow'
  BY <1>8 DEF Insert
<1>9. ASSUME NEW r \in Requests, InsertRefused(r)
      PROVE  FALSE
  BY <1>9 DEF InsertRefused
<1>10. ASSUME NEW r \in Requests, NEW s \in {"paused", "deleted"}, SetStatus(r, s)
       PROVE  OneAtATime' /\ BuyerIsCurrent' /\ PaidHasRow'
  BY <1>10 DEF SetStatus
<1>11. ASSUME NEW r \in Requests, Finish(r)
       PROVE  OneAtATime' /\ BuyerIsCurrent' /\ PaidHasRow'
  <2>1. \A q \in Requests : pc'[q] = "idle"
    BY <1>11 DEF Finish, End
  <2>2. \A t \in Targets : status[t] # "none" => status'[t] # "none"
    BY <1>11 DEF Finish, Writes, WritersAreLive
  <2>3. Paying(r) => status'[on[r]] # "none"
    BY <1>11 DEF Finish, Writes, WritersAreLive
  <2>4. PaidHasRow'
    BY <1>11, <2>1, <2>2, <2>3 DEF Finish
  <2> QED BY <2>1, <2>4
<1>12. ASSUME NEW r \in Requests, Rollback(r)
       PROVE  OneAtATime' /\ BuyerIsCurrent' /\ PaidHasRow'
  <2>1. OneAtATime'
    BY <1>a, <1>12 DEF Rollback, End
  <2>2. BuyerIsCurrent'
    BY <1>a, <1>12 DEF Rollback, End
  <2>3. PaidHasRow'
    BY <1>a, <1>12 DEF Rollback, End
  <2> QED BY <2>1, <2>2, <2>3
<1>13. CASE UNCHANGED vars
  BY <1>13 DEF vars
<1> QED
  BY <1>1, <1>2, <1>3, <1>4, <1>5, <1>6, <1>7, <1>8, <1>9, <1>10, <1>11, <1>12, <1>13
     DEF Next, Step

LEMMA InitBudget == Init => BudgetInv
<1> SUFFICES ASSUME Init, NEW p \in Periods, budget[p] # Unset
             PROVE  /\ charges[p] <= budget[p] /\ charges[p] <= Counted(Start(p))
                    /\ charges[p] <= Counted(Start(p)) + 1
  BY DEF Init, BudgetInv
<1>1. Counted(Start(p)) \in Nat
  BY Finiteness DEF Counted, Rows
<1>2. charges[p] = 0 /\ budget[p] \in Nat
  BY CapsAssumption DEF Init, Epoch
<1> QED BY <1>1, <1>2

LEMMA StepBudget == IInv /\ OrderlyInv /\ BudgetInv /\ [Next]_vars => BudgetInv'
<1> SUFFICES ASSUME IInv, OrderlyInv, BudgetInv, [Next]_vars, orderly',
                    NEW p \in Periods, budget'[p] # Unset
             PROVE  /\ charges'[p] <= budget'[p]
                    /\ charges'[p] <= Counted(Start(p))' + 1
                    /\ (\A r \in Requests : ~Paying(r)') => charges'[p] <= Counted(Start(p))'
                    /\ \A r \in Requests :
                         pc'[r] = "cleared" \/ (p = "daily" /\ pc'[r] = "counted")
                            => Counted(Start(p))' + 1 <= budget'[p]
  BY DEF BudgetInv
<1> DEFINE Kept == /\ charges'[p] <= budget'[p]
                   /\ charges'[p] <= Counted(Start(p))' + 1
                   /\ (\A r \in Requests : ~Paying(r)') => charges'[p] <= Counted(Start(p))'
                   /\ \A r \in Requests :
                         pc'[r] = "cleared" \/ (p = "daily" /\ pc'[r] = "counted")
                            => Counted(Start(p))' + 1 <= budget'[p]
<1>a. budget' = budget /\ orderly
  BY DEF Next, Step, Tick, Begin, Plan, CountDaily, CountMonthly, Charge, ChargeLost,
         ChargeRefused, Insert, InsertRefused, SetStatus, StatusNotFound, Finish,
         Rollback, vars, Disturbed, history
<1>b. /\ Counted(Start(p)) \in Nat /\ Counted(Start(p))' \in Nat
      /\ budget[p] \in Nat /\ charges[p] \in Nat
  <2>1. Counted(Start(p)) \in Nat
    BY Finiteness DEF Counted, Rows
  <2>2. Counted(Start(p))' \in Nat
    <3>1. RowsSince(Start(p))' \in SUBSET Targets
      BY DEF RowsSince
    <3> QED BY <3>1, TargetsAssumption, FS_Subset, FS_CardinalityType DEF Counted
  <2> QED BY <1>a, <2>1, <2>2, CapIsNumber DEF IInv, TypeOK
<1> USE DEF Goto, Disturbed, clock, ledger, job, history
<1>1. ASSUME Tick
      PROVE  Kept
  <2>1. Idle
    BY <1>1, <1>a DEF Tick
  <2>2. CASE p = "monthly" /\ month' = month
    <3>1. charges'[p] = charges[p]
      BY <1>1, <1>a, <2>1, <2>2 DEF Tick
    <3>2. Counted(Start(p))' = Counted(Start(p)) /\ pc' = pc
      BY <1>1, <2>2 DEF Tick, Counted, RowsSince, Start
    <3> QED BY <1>a, <1>b, <2>1, <3>1, <3>2 DEF BudgetInv, Idle, Paying
  <2>3. CASE ~(p = "monthly" /\ month' = month)
    <3>1. charges'[p] = 0
      BY <1>1, <1>a, <2>1, <2>3 DEF Tick
    <3> QED BY <1>1, <1>a, <1>b, <2>1, <3>1 DEF Tick, Idle
  <2> QED BY <2>2, <2>3
<1>2. ASSUME Counted(Start(p))' = Counted(Start(p)), charges' = charges,
             \A r \in Requests : Paying(r)' = Paying(r),
             \A r \in Requests : pc'[r] \in {"counted", "cleared"} => pc'[r] = pc[r]
      PROVE  Kept
  BY <1>2, <1>a, <1>b DEF BudgetInv
<1>3. ASSUME UNCHANGED <<clock, status, created>>
      PROVE  Counted(Start(p))' = Counted(Start(p))
  BY <1>3 DEF Counted, RowsSince, Start
<1>4. ASSUME NEW r \in Requests, NEW t \in Targets, Begin(r, t)
      PROVE  Kept
  BY <1>4, <1>2, <1>3, <1>a DEF Begin, Paying, IInv, TypeOK
<1>5. ASSUME NEW r \in Requests, Plan(r)
      PROVE  Kept
  BY <1>5, <1>2, <1>3, <1>a DEF Plan, Paying, IInv, TypeOK
<1>6. ASSUME NEW r \in Requests, NEW q \in Periods, Counts(r, q)
      PROVE  Kept
  <2>1. Counted(Start(p))' = Counted(Start(p)) /\ charges' = charges
    BY <1>6, <1>3 DEF Counts, CountDaily, CountMonthly
  <2>2. now[r][p] = Start(p) /\ \A k \in Requests : pc[k] # "idle" => k = r
    BY <1>6, <1>a DEF Counts, CountDaily, CountMonthly, OrderlyInv, OneAtATime,
                      BuyerIsCurrent, Buying
  <2>3. \A k \in Requests : Paying(k)' = Paying(k)
    <3>1. PICK l \in {"counted", "cleared", "done"} : pc' = [pc EXCEPT ![r] = l]
      BY <1>6 DEF Counts, CountDaily, CountMonthly
    <3>2. ~Paying(r)
      BY <1>6 DEF Counts, CountDaily, CountMonthly, Paying
    <3> QED BY <3>1, <3>2 DEF Paying, IInv, TypeOK
  <2>4. ASSUME pc'[r] = "cleared" \/ (p = "daily" /\ pc'[r] = "counted")
        PROVE  Counted(Start(p)) + 1 <= budget[p]
    BY <1>6, <1>a, <2>2, <2>4
       DEF Counts, CountDaily, CountMonthly, WithinCap, BudgetInv, IInv, TypeOK, Periods
  <2> QED BY <1>6, <1>a, <1>b, <2>1, <2>2, <2>3, <2>4
          DEF Counts, CountDaily, CountMonthly, BudgetInv, IInv, TypeOK
<1>7. ASSUME NEW r \in Requests, Charge(r)
      PROVE  Kept
  <2>1. Counted(Start(p))' = Counted(Start(p)) /\ charges'[p] = charges[p] + 1
    BY <1>7, <1>3, <1>a DEF Charge, IInv, TypeOK
  <2>2. \A k \in Requests : pc[k] # "idle" => k = r
    BY <1>7, <1>a DEF Charge, OrderlyInv, OneAtATime
  <2>3. charges[p] <= Counted(Start(p)) /\ Counted(Start(p)) + 1 <= budget[p]
    BY <1>7, <1>a, <2>2 DEF Charge, BudgetInv, Paying
  <2>4. Paying(r)' /\ \A k \in Requests : pc'[k] \notin {"counted", "cleared"}
    BY <1>7, <2>2 DEF Charge, Paying, IInv, TypeOK
  <2> QED BY <1>a, <1>b, <2>1, <2>3, <2>4
<1>8. ASSUME NEW r \in Requests, ChargeRefused(r) \/ StatusNotFound(r)
      PROVE  Kept
  BY <1>8, <1>2, <1>3, <1>a DEF ChargeRefused, StatusNotFound, Paying, IInv, TypeOK
<1>9. ASSUME NEW r \in Requests, Insert(r)
      PROVE  Kept
  BY <1>9, <1>2, <1>3, <1>a DEF Insert, Paying, IInv, TypeOK
<1>10. ASSUME NEW r \in Requests, NEW s \in {"paused", "deleted"}, SetStatus(r, s)
       PROVE  Kept
  BY <1>10, <1>2, <1>3, <1>a DEF SetStatus, Paying, IInv, TypeOK
<1>11. ASSUME NEW r \in Requests, Finish(r), pc[r] = "done"
       PROVE  Kept
  <2>1. RowsSince(Start(p))' = RowsSince(Start(p))
    BY <1>11, NobodyAssumption DEF Finish, Writes, RowsSince, Start, IInv, TypeOK, WritersAreLive
  <2>2. charges' = charges /\ pc' = [pc EXCEPT ![r] = "idle"]
    BY <1>11 DEF Finish, End
  <2> QED BY <1>11, <1>2, <2>1, <2>2 DEF Counted, Paying, IInv, TypeOK
<1>12. ASSUME NEW r \in Requests, Finish(r), pc[r] = "inserted"
       PROVE  Kept
  <2>1. /\ on[r] \in Targets /\ status[on[r]] = "none" /\ writer[on[r]] = r
        /\ began[r] = today /\ began[r] >= Start(p)
    BY <1>12, <1>a DEF OrderlyInv, BuyerIsCurrent, Paying, Start, IInv, TypeOK,
                       BusyHasTarget, ClocksAgree
  <2>2. \A t \in Targets : writer[t] = r => t = on[r] /\ pending[t] # "none"
    BY <1>12, NobodyAssumption DEF IInv, WritersAreLive
  <2>3. RowsSince(Start(p))' = RowsSince(Start(p)) \cup {on[r]}
    BY <1>12, <2>1, <2>2 DEF Finish, Writes, RowsSince, Start, IInv, TypeOK
  <2>4. on[r] \notin RowsSince(Start(p))
    BY <2>1 DEF RowsSince
  <2>5. Counted(Start(p))' = Counted(Start(p)) + 1
    BY <2>3, <2>4, Finiteness, FS_AddElement DEF Counted, Rows
  <2>6. charges' = charges /\ \A k \in Requests : pc'[k] = "idle"
    BY <1>12, <1>a DEF Finish, End, OrderlyInv, OneAtATime, IInv, TypeOK
  <2> QED BY <1>a, <1>b, <2>5, <2>6 DEF BudgetInv
<1>13. ASSUME NEW r \in Requests, Rollback(r)
       PROVE  Kept
  BY <1>13, <1>2, <1>3, <1>a DEF Rollback, End, Paying, IInv, TypeOK
<1>14. ASSUME UNCHANGED vars
       PROVE  Kept
  BY <1>14, <1>2, <1>3 DEF vars, Paying
<1>15. ASSUME NEW r \in Requests, ChargeLost(r) \/ InsertRefused(r)
       PROVE  FALSE
  BY <1>15, <1>a DEF ChargeLost, InsertRefused, OrderlyInv, BuyerIsCurrent, Paying
<1>16. ASSUME NEW r \in Requests, Step(r)
       PROVE  Kept
  <2>1. "daily" \in Periods /\ "monthly" \in Periods
    BY DEF Periods
  <2>2. CASE CountDaily(r) \/ CountMonthly(r)
    BY <2>1, <2>2, <1>6 DEF Counts
  <2>3. CASE Finish(r)
    BY <2>3, <1>11, <1>12 DEF Finish
  <2>4. CASE ~(CountDaily(r) \/ CountMonthly(r) \/ Finish(r))
    BY <2>4, <1>4, <1>5, <1>7, <1>8, <1>9, <1>10, <1>13, <1>15, <1>16 DEF Step
  <2> QED BY <2>2, <2>3, <2>4
<1> HIDE DEF Kept
<1>17. Kept
  <2>1. Tick \/ (\E r \in Requests : Step(r)) \/ UNCHANGED vars
    BY DEF Next
  <2> QED BY <2>1, <1>1, <1>14, <1>16
<1> QED BY <1>17 DEF Kept

LEMMA OrderlyInvariant == Spec => [](OrderlyInv /\ BudgetInv)
BY InitOrderly, InitBudget, StepOrderly, StepBudget, Invariant, PTL DEF Spec

(* As long as use is orderly no cap is overrun.                            *)
THEOREM WithinBudget == Spec => []OrderlyWithinBudget
<1>1. BudgetInv => OrderlyWithinBudget
  BY DEF BudgetInv, OrderlyWithinBudget
<1> QED BY <1>1, OrderlyInvariant, PTL

(* As long as use is orderly no target is paid for twice.                  *)
THEOREM PaidOnce == Spec => []OrderlyPaidOnce
<1>1. IInv /\ OrderlyInv => OrderlyPaidOnce
  BY DEF IInv, TypeOK, OrderlyInv, PaidHasRow, OrderlyPaidOnce
<1> QED BY <1>1, Invariant, OrderlyInvariant, PTL

-----------------------------------------------------------------------------
(* The page. A request it sent is the handler's; the orders of a target    *)
(* are the confirmed requests that have not been charged yet.              *)
Unpaid(r) == pc[r] \in {"open", "planned", "counted", "cleared"}
Orders(t) == {r \in Requests : does[r] = "subscribe" /\ asks[r] = t /\ Unpaid(r)}

Sent ==
    /\ does \in [Requests -> {"none", "preview", "subscribe", "paused", "deleted"}]
    /\ asks \in [Requests -> Targets \cup {Nobody}]
    /\ plan \in Targets \cup {Nobody}
    /\ clicks \in [Targets -> Nat]

Served ==
    \A r \in Requests : pc[r] # "idle" =>
        /\ does[r] # "none"
        /\ asks[r] = on[r]
        /\ pc[r] # "open" /\ Unpaid(r) => does[r] = "subscribe"

Confirmed == \A t \in Targets : spent[t] + Cardinality(Orders(t)) <= clicks[t]

(* The steps of the page that are no step of a handler.                    *)
Aside ==
    \/ \E r \in Requests : Receive(r) \/ GiveUp(r)
    \/ \E l \in Loads : ReadList(l) \/ ShowList(l)

(* A step of the page is one of the gate, or none.                         *)
LEMMA PanelStep == Sent /\ [PanelNext]_<<vars, panel>> => [Next]_vars
<1> SUFFICES ASSUME Sent, PanelNext PROVE Next \/ UNCHANGED vars
  BY DEF vars
<1>1. ASSUME NEW t \in Targets, NEW what, Send(what, t) PROVE Next
  BY <1>1 DEF Send, Next, Step
<1>2. CASE \E t \in Targets : Preview(t)
  BY <1>1, <1>2 DEF Preview
<1>3. ASSUME NEW r \in Requests, Serve(r) PROVE Next
  <2>1. Step(r)
    <3>1. CASE Planned(r) \/ Budgeted(r)
      BY <3>1 DEF Planned, Budgeted, Step
    <3>2. CASE Charged(r) \/ Recorded(r)
      BY <3>2 DEF Charged, Recorded, Step
    <3>3. CASE Changed(r)
      BY <3>3 DEF Changed, Step
    <3>4. CASE Ended(r)
      BY <3>4 DEF Ended, Step
    <3> QED BY <1>3, <3>1, <3>2, <3>3, <3>4 DEF Serve
  <2> QED BY <2>1 DEF Next
<1>4. ASSUME NEW t \in Targets, NEW s \in {"paused", "deleted"}, Change(t, s) PROVE Next
  BY <1>1, <1>4 DEF Change
<1>5. CASE Aside
  <2>1. ASSUME NEW r \in Requests, Forget(r) PROVE UNCHANGED vars
    BY <2>1 DEF Forget
  <2>2. ASSUME NEW l \in Loads, ReadList(l) PROVE UNCHANGED vars
    BY <2>2 DEF ReadList
  <2>3. ASSUME NEW l \in Loads, ShowList(l) PROVE UNCHANGED vars
    BY <2>3 DEF ShowList
  <2>4. ASSUME NEW r \in Requests, Receive(r) \/ GiveUp(r) PROVE Forget(r)
    BY <2>4 DEF Receive, GiveUp
  <2>5. ASSUME NEW r \in Requests, Receive(r) \/ GiveUp(r) PROVE UNCHANGED vars
    BY <2>1, <2>4, <2>5
  <2>6. CASE \E r \in Requests : Receive(r) \/ GiveUp(r)
    BY <2>5, <2>6
  <2>7. CASE \E l \in Loads : ReadList(l) \/ ShowList(l)
    BY <2>2, <2>3, <2>7
  <2> QED BY <1>5, <2>6, <2>7 DEF Aside
<1>6. CASE Confirm
  BY <1>1, <1>6 DEF Confirm, Confirmable, Sent
<1> QED BY <1>2, <1>3, <1>4, <1>5, <1>6 DEF PanelNext, Aside

PanelInv == Sent /\ Served /\ Confirmed

LEMMA OrdersAreFinite ==
    ASSUME NEW t
    PROVE  IsFiniteSet(Orders(t)) /\ Cardinality(Orders(t)) \in Nat
<1>1. Orders(t) \in SUBSET Requests
  BY DEF Orders
<1> QED BY <1>1, RequestsAssumption, FS_Subset, FS_CardinalityType

LEMMA InitPanel == PanelInit => PanelInv
<1> SUFFICES ASSUME PanelInit PROVE PanelInv
  OBVIOUS
<1>1. Sent /\ Served
  BY DEF PanelInit, Sent, Served, Init
<1>2. \A t \in Targets : Orders(t) = {} /\ spent[t] = 0 /\ clicks[t] = 0
  BY DEF PanelInit, Orders, Init, Unpaid
<1> QED BY <1>1, <1>2, FS_EmptySet DEF PanelInv, Confirmed

(* A target with no more orders and no new charge stays confirmed.         *)
LEMMA NoNewOrder ==
    ASSUME IInv, PanelInv, NEW t \in Targets, Orders(t)' \subseteq Orders(t),
           spent'[t] = spent[t], clicks'[t] = clicks[t]
    PROVE  spent'[t] + Cardinality(Orders(t)') <= clicks'[t]
<1>1. /\ Cardinality(Orders(t)') \in Nat
      /\ Cardinality(Orders(t)') <= Cardinality(Orders(t))
  BY OrdersAreFinite, FS_Subset, FS_CardinalityType
<1> QED BY <1>1, OrdersAreFinite DEF PanelInv, Confirmed, Sent, IInv, TypeOK

(* What leaves the page: a target's orders grow by a confirmation only.    *)
LEMMA SendPanel ==
    ASSUME IInv, PanelInv, NEW t \in Targets,
           NEW what \in {"preview", "subscribe", "paused", "deleted"}, Send(what, t),
           plan' \in Targets \cup {Nobody},
           clicks' = IF what = "subscribe" THEN [clicks EXCEPT ![t] = @ + 1] ELSE clicks
    PROVE  PanelInv'
<1> USE DEF PanelInv, Sent, Served, IInv, TypeOK
<1> PICK r \in Requests :
        /\ does[r] = "none"
        /\ Begin(r, t)
        /\ does' = [does EXCEPT ![r] = what]
        /\ asks' = [asks EXCEPT ![r] = t]
  BY DEF Send
<1>1. /\ pc[r] = "idle" /\ pc' = [pc EXCEPT ![r] = "open"]
      /\ on' = [on EXCEPT ![r] = t] /\ spent' = spent
  BY DEF Begin, Goto
<1>2. Sent' /\ Served'
  BY <1>1 DEF Unpaid
<1>3. ASSUME NEW u \in Targets
      PROVE  Orders(u)' = IF u = t /\ what = "subscribe" THEN Orders(u) \cup {r} ELSE Orders(u)
  BY <1>1 DEF Orders, Unpaid
<1>4. r \notin Orders(t)
  BY DEF Orders
<1>5. ASSUME NEW u \in Targets
      PROVE  spent'[u] + Cardinality(Orders(u)') <= clicks'[u]
  <2>1. CASE u = t /\ what = "subscribe"
    <3>1. Cardinality(Orders(u)') = Cardinality(Orders(u)) + 1
      <4>1. Orders(u)' = Orders(u) \cup {r} /\ r \notin Orders(u)
        BY <1>3, <1>4, <2>1
      <4>2. Cardinality(Orders(u) \cup {r}) = Cardinality(Orders(u)) + 1
        BY ONLY <4>1, OrdersAreFinite, FS_AddElement
      <4> QED BY ONLY <4>1, <4>2
    <3> QED BY <1>1, <2>1, <3>1, OrdersAreFinite DEF Confirmed
  <2>2. CASE ~(u = t /\ what = "subscribe")
    BY <1>1, <1>3, <2>2, NoNewOrder
  <2> QED BY <2>1, <2>2
<1> QED BY <1>2, <1>5 DEF Confirmed

(* The slots of handlers that run on are kept.                             *)
LEMMA KeepPanel ==
    ASSUME IInv, PanelInv, NEW held, Keep(held), \A r \in Requests : pc'[r] # "idle" => r \in held,
           \A r \in Requests : pc'[r] # "idle" => pc'[r] = pc[r] /\ on'[r] = on[r],
           spent' = spent, clicks' = clicks, plan' \in Targets \cup {Nobody}
    PROVE  PanelInv'
<1> USE DEF PanelInv, Keep
<1>1. Sent'
  BY DEF Sent
<1>2. Served'
  BY DEF Sent, Served, Unpaid
<1>3. \A t \in Targets : Orders(t)' \subseteq Orders(t)
  BY DEF Orders, Unpaid, Sent
<1> QED BY <1>1, <1>2, <1>3, NoNewOrder DEF Confirmed

(* A charge is that of an order.                                           *)
LEMMA SpendPanel ==
    ASSUME IInv, PanelInv, NEW r \in Requests, Charge(r) \/ ChargeLost(r),
           UNCHANGED <<does, asks, clicks, plan>>
    PROVE  PanelInv'
<1> USE DEF PanelInv, IInv, TypeOK
<1>1. /\ pc[r] = "cleared" /\ on[r] \in Targets /\ on' = on
      /\ spent' = [spent EXCEPT ![on[r]] = @ + 1]
  BY DEF Charge, ChargeLost, Spend, job, BusyHasTarget
<1>2. PICK l \in {"charged", "done"} : pc' = [pc EXCEPT ![r] = l]
  BY DEF Charge, ChargeLost, Goto
<1>3. Sent' /\ Served'
  BY <1>1, <1>2 DEF Sent, Served, Unpaid
<1>4. r \in Orders(on[r])
  BY <1>1 DEF Served, Orders, Unpaid
<1>5. ASSUME NEW t \in Targets
      PROVE  Orders(t)' = IF t = on[r] THEN Orders(t) \ {r} ELSE Orders(t)
  BY <1>1, <1>2, <1>4 DEF Orders, Unpaid
<1>6. ASSUME NEW t \in Targets
      PROVE  spent'[t] + Cardinality(Orders(t)') <= clicks'[t]
  <2>1. CASE t = on[r]
    <3>1. Cardinality(Orders(t)') = Cardinality(Orders(t)) - 1
      <4>1. Orders(t)' = Orders(t) \ {r} /\ r \in Orders(t)
        BY <1>4, <1>5, <2>1
      <4>2. Cardinality(Orders(t) \ {r}) = Cardinality(Orders(t)) - 1
        BY ONLY <4>1, OrdersAreFinite, FS_RemoveElement
      <4> QED BY ONLY <4>1, <4>2
    <3> QED BY <1>1, <2>1, <3>1, OrdersAreFinite DEF Confirmed, Sent
  <2>2. CASE t # on[r]
    BY <1>1, <1>5, <2>2, NoNewOrder
  <2> QED BY <2>1, <2>2
<1> QED BY <1>3, <1>6 DEF Confirmed

(* Any other step of a handler leaves it, at most, an order it was.        *)
LEMMA WorkPanel ==
    ASSUME IInv, PanelInv, NEW r \in Requests, NEW l, pc[r] # "idle",
           pc' = [pc EXCEPT ![r] = l], l # "open",
           l \in {"planned", "counted", "cleared"} => Unpaid(r) /\ does[r] = "subscribe",
           UNCHANGED <<on, spent, does, asks, clicks, plan>>
    PROVE  PanelInv'
<1> USE DEF PanelInv, IInv, TypeOK
<1>1. Sent' /\ Served'
  BY DEF Sent, Served, Unpaid
<1>2. \A t \in Targets : Orders(t)' \subseteq Orders(t)
  BY DEF Orders, Unpaid
<1> QED BY <1>1, <1>2, NoNewOrder DEF Confirmed

LEMMA NextPanel == IInv /\ PanelInv /\ [PanelNext]_<<vars, panel>> => PanelInv'
<1> SUFFICES ASSUME IInv, PanelInv, [PanelNext]_<<vars, panel>> PROVE PanelInv'
  OBVIOUS
<1>0. plan \in Targets \cup {Nobody} /\ asks \in [Requests -> Targets \cup {Nobody}]
  BY DEF PanelInv, Sent
<1>1. ASSUME NEW t \in Targets, Preview(t) PROVE PanelInv'
  BY <1>1, SendPanel DEF Preview, notes
<1>2. CASE Confirm
  BY <1>0, <1>2, SendPanel DEF Confirm, Confirmable
<1>3. ASSUME NEW t \in Targets, NEW s \in {"paused", "deleted"}, Change(t, s) PROVE PanelInv'
  BY <1>0, <1>3, SendPanel DEF Change, notes
<1>4. ASSUME NEW r \in Requests, Serve(r) PROVE PanelInv'
  <2>0. UNCHANGED <<plan, clicks>>
    BY <1>4 DEF Serve
  <2>1. ASSUME UNCHANGED <<does, asks>>, Planned(r) PROVE PanelInv'
    <3>1. pc[r] = "open" /\ UNCHANGED <<on, spent>>
      BY <2>1 DEF Planned, Plan
    <3>2. PICK l \in {"done", "planned"} : pc' = [pc EXCEPT ![r] = l]
      BY <2>1 DEF Planned, Plan, Goto
    <3>3. l = "planned" => does[r] = "subscribe"
      BY <2>1, <3>2 DEF Planned, IInv, TypeOK
    <3> QED BY <2>0, <2>1, <3>1, <3>2, <3>3, WorkPanel DEF Unpaid
  <2>2. ASSUME UNCHANGED <<does, asks>>, Budgeted(r) PROVE PanelInv'
    <3>1. pc[r] \in {"planned", "counted"} /\ UNCHANGED <<on, spent>>
      BY <2>2 DEF Budgeted, CountDaily, CountMonthly, job
    <3>2. PICK l \in {"counted", "cleared", "done"} : pc' = [pc EXCEPT ![r] = l]
      BY <2>2 DEF Budgeted, CountDaily, CountMonthly, Goto
    <3>3. does[r] = "subscribe"
      BY <3>1 DEF PanelInv, Served, Unpaid
    <3> QED BY <2>0, <2>2, <3>1, <3>2, <3>3, WorkPanel DEF Unpaid
  <2>3. ASSUME UNCHANGED <<does, asks>>, Charged(r) PROVE PanelInv'
    <3>1. CASE Charge(r) \/ ChargeLost(r)
      BY <2>0, <2>3, <3>1, SpendPanel
    <3>2. CASE ChargeRefused(r)
      BY <2>0, <2>3, <3>2, WorkPanel DEF ChargeRefused, Goto, job
    <3> QED BY <2>3, <3>1, <3>2 DEF Charged
  <2>4. ASSUME UNCHANGED <<does, asks>>, Recorded(r) PROVE PanelInv'
    <3>1. pc[r] = "charged" /\ UNCHANGED <<on, spent>>
      BY <2>4 DEF Recorded, Insert, InsertRefused, job
    <3>2. PICK l \in {"inserted", "failed"} : pc' = [pc EXCEPT ![r] = l]
      BY <2>4 DEF Recorded, Insert, InsertRefused, Goto
    <3> QED BY <2>0, <2>4, <3>1, <3>2, WorkPanel
  <2>5. ASSUME UNCHANGED <<does, asks>>, Changed(r) PROVE PanelInv'
    <3>1. pc[r] = "open" /\ pc' = [pc EXCEPT ![r] = "done"] /\ UNCHANGED <<on, spent>>
      BY <2>5 DEF Changed, SetStatus, StatusNotFound, Goto, job
    <3> QED BY <2>0, <2>5, <3>1, WorkPanel
  <2>6. ASSUME Ended(r) PROVE PanelInv'
    <3>1. /\ pc' = [pc EXCEPT ![r] = "idle"] /\ on' = [on EXCEPT ![r] = Nobody]
          /\ spent' = spent
      BY <2>6 DEF Ended, Finish, Rollback, End, Goto
    <3>2. Keep({k \in Requests : k \in waiting \/ (k # r /\ pc[k] # "idle")})
      BY <2>6 DEF Ended
    <3>3. \A k \in Requests : pc'[k] # "idle" =>
             k # r /\ pc'[k] = pc[k] /\ on'[k] = on[k] /\ pc[k] # "idle"
      BY <3>1 DEF IInv, TypeOK
    <3> QED BY <1>0, <2>0, <3>1, <3>2, <3>3, KeepPanel
  <2> QED BY <1>4, <2>1, <2>2, <2>3, <2>4, <2>5, <2>6 DEF Serve
<1>5. ASSUME NEW r \in Requests, Forget(r), plan' \in Targets \cup {Nobody}, clicks' = clicks
      PROVE  PanelInv'
  <2>1. Keep({k \in Requests : k \in waiting \ {r} \/ pc[k] # "idle"})
    BY <1>5 DEF Forget
  <2>2. UNCHANGED <<pc, on, spent>>
    BY <1>5 DEF Forget, vars
  <2> QED BY <1>5, <2>1, <2>2, KeepPanel
<1>6. ASSUME NEW r \in Requests, Receive(r) PROVE PanelInv'
  <2>1. plan' \in Targets \cup {Nobody}
    <3>1. CASE ReceivePlan(r)
      BY <1>0, <3>1 DEF ReceivePlan
    <3>2. CASE ReceiveResult(r) \/ ReceiveChange(r)
      BY <1>0, <3>2 DEF ReceiveResult, ReceiveChange
    <3> QED BY <1>6, <3>1, <3>2 DEF Receive
  <2> QED BY <1>5, <1>6, <2>1 DEF Receive
<1>7. ASSUME NEW r \in Requests, GiveUp(r) PROVE PanelInv'
  BY <1>0, <1>5, <1>7 DEF GiveUp
<1>8. ASSUME UNCHANGED <<vars, plan, wire, notes>> PROVE PanelInv'
  BY <1>8 DEF vars, wire, notes, PanelInv, Sent, Served, Confirmed, Orders, Unpaid
<1>9. ASSUME NEW l \in Loads, ReadList(l) \/ ShowList(l) PROVE PanelInv'
  BY <1>8, <1>9 DEF ReadList, ShowList
<1>10. CASE UNCHANGED <<vars, panel>>
  BY <1>8, <1>10 DEF panel
<1> QED BY <1>1, <1>2, <1>3, <1>4, <1>6, <1>7, <1>9, <1>10 DEF PanelNext

LEMMA PanelInvariant == PanelSpec => [](IInv /\ PanelInv)
<1>1. PanelInit => IInv /\ PanelInv
  BY InitInv, InitPanel DEF PanelInit
<1>2. IInv /\ PanelInv /\ [PanelNext]_<<vars, panel>> => (IInv /\ PanelInv)'
  BY StepInv, NextPanel, PanelStep DEF PanelInv
<1> QED BY <1>1, <1>2, PTL DEF PanelSpec

(* The page, with the handlers that serve it, behaves as MonitorSpend      *)
(* does: what is proved of the gate holds of every run of the page.        *)
THEOREM DrivesTheGate == PanelSpec => Spec
<1>1. PanelInit => Init
  BY DEF PanelInit
<1>2. PanelInv /\ [PanelNext]_<<vars, panel>> => [Next]_vars
  BY PanelStep DEF PanelInv
<1> QED BY <1>1, <1>2, PanelInvariant, PTL DEF PanelSpec, Spec

(* No credit is charged for a target beyond the user's confirmations.      *)
THEOREM ConfirmedSpend == PanelSpec => []EveryCreditConfirmed
<1>1. IInv /\ PanelInv => EveryCreditConfirmed
  <2> SUFFICES ASSUME IInv, PanelInv, NEW t \in Targets PROVE spent[t] <= clicks[t]
    BY DEF EveryCreditConfirmed
  <2> QED BY OrdersAreFinite DEF PanelInv, Confirmed, Sent, IInv, TypeOK
<1> QED BY <1>1, PanelInvariant, PTL

-----------------------------------------------------------------------------
(* What the page was told fits what it asked, and it asks to buy one       *)
(* target at a time.                                                       *)
AnswersFit ==
    /\ \A r \in Requests :
         /\ r \notin waiting => reply[r] = "none"
         /\ r \in waiting => does[r] # "none"
         /\ reply[r] = "created" => does[r] = "subscribe"
         /\ reply[r] = "ok" => does[r] \in {"paused", "deleted"}
         /\ pc[r] \notin {"idle", "open", "done"} => does[r] = "subscribe"
    /\ \A r, q \in waiting : does[r] = "subscribe" /\ does[q] = "subscribe" => r = q

(* A handler that wrote a row answers so, and "created" is answered by the *)
(* writer of the target's row before its commit and by a row after it.     *)
WritersTell ==
    /\ \A r \in Requests : pc[r] = "inserted" => writer[on[r]] = r
    /\ \A t \in Targets : writer[t] \in waiting => reply[writer[t]] \in {"created", "ok"}
    /\ \A r \in Requests : reply[r] = "created" =>
         \/ pc[r] = "inserted"
         \/ pc[r] = "idle" /\ asks[r] \in Targets /\ status[asks[r]] # "none"

(* On a calm page every handler has someone waiting, so only one buys; a   *)
(* credit charged has its row or the request that will insert it, and a    *)
(* target that is being bought has neither.                                *)
CalmRequest(r) ==
    /\ pc[r] # "idle" => r \in waiting
    /\ pc[r] # "failed"
    /\ pc[r] \in {"planned", "counted", "cleared"} => spent[on[r]] = 0
    /\ pc[r] \notin {"idle", "open", "done"} => status[on[r]] = "none"
CalmTarget(t) ==
    /\ status[t] # "deleted" /\ pending[t] # "deleted"
    /\ spent[t] # 0 =>
         /\ spent[t] = 1
         /\ status[t] # "none" \/ \E r \in Requests : Paying(r) /\ on[r] = t
CalmInv ==
    calm => (\A r \in Requests : CalmRequest(r)) /\ \A t \in Targets : CalmTarget(t)

(* While reads of the list do not overlap, a change of the ledger the list *)
(* does not show has its news under way, or the read that follows it.      *)
News == \E r \in waiting : pc[r] = "idle" /\ reply[r] \in {"created", "ok"}
Fresh(l) == loads[l].by # "none" /\ (loads[l].read => loads[l].rows = status)
Quiescent == \A l \in Loads : loads[l] = NoLoad
ListFollows ==
    /\ \A r \in Requests : pc[r] # "idle" => r \in waiting
    /\ \A l, k \in Loads : loads[l].by # "none" /\ loads[k].by # "none" => l = k
    /\ News \/ (\E l \in Loads : Fresh(l)) \/ (Quiescent /\ list \in {Unread, status})
OrderInv ==
    /\ \A l \in Loads : loads[l].by = "none" => loads[l] = NoLoad
    /\ inOrder => ListFollows

PageInv == PanelTypeOK /\ AnswersFit /\ WritersTell /\ CalmInv /\ OrderInv

-----------------------------------------------------------------------------
LEMMA InitPage == PanelInit => PageInv
<1> SUFFICES ASSUME PanelInit PROVE PageInv
  OBVIOUS
<1> USE NobodyAssumption DEF PanelInit, Init
<1>1. PanelTypeOK
  <2> DEFINE Row == [Targets -> {"none", "active", "paused", "deleted"}]
             Load == [by : {"none", "page", "subscribe"}, read : BOOLEAN, rows : Row]
  <2>1. Nothing \in Row
    BY DEF Nothing
  <2> HIDE DEF Row
  <2>2. NoLoad \in Load /\ [NoLoad EXCEPT !.by = "page"] \in Load
    BY <2>1 DEF NoLoad
  <2> HIDE DEF Load
  <2>3. loads \in [Loads -> Load]
    BY <2>2
  <2> USE DEF Row, Load
  <2> QED BY <2>3 DEF PanelTypeOK
<1>2. AnswersFit /\ WritersTell
  BY DEF AnswersFit, WritersTell
<1>3. CalmInv
  BY DEF CalmInv, CalmRequest, CalmTarget
<1>4. OrderInv
  <2>1. PICK l \in Loads : loads = [[k \in Loads |-> NoLoad] EXCEPT ![l].by = "page"]
    OBVIOUS
  <2>2. \A k \in Loads : k # l => loads[k] = NoLoad
    BY <2>1
  <2>3. loads[l].by = "page" /\ ~loads[l].read
    BY <2>1 DEF NoLoad
  <2>4. \A k \in Loads : loads[k].by # "none" => k = l
    BY <2>2 DEF NoLoad
  <2> QED BY <2>2, <2>3, <2>4 DEF OrderInv, ListFollows, Fresh
<1> QED BY <1>1, <1>2, <1>3, <1>4 DEF PageInv

(* A handler works on, to l, without charging or writing; a is its answer. *)
Works(r, l, a) ==
    /\ pc[r] \in {"open", "planned", "counted", "cleared", "charged"}
    /\ l \in {"planned", "counted", "cleared", "failed", "done"}
    /\ pc' = [pc EXCEPT ![r] = l]
    /\ l # "done" => does[r] = "subscribe"
    /\ l = "done" => pc[r] # "charged"
    /\ l = "planned" => pc[r] = "open" /\ status[on[r]] \in {"none", "deleted"}
    /\ l \in {"counted", "cleared"} => pc[r] \in {"planned", "counted"}
    /\ l = "failed" => pc[r] = "charged" /\ status[on[r]] # "none"
    /\ reply' = [reply EXCEPT ![r] = a]
    /\ a = reply[r] \/ (r \in waiting /\ a \in {"offered", "refused", "error"})
    /\ calm' = calm \/ calm' = FALSE
    /\ UNCHANGED <<status, writer, pending, on, spent, does, asks, waiting, list, plan,
                   loads, clicks, inOrder>>

LEMMA WorkPage ==
    ASSUME IInv, PanelInv, PageInv, NEW r \in Requests, NEW l, NEW a, Works(r, l, a)
    PROVE  PageInv'
<1> USE DEF PageInv, IInv, TypeOK, PanelTypeOK, Works
<1>0. a # "created" /\ \A t \in Targets : writer[t] # r
  <2>1. a # "created"
    BY DEF WritersTell
  <2>2. r # Nobody
    BY NobodyAssumption
  <2>3. pc[r] \notin {"inserted", "done"}
    OBVIOUS
  <2> QED BY ONLY WritersAreLive, <2>1, <2>2, <2>3 DEF WritersAreLive
<1>1. PanelTypeOK'
  BY DEF Unread, Nothing
<1>2. AnswersFit'
  BY <1>0 DEF AnswersFit
<1>3. WritersTell'
  BY <1>0 DEF WritersTell
<1>4. CalmInv'
  <2> SUFFICES ASSUME calm' PROVE (\A q \in Requests : CalmRequest(q)') /\ \A t \in Targets : CalmTarget(t)'
    BY DEF CalmInv
  <2>1. (\A q \in Requests : CalmRequest(q)) /\ \A t \in Targets : CalmTarget(t)
    BY DEF CalmInv
  <2>2. on[r] \in Targets /\ r \in waiting
    BY <2>1 DEF BusyHasTarget, CalmRequest
  <2>3. l # "failed"
    BY <2>1 DEF CalmRequest
  <2>4. ASSUME l = "planned" PROVE spent[on[r]] = 0 /\ status[on[r]] = "none"
    <3>1. status[on[r]] = "none"
      BY <2>1, <2>2, <2>4 DEF CalmTarget
    <3>2. ASSUME NEW q \in Requests, Paying(q), on[q] = on[r] PROVE FALSE
      <4>1. q \in waiting /\ does[q] = "subscribe"
        BY <2>1, <3>2 DEF CalmRequest, Paying, AnswersFit
      <4>2. q = r
        BY <2>2, <2>4, <4>1 DEF AnswersFit
      <4> QED BY <2>4, <3>2, <4>2 DEF Paying
    <3> QED BY <2>1, <2>2, <3>1, <3>2 DEF CalmTarget
  <2>5. ASSUME NEW q \in Requests PROVE CalmRequest(q)'
    <3>1. CASE q # r
      BY <2>1, <3>1 DEF CalmRequest
    <3>2. CASE q = r
      BY <2>1, <2>2, <2>3, <2>4, <3>2 DEF CalmRequest
    <3> QED BY <3>1, <3>2
  <2>6. ASSUME NEW t \in Targets PROVE CalmTarget(t)'
    BY <2>1, <2>3 DEF CalmTarget, Paying
  <2> QED BY <2>5, <2>6
<1>5. OrderInv'
  <2>1. News => News'
    BY DEF News
  <2> QED BY <2>1 DEF OrderInv, ListFollows, Fresh, Quiescent
<1> QED BY <1>1, <1>2, <1>3, <1>4, <1>5

(* A request leaves the page: its slot was free and wrote nothing.         *)
LEMMA SendPage ==
    ASSUME IInv, PanelInv, PageInv, NEW t \in Targets,
           NEW what \in {"preview", "subscribe", "paused", "deleted"}, Send(what, t),
           what = "subscribe" => ~Subscribing,
           plan' \in Targets \cup {Nobody}, clicks' \in [Targets -> Nat],
           UNCHANGED <<list, loads, calm, inOrder>>
    PROVE  PageInv'
<1> USE DEF PageInv, IInv, TypeOK, PanelTypeOK, ledger
<1>1. PICK r \in Requests :
        /\ does[r] = "none"
        /\ Begin(r, t)
        /\ does' = [does EXCEPT ![r] = what]
        /\ asks' = [asks EXCEPT ![r] = t]
        /\ reply' = [reply EXCEPT ![r] = "none"]
        /\ waiting' = waiting \cup {r}
  BY DEF Send
<1>2. /\ pc[r] = "idle" /\ pc' = [pc EXCEPT ![r] = "open"]
      /\ on' = [on EXCEPT ![r] = t]
      /\ UNCHANGED <<status, writer, pending, spent>>
  BY <1>1 DEF Begin, Goto
<1>3. r \notin waiting /\ \A u \in Targets : writer[u] # r
  <2>1. r \notin waiting
    BY <1>1 DEF AnswersFit
  <2>2. r # Nobody /\ pc[r] \notin {"inserted", "done"}
    BY <1>2, NobodyAssumption
  <2> QED BY ONLY WritersAreLive, <2>1, <2>2 DEF WritersAreLive
<1>4. PanelTypeOK'
  BY <1>1 DEF Unread, Nothing
<1>5. AnswersFit'
  <2>1. \A q \in waiting : what = "subscribe" => does[q] # "subscribe"
    BY DEF Subscribing
  <2> QED BY <1>1, <1>2, <1>3, <2>1 DEF AnswersFit
<1>6. WritersTell'
  BY <1>1, <1>2, <1>3 DEF WritersTell
<1>7. CalmInv'
  <2>1. ASSUME NEW q \in Requests, CalmRequest(q) PROVE CalmRequest(q)'
    BY <1>1, <1>2, <2>1 DEF CalmRequest
  <2>2. ASSUME NEW u \in Targets, CalmTarget(u) PROVE CalmTarget(u)'
    BY <1>1, <1>2, <2>2 DEF CalmTarget, Paying
  <2> QED BY <2>1, <2>2 DEF CalmInv
<1>8. OrderInv'
  <2>1. News => News'
    BY <1>1, <1>2, <1>3 DEF News
  <2> QED BY <1>1, <1>2, <2>1 DEF OrderInv, ListFollows, Fresh, Quiescent
<1> QED BY <1>4, <1>5, <1>6, <1>7, <1>8

(* A credit is charged, for a target no one on a calm page has paid for.   *)
LEMMA ChargePage ==
    ASSUME IInv, PanelInv, PageInv, NEW r \in Requests, Charged(r), ~ChargeRefused(r),
           UNCHANGED <<does, asks, waiting, list, plan, loads, clicks, inOrder>>
    PROVE  PageInv'
<1> USE DEF PageInv, IInv, TypeOK, PanelTypeOK
<1>1. /\ pc[r] = "cleared" /\ on[r] \in Targets /\ does[r] = "subscribe"
      /\ UNCHANGED <<status, writer, pending, on>>
      /\ spent' = [spent EXCEPT ![on[r]] = @ + 1]
  <2>1. pc[r] = "cleared"
    BY DEF Charged, Charge, ChargeLost
  <2> QED BY <2>1 DEF Charged, Charge, ChargeLost, Spend, ledger, job, BusyHasTarget, AnswersFit
<1>2. PICK l \in {"charged", "done"}, a \in {reply[r], "error"} :
        /\ pc' = [pc EXCEPT ![r] = l]
        /\ reply' = [reply EXCEPT ![r] = a]
        /\ a = reply[r] \/ (r \in waiting /\ a = "error")
        /\ calm' = IF l = "charged" THEN calm ELSE FALSE
  <2>1. CASE Charge(r) /\ UNCHANGED <<reply, calm>>
    <3>1. reply' = [reply EXCEPT ![r] = reply[r]]
      BY <2>1
    <3> QED BY <2>1, <3>1 DEF Charge, Goto
  <2>2. CASE ChargeLost(r) /\ Answer(r, "error") /\ calm' = FALSE
    BY <2>2 DEF ChargeLost, Goto, Answer
  <2> QED BY <2>1, <2>2 DEF Charged
<1>3. a # "created" /\ \A t \in Targets : writer[t] # r
  <2>1. a # "created"
    BY <1>1, <1>2 DEF WritersTell
  <2>2. r # Nobody /\ pc[r] \notin {"inserted", "done"}
    BY <1>1, NobodyAssumption
  <2> QED BY ONLY WritersAreLive, <2>1, <2>2 DEF WritersAreLive
<1>4. PanelTypeOK'
  BY <1>2 DEF Unread, Nothing
<1>5. AnswersFit'
  BY <1>1, <1>2, <1>3 DEF AnswersFit
<1>6. WritersTell'
  BY <1>1, <1>2, <1>3 DEF WritersTell
<1>7. CalmInv'
  <2> SUFFICES ASSUME calm' PROVE (\A q \in Requests : CalmRequest(q)') /\ \A t \in Targets : CalmTarget(t)'
    BY DEF CalmInv
  <2>1. (\A q \in Requests : CalmRequest(q)) /\ (\A t \in Targets : CalmTarget(t)) /\ l = "charged"
    BY <1>2 DEF CalmInv
  <2>2. r \in waiting /\ spent[on[r]] = 0 /\ status[on[r]] = "none"
    BY <1>1, <2>1 DEF CalmRequest
  <2>3. ASSUME NEW q \in Requests, q # r, pc[q] \in {"planned", "counted", "cleared"} PROVE FALSE
    <3>1. q \in waiting /\ does[q] = "subscribe"
      BY <2>1, <2>3 DEF CalmRequest, AnswersFit
    <3> QED BY <1>1, <2>2, <2>3, <3>1 DEF AnswersFit
  <2>4. ASSUME NEW q \in Requests PROVE CalmRequest(q)'
    BY <1>1, <1>2, <2>1, <2>2, <2>3 DEF CalmRequest
  <2>5. ASSUME NEW t \in Targets PROVE CalmTarget(t)'
    <3>1. CASE t = on[r]
      BY <1>1, <1>2, <2>1, <2>2, <3>1 DEF CalmTarget, Paying
    <3>2. CASE t # on[r]
      BY <1>1, <1>2, <2>1, <3>2 DEF CalmTarget, Paying
    <3> QED BY <3>1, <3>2
  <2> QED BY <2>4, <2>5
<1>8. OrderInv'
  <2>1. News => News'
    BY <1>1, <1>2 DEF News
  <2> QED BY <1>1, <1>2, <2>1 DEF OrderInv, ListFollows, Fresh, Quiescent
<1> QED BY <1>4, <1>5, <1>6, <1>7, <1>8

(* A row is written, not yet committed: by the insert of a new monitor, or *)
(* by an update of an old one.                                             *)
LEMMA WritePage ==
    ASSUME IInv, PanelInv, PageInv, NEW r \in Requests, NEW s \in {"active", "paused", "deleted"},
           NEW t, t = on[r],
           IF s = "active" THEN Insert(r) /\ Answer(r, "created")
                           ELSE does[r] = s /\ SetStatus(r, s) /\ Answer(r, "ok"),
           calm' = (calm /\ s # "deleted"),
           UNCHANGED <<does, asks, waiting, list, plan, loads, clicks, inOrder>>
    PROVE  PageInv'
<1> USE DEF PageInv, IInv, TypeOK, PanelTypeOK
<1>1. /\ pc[r] = (IF s = "active" THEN "charged" ELSE "open")
      /\ pc' = [pc EXCEPT ![r] = IF s = "active" THEN "inserted" ELSE "done"]
      /\ reply' = [reply EXCEPT ![r] = IF r \in waiting
                                       THEN IF s = "active" THEN "created" ELSE "ok" ELSE @]
      /\ writer[t] = Nobody
      /\ writer' = [writer EXCEPT ![t] = r]
      /\ pending' = [pending EXCEPT ![t] = s]
      /\ UNCHANGED <<status, on, spent>>
  BY DEF Insert, SetStatus, Goto, Answer, job
<1>2. t \in Targets /\ (IF s = "active" THEN does[r] = "subscribe" ELSE does[r] = s)
  BY <1>1 DEF BusyHasTarget, AnswersFit
<1>3. \A u \in Targets : writer[u] # r
  <2>1. r # Nobody /\ pc[r] \notin {"inserted", "done"}
    BY <1>1, NobodyAssumption
  <2> QED BY ONLY WritersAreLive, <2>1 DEF WritersAreLive
<1>4. PanelTypeOK'
  BY <1>1 DEF Unread, Nothing
<1>5. AnswersFit'
  BY <1>1, <1>2 DEF AnswersFit
<1>6. WritersTell'
  <2>1. ASSUME NEW q \in Requests, pc'[q] = "inserted" PROVE writer'[on'[q]] = q
    <3>1. CASE q = r
      BY <1>1, <1>2, <3>1
    <3>2. CASE q # r
      BY <1>1, <1>2, <2>1, <3>2, NobodyAssumption DEF WritersTell
    <3> QED BY <3>1, <3>2
  <2>2. ASSUME NEW u \in Targets, writer'[u] \in waiting
        PROVE  reply'[writer'[u]] \in {"created", "ok"}
    <3>1. CASE u = t
      BY <1>1, <1>2, <2>2, <3>1
    <3>2. CASE u # t
      BY <1>1, <1>3, <2>2, <3>2 DEF WritersTell
    <3> QED BY <3>1, <3>2
  <2>3. ASSUME NEW q \in Requests, reply'[q] = "created"
        PROVE  \/ pc'[q] = "inserted"
               \/ pc'[q] = "idle" /\ asks[q] \in Targets /\ status[asks[q]] # "none"
    <3>1. CASE q = r
      BY <1>1, <2>3, <3>1 DEF AnswersFit
    <3>2. CASE q # r
      BY <1>1, <2>3, <3>2 DEF WritersTell
    <3> QED BY <3>1, <3>2
  <2> QED BY <1>1, <2>1, <2>2, <2>3 DEF WritersTell
<1>7. CalmInv'
  <2>1. calm' => calm /\ s # "deleted"
    OBVIOUS
  <2>2. ASSUME NEW q \in Requests, CalmRequest(q) PROVE CalmRequest(q)'
    BY <1>1, <1>2, <2>2 DEF CalmRequest
  <2>3. ASSUME NEW u \in Targets, CalmTarget(u), s # "deleted" PROVE CalmTarget(u)'
    BY <1>1, <1>2, <2>3 DEF CalmTarget, Paying
  <2> QED BY <2>1, <2>2, <2>3 DEF CalmInv
<1>8. OrderInv'
  <2>1. News => News'
    BY <1>1 DEF News
  <2> QED BY <1>1, <2>1 DEF OrderInv, ListFollows, Fresh, Quiescent
<1> QED BY <1>4, <1>5, <1>6, <1>7, <1>8

(* Slots are forgotten only where nobody waits and no handler runs.        *)
LEMMA KeepFits ==
    ASSUME IInv, PageInv, NEW held, Keep(held), waiting' \subseteq waiting, waiting' \subseteq held,
           \A k \in Requests : pc'[k] # "idle" => k \in held /\ pc'[k] = pc[k],
           \A k \in Requests : reply'[k] \in {reply[k], "none", "error"},
           \A k \in Requests : k \notin waiting' => reply'[k] = "none"
    PROVE  /\ AnswersFit'
           /\ does' \in [Requests -> {"none", "preview", "subscribe", "paused", "deleted"}]
           /\ asks' \in [Requests -> Targets \cup {Nobody}]
           /\ \A k \in waiting' : asks'[k] = asks[k] /\ does'[k] = does[k]
<1> USE DEF PageInv, PanelTypeOK, Keep
<1>1. \A k \in held \cap Requests : asks'[k] = asks[k] /\ does'[k] = does[k]
  OBVIOUS
<1>2. /\ does' \in [Requests -> {"none", "preview", "subscribe", "paused", "deleted"}]
      /\ asks' \in [Requests -> Targets \cup {Nobody}]
  OBVIOUS
<1>3. AnswersFit'
  BY <1>1, <1>2 DEF AnswersFit
<1> QED BY <1>1, <1>2, <1>3

(* The end of a transaction, in its parts.                                 *)
Over(r) ==
    /\ writer' = [t \in Targets |-> IF writer[t] = r THEN Nobody ELSE writer[t]]
    /\ pending' = [t \in Targets |-> IF writer[t] = r THEN "none" ELSE pending[t]]
    /\ pc' = [pc EXCEPT ![r] = "idle"]
    /\ on' = [on EXCEPT ![r] = Nobody]
    /\ Keep({k \in Requests : k \in waiting \/ (k # r /\ pc[k] # "idle")})
    /\ UNCHANGED <<spent, waiting, list, plan, loads, clicks, inOrder>>

LEMMA EndIsOver ==
    ASSUME TypeOK, NEW r \in Requests, Ended(r), UNCHANGED <<list, plan, loads, clicks, inOrder>>
    PROVE  Over(r)
<1>1. End(r) /\ UNCHANGED spent
  BY DEF Ended, Finish, Rollback
<1>2. Keep({k \in Requests : k \in waiting \/ (k # r /\ pc[k] # "idle")}) /\ UNCHANGED waiting
  BY DEF Ended
<1>3. \A t \in Targets : t \in Writes(r) <=> writer[t] = r
  BY DEF Writes
<1> QED BY <1>1, <1>2, <1>3 DEF End, Over, Goto

(* A commit: what it wrote is committed and its answer is news.            *)
LEMMA CommitPage ==
    ASSUME IInv, PanelInv, PageInv, NEW r \in Requests, Finish(r), Over(r), UNCHANGED <<reply, calm>>
    PROVE  PageInv'
<1> USE DEF PageInv, IInv, TypeOK, PanelTypeOK, Over
<1>1. /\ pc[r] \in {"done", "inserted"}
      /\ status' = [t \in Targets |-> IF writer[t] = r THEN pending[t] ELSE status[t]]
  BY DEF Finish, Writes
<1> DEFINE held == {k \in Requests : k \in waiting \/ (k # r /\ pc[k] # "idle")}
<1>2. /\ AnswersFit'
      /\ does' \in [Requests -> {"none", "preview", "subscribe", "paused", "deleted"}]
      /\ asks' \in [Requests -> Targets \cup {Nobody}]
      /\ \A k \in waiting : asks'[k] = asks[k] /\ does'[k] = does[k]
  <2>1. \A k \in Requests : pc'[k] # "idle" => k \in held /\ pc'[k] = pc[k]
    OBVIOUS
  <2>2. waiting \subseteq held
    OBVIOUS
  <2>3. \A k \in Requests : k \notin waiting' => reply'[k] = "none"
    BY DEF AnswersFit
  <2>4. waiting' \subseteq waiting /\ waiting' \subseteq held
    BY <2>2
  <2> HIDE DEF held
  <2> QED BY <2>1, <2>3, <2>4, KeepFits DEF held
<1>3. ASSUME NEW t \in Targets, writer[t] = r
      PROVE  /\ on[r] = t /\ status'[t] = pending[t] /\ status'[t] # "none"
             /\ status[t] = "none" => pc[r] = "inserted"
             /\ r \in waiting => reply[r] \in {"created", "ok"}
  <2>1. writer[t] # Nobody
    BY <1>3, NobodyAssumption
  <2> QED BY <1>1, <1>3, <2>1 DEF WritersAreLive, WritersTell
<1>4. \A t \in Targets : writer[t] # r => status'[t] = status[t]
  BY <1>1
<1>5. \A t \in Targets : status[t] # "none" => status'[t] # "none"
  BY <1>3, <1>4
<1>6. PanelTypeOK'
  BY <1>2 DEF Unread, Nothing
<1>7. WritersTell'
  <2>1. ASSUME NEW q \in Requests, pc'[q] = "inserted" PROVE writer'[on'[q]] = q
    <3>1. q # r /\ pc[q] = "inserted" /\ on'[q] = on[q] /\ on[q] \in Targets
      BY <2>1 DEF BusyHasTarget
    <3> QED BY <3>1 DEF WritersTell
  <2>2. ASSUME NEW u \in Targets, writer'[u] \in waiting
        PROVE  reply'[writer'[u]] \in {"created", "ok"}
    <3>1. writer'[u] = writer[u]
      BY <2>2, NobodyAssumption
    <3> QED BY <2>2, <3>1 DEF WritersTell
  <2>3. ASSUME NEW q \in Requests, reply[q] = "created"
        PROVE  \/ pc'[q] = "inserted"
               \/ pc'[q] = "idle" /\ asks'[q] \in Targets /\ status'[asks'[q]] # "none"
    <3>1. q \in waiting /\ asks'[q] = asks[q]
      BY <1>2, <2>3 DEF AnswersFit
    <3>2. CASE q = r
      <4>1. pc[r] = "inserted"
        BY <1>1, <2>3, <3>2 DEF WritersTell
      <4>2. writer[on[r]] = r /\ on[r] \in Targets
        BY <4>1 DEF WritersTell, BusyHasTarget
      <4>3. asks[r] = on[r]
        BY <4>1 DEF PanelInv, Served
      <4> QED BY <1>3, <3>1, <3>2, <4>2, <4>3
    <3>3. CASE q # r /\ pc[q] = "inserted"
      BY <3>3
    <3>4. CASE q # r /\ pc[q] = "idle" /\ asks[q] \in Targets /\ status[asks[q]] # "none"
      BY <1>5, <3>1, <3>4
    <3> QED BY <2>3, <3>2, <3>3, <3>4 DEF WritersTell
  <2> QED BY <2>1, <2>2, <2>3 DEF WritersTell
<1>8. CalmInv'
  <2> SUFFICES ASSUME calm PROVE (\A q \in Requests : CalmRequest(q)') /\ \A t \in Targets : CalmTarget(t)'
    BY DEF CalmInv
  <2>1. (\A q \in Requests : CalmRequest(q)) /\ \A t \in Targets : CalmTarget(t)
    BY DEF CalmInv
  <2>2. r \in waiting
    BY <1>1, <2>1 DEF CalmRequest
  <2>3. ASSUME NEW q \in Requests PROVE CalmRequest(q)'
    <3>1. ASSUME q # r, pc[q] \notin {"idle", "open", "done"} PROVE status'[on[q]] = "none"
      <4>1. on[q] \in Targets /\ status[on[q]] = "none" /\ q \in waiting /\ does[q] = "subscribe"
        BY <2>1, <3>1 DEF CalmRequest, BusyHasTarget, AnswersFit
      <4>2. ASSUME writer[on[q]] = r PROVE FALSE
        <5>1. pc[r] = "inserted"
          BY <1>3, <4>1, <4>2
        <5>2. does[r] = "subscribe"
          BY <5>1 DEF AnswersFit
        <5> QED BY <2>2, <3>1, <4>1, <5>2 DEF AnswersFit
      <4> QED BY <1>4, <4>1, <4>2
    <3> QED BY <2>1, <3>1 DEF CalmRequest
  <2>4. ASSUME NEW t \in Targets PROVE CalmTarget(t)'
    <3>1. status'[t] # "deleted" /\ pending'[t] # "deleted"
      BY <1>1, <2>1 DEF CalmTarget
    <3>2. ASSUME spent[t] # 0
          PROVE  status'[t] # "none" \/ \E q \in Requests : Paying(q)' /\ on'[q] = t
      <4>1. CASE status[t] # "none"
        BY <1>5, <4>1
      <4>2. CASE status[t] = "none"
        <5>1. PICK q \in Requests : Paying(q) /\ on[q] = t
          BY <2>1, <3>2, <4>2 DEF CalmTarget
        <5>2. CASE q = r
          <6>1. writer[t] = r
            BY <1>1, <5>1, <5>2 DEF Paying, WritersTell
          <6> QED BY <1>3, <6>1
        <5>3. CASE q # r
          <6>1. Paying(q)' /\ on'[q] = t
            BY <5>1, <5>3 DEF Paying
          <6> QED BY <6>1
        <5> QED BY <5>2, <5>3
      <4> QED BY <4>1, <4>2
    <3> QED BY <2>1, <3>1, <3>2 DEF CalmTarget
  <2> QED BY <2>3, <2>4
<1>9. OrderInv'
  <2>1. News => News'
    BY DEF News
  <2>2. ASSUME inOrder, status' # status PROVE News'
    <3>1. PICK t \in Targets : writer[t] = r
      BY <1>1, <2>2
    <3>2. r \in waiting
      BY <1>1, <2>2 DEF OrderInv, ListFollows
    <3> QED BY <1>3, <3>1, <3>2 DEF News
  <2>3. \A q \in Requests : pc'[q] # "idle" => pc[q] # "idle"
    OBVIOUS
  <2>4. CASE status' = status
    BY <2>1, <2>3, <2>4 DEF OrderInv, ListFollows, Fresh, Quiescent
  <2>5. CASE status' # status
    BY <2>2, <2>3, <2>5 DEF OrderInv, ListFollows
  <2> QED BY <2>4, <2>5
<1> QED BY <1>2, <1>6, <1>7, <1>8, <1>9

(* A rollback: nothing is committed, and on a calm page nothing was paid.  *)
LEMMA RollbackPage ==
    ASSUME IInv, PanelInv, PageInv, NEW r \in Requests, pc[r] # "idle", Over(r), status' = status,
           NEW a, reply' = [reply EXCEPT ![r] = a],
           \/ a = reply[r] /\ pc[r] = "failed"
           \/ a = IF r \in waiting THEN "error" ELSE reply[r],
           calm' \in BOOLEAN, calm' => calm /\ pc[r] \notin {"charged", "inserted", "failed"}
    PROVE  PageInv'
<1> USE DEF PageInv, IInv, TypeOK, PanelTypeOK, Over
<1> DEFINE held == {k \in Requests : k \in waiting \/ (k # r /\ pc[k] # "idle")}
<1>1. a # "created" /\ a \in {reply[r], "error"} /\ (r \notin waiting => a = "none")
  BY DEF WritersTell, AnswersFit
<1>2. /\ AnswersFit'
      /\ does' \in [Requests -> {"none", "preview", "subscribe", "paused", "deleted"}]
      /\ asks' \in [Requests -> Targets \cup {Nobody}]
      /\ \A k \in waiting : asks'[k] = asks[k] /\ does'[k] = does[k]
  <2>1. \A k \in Requests : pc'[k] # "idle" => k \in held /\ pc'[k] = pc[k]
    OBVIOUS
  <2>2. waiting \subseteq held
    OBVIOUS
  <2>3. \A k \in Requests : k \notin waiting' => reply'[k] = "none"
    BY <1>1 DEF AnswersFit
  <2>4. waiting' \subseteq waiting /\ waiting' \subseteq held
    BY <2>2
  <2>5. \A k \in Requests : reply'[k] \in {reply[k], "none", "error"}
    BY <1>1
  <2> HIDE DEF held
  <2> QED BY <2>1, <2>3, <2>4, <2>5, KeepFits DEF held
<1>3. PanelTypeOK'
  BY <1>1, <1>2 DEF Unread, Nothing
<1>4. WritersTell'
  <2>1. ASSUME NEW q \in Requests, pc'[q] = "inserted" PROVE writer'[on'[q]] = q
    <3>1. q # r /\ pc[q] = "inserted" /\ on'[q] = on[q] /\ on[q] \in Targets
      BY <2>1 DEF BusyHasTarget
    <3> QED BY <3>1 DEF WritersTell
  <2>2. ASSUME NEW u \in Targets, writer'[u] \in waiting
        PROVE  reply'[writer'[u]] \in {"created", "ok"}
    <3>1. writer'[u] = writer[u] /\ writer[u] # r
      BY <2>2, NobodyAssumption
    <3> QED BY <2>2, <3>1 DEF WritersTell
  <2>3. ASSUME NEW q \in Requests, reply'[q] = "created"
        PROVE  \/ pc'[q] = "inserted"
               \/ pc'[q] = "idle" /\ asks'[q] \in Targets /\ status[asks'[q]] # "none"
    <3>1. q # r /\ reply[q] = "created"
      BY <1>1, <2>3
    <3>2. q \in waiting /\ asks'[q] = asks[q]
      BY <1>2, <3>1 DEF AnswersFit
    <3> QED BY <3>1, <3>2 DEF WritersTell
  <2> QED BY <2>1, <2>2, <2>3 DEF WritersTell
<1>5. CalmInv'
  <2> SUFFICES ASSUME calm' PROVE (\A q \in Requests : CalmRequest(q)') /\ \A t \in Targets : CalmTarget(t)'
    BY DEF CalmInv
  <2>1. (\A q \in Requests : CalmRequest(q)) /\ \A t \in Targets : CalmTarget(t)
    BY DEF CalmInv
  <2>2. ASSUME NEW q \in Requests PROVE CalmRequest(q)'
    BY <2>1 DEF CalmRequest
  <2>3. ASSUME NEW q \in Requests, NEW t \in Targets, Paying(q), on[q] = t
        PROVE  Paying(q)' /\ on'[q] = t
    <3>1. q # r
      BY <2>3 DEF Paying
    <3> QED BY <2>3, <3>1 DEF Paying
  <2>4. ASSUME NEW t \in Targets PROVE CalmTarget(t)'
    BY <2>1, <2>3 DEF CalmTarget
  <2> QED BY <2>2, <2>4
<1>6. OrderInv'
  <2>1. News => News'
    BY DEF News
  <2> QED BY <2>1 DEF OrderInv, ListFollows, Fresh, Quiescent
<1> QED BY <1>2, <1>3, <1>4, <1>5, <1>6

(* The page stops waiting: slots are forgotten, the ledger stays.          *)
LEMMA ForgetPage ==
    ASSUME IInv, PanelInv, PageInv, NEW r \in Requests, Forget(r), calm' \in BOOLEAN, calm' => calm,
           calm' => pc[r] = "idle"
    PROVE  /\ AnswersFit' /\ WritersTell' /\ CalmInv'
           /\ does' \in [Requests -> {"none", "preview", "subscribe", "paused", "deleted"}]
           /\ asks' \in [Requests -> Targets \cup {Nobody}]
           /\ reply' \in [Requests -> {"none", "error", "offered", "refused", "created", "ok"}]
           /\ waiting' \subseteq Requests
<1> USE DEF PageInv, IInv, TypeOK, PanelTypeOK
<1> DEFINE held == {k \in Requests : k \in waiting \ {r} \/ pc[k] # "idle"}
<1>1. /\ r \in waiting /\ waiting' = waiting \ {r} /\ reply' = [reply EXCEPT ![r] = "none"]
      /\ UNCHANGED <<pc, on, status, writer, pending, spent>> /\ Keep(held)
  BY DEF Forget, vars
<1>2. /\ AnswersFit'
      /\ does' \in [Requests -> {"none", "preview", "subscribe", "paused", "deleted"}]
      /\ asks' \in [Requests -> Targets \cup {Nobody}]
      /\ \A k \in waiting' : asks'[k] = asks[k] /\ does'[k] = does[k]
  <2>1. \A k \in Requests : pc'[k] # "idle" => k \in held /\ pc'[k] = pc[k]
    BY <1>1
  <2>2. waiting' \subseteq waiting /\ waiting' \subseteq held
    BY <1>1
  <2>3. \A k \in Requests : k \notin waiting' => reply'[k] = "none"
    BY <1>1 DEF AnswersFit
  <2>4. \A k \in Requests : reply'[k] \in {reply[k], "none", "error"}
    BY <1>1
  <2>5. Keep(held)
    BY <1>1
  <2> HIDE DEF held
  <2> QED BY <2>1, <2>2, <2>3, <2>4, <2>5, KeepFits
<1>3. WritersTell'
  <2>1. ASSUME NEW q \in Requests, reply'[q] = "created"
        PROVE  \/ pc'[q] = "inserted"
               \/ pc'[q] = "idle" /\ asks'[q] \in Targets /\ status'[asks'[q]] # "none"
    <3>1. q # r /\ reply[q] = "created"
      BY <1>1, <2>1
    <3>2. q \in waiting' /\ asks'[q] = asks[q]
      BY <1>1, <1>2, <3>1 DEF AnswersFit
    <3> QED BY <1>1, <3>1, <3>2 DEF WritersTell
  <2>2. ASSUME NEW t \in Targets, writer'[t] \in waiting'
        PROVE  reply'[writer'[t]] \in {"created", "ok"}
    BY <1>1, <2>2 DEF WritersTell
  <2> QED BY <1>1, <2>1, <2>2 DEF WritersTell
<1>4. CalmInv'
  <2>1. ASSUME calm', NEW q \in Requests, CalmRequest(q) PROVE CalmRequest(q)'
    BY <1>1, <2>1 DEF CalmRequest
  <2>2. ASSUME NEW t \in Targets, CalmTarget(t) PROVE CalmTarget(t)'
    BY <1>1, <2>2 DEF CalmTarget, Paying
  <2> QED BY <2>1, <2>2 DEF CalmInv
<1>5. /\ reply' \in [Requests -> {"none", "error", "offered", "refused", "created", "ok"}]
      /\ waiting' \subseteq Requests
  BY <1>1
<1> QED BY <1>2, <1>3, <1>4, <1>5

(* A read of the list starts.                                              *)
LEMMA ReloadReads ==
    ASSUME PageInv, NEW by \in {"page", "subscribe"}, Reload(by)
    PROVE  /\ loads' \in [Loads -> [by : {"none", "page", "subscribe"}, read : BOOLEAN,
                                    rows : [Targets -> {"none", "active", "paused", "deleted"}]]]
           /\ inOrder' \in BOOLEAN /\ (inOrder' => inOrder)
           /\ \A l \in Loads : loads'[l].by = "none" => loads'[l] = NoLoad
           /\ inOrder' => /\ \A l, k \in Loads : loads'[l].by # "none" /\ loads'[k].by # "none" => l = k
                          /\ \E l \in Loads : loads'[l].by # "none" /\ ~loads'[l].read
<1> USE DEF PageInv, PanelTypeOK
<1> DEFINE Row == [Targets -> {"none", "active", "paused", "deleted"}]
<1>1. PICK l \in Loads :
        /\ loads[l] = NoLoad
        /\ loads' = [loads EXCEPT ![l].by = by]
        /\ inOrder' = (inOrder /\ \A k \in Loads : loads[k] = NoLoad)
  BY DEF Reload
<1>2. loads \in [Loads -> [by : {"none", "page", "subscribe"}, read : BOOLEAN, rows : Row]]
  OBVIOUS
<1> HIDE DEF Row
<1>3. loads' \in [Loads -> [by : {"none", "page", "subscribe"}, read : BOOLEAN, rows : Row]]
  BY <1>1, <1>2
<1>4. \A k \in Loads : k # l => loads'[k] = loads[k]
  BY <1>1, <1>2
<1>5. loads'[l].by = by /\ ~loads'[l].read
  BY <1>1, <1>2 DEF NoLoad
<1>6. inOrder' => inOrder /\ \A k \in Loads : loads[k] = NoLoad
  BY <1>1
<1>7. NoLoad.by = "none"
  BY DEF NoLoad
<1>8. \A k \in Loads : loads'[k].by = "none" => loads'[k] = NoLoad
  BY <1>4, <1>5 DEF OrderInv
<1>9. inOrder' \in BOOLEAN
  BY <1>1
<1> USE DEF Row
<1> QED BY ONLY <1>3, <1>4, <1>5, <1>6, <1>7, <1>8, <1>9

(* An answer arrives: what it tells of the ledger has the list read again. *)
LEMMA ReceivePage ==
    ASSUME IInv, PanelInv, PageInv, NEW r \in Requests, Receive(r), plan' \in Targets \cup {Nobody}
    PROVE  PageInv'
<1> USE DEF PageInv
<1>1. /\ Forget(r) /\ pc[r] = "idle" /\ UNCHANGED <<list, clicks, calm>>
      /\ ReceivePlan(r) \/ ReceiveResult(r) \/ ReceiveChange(r)
  BY DEF Receive
<1>2. calm \in BOOLEAN /\ loads \in [Loads -> [by : {"none", "page", "subscribe"}, read : BOOLEAN,
           rows : [Targets -> {"none", "active", "paused", "deleted"}]]] /\ inOrder \in BOOLEAN
  BY DEF PanelTypeOK
<1>3. /\ AnswersFit' /\ WritersTell' /\ CalmInv'
      /\ does' \in [Requests -> {"none", "preview", "subscribe", "paused", "deleted"}]
      /\ asks' \in [Requests -> Targets \cup {Nobody}]
      /\ reply' \in [Requests -> {"none", "error", "offered", "refused", "created", "ok"}]
      /\ waiting' \subseteq Requests
  BY <1>1, <1>2, ForgetPage
<1>4. /\ UNCHANGED <<pc, status>> /\ waiting' = waiting \ {r}
      /\ reply' = [reply EXCEPT ![r] = "none"]
  BY <1>1 DEF Forget, vars
<1>5. reply \in [Requests -> {"none", "error", "offered", "refused", "created", "ok"}]
      /\ waiting \subseteq Requests
  BY DEF PanelTypeOK
<1>6. \A q \in Requests : pc'[q] # "idle" => pc[q] # "idle" /\ q # r
  BY <1>1, <1>4
<1>7. CASE UNCHANGED <<loads, inOrder>> /\ reply[r] \notin {"created", "ok"}
  <2>1. News => News'
    BY <1>4, <1>5, <1>7 DEF News
  <2>2. OrderInv'
    BY <1>1, <1>4, <1>6, <1>7, <2>1 DEF OrderInv, ListFollows, Fresh, Quiescent
  <2>3. PanelTypeOK'
    BY <1>1, <1>3, <1>7 DEF PanelTypeOK, Unread, Nothing
  <2> QED BY <1>3, <2>2, <2>3
<1>8. ASSUME NEW by \in {"page", "subscribe"}, Reload(by) PROVE PageInv'
  <2>1. OrderInv'
    BY <1>4, <1>6, <1>8, ReloadReads DEF OrderInv, ListFollows, Fresh
  <2>2. PanelTypeOK'
    BY <1>1, <1>3, <1>8, ReloadReads DEF PanelTypeOK, Unread, Nothing
  <2> QED BY <1>3, <2>1, <2>2
<1>9. CASE ReceivePlan(r)
  <2>1. reply[r] \notin {"created", "ok"}
    BY <1>9 DEF ReceivePlan, AnswersFit
  <2> QED BY <1>7, <1>9, <2>1 DEF ReceivePlan
<1>10. CASE ReceiveResult(r)
  <2>1. reply[r] # "ok"
    BY <1>10 DEF ReceiveResult, AnswersFit
  <2> QED BY <1>7, <1>8, <1>10, <2>1 DEF ReceiveResult
<1>11. CASE ReceiveChange(r)
  <2>1. reply[r] # "created"
    BY <1>11 DEF ReceiveChange, AnswersFit
  <2> QED BY <1>7, <1>8, <1>11, <2>1 DEF ReceiveChange
<1> QED BY <1>1, <1>9, <1>10, <1>11

LEMMA GiveUpPage ==
    ASSUME IInv, PanelInv, PageInv, NEW r \in Requests, GiveUp(r)
    PROVE  PageInv'
<1> USE DEF PageInv
<1>1. /\ Forget(r) /\ ~calm' /\ ~inOrder' /\ calm' \in BOOLEAN /\ inOrder' \in BOOLEAN
      /\ UNCHANGED <<list, plan, loads, clicks>>
  BY DEF GiveUp
<1>2. /\ AnswersFit' /\ WritersTell' /\ CalmInv'
      /\ does' \in [Requests -> {"none", "preview", "subscribe", "paused", "deleted"}]
      /\ asks' \in [Requests -> Targets \cup {Nobody}]
      /\ reply' \in [Requests -> {"none", "error", "offered", "refused", "created", "ok"}]
      /\ waiting' \subseteq Requests
  BY <1>1, ForgetPage
<1>3. PanelTypeOK'
  BY <1>1, <1>2 DEF PanelTypeOK, Unread, Nothing
<1>4. OrderInv'
  BY <1>1 DEF OrderInv
<1> QED BY <1>2, <1>3, <1>4

(* The list is read, which makes the read fresh, or it is shown.           *)
LEMMA ListPage ==
    ASSUME IInv, PanelInv, PageInv, NEW l \in Loads, ReadList(l) \/ ShowList(l)
    PROVE  PageInv'
<1> USE DEF PageInv
<1> DEFINE Row == [Targets -> {"none", "active", "paused", "deleted"}]
           Load == [by : {"none", "page", "subscribe"}, read : BOOLEAN, rows : Row]
<1>0. /\ loads[l].by # "none"
      /\ UNCHANGED <<vars, plan, wire, notes>>
  BY DEF ReadList, ShowList
<1>1. /\ loads[l].by # "none"
      /\ UNCHANGED <<status, pc, on, spent, writer, pending, plan, does, asks, reply, waiting,
                     clicks, calm, inOrder>>
  BY <1>0 DEF vars, wire, notes
<1>2. AnswersFit' /\ WritersTell' /\ CalmInv'
  BY <1>1 DEF AnswersFit, WritersTell, CalmInv, CalmRequest, CalmTarget, Paying
<1>3. loads \in [Loads -> Load] /\ list \in Row \cup {Unread} /\ status \in Row
  BY DEF PanelTypeOK, IInv, TypeOK
<1>4. News => News'
  BY <1>1 DEF News
<1>5. NoLoad.by = "none" /\ NoLoad \in Load
  <2>1. Nothing \in Row
    BY DEF Nothing
  <2> HIDE DEF Row
  <2> QED BY <2>1 DEF NoLoad
<1> HIDE DEF Row
<1>6. CASE ReadList(l)
  <2>1. ~loads[l].read /\ list' = list
        /\ loads' = [loads EXCEPT ![l] = [@ EXCEPT !.read = TRUE, !.rows = status]]
    BY <1>3, <1>6 DEF ReadList
  <2>2. loads'[l].by = loads[l].by /\ loads'[l].rows = status /\ loads'[l] \in Load
    BY <1>3, <2>1
  <2>3. \A k \in Loads : k # l => loads'[k] = loads[k]
    BY <1>3, <2>1
  <2>4. loads' \in [Loads -> Load]
    <3> HIDE DEF Load
    <3> QED BY <1>3, <2>1, <2>2
  <2>5. PanelTypeOK'
    <3> USE DEF Row
    <3> QED BY <1>1, <2>1, <2>4 DEF PanelTypeOK, Unread, Nothing
  <2>6. OrderInv'
    <3>1. \A k \in Loads : loads'[k].by = "none" => loads'[k] = NoLoad
      BY <1>1, <2>2, <2>3 DEF OrderInv
    <3>2. ASSUME inOrder, ListFollows PROVE ListFollows'
      <4>1. \A k, m \in Loads : loads'[k].by # "none" /\ loads'[m].by # "none" => k = m
        BY <1>1, <2>2, <2>3, <3>2 DEF ListFollows
      <4>2. loads'[l].by # "none" /\ loads'[l].rows = status'
        BY <1>1, <2>2
      <4>3. \A q \in Requests : pc'[q] # "idle" => q \in waiting'
        BY <1>1, <3>2 DEF ListFollows
      <4> QED BY ONLY <4>1, <4>2, <4>3, l \in Loads DEF ListFollows, Fresh
    <3> QED BY <1>1, <3>1, <3>2 DEF OrderInv
  <2> QED BY <1>2, <2>5, <2>6
<1>7. CASE ShowList(l)
  <2>1. /\ loads' = [loads EXCEPT ![l] = NoLoad]
        /\ (loads[l].read /\ list' = loads[l].rows) \/ list' = Unread
    BY <1>7 DEF ShowList
  <2>2. loads'[l] = NoLoad /\ \A k \in Loads : k # l => loads'[k] = loads[k]
    BY <1>3, <2>1
  <2>3. loads' \in [Loads -> Load] /\ list' \in Row \cup {Unread'}
    <3>1. loads' \in [Loads -> Load]
      <4> HIDE DEF Load
      <4> QED BY <1>3, <1>5, <2>1
    <3>2. list' \in Row \cup {Unread}
      BY <1>3, <2>1
    <3> QED BY <3>1, <3>2 DEF Unread
  <2>4. PanelTypeOK'
    <3> USE DEF Row
    <3> QED BY <1>1, <2>3 DEF PanelTypeOK
  <2>5. OrderInv'
    <3>1. \A k \in Loads : loads'[k].by = "none" => loads'[k] = NoLoad
      BY <2>2 DEF OrderInv
    <3>2. ASSUME inOrder, ListFollows PROVE ListFollows'
      <4>1. \A k \in Loads : k # l => loads[k] = NoLoad
        BY <1>1, <3>2 DEF ListFollows, OrderInv
      <4>2. Quiescent'
        BY <2>2, <4>1 DEF Quiescent
      <4>3. \A k, m \in Loads : loads'[k].by # "none" /\ loads'[m].by # "none" => k = m
        BY <1>5, <2>2, <4>1
      <4>4. News \/ Fresh(l)
        <5>1. ~Quiescent
          BY <1>1, <1>5 DEF Quiescent
        <5>2. \A k \in Loads : Fresh(k) => k = l
          BY <1>5, <4>1 DEF Fresh
        <5> QED BY <3>2, <5>1, <5>2 DEF ListFollows
      <4>5. Fresh(l) => list' \in {Unread', status'}
        BY <1>1, <2>1 DEF Fresh, Unread
      <4>6. \A q \in Requests : pc'[q] # "idle" => q \in waiting'
        BY <1>1, <3>2 DEF ListFollows
      <4> QED BY <1>4, <4>2, <4>3, <4>4, <4>5, <4>6 DEF ListFollows
    <3> QED BY <1>1, <3>1, <3>2 DEF OrderInv
  <2> QED BY <1>2, <2>4, <2>5
<1> QED BY <1>6, <1>7

(* What a handler does for the page, step by step.                         *)
LEMMA ServePage ==
    ASSUME IInv, PanelInv, PageInv, NEW r \in Requests, Serve(r)
    PROVE  PageInv'
<1>0. UNCHANGED <<list, plan, loads, clicks, inOrder>> /\ calm \in BOOLEAN /\ TypeOK
  BY DEF Serve, PageInv, PanelTypeOK, IInv
<1>1. reply' = [reply EXCEPT ![r] = reply[r]] <=> reply' = reply
  BY DEF PageInv, PanelTypeOK
<1>2. ASSUME UNCHANGED <<does, asks, waiting>>, Planned(r) PROVE PageInv'
  <2>1. pc[r] = "open" /\ UNCHANGED <<ledger, on, spent, calm>>
    BY <1>2 DEF Planned, Plan
  <2>2. pc'[r] \in {"done", "planned"} /\ pc' = [pc EXCEPT ![r] = pc'[r]]
    BY <1>0, <1>2 DEF Planned, Plan, Goto, TypeOK
  <2>3. pc'[r] = "planned" => does[r] = "subscribe" /\ status[on[r]] \in {"none", "deleted"}
    BY <1>0, <1>2 DEF Planned, Plan, Goto, TypeOK, Duplicate
  <2>4. PICK a : /\ reply' = [reply EXCEPT ![r] = a]
                 /\ a = reply[r] \/ (r \in waiting /\ a \in {"offered", "refused", "error"})
    <3>1. CASE reply' = reply
      BY <1>1, <3>1
    <3>2. CASE \E a \in {"offered", "refused", "error"} : Answer(r, a)
      BY <1>1, <3>2 DEF Answer
    <3> QED BY <1>2, <3>1, <3>2 DEF Planned
  <2>5. Works(r, pc'[r], a)
    BY <1>0, <1>2, <2>1, <2>2, <2>3, <2>4 DEF Works, ledger
  <2> QED BY <2>5, WorkPage
<1>3. ASSUME UNCHANGED <<does, asks, waiting>>, Budgeted(r) PROVE PageInv'
  <2>1. pc[r] \in {"planned", "counted"} /\ UNCHANGED <<ledger, on, spent, calm>>
    BY <1>3 DEF Budgeted, CountDaily, CountMonthly, job
  <2>2. pc'[r] \in {"counted", "cleared", "done"} /\ pc' = [pc EXCEPT ![r] = pc'[r]]
    BY <1>0, <1>3 DEF Budgeted, CountDaily, CountMonthly, Goto, TypeOK
  <2>3. does[r] = "subscribe"
    BY <2>1 DEF PageInv, AnswersFit
  <2>4. PICK a : /\ reply' = [reply EXCEPT ![r] = a]
                 /\ a = reply[r] \/ (r \in waiting /\ a \in {"offered", "refused", "error"})
    BY <1>1, <1>3 DEF Budgeted, Answer
  <2>5. Works(r, pc'[r], a)
    BY <1>0, <1>3, <2>1, <2>2, <2>3, <2>4 DEF Works, ledger
  <2> QED BY <2>5, WorkPage
<1>4. ASSUME UNCHANGED <<does, asks, waiting>>, Charged(r) PROVE PageInv'
  <2>1. CASE ChargeRefused(r)
    <3>1. pc[r] = "cleared" /\ pc' = [pc EXCEPT ![r] = "done"] /\ UNCHANGED <<ledger, on, spent>>
      BY <2>1 DEF ChargeRefused, Goto, job
    <3>2. \/ UNCHANGED <<reply, calm>>
          \/ Answer(r, "error") /\ calm' = FALSE
          \/ Answer(r, "error") /\ calm' = calm
      BY <1>4 DEF Charged
    <3>3. PICK a : /\ reply' = [reply EXCEPT ![r] = a]
                   /\ a = reply[r] \/ (r \in waiting /\ a \in {"offered", "refused", "error"})
      BY <1>1, <3>2 DEF Answer
    <3>4. calm' = calm \/ calm' = FALSE
      BY <3>2
    <3>5. Works(r, "done", a)
      BY <1>0, <1>4, <3>1, <3>3, <3>4 DEF Works, ledger
    <3> QED BY <3>5, WorkPage
  <2>2. CASE ~ChargeRefused(r)
    BY <1>0, <1>4, <2>2, ChargePage
  <2> QED BY <2>1, <2>2
<1>5. ASSUME UNCHANGED <<does, asks, waiting>>, Recorded(r) PROVE PageInv'
  <2>1. CASE Insert(r) /\ Answer(r, "created")
    <3>1. calm' = (calm /\ "active" # "deleted")
      BY <1>0, <1>5 DEF Recorded
    <3> QED BY <1>0, <1>5, <2>1, <3>1, WritePage
  <2>2. CASE InsertRefused(r) /\ Answer(r, "refused")
    <3>1. /\ pc[r] = "charged" /\ pc' = [pc EXCEPT ![r] = "failed"]
          /\ status[on[r]] # "none" /\ UNCHANGED <<ledger, on, spent>>
      BY <2>2 DEF InsertRefused, Goto, job
    <3>2. does[r] = "subscribe"
      BY <3>1 DEF PageInv, AnswersFit
    <3>3. PICK a : /\ reply' = [reply EXCEPT ![r] = a]
                   /\ a = reply[r] \/ (r \in waiting /\ a \in {"offered", "refused", "error"})
      BY <1>1, <2>2 DEF Answer
    <3>4. UNCHANGED calm
      BY <1>5 DEF Recorded
    <3>5. Works(r, "failed", a)
      BY <1>0, <1>5, <3>1, <3>2, <3>3, <3>4 DEF Works, ledger
    <3> QED BY <3>5, WorkPage
  <2> QED BY <1>5, <2>1, <2>2 DEF Recorded
<1>6. ASSUME UNCHANGED <<does, asks, waiting>>, Changed(r) PROVE PageInv'
  <2>1. CASE /\ SetStatus(r, does[r]) /\ Answer(r, "ok")
             /\ calm' = (calm /\ does[r] # "deleted")
    <3>1. does[r] \in {"paused", "deleted"}
      BY <1>6 DEF Changed
    <3> QED BY <1>0, <1>6, <2>1, <3>1, WritePage
  <2>2. CASE StatusNotFound(r) /\ Answer(r, "error") /\ UNCHANGED calm
    <3>1. pc[r] = "open" /\ pc' = [pc EXCEPT ![r] = "done"] /\ UNCHANGED <<ledger, on, spent>>
      BY <2>2 DEF StatusNotFound, Goto, job
    <3>2. PICK a : /\ reply' = [reply EXCEPT ![r] = a]
                   /\ a = reply[r] \/ (r \in waiting /\ a \in {"offered", "refused", "error"})
      BY <1>1, <2>2 DEF Answer
    <3>3. Works(r, "done", a)
      BY <1>0, <1>6, <2>2, <3>1, <3>2 DEF Works, ledger
    <3> QED BY <3>3, WorkPage
  <2> QED BY <1>6, <2>1, <2>2 DEF Changed
<1>7. ASSUME Ended(r) PROVE PageInv'
  <2>1. Over(r)
    BY <1>0, <1>7, EndIsOver
  <2>2. CASE Finish(r) /\ UNCHANGED <<reply, calm>>
    BY <2>1, <2>2, CommitPage
  <2>3. CASE Rollback(r) /\ pc[r] = "failed" /\ UNCHANGED reply /\ calm' = FALSE
    <3>1. reply' = [reply EXCEPT ![r] = reply[r]] /\ pc[r] # "idle" /\ status' = status
      BY <1>1, <2>3 DEF Rollback
    <3> QED BY <2>1, <2>3, <3>1, RollbackPage
  <2>4. CASE /\ Rollback(r) /\ Answer(r, "error")
             /\ calm' = (calm /\ pc[r] \notin {"charged", "inserted", "failed"})
    <3>1. pc[r] # "idle" /\ status' = status
      BY <2>4 DEF Rollback
    <3>2. reply' = [reply EXCEPT ![r] = IF r \in waiting THEN "error" ELSE reply[r]]
      BY <2>4 DEF Answer
    <3> QED BY <1>0, <2>1, <2>4, <3>1, <3>2, RollbackPage
  <2> QED BY <1>7, <2>2, <2>3, <2>4 DEF Ended
<1> QED BY <1>2, <1>3, <1>4, <1>5, <1>6, <1>7 DEF Serve

LEMMA NextPage ==
    IInv /\ PanelInv /\ PageInv /\ PanelInv' /\ [PanelNext]_<<vars, panel>> => PageInv'
<1> SUFFICES ASSUME IInv, PanelInv, PageInv, PanelInv', [PanelNext]_<<vars, panel>> PROVE PageInv'
  OBVIOUS
<1>0. /\ plan' \in Targets \cup {Nobody} /\ clicks' \in [Targets -> Nat]
      /\ plan \in Targets \cup {Nobody} /\ does \in [Requests -> {"none", "preview", "subscribe", "paused", "deleted"}]
  BY DEF PanelInv, Sent
<1>1. ASSUME NEW t \in Targets, Preview(t) PROVE PageInv'
  BY <1>0, <1>1, SendPage DEF Preview, notes
<1>2. CASE Confirm
  BY <1>0, <1>2, SendPage DEF Confirm, Confirmable
<1>3. ASSUME NEW t \in Targets, NEW s \in {"paused", "deleted"}, Change(t, s) PROVE PageInv'
  BY <1>0, <1>3, SendPage DEF Change, notes
<1>4. CASE UNCHANGED <<vars, panel>>
  <2>1. UNCHANGED <<status, pc, on, spent, writer, pending, list, plan, does, asks, reply, waiting,
                    loads, clicks, calm, inOrder>>
    BY <1>4 DEF vars, panel, wire, notes
  <2>2. PanelTypeOK'
    BY <2>1 DEF PageInv, PanelTypeOK, Unread, Nothing
  <2>3. AnswersFit' /\ WritersTell'
    BY <2>1 DEF PageInv, AnswersFit, WritersTell
  <2>4. CalmInv'
    BY <2>1 DEF PageInv, CalmInv, CalmRequest, CalmTarget, Paying
  <2>5. OrderInv'
    BY <2>1 DEF PageInv, OrderInv, ListFollows, News, Fresh, Quiescent, Unread
  <2> QED BY <2>2, <2>3, <2>4, <2>5 DEF PageInv
<1>5. ASSUME NEW r \in Requests, Receive(r) PROVE PageInv'
  BY <1>0, <1>5, ReceivePage
<1> QED BY <1>1, <1>2, <1>3, <1>4, <1>5, GiveUpPage, ServePage, ListPage DEF PanelNext

LEMMA PageInvariant == PanelSpec => [](IInv /\ PanelInv /\ PageInv)
<1>1. PanelInit => IInv /\ PanelInv /\ PageInv
  BY InitInv, InitPanel, InitPage DEF PanelInit
<1>2. IInv /\ PanelInv /\ PageInv /\ [PanelNext]_<<vars, panel>> => (IInv /\ PanelInv /\ PageInv)'
  BY StepInv, NextPanel, NextPage, PanelStep DEF PanelInv
<1> QED BY <1>1, <1>2, PTL DEF PanelSpec

(* Type correctness of the page, whose gate is type correct by TypeCorrect *)
(* and DrivesTheGate.                                                      *)
THEOREM PanelTypeCorrect == PanelSpec => []PanelTypeOK
BY PageInvariant, PTL DEF PageInv

(* A page that loses no answer and no charge and deletes nothing pays for  *)
(* a target once: planSubscribe refuses what has a row, and only one       *)
(* confirmation is under way between the charge and the row.               *)
THEOREM CalmPaysOnce == PanelSpec => []CalmPagePaysOnce
<1>1. IInv /\ PageInv => CalmPagePaysOnce
  BY DEF IInv, TypeOK, PageInv, CalmInv, CalmTarget, CalmPagePaysOnce
<1> QED BY <1>1, PageInvariant, PTL

(* An answer that says a monitor was created is given after the commit of  *)
(* its row: the page announces only what is there.                         *)
THEOREM CreatedMeansRow == PanelSpec => []CreatedIsTrue
<1>1. PageInv => CreatedIsTrue
  BY DEF PageInv, PanelTypeOK, WritersTell, CreatedIsTrue
<1> QED BY <1>1, PageInvariant, PTL

(* Once nothing is under way the list shown is the ledger's, or the read   *)
(* failed: every change is followed by a read begun after it, unless an    *)
(* answer was lost or two reads overlapped.                                *)
THEOREM ListCatchesUp == PanelSpec => []ListIsCurrent
<1>1. PageInv => ListIsCurrent
  BY DEF PageInv, OrderInv, ListFollows, News, Fresh, NoLoad, ListIsCurrent
<1> QED BY <1>1, PageInvariant, PTL
=============================================================================
