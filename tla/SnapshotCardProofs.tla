------------------------- MODULE SnapshotCardProofs -------------------------
(***************************************************************************)
(* Proofs about SnapshotCard, for any records, people, rows and bodies and *)
(* any number of fetches.  The invariant says that a fetch still wanted is *)
(* the last one of its hook and keeps it loading, and that a hook which is *)
(* not loading stands by the outcome of its last fetch.                    *)
(***************************************************************************)
EXTENDS SnapshotCard, FiniteSetTheorems, WellFoundedInduction, TLAPS

LiveIsLast ==
    \A f \in flights : f.live => asked[f.hook] = f.ask /\ loading[f.hook]

AskIsCurrent ==
    \A h \in Hooks \ due : asked[h] # Nothing /\ asked[h].key = company

OutcomeIsLast ==
    \A h \in Hooks :
        IF loading[h] THEN error[h] = Nothing
        ELSE /\ asked[h] # Nothing
             /\ IF error[h] # Nothing THEN error[h].ask = asked[h]
                ELSE value[h] # Nothing /\ value[h].ask = asked[h]

OpenIsInView == open # Nothing => Screen = "eligible"

IInv ==
    /\ TypeOK
    /\ LiveIsLast
    /\ AskIsCurrent
    /\ OutcomeIsLast
    /\ OpenIsInView

(* No fetch, failure or answer is the null value.                          *)
LEMMA NullIsApart ==
    /\ \A a \in Ask : a # Nothing
    /\ \A e \in Failure : e # Nothing
    /\ \A v \in Answer : v # Nothing
BY NothingAssumption

(* A fetch an effect makes is one, whatever the hook has made before.      *)
LEMMA NextAskType ==
    ASSUME TypeOK, NEW h \in Hooks
    PROVE  NextAsk(h) \in Ask /\ NextAsk(h).key = company
<1>1. Asked(h) \in Nat
  BY NullIsApart DEF TypeOK, Asked, Ask
<1> QED BY <1>1 DEF NextAsk, Ask, TypeOK

(* The initial state satisfies the invariant.                              *)
LEMMA InitInvariant == Init => IInv
BY DEF Init, IInv, TypeOK, LiveIsLast, AskIsCurrent, OutcomeIsLast, OpenIsInView,
       Hooks

(* Running the effects that are due keeps the invariant.                   *)
LEMMA RunEffectsInvariant ==
    ASSUME IInv, RunEffects
    PROVE  IInv'
<1> USE DEF IInv
<1>1. \A h \in Hooks : NextAsk(h) \in Ask /\ NextAsk(h).key = company
  BY NextAskType
<1>2. TypeOK'
  <2>1. flights' \subseteq [hook : Hooks, ask : Ask, live : BOOLEAN]
    <3>1. \A f \in flights : CleanUp(f) \in [hook : Hooks, ask : Ask, live : BOOLEAN]
      BY DEF TypeOK, CleanUp
    <3>2. \A h \in due : [hook |-> h, ask |-> NextAsk(h), live |-> TRUE]
                            \in [hook : Hooks, ask : Ask, live : BOOLEAN]
      BY <1>1 DEF TypeOK
    <3> QED BY <3>1, <3>2 DEF RunEffects
  <2>2. open' \in Persons \cup {Nothing}
    BY DEF RunEffects, TypeOK, Rerender
  <2>3. value' \in [Hooks -> Answer \cup {Nothing}]
    BY DEF RunEffects, TypeOK, Hooks
  <2> QED BY <1>1, <2>1, <2>2, <2>3 DEF RunEffects, TypeOK
<1>3. LiveIsLast'
  <2> SUFFICES ASSUME NEW f \in flights', f.live
               PROVE  asked'[f.hook] = f.ask /\ loading'[f.hook]
    BY DEF LiveIsLast
  <2>1. CASE \E g \in flights : f = CleanUp(g)
    <3>1. PICK g \in flights : f = CleanUp(g)
      BY <2>1
    <3>2. g \in [hook : Hooks, ask : Ask, live : BOOLEAN]
      BY DEF TypeOK
    <3>3. f = g /\ g.hook \notin due
      BY <3>1, <3>2 DEF CleanUp
    <3> QED BY <3>2, <3>3 DEF LiveIsLast, RunEffects
  <2>2. CASE \E h \in due : f = [hook |-> h, ask |-> NextAsk(h), live |-> TRUE]
    <3>1. PICK h \in due : f = [hook |-> h, ask |-> NextAsk(h), live |-> TRUE]
      BY <2>2
    <3>2. h \in Hooks /\ f.hook = h /\ f.ask = NextAsk(h)
      BY <3>1 DEF TypeOK
    <3> QED BY <3>1, <3>2 DEF RunEffects
  <2> QED BY <2>1, <2>2 DEF RunEffects
<1>4. AskIsCurrent'
  BY <1>1, NullIsApart DEF AskIsCurrent, RunEffects, TypeOK
<1>5. OutcomeIsLast'
  BY DEF OutcomeIsLast, RunEffects, TypeOK, Hooks
<1>6. OpenIsInView'
  BY DEF OpenIsInView, RunEffects, Rerender
<1> QED BY <1>2, <1>3, <1>4, <1>5, <1>6

(* What settling a fetch does to each hook: an outcome that is still       *)
(* wanted ends the loading of its hook and is of its last fetch; any other *)
(* changes nothing.                                                        *)
LEMMA SettleEffect ==
    ASSUME IInv, NEW f \in flights, Settle(f)
    PROVE  /\ f \in [hook : Hooks, ask : Ask, live : BOOLEAN]
           /\ error' \in [Hooks -> Failure \cup {Nothing}]
           /\ value' \in [Hooks -> Answer \cup {Nothing}]
           /\ loading' \in [Hooks -> BOOLEAN]
           /\ \A h \in Hooks : ~(f.live /\ f.hook = h) =>
                  /\ loading'[h] = loading[h]
                  /\ error'[h] = error[h]
                  /\ value'[h] = value[h]
           /\ f.live =>
                  /\ loading[f.hook] /\ ~loading'[f.hook]
                  /\ asked[f.hook] = f.ask /\ f.ask # Nothing
                  /\ IF error'[f.hook] # Nothing THEN error'[f.hook].ask = f.ask
                     ELSE value'[f.hook] # Nothing /\ value'[f.hook].ask = f.ask
<1> USE DEF IInv
<1>1. f \in [hook : Hooks, ask : Ask, live : BOOLEAN]
  BY DEF TypeOK
<1>2. CASE Ignore(f)
  BY <1>1, <1>2 DEF Ignore, TypeOK
<1>3. CASE Arrive(f)
  <2>1. PICK b \in Answers(f.hook) :
            value' = [value EXCEPT ![f.hook] = [ask |-> f.ask, body |-> b]]
    BY <1>3 DEF Arrive
  <2>2. [ask |-> f.ask, body |-> b] \in Answer
    BY <1>1, <2>1 DEF Answer, Answers
  <2>3. error[f.hook] = Nothing /\ loading[f.hook] /\ asked[f.hook] = f.ask
    BY <1>1, <1>3 DEF Arrive, LiveIsLast, OutcomeIsLast
  <2> QED BY <1>1, <1>3, <2>1, <2>2, <2>3, NullIsApart DEF Arrive, TypeOK
<1>4. CASE Fail(f)
  <2>1. PICK why \in {"unauthorized", "failed"} :
            error' = [error EXCEPT ![f.hook] = [ask |-> f.ask, why |-> why]]
    BY <1>4 DEF Fail
  <2>2. [ask |-> f.ask, why |-> why] \in Failure
    BY <1>1 DEF Failure
  <2>3. loading[f.hook] /\ asked[f.hook] = f.ask
    BY <1>1, <1>4 DEF Fail, LiveIsLast
  <2> QED BY <1>1, <1>4, <2>1, <2>2, <2>3, NullIsApart DEF Fail, TypeOK
<1> QED BY <1>2, <1>3, <1>4 DEF Settle

(* Settling a fetch keeps the invariant.                                   *)
LEMMA SettleInvariant ==
    ASSUME IInv, NEW f \in flights, Settle(f)
    PROVE  IInv'
<1> USE DEF IInv
<1>1. TypeOK'
  BY SettleEffect DEF Settle, Rerender, TypeOK
<1>2. LiveIsLast'
  <2> SUFFICES ASSUME NEW g \in flights', g.live
               PROVE  asked'[g.hook] = g.ask /\ loading'[g.hook]
    BY DEF LiveIsLast
  <2>1. g \in flights /\ g # f
    BY DEF Settle
  <2>2. /\ g \in [hook : Hooks, ask : Ask, live : BOOLEAN]
        /\ f \in [hook : Hooks, ask : Ask, live : BOOLEAN]
    BY <2>1 DEF TypeOK
  <2>3. ~(f.live /\ f.hook = g.hook)
    BY <2>1, <2>2 DEF LiveIsLast
  <2> QED BY <2>1, <2>2, <2>3, SettleEffect DEF LiveIsLast, Settle
<1>3. AskIsCurrent'
  BY DEF AskIsCurrent, Settle
<1>4. OutcomeIsLast'
  <2> SUFFICES ASSUME NEW h \in Hooks
               PROVE  IF loading'[h] THEN error'[h] = Nothing
                      ELSE /\ asked'[h] # Nothing
                           /\ IF error'[h] # Nothing THEN error'[h].ask = asked'[h]
                              ELSE value'[h] # Nothing /\ value'[h].ask = asked'[h]
    BY DEF OutcomeIsLast
  <2>1. asked' = asked
    BY DEF Settle
  <2>2. CASE f.live /\ f.hook = h
    BY <2>1, <2>2, SettleEffect
  <2>3. CASE ~(f.live /\ f.hook = h)
    BY <2>1, <2>3, SettleEffect DEF OutcomeIsLast
  <2> QED BY <2>2, <2>3
<1>5. OpenIsInView'
  BY DEF OpenIsInView, Settle, Rerender
<1> QED BY <1>1, <1>2, <1>3, <1>4, <1>5

(* Every step keeps the invariant.                                         *)
LEMMA NextInvariant == IInv /\ [Next]_vars => IInv'
<1> SUFFICES ASSUME IInv, [Next]_vars
             PROVE  IInv'
  OBVIOUS
<1> USE DEF IInv
<1>1. ASSUME NEW c \in Companies, Swap(c)
      PROVE  IInv'
  BY <1>1 DEF Swap, TypeOK, LiveIsLast, AskIsCurrent, OutcomeIsLast, OpenIsInView,
              Screen, Rendered
<1>2. ASSUME NEW h \in Hooks, Retrigger(h)
      PROVE  IInv'
  BY <1>2 DEF Retrigger, TypeOK, LiveIsLast, AskIsCurrent, OutcomeIsLast,
              OpenIsInView, Screen, Rendered
<1>3. CASE RunEffects
  BY <1>3, RunEffectsInvariant
<1>4. ASSUME NEW f \in flights, Settle(f)
      PROVE  IInv'
  BY <1>4, SettleInvariant
<1>5. ASSUME NEW p \in Persons, Click(p)
      PROVE  IInv'
  BY <1>5 DEF Click, TypeOK, LiveIsLast, AskIsCurrent, OutcomeIsLast, OpenIsInView,
              Screen, Rendered
<1>6. CASE Close
  BY <1>6 DEF Close, TypeOK, LiveIsLast, AskIsCurrent, OutcomeIsLast, OpenIsInView
<1>7. CASE UNCHANGED vars
  BY <1>7 DEF vars, TypeOK, LiveIsLast, AskIsCurrent, OutcomeIsLast, OpenIsInView,
              Screen, Rendered
<1> QED BY <1>1, <1>2, <1>3, <1>4, <1>5, <1>6, <1>7 DEF Next

LEMMA Invariance == Spec => []IInv
BY InitInvariant, NextInvariant, PTL DEF Spec

(* Every variable keeps its type.                                          *)
THEOREM TypeCorrect == Spec => []TypeOK
BY Invariance, PTL DEF IInv

(* A snapshot in view is that of the record under the card.                *)
THEOREM NoOtherCompany == Spec => []ShownIsCurrent
<1>1. IInv => ShownIsCurrent
  <2> SUFFICES ASSUME IInv, due = {}, Screen \in Views
               PROVE  value["snapshot"].ask.key = company
    BY DEF ShownIsCurrent
  <2>1. ~loading["snapshot"] /\ error["snapshot"] = Nothing
    BY DEF Screen, Views, Hooks
  <2>2. value["snapshot"].ask = asked["snapshot"]
    BY <2>1 DEF IInv, OutcomeIsLast, Hooks
  <2> QED BY <2>2 DEF IInv, AskIsCurrent, Hooks
<1> QED BY <1>1, Invariance, PTL

(* Evidence opened on one snapshot never stays open over another.          *)
THEOREM EvidenceCloses == Spec => OpenStaysOnItsSnapshot
<1> DEFINE Stays ==
        open # Nothing /\ open' = open => value'["snapshot"] = value["snapshot"]
<1>1. ASSUME IInv, [Next]_vars
      PROVE  Stays
  <2> SUFFICES ASSUME open # Nothing, open' = open
               PROVE  value'["snapshot"] = value["snapshot"]
    OBVIOUS
  <2>1. \A h \in Hooks : ~loading[h]
    BY <1>1 DEF IInv, OpenIsInView, Screen
  <2>2. ASSUME RunEffects
        PROVE  FALSE
    <3>1. \E h \in Hooks : loading'[h]
      BY <1>1, <2>2 DEF RunEffects, IInv, TypeOK
    <3>2. Screen' = "loading"
      BY <3>1 DEF Screen
    <3> QED BY <2>2, <3>2 DEF RunEffects, Rerender
  <2>3. ASSUME NEW f \in flights, Settle(f)
        PROVE  value'["snapshot"] = value["snapshot"]
    BY <1>1, <2>1, <2>3, SettleEffect DEF Hooks
  <2> QED BY <1>1, <2>2, <2>3 DEF Next, vars, Swap, Retrigger, Click, Close
<1>2. IInv /\ [Next]_vars => [Stays]_vars
  BY <1>1
<1> QED BY <1>2, Invariance, PTL DEF Spec, OpenStaysOnItsSnapshot

(* What a step does to the fetches a hook has asked for and stands by.     *)
LEMMA HookStep ==
    ASSUME IInv, [Next]_vars, NEW h \in Hooks
    PROVE  \/ UNCHANGED <<asked[h], Answered(h)>>
           \/ /\ asked'[h] = NextAsk(h)
              /\ Answered(h)' = Nothing
           \/ /\ Answered(h) = Nothing
              /\ asked[h] # Nothing
              /\ Answered(h)' = asked[h]
              /\ asked'[h] = asked[h]
<1> USE DEF IInv
<1>1. CASE RunEffects
  <2>1. CASE h \in due
    BY <1>1, <2>1 DEF RunEffects, Answered
  <2>2. CASE h \notin due
    BY <1>1, <2>2 DEF RunEffects, Answered, TypeOK, Hooks
  <2> QED BY <2>1, <2>2
<1>2. ASSUME NEW f \in flights, Settle(f)
      PROVE  \/ UNCHANGED <<asked[h], Answered(h)>>
             \/ /\ Answered(h) = Nothing
                /\ asked[h] # Nothing
                /\ Answered(h)' = asked[h]
                /\ asked'[h] = asked[h]
  <2>1. asked' = asked
    BY <1>2 DEF Settle
  <2>2. CASE f.live /\ f.hook = h
    BY <1>2, <2>1, <2>2, SettleEffect DEF Answered
  <2>3. CASE ~(f.live /\ f.hook = h)
    BY <1>2, <2>1, <2>3, SettleEffect DEF Answered
  <2> QED BY <2>2, <2>3
<1>3. CASE ~RunEffects /\ ~(\E f \in flights : Settle(f))
  BY <1>3 DEF Next, vars, Swap, Retrigger, Click, Close, Answered
<1> QED BY <1>1, <1>2, <1>3

(* The fetch an effect makes is the one the abstract hook asks for.        *)
LEMMA NextAskIsAsk ==
    ASSUME NEW h \in Hooks
    PROVE  NextAsk(h) =
             [no |-> IF asked[h] = Nothing THEN 1 ELSE asked[h].no + 1, key |-> company]
BY DEF NextAsk, Asked

(* useCompanyContext stands by its last fetch only.                        *)
LEMMA CompanyHookRefines == Spec => CompanyHook!Spec
<1>1. Init => CompanyHook!Init
  BY DEF Init, CompanyHook!Init, Answered, Hooks
<1>2. IInv /\ [Next]_vars => [CompanyHook!Next]_<<asked["company"], Answered("company")>>
  <2> SUFFICES ASSUME IInv, [Next]_vars
               PROVE  [CompanyHook!Next]_<<asked["company"], Answered("company")>>
    OBVIOUS
  <2>1. company \in Companies /\ "company" \in Hooks
    BY DEF IInv, TypeOK, Hooks
  <2> QED BY <2>1, HookStep, NextAskIsAsk
          DEF CompanyHook!Next, CompanyHook!Ask, CompanyHook!Settle
<1> QED BY <1>1, <1>2, Invariance, PTL DEF Spec, CompanyHook!Spec, CompanyHook!vars

(* useSnapshot stands by its last fetch only.                              *)
LEMMA SnapshotHookRefines == Spec => SnapshotHook!Spec
<1>1. Init => SnapshotHook!Init
  BY DEF Init, SnapshotHook!Init, Answered, Hooks
<1>2. IInv /\ [Next]_vars => [SnapshotHook!Next]_<<asked["snapshot"], Answered("snapshot")>>
  <2> SUFFICES ASSUME IInv, [Next]_vars
               PROVE  [SnapshotHook!Next]_<<asked["snapshot"], Answered("snapshot")>>
    OBVIOUS
  <2>1. company \in Companies /\ "snapshot" \in Hooks
    BY DEF IInv, TypeOK, Hooks
  <2> QED BY <2>1, HookStep, NextAskIsAsk
          DEF SnapshotHook!Next, SnapshotHook!Ask, SnapshotHook!Settle
<1> QED BY <1>1, <1>2, Invariance, PTL DEF Spec, SnapshotHook!Spec, SnapshotHook!vars

(* Each data hook of the card implements LatestAnswer, whatever swaps,     *)
(* refetches and late answers overlap.                                     *)
THEOREM HooksRefine == Spec => HooksAreLatest
BY CompanyHookRefines, SnapshotHookRefines DEF HooksAreLatest

-----------------------------------------------------------------------------
(* The drill-in                                                            *)

(* A set of places in a list has a first one.                              *)
LEMMA HasFirst ==
    ASSUME NEW n \in Nat, NEW S \in SUBSET (1..n), S # {}
    PROVE  \E i \in S : \A j \in S : i <= j
<1> DEFINE Before(i) == {j \in S : j < i}
           Befores == {Before(i) : i \in S}
<1>1. IsFiniteSet(S)
  BY FS_Interval, FS_Subset, 1 \in Int, n \in Int
<1>2. Befores \subseteq FiniteSubsetsOf(S)
  BY <1>1, FS_Subset DEF FiniteSubsetsOf
<1>3. Befores # {}
  OBVIOUS
<1>4. PICK A \in Befores : \A B \in Befores : <<B, A>> \notin StrictSubsetOrdering(S)
  BY <1>1, <1>2, <1>3, FS_StrictSubsetOrderingWellFounded, WFMin
<1>5. PICK i \in S : A = Before(i)
  BY <1>4
<1>6. ASSUME NEW j \in Before(i) PROVE FALSE
  <2>0. j \in S /\ j < i /\ i \in Int /\ \A k \in S : k \in Int
    BY <1>6, <1>5
  <2>1. Before(j) \subseteq Before(i)
    <3> SUFFICES ASSUME NEW k \in S, k < j PROVE k < i
      OBVIOUS
    <3> QED BY <2>0
  <2>2. j \notin Before(j)
    BY <2>0
  <2>3. <<Before(j), A>> \in StrictSubsetOrdering(S)
    BY <2>1, <2>2, <1>5, <1>6 DEF StrictSubsetOrdering
  <2> QED BY <2>3, <1>4, <1>6
<1> QED BY <1>6

(* The snapshot the card holds is a body the schema has let through.       *)
BodyIsParsed == value["snapshot"] # Nothing => value["snapshot"].body \in Bodies

LEMMA StepBody ==
    ASSUME IInv, BodyIsParsed, [Next]_vars
    PROVE  BodyIsParsed'
<1> USE DEF BodyIsParsed
<1>1. ASSUME NEW f \in flights, Settle(f)
      PROVE  BodyIsParsed'
  <2>1. f.hook \in Hooks
    BY <1>1, SettleEffect
  <2>2. CASE Arrive(f)
    <3>1. PICK b \in Answers(f.hook) :
              value' = [value EXCEPT ![f.hook] = [ask |-> f.ask, body |-> b]]
      BY <2>2 DEF Arrive
    <3> QED BY <2>1, <3>1 DEF Answers, IInv, TypeOK, Hooks
  <2>3. CASE Fail(f) \/ Ignore(f)
    BY <2>3 DEF Fail, Ignore
  <2> QED BY <1>1, <2>2, <2>3 DEF Settle
<1>2. CASE RunEffects
  BY <1>2 DEF RunEffects, IInv, TypeOK, Hooks
<1> QED BY <1>1, <1>2 DEF Next, vars, Swap, Retrigger, Click, Close

(* Evidence that is open is the first row the person refers to that the    *)
(* card may show, and no evidence is open when there is none: whatever the *)
(* snapshot says, and however it came.                                     *)
THEOREM ZeroLeak == Spec => []DrillInIsVisible
<1>1. IInv /\ BodyIsParsed => DrillInIsVisible
  <2> SUFFICES ASSUME IInv, BodyIsParsed, Screen = "eligible", open # Nothing
               PROVE  IF Visible(open) = {} THEN DrillIn = Nothing
                      ELSE \E i \in Visible(open) :
                               /\ DrillIn = Shown.refs[open][i]
                               /\ \A j \in Visible(open) : i <= j
    BY DEF DrillInIsVisible, Visible
  <2>1. Shown \in Body /\ "restricted" \notin Shown.flags
    BY BodiesAssumption DEF Screen, Rendered, Shown, BodyIsParsed
  <2>2. CASE Visible(open) = {}
    BY <2>2 DEF DrillIn
  <2>3. CASE Visible(open) # {}
    <3>1. Shown.refs[open] \in Seq(Rows)
      BY <2>1 DEF Body, IInv, TypeOK
    <3>2. \E i \in Visible(open) : \A j \in Visible(open) : i <= j
      <4>1. Visible(open) \in SUBSET (1..Len(Shown.refs[open]))
        BY <3>1 DEF Visible
      <4>2. Len(Shown.refs[open]) \in Nat
        BY <3>1
      <4> HIDE DEF Visible
      <4> QED BY <2>3, <4>1, <4>2, HasFirst
    <3> DEFINE first == CHOOSE i \in Visible(open) : \A j \in Visible(open) : i <= j
    <3>3. first \in Visible(open) /\ \A j \in Visible(open) : first <= j
      BY <3>2
    <3>4. Shown.evidence[Shown.refs[open][first]] = "open"
      BY <3>3 DEF Visible
    <3>5. DrillIn = Shown.refs[open][first]
      BY <2>1, <2>3, <3>4 DEF DrillIn
    <3> QED BY <2>3, <3>3, <3>5
  <2> QED BY <2>2, <2>3
<1>2. Init => BodyIsParsed
  BY DEF Init, BodyIsParsed, Hooks
<1> QED BY <1>1, <1>2, StepBody, Invariance, PTL DEF Spec
=============================================================================
