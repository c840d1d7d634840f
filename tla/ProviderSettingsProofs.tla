----------------------- MODULE ProviderSettingsProofs -----------------------
(* Proofs about ProviderSettings for any instances, saves, loads and keys, *)
(* and any TTL.                                                            *)
EXTENDS ProviderSettings, TLAPS

(* Saves and loads run on an instance, each through its own steps, and the *)
(* row is written by the one save between its upsert and its end.          *)
AgentsAreSound ==
    /\ \A s \in Saves : pc[s] \in {"idle", "merge", "upserted", "invalidated"}
    /\ \A q \in Loads : pc[q] \in {"idle", "select", "fetched"}
    /\ \A a \in Saves \cup Loads : pc[a] # "idle" => at[a] \in Instances
    /\ \A s \in Saves : pc[s] \in {"upserted", "invalidated"} <=> writer = s

(* The history knows the committed key, and nothing from the future.       *)
KeyIsCurrent ==
    /\ key \in DOMAIN current
    /\ current[key] = clock
    /\ \A k \in DOMAIN current : current[k] <= clock

(* What a load has fetched was committed after it took its clock, so what  *)
(* an entry holds was committed less than a TTL before its end.            *)
EntriesWereCurrent ==
    /\ \A q \in Loads : took[q] <= clock
    /\ \A q \in Loads : pc[q] = "fetched" =>
          val[q] \in DOMAIN current /\ took[q] <= current[val[q]]
    /\ \A i \in Instances : cache[i].until # 0 =>
          cache[i].key \in DOMAIN current
          /\ cache[i].until <= current[cache[i].key] + TTL

IInv ==
    /\ TypeOK
    /\ AgentsAreSound
    /\ KeyIsCurrent
    /\ EntriesWereCurrent

(* Where no load overlapped the end of a save, a save that has dropped the *)
(* entry finds none when it commits, and no load that could store one.     *)
EndsAreQuiet ==
    \A i \in Instances \ raced : Ending(i) => ~Loading(i) /\ ~Live(i)

(* So the instance of the last save holds, and is about to hold, its key.  *)
LastIsServed ==
    last # Nobody /\ last \notin raced =>
        /\ Live(last) => cache[last].key = key
        /\ \A q \in Loads : pc[q] = "fetched" /\ at[q] = last => val[q] = key

ServedInv == EndsAreQuiet /\ LastIsServed

(* Without overlap one save at most is under way: before its upsert it has *)
(* read the committed key, afterwards it holds the key it will leave.      *)
MergeIsExact ==
    ~overlap =>
        /\ key = chosen
        /\ \A r, s \in Saves : pc[r] # "idle" /\ pc[s] # "idle" => r = s
        /\ \A s \in Saves :
             /\ pc[s] = "merge" => val[s] = key
             /\ pc[s] \in {"upserted", "invalidated"} =>
                  val[s] = IF want[s] = Same THEN chosen ELSE want[s]

-----------------------------------------------------------------------------
LEMMA InitInv == Init => IInv /\ ServedInv /\ MergeIsExact
<1> SUFFICES ASSUME Init PROVE IInv /\ ServedInv /\ MergeIsExact
  OBVIOUS
<1> USE NobodyAssumption, AgentsAssumption DEF Init, Values, Miss
<1>1. TypeOK
  BY DEF TypeOK, Entry
<1>2. AgentsAreSound /\ KeyIsCurrent /\ EntriesWereCurrent
  BY DEF AgentsAreSound, KeyIsCurrent, EntriesWereCurrent
<1>3. ServedInv /\ MergeIsExact
  BY DEF ServedInv, EndsAreQuiet, LastIsServed, Ending, MergeIsExact
<1>4. QED
  BY <1>1, <1>2, <1>3 DEF IInv

LEMMA StepInv == IInv /\ [Next]_vars => IInv'
<1> SUFFICES ASSUME IInv, [Next]_vars PROVE IInv'
  OBVIOUS
<1> USE TTLAssumption, NobodyAssumption, AgentsAssumption
    DEF IInv, TypeOK, AgentsAreSound, KeyIsCurrent, EntriesWereCurrent, Values, Entry,
        Miss, Goto, Stamp, Leave, row, history
<1>1. CASE Tick
  BY <1>1 DEF Tick
<1>2. ASSUME NEW i \in Instances, Flush(i) PROVE IInv'
  BY <1>2 DEF Flush
<1>3. ASSUME NEW q \in Loads, NEW i \in Instances, Load(q, i) PROVE IInv'
  BY <1>3 DEF Load, Begin
<1>4. ASSUME NEW q \in Loads, Fetch(q) PROVE IInv'
  BY <1>4 DEF Fetch
<1>5. ASSUME NEW q \in Loads, Store(q) PROVE IInv'
  BY <1>5 DEF Store
<1>6. ASSUME NEW q \in Loads, FailLoad(q) PROVE IInv'
  BY <1>6 DEF FailLoad
<1>7. ASSUME NEW s \in Saves, NEW i \in Instances, NEW w \in Values \cup {Same},
             ReadRow(s, i, w)
      PROVE  IInv'
  BY <1>7 DEF ReadRow
<1>8. ASSUME NEW s \in Saves, Upsert(s) PROVE IInv'
  BY <1>8 DEF Upsert, Merged
<1>9. ASSUME NEW s \in Saves, Invalidate(s) PROVE IInv'
  BY <1>9 DEF Invalidate
<1>10. ASSUME NEW s \in Saves, Commit(s) PROVE IInv'
  BY <1>10 DEF Commit
<1>11. ASSUME NEW s \in Saves, Rollback(s) PROVE IInv'
  BY <1>11 DEF Rollback
<1>12. CASE UNCHANGED vars
  BY <1>12 DEF vars
<1>13. QED
  BY <1>1, <1>2, <1>3, <1>4, <1>5, <1>6, <1>7, <1>8, <1>9, <1>10, <1>11, <1>12
     DEF Next, LoadStep, SaveStep

LEMMA ServedStep == IInv /\ ServedInv /\ [Next]_vars => ServedInv'
<1> SUFFICES ASSUME IInv, ServedInv, [Next]_vars PROVE ServedInv'
  OBVIOUS
<1> USE TTLAssumption, NobodyAssumption, AgentsAssumption
    DEF IInv, TypeOK, AgentsAreSound, ServedInv, EndsAreQuiet, LastIsServed, Ending,
        Loading, Live, Entry, Miss, Goto, Leave, row, history
<1>1. CASE Tick
  BY <1>1 DEF Tick
<1>2. ASSUME NEW i \in Instances, Flush(i) PROVE ServedInv'
  BY <1>2 DEF Flush
<1>3. ASSUME NEW q \in Loads, NEW i \in Instances, Load(q, i) PROVE ServedInv'
  BY <1>3 DEF Load, Begin
<1>4. ASSUME NEW q \in Loads, Fetch(q) PROVE ServedInv'
  BY <1>4 DEF Fetch
<1>5. ASSUME NEW q \in Loads, Store(q) PROVE ServedInv'
  BY <1>5 DEF Store
<1>6. ASSUME NEW q \in Loads, FailLoad(q) PROVE ServedInv'
  BY <1>6 DEF FailLoad
<1>7. ASSUME NEW s \in Saves, NEW i \in Instances, NEW w \in Values \cup {Same},
             ReadRow(s, i, w)
      PROVE  ServedInv'
  BY <1>7 DEF ReadRow
<1>8. ASSUME NEW s \in Saves, Upsert(s) PROVE ServedInv'
  BY <1>8 DEF Upsert
<1>9. ASSUME NEW s \in Saves, Invalidate(s) PROVE ServedInv'
  BY <1>9 DEF Invalidate
<1>10. ASSUME NEW s \in Saves, Commit(s) PROVE ServedInv'
  BY <1>10 DEF Commit
<1>11. ASSUME NEW s \in Saves, Rollback(s) PROVE ServedInv'
  BY <1>11 DEF Rollback
<1>12. CASE UNCHANGED vars
  BY <1>12 DEF vars
<1>13. QED
  BY <1>1, <1>2, <1>3, <1>4, <1>5, <1>6, <1>7, <1>8, <1>9, <1>10, <1>11, <1>12
     DEF Next, LoadStep, SaveStep

LEMMA MergeStep == IInv /\ MergeIsExact /\ [Next]_vars => MergeIsExact'
<1> SUFFICES ASSUME IInv, MergeIsExact, [Next]_vars PROVE MergeIsExact'
  OBVIOUS
<1> USE AgentsAssumption
    DEF IInv, TypeOK, AgentsAreSound, MergeIsExact, Goto, Leave, row, history
<1>1. CASE Tick
  BY <1>1 DEF Tick
<1>2. ASSUME NEW i \in Instances, Flush(i) PROVE MergeIsExact'
  BY <1>2 DEF Flush
<1>3. ASSUME NEW q \in Loads, LoadStep(q) PROVE MergeIsExact'
  BY <1>3 DEF LoadStep, Load, Begin, Fetch, Store, FailLoad
<1>4. ASSUME NEW s \in Saves, NEW i \in Instances, NEW w \in Values \cup {Same},
             ReadRow(s, i, w)
      PROVE  MergeIsExact'
  BY <1>4 DEF ReadRow
<1>5. ASSUME NEW s \in Saves, Upsert(s) PROVE MergeIsExact'
  BY <1>5 DEF Upsert, Merged
<1>6. ASSUME NEW s \in Saves, Invalidate(s) PROVE MergeIsExact'
  BY <1>6 DEF Invalidate
<1>7. ASSUME NEW s \in Saves, Commit(s) PROVE MergeIsExact'
  BY <1>7 DEF Commit
<1>8. ASSUME NEW s \in Saves, Rollback(s) PROVE MergeIsExact'
  BY <1>8 DEF Rollback
<1>9. CASE UNCHANGED vars
  BY <1>9 DEF vars
<1>10. QED
  BY <1>1, <1>2, <1>3, <1>4, <1>5, <1>6, <1>7, <1>8, <1>9 DEF Next, SaveStep

LEMMA Invariant == Spec => []IInv
BY InitInv, StepInv, PTL DEF Spec

(* Every reachable state is well typed.                                    *)
THEOREM TypeCorrect == Spec => []TypeOK
<1>1. IInv => TypeOK
  BY DEF IInv
<1>2. QED
  BY <1>1, Invariant, PTL

(* No instance ever serves an uncommitted key, nor one a TTL out of date.  *)
THEOREM BoundedStaleness == Spec => []CachedWasCurrent
<1>1. IInv => CachedWasCurrent
  BY TTLAssumption
     DEF IInv, TypeOK, Entry, EntriesWereCurrent, CachedWasCurrent, Live
<1>2. QED
  BY <1>1, Invariant, PTL

(* The instance of the last save serves its key, unless a load overlapped  *)
(* the gap between the invalidation and the commit.                        *)
THEOREM SavedIsServed == Spec => []SavedKeyIsServed
<1>1. ServedInv => SavedKeyIsServed
  BY DEF ServedInv, LastIsServed, SavedKeyIsServed
<1>2. QED
  BY <1>1, InitInv, ServedStep, Invariant, PTL DEF Spec

(* Saves that do not overlap never change a key they do not mention.       *)
THEOREM KeyIsKept == Spec => []SaveOfOtherFieldsKeepsKey
<1>1. MergeIsExact => SaveOfOtherFieldsKeepsKey
  BY DEF MergeIsExact, SaveOfOtherFieldsKeepsKey
<1>2. QED
  BY <1>1, InitInv, MergeStep, Invariant, PTL DEF Spec
=============================================================================
