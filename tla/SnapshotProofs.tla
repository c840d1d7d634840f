--------------------------- MODULE SnapshotProofs ---------------------------
(* Proofs about the gate of a snapshot (Eligibility), for any checks,      *)
(* properties and TTL, and about the request behind it (Snapshot), for any *)
(* setups, answers, signals and thresholds.                                *)
EXTENDS Eligibility, Snapshot, FiniteSetTheorems, FunctionTheorems,
        WellFoundedInduction, SequenceTheorems, TLAPS

-----------------------------------------------------------------------------
(* The gate                                                                *)

(* The history is up to date and knows nothing of the future, and no check *)
(* began in it.                                                            *)
HistoryIsCurrent ==
    /\ \A p \in Properties : lastTarget[p] <= now /\ lastNamed[p] <= now
    /\ \A p \in Properties : target[p] => lastTarget[p] = now
    /\ lastNamed[configured] = now
    /\ \A c \in Checks : check[c].pc # "idle" => check[c].began <= now

(* An entry ends within a TTL of the time its content was last true at:    *)
(* its end counts from the start of the check that stored it, and what     *)
(* that check read it read later.                                          *)
EntriesWereTrue ==
    /\ nameCache # NotCached => lastNamed[nameCache.name] >= nameCache.until - Ttl
    /\ \A p \in Properties :
          cache[p] # NotCached /\ cache[p].verdict = "eligible" =>
              lastTarget[p] >= cache[p].until - Ttl

(* What a check has read itself held after it began.                       *)
ReadingsAreLater ==
    \A c \in Checks :
        /\ check[c].pc = "lookup" /\ check[c].read =>
              lastNamed[check[c].name] >= check[c].began
        /\ check[c].pc = "store" /\ check[c].verdict = "eligible" =>
              lastTarget[check[c].name] >= check[c].began

IInv ==
    /\ TypeOK
    /\ HistoryIsCurrent
    /\ EntriesWereTrue
    /\ ReadingsAreLater
    /\ EligibleRecently
    /\ NamedRecently

-----------------------------------------------------------------------------
LEMMA InitInv == Init => IInv
<1> SUFFICES ASSUME Init PROVE IInv
  OBVIOUS
<1> USE PropertiesAssumption, NotCachedAssumption, BoundsAssumption DEF Init, Idle
<1>1. TypeOK
  BY DEF TypeOK, Verdicts
<1>2. HistoryIsCurrent /\ EntriesWereTrue /\ ReadingsAreLater
  BY DEF HistoryIsCurrent, EntriesWereTrue, ReadingsAreLater
<1>3. EligibleRecently /\ NamedRecently
  BY DEF EligibleRecently, NamedRecently
<1>4. QED
  BY <1>1, <1>2, <1>3 DEF IInv

(* What the parts of the invariant say of one check, by its place.         *)
LEMMA CheckType ==
    ASSUME TypeOK, NEW c \in Checks
    PROVE  /\ check[c].pc \in {"idle", "resolve", "lookup", "ask", "store", "done"}
           /\ check[c].pc = "idle" => check[c] = Idle
           /\ check[c].pc # "idle" => check[c].began \in 0 .. MaxTime
           /\ check[c].pc \in {"lookup", "ask", "store", "done"} =>
                 check[c].name \in Properties
           /\ check[c].pc = "lookup" => check[c].read \in BOOLEAN
           /\ check[c].pc \in {"store", "done"} => check[c].verdict \in Verdicts
  BY DEF TypeOK, Idle

(* Whether or not the settings could be read, there is a name.             *)
LEMMA ResolvedName ==
    ASSUME TypeOK, NEW c \in Checks, Resolve(c)
    PROVE  \E name \in Properties, read \in BOOLEAN :
              /\ check' = [check EXCEPT ![c] =
                              [pc |-> "lookup", began |-> check[c].began,
                               name |-> name, read |-> read]]
              /\ \/ read /\ name = configured
                 \/ ~ read /\ name = DefaultProperty
  BY PropertiesAssumption DEF Resolve, Resolved, TypeOK

LEMMA StepType == TypeOK /\ [Next]_vars => TypeOK'
<1> SUFFICES ASSUME TypeOK, [Next]_vars PROVE TypeOK'
  OBVIOUS
<1> USE PropertiesAssumption, NotCachedAssumption, BoundsAssumption
    DEF TypeOK, tenant, Idle, Verdicts
<1>1. ASSUME NEW c \in Checks, Begin(c) PROVE TypeOK'
  BY <1>1 DEF Begin, Current
<1>2. ASSUME NEW c \in Checks, Resolve(c) PROVE TypeOK'
  <2>1. PICK name \in Properties, read \in BOOLEAN :
            check' = [check EXCEPT ![c] =
                         [pc |-> "lookup", began |-> check[c].began,
                          name |-> name, read |-> read]]
    BY <1>2, ResolvedName
  <2>2. check[c].began \in 0 .. MaxTime
    BY <1>2, CheckType DEF Resolve
  <2>3. QED
    BY <1>2, <2>1, <2>2 DEF Resolve
<1>3. ASSUME NEW c \in Checks, Lookup(c) PROVE TypeOK'
  BY <1>3, CheckType DEF Lookup, Decided, Expiry, Current
<1>4. ASSUME NEW c \in Checks, Ask(c) PROVE TypeOK'
  BY <1>4, CheckType DEF Ask, Decided
<1>5. ASSUME NEW c \in Checks, Store(c) PROVE TypeOK'
  BY <1>5, CheckType DEF Store, Expiry
<1>6. ASSUME NEW c \in Checks, Return(c) PROVE TypeOK'
  BY <1>6 DEF Return
<1>7. ASSUME NEW p \in Properties, Retarget(p) PROVE TypeOK'
  BY <1>7 DEF Retarget
<1>8. ASSUME NEW p \in Properties, Rename(p) PROVE TypeOK'
  BY <1>8 DEF Rename
<1>9. CASE Tick
  BY <1>9 DEF Tick
<1>10. CASE Restart
  BY <1>10 DEF Restart
<1>11. CASE UNCHANGED vars
  BY <1>11 DEF vars
<1>12. QED
  BY <1>1, <1>2, <1>3, <1>4, <1>5, <1>6, <1>7, <1>8, <1>9, <1>10, <1>11
     DEF Next

LEMMA StepInv == IInv /\ [Next]_vars => IInv'
<1> SUFFICES ASSUME IInv, [Next]_vars PROVE IInv'
  OBVIOUS
<1>0. TypeOK /\ TypeOK'
  BY StepType DEF IInv
<1> USE <1>0, CheckType, PropertiesAssumption, NotCachedAssumption, BoundsAssumption
    DEF IInv, HistoryIsCurrent, EntriesWereTrue, ReadingsAreLater,
        EligibleRecently, NamedRecently, tenant
<1>1. ASSUME NEW c \in Checks, Begin(c) PROVE IInv'
  BY <1>1 DEF Begin, Current, TypeOK
<1>2. ASSUME NEW c \in Checks, Resolve(c) PROVE IInv'
  <2>1. PICK name \in Properties, read \in BOOLEAN :
            /\ check' = [check EXCEPT ![c] =
                            [pc |-> "lookup", began |-> check[c].began,
                             name |-> name, read |-> read]]
            /\ \/ read /\ name = configured
               \/ ~ read /\ name = DefaultProperty
    BY <1>2, ResolvedName
  <2>2. \/ read /\ lastNamed[name] = now
        \/ ~ read /\ name = DefaultProperty
    BY <1>2, <2>1
  <2>3. check[c].began \in Nat /\ check[c].began <= now
    BY <1>2 DEF Resolve
  <2>4. \A d \in Checks : d # c => check'[d] = check[d]
    BY <2>1 DEF TypeOK
  <2>5. check'[c] = [pc |-> "lookup", began |-> check[c].began,
                     name |-> name, read |-> read]
    BY <2>1 DEF TypeOK
  <2>6. ReadingsAreLater'
    <3>1. ASSUME NEW d \in Checks
          PROVE  /\ check'[d].pc = "lookup" /\ check'[d].read =>
                       lastNamed[check'[d].name] >= check'[d].began
                 /\ check'[d].pc = "store" /\ check'[d].verdict = "eligible" =>
                       lastTarget[check'[d].name] >= check'[d].began
      <4>1. CASE d = c
        BY <2>2, <2>3, <2>5, <4>1
      <4>2. CASE d # c
        BY <2>4, <4>2
      <4>3. QED
        BY <4>1, <4>2
    <3>2. QED
      BY <1>2, <3>1 DEF Resolve
  <2>7. NamedRecently'
    <3>1. ASSUME NEW d \in Checks, check'[d].pc \notin {"idle", "resolve"}
          PROVE  \/ lastNamed[check'[d].name] > check'[d].began - Ttl
                 \/ check'[d].name = DefaultProperty
      <4>1. CASE d = c
        <5>1. now \in Int /\ Ttl > 0
          BY DEF TypeOK
        <5>2. check'[d].name = name /\ check'[d].began = check[c].began
          BY <2>5, <4>1
        <5>3. QED
          BY <2>2, <2>3, <5>1, <5>2
      <4>2. CASE d # c
        BY <2>4, <3>1, <4>2
      <4>3. QED
        BY <4>1, <4>2
    <3>2. QED
      BY <1>2, <3>1 DEF Resolve
  <2>8. (HistoryIsCurrent /\ EntriesWereTrue /\ EligibleRecently)'
    BY <1>2, <2>3, <2>4, <2>5 DEF Resolve
  <2>9. QED
    BY <2>6, <2>7, <2>8
<1>3. ASSUME NEW c \in Checks, Lookup(c) PROVE IInv'
  BY <1>3 DEF Lookup, Decided, Expiry, Current, TypeOK
<1>4. ASSUME NEW c \in Checks, Ask(c) PROVE IInv'
  BY <1>4 DEF Ask, Decided, TypeOK
<1>5. ASSUME NEW c \in Checks, Store(c) PROVE IInv'
  <2> DEFINE name == check[c].name
  <2>1. check[c].began \in Nat /\ name \in Properties
    BY <1>5 DEF Store
  <2>2. cache' = [cache EXCEPT ![name] = [verdict |-> check[c].verdict,
                                          until |-> check[c].began + Ttl]]
    BY <1>5 DEF Store, Expiry
  <2>3. check[c].verdict = "eligible" => lastTarget[name] >= check[c].began
    BY <1>5 DEF Store
  <2>4. ASSUME NEW p \in Properties,
               cache'[p] # NotCached, cache'[p].verdict = "eligible"
        PROVE  lastTarget[p] >= cache'[p].until - Ttl
    <3>1. CASE p = name
      <4>1. cache'[p] = [verdict |-> check[c].verdict,
                         until |-> check[c].began + Ttl]
        BY <2>1, <2>2, <3>1 DEF TypeOK
      <4>2. lastTarget[p] >= check[c].began
        BY <2>3, <2>4, <3>1, <4>1
      <4>3. QED
        BY <2>1, <4>1, <4>2 DEF TypeOK
    <3>2. CASE p # name
      <4>1. cache'[p] = cache[p]
        BY <2>2, <3>2 DEF TypeOK
      <4>2. QED
        BY <2>4, <4>1
    <3>3. QED
      BY <3>1, <3>2
  <2>5. EntriesWereTrue'
    BY <1>5, <2>4 DEF Store
  <2>6. ASSUME NEW d \in Checks
        PROVE  /\ check'[d].pc = IF d = c THEN "done" ELSE check[d].pc
               /\ d # c => check'[d] = check[d]
               /\ check'[c].began = check[c].began /\ check'[c].name = name
               /\ check'[c].verdict = check[c].verdict
    BY <1>5 DEF Store, TypeOK
  <2>7. (HistoryIsCurrent /\ ReadingsAreLater)'
    BY <1>5, <2>6 DEF Store
  <2>8. NamedRecently'
    BY <1>5, <2>6 DEF Store
  <2>9. EligibleRecently'
    <3>1. lastTarget[name] \in Int /\ Ttl > 0
      BY <2>1 DEF TypeOK
    <3>2. QED
      BY <1>5, <2>1, <2>3, <2>6, <3>1 DEF Store
  <2>10. QED
    BY <2>5, <2>7, <2>8, <2>9
<1>6. ASSUME NEW c \in Checks, Return(c) PROVE IInv'
  BY <1>6 DEF Return, TypeOK, Idle
<1>7. ASSUME NEW p \in Properties, Retarget(p) PROVE IInv'
  BY <1>7 DEF Retarget, TypeOK
<1>8. ASSUME NEW p \in Properties, Rename(p) PROVE IInv'
  BY <1>8 DEF Rename, TypeOK
<1>9. CASE Tick
  BY <1>9 DEF Tick, TypeOK
<1>10. CASE Restart
  BY <1>10 DEF Restart, TypeOK, Idle
<1>11. CASE UNCHANGED vars
  BY <1>11 DEF vars
<1>12. QED
  BY <1>1, <1>2, <1>3, <1>4, <1>5, <1>6, <1>7, <1>8, <1>9, <1>10, <1>11
     DEF Next

LEMMA Invariance == Spec => []IInv
<1> QED
  BY InitInv, StepInv, PTL DEF Spec

-----------------------------------------------------------------------------
(* Every reachable state is well typed.                                    *)
THEOREM TypeCorrect == Spec => []TypeOK
<1>1. IInv => TypeOK
  BY DEF IInv
<1> QED
  BY <1>1, Invariance, PTL

(* No check calls a company eligible that was not a target within the five *)
(* minutes before it began, however checks overlap.                        *)
THEOREM EligibilityIsRecent == Spec => []EligibleRecently
<1>1. IInv => EligibleRecently
  BY DEF IInv
<1> QED
  BY <1>1, Invariance, PTL

(* No check goes by a name that was neither configured within the five     *)
(* minutes before it began nor the default.                                *)
THEOREM NameIsRecent == Spec => []NamedRecently
<1>1. IInv => NamedRecently
  BY DEF IInv
<1> QED
  BY <1>1, Invariance, PTL

-----------------------------------------------------------------------------
(* Choosing a best element                                                 *)

(* A finite set has an element of which a measure is greatest.             *)
LEMMA FiniteHasBest ==
    ASSUME NEW S, IsFiniteSet(S), S # {}, NEW f \in [S -> Int]
    PROVE  \E x \in S : \A y \in S : f[x] >= f[y]
<1> DEFINE Above(x) == {y \in S : f[y] > f[x]}
<1>1. {Above(x) : x \in S} \subseteq FiniteSubsetsOf(S)
  BY FS_Subset DEF FiniteSubsetsOf
<1>2. {Above(x) : x \in S} # {}
  <2>1. PICK x \in S : TRUE
    OBVIOUS
  <2>2. Above(x) \in {Above(y) : y \in S}
    BY <2>1
  <2>3. QED
    BY <2>2
<1>3. PICK A \in {Above(x) : x \in S} :
          \A B \in {Above(x) : x \in S} : <<B, A>> \notin StrictSubsetOrdering(S)
  BY <1>1, <1>2, FS_StrictSubsetOrderingWellFounded, WFMin
<1>4. PICK x \in S : A = Above(x)
  BY <1>3
<1>5. ASSUME NEW y \in Above(x) PROVE FALSE
  <2>1. Above(y) \subseteq Above(x) /\ y \notin Above(y)
    BY <1>5
  <2>2. <<Above(y), A>> \in StrictSubsetOrdering(S)
    BY <2>1, <1>4, <1>5 DEF StrictSubsetOrdering
  <2>3. QED
    BY <2>2, <1>3, <1>5
<1>6. QED
  BY <1>5

(* ExtractDominantSignal's order has a first element in any finite pool of *)
(* positions, and so has PickDominant's.                                   *)
LEMMA PoolHasFirst ==
    ASSUME NEW rws, NEW pool, IsFiniteSet(pool), pool # {}, pool \subseteq Nat,
           \A i \in pool : rws[i].confidence \in Int /\ rws[i].age \in Int
    PROVE  /\ \E i \in pool : \A j \in pool : Precedes(rws, i, j)
           /\ \E i \in pool : \A j \in pool :
                 \/ rws[i].confidence > rws[j].confidence
                 \/ rws[i].confidence = rws[j].confidence /\ i <= j
<1>1. PICK a \in pool : \A j \in pool : rws[a].confidence >= rws[j].confidence
  <2> DEFINE f == [i \in pool |-> rws[i].confidence]
  <2>1. f \in [pool -> Int]
    OBVIOUS
  <2> HIDE DEF f
  <2>2. \E x \in pool : \A y \in pool : f[x] >= f[y]
    BY <2>1, FiniteHasBest
  <2>3. QED
    BY <2>2 DEF f
<1> DEFINE Surest == {i \in pool : rws[i].confidence = rws[a].confidence}
<1>2. IsFiniteSet(Surest) /\ a \in Surest
  BY FS_Subset
<1>3. PICK b \in Surest : \A j \in Surest : rws[b].age <= rws[j].age
  <2> DEFINE f == [i \in Surest |-> 0 - rws[i].age]
  <2>0. \A i \in Surest : 0 - rws[i].age \in Int
    OBVIOUS
  <2>1. f \in [Surest -> Int]
    BY <2>0
  <2> HIDE DEF f
  <2>2. Surest # {}
    BY <1>2
  <2> HIDE DEF Surest
  <2>3. \E x \in Surest : \A y \in Surest : f[x] >= f[y]
    BY <2>1, <2>2, <1>2, FiniteHasBest
  <2>4. QED
    BY <2>3 DEF f, Surest
<1> DEFINE Newest == {i \in Surest : rws[i].age = rws[b].age}
<1>4. ASSUME NEW T, T \subseteq pool, T # {}
      PROVE  \E i \in T : \A j \in T : i <= j
  <2> DEFINE f == [i \in T |-> 0 - i]
  <2>0. \A i \in T : i \in Int /\ 0 - i \in Int
    BY <1>4
  <2>1. f \in [T -> Int] /\ IsFiniteSet(T)
    BY <2>0, <1>4, FS_Subset
  <2> HIDE DEF f
  <2>2. \E x \in T : \A y \in T : f[x] >= f[y]
    BY <2>1, <1>4, FiniteHasBest
  <2>3. QED
    BY <2>0, <2>2 DEF f
<1>5. PICK c \in Newest : \A j \in Newest : c <= j
  BY <1>3, <1>4
<1>6. PICK d \in Surest : \A j \in Surest : d <= j
  BY <1>2, <1>4
<1>7. \A j \in pool : Precedes(rws, c, j)
  BY <1>1, <1>3, <1>5 DEF Precedes
<1>8. \A i \in pool : rws[i].confidence \in Int
  OBVIOUS
<1>9. \A j \in pool : \/ rws[d].confidence > rws[j].confidence
                      \/ rws[d].confidence = rws[j].confidence /\ d <= j
  BY <1>1, <1>6, <1>8
<1>10. QED
  BY <1>7, <1>9

-----------------------------------------------------------------------------
(* The strength of signals                                                 *)

(* Max and Min of a set that has them.                                     *)
LEMMA MaxOfFinite ==
    ASSUME NEW T, IsFiniteSet(T), T # {}, T \subseteq Int
    PROVE  Max(T) \in T /\ \A y \in T : Max(T) >= y
<1> DEFINE f == [x \in T |-> x]
<1>1. f \in [T -> Int]
  OBVIOUS
<1> HIDE DEF f
<1>2. \E x \in T : \A y \in T : f[x] >= f[y]
  BY <1>1, FiniteHasBest
<1>3. \E x \in T : \A y \in T : x >= y
  BY <1>2 DEF f
<1>4. QED
  BY <1>3 DEF Max

LEMMA MaxOfTwo ==
    ASSUME NEW a \in Int, NEW b \in Int
    PROVE  Max({a, b}) = IF a >= b THEN a ELSE b
<1>1. \E x \in {a, b} : \A y \in {a, b} : x >= y
  OBVIOUS
<1>2. Max({a, b}) \in {a, b} /\ \A y \in {a, b} : Max({a, b}) >= y
  BY <1>1 DEF Max
<1>3. QED
  BY <1>2

LEMMA MinOfTwo ==
    ASSUME NEW a \in Int, NEW b \in Int
    PROVE  Min({a, b}) = IF a <= b THEN a ELSE b
<1>1. \E x \in {a, b} : \A y \in {a, b} : x =< y
  OBVIOUS
<1>2. Min({a, b}) \in {a, b} /\ \A y \in {a, b} : Min({a, b}) =< y
  BY <1>1 DEF Min
<1>3. QED
  BY <1>2

(* The values a function takes on a finite set are finitely many.          *)
LEMMA ImageIsFinite ==
    ASSUME NEW S, IsFiniteSet(S), NEW T, NEW f \in [S -> T]
    PROVE  IsFiniteSet({f[x] : x \in S})
<1>1. f \in [S -> {f[x] : x \in S}]
  OBVIOUS
<1>2. f \in Surjection(S, {f[x] : x \in S})
  BY <1>1, Fun_IsSurj
<1>3. QED
  BY <1>2, FS_Surjection

LEMMA ProductIsNat == ASSUME NEW a \in Nat, NEW b \in Nat PROVE a * b \in Nat
OBVIOUS

LEMMA ProductGrows ==
    ASSUME NEW a \in Nat, NEW b \in Int, NEW c \in Int, b <= c
    PROVE  a * b <= a * c
<1>1. PICK d \in Nat : c = b + d
  <2>1. c - b \in Nat /\ c = b + (c - b)
    OBVIOUS
  <2>2. QED
    BY <2>1
<1>2. a * c = a * b + a * d
  BY <1>1
<1>3. a * d \in Nat /\ a * b \in Int
  BY ProductIsNat
<1>4. QED
  BY <1>2, <1>3

(* What is asked of a ranking and of the decay it leads to.                *)
Sound(cfg) ==
    /\ Conforms(cfg)
    /\ \A s \in Signals : Decay(AgeDays(s), cfg.halfLife) \in Nat

LEMMA ContributionIsNat ==
    ASSUME NEW cfg, Sound(cfg), NEW s \in Signals
    PROVE  Contribution(s, cfg) \in Nat
<1>1. s.type \in Codes /\ IsFiniteSet(s.topics)
  BY SignalsAssumption
<1>2. TierWeight(s, cfg) \in Nat
  BY DEF TierWeight, Sound, Conforms
<1>3. cfg.multipliers[MappedLevel(s.type)] \in Nat
  BY DEF MappedLevel, Sound, Conforms
<1>4. RecencyFactor(s, cfg) \in Nat
  <2>1. cfg.floor \in Nat /\ Decay(AgeDays(s), cfg.halfLife) \in Nat
    BY DEF Sound, Conforms
  <2>2. QED
    BY <2>1, MaxOfTwo DEF RecencyFactor
<1>5. TopicFactor(s, cfg) \in Nat
  <2> DEFINE named == s.topics \cap DOMAIN cfg.topicMap
             f == [k \in named |-> cfg.topicMap[k]]
             weights == {cfg.topicMap[k] : k \in named} \cup {0}
  <2>1. f \in [named -> Nat]
    BY DEF Sound, Conforms
  <2>2. IsFiniteSet(named)
    BY <1>1, FS_Intersection
  <2>3. IsFiniteSet({f[k] : k \in named})
    BY <2>1, <2>2, ImageIsFinite
  <2>4. {f[k] : k \in named} = {cfg.topicMap[k] : k \in named}
    OBVIOUS
  <2>5. IsFiniteSet(weights)
    BY <2>3, <2>4, FS_AddElement
  <2>6. weights \subseteq Nat /\ weights # {}
    BY DEF Sound, Conforms
  <2>10. weights \subseteq Int
    BY <2>6
  <2> HIDE DEF weights
  <2>7. Max(weights) \in weights
    BY <2>5, <2>6, <2>10, MaxOfFinite
  <2>8. cfg.topicDefault \in Nat
    BY DEF Sound, Conforms
  <2>9. QED
    BY <2>6, <2>7, <2>8 DEF TopicFactor, weights
<1> DEFINE product == TierWeight(s, cfg) * cfg.multipliers[MappedLevel(s.type)]
                          * RecencyFactor(s, cfg) * TopicFactor(s, cfg)
<1>6. product \in Nat
  BY <1>2, <1>3, <1>4, <1>5, ProductIsNat
<1> HIDE DEF product
<1>7. (product + 50000) \div 100000 \in Nat
  BY <1>6
<1>8. QED
  BY <1>7 DEF Contribution, product

(* The best of finitely many contributions, which no further one lowers.   *)
LEMMA BestIsNat ==
    ASSUME NEW cfg, Sound(cfg), NEW g, g \subseteq Signals, IsFiniteSet(g), g # {}
    PROVE  /\ Best(g, cfg) \in Nat
           /\ \E s \in g : Best(g, cfg) = Contribution(s, cfg)
           /\ \A s \in g : Contribution(s, cfg) <= Best(g, cfg)
<1> DEFINE f == [s \in g |-> Contribution(s, cfg)]
           T == {Contribution(s, cfg) : s \in g}
<1>1. \A s \in g : Contribution(s, cfg) \in Nat
  BY ContributionIsNat
<1>2. f \in [g -> Nat] /\ T = {f[s] : s \in g}
  BY <1>1
<1>3. T \subseteq Nat /\ T \subseteq Int /\ T # {}
  BY <1>1
<1> HIDE DEF f
<1>4. IsFiniteSet(T)
  BY <1>2, ImageIsFinite
<1>5. Best(g, cfg) = Max(T)
  BY DEF Best
<1>6. \A s \in g : Contribution(s, cfg) \in T
  OBVIOUS
<1>7. \A x \in T : \E s \in g : x = Contribution(s, cfg)
  OBVIOUS
<1> HIDE DEF T
<1>8. Max(T) \in T /\ \A y \in T : Max(T) >= y
  BY <1>3, <1>4, MaxOfFinite
<1>9. QED
  BY <1>1, <1>3, <1>5, <1>6, <1>7, <1>8

LEMMA BestGrows ==
    ASSUME NEW cfg, Sound(cfg), NEW h, h \subseteq Signals, IsFiniteSet(h),
           NEW g, g \subseteq h, g # {}
    PROVE  Best(g, cfg) <= Best(h, cfg)
<1>1. IsFiniteSet(g) /\ g \subseteq Signals
  BY FS_Subset
<1>2. PICK s \in g : Best(g, cfg) = Contribution(s, cfg)
  BY <1>1, BestIsNat
<1>3. QED
  BY <1>2, BestIsNat

(* The bonus for further signals: capped, and growing with their number.   *)
Bonus(cap, each, n) == Min({cap, each * n})

LEMMA BonusIsNat ==
    ASSUME NEW cap \in Nat, NEW each \in Nat, NEW n \in Nat
    PROVE  Bonus(cap, each, n) \in Nat
<1> DEFINE b == each * n
<1>1. b \in Nat
  BY ProductIsNat
<1> HIDE DEF b
<1>2. Min({cap, b}) \in Nat
  BY <1>1, MinOfTwo
<1>3. QED
  BY <1>2 DEF b, Bonus

LEMMA BonusGrows ==
    ASSUME NEW cap \in Nat, NEW each \in Nat, NEW m \in Nat, NEW n \in Nat, m <= n
    PROVE  Bonus(cap, each, m) <= Bonus(cap, each, n)
<1> DEFINE a == each * m
           b == each * n
<1>1. a \in Nat /\ b \in Nat /\ a <= b
  BY ProductIsNat, ProductGrows
<1> HIDE DEF a, b
<1>2. Min({cap, a}) <= Min({cap, b})
  BY <1>1, MinOfTwo
<1>3. QED
  BY <1>2 DEF a, b, Bonus

(* scoreSignals of a target's signals is a natural number, and no further  *)
(* signal of the target lowers it.                                         *)
LEMMA StrengthGrows ==
    ASSUME NEW cfg, Sound(cfg), NEW h, h \subseteq Signals, IsFiniteSet(h),
           NEW g, g \subseteq h
    PROVE  /\ Strength(g, cfg) \in Nat
           /\ Strength(h, cfg) \in Nat
           /\ Strength(g, cfg) <= Strength(h, cfg)
<1> DEFINE current(x) == {s \in x : WithinWindow(s, cfg)}
           derived(x) == {s \in current(x) : IsDerived(s, cfg)}
           observed(x) == current(x) \ derived(x)
           volume(x) == Bonus(cfg.volumeCap, cfg.volumePerExtra,
                              Cardinality(observed(x)) - 1)
           boost(x) == Bonus(cfg.derivedCap, cfg.derivedBoost, Cardinality(derived(x)))
<1>1. ASSUME NEW x
      PROVE Strength(x, cfg) = IF observed(x) = {} THEN 0
                  ELSE (Best(observed(x), cfg) + volume(x) + boost(x) + 5) \div 10
  BY DEF Strength, Bonus
<1>2. /\ observed(g) \subseteq observed(h) /\ derived(g) \subseteq derived(h)
      /\ observed(h) \subseteq h /\ derived(h) \subseteq h
  OBVIOUS
<1>3. {cfg.volumePerExtra, cfg.volumeCap, cfg.derivedBoost, cfg.derivedCap} \subseteq Nat
  BY DEF Sound, Conforms
<1> HIDE DEF observed, derived
<1>4. /\ IsFiniteSet(observed(h)) /\ IsFiniteSet(derived(h))
      /\ IsFiniteSet(observed(g)) /\ IsFiniteSet(derived(g))
      /\ Cardinality(observed(g)) <= Cardinality(observed(h))
      /\ Cardinality(derived(g)) <= Cardinality(derived(h))
  BY <1>2, FS_Subset
<1>5. /\ Cardinality(observed(g)) \in Nat /\ Cardinality(observed(h)) \in Nat
      /\ Cardinality(derived(g)) \in Nat /\ Cardinality(derived(h)) \in Nat
  BY <1>4, FS_CardinalityType
<1>6. /\ boost(g) \in Nat /\ boost(h) \in Nat /\ boost(g) <= boost(h)
  <2>1. boost(g) \in Nat /\ boost(h) \in Nat
    BY <1>3, <1>5, BonusIsNat
  <2>2. boost(g) <= boost(h)
    BY <1>3, <1>4, <1>5, BonusGrows
  <2>3. QED
    BY <2>1, <2>2
<1>7. ASSUME observed(h) # {}
      PROVE  Cardinality(observed(h)) - 1 \in Nat
  BY <1>4, <1>5, <1>7, FS_EmptySet
<1>8. ASSUME observed(g) # {}
      PROVE  /\ Cardinality(observed(g)) - 1 \in Nat
             /\ Cardinality(observed(h)) - 1 \in Nat
             /\ observed(h) # {}
  BY <1>2, <1>4, <1>5, <1>7, <1>8, FS_EmptySet
<1>9. ASSUME observed(h) # {} PROVE volume(h) \in Nat
  BY <1>3, <1>7, <1>9, BonusIsNat
<1>10. ASSUME observed(g) # {} PROVE volume(g) \in Nat /\ volume(g) <= volume(h)
  <2>1. Cardinality(observed(g)) - 1 <= Cardinality(observed(h)) - 1
    BY <1>4, <1>5
  <2>2. QED
    BY <2>1, <1>3, <1>8, <1>10, BonusIsNat, BonusGrows
<1>11. ASSUME observed(h) # {} PROVE Best(observed(h), cfg) \in Nat
  BY <1>2, <1>4, <1>11, BestIsNat
<1>12. ASSUME observed(g) # {}
       PROVE  /\ Best(observed(g), cfg) \in Nat
              /\ Best(observed(g), cfg) <= Best(observed(h), cfg)
  BY <1>2, <1>4, <1>12, BestIsNat, BestGrows
<1> HIDE DEF volume, boost
<1>13. \A a, b \in Nat : a <= b => /\ (a + 5) \div 10 \in Nat
                                   /\ (a + 5) \div 10 <= (b + 5) \div 10
  OBVIOUS
<1>14. ASSUME observed(h) # {} PROVE Strength(h, cfg) \in Nat
  BY <1>1, <1>6, <1>9, <1>11, <1>13, <1>14
<1>15. ASSUME observed(g) # {}
       PROVE  Strength(g, cfg) \in Nat /\ Strength(g, cfg) <= Strength(h, cfg)
  <2> DEFINE a == Best(observed(g), cfg) + volume(g) + boost(g)
             b == Best(observed(h), cfg) + volume(h) + boost(h)
  <2>1. a \in Nat /\ b \in Nat /\ a <= b
    BY <1>6, <1>8, <1>9, <1>10, <1>11, <1>12, <1>15
  <2>2. Strength(g, cfg) = (a + 5) \div 10 /\ Strength(h, cfg) = (b + 5) \div 10
    BY <1>1, <1>8, <1>15
  <2> HIDE DEF a, b
  <2>3. QED
    BY <2>1, <2>2, <1>13
<1>16. /\ observed(g) = {} => Strength(g, cfg) = 0
       /\ observed(h) = {} => Strength(h, cfg) = 0
  BY <1>1
<1>17. QED
  BY <1>14, <1>15, <1>16, <1>2

(* Any ranking a provider row can lead to is sound.                        *)
LEMMA ParsedIsSound ==
    ASSUME NEW one \in Setups, one.trigify # None
    PROVE  Sound(ParseRankingConfig(one.trigify.settings))
<1>1. \A code \in Codes : SignalTypes[code].tier \in {"A", "B", "C"}
  BY DEF Codes, RawNames, SignalTypes, Observable, Derived
<1>2. Conforms(DefaultRanking)
  BY <1>1 DEF Conforms, DefaultRanking
<1>3. one.trigify.settings.valid => Conforms(Merged(one.trigify.settings.ranking))
  BY SetupsAssumption
<1>4. Conforms(ParseRankingConfig(one.trigify.settings))
  BY <1>2, <1>3 DEF ParseRankingConfig
<1>5. \A s \in Signals :
         Decay(AgeDays(s), ParseRankingConfig(one.trigify.settings).halfLife) \in Nat
  BY DecayAssumption
<1>6. QED
  BY <1>4, <1>5 DEF Sound

(* The confidence the store adapter gives a signal never falls when the    *)
(* company gets further signals.                                           *)
LEMMA ConfidenceGrows ==
    ASSUME NEW cfg, Sound(cfg), NEW t, t \subseteq Signals, IsFiniteSet(t),
           NEW u, u \subseteq t, NEW s \in Signals
    PROVE  /\ Confidence(s, u, cfg) \in Int
           /\ Confidence(s, u, cfg) <= Confidence(s, t, cfg)
<1> DEFINE group(x) == {r \in x : r.target = s.target}
<1>1. /\ group(t) \subseteq Signals /\ IsFiniteSet(group(t))
      /\ group(u) \subseteq group(t)
  BY FS_Subset
<1>2. /\ Confidence(s, u, cfg) = IF SignalClass(s) = "derived" THEN DerivedConfidence
                                 ELSE Min({1000, Strength(group(u), cfg)})
      /\ Confidence(s, t, cfg) = IF SignalClass(s) = "derived" THEN DerivedConfidence
                                 ELSE Min({1000, Strength(group(t), cfg)})
  BY DEF Confidence
<1> HIDE DEF group
<1>3. /\ Strength(group(u), cfg) \in Nat /\ Strength(group(t), cfg) \in Nat
      /\ Strength(group(u), cfg) <= Strength(group(t), cfg)
  BY <1>1, StrengthGrows
<1> DEFINE all == 1000
           capped(x) == Min({all, x})
<1>4. ASSUME NEW a \in Nat PROVE capped(a) = IF all <= a THEN all ELSE a
  <2>1. all \in Int
    OBVIOUS
  <2> HIDE DEF all
  <2>2. QED
    BY <2>1, MinOfTwo
<1>5. capped(Strength(group(u), cfg)) \in Int
  BY <1>3, <1>4
<1>6. capped(Strength(group(u), cfg)) <= capped(Strength(group(t), cfg))
  BY <1>3, <1>4
<1>7. QED
  BY <1>2, <1>5, <1>6 DEF DerivedConfidence

LEMMA ConfidenceIsInt ==
    ASSUME NEW cfg, Sound(cfg), NEW t, t \subseteq Signals, IsFiniteSet(t),
           NEW s \in Signals
    PROVE  Confidence(s, t, cfg) \in Int
<1>1. ASSUME NEW u, u = t
      PROVE  Confidence(s, u, cfg) \in Int
  BY <1>1, ConfidenceGrows
<1>2. QED
  BY <1>1

(* The taxonomy lets the copy assert what TYPE_MAP calls observable.       *)
LEMMA Taxonomy ==
    \A code \in Codes :
        /\ SignalTypes[code].copyAssertable \in BOOLEAN
        /\ SignalTypes[code].copyAssertable => MappedClass(code) = "observable"
<1>1. TAKE code \in Codes
<1>2. \/ SignalTypes[code].copyAssertable = TRUE
      \/ SignalTypes[code].copyAssertable = FALSE
  BY DEF Codes, RawNames, SignalTypes, Observable, Derived
<1>3. MappedClass(code) # "observable" => SignalTypes[code].copyAssertable = FALSE
  BY DEF Codes, RawNames, SignalTypes, Observable, Derived, MappedClass
<1>4. QED
  BY <1>2, <1>3, Zenon

-----------------------------------------------------------------------------
(* The inductive invariant                                                 *)

(* A row as extractDominantSignal compares it; one that stands for a       *)
(* signal of the company is assertable as the taxonomy has it.             *)
IsRow(row) ==
    /\ row.age \in Int /\ row.confidence \in Int
    /\ {row.restricted, row.assertable, row.valid} \subseteq BOOLEAN
    /\ \A s \in Signals :
          row.key = <<"row", s.id>> => row.assertable = SignalTypes[s.type].copyAssertable

RowsInv ==
    /\ \E n \in Nat : DOMAIN rows = 1 .. n
    /\ \A i \in DOMAIN rows : IsRow(rows[i])

Answers == [state : {"eligible", "ineligible", "unconfigured"}, shown : SUBSET Nat,
            reason : Nat, people : 0 .. 3, move : Nat, restricted : BOOLEAN,
            empty : BOOLEAN, stale : BOOLEAN, lowConfidence : BOOLEAN,
            degraded : BOOLEAN]

(* The snapshot says nothing.                                              *)
Silent ==
    /\ snapshot.shown = {} /\ snapshot.reason = 0
    /\ snapshot.people = 0 /\ snapshot.move = 0

(* The request has no evidence yet, or none at all.                        *)
Bare(states) ==
    /\ rows = <<>> /\ told = {}
    /\ Silent /\ snapshot.restricted = FALSE
    /\ snapshot.state \in states

(* What the sifting leaves behind, whatever is added to it later.          *)
Chosen ==
    /\ ~ HasRestricted(rows) /\ ~ snapshot.restricted
    /\ snapshot.state = "eligible"
    /\ snapshot.shown = Sifted(rows, Lists)
    /\ snapshot.reason = ExtractDominantSignal(rows, snapshot.shown, Thresholds)
    /\ snapshot.stale = Flags(rows, Lists, Thresholds).stale
    /\ snapshot.lowConfidence = Flags(rows, Lists, Thresholds).lowConfidence
    /\ told \subseteq snapshot.shown
    /\ snapshot.move \in snapshot.shown \cup {0}

PlaceInv ==
    /\ pc \in {"idle", "gate"} => Bare({"unconfigured"})
    /\ pc = "fetch" => Bare({"eligible"})
    /\ pc = "sift" =>
          /\ told = {}
          /\ Silent /\ snapshot.restricted = FALSE
          /\ snapshot.state = "eligible"
    /\ pc \in {"reason", "contacts", "move"} => Chosen /\ snapshot.reason # 0
    /\ pc = "done" =>
          \/ Bare({"ineligible", "unconfigured"})
          \/ Silent /\ told = {} /\ snapshot.restricted
          \/ Chosen /\ (snapshot.people > 0 => snapshot.reason # 0)

(* Where the request is, and what positions its answer may hold.           *)
StageInv ==
    /\ pc \in {"idle", "gate", "fetch", "sift", "reason", "contacts", "move", "done"}
    /\ setup \in Setups \cup {None}
    /\ pc # "idle" <=> setup # None

PositionsInv ==
    /\ snapshot.shown \subseteq DOMAIN rows /\ told \subseteq DOMAIN rows
    /\ snapshot.reason \in DOMAIN rows \cup {0} /\ snapshot.move \in DOMAIN rows \cup {0}

RequestInv ==
    /\ StageInv /\ PositionsInv
    /\ snapshot \in Answers
    /\ stored \subseteq Signals /\ IsFiniteSet(stored)
    /\ RowsInv
    /\ PlaceInv

-----------------------------------------------------------------------------
(* What the stages keep                                                    *)

LEMMA ProjectIsRow ==
    ASSUME NEW cfg, Sound(cfg), NEW t, t \subseteq Signals, IsFiniteSet(t), NEW s \in t
    PROVE  IsRow(Project(s, t, cfg))
<1>1. s \in Signals /\ s.type \in Codes /\ s.age \in Int
  BY SignalsAssumption
<1>2. Confidence(s, t, cfg) \in Int
  BY <1>1, ConfidenceIsInt
<1>3. SignalTypes[s.type].copyAssertable \in BOOLEAN
  BY <1>1, Taxonomy
<1>4. \A r \in Signals : <<"row", s.id>> = <<"row", r.id>> => r = s
  BY <1>1, SignalsAssumption
<1>5. QED
  BY <1>1, <1>2, <1>3, <1>4 DEF Project, IsRow

LEMMA FoundIsRow == \A row \in Found : IsRow(row)
<1>1. TAKE row \in Found
<1>2. row.age \in Int /\ row.confidence \in 0 .. 1000
  BY AnswersAssumption
<1>3. \A s \in Signals : row.key # <<"row", s.id>>
  BY AnswersAssumption, Zenon
<1>4. {row.restricted, row.assertable, row.valid} \subseteq BOOLEAN
  BY AnswersAssumption, Zenon
<1>5. row.confidence \in Int
  BY <1>2
<1>6. QED
  BY <1>2, <1>3, <1>4, <1>5, Zenon DEF IsRow

(* Whatever the providers answer are rows, one after the other.            *)
LEMMA FetchedAreRows ==
    ASSUME stored \subseteq Signals, IsFiniteSet(stored), setup \in Setups,
           NEW exa \in FromExa, NEW news \in FromNews, NEW own \in FromStore,
           rows' = exa \o news \o own
    PROVE  RowsInv'
<1> DEFINE cfg == ParseRankingConfig(setup.trigify.settings)
           P == IF setup.trigify = None THEN {}
                ELSE {Project(s, stored, cfg) : s \in stored}
           E == Found \cup P
<1>1. \A row \in E : IsRow(row)
  <2>1. ASSUME setup.trigify # None, NEW s \in stored
        PROVE  IsRow(Project(s, stored, cfg))
    <3>1. Sound(cfg)
      BY <2>1, ParsedIsSound
    <3> HIDE DEF cfg
    <3>2. QED
      BY <3>1, ProjectIsRow
  <2>2. QED
    BY <2>1, FoundIsRow
<1>2. own \in Seq(P)
  <2>1. CASE setup.trigify = None
    BY <2>1 DEF FromStore
  <2>2. CASE setup.trigify # None
    <3>1. own \in SetToSeqs(P)
      BY <2>2 DEF FromStore
    <3>2. IsFiniteSet(P)
      <4> DEFINE f == [s \in stored |-> Project(s, stored, cfg)]
      <4>1. f \in [stored -> P] /\ P = {f[s] : s \in stored}
        <5> HIDE DEF cfg
        <5>1. P = {Project(s, stored, cfg) : s \in stored}
          BY <2>2
        <5> HIDE DEF P
        <5>2. \A s \in stored : Project(s, stored, cfg) \in P
          BY <5>1
        <5>3. f \in [stored -> P]
          BY <5>2
        <5>4. {f[s] : s \in stored} = {Project(s, stored, cfg) : s \in stored}
          OBVIOUS
        <5>5. QED
          BY <5>1, <5>3, <5>4
      <4> HIDE DEF f, P
      <4>2. f \in [stored -> P]
        BY <4>1
      <4>3. IsFiniteSet({f[s] : s \in stored})
        BY <4>2, ImageIsFinite
      <4>4. QED
        BY <4>1, <4>3, Zenon
    <3> HIDE DEF P
    <3>3. Cardinality(P) \in Nat /\ own \in [1 .. Cardinality(P) -> P]
      BY <3>1, <3>2, FS_CardinalityType DEF SetToSeqs
    <3>4. QED
      BY <3>3, SeqDef
  <2>3. QED
    BY <2>1, <2>2
<1>3. exa \in Seq(Found) /\ news \in Seq(Found)
  <2>1. <<>> \in Seq(Found)
    BY EmptySeq
  <2>2. ExaAnswers \subseteq Seq(Found) /\ NewsAnswers \subseteq Seq(Found)
    BY AnswersAssumption, Zenon
  <2>3. QED
    BY <2>1, <2>2, Zenon DEF FromExa, FromNews
<1> HIDE DEF P
<1>4. exa \in Seq(E) /\ news \in Seq(E) /\ own \in Seq(E)
  BY <1>2, <1>3, SeqMonotonic
<1> HIDE DEF E
<1>5. rows' \in Seq(E)
  BY <1>4, ConcatProperties
<1>6. Len(rows') \in Nat /\ DOMAIN rows' = 1 .. Len(rows')
  BY <1>5
<1>7. \A i \in DOMAIN rows' : rows'[i] \in E
  BY <1>5, <1>6, ElementOfSeq
<1>8. QED
  BY <1>1, <1>6, <1>7 DEF RowsInv, IsRow

(* The signal a snapshot speaks of is one of the rows kept that qualify,   *)
(* when one does.                                                          *)
LEMMA DominantQualifies ==
    ASSUME RowsInv, NEW kept, kept \subseteq DOMAIN rows, NEW thresholds
    PROVE  LET dominant == ExtractDominantSignal(rows, kept, thresholds)
           IN  \/ dominant \in kept /\ Qualifies(rows[dominant], thresholds)
               \/ dominant = 0 /\ \A i \in kept : ~ Qualifies(rows[i], thresholds)
<1> DEFINE pool == {i \in kept : Qualifies(rows[i], thresholds)}
           dominant == ExtractDominantSignal(rows, kept, thresholds)
<1>1. PICK n \in Nat : DOMAIN rows = 1 .. n
  BY DEF RowsInv
<1>2. /\ IsFiniteSet(pool) /\ pool \subseteq Nat
      /\ \A i \in pool : rows[i].confidence \in Int /\ rows[i].age \in Int
  <2>1. IsFiniteSet(1 .. n) /\ pool \subseteq 1 .. n
    BY <1>1, FS_Interval
  <2>2. IsFiniteSet(pool)
    BY <2>1, FS_Subset
  <2>3. QED
    BY <2>1, <2>2, <1>1 DEF RowsInv, IsRow
<1>3. dominant = IF pool = {} THEN 0
                 ELSE CHOOSE i \in pool : \A j \in pool : Precedes(rows, i, j)
  BY DEF ExtractDominantSignal
<1>4. pool # {} => \E i \in pool : \A j \in pool : Precedes(rows, i, j)
  <2> HIDE DEF pool
  <2>1. QED
    BY <1>2, PoolHasFirst
<1>5. pool # {} => dominant \in pool
  <2> HIDE DEF pool, dominant
  <2>1. QED
    BY <1>3, <1>4
<1>6. pool = {} => dominant = 0
  BY <1>3
<1> HIDE DEF dominant
<1>7. QED
  BY <1>5, <1>6 DEF dominant

LEMMA PickIsKept ==
    ASSUME RowsInv, NEW kept, kept \subseteq DOMAIN rows, kept # {}
    PROVE  PickDominant(rows, kept) \in kept
<1>1. PICK n \in Nat : DOMAIN rows = 1 .. n
  BY DEF RowsInv
<1>2. /\ IsFiniteSet(kept) /\ kept \subseteq Nat
      /\ \A i \in kept : rows[i].confidence \in Int /\ rows[i].age \in Int
  <2>1. IsFiniteSet(1 .. n)
    BY FS_Interval
  <2>2. IsFiniteSet(kept)
    BY <2>1, <1>1, FS_Subset
  <2>3. QED
    BY <2>2, <1>1 DEF RowsInv, IsRow
<1>3. \E i \in kept : \A j \in kept :
         \/ rows[i].confidence > rows[j].confidence
         \/ rows[i].confidence = rows[j].confidence /\ i <= j
  BY <1>2, PoolHasFirst
<1>4. QED
  BY <1>3 DEF PickDominant

(* The thresholds and the lists change with the setup alone.               *)
LEMMA SameSetup ==
    ASSUME setup' = setup
    PROVE  Lists' = Lists /\ Thresholds' = Thresholds
BY DEF Lists, Thresholds, Governing

-----------------------------------------------------------------------------
(* The invariant is inductive                                              *)

LEMMA RequestInvTyped == RequestInv => RequestTypeOK
<1> SUFFICES ASSUME RequestInv PROVE RequestTypeOK
  OBVIOUS
<1>1. /\ snapshot.state \in {"eligible", "ineligible", "unconfigured"}
      /\ snapshot.people \in 0 .. 3
  BY DEF RequestInv, Answers
<1>2. {snapshot.reason, snapshot.move} \subseteq DOMAIN rows \cup {0}
  BY DEF RequestInv, PositionsInv
<1>3. snapshot.shown \cup told \subseteq DOMAIN rows
  BY DEF RequestInv, PositionsInv
<1>4. stored \subseteq Signals /\ StageInv
  BY DEF RequestInv
<1>5. QED
  BY <1>1, <1>2, <1>3, <1>4, Zenon DEF RequestTypeOK, StageInv

LEMMA RequestInitInv == RequestInit => RequestInv
<1> SUFFICES ASSUME RequestInit PROVE RequestInv
  OBVIOUS
<1> USE DEF RequestInit
<1>1. StageInv /\ PositionsInv
  BY DEF StageInv, PositionsInv, Blank
<1>2. snapshot \in Answers
  BY DEF Answers, Blank
<1>3. stored \subseteq Signals /\ IsFiniteSet(stored)
  BY FS_EmptySet
<1>4. RowsInv
  <2>1. DOMAIN rows = 1 .. 0
    OBVIOUS
  <2>2. QED
    BY <2>1 DEF RowsInv
<1>5. Bare({"unconfigured"})
  BY DEF Bare, Silent, Blank
<1>6. QED
  BY <1>1, <1>2, <1>3, <1>4, <1>5 DEF RequestInv, PlaceInv

(* What a step that leaves the rows and the poller's signals alone keeps.  *)
LEMMA RowsKept ==
    ASSUME RequestInv, rows' = rows, stored' = stored
    PROVE  RowsInv' /\ stored' \subseteq Signals /\ IsFiniteSet(stored)'
BY DEF RequestInv, RowsInv, IsRow

LEMMA ResolveProvidersInv == RequestInv /\ ResolveProviders => RequestInv'
<1> SUFFICES ASSUME RequestInv, ResolveProviders PROVE RequestInv'
  OBVIOUS
<1> USE DEF ResolveProviders
<1>1. Bare({"unconfigured"}) /\ snapshot \in Answers
  BY DEF RequestInv, PlaceInv
<1>2. pc' \in {"gate", "done"} /\ snapshot' \in Answers /\ Bare({"unconfigured"})'
  <2>1. CASE UNCHANGED snapshot /\ pc' = "gate"
    BY <2>1, <1>1 DEF Bare, Silent
  <2>2. CASE snapshot' = [Blank EXCEPT !.empty = TRUE] /\ pc' = "done"
    BY <2>2, <1>1 DEF Bare, Silent, Blank, Answers
  <2>3. QED
    BY <2>1, <2>2
<1>3. setup' \in Setups /\ setup' # None
  BY SetupsAssumption
<1>4. StageInv' /\ PositionsInv'
  BY <1>2, <1>3 DEF StageInv, PositionsInv, Bare, Silent
<1>5. RowsInv' /\ stored' \subseteq Signals /\ IsFiniteSet(stored)'
  BY RowsKept
<1>6. PlaceInv'
  BY <1>2 DEF PlaceInv, Bare
<1>7. QED
  BY <1>2, <1>4, <1>5, <1>6 DEF RequestInv

LEMMA BlankAnswers ==
    /\ \A verdict \in {"eligible", "ineligible", "unconfigured"} :
          [Blank EXCEPT !.state = verdict] \in Answers
    /\ [Blank EXCEPT !.state = "eligible", !.restricted = TRUE] \in Answers
<1>1. Blank \in Answers
  BY DEF Blank, Answers
<1>2. \A a \in Answers, verdict \in {"eligible", "ineligible", "unconfigured"} :
         [a EXCEPT !.state = verdict] \in Answers
  BY DEF Answers
<1>3. \A a \in Answers :
         [a EXCEPT !.state = "eligible", !.restricted = TRUE] \in Answers
  BY DEF Answers
<1>4. QED
  BY <1>1, <1>2, <1>3

LEMMA GateInv == RequestInv /\ Gate => RequestInv'
<1> SUFFICES ASSUME RequestInv, Gate PROVE RequestInv'
  OBVIOUS
<1> USE DEF Gate
<1>1. rows = <<>> /\ told = {} /\ StageInv
  BY DEF RequestInv, PlaceInv, Bare
<1>2. PICK verdict \in {"eligible", "ineligible", "unconfigured"} :
          /\ snapshot' = [Blank EXCEPT !.state = verdict]
          /\ pc' = IF verdict = "eligible" THEN "fetch" ELSE "done"
  OBVIOUS
<1>3. snapshot' \in Answers /\ Bare({verdict})'
  <2>1. snapshot' \in Answers
    BY <1>2, BlankAnswers
  <2>2. Bare({verdict})'
    BY <1>1, <1>2 DEF Bare, Silent, Blank
  <2>3. QED
    BY <2>1, <2>2
<1>4. StageInv' /\ PositionsInv'
  BY <1>1, <1>2, <1>3 DEF StageInv, PositionsInv, Bare, Silent
<1>5. RowsInv' /\ stored' \subseteq Signals /\ IsFiniteSet(stored)'
  BY RowsKept
<1>6. PlaceInv'
  BY <1>2, <1>3 DEF PlaceInv, Bare
<1>7. QED
  BY <1>3, <1>4, <1>5, <1>6 DEF RequestInv

LEMMA FetchInv == RequestInv /\ Fetch => RequestInv'
<1> SUFFICES ASSUME RequestInv, Fetch PROVE RequestInv'
  OBVIOUS
<1> USE DEF Fetch
<1>1. /\ told = {} /\ Silent /\ snapshot.restricted = FALSE
      /\ snapshot.state = "eligible"
      /\ snapshot \in Answers /\ StageInv
  BY DEF RequestInv, PlaceInv, Bare
<1>2. RowsInv'
  <2>1. CASE UNCHANGED rows
    BY <2>1, RowsKept
  <2>2. CASE \E exa \in FromExa, news \in FromNews, own \in FromStore :
                rows' = exa \o news \o own
    <3>1. stored \subseteq Signals /\ IsFiniteSet(stored) /\ setup \in Setups
      BY DEF RequestInv, StageInv
    <3>2. QED
      BY <2>2, <3>1, FetchedAreRows
  <2>3. QED
    BY <2>1, <2>2
<1>3. /\ Silent' /\ snapshot'.restricted = FALSE /\ snapshot'.state = "eligible"
      /\ snapshot' \in Answers
  <2>1. CASE UNCHANGED snapshot
    BY <2>1, <1>1 DEF Silent
  <2>2. CASE snapshot' = [snapshot EXCEPT !.degraded = TRUE]
    BY <2>2, <1>1 DEF Silent, Answers
  <2>3. QED
    BY <2>1, <2>2
<1>4. StageInv' /\ PositionsInv'
  BY <1>1, <1>3 DEF StageInv, PositionsInv, Silent
<1>5. stored' \subseteq Signals /\ IsFiniteSet(stored)'
  BY DEF RequestInv
<1>6. PlaceInv'
  BY <1>1, <1>3 DEF PlaceInv
<1>7. QED
  BY <1>2, <1>3, <1>4, <1>5, <1>6 DEF RequestInv

LEMMA SiftInv == RequestInv /\ Sift => RequestInv'
<1> SUFFICES ASSUME RequestInv, Sift PROVE RequestInv'
  OBVIOUS
<1> USE DEF Sift
<1> DEFINE kept == Sifted(rows, Lists)
           flags == Flags(rows, Lists, Thresholds)
           dominant == ExtractDominantSignal(rows, kept, Thresholds)
<1>1. /\ told = {} /\ Silent /\ snapshot.restricted = FALSE
      /\ snapshot.state = "eligible"
      /\ snapshot \in Answers /\ StageInv /\ RowsInv
  BY DEF RequestInv, PlaceInv
<1>2. RowsInv' /\ stored' \subseteq Signals /\ IsFiniteSet(stored)'
  BY RowsKept
<1>3. CASE HasRestricted(rows)
  <2>1. snapshot' = [Blank EXCEPT !.state = "eligible", !.restricted = TRUE]
        /\ pc' = "done"
    BY <1>3
  <2>2. Silent' /\ snapshot'.restricted /\ snapshot' \in Answers
    <3>1. Silent' /\ snapshot'.restricted
      BY <2>1 DEF Silent, Blank
    <3>2. snapshot' \in Answers
      BY <2>1, BlankAnswers
    <3>3. QED
      BY <3>1, <3>2
  <2>3. StageInv' /\ PositionsInv'
    BY <2>1, <2>2, <1>1 DEF StageInv, PositionsInv, Silent
  <2>4. PlaceInv'
    BY <2>1, <2>2, <1>1 DEF PlaceInv
  <2>5. QED
    BY <1>2, <2>2, <2>3, <2>4 DEF RequestInv
<1>4. CASE ~ HasRestricted(rows)
  <2>1. kept \subseteq DOMAIN rows
    BY DEF Sifted, DedupEvidence
  <2>2. PICK n \in Nat : DOMAIN rows = 1 .. n
    BY <1>1 DEF RowsInv
  <2>3. dominant \in DOMAIN rows \cup {0}
    BY <2>1, <1>1, DominantQualifies
  <2>4. flags.stale \in BOOLEAN /\ flags.lowConfidence \in BOOLEAN
        /\ flags.degraded \in BOOLEAN
    BY DEF Flags
  <2> HIDE DEF kept, flags, dominant
  <2>5. /\ snapshot' = [snapshot EXCEPT
              !.shown = kept, !.reason = dominant,
              !.empty = dominant = 0, !.stale = flags.stale,
              !.lowConfidence = flags.lowConfidence,
              !.degraded = @ \/ flags.degraded]
        /\ pc' = IF dominant = 0 THEN "done" ELSE "reason"
    BY <1>4 DEF kept, flags, dominant
  <2>6. snapshot.degraded \in BOOLEAN /\ snapshot \in Answers
    BY <1>1 DEF Answers
  <2>7. /\ snapshot'.state = "eligible" /\ snapshot'.shown = kept
        /\ snapshot'.reason = dominant /\ snapshot'.people = 0 /\ snapshot'.move = 0
        /\ snapshot'.restricted = FALSE
        /\ snapshot'.stale = flags.stale
        /\ snapshot'.lowConfidence = flags.lowConfidence
    BY <2>5, <1>1 DEF Silent, Answers
  <2>8. StageInv' /\ PositionsInv'
    BY <2>1, <2>3, <2>5, <2>7, <1>1 DEF StageInv, PositionsInv
  <2>9. snapshot' \in Answers
    <3>1. kept \in SUBSET Nat /\ dominant \in Nat
      BY <2>1, <2>2, <2>3
    <3>2. (dominant = 0) \in BOOLEAN /\ (snapshot.degraded \/ flags.degraded) \in BOOLEAN
      BY <2>4, <2>6
    <3>3. QED
      BY <3>1, <3>2, <2>4, <2>5, <2>6 DEF Answers
  <2>10. Chosen'
    <3>1. Lists' = Lists /\ Thresholds' = Thresholds
      BY SameSetup
    <3>2. QED
      BY <3>1, <2>7, <1>1, <1>4 DEF Chosen, kept, flags, dominant
  <2>11. PlaceInv'
    BY <2>5, <2>7, <2>10 DEF PlaceInv
  <2>12. QED
    BY <1>2, <2>8, <2>9, <2>11 DEF RequestInv
<1>5. QED
  BY <1>3, <1>4

(* What a later stage keeps of the sifting.                                *)
LEMMA ChosenKept ==
    ASSUME Chosen, setup' = setup, rows' = rows,
           snapshot'.state = snapshot.state, snapshot'.shown = snapshot.shown,
           snapshot'.reason = snapshot.reason, snapshot'.stale = snapshot.stale,
           snapshot'.lowConfidence = snapshot.lowConfidence,
           snapshot'.restricted = snapshot.restricted,
           told' \subseteq snapshot.shown, snapshot'.move \in snapshot.shown \cup {0}
    PROVE  Chosen'
<1>1. Lists' = Lists /\ Thresholds' = Thresholds
  BY SameSetup
<1>2. HasRestricted(rows)' = HasRestricted(rows)
  BY DEF HasRestricted
<1>3. QED
  BY <1>1, <1>2 DEF Chosen

(* The limits in force are those of a valid row or the default ones.       *)
LEMMA ThresholdsAreBounded ==
    ASSUME setup \in Setups
    PROVE  Thresholds.maxDays \in Nat
BY SetupsAssumption DEF Thresholds, Governing, DefaultThresholds

LEMMA ReasonIsShown ==
    ASSUME RowsInv, Chosen, snapshot.reason # 0
    PROVE  /\ snapshot.reason \in snapshot.shown
           /\ Qualifies(rows[snapshot.reason], Thresholds)
<1>1. Sifted(rows, Lists) \subseteq DOMAIN rows
  BY DEF Sifted, DedupEvidence
<1>2. QED
  BY <1>1, DominantQualifies DEF Chosen

LEMMA ReasonInv == RequestInv /\ Reason => RequestInv'
<1> SUFFICES ASSUME RequestInv, Reason PROVE RequestInv'
  OBVIOUS
<1> USE DEF Reason
<1>1. Chosen /\ snapshot.reason # 0 /\ RowsInv /\ StageInv /\ PositionsInv
      /\ snapshot \in Answers
  BY DEF RequestInv, PlaceInv
<1>2. told' \subseteq snapshot.shown
  BY <1>1, ReasonIsShown DEF Chosen
<1>3. Chosen'
  BY <1>1, <1>2, ChosenKept DEF Chosen
<1>4. StageInv' /\ PositionsInv'
  BY <1>1, <1>2 DEF StageInv, PositionsInv
<1>5. RowsInv' /\ stored' \subseteq Signals /\ IsFiniteSet(stored)'
  BY RowsKept
<1>6. PlaceInv'
  BY <1>1, <1>3 DEF PlaceInv
<1>7. QED
  BY <1>1, <1>4, <1>5, <1>6 DEF RequestInv

LEMMA ContactsInv == RequestInv /\ Contacts => RequestInv'
<1> SUFFICES ASSUME RequestInv, Contacts PROVE RequestInv'
  OBVIOUS
<1> USE DEF Contacts
<1>1. Chosen /\ snapshot.reason # 0 /\ RowsInv /\ StageInv /\ PositionsInv
      /\ snapshot \in Answers
  BY DEF RequestInv, PlaceInv
<1>2. PICK contacts \in 0 .. MaxContacts :
         snapshot' = [snapshot EXCEPT !.people = Min({3, contacts})]
  OBVIOUS
<1>3. Min({3, contacts}) \in 0 .. 3
  <2> DEFINE three == 3
  <2>1. three \in Int /\ contacts \in Nat
    BY <1>2
  <2>2. Min({three, contacts}) = IF three <= contacts THEN three ELSE contacts
    <3> HIDE DEF three
    <3>1. QED
      BY <2>1, MinOfTwo
  <2>3. QED
    BY <2>1, <2>2
<1>4. snapshot' \in Answers
  BY <1>1, <1>2, <1>3 DEF Answers
<1>5. /\ snapshot'.state = snapshot.state /\ snapshot'.shown = snapshot.shown
      /\ snapshot'.reason = snapshot.reason /\ snapshot'.stale = snapshot.stale
      /\ snapshot'.lowConfidence = snapshot.lowConfidence
      /\ snapshot'.restricted = snapshot.restricted /\ snapshot'.move = snapshot.move
  BY <1>1, <1>2 DEF Answers
<1>6. Chosen'
  BY <1>1, <1>5, ChosenKept DEF Chosen
<1>7. StageInv' /\ PositionsInv'
  BY <1>1, <1>5 DEF StageInv, PositionsInv
<1>8. RowsInv' /\ stored' \subseteq Signals /\ IsFiniteSet(stored)'
  BY RowsKept
<1>9. PlaceInv'
  BY <1>1, <1>5, <1>6 DEF PlaceInv
<1>10. QED
  BY <1>4, <1>7, <1>8, <1>9 DEF RequestInv

LEMMA NextMoveInv == RequestInv /\ NextMove => RequestInv'
<1> SUFFICES ASSUME RequestInv, NextMove PROVE RequestInv'
  OBVIOUS
<1> USE DEF NextMove
<1> DEFINE best == PickDominant(rows, snapshot.shown)
<1>1. Chosen /\ snapshot.reason # 0 /\ RowsInv /\ StageInv /\ PositionsInv
      /\ snapshot \in Answers
  BY DEF RequestInv, PlaceInv
<1>2. best \in snapshot.shown
  <2>1. snapshot.shown # {} /\ snapshot.shown \subseteq DOMAIN rows
    BY <1>1, ReasonIsShown DEF PositionsInv
  <2>2. QED
    BY <1>1, <2>1, PickIsKept
<1> HIDE DEF best
<1>3. /\ told' = told \cup {best} /\ pc' = "done" /\ setup' = setup
      /\ rows' = rows /\ stored' = stored
      /\ \/ snapshot' = [snapshot EXCEPT !.move = best]
         \/ snapshot' = [snapshot EXCEPT !.move = 0]
  BY DEF best
<1>4. best \in Nat
  BY <1>1, <1>2 DEF Answers
<1>5. snapshot' \in Answers
  BY <1>1, <1>3, <1>4 DEF Answers
<1>6. /\ snapshot'.state = snapshot.state /\ snapshot'.shown = snapshot.shown
      /\ snapshot'.reason = snapshot.reason /\ snapshot'.stale = snapshot.stale
      /\ snapshot'.lowConfidence = snapshot.lowConfidence
      /\ snapshot'.restricted = snapshot.restricted
      /\ snapshot'.move \in snapshot.shown \cup {0}
  BY <1>1, <1>2, <1>3 DEF Answers
<1>7. told' \subseteq snapshot.shown
  BY <1>1, <1>2, <1>3 DEF Chosen
<1>8. Chosen'
  BY <1>1, <1>3, <1>6, <1>7, ChosenKept
<1>9. StageInv' /\ PositionsInv'
  BY <1>1, <1>3, <1>6, <1>7 DEF StageInv, PositionsInv
<1>10. RowsInv' /\ stored' \subseteq Signals /\ IsFiniteSet(stored)'
  BY <1>3, RowsKept
<1>11. PlaceInv'
  BY <1>1, <1>3, <1>6, <1>8 DEF PlaceInv
<1>12. QED
  BY <1>5, <1>9, <1>10, <1>11 DEF RequestInv

LEMMA ReplyInv == RequestInv /\ Reply => RequestInv'
<1> SUFFICES ASSUME RequestInv, Reply PROVE RequestInv'
  OBVIOUS
<1> USE DEF Reply
<1>1. snapshot' \in Answers
  BY DEF Blank, Answers
<1>2. Bare({"unconfigured"})'
  BY DEF Bare, Silent, Blank
<1>3. StageInv' /\ PositionsInv'
  BY <1>2 DEF StageInv, PositionsInv, Bare, Silent
<1>4. RowsInv'
  <2>1. DOMAIN rows' = 1 .. 0
    OBVIOUS
  <2>2. QED
    BY <2>1 DEF RowsInv
<1>5. stored' \subseteq Signals /\ IsFiniteSet(stored)'
  BY DEF RequestInv
<1>6. PlaceInv'
  BY <1>2 DEF PlaceInv
<1>7. QED
  BY <1>1, <1>3, <1>4, <1>5, <1>6 DEF RequestInv

(* The request goes on from what it has fetched, whatever the poller adds. *)
LEMMA UntouchedInv ==
    ASSUME RequestInv, UNCHANGED <<pc, setup, rows, snapshot, told>>,
           stored' \subseteq Signals, IsFiniteSet(stored)'
    PROVE  RequestInv'
<1>1. StageInv' /\ PositionsInv' /\ snapshot' \in Answers
  BY DEF RequestInv, StageInv, PositionsInv, Answers
<1>2. RowsInv'
  BY DEF RequestInv, RowsInv, IsRow
<1>3. Chosen => Chosen'
  BY ChosenKept DEF Chosen
<1>4. PlaceInv'
  BY <1>3 DEF RequestInv, PlaceInv, Bare, Silent
<1>5. QED
  BY <1>1, <1>2, <1>4 DEF RequestInv

LEMMA PollInv ==
    ASSUME RequestInv, NEW s \in Signals, Poll(s) PROVE RequestInv'
<1>1. stored' \subseteq Signals /\ IsFiniteSet(stored)'
  <2>1. stored \subseteq Signals /\ IsFiniteSet(stored)
    BY DEF RequestInv
  <2>2. IsFiniteSet(stored \cup {s})
    BY <2>1, FS_AddElement
  <2>3. QED
    BY <2>1, <2>2 DEF Poll
<1>2. QED
  BY <1>1, UntouchedInv DEF Poll

LEMMA RequestInvHolds == RequestSpec => []RequestInv
<1>1. RequestInv /\ [RequestNext]_requestVars => RequestInv'
  <2> SUFFICES ASSUME RequestInv, [RequestNext]_requestVars PROVE RequestInv'
    OBVIOUS
  <2>1. CASE ResolveProviders
    BY <2>1, ResolveProvidersInv
  <2>2. CASE Gate
    BY <2>2, GateInv
  <2>3. CASE Fetch
    BY <2>3, FetchInv
  <2>4. CASE Sift
    BY <2>4, SiftInv
  <2>5. CASE Reason
    BY <2>5, ReasonInv
  <2>6. CASE Contacts
    BY <2>6, ContactsInv
  <2>7. CASE NextMove
    BY <2>7, NextMoveInv
  <2>8. CASE Reply
    BY <2>8, ReplyInv
  <2>9. CASE \E s \in Signals : Poll(s)
    BY <2>9, PollInv
  <2>10. CASE UNCHANGED requestVars
    BY <2>10, UntouchedInv DEF requestVars, RequestInv
  <2>11. QED
    BY <2>1, <2>2, <2>3, <2>4, <2>5, <2>6, <2>7, <2>8, <2>9, <2>10 DEF RequestNext
<1>2. QED
  BY <1>1, RequestInitInv, PTL DEF RequestSpec

-----------------------------------------------------------------------------
(* The theorems                                                            *)

(* The request's positions, stages and answers are what they should be.    *)
THEOREM RequestTypeCorrect == RequestSpec => []RequestTypeOK
BY RequestInvHolds, RequestInvTyped, PTL

(* A restricted row silences the whole snapshot, and prompts only speak of *)
(* rows it shows (assembleSnapshot, generateNextMove), whatever the        *)
(* providers answer and the poller stores meanwhile.                       *)
THEOREM HiddenIsSilent == RequestSpec => []NothingHiddenIsSaid
<1>1. RequestInv => NothingHiddenIsSaid
  <2> SUFFICES ASSUME RequestInv PROVE NothingHiddenIsSaid
    OBVIOUS
  <2>1. ASSUME rows = <<>> PROVE ~ \E i \in DOMAIN rows : rows[i].restricted
    BY <2>1
  <2>2. CASE Chosen
    BY <2>2 DEF Chosen, HasRestricted, NothingHiddenIsSaid
  <2>3. CASE rows = <<>> /\ told = {}
    BY <2>1, <2>3 DEF NothingHiddenIsSaid
  <2>4. CASE Silent /\ told = {} /\ (pc = "sift" \/ snapshot.restricted)
    BY <2>4 DEF Silent, NothingHiddenIsSaid
  <2>5. QED
    BY <2>2, <2>3, <2>4 DEF RequestInv, StageInv, PlaceInv, Bare
<1>2. QED
  BY <1>1, RequestInvHolds, PTL

(* The reason of a snapshot is one trust itself would pass: fresh, sure,   *)
(* admitted by the lists and observed (extractDominantSignal, trust.ts).   *)
THEOREM TrustedReason == RequestSpec => []ReasonIsTrusted
<1>1. RequestInv => ReasonIsTrusted
  <2> SUFFICES ASSUME RequestInv PROVE ReasonIsTrusted
    OBVIOUS
  <2>1. snapshot.people > 0 => snapshot.reason # 0
    BY DEF RequestInv, StageInv, PlaceInv, Bare, Silent
  <2>2. ASSUME snapshot.reason # 0
        PROVE  LET row == rows[snapshot.reason]
               IN  /\ EvaluateFreshness(row, Thresholds)
                   /\ EvaluateConfidence(row, Thresholds)
                   /\ Admits(Lists, row)
                   /\ \A s \in stored :
                         row.key = <<"row", s.id>> => SignalClass(s) = "observable"
    <3> DEFINE row == rows[snapshot.reason]
    <3>1. Chosen /\ RowsInv /\ setup \in Setups
      BY <2>2 DEF RequestInv, StageInv, PlaceInv, Bare, Silent
    <3>2. snapshot.reason \in snapshot.shown /\ Qualifies(row, Thresholds)
      BY <2>2, <3>1, ReasonIsShown
    <3>3. snapshot.reason \in DOMAIN rows /\ Admits(Lists, row)
      BY <3>1, <3>2 DEF Chosen, Sifted, DedupEvidence
    <3>4. IsRow(row)
      BY <3>1, <3>3 DEF RowsInv
    <3>5. Thresholds.maxDays \in Nat
      BY <3>1, ThresholdsAreBounded
    <3>6. EvaluateFreshness(row, Thresholds) /\ EvaluateConfidence(row, Thresholds)
      BY <3>2, <3>4, <3>5 DEF Qualifies, EvaluateFreshness, IsRow
    <3>7. ASSUME NEW s \in stored, row.key = <<"row", s.id>>
          PROVE  SignalClass(s) = "observable"
      <4>1. s \in Signals /\ s.type \in Codes
        BY SignalsAssumption DEF RequestInv
      <4>2. SignalTypes[s.type].copyAssertable
        BY <4>1, <3>2, <3>4, <3>7 DEF IsRow, Qualifies
      <4>3. QED
        BY <4>1, <4>2, Taxonomy DEF SignalClass
    <3>8. QED
      BY <3>3, <3>6, <3>7
  <2>3. QED
    BY <2>1, <2>2 DEF ReasonIsTrusted
<1>2. QED
  BY <1>1, RequestInvHolds, PTL

(* An eligible company's silence is flagged, or all it shows is derived or *)
(* in the last part of the last day, the gap between evaluateFreshness and *)
(* extractDominantSignal.                                                  *)
THEOREM ExplainedSilence == RequestSpec => []SilenceIsExplained
<1>1. RequestInv => SilenceIsExplained
  <2> SUFFICES ASSUME RequestInv, pc = "done", snapshot.state = "eligible",
                      snapshot.reason = 0, ~ snapshot.restricted, ~ snapshot.stale,
                      ~ snapshot.lowConfidence,
                      NEW i \in snapshot.shown, rows[i].assertable
               PROVE  rows[i].age \div 2 = Thresholds.maxDays
    BY DEF SilenceIsExplained
  <2>1. Chosen /\ RowsInv /\ setup \in Setups
    BY DEF RequestInv, StageInv, PlaceInv, Bare
  <2>2. i \in Sifted(rows, Lists) /\ i \in DedupEvidence(rows) /\ i \in DOMAIN rows
    BY <2>1 DEF Chosen, Sifted, DedupEvidence
  <2>3. EvaluateFreshness(rows[i], Thresholds) /\ EvaluateConfidence(rows[i], Thresholds)
    BY <2>1, <2>2 DEF Chosen, Flags
  <2>4. ~ Qualifies(rows[i], Thresholds)
    <3>1. snapshot.shown \subseteq DOMAIN rows
      BY DEF RequestInv, PositionsInv
    <3>2. 0 \notin DOMAIN rows
      BY <2>1 DEF RowsInv
    <3>3. QED
      BY <3>1, <3>2, <2>1, DominantQualifies DEF Chosen
  <2>5. rows[i].age \in Int
    BY <2>1, <2>2 DEF RowsInv, IsRow
  <2>6. Thresholds.maxDays \in Nat
    BY <2>1, ThresholdsAreBounded
  <2>7. QED
    BY <2>3, <2>4, <2>5, <2>6 DEF Qualifies, EvaluateFreshness
<1>2. QED
  BY <1>1, RequestInvHolds, PTL

(* One signal more never makes another one count for less (scoreSignals):  *)
(* each step of the poller only adds to the group a strength is taken of.  *)
THEOREM NeverWeaker == RequestSpec => MoreSignalsNeverWeaken
<1>1. ASSUME RequestInv, RequestNext, NEW s \in stored, NEW one \in Setups,
             one.trigify # None
      PROVE  LET cfg == ParseRankingConfig(one.trigify.settings)
             IN  Confidence(s, stored', cfg) >= Confidence(s, stored, cfg)
  <2>1. stored \subseteq Signals /\ IsFiniteSet(stored) /\ s \in Signals
    BY <1>1 DEF RequestInv
  <2>2. /\ stored \subseteq stored' /\ stored' \subseteq Signals
        /\ IsFiniteSet(stored')
    <3>1. CASE stored' = stored
      BY <3>1, <2>1
    <3>2. CASE \E r \in Signals : Poll(r)
      <4>1. PICK r \in Signals : stored' = stored \cup {r}
        BY <3>2 DEF Poll
      <4>2. QED
        BY <4>1, <2>1, FS_AddElement
    <3>3. QED
      BY <1>1, <3>1, <3>2 DEF RequestNext, ResolveProviders, Gate, Fetch, Sift, Reason,
                              Contacts, NextMove, Reply
  <2> DEFINE cfg == ParseRankingConfig(one.trigify.settings)
  <2>3. Sound(cfg)
    BY <1>1, ParsedIsSound
  <2> HIDE DEF cfg
  <2>4. /\ Confidence(s, stored, cfg) \in Int /\ Confidence(s, stored', cfg) \in Int
        /\ Confidence(s, stored, cfg) <= Confidence(s, stored', cfg)
    BY <2>1, <2>2, <2>3, ConfidenceGrows, ConfidenceIsInt
  <2>5. QED
    BY <2>4 DEF cfg
<1>2. QED
  <2>1. RequestInv /\ [RequestNext]_requestVars =>
          [\A s \in stored, one \in Setups :
              one.trigify # None =>
                 LET cfg == ParseRankingConfig(one.trigify.settings)
                 IN  Confidence(s, stored', cfg) >= Confidence(s, stored, cfg)]_stored
    BY <1>1 DEF requestVars
  <2>2. QED
    BY <2>1, RequestInvHolds, PTL DEF RequestSpec, MoreSignalsNeverWeaken

=============================================================================
