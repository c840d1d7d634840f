---------------------------- MODULE SignalRanking ----------------------------
(***************************************************************************)
(* What the snapshot makes of the signals Trigify's poller has stored for  *)
(* a company: the strength of each target's signals (services/trigify/     *)
(* signal-ranking.ts) and the evidence the store adapter projects from     *)
(* them (adapters/signal/trigify.ts), under the tenant's ranking settings  *)
(* (validators/trigify-ranking.ts).                                        *)
(* A stored signal is [id, target, type, age, topics]: its class, level    *)
(* and copyAssertable were set by NormalizeFeedItem from its type, and     *)
(* topics are the keywords its text holds.  Ages are in half-days,         *)
(* negative for a date in the future.  Weights and factors are in percent, *)
(* recency, strength and confidence in per mille.                          *)
(***************************************************************************)
EXTENDS Integers, FiniteSets, FiniteSetsExt, TrigifySignals

CONSTANT Decay(_, _)   \* 1000 * 0.5^(age / half-life), rounded

DerivedCodes == {code \in Codes : SignalTypes[code].signalClass = "derived"}

(* DEFAULT_TRIGIFY_RANKING_CONFIG, with one keyword of each weight.        *)
DefaultRanking ==
    [tierWeights |-> [A |-> 100, B |-> 65, C |-> 30],
     signalTiers |-> [code \in Codes |-> SignalTypes[code].tier],
     derivedTypes |-> DerivedCodes,
     topicTypes |-> {"T_Topic_Post", "T_Topic_Engage", "T_Company_Initiative"},
     multipliers |-> [person |-> 100, company |-> 70],
     halfLife |-> 28, window |-> 60, floor |-> 150,
     topicDefault |-> 65,
     topicMap |-> [revops |-> 100, cro |-> 95, optimization |-> 90, gtm |-> 85,
                  crm |-> 80, pipeline |-> 75, leads |-> 70],
     volumePerExtra |-> 500, volumeCap |-> 2000,
     derivedBoost |-> 1500, derivedCap |-> 2500]

(* The settings of a provider row are [ranking, valid, others]: the        *)
(* ranking keys they hold, whether the schema takes their values, and      *)
(* whether they hold keys of another feature, which `.strict()` refuses.   *)
Merged(ranking) ==
    [key \in DOMAIN DefaultRanking |->
        IF key \in DOMAIN ranking THEN ranking[key] ELSE DefaultRanking[key]]

ParseRankingConfig(settings) ==
    IF settings.valid /\ ~ settings.others
    THEN Merged(settings.ranking)
    ELSE DefaultRanking

(* What the schema asks of the values, as far as the strength depends on   *)
(* them: no weight, factor, bonus or cap is negative.                      *)
Conforms(cfg) ==
    /\ cfg.tierWeights \in [{"A", "B", "C"} -> Nat]
    /\ \A code \in DOMAIN cfg.signalTiers : cfg.signalTiers[code] \in {"A", "B", "C"}
    /\ cfg.multipliers \in [{"person", "company"} -> Nat]
    /\ \A keyword \in DOMAIN cfg.topicMap : cfg.topicMap[keyword] \in Nat
    /\ {cfg.floor, cfg.window, cfg.topicDefault, cfg.volumePerExtra, cfg.volumeCap,
         cfg.derivedBoost, cfg.derivedCap} \subseteq Nat

SignalClass(s) == MappedClass(s.type)

IsDerived(s, cfg) ==
    \/ SignalClass(s) = "derived"
    \/ s.type \in cfg.derivedTypes

AgeDays(s) == Max({0, s.age})

WithinWindow(s, cfg) == AgeDays(s) <= cfg.window

RecencyFactor(s, cfg) == Max({cfg.floor, Decay(AgeDays(s), cfg.halfLife)})

TopicFactor(s, cfg) ==
    LET best == Max({cfg.topicMap[k] : k \in s.topics \cap DOMAIN cfg.topicMap}
                    \cup {0})
    IN  CASE s.type \notin cfg.topicTypes -> 100
          [] best > 0 -> best
          [] OTHER -> cfg.topicDefault

TierWeight(s, cfg) ==
    IF s.type \in DOMAIN cfg.signalTiers
    THEN cfg.tierWeights[cfg.signalTiers[s.type]] ELSE 0

(* round4: in ten-thousandths.                                             *)
Contribution(s, cfg) ==
    (TierWeight(s, cfg) * cfg.multipliers[MappedLevel(s.type)]
        * RecencyFactor(s, cfg) * TopicFactor(s, cfg) + 50000) \div 100000

(* Mutant: the contribution of the newest signal.                          *)
BestOfNewest(observed, cfg) ==
    Contribution(CHOOSE s \in observed : \A t \in observed : s.age <= t.age, cfg)

Best(observed, cfg) == Max({Contribution(s, cfg) : s \in observed})

(* scoreSignals: the strength of one target's signals, round3.             *)
Strength(group, cfg) ==
    LET current == {s \in group : WithinWindow(s, cfg)}
        derived == {s \in current : IsDerived(s, cfg)}
        observed == current \ derived
        volume == Min({cfg.volumeCap,
                       cfg.volumePerExtra * (Cardinality(observed) - 1)})
        boost == Min({cfg.derivedCap, cfg.derivedBoost * Cardinality(derived)})
    IN  IF observed = {} THEN 0 ELSE (Best(observed, cfg) + volume + boost + 5) \div 10

DerivedConfidence == 200   \* DERIVED_EVIDENCE_CONFIDENCE

Confidence(s, stored, cfg) ==
    IF SignalClass(s) = "derived"
    THEN DerivedConfidence
    ELSE Min({1000, Strength({t \in stored : t.target = s.target}, cfg)})

(* TrigifyStoreAdapter.fetchSignals: the evidence of one stored signal.    *)
Project(s, stored, cfg) ==
    [key |-> <<"row", s.id>>, source |-> <<"trigify">>, age |-> s.age,
     confidence |-> Confidence(s, stored, cfg), restricted |-> FALSE,
     assertable |-> SignalTypes[s.type].copyAssertable, valid |-> TRUE]
=============================================================================
