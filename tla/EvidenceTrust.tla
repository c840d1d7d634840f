---------------------------- MODULE EvidenceTrust ----------------------------
(***************************************************************************)
(* How a snapshot sifts the evidence its providers return: deduplication   *)
(* (hygiene/dedup.ts), freshness, confidence and the tenant's allow and    *)
(* block lists (trust.ts, hygiene/staleness-sweeper.ts), and the choice of *)
(* the signal it speaks of (reason-generator.ts, next-move.ts).            *)
(* Evidence is a sequence of rows [key, source, age, confidence,           *)
(* restricted, assertable, valid]: key stands for the id without its       *)
(* provider and the hash of the content; source is a host name as the      *)
(* sequence of its labels; age is in half-days, negative for the future;   *)
(* confidence is in per mille; valid says the source has the form trust    *)
(* accepts.  The stages are sets of positions of that sequence, whose      *)
(* order they keep.                                                        *)
(***************************************************************************)
EXTENDS Integers, Sequences, SequencesExt

(* The first row of each key, wherever its copies stand.                   *)
DedupEvidence(rows) ==
    {i \in DOMAIN rows : \A j \in 1 .. i - 1 : rows[j].key # rows[i].key}

(* Mutant: the future is not looked for.                                   *)
EvaluateFreshnessOfAny(row, thresholds) == row.age \div 2 <= thresholds.maxDays

(* A row of the future is never fresh; ages are floored to whole days.     *)
EvaluateFreshness(row, thresholds) ==
    row.age >= 0 /\ row.age \div 2 <= thresholds.maxDays

EvaluateConfidence(row, thresholds) ==
    row.confidence >= thresholds.minConfidence

(* A pattern matches its host and the hosts below it.                      *)
Matches(source, patterns) == \E p \in patterns : IsSuffix(p, source)

(* Blank patterns are dropped, and an empty list is no list.               *)
Patterns(list) == {p \in list : p # <<>>}

Admits(lists, row) ==
    /\ ~ Matches(row.source, Patterns(lists.block))
    /\ \/ Patterns(lists.allow) = {}
       \/ Matches(row.source, Patterns(lists.allow))

(* Mutant: looked for after the deduplication.                             *)
HasRestrictedLate(rows) == \E i \in DedupEvidence(rows) : rows[i].restricted

HasRestricted(rows) == \E i \in DOMAIN rows : rows[i].restricted

(* applyAllowBlockLists, after the deduplication.                          *)
Sifted(rows, lists) == {i \in DedupEvidence(rows) : Admits(lists, rows[i])}

(* The flags of applySuppression, stale also for a row the lists dropped.  *)
Flags(rows, lists, thresholds) ==
    LET kept == Sifted(rows, lists)
    IN  [stale |-> \E i \in DedupEvidence(rows) :
                       ~ EvaluateFreshness(rows[i], thresholds),
         lowConfidence |-> \E i \in kept :
                               ~ EvaluateConfidence(rows[i], thresholds),
         degraded |-> \E i \in kept : ~ rows[i].valid]

(* Mutant: a derived signal qualifies like any other.                      *)
QualifiesDerived(row, thresholds) ==
    /\ EvaluateConfidence(row, thresholds)
    /\ row.age >= 0
    /\ row.age <= 2 * thresholds.maxDays

Qualifies(row, thresholds) ==
    /\ row.assertable
    /\ EvaluateConfidence(row, thresholds)
    /\ row.age >= 0
    /\ row.age <= 2 * thresholds.maxDays

(* The order of extractDominantSignal's reduce: the surer row, then the    *)
(* more recent one, then the earlier in the sequence.                      *)
Precedes(rows, i, j) ==
    \/ rows[i].confidence > rows[j].confidence
    \/ /\ rows[i].confidence = rows[j].confidence
       /\ \/ rows[i].age < rows[j].age
          \/ rows[i].age = rows[j].age /\ i <= j

(* extractDominantSignal: 0 when no row qualifies.                         *)
ExtractDominantSignal(rows, kept, thresholds) ==
    LET pool == {i \in kept : Qualifies(rows[i], thresholds)}
    IN  IF pool = {} THEN 0
        ELSE CHOOSE i \in pool : \A j \in pool : Precedes(rows, i, j)

(* pickDominant of the next move: the first of the surest rows.            *)
PickDominant(rows, kept) ==
    CHOOSE i \in kept :
        \A j \in kept : \/ rows[i].confidence > rows[j].confidence
                        \/ rows[i].confidence = rows[j].confidence /\ i <= j
=============================================================================
