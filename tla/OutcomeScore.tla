---------------------------- MODULE OutcomeScore ----------------------------
(***************************************************************************)
(* The outcome score v2g of a run, compute_score_v2g of                    *)
(* benchmarks/multiswebench/scripts/eval/score_v2g.py, in hundredths (the  *)
(* code publishes two decimals).                                           *)
(*                                                                         *)
(* A stage of a report is [passed, failed, skipped : sets of tests,        *)
(* counted : the counts beside the lists agree with them].  A dataset      *)
(* record is [gold : the four curated buckets, test, fix : the stages it   *)
(* recorded], a run's report is [test, fix : stages].  Test names are in   *)
(* their curated spelling: the rewriting of Gradle's is left out.          *)
(***************************************************************************)
EXTENDS Integers, FiniteSetsExt

R0 == 20
EFF_MIN == 3

Larger(a, b) == IF a >= b THEN a ELSE b
Smaller(a, b) == IF a <= b THEN a ELSE b

\* round(x / y), a tie to the even side
Round(x, y) ==
    LET down == x \div y
        rest == 2 * (x % y)
    IN  IF rest > y \/ (rest = y /\ down % 2 = 1) THEN down + 1 ELSE down

Observed(stage) == stage.passed \cup stage.failed \cup stage.skipped

\* A test's bucket by what it did without and with the reference patch.
BucketFromRawArrays(test, fix) ==
    [f2p |-> test.failed \cap fix.passed,
     s2p |-> (test.skipped \ test.failed) \cap fix.passed,
     n2p |-> fix.passed \ Observed(test),
     p2p |-> (test.passed \ (test.failed \cup test.skipped)) \cap fix.passed]

\* An instance without any curated bucket is curated again from its stages.
Gold(record) ==
    IF \A b \in DOMAIN record.gold : record.gold[b] = {}
      THEN BucketFromRawArrays(record.test, record.fix)
      ELSE record.gold

Targets(gold) == gold.f2p \cup gold.s2p \cup gold.n2p

\* What must go on passing: the curated tests and whatever passed before.
PreserveSet(gold, report) == gold.p2p \cup report.test.passed

\* Only failing is breaking.
Mutant_Broken(gold, report) == PreserveSet(gold, report) \cap report.fix.failed

Broken(gold, report) ==
    PreserveSet(gold, report) \cap (report.fix.failed \cup report.fix.skipped)

EffectiveTargets(gold, report) == Targets(gold) \ report.test.passed

HitsNew(gold, report) ==
    (Targets(gold) \cap report.fix.passed) \ report.test.passed

Polluted(gold, report) ==
    LET before == Targets(gold) \cap report.test.passed IN
    /\ 10 * Cardinality(before) >= 8 * Cardinality(Targets(gold))
    /\ Cardinality(EffectiveTargets(gold, report)) < EFF_MIN

F2pDrift(gold, report) ==
    /\ gold.f2p # {}
    /\ 10 * Cardinality(gold.f2p \cap report.test.passed) >= 3 * Cardinality(gold.f2p)

\* The counts of the report do not agree, or the patched run has no result.
Unreadable(report) ==
    \/ ~report.fix.counted \/ ~report.test.counted
    \/ report.test.passed # {} /\ Observed(report.fix) = {}

Status(record, report) ==
    LET gold == Gold(record) IN
    IF Unreadable(report) THEN "invalid"
    ELSE IF Targets(gold) = {} THEN "vacuous"
    ELSE IF Observed(report.test) = {} \/ F2pDrift(gold, report) THEN "invalid"
    ELSE IF Polluted(gold, report) THEN "polluted_dataset"
    ELSE "scored"

\* One broken test costs a twentieth, less in a task of more than twenty
\* targets and preserved tests.  Targets that all passed before are polluted,
\* so the recall has a denominator here.
ScoreV2(gold, report) ==
    LET preserve == Cardinality(PreserveSet(gold, report))
        targets  == Cardinality(Targets(gold))
        denom    == Larger(R0, Smaller(Larger(1, preserve), targets))
        kept     == Larger(0, denom - Cardinality(Broken(gold, report)))
    IN  Round(100 * Cardinality(HitsNew(gold, report)) * kept,
              Cardinality(EffectiveTargets(gold, report)) * denom)

\* Every outcome without a score is published as 0.
compute_score_v2g(record, report) ==
    LET status == Status(record, report) IN
    [status |-> status,
     score  |-> IF status = "scored" THEN ScoreV2(Gold(record), report) ELSE 0]
=============================================================================
