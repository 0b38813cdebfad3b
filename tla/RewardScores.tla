---------------------------- MODULE RewardScores ----------------------------
(***************************************************************************)
(* The published scores of the runs of one task: the outcome recorded when *)
(* a run is converted (converter.py), and the composition of outcome and   *)
(* process that assay's score command attaches to the runs it covers       *)
(* (cli.py cmd_score, _compose_group; compose.py).                         *)
(*                                                                         *)
(* A pass covers all runs or, with --models or --run, some of them, and    *)
(* with --prune it removes the numbers of the others.  Runs are added and  *)
(* judged between passes.  Outcomes are in hundredths and everything else  *)
(* in ten-thousandths, the precision at which they are published.          *)
(***************************************************************************)
EXTENDS OutcomeScore, RubricScore, SequencesExt

CONSTANTS
    Tasks,       \* [record, items, candidates]; a candidate is a run that may be
                 \* added, [report, says, soft : its checks' score, voided]
    MaxRuns,     \* bound on the runs of the task
    AllowNarrow  \* whether a pass may be narrowed

FiniteStage(s) == IsFiniteSet(s.passed) /\ IsFiniteSet(s.failed) /\ IsFiniteSet(s.skipped)

\* Lists are finite, weights are whole numbers, a checks' score is from 0 to 1.
TaskOK(t) ==
    /\ LET g == t.record.gold IN
          /\ IsFiniteSet(g.f2p) /\ IsFiniteSet(g.s2p)
          /\ IsFiniteSet(g.n2p) /\ IsFiniteSet(g.p2p)
    /\ FiniteStage(t.record.fix)
    /\ IsFiniteSet(DOMAIN t.items) /\ \A i \in DOMAIN t.items : t.items[i].weight \in Int
    /\ \A c \in t.candidates : /\ c.soft \in 0..100
                               /\ FiniteStage(c.report.test) /\ FiniteStage(c.report.fix)

ASSUME RewardAssumption ==
    /\ MaxRuns \in Nat /\ AllowNarrow \in BOOLEAN
    /\ \A t \in Tasks : TaskOK(t)

VARIABLES
    task,
    runs,        \* the runs' candidates, each with its outcome and, once there is a
                 \* verdict for every item, what a replay of the verdicts finds
    published,   \* published[r]: the composition in run r's process.json
    covered      \* the runs the last pass composed

vars == <<task, runs, published, covered>>

Unscored == [eval |-> -1, rl |-> -1, process |-> -1, rubric |-> -1]

(* The score of one run's process.                                         *)

NotJudged == [found |-> <<>>, rubric |-> 0, positive |-> 0]

\* Verdicts and items stay, so every pass replays them to the same numbers.
Replay(says) ==
    LET found == Outcomes(task.items, says) IN
    [found |-> found, rubric |-> score(task.items, found),
     positive |-> denominator(task.items, found)]

process_score(r) == Round(runs[r].soft * 100 + runs[r].replay.rubric, 2)
process_gate(r) == IF runs[r].voided THEN 0 ELSE 1

\* Without a positive item that was judged a run counts as unjudged.
is_judged(r) == runs[r].replay.positive > 0

(* alpha follows the task's number of targets.  2 * alpha = d / (1 + d) for *)
(* the gap d of one target, kept above .02 and alpha itself at most .05:    *)
(* 2 * alpha = 1 / (steps + 1) with steps = 1 / d between 9 and 50.         *)

target_count == Cardinality(task.record.gold.f2p) + Cardinality(task.record.gold.n2p)
steps == IF target_count < 9 THEN 9 ELSE IF target_count > 50 THEN 50 ELSE target_count

\* Twice the room alpha allows.
Mutant_combine(r, p) ==
    process_gate(r) * Round((steps - 1) * (100 * runs[r].outcome) + 2 * p, steps + 1)

combine(r, p) == process_gate(r) * Round(steps * (100 * runs[r].outcome) + p, steps + 1)

eval_score(r) == combine(r, process_score(r))

FLAT_STRATUM == 500

\* The stratum is the group.
Mutant_Stratum(r, scored) == scored

Stratum(r, scored) == {o \in scored : runs[o].outcome = runs[r].outcome}

stratify(r, stratum) ==
    LET procs == {process_score(o) : o \in stratum} IN
    IF Max(procs) - Min(procs) < FLAT_STRATUM THEN 5000
    ELSE Round(10000 * (process_score(r) - Min(procs)), Max(procs) - Min(procs))

rl_score(r, scored) == combine(r, stratify(r, Stratum(r, scored)))

Composition(r, scored) ==
    [eval |-> eval_score(r), rl |-> rl_score(r, scored),
     process |-> process_score(r), rubric |-> runs[r].replay.rubric]

-----------------------------------------------------------------------------

Init ==
    /\ task \in Tasks
    /\ runs = <<>> /\ published = <<>>
    /\ covered = {}

\* build_trajectory: a run's report is scored once, when it is converted.
Convert ==
    /\ Len(runs) < MaxRuns
    /\ \E c \in task.candidates :
          runs' = Append(runs, [says |-> c.says, soft |-> c.soft, voided |-> c.voided,
                                report |-> c.report, replay |-> NotJudged,
                                outcome |-> compute_score_v2g(task.record, c.report).score])
    /\ published' = Append(published, Unscored)
    /\ UNCHANGED <<task, covered>>

Judge(r) ==
    /\ runs[r].replay = NotJudged
    /\ runs' = [runs EXCEPT ![r].replay = Replay(runs[r].says)]
    /\ UNCHANGED <<task, published, covered>>

\* cmd_score --write.  A covered run that is unjudged is written without a
\* composition.
Pass(cover, prune) ==
    LET scored == {r \in cover : is_judged(r)} IN
    /\ published' = [r \in DOMAIN runs |->
                        IF r \in scored THEN Composition(r, scored)
                        ELSE IF r \in cover \/ prune THEN Unscored
                        ELSE published[r]]
    /\ covered' = scored
    /\ UNCHANGED <<task, runs>>

FullPass == Pass(DOMAIN runs, FALSE)

NarrowPass == AllowNarrow /\ \E cover \in SUBSET DOMAIN runs, prune \in BOOLEAN :
                 cover # {} /\ Pass(cover, prune)

Next ==
    \/ Convert
    \/ \E r \in DOMAIN runs : Judge(r)
    \/ FullPass
    \/ NarrowPass

Spec == Init /\ [][Next]_vars

-----------------------------------------------------------------------------

Scored(r) == published[r] # Unscored
Open(r) == Scored(r) /\ process_gate(r) = 1

\* Of two runs from the same state of the repository that make the same targets
\* pass, the one that stops fewer of the tests to be kept, by failing or by
\* skipping them, has the better outcome, as far as two decimals can tell: from
\* .20 on one test is a hundredth, while no more than twenty targets or twenty
\* kept tests count (broken, factor).
KeptTests(r) == Gold(task.record).p2p \cup runs[r].report.test.passed

Stops(r) == KeptTests(r) \cap (runs[r].report.fix.failed \cup runs[r].report.fix.skipped)

BreakingCosts ==
    \A r, q \in DOMAIN runs :
        (/\ runs[r].report.test = runs[q].report.test
         /\ HitsNew(Gold(task.record), runs[r].report) = HitsNew(Gold(task.record), runs[q].report)
         /\ Stops(r) \subseteq Stops(q) /\ Stops(r) # Stops(q)
         /\ Cardinality(Targets(Gold(task.record))) <= R0 \/ Cardinality(KeptTests(r)) <= R0
         /\ runs[r].outcome >= 20)
        => runs[r].outcome > runs[q].outcome

\* Of two runs that differ only in one guardrail, the one that trips it has no
\* better scores, also when nothing was judged of the guardrail in the other and
\* when both are below zero (RubricReport.raw, score).  Its rubric score is lower
\* as far as four decimals can tell, and always where it falls below zero.
Found(r) == runs[r].replay.found

\* The exact rubric scores of the sums lie in two bands, or a ten-thousandth apart.
Tells(den, num, sunk) ==
    \/ num >= 0 /\ sunk < 0
    \/ sunk >= 0 /\ (10000 - FLOOR_BAND) * (num - sunk) >= den
    \/ num < 0 /\ (FLOOR_BAND * den) * (num - sunk) >= (den - num) * (den - sunk)

TrippingCosts ==
    \A r, q \in DOMAIN runs : \A g \in DOMAIN task.items :
        (/\ Open(r) /\ Open(q)
         /\ runs[r].soft = runs[q].soft /\ runs[r].outcome = runs[q].outcome
         /\ task.items[g].weight < 0
         /\ Found(r)[g] # "yes" /\ Found(q)[g] = "yes"
         /\ \A i \in DOMAIN task.items \ {g} : Found(r)[i] = Found(q)[i])
        => /\ published[q].rubric <= published[r].rubric
           /\ published[q].eval <= published[r].eval
           /\ Tells(runs[r].replay.positive, raw(task.items, Found(r)), raw(task.items, Found(q)))
                => published[q].rubric < published[r].rubric

\* An outcome that is better by a target, as the task's width counts targets, or
\* by .02 in a large task, is never turned round by process, in neither score
\* and whatever passes the two runs were scored in (alpha_for_task, combine).
GapKept ==
    \A r, q \in DOMAIN runs :
        (/\ Open(r) /\ Open(q)
         /\ (runs[r].outcome - runs[q].outcome)
               * (IF target_count > 50 THEN 50 ELSE target_count) >= 100)
        => published[r].eval >= published[q].eval /\ published[r].rl >= published[q].rl

\* Within a pass and an outcome, score_rl orders runs as their process does,
\* and a spread of process too small to mean anything orders nothing, whatever
\* runs with another outcome the pass covers (stratify, _compose_group).
RlOrdered ==
    \A r, q \in {x \in covered : Open(x)} :
        LET process(x) == published[x].process IN
        runs[r].outcome = runs[q].outcome =>
        /\ process(r) >= process(q) => published[r].rl >= published[q].rl
        /\ (\A o, x \in covered :
               runs[o].outcome = runs[r].outcome /\ runs[x].outcome = runs[r].outcome
                 => process(o) - process(x) < FLAT_STRATUM)
           => published[r].rl = published[q].rl

(* The strengthening that makes these inductive: a run stays what it was    *)
(* converted from and is judged once, what is published of it composes its  *)
(* own numbers, and the last pass's numbers compose what that pass covered.  *)

IsSequence(s) == s \in Seq({s[k] : k \in DOMAIN s})

RunOK(r) ==
    \E c \in task.candidates : \E replay \in {NotJudged, Replay(c.says)} :
        runs[r] = [says |-> c.says, soft |-> c.soft, voided |-> c.voided,
                   report |-> c.report, replay |-> replay,
                   outcome |-> compute_score_v2g(task.record, c.report).score]

\* Whole shares, in ten-thousandths.
Shares == 0 .. 10000

Composed(r) ==
    /\ is_judged(r)
    /\ published[r].eval = eval_score(r) /\ published[r].process = process_score(r)
    /\ published[r].rubric = runs[r].replay.rubric
    /\ \E p \in Shares : published[r].rl = combine(r, p)

IInv ==
    /\ task \in Tasks
    /\ IsSequence(runs) /\ IsSequence(published) /\ Len(published) = Len(runs)
    /\ \A r \in DOMAIN runs : RunOK(r) /\ (Scored(r) => Composed(r))
    /\ covered \subseteq DOMAIN runs
    /\ \A r \in covered : is_judged(r) /\ published[r] = Composition(r, covered)

-----------------------------------------------------------------------------
(* What the repository says and the code does not do.                      *)

\* A run that hits a target more than another, and breaks nothing, is not
\* outranked by process.
OneTargetKept ==
    \A r, q \in DOMAIN runs :
        (/\ Open(r) /\ Open(q)
         /\ Stops(r) = {}
         /\ HitsNew(Gold(task.record), runs[q].report)
               \subseteq HitsNew(Gold(task.record), runs[r].report)
         /\ runs[q].outcome < runs[r].outcome)
        => published[r].eval >= published[q].eval

\* The score_rl of two runs with one outcome are comparable: the one with the
\* better process is not below.
RlComparable ==
    \A r, q \in DOMAIN runs :
        (/\ Open(r) /\ Open(q) /\ runs[r].outcome = runs[q].outcome
         /\ published[r].process >= published[q].process)
        => published[r].rl >= published[q].rl
=============================================================================
