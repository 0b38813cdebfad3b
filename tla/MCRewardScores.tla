--------------------------- MODULE MCRewardScores ---------------------------
(* Instances for TLC of RewardScores. *)
EXTENDS RewardScores

Stage(p, f, s) == [passed |-> p, failed |-> f, skipped |-> s, counted |-> TRUE]
Empty == Stage({}, {}, {})

\* Two items that earn, the second licensed by the first, and two guardrails.
SmallRubric ==
    [a |-> [dim |-> "issue_coverage", weight |-> 3, requires |-> NoItem],
     b |-> [dim |-> "issue_coverage", weight |-> 1, requires |-> "a"],
     g |-> [dim |-> "honesty", weight |-> -3, requires |-> NoItem],
     h |-> [dim |-> "scope_discipline", weight |-> -1, requires |-> NoItem]]

Answers(a, b, g, h) == [a |-> a, b |-> b, g |-> g, h |-> h]
Good    == Answers("yes", "yes", "no", "no")
Cut     == Answers("yes", "yes", "cut", "no")
Tripped == Answers("yes", "yes", "yes", "no")
Poor    == Answers("no", "yes", "no", "yes")
Poorest == Answers("no", "no", "yes", "yes")
Mute    == Answers("uncited", "cut", "no", "no")

Run(base, p, f, s, says, soft) ==
    [report |-> [test |-> base, fix |-> Stage(p, f, s)],
     says |-> says, soft |-> soft, voided |-> FALSE]

\* A task of n f2p targets and the kept tests 101 and 102.
Plain(n, candidates) ==
    [record |-> [gold |-> [f2p |-> 1 .. n, s2p |-> {}, n2p |-> {}, p2p |-> {101, 102}],
                 test |-> Empty, fix |-> Empty],
     items |-> SmallRubric, candidates |-> candidates]

Base(n) == Stage({101, 102}, 1 .. n, {})

\* A run of Plain(n) that hits k targets and breaks nothing.
Hits(n, k, says, soft) ==
    Run(Base(n), (1 .. k) \cup {101, 102}, (k + 1) .. n, {}, says, soft)

\* Every shape of answer with one outcome, and one other outcome.
Process == Plain(5, {Hits(5, 5, Good, 50), Hits(5, 5, Cut, 50), Hits(5, 5, Tripped, 50),
                     Hits(5, 5, Poor, 90), Hits(5, 5, Poorest, 90), Hits(5, 5, Mute, 90),
                     Hits(5, 4, Good, 100),
                     [Hits(5, 5, Good, 90) EXCEPT !.voided = TRUE]})

\* Process scores that lie closer together than a spread that means anything.
Near == Plain(5, {Hits(5, 5, Good, s) : s \in {50, 53}} \cup {Hits(5, 4, Good, 90)})

\* Tests that break, by failing and by skipping, targets that passed before,
\* and a patch that does nothing.
Dirty == Stage({1, 101, 102}, 2 .. 5, {})
Regressions ==
    Plain(5, {Run(Dirty, {1, 101, 102}, 2 .. 5, {}, Good, 50),
              Run(Dirty, {1, 2, 3, 101, 102}, {4, 5}, {}, Poor, 50),
              Run(Dirty, {1, 2, 3, 101}, {4, 5}, {102}, Good, 90),
              Run(Dirty, {1, 2, 3, 101}, {4, 5, 102}, {}, Good, 90),
              Run(Dirty, {2, 3}, {1, 4, 5, 101}, {102}, Good, 90),
              Run(Dirty, {}, {}, {}, Good, 90)})

\* Outcomes one step of the width apart: a tenth, and a fiftieth of many.
Tenths    == Plain(10, {Hits(10, 10, Poorest, 0), Hits(10, 9, Good, 100), Hits(10, 8, Good, 100)})
Fiftieths == Plain(60, {Hits(60, 60, Poorest, 0), Hits(60, 59, Good, 100), Hits(60, 58, Good, 100)})

\* Three targets, two of which passed already when the run was tested; the
\* instance has no curated bucket and is curated from its stages.
Uncurated ==
    [Plain(3, {Run(Stage({1, 2, 101}, {3, 102}, {}), 1 .. 3 \cup {101}, {}, {}, Good, 90),
               Run(Base(3), 1 .. 3 \cup {101}, {}, {}, Poor, 90),
               Run(Base(3), 1 .. 2 \cup {101}, {3}, {}, Good, 90)})
       EXCEPT !.record = [gold |-> [f2p |-> {}, s2p |-> {}, n2p |-> {}, p2p |-> {}],
                          test |-> Stage({101}, {1, 2}, {3}), fix |-> Stage({1, 2, 3, 101}, {}, {})]]

EveryTask == {Process, Near, Regressions, Tenths, Fiftieths, Uncurated}

\* Twenty of the twenty-five targets were skipped, not failing, before the fix.
SkippedBefore ==
    {[record |-> [gold |-> [f2p |-> 1 .. 5, s2p |-> 6 .. 25, n2p |-> {}, p2p |-> {101, 102}],
                  test |-> Empty, fix |-> Empty],
      items |-> SmallRubric,
      candidates |-> {Run(Stage({101, 102}, 1 .. 5, 6 .. 25), (1 .. k) \cup {101, 102},
                          {}, (k + 1) .. 25, says, 50)
                      : k \in {23, 24, 25}, says \in {Good, Poor, Tripped}}]}
=============================================================================
