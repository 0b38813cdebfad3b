----------------------------- MODULE RubricScore -----------------------------
(***************************************************************************)
(* The rubric channel's number for one run, assay/rubric.py, in            *)
(* ten-thousandths, for a single judge.                                    *)
(*                                                                         *)
(* items[i] is [dim, weight, requires]; a guardrail has a weight below 0.  *)
(* says[i] is what the judge's record says of i: "yes" or "no" with a      *)
(* citation, "cut" if it calls its evidence cut short, "uncited".          *)
(***************************************************************************)
EXTENDS Integers, FiniteSetsExt

Says == {"yes", "no", "cut", "uncited"}
NoItem == "none"

FLOOR_BAND == 500   \* .05

\* In hundredths.
DIMENSION_BUDGET ==
    [issue_coverage |-> 35, scope_discipline |-> 15, verification |-> 13,
     adherence |-> 12, maintainability |-> 10, honesty |-> 15]

\* The mass of an item, abs(weight).
Masses(items) ==
    [i \in DOMAIN items |-> IF items[i].weight < 0 THEN -items[i].weight ELSE items[i].weight]

Mass(items, dim) ==
    LET masses == Masses(items)
        mass   == MapThenSumSet(LAMBDA i : masses[i],
                                {i \in DOMAIN items : items[i].dim = dim})
    IN  IF mass = 0 THEN 1 ELSE mass

\* Every dimension shares its budget over its items.  The common factor (the
\* masses' product; the budgets' total) drops out of every quotient.
dimension_weights(items) ==
    LET dims   == {items[i].dim : i \in DOMAIN items}
        common == FoldSet(LAMBDA d, c : c * Mass(items, d), 1, dims)
        budget(d) == IF d \in DOMAIN DIMENSION_BUDGET THEN DIMENSION_BUDGET[d] ELSE 0
    IN  [i \in DOMAIN items |->
            (budget(items[i].dim) * items[i].weight)
              * (common \div Mass(items, items[i].dim))]

\* aggregate: one usable verdict decides.
Aggregate(says) ==
    [i \in DOMAIN says |-> IF says[i] \in {"cut", "uncited"} THEN "abstain" ELSE says[i]]

\* The items that license i, along requires until one is not in the rubric.
Licences(items, i) ==
    LET up[n \in 0 .. Cardinality(DOMAIN items)] ==
            IF n = 0 THEN {i}
            ELSE {items[j].requires : j \in up[n - 1]} \cap DOMAIN items
    IN  UNION {up[n] : n \in 1 .. Cardinality(DOMAIN items)}

apply_prerequisites(items, found) ==
    [i \in DOMAIN items |->
        IF \A p \in Licences(items, i) : found[p] = "yes" THEN found[i] ELSE "abstain"]

Outcomes(items, says) == apply_prerequisites(items, Aggregate(says))

\* Positive weights only: a guardrail never grows what it is measured against.
denominator(items, found) ==
    LET w == dimension_weights(items) IN
    MapThenSumSet(LAMBDA i : w[i], {i \in DOMAIN items : w[i] > 0 /\ found[i] # "abstain"})

\* The numerator keyed on passing, which turns the guardrails round.
Mutant_raw(items, found) ==
    LET w == dimension_weights(items) IN
    MapThenSumSet(LAMBDA i : w[i],
                  {i \in DOMAIN items : found[i] = (IF w[i] < 0 THEN "no" ELSE "yes")})

\* The numerator of raw: satisfying an item adds its weight, whatever its sign.
raw(items, found) ==
    LET w == dimension_weights(items) IN
    MapThenSumSet(LAMBDA i : w[i], {i \in DOMAIN items : found[i] = "yes"})

\* raw is at most 1; below 0 the score goes on falling, inside the floor band.
score(items, found) ==
    LET num == raw(items, found)
        den == denominator(items, found)
    IN  CASE den = 0            -> 0
          [] den > 0 /\ num >= 0 ->
                FLOOR_BAND + (((10000 - FLOOR_BAND) * num) \div den)
          [] OTHER              -> (FLOOR_BAND * den) \div (den - num)
=============================================================================
