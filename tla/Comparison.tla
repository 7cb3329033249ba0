------------------------------ MODULE Comparison ------------------------------
(***************************************************************************)
(* evaluation/pairing.py, classification.py and statistics.py: two arms    *)
(* compared question by question, and what the difference is called.       *)
(*                                                                         *)
(* A pairing is the scores of the questions both arms have: samples is a   *)
(* function from them to pairs of baseline and treatment.  A mean is       *)
(* compared as a sum: its bound is multiplied by the number of samples.    *)
(* Questions are numbered.                                                 *)
(***************************************************************************)
EXTENDS Integers, Sequences, FiniteSets, FiniteSetsExt, Functions, Sums

CONSTANTS
  Threshold,     \* classification.practical_threshold
  LowerIsBetter, \* classification.lower_is_better: a set of metrics
  MinimumPaired, \* classification.minimum_paired_questions
  Coverage,      \* classification.minimum_pairing_coverage, percent
  MinimumN,      \* statistics.minimum_n_for_tests
  Discovery,     \* statistics.false_discovery_rate, percent
  Protected,     \* classification.protected_subgroups
  Cells          \* bound: questions compared, and so the unit of p-values, 1/2^Cells

ASSUME ComparisonAssumption ==
  /\ Threshold \in Nat \ {0} /\ MinimumPaired \in Nat /\ MinimumN \in Nat
  /\ Coverage \in 0..100 /\ Discovery \in 0..100 /\ Cells \in Nat

(* collapse_repetitions: the median of the scores a question has, the mean  *)
(* of the two in the middle: of those at least half are no more than, and   *)
(* those that more than half are, the least.                                *)
Median(values) ==
  LET scores    == {values[i] : i \in DOMAIN values}
      UpTo(v)   == 2 * Cardinality({i \in DOMAIN values : values[i] <= v})
      lower     == Min({v \in scores : UpTo(v) >= Cardinality(DOMAIN values)})
      upper     == Min({v \in scores : UpTo(v) > Cardinality(DOMAIN values)})
  IN (lower + upper) \div 2

(* pair_arms: baseline and treatment are functions from the questions each  *)
(* has a score for; the rest of wanted is excluded, with the reason.        *)
Pair(baseline, treatment, wanted) ==
  LET both == wanted \cap DOMAIN baseline \cap DOMAIN treatment
  IN [samples  |-> [q \in both |-> <<baseline[q], treatment[q]>>],
      excluded |-> [missing_in_both      |-> wanted \ (DOMAIN baseline \cup DOMAIN treatment),
                    missing_in_baseline  |-> (wanted \cap DOMAIN treatment) \ DOMAIN baseline,
                    missing_in_treatment |-> (wanted \cap DOMAIN baseline) \ DOMAIN treatment],
      eligible |-> Cardinality(wanted)]

Delta(p, q)  == p.samples[q][2] - p.samples[q][1]
SumOver(p, qs) ==
  LET last == Max(qs \cup {0}) IN Sum([q \in 1..last |-> IF q \in qs THEN Delta(p, q) ELSE 0], last)
Better(metric, x) == IF metric \in LowerIsBetter THEN -x ELSE x

(* bootstrap_interval, in units of the sum: draws of a mean lie between the *)
(* least and the greatest delta; how far out they fall is in the seed.      *)
Bootstrap(p, tight) ==
  LET qs == DOMAIN p.samples
      n  == Cardinality(qs)
      deltas == {Delta(p, q) : q \in qs}
  IN IF n < 2 THEN {}
     ELSE IF tight THEN {[lower |-> SumOver(p, qs), upper |-> SumOver(p, qs)]}
     ELSE {[lower |-> n * Min(deltas), upper |-> n * Max(deltas)]}

ExcludesZero(i) == i.lower > 0 \/ i.upper < 0

(* _subgroups: fewer than three questions are not a finding.                *)
Subgroup(p, metric, key, value, group) ==
  LET d == Better(metric, SumOver(p, group))
      n == Cardinality(group)
  IN [key |-> key, value |-> value, status |->
        IF n < 3 THEN "insufficient_evidence"
        ELSE IF d <= -Threshold * n THEN "regressed"
        ELSE IF d >= Threshold * n THEN "improved" ELSE "unchanged"]

Subgroups(p, metric, of) ==
  UNION {{Subgroup(p, metric, key, v, {q \in DOMAIN p.samples : of[key][q] = v}) :
            v \in {of[key][q] : q \in DOMAIN p.samples}} : key \in Protected}

(* mcnemar, of binary scores: the exact two-sided tail, in units of         *)
(* 1/2^Cells.  (wilcoxon_signed_rank needs six that differ.)                *)
Power(n) == Cardinality(SUBSET (1..n))
Tests(p, one) ==
  LET qs  == DOMAIN p.samples
      b   == Cardinality({q \in qs : p.samples[q] = <<one, 0>>})
      c   == Cardinality({q \in qs : p.samples[q] = <<0, one>>})
      n   == b + c
      low == IF b < c THEN b ELSE c
      tail == Cardinality({s \in SUBSET (1..n) : Cardinality(s) <= low}) * Power(Cells - n)
  IN IF n = 0 \/ \E q \in qs : ~({p.samples[q][1], p.samples[q][2]} \subseteq {0, one}) THEN {}
     ELSE {IF 2 * tail > Power(Cells) THEN Power(Cells) ELSE 2 * tail}

(* Mutant of Status: the subgroups are looked at only once the aggregate    *)
(* has improved.                                                            *)
MutantStatus(directed, n, interval, regressed) ==
  IF directed <= -Threshold * n THEN "regressed"
  ELSE IF directed >= Threshold * n /\ \A i \in interval : ExcludesZero(i)
  THEN IF regressed THEN "mixed" ELSE "improved"
  ELSE "unchanged"

(* The end of classify: what the mean and the subgroups amount to.  A       *)
(* regressed subgroup shows whatever the aggregate did.                     *)
Status(directed, n, interval, regressed) ==
  IF directed <= -Threshold * n THEN "regressed"
  ELSE IF regressed THEN "mixed"
  ELSE IF directed >= Threshold * n /\ \A i \in interval : ExcludesZero(i) THEN "improved"
  ELSE "unchanged"

(* classify, as engine._compare calls it: with no gate and no finding of    *)
(* comparability.                                                           *)
Classify(p, metric, tight, one, of) ==
  LET n == Cardinality(DOMAIN p.samples)
      enough   == n >= MinimumPaired /\ n * 100 >= Coverage * p.eligible
      interval == IF enough /\ n >= MinimumN THEN Bootstrap(p, tight) ELSE {}
      groups   == IF enough THEN Subgroups(p, metric, of) ELSE {}
      directed == Better(metric, SumOver(p, DOMAIN p.samples))
  IN [n |-> n, interval |-> interval, subgroups |-> groups,
      p |-> IF enough /\ n >= MinimumN THEN Tests(p, one) ELSE {},
      status |-> IF ~enough THEN "insufficient_evidence"
                 ELSE Status(directed, n, interval, \E g \in groups : g.status = "regressed")]

(* non_inferior: the worst the interval allows is within the margin; {}     *)
(* when there is no interval.                                               *)
NonInferior(c, metric, margin) ==
  {(IF metric \in LowerIsBetter THEN -i.upper ELSE i.lower) >= -margin * c.n : i \in c.interval}

(* benjamini_hochberg over a sequence of p-values, {} for a test that could *)
(* not run: the largest rank within its share decides, and all below it     *)
(* survive.                                                                 *)
Tested(ps) == {i \in DOMAIN ps : ps[i] # {}}

Rank(ps, i) ==
  Cardinality({j \in Tested(ps) : \E x \in ps[j], y \in ps[i] : x < y \/ (x = y /\ j <= i)})

Within(ps, i) ==
  \A x \in ps[i] : x * (Cardinality(Tested(ps)) * 100) <= Rank(ps, i) * (Discovery * Power(Cells))

(* Mutant of Survivors: it stops at the first that is above its share.      *)
MutantSurvivors(ps) ==
  {i \in Tested(ps) : \A j \in Tested(ps) : Rank(ps, j) <= Rank(ps, i) => Within(ps, j)}

Survivors(ps) ==
  {i \in Tested(ps) : \E j \in Tested(ps) : Rank(ps, i) <= Rank(ps, j) /\ Within(ps, j)}
=============================================================================
