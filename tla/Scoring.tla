------------------------------- MODULE Scoring -------------------------------
(***************************************************************************)
(* evaluation/answer_metrics.py, retrieval_metrics.py and metric.py: what  *)
(* one answer to one question scores.                                      *)
(*                                                                         *)
(* A score is {} when its evidence is insufficient and {v} otherwise, v in *)
(* units of 1/Scale.  Text is modelled by what the matchers decide of it:  *)
(* an answer has the facts its text satisfies; a claim, whether it         *)
(* satisfies one; a passage, the claims it contains.                       *)
(***************************************************************************)
EXTENDS Integers, Sequences, FiniteSets

CONSTANTS
  Scale,    \* scores are rounded down to 1/Scale
  SourceOf, \* the lab source of each artifact of the region
  TopK      \* metrics.k

ASSUME ScoringAssumption ==
  /\ Scale \in Nat \ {0} /\ TopK \in Nat \ {0}
  /\ DOMAIN SourceOf \cap {SourceOf[x] : x \in DOMAIN SourceOf} = {}  \* their ids differ

(* A question: its type, cohort, the facts it requires, whether they lie in *)
(* its facets, the sources that are acceptable evidence and those known not *)
(* to be.  The one fact of an abstention question is "abstain".             *)
QuestionType == [type : {"atomic_fact", "temporal", "contradiction", "abstention"}, cohort : STRING,
                 facts : SUBSET STRING, faceted : SUBSET STRING,
                 positives : SUBSET STRING, negatives : SUBSET STRING]

(* An answer.  hedged: the text has a marker of abstention; disagrees: one  *)
(* of disagreement; results: the artifacts of its searches, in order;       *)
(* a claim: whether it satisfies a required fact, what it cites, and whose  *)
(* passages contain it.                                                     *)
ClaimType(ids)  == [expected : BOOLEAN, cites : SUBSET ids, within : SUBSET ids]
AnswerType(ids) == [status : {"succeeded", "partial", "abstained", "failed"}, abstained : BOOLEAN,
                    hedged : BOOLEAN, disagrees : BOOLEAN, has : SUBSET STRING,
                    claims : Seq(ClaimType(ids)), read : SUBSET ids, results : Seq(ids)]

-----------------------------------------------------------------------------
(* insufficient: what is published of a metric without evidence has no value.*)
Insufficient == {}

(* MetricResult.validate: a result without a denominator is withheld, it is *)
(* not a score of zero.                                                     *)
Ratio(n, d) == IF d < 1 THEN Insufficient ELSE {(n * Scale) \div d}
Flag(b)     == Ratio(IF b THEN 1 ELSE 0, 1)

(* FactMatcher.matches: an abstention satisfies nothing but "abstain".      *)
Matched(q, a) ==
  {f \in q.facts : IF f = "abstain" THEN a.abstained \/ a.hedged ELSE ~a.abstained /\ f \in a.has}

(* retrieved_passages: what was read, or else what the searches returned.   *)
Passages(a) == a.read \cup {a.results[i] : i \in DOMAIN a.results}

(* supporting_citations: a passage this answer cites, and read, contains it.*)
Supported(a, c) == c.cites \cap Passages(a) \cap c.within # {}
Correct(a, c)   == c.expected \/ Supported(a, c)

(* How many claims of an answer are of a kind.                              *)
IsOf(kind, a, c) ==
  CASE kind = "correct"   -> Correct(a, c)
    [] kind = "supported" -> Supported(a, c)
    [] kind = "cited"     -> c.cites # {}
    [] kind = "valid"     -> c.cites \cap Passages(a) # {}
Claims(a, kind) == Cardinality({i \in DOMAIN a.claims : IsOf(kind, a, a.claims[i])})

(* _naming: what is cited, and the lab sources of it.                       *)
Cited(a)  == UNION {a.claims[i].cites : i \in DOMAIN a.claims}
Named(ids) == ids \cup {SourceOf[x] : x \in ids \cap DOMAIN SourceOf}

(* fact_f1: 2TP / (2TP + FP + FN), from the counts.                         *)
F1(q, a) ==
  LET tp == Cardinality(Matched(q, a))
      fn == Cardinality(q.facts) - tp
      fp == Len(a.claims) - Claims(a, "correct")
  IN Ratio(2 * tp, 2 * tp + fp + fn)

SaidNo(a) == a.abstained \/ a.hedged

(* answer_metrics.compute: what was required and is there; what was said    *)
(* and is right, rests on a passage, or does not; what was cited and read.  *)
Supports(a)      == Claims(a, "supported")
Recall(q, a)     == Ratio(Cardinality(Matched(q, a)), Cardinality(q.facts))
Precision(a)     == Ratio(Claims(a, "correct"), Len(a.claims))
SupportRate(a)   == Ratio(Supports(a), Len(a.claims))
Unsupported(a)   == Ratio(Len(a.claims) - Supports(a), Len(a.claims))
(* A claim cites one thing.                                                 *)
ValidCitations(a) ==
  Ratio(Claims(a, "valid"), Claims(a, "cited"))

(* _type_specific                                                           *)
Satisfied(q, a)  == Matched(q, a) = q.facts
AbstainsRight(q, a) == Flag(SaidNo(a) <=> q.type = "abstention")
Reconciles(q, a) == IF q.type = "contradiction" THEN Flag(a.disagrees /\ Satisfied(q, a)) ELSE {}
HoldsThen(q, a)  ==
  IF q.type = "temporal" THEN Flag(Satisfied(q, a) /\ Named(Cited(a)) \cap q.negatives = {}) ELSE {}
Complete(q, a)   ==
  Ratio(Cardinality(Matched(q, a) \cap q.faceted), Cardinality(q.facts \cap q.faceted))

AnswerScore(q, a, metric) ==
  CASE metric = "fact_recall"            -> Recall(q, a)
    [] metric = "fact_precision"         -> Precision(a)
    [] metric = "fact_f1"                -> F1(q, a)
    [] metric = "evidence_support_rate"  -> SupportRate(a)
    [] metric = "unsupported_claim_rate" -> Unsupported(a)
    [] metric = "citation_validity"      -> ValidCitations(a)
    [] metric = "abstention_accuracy"    -> AbstainsRight(q, a)
    [] metric = "contradiction_handling_accuracy" -> Reconciles(q, a)
    [] metric = "temporal_validity"      -> HoldsThen(q, a)
    [] metric = "answer_completeness_by_facet" -> Complete(q, a)

-----------------------------------------------------------------------------
(* ranked_results: an artifact that came twice keeps its best rank, and the *)
(* rank counts every result that came before.                               *)
Ranks(a) ==
  LET new == {i \in DOMAIN a.results : \A j \in 1..(i - 1) : a.results[j] # a.results[i]}
  IN {i \in new : Cardinality({j \in new : j <= i}) <= TopK}

(* retrieval_metrics.compute, but for the discounted gain: nothing is scored*)
(* for a question without known positives, except that it has none.         *)
Source(a, i)  == SourceOf[a.results[i]]
Hits(q, a)    == {i \in Ranks(a) : Source(a, i) \in q.positives}
Exposed(q, a) == {i \in Ranks(a) : Source(a, i) \in q.negatives}

Judged(q, a)  == Ratio(Cardinality(Hits(q, a) \cup Exposed(q, a)), Cardinality(Ranks(a)))
Reached(q, a) == Ratio(Cardinality({Source(a, i) : i \in Hits(q, a)}), Cardinality(q.positives))
Reciprocal(q, a) ==
  IF Hits(q, a) = {} THEN {0}
  ELSE Ratio(1, CHOOSE i \in Hits(q, a) : \A j \in Hits(q, a) : i <= j)
Exposure(q, a) == Ratio(Cardinality(Exposed(q, a)), Cardinality(Ranks(a)))

RetrievalScore(q, a, metric) ==
  CASE metric = "query_evidence_coverage" -> Flag(q.positives # {})
    [] q.positives = {} -> Insufficient
    [] metric = "result_evidence_coverage_at_k"  -> Judged(q, a)
    [] metric = "known_positive_hit_at_k"        -> Flag(Hits(q, a) # {})
    [] metric = "known_positive_recall_at_k"     -> Reached(q, a)
    [] metric = "known_positive_reciprocal_rank" -> Reciprocal(q, a)
    [] metric = "negative_exposure_at_k"         -> Exposure(q, a)

AnswerMetrics == {"fact_recall", "fact_precision", "fact_f1", "evidence_support_rate",
                  "unsupported_claim_rate", "citation_validity", "abstention_accuracy",
                  "contradiction_handling_accuracy", "temporal_validity", "answer_completeness_by_facet"}
RetrievalMetrics == {"query_evidence_coverage", "result_evidence_coverage_at_k", "known_positive_hit_at_k",
                     "known_positive_recall_at_k", "known_positive_reciprocal_rank",
                     "negative_exposure_at_k"}

(* engine._score: every metric of an arm's answer; only the arms that       *)
(* search have metrics of retrieval.                                        *)
Metrics(arm) == IF arm \in {"P0", "P1", "P2"} THEN AnswerMetrics \cup RetrievalMetrics ELSE AnswerMetrics
Score(q, a, metric) ==
  IF metric \in RetrievalMetrics THEN RetrievalScore(q, a, metric) ELSE AnswerScore(q, a, metric)
=============================================================================
