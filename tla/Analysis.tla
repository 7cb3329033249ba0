------------------------------- MODULE Analysis -------------------------------
(***************************************************************************)
(* evaluation/engine.py from _score to _decide_non_inferiority: the        *)
(* answers of an evaluation are scored, averaged, compared arm by arm,     *)
(* held against the gates, and the decision is taken whether an arm rivals *)
(* the specialist.  Composes Scoring, Comparison and Gates in the order    *)
(* the engine calls them.                                                  *)
(***************************************************************************)
EXTENDS Scoring, Comparison, Gates

CONSTANTS
  Questions,  \* the questions asked: a sequence of records, see QuestionType
  Cases,      \* what the arms may make of a question: a set of functions from
              \* the arms to the answers of each repetition
  Primary,    \* metrics.primary, a sequence
  Margin,     \* specialist_noninferiority.margin: a function from metrics
  Minimum,    \* proof.minimum_evidence.per_metric_questions
  Specs,      \* metrics.gates: configurations, each a function from gates
  Worlds      \* what was observed outside the answers: functions from gates

Asked  == DOMAIN Questions
Arms   == UNION {DOMAIN c : c \in Cases}
Listed == <<"", "learned", "temporal_holdout", "control", "anchor">>  \* "" is every cohort

(* COMPARISONS: treatment, then baseline.                                   *)
Compared == << <<"P0", "C0">>, <<"P1", "P0">>, <<"P2", "P1">>, <<"P1", "S0">>, <<"P2", "S0">> >>

ASSUME AnalysisAssumption ==
  /\ Questions \in Seq(QuestionType) /\ Len(Questions) <= Cells
  /\ \A q \in Asked : IsFiniteSet(Questions[q].facts) /\ IsFiniteSet(Questions[q].positives)
  /\ Cases \subseteq [Arms -> Seq(AnswerType(DOMAIN SourceOf))]
  /\ Primary \in Seq(AnswerMetrics \cup RetrievalMetrics) /\ DOMAIN Margin \subseteq Range(Primary)
  /\ Margin \in [DOMAIN Margin -> Int] /\ Minimum \in Nat

VARIABLES
  answers,     \* the answers of every arm to each question
  tight,       \* how far the draws of the bootstrap fall, once it is drawn
  specs,       \* the gates configured, once they are read
  world,       \* what was observed outside the answers, likewise
  phase,       \* what the engine does next
  rows,        \* result.per_query, by arm, question and metric: a sequence of scores
  means,       \* result.aggregates: the mean of each arm and metric, as sum and count
  medians,     \* what pairing sees of each arm and metric
  comparisons, \* result.classifications
  survivors,   \* comparisons that survive the correction
  gates,       \* result.gates
  decision     \* result.non_inferiority

analysisVars == <<answers, specs, world, tight, phase, rows, means, medians, comparisons, survivors, gates, decision>>

AInit ==
  /\ answers \in [Asked -> Cases] /\ specs = <<>> /\ world = <<>> /\ tight = FALSE
  /\ phase = "score" /\ rows = <<>> /\ means = <<>> /\ medians = <<>> /\ comparisons = <<>> /\ survivors = {}
  /\ gates = <<>> /\ decision = <<>>

-----------------------------------------------------------------------------
(* _score: a row for every answer and metric.                               *)
Rows(given) ==
  [r \in {r \in Arms \X Asked \X (AnswerMetrics \cup RetrievalMetrics) : r[3] \in Metrics(r[1])} |->
     [i \in DOMAIN given[r[2]][r[1]] |-> Score(Questions[r[2]], given[r[2]][r[1]][i], r[3])]]

ScoreAll ==
  /\ phase = "score" /\ phase' = "aggregate" /\ rows' = Rows(answers)
  /\ UNCHANGED <<answers, specs, world, tight, means, medians, comparisons, survivors, gates, decision>>

(* Where a row of a table has scores, and the sum and number of the scores  *)
(* among some rows.                                                         *)
Value(s)          == CHOOSE v \in s : TRUE
Scored(table, r)  == {i \in DOMAIN table[r] : table[r][i] # {}}
Total(table, rs)  ==
  MapThenSumSet(LAMBDA r : MapThenSumSet(LAMBDA i : Value(table[r][i]), Scored(table, r)), rs)
Number(table, rs) == MapThenSumSet(LAMBDA r : Cardinality(Scored(table, r)), rs)

(* _aggregate: a mean over fewer rows than the minimum is withheld.         *)
Aggregate ==
  /\ phase = "aggregate" /\ phase' = "compare"
  /\ means' = [am \in {<<r[1], r[3]>> : r \in DOMAIN rows} |->
                LET rs == {r \in DOMAIN rows : <<r[1], r[3]>> = am}
                IN IF Number(rows, rs) >= Minimum /\ Number(rows, rs) > 0
                   THEN {[sum |-> Total(rows, rs), n |-> Number(rows, rs)]} ELSE {}]
  /\ UNCHANGED <<answers, specs, world, tight, rows, medians, comparisons, survivors, gates, decision>>

(* collapse_repetitions: the median of each question an arm has a score for.*)
Medians(table, a, m) ==
  [q \in {q \in Asked : <<a, q, m>> \in DOMAIN table /\ Scored(table, <<a, q, m>>) # {}} |->
     Median([i \in Scored(table, <<a, q, m>>) |-> Value(table[<<a, q, m>>][i])])]

MediansOf(table) == [am \in Arms \X Range(Primary) |-> Medians(table, am[1], am[2])]

InCohort(c) == {q \in Asked : c = "" \/ Questions[q].cohort = c}
Attribute == [key \in Protected |-> [q \in Asked |->
                IF key = "cohort" THEN Questions[q].cohort ELSE Questions[q].type]]

(* _compare: the family of comparisons, by pair of arms, metric and cohort, *)
(* of which those are made that have a pair; then the correction over it.   *)
Family ==
  LET within == Len(Primary) * Len(Listed)
  IN [i \in 1..(Len(Compared) * within) |->
        Compared[(i - 1) \div within + 1]
          \o <<Primary[((i - 1) % within) \div Len(Listed) + 1], Listed[((i - 1) % Len(Listed)) + 1]>>]

Keys(of) ==
  {k \in Range(Family) : {k[1], k[2]} \subseteq Arms
     /\ InCohort(k[4]) \cap DOMAIN of[<<k[1], k[3]>>] \cap DOMAIN of[<<k[2], k[3]>>] # {}}

Comparisons(of, close) ==
  [k \in Keys(of) |->
     LET p == Pair(of[<<k[2], k[3]>>], of[<<k[1], k[3]>>], InCohort(k[4]))
     IN [pairing |-> p, is |-> Classify(p, k[3], close, Scale, Attribute)]]

(* apply_multiple_comparison: each comparison enters with its test, if one   *)
(* ran.                                                                     *)
TestOf(i, compared) == IF Family[i] \in DOMAIN compared THEN compared[Family[i]].is.p ELSE {}
Corrected(compared) == {Family[i] : i \in Survivors([i \in DOMAIN Family |-> TestOf(i, compared)])}

Compare ==
  /\ phase = "compare" /\ phase' = "gates" /\ tight' \in BOOLEAN
  /\ medians' = MediansOf(rows)
  /\ comparisons' = Comparisons(medians', tight')
  /\ survivors' = Corrected(comparisons')
  /\ UNCHANGED <<answers, specs, world, rows, means, gates, decision>>

-----------------------------------------------------------------------------
(* _evaluate_gates, the observations that are made of the answers.          *)
RowsOf(table, arms, m) == {r \in DOMAIN table : r[1] \in arms /\ r[3] = m}
Mean(table, rs) == IF Number(table, rs) = 0 THEN {} ELSE {Total(table, rs) \div Number(table, rs)}

(* _control_regression: of a question asked again, the last row counts.     *)
ControlRegression(table) ==
  LET Of(a, q)   == Scored(table, <<a, q, "fact_f1">>)
      last(a, q) == Value(table[<<a, q, "fact_f1">>][Max(Of(a, q))])
      both == {q \in InCohort("control") : \A a \in {"P0", "P1"} : a \in Arms /\ Of(a, q) # {}}
  IN Ratio(Cardinality({q \in both : last("P1", q) < last("P0", q)}), Cardinality(both))

NegativeExposure(table) ==
  {y - x : x \in Mean(table, RowsOf(table, {"P0"}, "negative_exposure_at_k")),
           y \in Mean(table, RowsOf(table, {"P1"}, "negative_exposure_at_k"))}

(* _as_of_violations: the ids as they were cited, artifacts of the region   *)
(* or sources of the lab, against the sources known to be too late.         *)
AsOfViolations(given) ==
  LET temporal == {q \in Asked : Questions[q].type = "temporal"}
      Reaching(a, q) == {i \in DOMAIN given[q][a] : Cited(given[q][a][i]) \cap Questions[q].negatives # {}}
  IN IF temporal = {} THEN {}
     ELSE {Cardinality(UNION {{a} \X {q} \X Reaching(a, q) : a \in Arms, q \in temporal})}

Observed(table, given, outside) ==
  [g \in DOMAIN outside \cup {"abstention", "control_regression", "negative_exposure_increase",
                            "as_of_correctness"} |->
     CASE g \in DOMAIN outside -> outside[g]
       [] g = "abstention" -> Mean(table, RowsOf(table, {"P1", "P2"}, "abstention_accuracy"))
       [] g = "control_regression" -> ControlRegression(table)
       [] g = "negative_exposure_increase" -> NegativeExposure(table)
       [] g = "as_of_correctness" -> AsOfViolations(given)]

EvaluateGates ==
  /\ phase = "gates" /\ phase' = "decide"
  /\ specs' \in Specs /\ world' \in Worlds
  /\ gates' = Outcomes(specs', Observed(rows, answers, world'))
  /\ UNCHANGED <<answers, tight, rows, means, medians, comparisons, survivors, decision>>

OverBudget == "budget" \in DOMAIN world /\ \E x \in world["budget"] : x > 0

(* Mutant of Rivals: the holdout cohort is not required.                    *)
MutantRivals(arm) ==
  /\ Verdict(gates) = "PASS"
  /\ \A m \in DOMAIN Margin :
       /\ <<arm, "S0", m, "">> \in DOMAIN comparisons
       /\ NonInferior(comparisons[<<arm, "S0", m, "">>].is, m, Margin[m]) = {TRUE}

(* _decide_non_inferiority, with every requirement configured, as they are  *)
(* by default.                                                              *)
Rivals(arm) ==
  /\ Verdict(gates) = "PASS" /\ ~OverBudget
  /\ \A m \in DOMAIN Margin, c \in {"", "temporal_holdout"} :
       /\ <<arm, "S0", m, c>> \in DOMAIN comparisons
       /\ NonInferior(comparisons[<<arm, "S0", m, c>>].is, m, Margin[m]) = {TRUE}
  /\ \A k \in DOMAIN comparisons : k[1] = arm /\ k[2] = "S0" =>
       \A g \in comparisons[k].is.subgroups : g.status # "regressed"

Decide ==
  /\ phase = "decide" /\ phase' = "done"
  /\ decision' = [a \in Arms \cap {"P1", "P2"} |->
                   IF DOMAIN Margin = {} \/ "S0" \notin Arms THEN "insufficient_evidence"
                   ELSE IF Rivals(a) THEN "pass" ELSE "fail"]
  /\ UNCHANGED <<answers, specs, world, tight, rows, means, medians, comparisons, survivors, gates>>

ANext == ScoreAll \/ Aggregate \/ Compare \/ EvaluateGates \/ Decide

-----------------------------------------------------------------------------
(* Every variable has its type.                                             *)
ATypeOK ==
  /\ answers \in [Asked -> Cases] /\ tight \in BOOLEAN
  /\ specs \in Specs \cup {<<>>} /\ world \in Worlds \cup {<<>>}
  /\ phase \in {"score", "aggregate", "compare", "gates", "decide", "done"}
  /\ survivors \subseteq DOMAIN comparisons

(* A protected subgroup of three questions or more that lost the practical  *)
(* threshold shows in what its comparison is called, whatever the aggregate *)
(* and its interval did.                                                    *)
NothingHidden ==
  phase = "gates" => \A k \in DOMAIN comparisons :
    LET p == comparisons[k].pairing
        Of(key, value) == {q \in DOMAIN p.samples : Attribute[key][q] = value}
    IN (\E key \in Protected, q \in DOMAIN p.samples :
          LET group == Of(key, Attribute[key][q])
          IN Cardinality(group) >= 3
               /\ Better(k[3], SumOver(p, group)) <= -Threshold * Cardinality(group))
       => comparisons[k].is.status \in {"regressed", "mixed", "insufficient_evidence"}

(* The comparisons that survive the correction are those whose p-value is   *)
(* at most one at which the share of false discoveries is kept.             *)
SurvivorsKeepTheRate ==
  LET tested   == {i \in DOMAIN Family : TestOf(i, comparisons) # {}}
      P(i)     == Value(TestOf(i, comparisons))
      Below(t) == {j \in tested : P(j) <= P(t)}
      Kept(t)  == P(t) * (Cardinality(tested) * 100) <= Cardinality(Below(t)) * (Discovery * Power(Cells))
  IN phase = "gates" => survivors = {Family[i] : i \in {i \in tested : \E t \in tested : P(i) <= P(t) /\ Kept(t)}}

(* An arm is said to rival the specialist only if it was measured: every    *)
(* gate that was evaluated held what was observed, and on all questions and *)
(* on the holdout it lost no more than the margin of each metric.           *)
RivalsIsMeasured ==
  \A a \in DOMAIN decision : decision[a] = "pass" =>
    /\ \A g \in DOMAIN gates : specs[g].enabled /\ g \in DOMAIN Observed(rows, answers, world)
         /\ Observed(rows, answers, world)[g] # {}
    /\ \A m \in DOMAIN Margin, c \in {"", "temporal_holdout"} :
         LET p  == Pair(Medians(rows, "S0", m), Medians(rows, a, m), InCohort(c))
             qs == InCohort(c) \cap DOMAIN Medians(rows, a, m) \cap DOMAIN Medians(rows, "S0", m)
         IN qs # {} /\ Better(m, SumOver(p, qs)) >= -Margin[m] * Cardinality(qs)

(* An answer that reached past the instant of its question fails the gate   *)
(* of that name.                                                            *)
ForwardReachFails ==
  phase = "decide" /\ "as_of_correctness" \in DOMAIN gates =>
    \A q \in Asked, a \in Arms : Questions[q].type = "temporal" =>
      \A i \in DOMAIN answers[q][a] :
        Named(Cited(answers[q][a][i])) \cap Questions[q].negatives # {} => gates["as_of_correctness"] # "passed"

(* A gate of the configuration that was not evaluated is counted as skipped.*)
NoGateForgotten == phase = "decide" => DOMAIN gates = DOMAIN specs

(* A question is compared only when both arms answered it.                  *)
OnlyAnsweredCompared ==
  \A k \in DOMAIN comparisons : \A q \in DOMAIN comparisons[k].pairing.samples : \A a \in {k[1], k[2]} :
    \E i \in DOMAIN answers[q][a] : answers[q][a][i].status # "failed"

(* A gate that failed is not offset by a good score.                        *)
FailedGateNeverImproves ==
  phase = "done" /\ Verdict(gates) = "FAIL" => \A k \in DOMAIN comparisons : comparisons[k].is.status # "improved"
=============================================================================
