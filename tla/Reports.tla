------------------------------- MODULE Reports -------------------------------
(***************************************************************************)
(* evaluation/evidence.py with engine._record_proof, and reports/: the     *)
(* proof an evaluation records of its answers, and what the reports        *)
(* conclude from its results: why a question got worse, what could be      *)
(* changed, and the vector at the top.  Wording and layout are left out.   *)
(***************************************************************************)
EXTENDS Analysis

CONSTANTS
  Policy,     \* proof.event_types as the engine reports them: from event types
              \* to [polarity, weight], the weight with its multipliers
  FactSource, \* the first source of each fact
  Receipted,  \* artifacts whose id is in sources.jsonl
  Listing,    \* regressions listed for a comparison
  Diagnosed,  \* and of those, the ones with a cause
  Shown,      \* rows of the table of attempts
  Frequency,  \* refinement.minimum_frequency
  Traces      \* what else the run left: [errors, receipts, duplicates, tuned]

VARIABLES
  proof,   \* ProofLedger.events, by arm, question and repetition
  reports  \* what cmd_report wrote, {} before

reportVars == <<proof, reports>>

RInit == AInit /\ proof = <<>> /\ reports = {}
-----------------------------------------------------------------------------
Served(a) == Range(a.results)

(* _record_proof, for one answer: what was served, what each claim cites,   *)
(* what the matcher says of each fact, and the negatives among what was     *)
(* served, by the ids both go by.                                           *)
Events(q, a) ==
  [type : {"served"}, target : Served(a), claim : {0}, fact : {""}]
    \cup (UNION {[type : {"cited"}, target : a.claims[i].cites, claim : {i}, fact : {""}] : i \in DOMAIN a.claims})
    \cup {[type |-> IF f \in Matched(q, a) THEN "deterministic_validation_pass" ELSE "deterministic_validation_fail",
           target |-> FactSource[f], claim |-> 0, fact |-> f] : f \in q.facts}
    \cup [type : {"explicit_reject"}, target : q.negatives \cap Served(a), claim : {0}, fact : {""}]

Answered == UNION {{a} \X {q} \X DOMAIN answers[q][a] : a \in Arms, q \in Asked}

Prove ==
  /\ phase = "score" /\ proof = <<>>
  /\ proof' = [k \in Answered |-> Events(Questions[k[2]], answers[k[2]][k[1]][k[3]])]
  /\ UNCHANGED <<analysisVars, reports>>

(* ProofLedger.summarise: the two sums never cancel, and what is unknown    *)
(* weighs nothing and judges nothing.                                       *)
Weight(es) == MapThenSumSet(LAMBDA e : Policy[e[2].type].weight, es)
Summary ==
  LET all   == UNION {{k} \X proof[k] : k \in DOMAIN proof}
      Of(p) == {e \in all : Policy[e[2].type].polarity = p}
      On(p) == {e[2].target : e \in Of(p)}
  IN [events |-> Cardinality(all), unknown |-> Cardinality(Of("unknown")),
      positive |-> Weight(Of("positive")), negative |-> Weight(Of("negative")),
      judged |-> On("positive") \cup On("negative"), conflicted |-> On("positive") \cap On("negative")]

-----------------------------------------------------------------------------
(* RunContext.same_document: two ids of one source, if the sources on file  *)
(* have both of them; else the same id.                                     *)
OnFile(x)  == x \in Receipted \/ x \notin DOMAIN SourceOf
Record(x)  == IF x \in DOMAIN SourceOf THEN SourceOf[x] ELSE x
SameDocument(x, y) == IF OnFile(x) /\ OnFile(y) THEN Record(x) = Record(y) ELSE x = y

(* RunContext.cited and expected_documents.                                 *)
Expected(q) == q.positives \cup {x \in Receipted : SourceOf[x] \in q.positives}

(* Mutant of Retrieved: the loop over the results ends with the first.      *)
MutantRetrieved(a) == SubSeq(a.results, 1, IF a.results = <<>> THEN 0 ELSE 1)
(* RunContext.retrieved: each document the searches returned, by its        *)
(* artifact or else by its source, at its first place.                      *)
Unseen(seen, x) == \A i \in DOMAIN seen : ~SameDocument(x, seen[i])
RetrieveOne(seen, x) ==
  IF Unseen(seen, x) THEN Append(seen, x)
  ELSE IF Unseen(seen, SourceOf[x]) THEN Append(seen, SourceOf[x]) ELSE seen

Retrieved(a) ==
  LET after[i \in 0..Len(a.results)] ==
        IF i = 0 THEN <<>> ELSE RetrieveOne(after[i - 1], a.results[i])
  IN after[Len(a.results)]

(* write_regressions: the questions that got worse, the worst first.        *)
Contests == {<<"P1", "P0">>, <<"P2", "P1">>, <<"P1", "S0">>, <<"P2", "S0">>}
Contest(t, b) == Pair(Medians(rows, b, "fact_f1"), Medians(rows, t, "fact_f1"), Asked)
Worsened(p)   == {q \in DOMAIN p.samples : Delta(p, q) < 0}
Place(p, q)   ==
  Cardinality({x \in Worsened(p) : Delta(p, x) < Delta(p, q) \/ (Delta(p, x) = Delta(p, q) /\ x <= q)})

(* _diagnose, the comparison of metrics: the mean over the repetitions.     *)
Less(metric, t, b, q) ==
  LET Of(arm) == Mean(rows, {<<arm, q, metric>>} \cap DOMAIN rows)
  IN \E x \in Of(t), y \in Of(b) : x < y

FromMetrics(t, b, q) ==
  IF Less("known_positive_recall_at_k", t, b, q) THEN "less retrieved"
  ELSE IF Less("negative_exposure_at_k", b, t, q) THEN "more negatives"
  ELSE IF Less("evidence_support_rate", t, b, q) THEN "less supported"
  ELSE "unexplained"

(* _from_answers: what the first repetition of the two shows, where it      *)
(* shows a cause.  The treatment is an arm that searches.                   *)
Diagnose(t, b, q) ==
  LET a == answers[q][t][1]
      other == answers[q][b][1]
      expected == Expected(Questions[q])
      found == {x \in Range(Retrieved(a)) : \E e \in expected : SameDocument(x, e)}
  IN IF a.status = "failed" THEN "failed"
     ELSE IF Questions[q].type = "abstention"
     THEN IF a.abstained THEN FromMetrics(t, b, q) ELSE "answered"
     ELSE IF a.abstained /\ ~other.abstained THEN "abstained"
     ELSE IF expected = {} THEN FromMetrics(t, b, q)
     ELSE IF found = {} THEN "retrieval miss"
     ELSE IF \A x \in found, c \in Cited(a) : ~SameDocument(c, x) THEN "found, not used"
     ELSE "used, not stated"

Regressions ==
  [c \in {c \in Contests : {c[1], c[2]} \subseteq Arms} |->
     LET p == Contest(c[1], c[2])
     IN {[question |-> q, place |-> Place(p, q), cause |-> Diagnose(c[1], c[2], q)] :
           q \in {q \in Worsened(p) : Place(p, q) <= Listing /\ Place(p, q) <= Diagnosed}}]

-----------------------------------------------------------------------------
(* The rows of a metric with one of the values.                             *)
RowsWith(arms, metric, values) ==
  UNION {{<<r[1], r[2], i>> : i \in {i \in DOMAIN rows[r] : rows[r][i] \cap values # {}}} :
           r \in RowsOf(rows, arms, metric)}

Candidate(trigger, of, frequency, questions) ==
  [trigger |-> trigger, of |-> of, frequency |-> frequency, questions |-> questions]
Often(trigger, of, found) ==
  IF Cardinality(found) < Frequency THEN {}
  ELSE {Candidate(trigger, of, Cardinality(found), {x[2] : x \in found})}

(* build_candidates: errors of a kind, misses of an arm, answers that rest  *)
(* on nothing, receipts without acceptance; and, whatever their number,     *)
(* exposure that memory raised and a corpus of duplicates.                  *)
Candidates(trace) ==
  LET kinds == {trace.errors[i].kind : i \in DOMAIN trace.errors}
      Errors(k) == {<<"", i>> : i \in {i \in DOMAIN trace.errors : trace.errors[i].kind = k}}
      exposed == <<"P1", "P0", "negative_exposure_at_k", "">>
      lost == {<<"", i>> : i \in {i \in DOMAIN trace.receipts :
                                    trace.receipts[i] \notin {"accepted", "indexed", "verified"}}}
  IN (UNION {Often("repeated_error", k, Errors(k)) : k \in kinds})
       \cup (UNION {Often("retrieval_miss", a, RowsWith({a}, "known_positive_hit_at_k", {0})) : a \in Arms})
       \cup Often("unsupported_claim", "", RowsWith(Arms, "unsupported_claim_rate", (Scale \div 2 + 1)..Scale))
       \cup (IF exposed \in DOMAIN comparisons
                /\ SumOver(comparisons[exposed].pairing, DOMAIN comparisons[exposed].pairing.samples) > 0
             THEN {Candidate("negative_exposure", "", comparisons[exposed].is.n, {})} ELSE {})
       \cup Often("repeated_error", "ingestion", lost)
       \cup {Candidate("duplication", "", d, {}) : d \in {d \in trace.duplicates : d > 25}}

(* write_errors_report: what is counted is counted over all of them, though *)
(* the table is cut.                                                        *)
ErrorsReport(errors) ==
  LET Where(Test(_)) == {i \in DOMAIN errors : Test(errors[i])}
  IN [retried |-> Cardinality(Where(LAMBDA e : e.resolution = "retried")),
      excluded |-> Where(LAMBDA e : e.excluded), table |-> 1..Min({Shown, Len(errors)})]

(* health_vector: a difference no comparison measured, or that of a         *)
(* treatment that was not applied, is none.                                 *)
Gap(t, b, metric) ==
  LET key == <<t, b, metric, "">>
  IN IF key \in DOMAIN comparisons
     THEN {SumOver(comparisons[key].pairing, DOMAIN comparisons[key].pairing.samples)} ELSE {}

Vector(trace) ==
  [evidence |-> IF Summary.events = 0 THEN {} ELSE {Scale - (Scale * Summary.unknown) \div Summary.events},
   corpus |-> Gap("P0", "C0", "fact_f1"), memory |-> Gap("P1", "P0", "fact_f1"),
   tuning |-> IF trace.tuned THEN Gap("P2", "P1", "fact_f1") ELSE {},
   noninferiority |-> IF "P2" \in DOMAIN decision THEN decision["P2"]
                      ELSE IF "P1" \in DOMAIN decision THEN decision["P1"] ELSE "insufficient_evidence",
   hard_gates |-> Verdict(gates)]

(* cmd_report, of an evaluation that is complete.                           *)
Report ==
  /\ phase = "done" /\ reports = {}
  /\ \E trace \in Traces :
       reports' = {[regressions |-> Regressions, candidates |-> Candidates(trace), proof |-> Summary,
                    errors |-> ErrorsReport(trace.errors), vector |-> Vector(trace)]}
  /\ UNCHANGED <<analysisVars, proof>>

Evaluate == proof # <<>> /\ ANext /\ UNCHANGED reportVars
RNext == Prove \/ Evaluate \/ Report
RSpec == RInit /\ [][RNext]_<<analysisVars, reportVars>>

-----------------------------------------------------------------------------
(* A result the metrics know for a known positive, by the source its receipt *)
(* names, and the reports for no document: the row of its source was written *)
(* without the artifact.                                                     *)
Unfiled(q, a) ==
  \E x \in Range(a.results) : x \notin Receipted /\ SourceOf[x] \in Questions[q].positives

(* What the metrics say of an answer whose question the regressions blame on *)
(* the searches of the arm: no hit in known_positive_hit_at_k, and the       *)
(* candidate for the misses of the arm, if there is one, has the question.   *)
Missed(r, arm, q) ==
  /\ rows[<<arm, q, "known_positive_hit_at_k">>][1] = {0}
  /\ \A k \in r.candidates : k.trigger = "retrieval_miss" /\ k.of = arm => q \in k.questions

(* The two reports and the metrics agree on where the fault lies, whatever   *)
(* artifacts are on file, but where the arm did return a known positive and  *)
(* its artifact is on no file the reports read.                              *)
MissIsMissed ==
  \A r \in reports : \A c \in DOMAIN r.regressions : \A x \in r.regressions[c] :
    x.cause = "retrieval miss" =>
      Missed(r, c[1], x.question) \/ Unfiled(x.question, answers[x.question][c[1]][1])

(* regressions.py:182-185 calls such an answer "a retrieval miss, not an     *)
(* answering one", for the searches "never returned a document holding the   *)
(* expected fact".  So the metrics never have a hit of it.                   *)
MissIsAMiss ==
  \A r \in reports : \A c \in DOMAIN r.regressions : \A x \in r.regressions[c] :
    x.cause = "retrieval miss" => Missed(r, c[1], x.question)

(* An answer said not to state the expected fact does not.                  *)
CauseFits ==
  \A r \in reports : \A c \in DOMAIN r.regressions : \A x \in r.regressions[c] :
    x.cause = "used, not stated" =>
      Matched(Questions[x.question], answers[x.question][c[1]][1]) # Questions[x.question].facts

(* A known negative that was served is rejected in the proof.               *)
RejectsSeen ==
  \A k \in DOMAIN proof :
    {SourceOf[x] : x \in Served(answers[k[2]][k[1]][k[3]])} \cap Questions[k[2]].negatives # {}
      => \E e \in proof[k] : e.type = "explicit_reject"
=============================================================================
