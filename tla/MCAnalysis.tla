------------------------------ MODULE MCAnalysis ------------------------------
(* Values of the constants of Analysis and Reports.                         *)
EXTENDS Reports, TLC

(* The region's artifacts "a1", "a2" and "a3" are the sources "s1", "s2" and *)
(* "s3".  The row of "s3" was written before its artifact was known.        *)
MCSourceOf == [x \in {"a1", "a2", "a3"} |->
                 CASE x = "a1" -> "s1" [] x = "a2" -> "s2" [] OTHER -> "s3"]
MCFactSource == [f |-> "s1", g |-> "s3"]

Ask(type, cohort, fact, negatives) ==
  [type |-> type, cohort |-> cohort, facts |-> {fact}, faceted |-> {fact},
   positives |-> {MCFactSource[fact]}, negatives |-> negatives]

MCQuestions ==
  << Ask("atomic_fact", "temporal_holdout", "f", {}), Ask("atomic_fact", "temporal_holdout", "g", {}),
     Ask("atomic_fact", "control", "f", {"s2"}), Ask("temporal", "learned", "f", {"s2"}) >>

(* Answers: right; right with one claim too many; right but out of what is  *)
(* too late; wrong; abstaining; wrong and out of what is too late; failed.  *)
(* S0 reads its package and searches nothing.                               *)
Claim(expected, id, within) == [expected |-> expected, cites |-> {id}, within |-> within]
Right   == [status |-> "succeeded", abstained |-> FALSE, hedged |-> FALSE, disagrees |-> FALSE, has |-> {"f", "g"},
            claims |-> <<Claim(TRUE, "a1", {"a1"})>>, read |-> {"a1"}, results |-> <<"a1", "a2", "a1">>]
Wordy   == [Right EXCEPT !.claims = Append(@, Claim(FALSE, "a1", {})), !.results = <<"a2", "a1">>]
Later   == [Right EXCEPT !.claims = <<Claim(TRUE, "a2", {"a2"})>>, !.results = <<"a2", "a1">>]
Wrong   == [Right EXCEPT !.has = {}, !.claims = <<Claim(FALSE, "a2", {})>>, !.status = "partial"]
Silent  == [Right EXCEPT !.status = "abstained", !.abstained = TRUE, !.has = {}, !.claims = <<>>]
Astray  == [Wrong EXCEPT !.read = {"a2"}, !.results = <<"a2", "a3">>]
Failed  == [Silent EXCEPT !.status = "failed", !.abstained = FALSE, !.read = {}, !.results = <<>>]

Case(s0, p0, p1) == [S0 |-> <<[s0 EXCEPT !.results = <<>>]>>, P0 |-> <<p0>>, P1 |-> p1]

MCCases ==
  { Case(Right, Right, <<Wordy>>), Case(Later, Wrong, <<Right>>),
    Case(Right, Silent, <<Astray>>), Case(Silent, Failed, <<Silent, Right>>) }

MCPrimary == <<"fact_f1", "unsupported_claim_rate">>
MCMargin == [m \in {"fact_f1"} |-> 6]

Max0(n) == [enabled |-> TRUE, sense |-> "max", bound |-> n]
MCSpecs ==
  { [g \in {"snapshot_drift", "as_of_correctness", "control_regression", "budget"} |-> Max0(0)],
    [g \in {"snapshot_drift", "acl_leak", "drift_of_snapshot"} |-> Max0(0)],
    ("abstention" :> [enabled |-> TRUE, sense |-> "min", bound |-> 30])
      @@ ("negative_exposure_increase" :> [enabled |-> FALSE, sense |-> "max", bound |-> 0]) }
MCWorlds ==
  { [g \in {"snapshot_drift", "budget", "acl_leak"} |-> IF g = "acl_leak" THEN {} ELSE {0}],
    [g \in {"snapshot_drift", "budget", "acl_leak"} |-> IF g = "snapshot_drift" THEN {1} ELSE {}] }

(* Kinds of proof and their weights, in tens of a percent of a whole.       *)
MCPolicy ==
  [served |-> [polarity |-> "unknown", weight |-> 0], cited |-> [polarity |-> "positive", weight |-> 84],
   explicit_reject |-> [polarity |-> "negative", weight |-> 360],
   deterministic_validation_pass |-> [polarity |-> "positive", weight |-> 700],
   deterministic_validation_fail |-> [polarity |-> "negative", weight |-> 700]]

Error(kind, resolution) == [kind |-> kind, resolution |-> resolution, excluded |-> FALSE]
MCTraces ==
  { [errors |-> <<Error("search", "retried"), Error("search", "terminal"), Error("write", "terminal")>>,
     receipts |-> <<"indexed", "rejected", "failed">>, duplicates |-> {30}, tuned |-> FALSE] }
=============================================================================
