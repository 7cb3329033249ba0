-------------------------------- MODULE Gates --------------------------------
(***************************************************************************)
(* evaluation/gates.py: what was observed against the bounds configured.   *)
(* A gate is configured by a record: enabled, sense ("max", "min" or       *)
(* "none") and bound.  An observation is {} when there is none.            *)
(***************************************************************************)
EXTENDS Integers, FiniteSets

Groups == { {"ingest_receipt_rate", "silent_loss", "benchmark_leakage", "snapshot_drift"},
            {"acl_leak", "stale_memory_leak", "as_of_correctness", "known_positive_exclusion"},
            {"control_regression", "negative_exposure_increase", "abstention"},
            {"budget"} }

(* evaluate_one: no observation is a skip, never a pass.                    *)
Outcome(spec, observed) ==
  IF ~spec.enabled \/ spec.sense = "none" \/ observed = {} THEN "skipped"
  ELSE IF \A x \in observed : IF spec.sense = "max" THEN x <= spec.bound ELSE x >= spec.bound
  THEN "passed" ELSE "failed"

(* evaluate_gates and GateSetResult.verdict: a configured gate is evaluated *)
(* in its group; no set at all is incomplete.  observed is a function from  *)
(* the gates something was observed for.                                    *)
Grouped(specs) == DOMAIN specs \cap UNION Groups
Outcomes(specs, observed) ==
  [g \in Grouped(specs) |-> Outcome(specs[g], IF g \in DOMAIN observed THEN observed[g] ELSE {})]

Verdict(outcomes) ==
  LET found == {outcomes[g] : g \in DOMAIN outcomes}
  IN IF "failed" \in found THEN "FAIL"
     ELSE IF "skipped" \in found \/ found = {} THEN "INCOMPLETE" ELSE "PASS"
=============================================================================
