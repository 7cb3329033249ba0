------------------------------- MODULE Planning -------------------------------
(***************************************************************************)
(* models/ and its two callers before there is a corpus: a role's call to  *)
(* a hosted model, retried by RetryingProvider inside one reservation of   *)
(* the ledger; the plans of orchestration/planner.py, round by round; and  *)
(* the draft of orchestration/drafter.py, a process without a run.         *)
(*                                                                         *)
(* Costs are whole units.  What the auditor finds short is any set of      *)
(* facets.  The cost events of the trace are those of CostLedger.          *)
(***************************************************************************)
EXTENDS Naturals, SequencesExt, FiniteSetsExt

CONSTANTS
  Facets,      \* the topic's facets, in their order
  WidenedId,   \* the id of the subtopic that widens a facet
  MaxAgents,   \* collection.max_research_agents
  MaxDepth,    \* collection.max_depth
  MaxAttempts, \* models/retry.py MAX_ATTEMPTS
  Input,       \* the estimated cost of the prompt
  Output,      \* the cost of max_output_tokens
  Thinking,    \* what a request with reasoning may cost beyond that
  Budget,      \* what the ledger starts with
  Plans,       \* what a model may answer a planner: sequences of rows
               \* [id, facets, question], "" for what is missing
  Drafts,      \* and a drafter: sequences of rows [id, label]
  MaxFacets    \* facets of a draft

VARIABLES
  task,        \* "plan", "replan" or "draft"
  step,        \* "begin", "call", "round", "over"
  attempt,     \* of the call
  ledger,      \* [reserved, committed]
  round,
  subtopics,   \* of the round: a sequence of [id, facets]
  gaps,        \* the facets replan wants, in their order
  before,      \* history: the subtopics of the round before
  draft,       \* the facets of the draft
  calls,       \* history: calls that were begun
  asked,       \* history: requests the provider was given
  retried,     \* rows of errors.jsonl with the resolution "retried"
  charged      \* history: what the provider bills

callVars == <<attempt, ledger, calls, asked, retried, charged>>
planVars == <<round, subtopics, gaps, before, draft>>
vars == <<task, step, callVars, planVars>>

Init ==
  /\ task \in {"plan", "draft"} /\ step = "begin" /\ attempt = 0
  /\ ledger = [reserved |-> 0, committed |-> 0]
  /\ round = 1 /\ subtopics = <<>> /\ gaps = <<>> /\ before = <<>> /\ draft = <<>>
  /\ calls = 0 /\ asked = 0 /\ retried = 0 /\ charged = 0

-----------------------------------------------------------------------------
(* CostLedger.spend around the provider's complete: the worst case is       *)
(* reserved, or BudgetExceeded ends the collection or the draft.            *)
Estimate == Input + Output
Affordable == ledger.committed + ledger.reserved + Estimate <= Budget

Begin ==
  /\ step = "begin"
  /\ IF Affordable
     THEN /\ step' = "call" /\ attempt' = 1 /\ calls' = calls + 1
          /\ ledger' = [ledger EXCEPT !.reserved = @ + Estimate]
     ELSE step' = "over" /\ UNCHANGED <<attempt, calls, ledger>>
  /\ UNCHANGED <<task, asked, retried, charged, planVars>>

Settle(actual) ==
  ledger' = [reserved |-> ledger.reserved - Estimate, committed |-> ledger.committed + actual]

(* A request that took its turn is billed for its prompt and its output, if *)
(* at all: one that timed out may have run to its end.                      *)
Bills == {0} \cup (Input..(Estimate + Thinking))

Asked(bill) == step = "call" /\ asked' = asked + 1 /\ charged' = charged + bill

(* Mutant of Again: the wait is a call of its own, with its reservation.    *)
MutantAgain ==
  /\ retried' = retried + (IF task = "draft" THEN 0 ELSE 1)
  /\ ledger' = [ledger EXCEPT !.reserved = @ + Estimate]
(* on_retry: the row of the attempt, where there is a run to record it in.  *)
Again ==
  /\ retried' = retried + (IF task = "draft" THEN 0 ELSE 1)
  /\ UNCHANGED ledger

(* transient, before the last attempt: recorded, slept on and asked again.  *)
Retry ==
  /\ attempt < MaxAttempts
  /\ \E bill \in Bills : Asked(bill)
  /\ attempt' = attempt + 1
  /\ Again
  /\ UNCHANGED <<task, step, calls, planVars>>

(* Any failure that is not asked again, a reply in the wrong shape among    *)
(* them: spend commits the prompt it estimated and no output, and the       *)
(* exception ends the collection or the draft.                              *)
Raise ==
  /\ \E bill \in Bills : Asked(bill)
  /\ Settle(Input)
  /\ step' = "over"
  /\ UNCHANGED <<task, attempt, calls, retried, planVars>>

-----------------------------------------------------------------------------
(* Planner.plan: the first rows, as many as were asked for, that have a     *)
(* question; an id the model left out is made of the question.              *)
Planned(rows, n) ==
  LET kept == SelectSeq(SubSeq(rows, 1, Min({n, Len(rows)})), LAMBDA r : r.question # "")
  IN [i \in DOMAIN kept |->
        [id |-> IF kept[i].id = "" THEN kept[i].question ELSE kept[i].id, facets |-> kept[i].facets]]

(* replan: a facet that is short, or that no subtopic of the round is for.  *)
Missing(short) ==
  LET covered == UNION {s.facets : s \in ToSet(subtopics)}
  IN SelectSeq(Facets, LAMBDA f : f \in short \/ f \notin covered)

(* What is new of a plan, or else one subtopic for each facet, whose id is  *)
(* the same every time.                                                     *)
Widened(rows) ==
  LET fresh == SelectSeq(Planned(rows, Len(gaps)), LAMBDA s : \A t \in ToSet(subtopics) : s.id # t.id)
  IN IF fresh # <<>> THEN fresh
     ELSE [i \in DOMAIN gaps |-> [id |-> WidenedId[gaps[i]], facets |-> {gaps[i]}]]

(* draft_topic: the first facets with a label, one for each slug; none at   *)
(* all refuses the draft.                                                   *)
Drafted(rows) ==
  LET Slug(r) == IF r.id = "" THEN r.label ELSE r.id
      New(seen, r) == r.label # "" /\ Len(seen) < MaxFacets /\ \A s \in ToSet(seen) : s # Slug(r)
  IN FoldLeft(LAMBDA seen, r : IF New(seen, r) THEN Append(seen, Slug(r)) ELSE seen, <<>>, rows)

(* The reply, with its usage: the reservation is released, what was used is *)
(* committed, and the caller reads the reply.                               *)
Reply ==
  /\ \E bill \in Input..(Estimate + Thinking) : Asked(bill) /\ Settle(bill)
  /\ \/ /\ task = "draft"
        /\ \E rows \in Drafts : draft' = Drafted(rows)
        /\ step' = "over"
        /\ UNCHANGED subtopics
     \/ /\ task # "draft"
        /\ \E rows \in Plans :
             subtopics' = IF task = "plan" THEN Planned(rows, MaxAgents) ELSE Widened(rows)
        /\ step' = "round"
        /\ UNCHANGED draft
  /\ UNCHANGED <<task, attempt, calls, retried, round, gaps, before>>

(* CollectionOrchestrator.collect: a round over the subtopics, if there are *)
(* any, and its audit; the collection ends, or goes on with the next plan,  *)
(* the old one where no facet is wanted.                                    *)
Round ==
  /\ step = "round"
  /\ \/ step' = "over" /\ UNCHANGED <<task, round, gaps, before>>
     \/ /\ subtopics # <<>> /\ round < MaxDepth
        /\ round' = round + 1
        /\ \E short \in SUBSET ToSet(Facets) : gaps' = Missing(short)
        /\ task' = "replan" /\ before' = subtopics
        /\ step' = IF gaps' = <<>> THEN "round" ELSE "begin"
  /\ UNCHANGED <<callVars, subtopics, draft>>

Next == Begin \/ Retry \/ Raise \/ Reply \/ Round
Spec == Init /\ [][Next]_vars

-----------------------------------------------------------------------------
(* The retries of a call happen inside the one reservation its caller       *)
(* holds, and each of them is on file: nothing is reserved between calls,   *)
(* one estimate during a call, and the requests of a run are its calls and  *)
(* the retries errors.jsonl has rows of (models/retry.py).                  *)
RetriesInOne ==
  /\ ledger.reserved = IF step = "call" THEN Estimate ELSE 0
  /\ task # "draft" => asked + (IF step = "call" THEN 1 ELSE 0) = calls + retried

(* A failed call that consumed tokens consumed them: the ledger has at      *)
(* least what the provider bills.                                           *)
ConsumedIsCommitted == charged <= ledger.committed + ledger.reserved

(* A plan is extended to cover the facets the audit found short.            *)
GapsArePlanned ==
  step = "round" /\ task = "replan" /\ gaps # <<>> =>
    ToSet(gaps) \subseteq UNION {s.facets : s \in ToSet(subtopics)}

(* A facet that is short is not given another round of what missed it.      *)
NotTheSameAgain == step = "round" /\ task = "replan" /\ gaps # <<>> => subtopics # before
=============================================================================
