----------------------------- MODULE Collection -----------------------------
(***************************************************************************)
(* The collection of a topic (orchestration/): rounds of discovery by      *)
(* concurrent branches, admission into the source registry in one fixed    *)
(* order, then extraction and ingestion by concurrent branches; a process  *)
(* that dies anywhere and one that carries on from the last round boundary *)
(* with the registry rehydrated from raw/sources.jsonl and claims.jsonl.   *)
(*                                                                         *)
(* A subtopic is its rank in the order of subtopic ids and asks for one    *)
(* facet, its own.  What providers, models and the region answer is chosen *)
(* freely from the constants.  A record handed to append() survives the    *)
(* death of the process: RunStore says under which conditions.             *)
(***************************************************************************)
EXTENDS Integers, FiniteSets, Sequences

CONSTANTS
  Branches,     \* how many subtopics there may be in a round
  Sources,      \* the candidates there are, by source_id
  Alike,        \* pairs of them that share an identifier or a title
  Valid,        \* those that _validate lets pass
  Claims,       \* <<source, n>>: claim n of that source
  Listings,     \* what the queries of each subtopic may bring, without repeats
  MaxSources,   \* max_sources_per_subtopic
  MaxDepth,     \* max_depth
  Minimum,      \* minimum_sources_per_subtopic
  MayRaise,     \* TRUE when the work of a branch may raise
  MaxDeaths     \* bound: deaths of the process

Subtopics == 1..Branches

ASSUME CollectionAssumption ==
  /\ Branches \in Nat \ {0}
  /\ Alike \subseteq {{s, t} : s, t \in Sources}
  /\ Valid \in SUBSET Sources /\ Claims \in SUBSET (Sources \X Nat)
  /\ Listings \in [Subtopics -> SUBSET Seq(Sources)]
  /\ MaxSources \in Nat \ {0} /\ MaxDepth \in Nat \ {0} /\ Minimum \in Nat
  /\ MayRaise \in BOOLEAN /\ MaxDeaths \in Nat

(* search_candidates drops a source_id it has seen (researcher.py:150). *)
ASSUME NoRepeats == \A b \in Subtopics : \A found \in Listings[b] :
  \A i, j \in 1..Len(found) : found[i] = found[j] => i = j

VARIABLES
  phase,     \* where the process is
  round,     \* round_number
  asked,     \* subtopics of the round
  pool,      \* candidates: what each branch found
  turn,      \* position in the round robin of admission
  registry,  \* CollectionState.sources: the state of each record
  owner,     \* its subtopic_id, 0 when there is no record
  fresh,     \* records of a branch not yet written to sources.jsonl
  claims,    \* CollectionState.claims
  unwritten, \* claims of a branch not yet written to claims.jsonl
  work,      \* where each branch is in extract_and_persist
  decision,  \* StopDecision.outcome
  gaps,      \* facets the audit reports as having no sources
  rows,      \* sources.jsonl: state and subtopic of the last row of a source
  rowCount,  \* how many rows it has there
  claimRows, \* claims.jsonl: rows of each claim
  saved,     \* collect_progress in state.json
  dropped,   \* history: records of branches that raised
  deaths

memory  == <<round, asked, pool, turn, registry, owner, fresh, claims,
             unwritten, work, decision, gaps>>
disk    == <<rows, rowCount, claimRows, saved>>
history == <<dropped, deaths>>
vars == <<phase, memory, disk, history>>

Unseen == [s \in Sources |-> "unseen"]
NoOne  == [s \in Sources |-> 0]
NoRow  == [state |-> "unseen", by |-> 0]

Init ==
  /\ phase = "plan" /\ round = 0 /\ asked = {}
  /\ pool = [b \in Subtopics |-> <<>>] /\ turn = 0
  /\ registry = Unseen /\ owner = NoOne
  /\ fresh = [b \in Subtopics |-> {}] /\ claims = {}
  /\ unwritten = [b \in Subtopics |-> {}]
  /\ work = [b \in Subtopics |-> "done"]
  /\ decision = "continue" /\ gaps = {}
  /\ rows = [s \in Sources |-> NoRow]
  /\ rowCount = [s \in Sources |-> 0] /\ claimRows = [c \in Claims |-> 0]
  /\ saved = [round |-> 0, asked |-> {}, decision |-> "none"]
  /\ dropped = {} /\ deaths = 0

Checkpoint(n, next, outcome) ==
  saved' = [round |-> n, asked |-> next, decision |-> outcome]

(* CollectionState.retained_sources. *)
Retained == {s \in Sources : registry[s] = "retained"}

SourcesFor(b) == {s \in Retained : owner[s] = b}

Audit == gaps' = {b \in Subtopics : SourcesFor(b) = {}}

(* The first audit, Planner.plan and the checkpoint of round 0.  A planner may
   answer no subtopic: the collection is over before its first round. *)
Plan ==
  /\ phase = "plan" /\ Audit
  /\ \E next \in SUBSET Subtopics :
       /\ asked' = next /\ Checkpoint(0, next, "continue")
       /\ phase' = IF next = {} THEN "finished" ELSE "search"
  /\ round' = 1
  /\ UNCHANGED <<pool, turn, registry, owner, fresh, claims, unwritten, work,
                 decision, rows, rowCount, claimRows, history>>

-----------------------------------------------------------------------------
(* Phase 1.  search_candidates: a provider that fails lists nothing. *)

Cut(found) == IF Len(found) <= MaxSources THEN found ELSE SubSeq(found, 1, MaxSources)

Found(b) == IF b \in asked THEN {Cut(found) : found \in Listings[b]} ELSE {<<>>}

Discover ==
  /\ phase = "search"
  /\ pool' \in [Subtopics -> UNION {Found(b) : b \in Subtopics}]
  /\ \A b \in Subtopics : pool'[b] \in Found(b)
  /\ phase' = "admit"
  /\ UNCHANGED <<round, asked, turn, registry, owner, fresh, claims, unwritten,
                 work, decision, gaps, disk, history>>

-----------------------------------------------------------------------------
(* Phase 2: the candidate at one index of every branch before the next index,
   branches by subtopic id. *)

(* Mutant of Place: one branch is drained before the next. *)
MutantPlace == <<(turn % MaxSources) + 1, (turn \div MaxSources) + 1>>

Place == <<(turn \div Branches) + 1, (turn % Branches) + 1>>

Index == Place[1]
Whose == Place[2]
Here  == Index <= Len(pool[Whose]) /\ Cardinality(fresh[Whose]) < MaxSources
Over  == \A b \in Subtopics : Len(pool[b]) <= turn \div Branches

(* Mutant of Known: only what was retained counts as seen. *)
MutantKnown(s) == \E t \in Sources :
  registry[t] = "retained" /\ (t = s \/ {s, t} \in Alike)

(* CollectionState.known: in any state. *)
Known(s) == \E t \in Sources :
  registry[t] # "unseen" /\ (t = s \/ {s, t} \in Alike)

Register(s, judged) ==
  /\ registry' = [registry EXCEPT ![s] = judged]
  /\ owner' = [owner EXCEPT ![s] = Whose]

Turn(s) ==
  /\ phase = "admit" /\ ~Over /\ Here /\ s = pool[Whose][Index]
  /\ turn' = turn + 1
  /\ UNCHANGED <<phase, round, asked, pool, claims, unwritten, work, decision,
                 gaps, disk, history>>

Admit(s) ==
  /\ Turn(s) /\ ~Known(s) /\ s \in Valid
  /\ Register(s, "retained")
  /\ fresh' = [fresh EXCEPT ![Whose] = @ \cup {s}]

Refuse(s) ==
  /\ Turn(s) /\ ~Known(s) /\ s \notin Valid
  /\ Register(s, "rejected")
  /\ UNCHANGED fresh

(* A record of its own, rejected as a duplicate of the one that is known. *)
Duplicate(s) ==
  /\ Turn(s) /\ Known(s) /\ registry[s] = "unseen"
  /\ Register(s, "rejected")
  /\ UNCHANGED fresh

Again(s) ==
  /\ Turn(s) /\ registry[s] # "unseen"
  /\ UNCHANGED <<registry, owner, fresh>>

Pass ==
  /\ phase = "admit" /\ ~Over /\ ~Here
  /\ turn' = turn + 1
  /\ UNCHANGED <<phase, round, asked, pool, registry, owner, fresh, claims,
                 unwritten, work, decision, gaps, disk, history>>

Admitted ==
  /\ phase = "admit" /\ Over
  /\ phase' = "extract"
  /\ work' = [b \in Subtopics |-> IF b \in asked THEN "extract" ELSE "done"]
  /\ UNCHANGED <<round, asked, pool, turn, registry, owner, fresh, claims,
                 unwritten, decision, gaps, disk, history>>

-----------------------------------------------------------------------------
(* Phase 3: extract_and_persist of one branch. *)

At(b, place) == phase = "extract" /\ work[b] = place
Step(b, place) == work' = [work EXCEPT ![b] = place]

inRound == <<phase, round, asked, pool, turn, owner, decision, gaps, saved, history>>

Nothing(b) ==
  /\ At(b, "extract") /\ fresh[b] = {}
  /\ Step(b, "done")
  /\ UNCHANGED <<inRound, registry, fresh, claims, unwritten, rows, rowCount,
                 claimRows>>

About(b) == {c \in Claims : c[1] \in fresh[b]}

(* add_claim: content-addressed, so a claim already held folds. *)
New(said) == said \ claims

(* The model answers; a claim about a source of no concern is dropped. *)
Extract(b) ==
  /\ At(b, "extract") /\ fresh[b] # {}
  /\ \E said \in SUBSET About(b) :
       /\ claims' = claims \cup said
       /\ unwritten' = [unwritten EXCEPT ![b] = New(said)]
  /\ Step(b, "claims")
  /\ UNCHANGED <<inRound, registry, fresh, rows, rowCount, claimRows>>

WriteClaim(b) ==
  /\ At(b, "claims")
  /\ \E c \in unwritten[b] :
       /\ claimRows' = [claimRows EXCEPT ![c] = @ + 1]
       /\ unwritten' = [unwritten EXCEPT ![b] = @ \ {c}]
  /\ UNCHANGED <<inRound, registry, fresh, claims, work, rows, rowCount>>

ClaimsWritten(b) == unwritten[b] = {}

(* Ingestor.submit and its receipts: some may report an error. *)
Submit(b) ==
  /\ At(b, "claims") /\ ClaimsWritten(b)
  /\ \E failed \in SUBSET fresh[b] :
       registry' = [s \in Sources |-> IF s \in failed THEN "failed" ELSE registry[s]]
  /\ Step(b, "rows")
  /\ UNCHANGED <<inRound, fresh, claims, unwritten, rows, rowCount, claimRows>>

(* SourceRecord.as_record. *)
AsRecord(s) == [state |-> registry[s], by |-> owner[s]]

WriteSource(b) ==
  /\ At(b, "rows")
  /\ \E s \in fresh[b] :
       /\ rows' = [rows EXCEPT ![s] = AsRecord(s)]
       /\ rowCount' = [rowCount EXCEPT ![s] = @ + 1]
       /\ fresh' = [fresh EXCEPT ![b] = @ \ {s}]
  /\ UNCHANGED <<inRound, registry, claims, unwritten, work, claimRows>>

Finish(b) ==
  /\ At(b, "rows") /\ fresh[b] = {}
  /\ Step(b, "done")
  /\ UNCHANGED <<inRound, registry, fresh, claims, unwritten, rows, rowCount,
                 claimRows>>

(* _parallel: the budget guard, the model, the region or a walk over claims
   that another branch adds to raised.  The error is recorded and the round
   continues; claims this branch held stay in memory, written or not. *)
Raise(b) ==
  /\ MayRaise
  /\ At(b, "claims") \/ (At(b, "extract") /\ fresh[b] # {})
  /\ Step(b, "failed")
  /\ dropped' = dropped \cup fresh[b]
  /\ UNCHANGED <<phase, round, asked, pool, turn, owner, decision, gaps, saved,
                 deaths, registry, fresh, claims, unwritten, rows, rowCount, claimRows>>

-----------------------------------------------------------------------------
(* The end of a round. *)

Covered == \A b \in Subtopics : Cardinality(SourcesFor(b)) >= Minimum

(* Mutant of RoundDone: a branch that raised is waited for. *)
MutantWaits == phase = "extract" /\ \A b \in Subtopics : work[b] = "done"

RoundDone == phase = "extract" /\ \A b \in Subtopics : work[b] \in {"done", "failed"}

(* StoppingCalculus.evaluate: the budget or the time may be spent, conditions
   other than facet_minimums may not hold. *)
Outcomes ==
  {"stopped"} \cup (IF Covered THEN {"sufficient"} ELSE {})
              \cup (IF round >= MaxDepth THEN {"round_limit"} ELSE {"continue"})

(* The locals of _run_round are gone. *)
Forget ==
  /\ pool' = [b \in Subtopics |-> <<>>] /\ turn' = 0
  /\ fresh' = [b \in Subtopics |-> {}]
  /\ unwritten' = [b \in Subtopics |-> {}]
  /\ work' = [b \in Subtopics |-> "done"]

Decide ==
  /\ RoundDone /\ Audit /\ Forget
  /\ \E outcome \in Outcomes \ {"continue"} :
       decision' = outcome /\ Checkpoint(round, asked, outcome)
  /\ phase' = "finished"
  /\ UNCHANGED <<round, asked, registry, owner, claims, rows, rowCount,
                 claimRows, history>>

(* Planner.replan: widened subtopics, or the same again. *)
NextRound ==
  /\ RoundDone /\ Audit /\ Forget /\ "continue" \in Outcomes
  /\ \E next \in (SUBSET Subtopics) \ {{}} :
       asked' = next /\ Checkpoint(round, next, "continue")
  /\ round' = round + 1 /\ phase' = "search"
  /\ UNCHANGED <<registry, owner, claims, decision, rows, rowCount, claimRows,
                 history>>

(* cmd_collect marks the stage completed. *)
Complete ==
  /\ phase = "finished"
  /\ phase' = "completed"
  /\ UNCHANGED <<memory, disk, history>>

-----------------------------------------------------------------------------
(* The process is killed, or the planner or the auditor raise.  Nothing but
   the files is left. *)
Die ==
  /\ phase \notin {"completed", "down"}
  /\ deaths < MaxDeaths /\ deaths' = deaths + 1
  /\ phase' = "down"
  /\ round' = 0 /\ asked' = {} /\ Forget
  /\ registry' = Unseen /\ owner' = NoOne /\ claims' = {}
  /\ decision' = "continue" /\ gaps' = {}
  /\ UNCHANGED <<disk, dropped>>

(* Mutant of Rehydrated: claims come back, the registry starts empty. *)
MutantRehydrated == Unseen

Rehydrated == [s \in Sources |-> rows[s].state]

RowOf(b) == [state |-> "retained", by |-> b]

(* collect --resume: rehydrate, audit, then the record of the last boundary. *)
Resume ==
  /\ phase = "down"
  /\ registry' = Rehydrated
  /\ owner' = [s \in Sources |-> rows[s].by]
  /\ claims' = {c \in Claims : claimRows[c] > 0}
  /\ decision' = IF saved.decision = "none" THEN "continue" ELSE saved.decision
  /\ asked' = saved.asked
  /\ round' = IF saved.decision = "none" THEN 0 ELSE saved.round + 1
  /\ phase' = CASE saved.decision = "none" -> "plan"
                [] saved.decision = "continue" /\ saved.asked # {} -> "search"
                [] OTHER -> "finished"
  /\ gaps' = {b \in Subtopics : \A s \in Sources : rows[s] # RowOf(b)}
  /\ UNCHANGED <<pool, turn, fresh, unwritten, work, disk, history>>

-----------------------------------------------------------------------------
Consider == \E s \in Sources : Admit(s) \/ Refuse(s) \/ Duplicate(s) \/ Again(s)

Work(b) ==
  \/ Nothing(b) \/ Extract(b) \/ WriteClaim(b) \/ Submit(b)
  \/ WriteSource(b) \/ Finish(b) \/ Raise(b)

Lead == Plan \/ Discover \/ Consider \/ Pass \/ Admitted \/ Decide \/ NextRound
        \/ Complete

Next == Lead \/ (\E b \in Subtopics : Work(b)) \/ Die \/ Resume

Spec == Init /\ [][Next]_vars

(* The process runs while it lives, a thread of its pool too, and whoever
   watches the run resumes it. *)
FairSpec == Spec /\ WF_vars(Lead) /\ WF_vars(Resume)
                 /\ \A b \in Subtopics : WF_vars(Work(b))

-----------------------------------------------------------------------------
(* Every variable has its type. *)
TypeOK ==
  /\ phase \in {"plan", "search", "admit", "extract", "finished", "completed", "down"}
  /\ round \in Nat /\ asked \in SUBSET Subtopics /\ turn \in Nat
  /\ pool \in [Subtopics -> Seq(Sources)]
  /\ registry \in [Sources -> {"unseen", "rejected", "retained", "failed"}]
  /\ owner \in [Sources -> Subtopics \cup {0}]
  /\ fresh \in [Subtopics -> SUBSET Sources]
  /\ claims \in SUBSET Claims /\ unwritten \in [Subtopics -> SUBSET Claims]
  /\ work \in [Subtopics -> {"extract", "claims", "rows", "done", "failed"}]
  /\ decision \in {"continue", "stopped", "sufficient", "round_limit"}
  /\ gaps \in SUBSET Subtopics
  /\ rows \in [Sources -> [state : {"unseen", "retained", "failed"},
                           by : Subtopics \cup {0}]]
  /\ rowCount \in [Sources -> Nat] /\ claimRows \in [Claims -> Nat]
  /\ saved \in [round : Nat, asked : SUBSET Subtopics,
                decision : {"none", "continue", "stopped", "sufficient", "round_limit"}]
  /\ dropped \in SUBSET Sources /\ deaths \in Nat

(* However often the process dies between two rows, no source and no claim is
   written twice: the rows of the dead are known to the living. *)
WrittenOnce ==
  /\ \A s \in Sources : rowCount[s] <= 1
  /\ \A c \in Claims : claimRows[c] <= 1

(* Two listings of one work are never both in the corpus, whichever branches
   found them and whichever process admitted them. *)
OneRecordPerWork ==
  \A s, t \in Sources : {s, t} \in Alike /\ s # t =>
    ~(rows[s].state # "unseen" /\ rows[t].state # "unseen")

(* A source that two branches found belongs to the one that listed it higher,
   on a tie to the lower subtopic id: thread scheduling has no say. *)
HighestListingOwns ==
  \A b, d \in Subtopics : \A s \in fresh[b] :
    \A i \in 1..Len(pool[b]), j \in 1..Len(pool[d]) :
      pool[b][i] = s /\ pool[d][j] = s => i < j \/ (i = j /\ b <= d)

(* A source on file is never extracted again, so its row comes after the rows
   of all its claims: a death in between would lose them for good. *)
ClaimsBeforeSource ==
  \A c \in claims : rows[c[1]].state # "unseen" => claimRows[c] > 0

(* At a round boundary the files hold what memory holds, but for the records
   of branches that raised and claims about them: a process that resumes sees
   the rest of the corpus as this one does, and nothing this one does not. *)
BoundaryOnFile ==
  phase \in {"search", "finished", "completed"} =>
    /\ \A s \in Retained \ dropped : rows[s] = RowOf(owner[s])
    /\ \A s \in Sources : rows[s].state = "retained" => s \in Retained
    /\ \A c \in Claims : claimRows[c] > 0 => c \in claims
    /\ \A c \in claims : claimRows[c] > 0 \/ c[1] \in dropped

(* A collection called sufficient, in which no branch raised, has its minimum
   of sources for every facet on file, also for a process that resumes it. *)
SufficientOnFile ==
  decision = "sufficient" /\ dropped = {} => \A b \in Subtopics :
    Minimum <= Cardinality({s \in Sources : rows[s] = RowOf(b)})

(* A candidate is judged once: what was refused, or failed to be ingested,
   is not taken up again while the process lives. *)
JudgedOnce == [][
  phase' # "down" => \A s \in Sources :
    registry[s] \in {"rejected", "failed"} => registry'[s] = registry[s]]_vars

Promise == INSTANCE Corpus WITH
  corpus <- {s \in Sources : rows[s].state # "unseen"},
  notes  <- {c \in Claims : claimRows[c] > 0},
  closed <- phase = "completed"

(* To who reads the files the collection is a Corpus: across branches, rounds,
   deaths and resumptions sources.jsonl and claims.jsonl only grow, by one
   source that is like none listed or one claim of a source not yet listed,
   and stay as they are once the stage is completed. *)
ImplementsCorpus == Promise!Spec

(* Whoever dies and whatever raises, the collection ends. *)
CollectionEnds == <>(phase = "completed")

(* orchestrator.py:376-378: "A branch that raises is recorded and the round
   continues: one failed subtopic is a coverage gap the audit will report". *)
FailedBranchIsAGap ==
  phase = "finished" => \A b \in Subtopics :
    (\E s \in dropped : owner[s] = b) /\ (\A s \in Sources : rows[s].by # b)
      => b \in gaps
=============================================================================
