# A TLA+ development of the Pheasant lab

`pheasant-lab` runs an experiment: a swarm of researchers collects documents
about a topic into a *region* (an external document store with an index and a
memory), a benchmark is frozen over them, arms that use the region in
different ways answer its questions, and reports say what the differences are
worth. A run costs money, takes hours and is expected to be killed; its value
lies in a trace that can be believed afterwards. The modules here are about
that: who may drive a run, what is on disk when a process dies, what a resumed
process knows, what may be spent, what was collected, what the region holds,
what was asked of whom, and what may be concluded from the answers.

All modules are translated from `src/src/pheasant_lab/`; paths below are
relative to it, those of `docs/`, `tests/` and `README.md` to the repository. `PROJECT.json` maps every definition to its lines.

1. [The system](#1-the-system)
2. [The modules](#2-the-modules)
3. [What TLC checks](#3-what-tlc-checks)
4. [Where the code and its documents differ](#4-where-the-code-and-its-documents-differ)
5. [What is proved](#5-what-is-proved)
6. [What is not modelled](#6-what-is-not-modelled)
7. [What could come next](#7-what-could-come-next)

## 1. The system

    supervise()  --starts-->  collect | freeze-benchmark | evaluate | replay | report | verify
       | lock                    |  one process per stage, exit status 0 1 2 3 130
       v                         v
    supervisor/lock        RunState (state.json)   Tracer (raw/*.jsonl)   CostLedger
                                 ^ checkpoints          ^ every record        ^ every call
                                 |                      |                     |
    collect:   Planner -> Orchestrator -> Researcher (threads) -> providers, models, Ingestor -> client -> region
    freeze:    BenchmarkBuilder -> freezer -> leakage check
    evaluate:  engine -> arms -> models, Retriever -> client -> region; then scores, comparisons, gates
    report:    proofs, regressions, refinements, health vector
    console:   Launcher -> supervise() as a child; retention; settings draft; live view of a trace

| component | state | operations | what is hard | what makes it correct |
|---|---|---|---|---|
| Budget ledger (`budget.py`, `cli._restore_spend`) | committed and reserved amounts per bucket, under a lock; `cost.model_call` events | reserve, release, commit, `spend`, `record_external`, restore | branches race between release and commit; calls raise after they were sent; a new process rebuilds the ledger from the trace | no reservation leaks, no charge is lost or doubled, the overshoot is bounded |
| Run lock (`supervisor.RunLock`) | the file `supervisor/lock` | acquire, release | create, write, read, probe and unlink are separate system calls; holders are killed, or alive behind their release; pids are reused | one driver at a time; nobody is refused a run unless the process the lock names is still there |
| Supervisor (`supervisor.supervise`, `cli.main`) | stage, attempt, worst exit; `stages` in `state.json` | start, skip, retry, adopt, finish | the child outlives a killed supervisor; the first collect has no lock yet; exit statuses carry meaning | stages complete in order over one corpus; the exit code tells the truth |
| Run store (`tracing/events.py`, `lifecycle.py`) | `raw/*.jsonl` in buffers, page cache and on disk; `state.json` | append, emit, sync, save, close, repair, resume | kills and power cuts between any two steps; torn lines; files only some process opened | a checkpoint names nothing that is not on disk; event numbers have no gap; nothing follows a fragment |
| Collection (`orchestration/`) | source registry, claims, subtopics, round; `sources.jsonl`, `claims.jsonl`, `collect_progress` | plan, discover, admit, extract, submit, persist, decide, audit, rehydrate | branches in a thread pool; branches that raise; deaths between rows | no work twice, rows in an order a resumed process can use, the decision counts what is on file |
| Planner, drafter, models (`orchestration/planner.py`, `drafter.py`, `models/`) | subtopics of a round, gaps; attempts of a call | plan, replan, draft; call, retry, parse | a call is billed and fails; retries inside one reservation | a retry never reserves twice and is on file |
| Pheasant client and ingestion (`pheasant/client.py`, `capabilities.py`, `ingestion.py`, `receipts.py`) | session, tools, ids, the pipe of a child; paths, receipt ledger; `ingest-requests.jsonl`, `ingest-receipts.jsonl` | connect, resolve, call, retry; assign path, submit, register, sync, acknowledge, fold, restore | calls lost before or behind the effect, late answers, an indexer that may not come | one document per source, what must not run twice does not, crossed means indexed |
| Benchmark (`benchmark/`) | the files of `benchmark/`, manifest, digests | build, deal cohorts, freeze, check leakage, verify, load | a package is written file by file, perhaps over another, and what leaked is kept elsewhere; a question is built of the words its answer is graded by | no question gives its answer away; what leaked is not asked; cohorts are apart |
| Evaluation (`cli.cmd_evaluate`, `evaluation/engine.py`) | answers, recorded answers, seeded memory; `answers.jsonl`, `state.json` | run groups of arms, reuse, seed, wait, persist, complete | killed half-way; memory in the region before the baseline has answered; answers are paid for before they are filed | no answer on file is asked for again; no search of the baseline is made of what the run taught |
| Arms and learning (`arms/`, `pheasant/retrieval.py`) | the session of an answer, the shared document cache; memory records, query strategy | search, read, compose; prove, write, wait, tune, replay | one search of several fails; a write whose answer is lost; a cache that ends with its process; indices into lists that shrink | the arms of one process read alike; a memory record rests on what was read |
| Statistics, gates, reports (`evaluation/*.py`, `reports/`) | none; tables of results | score, pair, classify, correct, gate, decide; prove, diagnose, propose | empty denominators, ties, what was not measured | nothing unmeasured counts as good; the reports agree with the metrics |
| Console (`console/`) | launches and their files, one child each; retention log; settings draft; fold of a trace | launch, stop, restore, watch; delete, prune; edit; refresh, scrub | the console restarts while a child runs; pids are reused; a live run writes into what is deleted; two surfaces edit, perhaps from two processes; a trace grows while it is read | the status shown comes to be the child's; every removal is on file; no edit of one process is lost; nothing is shown before it happened |
| Region (`pheasant/mock.py`) | documents, receipts, sources, queue, memory, snapshots | the region's tools | a test double: stands for an external service | – |

The components meet in few places. The supervisor and its stage processes
share the lock file, `state.json` and exit statuses. A stage process is a
session: one `RunState`, one `Tracer`, one `CostLedger`, one `Ingestor`.
Branches of a collection share those through locks. Between processes only
files and the region carry anything, which is why most modules have a resume.

`PROJECT.json` lists the hazards of the code line by line, with the properties
that speak about each.

## 2. The modules

Who drives a run, and what a process leaves behind:

| module | models | state and actions |
|---|---|---|
| `Sums` | – | the sum of a function over `1..n`, as a recursive function |
| `CostLedger` | Budget ledger | one action per acquisition of the ledger's lock; `hold`, `due` and `owed` are the locals of a branch in `spend()`; `NextStage` and `Crash` restore from the trace |
| `DriverLock` | – | the promise of the lock: at most one driver, stale locks cleared |
| `RunLock` | Run lock | one action per system call of `acquire()` and `release()`; `file` is whose inode the name means, `written` whose pid is in it; a process that has released is there until `Exit`, and `Recycle` gives its pid away |
| `Pipeline` | Supervisor | supervisors, each with its stage process; the lock is `DriverLock`'s; `mem` is the `RunState` a stage process loaded, `stages` the file |
| `RunStore` | Run store | lines of each file in buffer, cache and on disk, and a fragment; a checkpoint is the number of records it depends on; `Resume`, `Repair`, `OpenLog`, `EmitResumed` are the start of the next process |

The corpus, and the region:

| module | models | state and actions |
|---|---|---|
| `Corpus` | – | the promise of a collection to who reads its files: a corpus that grows by one source at a time, like none listed, after its claims, and is closed once |
| `Collection`, `MCCollection` | Collection | `Plan`, which may make no branch, `Discover`, the round robin of `Admit`/`Refuse`/`Duplicate`/`Again`/`Pass`, then the threads of `extract_and_persist` row by row, `Raise` anywhere among them, `Decide`, `Complete`, `Die`, `Resume` |
| `Planning` | Planner, drafter, models | one call at a time: `Begin` reserves, `Retry`, `Raise` and `Reply` are what `RetryingProvider.complete` and its caller make of an attempt, `Round` is the orchestrator between two plans |
| `Client` | Client | `Open` lists pages and resolves capabilities; `Begin`, `Send`, then `Exchange` (http) or `Serve`/`ReadLine`/`ReadEnd` (stdio), where `Serve`, `Die` and `Chatter` are the child's; `effects` counts what the region ran |
| `Ingest`, `MCIngest` | Ingestion, and the region as far as it is needed | `AssignPath`, `NextBatch`, `Note`, `Answered` (the region takes, and tells, any part of the batch)/`Lost`, `Record`, `FileSource` of each branch; `Register`, `Sync`, `Acknowledge`, `Fold`, `Barrier`, `Reconcile` of the leading thread; `Index` of the region; `Die`, `Resume` |

The experiment, and its results:

| module | models | state and actions |
|---|---|---|
| `Benchmark`, `MCBenchmark` | Benchmark | the builder as operators over a sequence of claims whose texts are sets of terms and a number: what a question contains, the matcher of each fact, the test of one against the other and the matcher that is built again (`Matches`, `Hardened`). Then `freeze` file by file, the manifest, the leakage report in `state.json`, a death at any of them, another freeze over a corpus that grew, `Verified` and what an evaluation loads and asks |
| `Evaluation` | Evaluation | `Start` with the drift check and what is recorded; in the order of the groups an answer is `Ask`, one `Search` after the other, `Compose`, which reads documents and is paid for, and `File`; `Seed`, `Write`, `Wait`; `Persist`, `Complete`, `Finish` apart, because a process may die between them; `Index` and `Move` are the region's |
| `Session` | Arms, retrieval | the arms answer one question one after the other over one shared cache: `Search`, read, compose, abstain, what is called succeeded; `Die`, behind which the next process starts with an empty cache |
| `Learning` | Memory seeder, proofs, tuner | the records built of each first-pass row, written one by one, the wait for the index, and the strategy of P2's queries |
| `Scoring`, `Comparison`, `Gates` | Metrics, pairing, classification, statistics, gates | operators without state: a missing value is `{}`, a score `{v}` |
| `Analysis` | Evaluation engine from `_score` to `_decide_non_inferiority` | composes the three in the engine's order, one action per stage |
| `Reports`, `MCAnalysis` | Proof ledger, regressions, refinements, health vector | `EXTENDS Analysis`: `Prove` row by row, then the report over its result |

The console:

| module | models | state and actions |
|---|---|---|
| `Launcher` | launches | record in memory, its copy on disk in two steps, the thread that watches or follows, the child that outlives the console |
| `Retention` | deletions by hand and on the beat | check, remove file by file, audit, as two threads; a live writer brings a removed directory back, and trips a removal that is under way |
| `Draft` | the settings draft | edits, each under the lock of its process: the console's, or that of an agent's MCP server over stdio; what a strict edit checks before it, revisions |
| `LiveView` | the fold of a trace | refresh in two reads while the run writes; `Fold` is `sync`, which appends any receipt whose status changed, with the time of its first; `FoldUntil` is the scrubber |
| `MCConsole` | – | the four side by side, one of them per behaviour |

And the parts of an answer:

| module | models | state and actions |
|---|---|---|
| `Answering`, `MCArms` | – | `Planning`, `Client`, `Session` and `Learning` side by side, one of them per behaviour, for any values of their constants; `MCArms` gives the values |

`*Proofs` hold the theorems about the module they are named after.
`CostLedgerProofs` also has those about `Analysis` and `Reports`, which rest on
the same lemmas on sums; `ConsoleProofs` those about `MCConsole`, and so about
the parts it composes, and those about `RunLock`; `ArmsProofs` those about
`Answering`, and so about its parts, and those about `Benchmark`.

How they fit: `RunLock` implements `DriverLock`, and `Pipeline` is built over
the latter; `Collection` implements `Corpus`, with the rows of `sources.jsonl`
and `claims.jsonl` for the two sets. `Collection` and `Ingest` take a row that
was handed to `Tracer.append` as kept, and `RunStore` says when it is: always
over a kill of the process, over a power cut once the barrier has returned.
What `Collection` calls `Submit` is `Ingest`'s branch from `AssignPath` to
`Recorded`; its plan is the reply of a `Planning`, whose reservation is a
`hold` of `CostLedger`. The claims of a `Corpus` are those `Benchmark` builds
from, its accepted package is what `Evaluation` asks, an answer of `Evaluation`
is a `Session`, the memory between its groups is `Learning`'s, and the table of
answers it persists is a `Case` of `Analysis`, whose results are those of
`Reports`. A `Launcher`'s child is a supervisor of `Pipeline`. The parts of
`MCConsole` and of `Answering` share no variable in the code either, so their
product would add states and no behaviour; a behaviour is one of one part.

Conventions: an action is named after the function it comes from; `history`
variables record what happened and no guard reads them; operators named
`Mutant...` are wrong versions of a neighbouring definition, used only to see
that a property notices.

## 3. What TLC checks

Runs that pass:

| run | bounds | properties |
|---|---|---|
| `ledger` | 2 branches, budget 4, calls of 1 or 2 that overrun by 1, a fee of 1, one restart | `ExposureBounded`, `SpendAccounted`, `TraceNeverAhead` |
| `lock` | 3 supervisors, any interleaving, any of them killed, pids that are given away | `SoleDriver` |
| `pipeline` | 2 supervisors, 2 attempts, 4 stages | `BenchmarkCurrent`, `FindingsReported`, `EverySupervisorEnds` |
| `store` | 2 files (one standing and buffered, one opened late), 3 records, 2 kills or power cuts | `NumbersUnbroken`, `NothingBehindAFragment`, `DurableStays` |
| `collection` | 2 branches, 2 rounds, 4 candidates of which two are one work and one is invalid, a claim, 1 death | `HighestListingOwns`, `JudgedOnce`, `ImplementsCorpus`, `CollectionEnds` |
| `ingest` | 2 branches, 2 sources with one readable name and two texts each, one of them refused, batches of 2, 2 attempts, 2 polls, 1 death | `OnePathPerSource`, `CrossedMeansIndexed`, `IngestEnds` |
| `evaluation` | 2 questions, both learned and one of them forbidden, arms `P0` and `P1`, 1 call that fails, 1 change of the corpus, 1 death | `AskedOnce`, `ResultOnFile`, `BaselineSealed`, `TreatedUnlessKilled`, `EvaluationEnds` |
| `benchmark` | up to 3 claims of 5 shapes over 13 terms, numbers that are within 2 or 5 percent of each other, 3 compositions, 2 builds, 1 document that answers an abstention, 1 death | `LeaksLeftOut`, `CohortsApart`, `NoAnswerInQuestion` |
| `analysis` | 4 questions of two types and three cohorts, 4 cases each, 3 arms, 3 gate configurations, 2 worlds, an artifact that is not in `sources.jsonl` | `NothingHidden`, `SurvivorsKeepTheRate`, `RivalsIsMeasured`, `MissIsMissed` |
| `console` | 1 launch of 3 kinds over 2 runs and 2 restarts; 1 run removed up to twice by 2 threads; 2 editors of one process or two, 3 edits; 2 documents, 5 events, 3 receipts | `UnstoppedIsOver`, `EndIsSeen`, `OneRowEach`, `EditsKept`, `ScrubberNeverAhead` |
| `arms` | 2 calls of 2 attempts on each transport; 3 arms, 3 documents and a memory, 1 death; 2 first-pass rows; 3 rounds of plans over 2 facets with 3 attempts and a budget of 3 calls | `AtMostOnce`, `OwnAnswer`, `SucceededIsWhole`, `ReadAlike`, `RecordsHold`, `RetriesInOne` |

`lock_overlap` is the run that is expected to find a violation; section 4 says
which.

Why the bounds are enough. Races in the ledger are between one branch that is
between two acquisitions and another that is anywhere: two branches have them
all, and the theorems cover more. A third supervisor in the lock is the one
that takes over from two that took over from each other. In the pipeline a
crash, a retry, a stray child and a takeover fit in two supervisors with two
attempts; of the stages behind the evaluation one is run because they differ in
nothing the model has. Two crashes in the store are one that leaves something
behind and one that meets the process that inherited it; a file that stands and
one that is opened late are the two ways a file is treated. The collection has
each relation two candidates can have (the same, one work under two listings,
unrelated, refused) in lists of different order, and a round behind the
interrupted one. In the ingestion every source collides with another in its
name and with itself in its text, so that each path may be asked for by four
documents in any order, before and behind a death.

In the evaluation a question that is learned and one that must not be, an arm
of each group, and a death make every pair of what is reused and what is asked
anew, with memory of the first process in the region and without; one change of
the corpus may fall anywhere. A second freeze is what a death needs to leave
files of two builds, and a leakage report of another than the manifest's; three
claims are enough for a dispute, a temporal pair and a source that two facts
share. Their shapes have a question that contains its answer in each way the
code tells apart: the very number, a number that only the wider tolerance
matches, a term within a word, groups that survive and groups that do not. The four cases of the analysis are chosen
so that each arm wins, loses, abstains and fails somewhere, each of the three
subgroups has three questions in some table and two in another, and each gate
is passed, failed and not observed. The counts of the lists that are cut
(regressions shown, candidates, causes) are below what the tables can have.
Two restarts of the console are one that finds a launch and one that finds
what the first one made of it. A second removal is of a run that was brought
back; a third edit is one that names a revision two others have passed. Three
receipts are two of one document, the second with the time of the first, and
one of another. The death of a session leaves arms on either side of it. In the client a second call is the one that may
read what was sent for the first. The third attempt of a model call is the
first that is neither the first nor the last of a longer series; the code has
four (`models/retry.py:34`).

Deadlock is checked in the ledger, the lock and the pipeline, where the last
state is a step of its own (`Over`, `AtRest`) or never comes. It is off where
the system stops or a bound stops it: `store` when its events are used up,
`collection`, `ingest`, `evaluation` and `analysis` when the stage is complete,
`benchmark`, `console` and `arms` when their bounded inputs are.

Fairness. `RunLock` and `Pipeline`: the operating system runs every process
that can take a step; nobody has to be killed, nothing has to crash or to
succeed. `Collection` and `Ingest`: the process runs while it lives, each
thread of its pool runs (`ThreadPoolExecutor` joins all of them), and a run
that went down is resumed, by `supervise()` or by a person. `Evaluation`: its
process takes its next step, and is started again. Deaths are bounded by a
constant, as are the attempts of `supervise()`. No fairness is assumed of the
region: `IngestEnds` and `EvaluationEnds` hold because `acknowledge()`
(`pheasant/ingestion.py:437`) and the seeder's wait have deadlines and `call()`
a last attempt, and the mutants without a deadline break them. In the console
the thread that watches or follows a launch runs while the console lives; that
a child ends, or a stopped one dies, is not assumed.

Every property has a mutant in `PROJECT.json`: a definition of the model
replaced by one with a plausible bug, under which TLC finds the property
violated.

More holds than the runs repeat. What is proved for every value of the
constants (section 5) and follows from nothing in the runs is not run again:
the type invariants, `ReservedIsInFlight`, `RefusalJustified`, `TraceBacked`,
`OwnWorkBacked`, `WrittenOnce`, `OneRecordPerWork`, `ClaimsBeforeSource`,
`BoundaryOnFile`, `SufficientOnFile`, `RequestOnFile`, `LearnedOnly`,
`SoleStageProcess` and `EndMeansComplete`. To see one of them on an instance
(the last two with `Pipeline_any.cfg`), or `EveryoneEnds` (`RunLock_any.cfg`),
add it to the configuration named after its run; TLC finds no violation.

## 4. Where the code and its documents differ

A definition that states what a document, a comment or a docstring says, and
that TLC finds violated, stays in the module it is about. The first is the
run `lock_overlap`. For the rest, `tlc -config <cfg> <module>` with the
property in the configuration shows the counterexample; where a configuration
of its own is there, it is named.

| property | what is written | what the code does |
|---|---|---|
| `RunLock.OneSupervisor` (run `lock_overlap`) | `supervisor.py:73`: one supervisor per run | the lock is created empty and its pid written afterwards; who reads it in between takes it for a dead holder's. `SoleDriver` holds while acquisitions do not overlap |
| `RunLock.RefusedBySupervisor` (`RunLock_any.cfg`) | `supervisor.py:73`: a lock whose holder died is taken over | a pid is all the lock says of its holder; while another process has it, the lock of a killed supervisor refuses everyone. `RefusalJustified` names this case, and that of a holder which released the lock behind the read and is not gone yet |
| `CostLedger.HardBudget` (`CostLedger_hardbudget.cfg`) | `budget.py:107-109`: a call that would take committed plus reserved over the hard budget is refused | `spend()` releases and commits in two acquisitions of the lock; another branch may reserve in between. `ExposureBounded` says by how much the budget is passed |
| `Pipeline.OneMeansCompleted` (`Pipeline_budget.cfg`) | `docs/durability.md`: 1 means completed, and a decision failed | a stage that stops on `BudgetExceeded` (`cli.py:682`, `1769`) exits with 1 uncompleted, and the next one runs |
| `RunStore.CheckpointBacked` (`RunStore_inherited.cfg`) | `tracing/events.py:463-466`: every raw file is fsynced before a checkpoint names its work | `Tracer.sync` visits the writers of its own process; what a killed one left in the page cache of another file is not among them. `OwnWorkBacked` is what holds, and `StandingWritersSuffice` what would make it true |
| `Collection.FailedBranchIsAGap` (`Collection_gap.cfg`, `MCCollection`) | `orchestrator.py:376-378`: one failed subtopic is a gap the audit will report | a branch that raises behind admission leaves its sources in the registry: the audit counts them, and no later round takes them up |
| `Ingest.SourceKnown` (`Ingest_orphan.cfg`, `MCIngest`) | `pheasant/ingestion.py:315-318`: a resumed run that submitted nothing was registered by the run that did | a process that dies between its last submission and `register()` leaves a run whose `sync` is refused by every process that resumes it |
| `Planning.ConsumedIsCommitted` (`MCArms`) | `budget.py:270-273`: a failed call that consumed tokens consumed them; `models/retry.py`: only a request billed and then refused with 429 or 5xx is outside what is seen | a reply in the wrong shape, or one that timed out after it was written, is billed with its output; only the estimated prompt is committed. With reasoning switched on a call may also cost more than the worst case that was reserved |
| `Planning.GapsArePlanned`, `NotTheSameAgain` (`MCArms`) | `planner.py:159-163`: extend a plan to cover facets the audit found short, not another round of the one that already missed it | `replan` asks for a plan of the whole topic and never names the gaps; the fallback has the same id and question every time |
| `Client.EveryAttemptOnFile` (`MCArms`) | `tracing/errors.py`: every attempt is recorded | timeouts and transport errors of `httpx`, a broken pipe and a `ProtocolError` are not caught in `call()` |
| `Client.CallEnds` (under `Client.Spec`, fair to both ends) | a call has a `timeout` | `StdioTransport.send` blocks in `readline`, and looks at its deadline only behind a line |
| `Session.FailureShows` (`MCArms`) | a session one of whose searches failed is failed | `_compose` overwrites `failed` with `abstained` |
| `Session.AlikeThroughout` (`MCArms`) | `docs/durability.md:97-98`: a resumed run has the metrics of one that never crashed | the cache of fetched documents is of one process (`retrieval.py:273`): arms that answer behind a death fetch again, and may read a document as it has become, or not at all. `ReadAlike` holds of the arms of one process |
| `Learning.MeasuredWhole` (`MCArms`), `Evaluation.Treated` | `MemorySeeder`: P1 is measured with the memory that was written, or the report says so | a write whose answer was lost is stored and not waited for; a resumed process waits only for its own |
| `Learning.RulesUsable` (`MCArms`) | the strategy rewrites the words that failed | a word may be both expanded and dropped, and dropping has the last word |
| `Evaluation.FailedAskedAgain` | `docs/durability.md:56`: a failed answer is asked again | an answer that abstained after its search failed is not `failed`, and is reused |
| `Evaluation.SnapshotGuards` | `cli.py:845-850`: the snapshot still guards P1 and P2 | the drift is looked at before any arm runs |
| `Evaluation.PaidOnce` | `docs/durability.md:56`: nothing is paid for twice | an answer is paid for in `base.py:264-279` and filed in `301-304`; a process that dies in between has paid, and its successor asks again. `AskedOnce` has this case, and an answer that failed, as the only ones |
| `Evaluation.BaselineReadsSealed` | `cli.py:848-850`: the arm that writes nothing is pinned to the sealed snapshot, and answered from that state or refused | the searches are pinned to the snapshot, but what is found is fetched and read unpinned (`retrieval.py:339-402`): a document that changed since the freeze is read as it is now. `BaselineSealed` holds of what the searches return |
| `Benchmark.InferenceNeverScored` (`Benchmark_inferred.cfg`, `MCBenchmark`) | `question_types.py:166-168`: an inferred claim is never what an arm is scored against | the fact of a contradiction is given `confidence_basis = direct_text` whatever its claims are |
| `Benchmark.AskedForOnce` (`MCBenchmark`) | `tests/integration/test_durability.py:163` | two claims with one subject give two questions one id |
| `Benchmark.EchoSupportsNothing` (`MCBenchmark`) | `builder.py:55-58`: a question that contains its answer measures nothing | the builder and the leakage check match numbers within the default 2 percent, the scorer within what is configured (`engine.py:316`): a question may state a number that only the scorer takes for the answer. `NoAnswerInQuestion` holds otherwise |
| `Benchmark.EveryQuestionGrounded` (`MCBenchmark`) | `builder.py:3-8`: a question that cannot be grounded does not go in the set | when the question gives away each of its facts, and none can be graded otherwise, they are dropped and the question stays, without any |
| `Benchmark.NoLeakAsked` (`MCBenchmark`) | `README.md:217-218`: a finding invalidates the affected comparison until the set is frozen again | the leaks are in `state.json`, written behind the manifest: the package of a freeze that died in between verifies, and is evaluated with whatever leaks an earlier freeze found. `LeaksLeftOut` holds otherwise |
| `Analysis.ForwardReachFails` (`MCAnalysis`) | the gate `as_of_correctness` | citations, which may be artifact ids of the region, are compared with source ids (`engine.py:646-669`) |
| `Analysis.NoGateForgotten` (`MCAnalysis`) | `gates.py`: a gate in the config with no observation is skipped-and-counted | a configured gate that is in none of the four groups is neither evaluated nor counted |
| `Analysis.OnlyAnsweredCompared` (`MCAnalysis`) | `pairing.py:3`: only when both arms completed | a failed answer has scores, and is paired |
| `Analysis.FailedGateNeverImproves` | `README.md:264`, `gates.py:3`: no score offsets a failed gate | comparisons are classified before the gates are, and do not ask |
| `Reports.CauseFits` | the cause of a regression | the last one is given to whatever no other fits |
| `Reports.RejectsSeen` | a known negative that was served is rejected | negatives are compared as source ids with artifact ids |
| `Reports.MissIsAMiss` (`MCAnalysis`) | `regressions.py:182-185`: a retrieval miss, not an answering one | the artifact of a source is taken from `sources.jsonl`, which has it only if the reply to its submission named one (`researcher.py:545-575`); the evaluation also joins what the region named later (`cli.py:899-903`). A source that was served under such an artifact is reported as a miss; `MissIsMissed` names that case |
| `Retention.NothingLiveDeleted` (`Console_deleted.cfg`, `MCConsole`) | `logs.py:17`, `docs/console.md:57-58`: nothing is deleted while a launch is writing to it | a launch names its run after it began to write, and may do so behind the check |
| `Retention.KeptIsSpared`, `KeptWhole` (`MCConsole`) | `logs.py:77`: a run that is marked is exempt from every rule; `logs.py:12-13`: kept whole or deleted whole | the rule for projections does not look at the mark; a console that dies in `rmtree` leaves half a run |
| `Retention.DeletedIsGone` (`MCConsole`) | `logs.py:17-19`: every deletion is in the log, so that "where did that run go" has an answer | a process that still writes makes the directories it needs (`lifecycle.py:245`): a run that was deleted beside it is there again, with what was written since, and may be deleted again. `OneRowEach` counts both removals |
| `Launcher.EndedIsOver`, `NeverForgotten`, `SucceededMeansExitZero` (`MCConsole`), `OneLaunchPerRun` (with two launches) | `launcher.py:12-15` and its docstrings | a stop request and the watching thread save over each other; a child is started before its pid is on disk, so that a console that dies there forgets it; a pid may be another process's by then; an adopted child's status is read off the last row of its run's attempts; the look for a running launch and the insertion of a new one are under no one lock, and a pipeline's run is not known until it appears |
| `Draft.StrictResolves` | a strict edit leaves a draft that resolves | what is checked is read before the lock |
| `Draft.NoEditLost`, `GuardHolds` (`MCConsole`) | `docs/console.md:77-79`, `docs/mcp.md:3-8`: one settings draft, the same for the browser and for an agent | the lock is a `threading.Lock` (`state.py:111`), and `pheasant-lab mcp` over stdio is another process (`cli.py:1505-1528`) over the same `workspace.json`: two processes that read before either writes lose an edit, also one that was made against a revision. `EditsKept` holds while no two processes have done so |
| `LiveView.ScrubberTrue`, `SamePicture` | `projection.py:8`, `fold_until` | a receipt whose status changed is appended with the time of its first, whatever the status is (`ingestion.py:514-531`; the comment at `projection.py:919-922` speaks of `indexed` only, and only that one is held back), so that the scrubber shows an "indexed" where the document was accepted, and of another status what only came later; a receipt read before its event is dropped |

Seen while modelling and not stated as a property: a search fee has no
`cost.model_call` event, so a resumed process starts without it (in
`CostLedger` it is part of `forgotten`); rejected and blocked records never
reach `sources.jsonl`, so a resumed process judges them anew; a process killed
between a repair and its `run.repaired` event leaves a cut no event records; a
document whose process died between the region's answer and the receipt row is
in the region and on no barrier; a fetch that was refused stays refused in the
cache for the run; `S0` filters its package by `as_of`, the `P` arms only where
the region's search takes it; the tuner counts questions for a rule and calls
for a dropped word; `freeze` writes the leakage result behind the package; the
drafter has no tracer, and its retries no row; an evaluation that is run again
and interrupted may score rows of the one before it; a topic file is read, changed
and written without a lock; `sources.jsonl` has the artifact of a source only
if the reply to its submission named one, on which `MissIsAMiss` of the reports
depends.

## 5. What is proved

TLAPS checks the following for every value of the constants that satisfies the
named assumption of the module; TLC evaluates the assumption in each run.

| module | theorems | the inductive invariant |
|---|---|---|
| `CostLedgerProofs` | `TypeOK`, `ReservedIsInFlight`, `ExposureBounded`, `SpendAccounted`, `TraceNeverAhead`; with one branch and no overrun `HardBudget` | the five and `Handover`: where a branch stands decides which of its amounts are pending. Without it a release could take what another branch holds |
| `ConsoleProofs`, on the lock | `TypeOK`, `SoleDriver`, `RefusalJustified`; while acquisitions do not overlap `RunLock` implements `DriverLock` | `Orderly`: of the processes that acquire or drive, at most one may be where its view of the file matters, and a file without a pid is of the one that is writing it or of a dead one. The pid that was read is then of one that drives, that drove and is gone, killed or ended, or not gone yet, or by now of a stranger; of those that are gone the probe finds none |
| `RunStoreProofs` | `TypeOK`, `TraceBacked`, `OwnWorkBacked`, `NumbersUnbroken`, `NothingBehindAFragment`, `DurableStays`; if every file had a standing writer, `CheckpointBacked` | what the barrier has visited is on disk up to the checkpoint being written, what it has not is in `todo`; the log is as long as the lines of `events.jsonl` |
| `CollectionProofs` | `TypeOK`, `WrittenOnce`, `OneRecordPerWork`, `ClaimsBeforeSource`, `BoundaryOnFile`, `SufficientOnFile`, `JudgedOnce`; `Collection` implements `Corpus` | rows, registry and the hands of the branches together: a source is in exactly one branch's `fresh` or has its row, the claims of a branch that has not written are `unwritten`, alike sources are never both retained, and a checkpoint is no later than the rows; a claim in memory without a row is of a branch that has not written, or of a source that was dropped by a branch that raised (`LostInv`) |
| `IngestProofs` | `TypeOK`, `OnePathPerSource`, `RequestOnFile`, `CrossedMeansIndexed` | a document is followed from its path to the index: a path is assigned before a request row names it, the rows of a batch are complete before it is sent, the region's receipts name paths of rows, a promoted document is in the index, the ledger is the fold of the receipt file |
| `PipelineProofs` | `TypeOK`, `SoleStageProcess`, `BenchmarkCurrent`, `FindingsReported`, and the action property `EndMeansComplete` | `Locked`: who acts and knows its run has the lock, and who acts without knowing it is the creator at its first stage. With it the one stage process that runs has loaded the checkpoint that is on disk (`Fresh`), completed stages are a prefix of the stages up to where a supervisor stands (`InOrder`), and a corpus is not collected behind its freeze (`Sealed`) |
| `EvaluationProofs` | `TypeOK`, `AskedOnce`, `ResultOnFile`, `LearnedOnly`, `BaselineSealed`, `TreatedUnlessKilled` | `Progress`: an answer is in memory for just the keys the loops have passed; `Once`: a usable row of this evaluation on file is of a key that is answered or taken up, and will not be asked again; `Filed`: what is in memory is the last usable row on file; `Sourced`: what is or is to be taught rests on a row on file; `Unbroken`: until a death, what was waited for is indexed. An answer is made in steps now and then what it has so far must be of the moment: `Seated`, it is of the group whose turn it is and of a key that is not answered; `Timely`, what its searches returned was in the region then; `Guarded` and `Dated`, a baseline that is pinned has found nothing that is younger than its snapshot, and memory is younger (`Behind`) |
| `ConsoleProofs`, on the console | `UnstoppedIsOver`, `OneRowEach`, `EditsKept` | of a launch, `Truthful`: each copy of its record, in memory, half written and on disk, tells the truth about the child whoever follows it; of a deletion, `DeletionInv`: who removes a run has it in hand, and the rows of a run and the threads that owe one are together the times it was removed, but for what died with the console; of the draft, `DraftInv`: who has a lock has an edit in hand (`Busy`), and until two processes have raced no other has one, what it read is the draft as it is (`Held`), and if the edit names a revision, as its editor was shown it; a revision names one draft (`Revised`) |
| `ConsoleProofs`, on the live view | `ScrubberNeverAhead`, and that no stage falls back (`StageNeverFalls`) | `ViewInv`: every line read shows in the view (`Shown`); at rest a receipt not yet read is later than every event that was, or one that misleads, or is an "indexed" later than every crossed barrier (`Caught`), because a document that is "accepted", and for the first time, became so after the last crossing (`Since`). The rest is about the two folds: what the events alone make of nothing is said by one of them (`EventsOnly`), and any other stage of the scrubber by a receipt it found in time (`TimelyOnly`) |
| `ArmsProofs`, on the calls | `RetriesInOne`, `AtMostOnce`, `OwnAnswer` | of the client, `ClientInv`: what the child has not read is there once (`Queued`), a call that is unsafe to repeat has one message, is run at most once and not while that is unread (`SentOnce`), an answer in the pipe says truly that its call was run (`Answered`), and what a call ended with answers a message of its own (`Own`); of the planner, that a draft has no rounds, so that what is in hand is one reservation |
| `ArmsProofs`, on the answers | `SucceededIsWhole`, `ReadAlike` | `SessionInv`: the status an answer has so far is never better than its searches (`SaidWhole`), and what an arm of this process read was read as the shared cache has it (`ReadAsFetched`), which never changes its mind about a document while the process lives (`InOrder` carries it through the order the passages are read in) |
| `ArmsProofs`, on memory | `RecordsHold` | `LearningInv`: whatever is to be written or is stored is a record of a row that is learned from and gave no reason not to. The rest is about the operators: at each step of `build_proof` a kept claim rests on passages that carry it, were read and are listed (`Proves`), and a passage is listed once, so that the number that is compared with `min_evidence` is a number of passages |
| `ArmsProofs`, on the benchmark | `TypeOK`, `CohortsApart`, `NoAnswerInQuestion`, `LeaksLeftOut` | `BenchmarkInv`: what was built, of whatever claims, is dealt to cohorts that share no question and has no fact its question satisfies, of every build and not only of the last. It rests on `Sound` (a builder that is under way has only honest questions; `GradingHides`: neither a matcher that is kept nor one that is built again matches the question, and one that is built again has no number and so no tolerance) and `Fair` (a question that was dealt has one cohort). Of the package, `Reports`: but for a freeze that was cut between its manifest and `state.json`, the leakage report on file is that of the manifest |
| `CostLedgerProofs`, on the analysis | `NothingHidden`, `SurvivorsKeepTheRate`, `RivalsIsMeasured`; `MissIsMissed` | `AnalysisInv`: each result on the table is what the operators make of the answers. Then `SurvivorsByValue`: ties make no difference to what Benjamini and Hochberg keep; `SumBetween`: a sum lies between the sums of its bounds; `RetrievedCovers`: what a session saw covers what its searches returned. `ReportInv` for the reports |

`CostLedgerProofs` also has the lemmas on `Sum`. `CollectionProofs` proves
`HighestListingOwns` too, from `NoRepeats`: one branch lists no source twice,
which `search_candidates` sees to (`researcher.py:150`); the invariant
(`TurnInv`) is that what the round robin has passed is judged, and what a
branch holds it holds for a place that was passed.

Two invariants show why the strengthening is needed. `OnePathPerSource`: the
region learns a path from one process, memory forgets it with the process, and
only `Rows`, which speaks of the request file, carries it to the next one.
`ResultOnFile`: an evaluation that finds itself interrupted takes up every
usable row of the file, and nothing in a row says which evaluation it is of.
A run of one death has only rows of the interrupted one there; the proof, for
any number of deaths, could not be closed until the property said that rows of
an earlier, completed evaluation are taken up as well (`resumed`).

`MissIsMissed` names its exception rather than assuming it away: a report
calls a source a retrieval miss if no answer returned an artifact of it, and
knows the source of an artifact only from `sources.jsonl`. What it calls a miss
was missed, or was served under an artifact that is not there (`Unfiled`).

Several proofs are about recursive definitions, all of them recursive functions
of a number: `Sum`; `Drafts`, what the committed edits make of the blank draft;
`Take`, `AskPairs`, `Questions` and `Deal`, by which a benchmark is built and
dealt; `Retrieved`, what a session saw; `Among`, `Listed` and `Proved`, by
which a memory record is; `FoldEvents`, `FoldReceipts` and `FoldTimely`, what
the live view and the scrubber make of a file. What a proof needs of one is shown in two steps. That
the function exists: the set of numbers up to which it does has 0 and is closed
under successor (`...Steps`). And that a set which has 0 and is closed under
successor has every number up to n (`UpTo`), by taking a least one it has not
in the well-founded order of the naturals; applied to the set of the numbers
for which the property holds. The existence of the last of a finite set of
rows in `EvaluationProofs` is shown with a least number as well.

Model-checked only:

- Liveness (`EverySupervisorEnds`, `CollectionEnds`, `IngestEnds`,
  `EvaluationEnds`, `EndIsSeen`): fairness and ENABLED are out of the prover's
  reach.
- What the definitions say is not kept (section 4) is found by TLC and has
  no theorem, except where one says under which condition it is kept.

## 6. What is not modelled

Of the components with a module: the buckets and price tables of the ledger;
spans, errors and checksums beyond being files; `--force`; contradictions,
the families and yields of a round, the duplicate rate; a region without the
optional tools, or one that lists what it acknowledged; failures of calls other than submissions in the
ingestion (`Client` has them); a timed-out call that arrives after its retry
over http; several runs on one region; a pid that passes from one supervisor to
another (to a stranger it does); the month and day of a date in a question, the
terms of a text beyond its first six, and which sources are known negatives; the
wording of questions and answers and the model that rewrites a question; how far out bootstrap draws fall, which is
an input of `Comparison`; collection and operational metrics, which are
arithmetic over recorded rows; the pages of the reports; the console's HTTP
routes, its MCP tools, the region browser and the topic editor.

Search providers are parsing of the replies of external services; each module
that has a search has its outcomes. Configuration, catalog and helpers parse,
validate and hash text, and keep no state that others rely on. The DuckDB
projection and the lineage are derived and rebuilt from `raw/`. The user
interface is a client of the console.

## 7. What could come next

1. Of the tuner's strategy, that a rule rests on questions that may be learned
   from.
2. `Evaluation` with repetitions and with `P2`, over two deaths.
3. Two runs on one region: paths and memory are per knowledge base.
4. The topic editor of the console, which has no lock.
