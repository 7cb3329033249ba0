----------------------------- MODULE Evaluation -----------------------------
(***************************************************************************)
(* cli.py cmd_evaluate with evaluation/engine.py, the arms and the memory  *)
(* seeder: how a frozen benchmark is answered.  The independent arms       *)
(* answer every question; what P0 did on the learned ones is written into  *)
(* the region as memory; the dependent arms answer with it; the answers    *)
(* are scored and the snapshot gate is decided.  A call may fail, and the  *)
(* process may die at any step: the supervisor runs it again, and it       *)
(* starts from the answers it finds in answers.jsonl.                      *)
(*                                                                         *)
(* A question is a number: they are asked in the order of their ids.  What *)
(* an answer scores is in Scoring; what retrieval returns is not modelled, *)
(* only whether it returned everything, and from which state of the region.*)
(***************************************************************************)
EXTENDS Integers, Sequences, FiniteSets

CONSTANTS
  Questions,   \* how many, numbered from 1
  Learned,     \* those of the learned cohort
  Forbidden,   \* those of the temporal holdout or control cohorts
  Arms,        \* config.arms
  Repetitions, \* replay.repetitions
  Kinds,       \* of memory: "fact", a retrieval proof; "rule", an alias or preference
  StoreText,   \* privacy.store_response_text
  Pinning,     \* the region's search takes a snapshot pin
  Fleet,       \* the region publishes a memory sync and indexes it later
  Listing,     \* the region lists its index queue completely
  Wordless,    \* the arms' model may propose no query at all
  MaxFaults,   \* bound: calls that fail, or answer in part
  MaxMoves,    \* bound: changes others make to the region's corpus
  MaxDeaths    \* bound: deaths of the process

Asked     == 1..Questions
Searching == {"P0", "P1", "P2"}

ASSUME EvaluationAssumption ==
  /\ Questions \in Nat \ {0} /\ Repetitions \in Nat \ {0}
  /\ Learned \in SUBSET Asked /\ Forbidden \in SUBSET Asked
  /\ Arms \in SUBSET {"S0", "C0", "P0", "P1", "P2"}
  /\ Kinds \in SUBSET {"fact", "rule"} /\ "fact" \in Kinds
  /\ {StoreText, Pinning, Fleet, Listing, Wordless} \in SUBSET BOOLEAN
  /\ MaxFaults \in Nat /\ MaxMoves \in Nat /\ MaxDeaths \in Nat

VARIABLES
  phase,     \* where the process is
  cell,      \* the question and repetition under way, counted over a group
  left,      \* arms that have not answered it
  session,   \* what the arm that is answering has so far; Nothing between answers
  recorded,  \* engine.recorded: answers an interrupted evaluation had
  answers,   \* the answers of this evaluation
  drifted,   \* sections _verify_snapshot found moved
  toSeed,    \* memory the seeder has still to write
  written,   \* memory it believes it wrote
  queued,    \* seeder.queued_tasks is not empty
  confirmed, \* seeder.index_outcome; "none" when nothing was queued
  raw,       \* answers.jsonl: the rows of each key, in order
  stage,     \* state.json: the evaluate stage
  result,    \* the metrics directory: what the last persisted evaluation says
  memory,    \* region: memory records
  unindexed, \* region: those a search does not find yet
  corpus,    \* region: version of the corpus; 0 is the sealed one
  ended,     \* history: how many evaluations were marked completed
  resumed,   \* history: the one under way was found interrupted when last started
  lost,      \* history: what it paid for, a death took unfiled, and it has not filed since
  faults, moves, deaths

process == <<phase, cell, left, session, recorded, answers, drifted, toSeed, written, queued, confirmed>>
disk    == <<raw, stage, result>>
region  == <<memory, unindexed, corpus>>
history == <<ended, resumed, lost>>
bounds  == <<history, faults, moves, deaths>>
vars    == <<process, disk, region, bounds>>

Keys        == Arms \X Asked \X (1..Repetitions)
Nothing     == [status |-> "none"]
Statuses    == {"answered", "failed"}   \* succeeded, partial or abstained, alike from here on
Records     == Asked \X Kinds \X Nat   \* question, kind, and the answer it proves
Views       == [corpus : Nat, memory : SUBSET Records, taught : BOOLEAN]   \* what a search was made of
Said        == [status : Statuses, proves : SUBSET Kinds, read : Nat]   \* read: the corpus when it read
Sessions    == [arm : Arms, found : SUBSET Views, raised : BOOLEAN, said : Said \cup {Nothing}]
Rows        == [status : Statuses, proves : SUBSET Kinds, read : Nat, found : SUBSET Views,
                raised : BOOLEAN, take : Nat, era : Nat]   \* raised: a search did

(* The arms of the two groups, and their cells: repetition by repetition,   *)
(* question by question.                                                    *)
Group(p)    == Arms \cap (IF p = "independent" THEN {"S0", "C0", "P0"} ELSE {"P1", "P2"})
Cells       == Questions * Repetitions
KeyOf(a)    == <<a, ((cell - 1) % Questions) + 1, ((cell - 1) \div Questions) + 1>>

NoAnswers == [k \in Keys |-> Nothing]

Init ==
  /\ phase = "down" /\ cell = 1 /\ left = {} /\ session = Nothing /\ drifted = {} /\ toSeed = {}
  /\ written = {} /\ recorded = NoAnswers /\ answers = NoAnswers /\ queued = FALSE /\ confirmed = "none"
  /\ raw = [k \in Keys |-> <<>>] /\ stage = "none" /\ result = Nothing
  /\ memory = {} /\ unindexed = {} /\ corpus = 0
  /\ ended = 0 /\ resumed = FALSE /\ lost = {} /\ faults = 0 /\ moves = 0 /\ deaths = 0

-----------------------------------------------------------------------------
(* What a seal of the region compares.  A memory record is an artifact of   *)
(* the region, so writing one moves its corpus section too.                 *)
Moved == (IF memory # {} THEN {"memory", "corpus"} ELSE {})
           \cup (IF corpus # 0 THEN {"corpus"} ELSE {})

(* The rows a resumed evaluation reuses: the last that did not fail.        *)
Usable(k)   == {i \in DOMAIN raw[k] : raw[k][i].status # "failed"}
Last(S)     == CHOOSE i \in S : \A j \in S : j <= i
Reusable(k) == IF Usable(k) = {} THEN Nothing ELSE raw[k][Last(Usable(k))]

(* A group without arms is passed at once.                                  *)
Enter(p) ==
  IF Group(p) # {} THEN p ELSE IF p = "independent" THEN "seed" ELSE "persist"

(* Mutant of Resumed: a completed evaluation that is run again keeps its answers. *)
MutantResumed(k) == IF StoreText THEN Reusable(k) ELSE Nothing

(* Mutant of Resumed: the stage is looked at after it was set to running.   *)
MutantForgets(k) == IF stage = "completed" /\ StoreText THEN Reusable(k) ELSE Nothing

(* What was recorded counts only while the stage is running.                *)
Resumed(k) == IF stage = "running" /\ StoreText THEN Reusable(k) ELSE Nothing

(* cmd_evaluate up to engine.run(): the drift check is made here, before    *)
(* any arm runs.                                                            *)
Start ==
  /\ phase = "down"
  /\ stage' = "running" /\ drifted' = Moved /\ resumed' = (stage = "running")
  /\ recorded' = [k \in Keys |-> Resumed(k)]
  /\ phase' = Enter("independent") /\ cell' = 1 /\ left' = Group("independent")
  /\ UNCHANGED <<session, answers, toSeed, written, queued, confirmed, raw, result, region, ended,
                 lost, faults, moves, deaths>>

(* The last arm of a cell ends it, and the last cell ends the group.        *)
Onward(a) ==
  IF left # {a} THEN left' = left \ {a} /\ UNCHANGED <<phase, cell>>
  ELSE IF cell < Cells THEN left' = Group(phase) /\ cell' = cell + 1 /\ UNCHANGED phase
  ELSE /\ left' = {} /\ cell' = 1
       /\ phase' = IF phase = "independent" THEN "seed" ELSE "persist"

(* Mutant of Turn: a dependent arm waits for the memory to be indexed.      *)
MutantTurn(a) ==
  /\ phase \in {"independent", "dependent"} /\ a \in left
  /\ phase = "dependent" => unindexed = {}

(* Any order within the independent group, which is shuffled; P1 before P2. *)
Turn(a) ==
  /\ phase \in {"independent", "dependent"} /\ a \in left
  /\ a = "P2" => "P1" \notin left

(* _answer: an answer the interrupted evaluation had is not asked for.      *)
Reuse(a) ==
  /\ Turn(a) /\ session = Nothing /\ recorded[KeyOf(a)] # Nothing
  /\ answers' = [answers EXCEPT ![KeyOf(a)] = recorded[KeyOf(a)]]
  /\ Onward(a)
  /\ UNCHANGED <<session, recorded, drifted, toSeed, written, queued, confirmed, disk, region, bounds>>

(* Mutant of Refused: a pin the region can no longer serve is answered anyway. *)
MutantRefused(a) == FALSE

(* P0 alone is pinned, and a pinned search is refused once the region moved. *)
Refused(a) == a = "P0" /\ Pinning /\ Moved # {}

(* Arm.answer.  A searching arm pays for its queries before it searches.    *)
Ask(a) ==
  /\ Turn(a) /\ session = Nothing /\ recorded[KeyOf(a)] = Nothing
  /\ session' = [arm |-> a, found |-> {}, raised |-> FALSE, said |-> Nothing]
  /\ UNCHANGED <<phase, cell, left, recorded, answers, drifted, toSeed, written, queued, confirmed,
                 disk, region, bounds>>

InHand == session # Nothing /\ session.said = Nothing
Fault  == faults < MaxFaults /\ faults' = faults + 1

(* What a search of the arm is made of now: P0 asks for no memory.          *)
View(a) == [corpus |-> corpus, memory |-> IF a = "P0" THEN {} ELSE memory \ unindexed,
            taught |-> memory # {}]

(* _retrieve: search after search, each made of the region as it is then,   *)
(* and whole or in part, which is all the same here.  One that raises ends  *)
(* the searching, and the arm composes from what it has.                    *)
Search ==
  /\ InHand /\ session.arm \in Searching /\ ~session.raised
  /\ \/ /\ ~Refused(session.arm) /\ UNCHANGED faults
        /\ session' = [session EXCEPT !.found = @ \cup {View(session.arm)}]
     \/ /\ (Refused(session.arm) /\ UNCHANGED faults) \/ Fault
        /\ session' = [session EXCEPT !.raised = TRUE]
  /\ UNCHANGED <<phase, cell, left, recorded, answers, drifted, toSeed, written, queued, confirmed,
                 disk, region, history, moves, deaths>>

(* What the seeder could prove of an answer, of a first-pass one to a       *)
(* learned question: a rule needs a proof; a proof the text of a claim,     *)
(* which an abstention has not, and of the passages the session read.       *)
Provable(s) ==
  LET k == KeyOf(session.arm) IN
  IF /\ k[1] = "P0" /\ k[2] \in Learned /\ k[3] = 1 /\ StoreText
     /\ session.found # {} /\ (session.raised => s = "failed")
  THEN {{}, {"fact"}, Kinds} ELSE {{}}

(* hydrate, then _compose, which pays.  The documents are fetched as they   *)
(* are now, by no pin; those the process has read before, it has as they    *)
(* were (Session).  An answer whose search raised counts as failed unless   *)
(* the answerer abstains, which has the last word.                          *)
Compose ==
  /\ InHand
  /\ session.arm \in Searching => session.found # {} \/ session.raised \/ Wordless
  /\ \E s \in Statuses : \E p \in Provable(s) :
       /\ s = "failed" => session.raised
       /\ session' = [session EXCEPT !.said =
            [status |-> s, proves |-> p, read |-> IF session.found = {} THEN 0 ELSE corpus]]
  /\ UNCHANGED <<phase, cell, left, recorded, answers, drifted, toSeed, written, queued, confirmed,
                 disk, region, bounds>>

Row(a) ==
  [status |-> session.said.status, proves |-> session.said.proves, read |-> session.said.read,
   found |-> session.found, raised |-> session.raised, take |-> Len(raw[KeyOf(a)]) + 1,
   era |-> ended]

(* _record: the row is appended to answers.jsonl.                           *)
File(a) ==
  /\ Turn(a) /\ session # Nothing /\ session.arm = a /\ session.said # Nothing
  /\ answers' = [answers EXCEPT ![KeyOf(a)] = Row(a)]
  /\ raw' = [raw EXCEPT ![KeyOf(a)] = Append(@, Row(a))]
  /\ session' = Nothing /\ lost' = lost \ {KeyOf(a)} /\ Onward(a)
  /\ UNCHANGED <<recorded, drifted, toSeed, written, queued, confirmed, stage, result, region,
                 ended, resumed, faults, moves, deaths>>

Failure == [status |-> "failed", proves |-> {}, read |-> 0, found |-> {}, raised |-> TRUE,
            take |-> 0, era |-> ended]

(* The model, the budget or a document raises: a failed answer that is not  *)
(* on file.                                                                 *)
Raise(a) ==
  /\ Turn(a) /\ InHand /\ session.arm = a /\ Fault
  /\ answers' = [answers EXCEPT ![KeyOf(a)] = Failure]
  /\ session' = Nothing /\ Onward(a)
  /\ UNCHANGED <<recorded, drifted, toSeed, written, queued, confirmed, disk, region, history,
                 moves, deaths>>

-----------------------------------------------------------------------------
(* What the first pass of P0 over the learned questions proves.             *)
Proven ==
  {<<p[1], p[2], answers[<<"P0", p[1], 1>>].take>> :
     p \in {x \in (Learned \ Forbidden) \X Kinds :
              "P0" \in Arms /\ x[2] \in answers[<<"P0", x[1], 1>>].proves}}

(* MemorySeeder.seed.                                                       *)
Seed ==
  /\ phase = "seed" /\ phase' = "writing"
  /\ toSeed' = IF "P1" \in Arms THEN Proven ELSE {}
  /\ UNCHANGED <<cell, left, session, recorded, answers, drifted, written, queued, confirmed, disk, region,
                 bounds>>

(* Question by question, the proof before its rules.                        *)
First(m) == \A n \in toSeed : m[1] < n[1] \/ (m[1] = n[1] /\ (m[2] = "fact" \/ n[2] = m[2]))

(* memory_write: the region folds a record it holds onto itself, and then   *)
(* publishes nothing.                                                       *)
Store(m) ==
  /\ memory' = memory \cup {m}
  /\ unindexed' = IF Fleet /\ m \notin memory THEN unindexed \cup {m} ELSE unindexed

(* _write: the call is not retried.  It may be refused, or carried out and  *)
(* its answer lost; either way the seeder skips the record.                 *)
Write ==
  /\ phase = "writing"
  /\ \E m \in toSeed :
       /\ First(m) /\ toSeed' = toSeed \ {m}
       /\ \/ /\ Store(m) /\ written' = written \cup {m}
             /\ queued' = (queued \/ (Fleet /\ m \notin memory)) /\ UNCHANGED faults
          \/ /\ faults < MaxFaults /\ faults' = faults + 1
             /\ Store(m) \/ UNCHANGED <<memory, unindexed>>
             /\ UNCHANGED <<written, queued>>
  /\ UNCHANGED <<phase, cell, left, session, recorded, answers, drifted, confirmed, disk, corpus, history,
                 moves, deaths>>

(* Mutant of Outcomes: a task that is not listed any more counts as done.   *)
MutantOutcomes == IF queued THEN {"indexed"} ELSE {"none"}

(* wait_until_indexed, when a write was answered with a task.  The memory   *)
(* source has one task at a time; it leaves the queue indexed, or dead.     *)
Outcomes ==
  CASE ~queued -> {"none"}
    [] queued /\ ~Listing -> {"unknown"}
    [] queued /\ Listing /\ unindexed = {} -> {"indexed"}
    [] OTHER -> {"timed_out", "failed"}

Wait ==
  /\ phase = "writing" /\ toSeed = {}
  /\ confirmed' \in Outcomes
  /\ \/ confirmed' # "failed" /\ UNCHANGED faults
     \/ confirmed' = "failed" /\ faults < MaxFaults /\ faults' = faults + 1
  /\ phase' = Enter("dependent") /\ cell' = 1 /\ left' = Group("dependent")
  /\ UNCHANGED <<session, recorded, answers, drifted, toSeed, written, queued, disk, region, history, moves,
                 deaths>>

(* The scores, the gates and the decision, written to the metrics           *)
(* directory.  "memory" is the drift a run expects.                         *)
Persist ==
  /\ phase = "persist" /\ phase' = "mark"
  /\ result' = [answers |-> answers, gate |-> drifted \subseteq {"memory"}, seeded |-> written,
                stated |-> confirmed \notin {"none", "indexed"},
                reused |-> {k \in Keys : recorded[k] # Nothing}]
  /\ UNCHANGED <<cell, left, session, recorded, answers, drifted, toSeed, written, queued, confirmed, raw,
                 stage, region, bounds>>

Complete ==
  /\ phase = "mark" /\ phase' = "finish"
  /\ stage' = "completed" /\ ended' = ended + 1 /\ lost' = {}
  /\ UNCHANGED <<cell, left, session, recorded, answers, drifted, toSeed, written, queued, confirmed, raw,
                 result, region, resumed, faults, moves, deaths>>

(* Checksums, and the process ends.                                         *)
Finish ==
  /\ phase = "finish" /\ phase' = "exited"
  /\ UNCHANGED <<cell, left, session, recorded, answers, drifted, toSeed, written, queued, confirmed, disk,
                 region, bounds>>

-----------------------------------------------------------------------------
(* The indexers of the region, and others that write to it.                 *)
Index ==
  /\ unindexed # {} /\ unindexed' = {}
  /\ UNCHANGED <<process, disk, memory, corpus, bounds>>

Move ==
  /\ moves < MaxMoves /\ moves' = moves + 1 /\ corpus' = corpus + 1
  /\ phase # "exited"
  /\ UNCHANGED <<process, disk, memory, unindexed, history, faults, deaths>>

(* What an answer has cost: a searching arm has paid for its queries when   *)
(* it is asked, any arm for the answer when it is composed.                 *)
Paid == session # Nothing /\ (session.arm \in Searching \/ session.said # Nothing)

Kill ==
  /\ phase \notin {"down", "exited"} /\ deaths < MaxDeaths /\ deaths' = deaths + 1
  /\ phase' = "down" /\ cell' = 1 /\ left' = {} /\ session' = Nothing /\ drifted' = {}
  /\ toSeed' = {} /\ written' = {} /\ queued' = FALSE /\ confirmed' = "none"
  /\ recorded' = NoAnswers /\ answers' = NoAnswers
  /\ lost' = IF Paid THEN lost \cup {KeyOf(session.arm)} ELSE lost
  /\ UNCHANGED <<disk, region, ended, resumed, faults, moves>>

Step ==
  \/ Start \/ Search \/ Compose \/ Seed \/ Write \/ Wait \/ Persist \/ Complete \/ Finish
  \/ \E a \in Arms : Reuse(a) \/ Ask(a) \/ File(a) \/ Raise(a)

Next == Step \/ Index \/ Move \/ Kill

Spec     == Init /\ [][Next]_vars
FairSpec == Spec /\ WF_vars(Step)
-----------------------------------------------------------------------------
(* Types.                                                                   *)
TypeOK ==
  /\ phase \in {"down", "independent", "seed", "writing", "dependent", "persist", "mark",
                "finish", "exited"}
  /\ cell \in 1..Cells /\ left \in SUBSET Arms /\ session \in Sessions \cup {Nothing}
  /\ drifted \in SUBSET {"memory", "corpus"} /\ lost \in SUBSET Keys
  /\ {toSeed, written, memory, unindexed} \in SUBSET SUBSET Records
  /\ {recorded, answers} \in SUBSET [Keys -> Rows \cup {Nothing}]
  /\ raw \in [Keys -> Seq(Rows)] /\ stage \in {"none", "running", "completed"}
  /\ queued \in BOOLEAN /\ resumed \in BOOLEAN
  /\ confirmed \in {"none", "unknown", "indexed", "timed_out", "failed"}
  /\ {corpus, ended, faults, moves, deaths} \in SUBSET Nat

(* No arm is asked what a usable row of the same evaluation answers, however *)
(* often it is killed, if the answers are stored whole: what it pays for     *)
(* again had failed, or is what a death took between the asking and the row. *)
AskedOnce ==
  StoreText =>
    /\ \A k \in Keys : \A i, j \in Usable(k) : raw[k][i].era = raw[k][j].era => i = j
    /\ session # Nothing =>
         \A i \in Usable(KeyOf(session.arm)) : raw[KeyOf(session.arm)][i].era < ended

(* A completed evaluation scored every answer that was due, and each is the *)
(* last on file for its key or a failure: nothing was lost to a death.  One *)
(* that was not itself interrupted scored no row of an earlier evaluation.  *)
ResultOnFile ==
  stage = "completed" =>
    \A k \in Keys : /\ result.answers[k] # Nothing
                    /\ resumed \/ result.answers[k].era = ended - 1
                    /\ \/ result.answers[k].status = "failed"
                       \/ StoreText /\ result.answers[k] = Reusable(k)
                       \/ ~StoreText /\ result.answers[k] = raw[k][Len(raw[k])]

(* The region learns only from a first-pass answer that is on file, of a    *)
(* learned question that is in no cohort it is tested on, and a rule only   *)
(* beside the proof it rests on.                                            *)
LearnedOnly ==
  \A m \in memory :
    /\ m[1] \in Learned \ Forbidden
    /\ m[3] \in DOMAIN raw[<<"P0", m[1], 1>>]
    /\ m[2] \in raw[<<"P0", m[1], 1>>][m[3]].proves

(* Where the region takes a pin, no search of P0 was made of anything but   *)
(* the sealed corpus without memory, in whichever process and however the   *)
(* region moved between two searches of one answer.  The documents are      *)
(* fetched later and by no pin; but under a gate that passed, an answer     *)
(* taken over from a process that died was searched and read in the sealed  *)
(* corpus, by whichever arm.                                                *)
Sealed(r) == r.read = 0 /\ \A v \in r.found : v.corpus = 0 /\ ~v.taught
BaselineSealed ==
  /\ Pinning => \A k \in Keys : k[1] = "P0" =>
       \A i \in DOMAIN raw[k] : \A v \in raw[k][i].found : v.corpus = 0 /\ ~v.taught
  /\ (result # Nothing /\ result.gate) => \A k \in result.reused : Sealed(result.answers[k])

(* An evaluation measures P1 with the memory it says it wrote, or says that *)
(* it did not wait for all of it.                                           *)
Treated ==
  (result # Nothing /\ "P1" \in Arms /\ ~result.stated) =>
    \A q \in Asked, n \in 1..Repetitions : LET r == result.answers[<<"P1", q, n>>] IN
      r.status # "failed" => \A v \in r.found : result.seeded \subseteq v.memory

(* ... which holds of an evaluation that no death interrupted.              *)
TreatedUnlessKilled == deaths = 0 => Treated

(* "Nothing is paid for twice" (docs/durability.md): nothing that was paid  *)
(* for before a death is paid for again.                                    *)
PaidOnce == Paid => KeyOf(session.arm) \notin lost

(* "A failed answer is asked again" (docs/durability.md): no answer whose   *)
(* search failed is reused by an evaluation that resumes.                   *)
FailedAskedAgain == \A k \in Keys : recorded[k] # Nothing => ~recorded[k].raised

(* What a pin would be taken to mean: an answer of P0 whose searches all    *)
(* succeeded rests on the sealed corpus.  Only the searches are pinned.     *)
BaselineReadsSealed ==
  Pinning => \A k \in Keys : k[1] = "P0" =>
    \A i \in DOMAIN raw[k] : ~raw[k][i].raised => raw[k][i].read = 0

(* "The snapshot still guards P1 and P2: the drift check below fails the    *)
(* run if any section other than memory moved" (cli.py): under a gate that  *)
(* passed, P1 and P2 searched the corpus that was sealed.                   *)
SnapshotGuards ==
  (result # Nothing /\ result.gate) =>
    \A k \in Keys : k[1] \in {"P1", "P2"} => \A v \in result.answers[k].found : v.corpus = 0

(* The evaluation ends, whatever fails and however often it is killed, as   *)
(* long as somebody starts it again.                                        *)
EvaluationEnds == <>(phase = "exited")
=============================================================================
