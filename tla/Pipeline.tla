------------------------------ MODULE Pipeline ------------------------------
(***************************************************************************)
(* supervisor.py's supervise() and the stage processes of cli.py it starts *)
(* for one run: collect, freeze-benchmark, evaluate, replay, report and    *)
(* verify.  The lock is the DriverLock that RunLock implements.  A stage   *)
(* process outlives a supervisor that is killed.                           *)
(***************************************************************************)
EXTENDS Integers, FiniteSets, Sequences

CONSTANTS
  Supervisors,  \* invocations of pheasant-lab run on one run
  Creator,      \* the one that starts the run: the others resume it
  NoOne,
  Attempts,     \* --attempts
  Trailing,     \* bound: how many of replay, report and verify are run
  MayDie,       \* TRUE when a supervisor may be killed
  MayRefuse     \* TRUE when a stage may be refused or interrupted

ASSUME PipelineAssumption ==
  /\ Creator \in Supervisors /\ NoOne \notin Supervisors
  /\ Attempts \in Nat \ {0} /\ Trailing \in 0..3
  /\ MayDie \in BOOLEAN /\ MayRefuse \in BOOLEAN

STAGES == <<"collect", "freeze-benchmark", "evaluate", "replay", "report", "verify">>
Stages == SubSeq(STAGES, 1, 3 + Trailing)
Checkpointed == {"collect", "freeze-benchmark", "evaluate"}

OK == 0
FINDINGS == 1
REFUSED == 2
CRASHED == 3
INTERRUPTED == 130

VARIABLES
  pc,         \* each supervisor: new, driving, waiting or how it ended
  at,         \* index of its stage in Stages
  attempt,    \* attempts at that stage
  done,       \* _completed(root), read once
  worst,      \* worst; then the code it returned
  knows,      \* it has a run_id, hence holds the lock
  lock,       \* whose pid supervisor/lock holds
  step,       \* where its stage process is
  code,       \* exit status of the last one
  mem,        \* RunState.data["stages"] in that process
  stages,     \* state.json's "stages"
  exists,     \* the run directory has a manifest
  frozen,     \* benchmark/: absent, over the corpus in raw/, or over an older one
  exhausted,  \* history: a stage ended on BudgetExceeded
  intruded,   \* history: the lock was taken while a stray stage process ran
  found       \* history: supervisors that saw a stage exit with 1

supVars   == <<pc, at, attempt, done, worst, knows, lock>>
childVars == <<step, code, mem>>
runVars   == <<stages, exists, frozen, exhausted>>
history   == <<intruded, found>>
vars == <<supVars, childVars, runVars, history>>

Ended   == {"over", "refused", "killed"}
Running == {"booting", "working", "worked", "saved"}
Blank   == [c \in Checkpointed |-> "none"]

Init ==
  /\ pc = [s \in Supervisors |-> "new"]
  /\ at = [s \in Supervisors |-> 1]
  /\ attempt = [s \in Supervisors |-> 0]
  /\ done = [s \in Supervisors |-> {}]
  /\ worst = [s \in Supervisors |-> OK]
  /\ knows = [s \in Supervisors |-> FALSE]
  /\ lock = NoOne
  /\ step = [s \in Supervisors |-> "none"]
  /\ code = [s \in Supervisors |-> OK]
  /\ mem = [s \in Supervisors |-> Blank]
  /\ stages = Blank /\ exists = FALSE /\ frozen = "absent"
  /\ exhausted = FALSE /\ intruded = FALSE /\ found = {}

-----------------------------------------------------------------------------
(* The supervisor. *)

Stage(s) == Stages[at[s]]
Completed == {c \in Checkpointed : stages[c] = "completed"}

Free == lock = NoOne \/ pc[lock] \in Ended

(* A stage process whose supervisor is dead, or has no lock yet. *)
Stray(t) == step[t] \in Running /\ (pc[t] = "killed" \/ ~knows[t])

Create(s) ==
  /\ s = Creator /\ pc[s] = "new"
  /\ pc' = [pc EXCEPT ![s] = "driving"]
  /\ UNCHANGED <<at, attempt, done, worst, knows, lock, childVars, runVars, history>>

(* run --resume: the lock first, then the checkpoint. *)
Resume(s) ==
  /\ s # Creator /\ pc[s] = "new" /\ exists
  /\ IF Free
     THEN /\ pc' = [pc EXCEPT ![s] = "driving"]
          /\ lock' = s
          /\ knows' = [knows EXCEPT ![s] = TRUE]
          /\ done' = [done EXCEPT ![s] = Completed]
          /\ intruded' = (intruded \/ \E t \in Supervisors : Stray(t))
     ELSE /\ pc' = [pc EXCEPT ![s] = "refused"]
          /\ UNCHANGED <<lock, knows, done, intruded>>
  /\ UNCHANGED <<at, attempt, worst, childVars, runVars, found>>

Skippable(s) == Stage(s) \in Checkpointed /\ Stage(s) \in done[s]

Skip(s) ==
  /\ pc[s] = "driving" /\ at[s] <= Len(Stages)
  /\ Skippable(s)
  /\ at' = [at EXCEPT ![s] = @ + 1]
  /\ UNCHANGED <<pc, attempt, done, worst, knows, lock, childVars, runVars, history>>

(* subprocess.call. *)
Launch(s) ==
  /\ pc[s] = "driving" /\ at[s] <= Len(Stages)
  /\ ~Skippable(s)
  /\ attempt' = [attempt EXCEPT ![s] = @ + 1]
  /\ step' = [step EXCEPT ![s] = "booting"]
  /\ pc' = [pc EXCEPT ![s] = "waiting"]
  /\ UNCHANGED <<at, done, worst, knows, lock, code, mem, runVars, history>>

(* The child has ended and left a run directory this supervisor did not have:
   it takes that run's lock, or raises RunLocked. *)
Adopt(s) ==
  /\ pc[s] = "waiting" /\ step[s] = "exited"
  /\ ~knows[s] /\ exists
  /\ IF Free
     THEN /\ lock' = s
          /\ knows' = [knows EXCEPT ![s] = TRUE]
          /\ intruded' = (intruded \/ \E t \in Supervisors : Stray(t))
          /\ UNCHANGED <<pc, step>>
     ELSE /\ pc' = [pc EXCEPT ![s] = "refused"]
          /\ step' = [step EXCEPT ![s] = "none"]
          /\ UNCHANGED <<lock, knows, intruded>>
  /\ UNCHANGED <<at, attempt, done, worst, code, mem, runVars, found>>

(* Mutant of Crashed: an unhandled exception counts as an exit. *)
MutantCrashed(c) == c \notin {OK, FINDINGS, REFUSED, CRASHED, INTERRUPTED}

Crashed(c) == c \notin {OK, FINDINGS, REFUSED, INTERRUPTED}

(* supervise() is left, and its local variables with it. *)
Leave(s, how, result) ==
  /\ pc' = [pc EXCEPT ![s] = how]
  /\ worst' = [worst EXCEPT ![s] = result]
  /\ attempt' = [attempt EXCEPT ![s] = 0]
  /\ done' = [done EXCEPT ![s] = {}]

(* return, with the lock released by the finally clause. *)
Return(s, result) ==
  /\ Leave(s, "over", result)
  /\ lock' = IF knows[s] THEN NoOne ELSE lock
  /\ UNCHANGED at

OutOfAttempts(s) == attempt[s] >= Attempts

(* Mutant of Retry: every attempt counts as the first. *)
MutantRetry(s) ==
  /\ pc' = [pc EXCEPT ![s] = "driving"]
  /\ attempt' = [attempt EXCEPT ![s] = 0]
  /\ UNCHANGED <<at, worst, lock, done>>

Retry(s) ==
  /\ pc' = [pc EXCEPT ![s] = "driving"]
  /\ UNCHANGED <<at, attempt, worst, lock, done>>

(* Mutant of Worse: the last stage decides. *)
MutantWorse(old, new) == new

(* worst or code *)
Worse(old, new) == IF old # OK THEN old ELSE new

Advance(s) ==
  /\ pc' = [pc EXCEPT ![s] = "driving"]
  /\ at' = [at EXCEPT ![s] = @ + 1]
  /\ attempt' = [attempt EXCEPT ![s] = 0]
  /\ worst' = [worst EXCEPT ![s] = Worse(@, code[s])]
  /\ UNCHANGED <<lock, done>>

(* What the exit status decides. *)
Reap(s) ==
  /\ pc[s] = "waiting" /\ step[s] = "exited"
  /\ knows[s] \/ ~exists
  /\ step' = [step EXCEPT ![s] = "none"]
  /\ \/ Crashed(code[s]) /\ OutOfAttempts(s) /\ Return(s, CRASHED)
     \/ Crashed(code[s]) /\ ~OutOfAttempts(s) /\ Retry(s)
     \/ code[s] \in {REFUSED, INTERRUPTED} /\ Return(s, code[s])
     \/ ~Crashed(code[s]) /\ code[s] \notin {REFUSED, INTERRUPTED} /\ Advance(s)
  /\ found' = IF code[s] = FINDINGS THEN found \cup {s} ELSE found
  /\ code' = [code EXCEPT ![s] = OK]
  /\ UNCHANGED <<knows, mem, runVars, intruded>>

Finish(s) ==
  /\ pc[s] = "driving" /\ at[s] > Len(Stages)
  /\ Return(s, worst[s])
  /\ UNCHANGED <<knows, childVars, runVars, history>>

(* SIGKILL: no finally clause, and the stage process goes on. *)
Kill(s) ==
  /\ MayDie
  /\ pc[s] \in {"driving", "waiting"}
  /\ Leave(s, "killed", OK)
  /\ step' = [step EXCEPT ![s] = IF @ = "exited" THEN "none" ELSE @]
  /\ code' = [code EXCEPT ![s] = OK]
  /\ UNCHANGED <<at, knows, lock, mem, runVars, history>>

-----------------------------------------------------------------------------
(* The stage process of supervisor s. *)

(* The process ends, and its memory with it. *)
Exit(s, c) ==
  /\ step' = [step EXCEPT ![s] = IF pc[s] = "waiting" THEN "exited" ELSE "none"]
  /\ code' = [code EXCEPT ![s] = IF pc[s] = "waiting" THEN c ELSE OK]
  /\ mem' = [mem EXCEPT ![s] = Blank]

(* RunState.mark_stage: the whole checkpoint is written from memory. *)
Marked(s, base, status) == [base EXCEPT ![Stage(s)] = status]

(* open_session or resume_session: a first collect creates the run and its
   checkpoint, everything else loads the checkpoint. *)
Boot(s) ==
  /\ step[s] = "booting"
  /\ exists' = TRUE
  /\ \/ /\ Stage(s) = "collect" /\ stages["collect"] = "completed"
        /\ Exit(s, OK)
        /\ UNCHANGED stages
     \/ /\ Stage(s) \in {"collect", "evaluate"}
        /\ Stage(s) = "collect" => stages["collect"] # "completed"
        /\ Stage(s) = "evaluate" => frozen # "absent"
        /\ stages' = Marked(s, stages, "running")
        /\ mem' = [mem EXCEPT ![s] = stages']
        /\ step' = [step EXCEPT ![s] = "working"]
        /\ UNCHANGED code
     \/ /\ Stage(s) = "evaluate" /\ frozen = "absent"
        /\ Exit(s, CRASHED)
        /\ UNCHANGED stages
     \/ /\ Stage(s) \notin {"collect", "evaluate"}
        /\ step' = [step EXCEPT ![s] = "working"]
        /\ mem' = [mem EXCEPT ![s] = stages]
        /\ UNCHANGED <<code, stages>>
  /\ UNCHANGED <<supVars, frozen, exhausted, history>>

(* The stage's own work: collection adds to raw/, freezing writes benchmark/
   over what raw/ holds. *)
Work(s) ==
  /\ step[s] = "working"
  /\ step' = [step EXCEPT ![s] = "worked"]
  /\ frozen' = IF Stage(s) = "freeze-benchmark" THEN "current"
               ELSE IF Stage(s) = "collect" /\ frozen = "current" THEN "stale"
               ELSE frozen
  /\ UNCHANGED <<supVars, code, mem, stages, exists, exhausted, history>>

(* The checkpoint says completed; checksums and output are still to come. *)
Save(s) ==
  /\ step[s] = "worked"
  /\ step' = [step EXCEPT ![s] = "saved"]
  /\ stages' = IF Stage(s) \in Checkpointed
               THEN Marked(s, mem[s], "completed") ELSE stages
  /\ mem' = [mem EXCEPT ![s] = stages']
  /\ UNCHANGED <<supVars, code, exists, frozen, exhausted, history>>

(* EXIT_OK, or EXIT_FAILED for a corpus that is not sufficient, a leak or a
   finding. *)
Succeed(s) ==
  /\ step[s] = "saved"
  /\ \E c \in {OK, FINDINGS} :
       /\ Stage(s) \in {"evaluate", "report"} => c = OK
       /\ Exit(s, c)
  /\ UNCHANGED <<supVars, runVars, history>>

(* BudgetExceeded: collect records that it stopped, freeze-benchmark lets
   main() turn it into the same exit status. *)
Exhaust(s) ==
  /\ \/ step[s] \in {"working", "worked"} /\ Stage(s) = "collect"
     \/ step[s] = "working" /\ Stage(s) = "freeze-benchmark"
  /\ stages' = IF Stage(s) = "collect"
               THEN Marked(s, mem[s], "stopped_budget_incomplete") ELSE stages
  /\ Exit(s, FINDINGS)
  /\ exhausted' = TRUE
  /\ UNCHANGED <<supVars, exists, frozen, history>>

(* An unhandled exception or a signal, at any point. *)
Crash(s) ==
  /\ step[s] \in Running
  /\ Exit(s, CRASHED)
  /\ UNCHANGED <<supVars, runVars, history>>

(* ConfigError, MissingCapability, a benchmark that does not match its
   manifest; or a person's interrupt. *)
Refuse(s) ==
  /\ MayRefuse
  /\ \/ step[s] = "booting" /\ Exit(s, REFUSED)
     \/ step[s] \in {"working", "worked"} /\ Exit(s, INTERRUPTED)
  /\ UNCHANGED <<supVars, runVars, history>>

-----------------------------------------------------------------------------
SupervisorStep(s) ==
  \/ Create(s) \/ Resume(s) \/ Skip(s) \/ Launch(s)
  \/ Adopt(s) \/ Reap(s) \/ Finish(s)

ChildStep(s) ==
  \/ Boot(s) \/ Work(s) \/ Save(s) \/ Succeed(s)
  \/ Exhaust(s) \/ Crash(s) \/ Refuse(s)

(* Nobody drives the run any more and no stage process is left. *)
AtRest ==
  /\ \A s \in Supervisors :
       /\ pc[s] \in Ended \/ (pc[s] = "new" /\ s # Creator /\ ~exists)
       /\ step[s] \notin Running
  /\ UNCHANGED vars

Next ==
  \/ \E s \in Supervisors : SupervisorStep(s) \/ Kill(s) \/ ChildStep(s)
  \/ AtRest

(* A supervisor or its stage process, one of which waits for the other, takes
   a step when it can; nobody has to be killed. *)
Fairness == \A s \in Supervisors : WF_vars(SupervisorStep(s) \/ ChildStep(s))

Spec == Init /\ [][Next]_vars /\ Fairness

-----------------------------------------------------------------------------
(* What mark_stage writes. *)
STATUS == {"none", "running", "completed", "stopped_budget_incomplete"}

(* Every variable has its type. *)
TypeOK ==
  /\ pc \in [Supervisors -> {"new", "driving", "waiting"} \cup Ended]
  /\ at \in [Supervisors -> 1..(Len(Stages) + 1)]
  /\ attempt \in [Supervisors -> 0..Attempts]
  /\ done \in [Supervisors -> SUBSET Checkpointed]
  /\ worst \in [Supervisors -> {OK, FINDINGS, REFUSED, CRASHED, INTERRUPTED}]
  /\ knows \in [Supervisors -> BOOLEAN]
  /\ lock \in Supervisors \cup {NoOne}
  /\ step \in [Supervisors -> {"none", "exited"} \cup Running]
  /\ code \in [Supervisors -> {OK, FINDINGS, REFUSED, CRASHED, INTERRUPTED}]
  /\ mem \in [Supervisors -> [Checkpointed -> STATUS]]
  /\ stages \in [Checkpointed -> STATUS]
  /\ exists \in BOOLEAN /\ frozen \in {"absent", "current", "stale"}
  /\ exhausted \in BOOLEAN /\ intruded \in BOOLEAN
  /\ found \in SUBSET Supervisors

(* One stage process at a time appends to the run's raw trace, unless the lock
   was taken while a stray one was running: after its supervisor was killed, or during
   the first collect of a new run, which is not locked yet
   (supervisor.py:160-163, 196-203). *)
SoleStageProcess ==
  intruded \/ Cardinality({s \in Supervisors : step[s] \in Running}) <= 1

(* An evaluation is over the corpus its benchmark was frozen from: nothing is
   collected after the freeze, whatever crashed and was resumed, unless the
   budget stopped a stage or two stage processes overlapped
   (supervisor.py:22-24, 40-42, 169-171). *)
BenchmarkCurrent ==
  intruded \/ exhausted \/ (stages["evaluate"] = "completed" => frozen = "current")

(* A supervisor that reports success or findings leaves a run whose
   checkpointed stages are all completed, those it skipped included
   (supervisor.py:13-14, 166-171, 215-229). *)
EndMeansComplete ==
  [][\A s \in Supervisors :
       pc[s] # "over" /\ pc'[s] = "over" /\ worst'[s] \in {OK, FINDINGS}
         => intruded \/ exhausted \/ Completed = Checkpointed]_vars

(* A supervisor reports success only if none of the stages it waited for
   reported findings, retried or not (supervisor.py:228-229). *)
FindingsReported ==
  \A s \in Supervisors : pc[s] = "over" /\ worst[s] = OK => s \notin found

(* Crashes are retried a bounded number of times: every supervisor that starts
   ends (supervisor.py:215-225). *)
EverySupervisorEnds ==
  \A s \in Supervisors : pc[s] \in {"driving", "waiting"} ~> pc[s] \in Ended

(* The claim of durability.md:63 and supervisor.py:13-14: exit status 1 means
   "completed, and a decision failed". *)
OneMeansCompleted ==
  \A s \in Supervisors :
    pc[s] = "driving" /\ s \in found
      => \A i \in 1..(at[s] - 1) : Stages[i] \in Checkpointed => stages[Stages[i]] = "completed"
=============================================================================
