--------------------------- MODULE PipelineProofs ---------------------------
(***************************************************************************)
(* Proofs about Pipeline: what holds of supervisors, their stage processes *)
(* and the checkpoint, whatever is killed and resumed.                     *)
(***************************************************************************)
EXTENDS Pipeline, FiniteSetTheorems, TLAPS

Driving == {"driving", "waiting"}
Active(s)  == pc[s] \in Driving
Busy(s)    == step[s] \in Running
Acting(s)  == Active(s) \/ Busy(s)
Loaded     == {"working", "worked", "saved"}

(* Where a supervisor and its stage process stand fits together. *)
Seats ==
  \A s \in Supervisors :
    /\ pc[s] = "new" => attempt[s] = 0 /\ at[s] = 1 /\ done[s] = {} /\ step[s] = "none"
    /\ pc[s] = "killed" => done[s] = {}
    /\ pc[s] = "driving" => attempt[s] < Attempts /\ step[s] = "none"
    /\ pc[s] = "waiting" => step[s] # "none" /\ (Stage(s) \in Checkpointed => Stage(s) \notin done[s])
    /\ pc[s] = "waiting" \/ Busy(s) => at[s] <= Len(Stages)
    /\ Busy(s) => pc[s] \in {"waiting", "killed"}
    /\ step[s] = "exited" => pc[s] = "waiting"

(* Who has a run id has its lock for as long as it acts; who has none is the
   creator at its first stage, and while there is no run nobody has one. *)
Locked ==
  /\ lock # NoOne => knows[lock]
  /\ \A s \in Supervisors :
       /\ pc[s] = "new" => ~knows[s] /\ (s = Creator => ~exists)
       /\ knows[s] /\ Active(s) => lock = s
       /\ (Active(s) \/ pc[s] = "killed") /\ ~knows[s]
            => s = Creator /\ at[s] = 1 /\ done[s] = {}
       /\ pc[s] = "driving" /\ ~knows[s] => ~exists
  /\ ~exists =>
       /\ lock = NoOne
       /\ \A s \in Supervisors :
            /\ ~knows[s] /\ step[s] \notin Loaded
            /\ s # Creator => pc[s] = "new"
            /\ step[s] = "exited" => code[s] \in {CRASHED, REFUSED}

(* The one that runs a stage process has the lock, or nobody has. *)
Ordered ==
  intruded \/ \A s \in Supervisors : Busy(s) => lock = s \/ (~knows[s] /\ lock = NoOne)

(* The checkpoint a process loaded is the one on disk. *)
Fresh == intruded \/ \A s \in Supervisors : step[s] \in Loaded => mem[s] = stages

Calm == ~intruded /\ ~exhausted
Is(c) == stages[c] = "completed"

(* What lies behind a supervisor is completed, and what its stage process has
   reported or is about to report. *)
Behind(s) ==
  /\ Acting(s) => \A i \in 1..3 : i < at[s] => Is(STAGES[i])
  /\ Active(s) => \A c \in done[s] : Is(c)
  /\ step[s] = "saved" \/ (step[s] = "exited" /\ code[s] \in {OK, FINDINGS})
       => (Stage(s) \in Checkpointed => Is(Stage(s)))
  /\ step[s] \in {"working", "worked"} /\ at[s] = 1 => ~Is("collect")
  /\ step[s] \in {"working", "worked"} /\ at[s] = 3 => frozen # "absent"
InOrder == Calm => \A s \in Supervisors : Behind(s)
Sealed ==
  Calm => /\ frozen # "stale"
          /\ frozen = "current" => Is("collect")
          /\ Is("evaluate") => frozen = "current"

(* Findings are remembered. *)
Told == \A s \in Supervisors : s \in found => worst[s] # OK \/ pc[s] = "killed"
(* The stages of an instance: the three that are checkpointed, then others. *)
LEMMA StagesFacts ==
  /\ Len(Stages) \in 3..6
  /\ Stages[1] = "collect" /\ Stages[2] = "freeze-benchmark" /\ Stages[3] = "evaluate"
  /\ \A i \in 1..Len(Stages) : Stages[i] \in Checkpointed => i \in 1..3
  /\ \A i \in 1..Len(Stages) : Stages[i] = STAGES[i]
  /\ \A i \in 1..Len(Stages) :
       /\ Stages[i] = "collect" => i = 1
       /\ Stages[i] = "freeze-benchmark" => i = 2
       /\ Stages[i] = "evaluate" => i = 3
<1>1. Trailing \in 0..3
  BY PipelineAssumption
<1>2. Len(STAGES) = 6 /\ STAGES \in Seq({"collect", "freeze-benchmark", "evaluate", "replay", "report", "verify"})
  BY DEF STAGES
<1>4. Len(Stages) = 3 + Trailing
  BY <1>1, <1>2 DEF Stages
<1>5. \A i \in 1..Len(Stages) : Stages[i] = STAGES[i]
  BY <1>1, <1>2, <1>4 DEF Stages
<1>6. /\ STAGES[1] = "collect" /\ STAGES[2] = "freeze-benchmark" /\ STAGES[3] = "evaluate"
      /\ STAGES[4] = "replay" /\ STAGES[5] = "report" /\ STAGES[6] = "verify"
  BY DEF STAGES
<1>7. Len(Stages) \in 3..6 /\ \A i \in 1..Len(Stages) : i \in {1, 2, 3, 4, 5, 6}
  BY <1>1, <1>4
<1> QED BY <1>5, <1>6, <1>7 DEF Checkpointed

Shape == TypeOK /\ Seats

LEMMA InitShape == Init => Shape
<1> SUFFICES ASSUME Init PROVE Shape
  OBVIOUS
<1> USE PipelineAssumption, StagesFacts
<1>1. Blank \in [Checkpointed -> STATUS]
  BY DEF Blank, STATUS
<1>2. TypeOK
  <2>1. /\ pc \in [Supervisors -> {"new"}] /\ at \in [Supervisors -> {1}]
        /\ attempt \in [Supervisors -> {0}] /\ done \in [Supervisors -> {{}}]
        /\ worst \in [Supervisors -> {OK}] /\ knows \in [Supervisors -> {FALSE}]
        /\ step \in [Supervisors -> {"none"}] /\ code \in [Supervisors -> {OK}]
        /\ mem \in [Supervisors -> {Blank}]
    BY DEF Init
  <2>2. 0 \in 0..Attempts /\ 1 \in 1..(Len(Stages) + 1)
    OBVIOUS
  <2> QED BY <1>1, <2>1, <2>2 DEF Init, TypeOK
<1>3. Seats
  BY DEF Init, Seats, Busy, Running
<1> QED BY <1>2, <1>3 DEF Shape

USE DEF OK, FINDINGS, REFUSED, CRASHED, INTERRUPTED, Ended, Running

(* The lock is taken by who finds it free, and intruded remembers a stray. *)
Takes(s) ==
  /\ Free /\ lock' = s /\ knows' = [knows EXCEPT ![s] = TRUE]
  /\ intruded' = (intruded \/ \E t \in Supervisors : Stray(t))

LEMMA ResumeCases ==
  ASSUME NEW s \in Supervisors, Resume(s)
  PROVE  \/ Takes(s) /\ pc' = [pc EXCEPT ![s] = "driving"] /\ done' = [done EXCEPT ![s] = Completed]
         \/ pc' = [pc EXCEPT ![s] = "refused"] /\ UNCHANGED <<lock, knows, done, intruded>>
BY Zenon DEF Resume, Takes

LEMMA AdoptCases ==
  ASSUME NEW s \in Supervisors, Adopt(s)
  PROVE  \/ Takes(s) /\ UNCHANGED <<pc, step>>
         \/ /\ pc' = [pc EXCEPT ![s] = "refused"] /\ step' = [step EXCEPT ![s] = "none"]
            /\ UNCHANGED <<lock, knows, intruded>>
BY Zenon DEF Adopt, Takes

(* No step takes a variable out of its type. *)
LEMMA TypeInv == Shape /\ [Next]_vars => TypeOK'
<1> SUFFICES ASSUME Shape, [Next]_vars PROVE TypeOK'
  OBVIOUS
<1> USE DEF Shape, TypeOK
<1>0. ASSUME NEW s \in Supervisors, NEW base \in [Checkpointed -> STATUS], NEW status \in STATUS
      PROVE  Marked(s, base, status) \in [Checkpointed -> STATUS]
  BY DEF Marked
<1>1. Blank \in [Checkpointed -> STATUS] /\ Completed \in SUBSET Checkpointed
  BY DEF Blank, STATUS, Completed
<1>2. ASSUME NEW s \in Supervisors, SupervisorStep(s) PROVE TypeOK'
  <2>1. CASE Create(s)
    BY <2>1 DEF Create, childVars, runVars, history
  <2>0. ASSUME Takes(s)
        PROVE  /\ intruded' \in BOOLEAN /\ lock' \in Supervisors \cup {NoOne}
               /\ knows' \in [Supervisors -> BOOLEAN]
    BY <2>0 DEF Takes
  <2>2. CASE Resume(s)
    <3>1. CASE Takes(s) /\ pc' = [pc EXCEPT ![s] = "driving"]
               /\ done' = [done EXCEPT ![s] = Completed]
      BY <1>1, <2>0, <2>2, <3>1 DEF Resume, childVars, runVars
    <3>2. CASE pc' = [pc EXCEPT ![s] = "refused"] /\ UNCHANGED <<lock, knows, done, intruded>>
      BY <2>2, <3>2 DEF Resume, childVars, runVars
    <3> QED BY <2>2, <3>1, <3>2, ResumeCases
  <2>3. CASE Skip(s)
    BY <2>3, StagesFacts DEF Skip, childVars, runVars, history
  <2>4. CASE Launch(s)
    BY <2>4, PipelineAssumption, StagesFacts DEF Launch, Seats, runVars, history
  <2>5. CASE Adopt(s)
    <3>1. CASE Takes(s) /\ UNCHANGED <<pc, step>>
      BY <2>0, <2>5, <3>1 DEF Adopt, runVars
    <3>2. CASE /\ pc' = [pc EXCEPT ![s] = "refused"] /\ step' = [step EXCEPT ![s] = "none"]
               /\ UNCHANGED <<lock, knows, intruded>>
      BY <2>5, <3>2 DEF Adopt, runVars
    <3> QED BY <2>5, <3>1, <3>2, AdoptCases
  <2>6. CASE Reap(s)
    <3>1. at[s] <= Len(Stages)
      BY <2>6 DEF Reap, Seats
    <3>2. Worse(worst[s], code[s]) \in {OK, FINDINGS, REFUSED, CRASHED, INTERRUPTED}
      BY DEF Worse
    <3>3. 0 \in 0..Attempts
      BY PipelineAssumption
    <3>4. /\ step' \in [Supervisors -> {"none", "exited"} \cup Running]
          /\ code' \in [Supervisors -> {OK, FINDINGS, REFUSED, CRASHED, INTERRUPTED}]
          /\ found' \in SUBSET Supervisors
      BY <2>6 DEF Reap
    <3>5. ASSUME NEW r \in {OK, FINDINGS, REFUSED, CRASHED, INTERRUPTED}, Return(s, r)
          PROVE  TypeOK'
      <4>1. /\ pc' \in [Supervisors -> {"new", "driving", "waiting"} \cup Ended]
            /\ worst' \in [Supervisors -> {OK, FINDINGS, REFUSED, CRASHED, INTERRUPTED}]
            /\ attempt' \in [Supervisors -> 0..Attempts]
            /\ done' \in [Supervisors -> SUBSET Checkpointed]
            /\ lock' \in Supervisors \cup {NoOne} /\ UNCHANGED at
        BY <3>3, <3>5 DEF Return, Leave
      <4> QED BY <2>6, <3>4, <4>1 DEF Reap, runVars
    <3>6. CASE Retry(s)
      BY <2>6, <3>4, <3>6 DEF Reap, Retry, runVars
    <3>7. CASE Advance(s)
      BY <2>6, <3>1, <3>2, <3>3, <3>4, <3>7, StagesFacts DEF Reap, Advance, runVars
    <3> QED BY <2>6, <3>5, <3>6, <3>7 DEF Reap
  <2>7. CASE Finish(s)
    BY <2>7, PipelineAssumption DEF Finish, Return, Leave, childVars, runVars, history
  <2> QED BY <1>2, <2>1, <2>2, <2>3, <2>4, <2>5, <2>6, <2>7 DEF SupervisorStep
<1>3. ASSUME NEW s \in Supervisors, Kill(s) PROVE TypeOK'
  BY <1>3, PipelineAssumption DEF Kill, Leave, runVars, history
<1>4. ASSUME NEW s \in Supervisors, ChildStep(s) PROVE TypeOK'
  <2> USE <1>0, <1>1 DEF supVars, runVars, history
  <2>0. ASSUME NEW c \in {OK, FINDINGS, REFUSED, CRASHED, INTERRUPTED}, Exit(s, c)
        PROVE  /\ step' \in [Supervisors -> {"none", "exited"} \cup Running]
               /\ code' \in [Supervisors -> {OK, FINDINGS, REFUSED, CRASHED, INTERRUPTED}]
               /\ mem' \in [Supervisors -> [Checkpointed -> STATUS]]
    BY <2>0 DEF Exit
  <2>1. CASE Boot(s)
    <3>1. Marked(s, stages, "running") \in [Checkpointed -> STATUS]
      BY DEF STATUS
    <3>2. CASE UNCHANGED stages /\ (Exit(s, OK) \/ Exit(s, CRASHED))
      BY <2>0, <2>1, <3>2 DEF Boot
    <3>3. CASE stages' = Marked(s, stages, "running") /\ mem' = [mem EXCEPT ![s] = stages']
               /\ step' = [step EXCEPT ![s] = "working"] /\ UNCHANGED code
      BY <2>1, <3>1, <3>3 DEF Boot
    <3>4. CASE step' = [step EXCEPT ![s] = "working"] /\ mem' = [mem EXCEPT ![s] = stages]
               /\ UNCHANGED <<code, stages>>
      BY <2>1, <3>4 DEF Boot
    <3> QED BY <2>1, <3>2, <3>3, <3>4 DEF Boot
  <2>2. CASE Work(s)
    BY <2>2 DEF Work
  <2>3. CASE Save(s)
    <3>1. Marked(s, mem[s], "completed") \in [Checkpointed -> STATUS]
      BY DEF STATUS
    <3> QED BY <2>3, <3>1 DEF Save
  <2>4. CASE Succeed(s)
    BY <2>4 DEF Succeed, Exit
  <2>5. CASE Exhaust(s)
    <3>1. Marked(s, mem[s], "stopped_budget_incomplete") \in [Checkpointed -> STATUS]
      BY DEF STATUS
    <3> QED BY <2>5, <3>1 DEF Exhaust, Exit
  <2>6. CASE Crash(s)
    BY <2>6 DEF Crash, Exit
  <2>7. CASE Refuse(s)
    <3>1. /\ step' \in [Supervisors -> {"none", "exited"} \cup Running]
          /\ code' \in [Supervisors -> {OK, FINDINGS, REFUSED, CRASHED, INTERRUPTED}]
          /\ mem' \in [Supervisors -> [Checkpointed -> STATUS]]
      BY <2>0, <2>7 DEF Refuse
    <3> QED BY <2>7, <3>1 DEF Refuse
  <2> QED BY <1>4, <2>1, <2>2, <2>3, <2>4, <2>5, <2>6, <2>7 DEF ChildStep
<1>5. CASE UNCHANGED vars
  BY <1>5 DEF vars, supVars, childVars, runVars, history
<1> QED BY <1>2, <1>3, <1>4, <1>5 DEF Next, AtRest

(* Supervisors and their stage processes keep step with each other. *)
LEMMA SeatsInv == Shape /\ [Next]_vars => Seats'
<1> SUFFICES ASSUME Shape, [Next]_vars PROVE Seats'
  OBVIOUS
<1> USE DEF Shape, TypeOK, Seats, Busy, Stage
<1>2. ASSUME NEW s \in Supervisors, SupervisorStep(s) PROVE Seats'
  <2>1. CASE Create(s)
    BY <2>1, PipelineAssumption DEF Create, childVars
  <2>2. CASE Resume(s)
    BY <2>2, PipelineAssumption DEF Resume, childVars
  <2>3. CASE Skip(s)
    BY <2>3, StagesFacts DEF Skip, childVars
  <2>4. CASE Launch(s)
    BY <2>4, StagesFacts DEF Launch, Skippable
  <2>5. CASE Adopt(s)
    BY <2>5 DEF Adopt, Free
  <2>6. CASE Reap(s)
    BY <2>6, PipelineAssumption, StagesFacts DEF Reap, Return, Leave, Retry, Advance, OutOfAttempts
  <2>7. CASE Finish(s)
    BY <2>7 DEF Finish, Return, Leave, childVars
  <2> QED BY <1>2, <2>1, <2>2, <2>3, <2>4, <2>5, <2>6, <2>7 DEF SupervisorStep
<1>3. ASSUME NEW s \in Supervisors, Kill(s) PROVE Seats'
  BY <1>3 DEF Kill, Leave
<1>4. ASSUME NEW s \in Supervisors, ChildStep(s) PROVE Seats'
  <2> USE DEF supVars
  <2>1. CASE Boot(s)
    BY <2>1 DEF Boot, Exit
  <2>2. CASE Work(s)
    BY <2>2 DEF Work
  <2>3. CASE Save(s)
    BY <2>3 DEF Save
  <2>4. CASE Succeed(s)
    BY <2>4 DEF Succeed, Exit
  <2>5. CASE Exhaust(s)
    BY <2>5 DEF Exhaust, Exit
  <2>6. CASE Crash(s)
    BY <2>6 DEF Crash, Exit
  <2>7. CASE Refuse(s)
    BY <2>7 DEF Refuse, Exit
  <2> QED BY <1>4, <2>1, <2>2, <2>3, <2>4, <2>5, <2>6, <2>7 DEF ChildStep
<1>5. CASE UNCHANGED vars
  BY <1>5 DEF vars, supVars, childVars
<1> QED BY <1>2, <1>3, <1>4, <1>5 DEF Next, AtRest

(* The lock stays with whom it belongs to. *)
LEMMA LockedInv == Shape /\ Locked /\ [Next]_vars => Locked'
<1> SUFFICES ASSUME Shape, Locked, [Next]_vars PROVE Locked'
  OBVIOUS
<1> USE PipelineAssumption DEF Shape, TypeOK, Seats, Locked, Active, Driving, Busy, Loaded
<1>1. ASSUME NEW s \in Supervisors, SupervisorStep(s) PROVE Locked'
  <2>1. CASE Create(s)
    BY <2>1 DEF Create, childVars, runVars
  <2>2. CASE Resume(s)
    <3>1. CASE Takes(s) /\ pc' = [pc EXCEPT ![s] = "driving"]
      BY <2>2, <3>1 DEF Resume, Takes, Free, childVars, runVars
    <3>2. CASE pc' = [pc EXCEPT ![s] = "refused"] /\ UNCHANGED <<lock, knows, done>>
      BY <2>2, <3>2 DEF Resume, childVars, runVars
    <3> QED BY <2>2, <3>1, <3>2, ResumeCases
  <2>3. CASE Skip(s)
    BY <2>3 DEF Skip, Skippable, childVars, runVars
  <2>4. CASE Launch(s)
    BY <2>4 DEF Launch, runVars
  <2>5. CASE Adopt(s)
    <3>1. CASE Takes(s) /\ UNCHANGED <<pc, step>>
      BY <2>5, <3>1 DEF Adopt, Takes, Free, runVars
    <3>2. CASE /\ pc' = [pc EXCEPT ![s] = "refused"] /\ step' = [step EXCEPT ![s] = "none"]
               /\ UNCHANGED <<lock, knows>>
      BY <2>5, <3>2 DEF Adopt, runVars
    <3> QED BY <2>5, <3>1, <3>2, AdoptCases
  <2>6. CASE Reap(s)
    <3>1. CASE Return(s, CRASHED) \/ Return(s, code[s])
      BY <2>6, <3>1 DEF Reap, Return, Leave, runVars
    <3>2. CASE Retry(s)
      BY <2>6, <3>2 DEF Reap, Retry, runVars
    <3>3. CASE Advance(s) /\ ~Crashed(code[s]) /\ code[s] \notin {REFUSED, INTERRUPTED}
      BY <2>6, <3>3 DEF Reap, Advance, Crashed, runVars
    <3> QED BY <2>6, <3>1, <3>2, <3>3 DEF Reap
  <2>7. CASE Finish(s)
    BY <2>7, StagesFacts DEF Finish, Return, Leave, childVars, runVars
  <2> QED BY <1>1, <2>1, <2>2, <2>3, <2>4, <2>5, <2>6, <2>7 DEF SupervisorStep
<1>2. ASSUME NEW s \in Supervisors, Kill(s) PROVE Locked'
  BY <1>2 DEF Kill, Leave, runVars
<1>3. ASSUME NEW s \in Supervisors, ChildStep(s) PROVE Locked'
  <2> USE DEF supVars
  <2>1. CASE Boot(s)
    BY <2>1 DEF Boot, Exit
  <2>2. CASE Work(s)
    BY <2>2 DEF Work
  <2>3. CASE Save(s)
    BY <2>3 DEF Save
  <2>4. CASE Succeed(s)
    BY <2>4 DEF Succeed, Exit, runVars
  <2>5. CASE Exhaust(s)
    BY <2>5 DEF Exhaust, Exit
  <2>6. CASE Crash(s)
    BY <2>6 DEF Crash, Exit, runVars
  <2>7. CASE Refuse(s)
    BY <2>7 DEF Refuse, Exit, runVars
  <2> QED BY <1>3, <2>1, <2>2, <2>3, <2>4, <2>5, <2>6, <2>7 DEF ChildStep
<1>4. CASE UNCHANGED vars
  BY <1>4 DEF vars, supVars, childVars, runVars
<1> QED BY <1>1, <1>2, <1>3, <1>4 DEF Next, AtRest

(* Stage processes run one after the other until a stray one is overtaken. *)
LEMMA OrderedInv == Shape /\ Locked /\ Ordered /\ [Next]_vars => Ordered'
<1> SUFFICES ASSUME Shape, Locked, Ordered, [Next]_vars PROVE Ordered'
  OBVIOUS
<1> USE PipelineAssumption DEF Shape, TypeOK, Seats, Locked, Ordered, Active, Driving, Busy
<1>1. ASSUME NEW s \in Supervisors, SupervisorStep(s) PROVE Ordered'
  <2>0. ASSUME Takes(s) PROVE intruded' \/ \A t \in Supervisors : ~Busy(t)
    <3> SUFFICES ASSUME ~intruded', NEW t \in Supervisors, Busy(t) PROVE FALSE
      OBVIOUS
    <3>1. ~Stray(t)
      BY <2>0 DEF Takes
    <3>2. pc[t] = "waiting" /\ knows[t]
      BY <3>1 DEF Stray
    <3>3. lock = t
      BY <3>2
    <3> QED BY <2>0, <3>2, <3>3 DEF Takes, Free
  <2>1. CASE Create(s)
    BY <2>1 DEF Create, childVars, history
  <2>2. CASE Resume(s)
    <3>1. CASE Takes(s)
      BY <2>0, <2>2, <3>1 DEF Resume, childVars
    <3>2. CASE UNCHANGED <<lock, knows, intruded>>
      BY <2>2, <3>2 DEF Resume, childVars
    <3> QED BY <2>2, <3>1, <3>2, ResumeCases
  <2>3. CASE Skip(s)
    BY <2>3 DEF Skip, childVars, history
  <2>4. CASE Launch(s)
    BY <2>4 DEF Launch, history
  <2>5. CASE Adopt(s)
    <3>1. CASE Takes(s) /\ UNCHANGED <<pc, step>>
      BY <2>0, <2>5, <3>1 DEF Adopt
    <3>2. CASE step' = [step EXCEPT ![s] = "none"] /\ UNCHANGED <<lock, knows, intruded>>
      BY <2>5, <3>2 DEF Adopt
    <3> QED BY <2>5, <3>1, <3>2, AdoptCases
  <2>6. CASE Reap(s)
    BY <2>6 DEF Reap, Return, Leave, Retry, Advance
  <2>7. CASE Finish(s)
    BY <2>7 DEF Finish, Return, Leave, childVars, history
  <2> QED BY <1>1, <2>1, <2>2, <2>3, <2>4, <2>5, <2>6, <2>7 DEF SupervisorStep
<1>2. ASSUME NEW s \in Supervisors, Kill(s) PROVE Ordered'
  BY <1>2 DEF Kill, Leave, history
<1>3. ASSUME NEW s \in Supervisors, ChildStep(s) PROVE Ordered'
  <2>1. step'[s] \in Running => step[s] \in Running
    BY <1>3 DEF ChildStep, Boot, Work, Save, Succeed, Exhaust, Crash, Refuse, Exit
  <2>2. /\ \A t \in Supervisors \ {s} : step'[t] = step[t]
        /\ UNCHANGED <<knows, lock, intruded>>
    BY <1>3 DEF ChildStep, Boot, Work, Save, Succeed, Exhaust, Crash, Refuse, Exit,
                supVars, history
  <2> QED BY <2>1, <2>2
<1>4. CASE UNCHANGED vars
  BY <1>4 DEF vars, supVars, childVars, history
<1> QED BY <1>1, <1>2, <1>3, <1>4 DEF Next, AtRest

(* One stage process at a time. *)
LEMMA OneBusy ==
  ASSUME Shape, Locked, Ordered, ~intruded, NEW s \in Supervisors, NEW t \in Supervisors,
         Busy(s), Busy(t)
  PROVE  s = t
BY PipelineAssumption DEF Shape, Seats, Locked, Ordered, Active, Driving, Busy

(* A stage process works on the checkpoint that is on disk. *)
LEMMA FreshInv == Shape /\ Locked /\ Ordered /\ Fresh /\ [Next]_vars => Fresh'
<1> SUFFICES ASSUME Shape, Locked, Ordered, Fresh, [Next]_vars, ~intruded',
                    NEW t \in Supervisors, step'[t] \in Loaded
             PROVE  mem'[t] = stages'
  BY DEF Fresh
<1> USE DEF Shape, TypeOK, Fresh, Loaded, Busy
<1>1. ASSUME NEW s \in Supervisors, SupervisorStep(s) PROVE mem'[t] = stages'
  <2>1. step'[t] = step[t] /\ UNCHANGED <<mem, stages>>
    BY <1>1 DEF SupervisorStep, Create, Resume, Skip, Launch, Adopt, Reap, Finish, childVars, runVars
  <2>2. intruded => intruded'
    BY <1>1 DEF SupervisorStep, Create, Resume, Skip, Launch, Adopt, Reap, Finish, history
  <2> QED BY <2>1, <2>2
<1>2. ASSUME NEW s \in Supervisors, Kill(s) PROVE mem'[t] = stages'
  BY <1>2 DEF Kill, runVars, history
<1>3. ASSUME NEW s \in Supervisors, ChildStep(s) PROVE mem'[t] = stages'
  <2>1. Busy(s) /\ ~intruded
    BY <1>3 DEF ChildStep, Boot, Work, Save, Succeed, Exhaust, Crash, Refuse, history
  <2>2. CASE t = s
    BY <1>3, <2>1, <2>2 DEF ChildStep, Boot, Work, Save, Succeed, Exhaust, Crash, Refuse, Exit
  <2>3. CASE t # s
    <3>1. step'[t] = step[t]
      BY <1>3, <2>3 DEF ChildStep, Boot, Work, Save, Succeed, Exhaust, Crash, Refuse, Exit
    <3> QED BY <2>1, <2>3, <3>1, OneBusy
  <2> QED BY <2>2, <2>3
<1>4. CASE UNCHANGED vars
  BY <1>4 DEF vars, childVars, runVars, history
<1> QED BY <1>1, <1>2, <1>3, <1>4 DEF Next, AtRest

Settled == Shape /\ Locked /\ Ordered /\ Fresh

(* Calm does not come back. *)
LEMMA CalmGoes == [Next]_vars /\ Calm' => Calm
<1> SUFFICES ASSUME [Next]_vars, Calm' PROVE Calm
  OBVIOUS
<1> USE DEF Calm, runVars, history
<1>1. ASSUME NEW s \in Supervisors, SupervisorStep(s) PROVE Calm
  <2>1. intruded => intruded'
    BY <1>1 DEF SupervisorStep, Create, Resume, Skip, Launch, Adopt, Reap, Finish
  <2>2. UNCHANGED exhausted
    BY <1>1 DEF SupervisorStep, Create, Resume, Skip, Launch, Adopt, Reap, Finish
  <2> QED BY <2>1, <2>2
<1>2. ASSUME NEW s \in Supervisors, Kill(s) PROVE Calm
  BY <1>2 DEF Kill
<1>3. ASSUME NEW s \in Supervisors, ChildStep(s) PROVE Calm
  BY <1>3 DEF ChildStep, Boot, Work, Save, Succeed, Exhaust, Crash, Refuse
<1>4. CASE UNCHANGED vars
  BY <1>4 DEF vars
<1> QED BY <1>1, <1>2, <1>3, <1>4 DEF Next, AtRest

(* While one stage process is busy, any other supervisor that acts is the
   creator, which waits for its first stage without a run id. *)
LEMMA Others ==
  ASSUME Settled, ~intruded, NEW s \in Supervisors, Busy(s), NEW t \in Supervisors \ {s}
  PROVE  /\ ~Busy(t)
         /\ Active(t) => at[t] = 1 /\ done[t] = {} /\ ~knows[t]
         /\ ~Active(t) => step[t] = "none"
<1> USE PipelineAssumption DEF Settled
<1>1. ~Busy(t)
  BY OneBusy
<1>2. Active(t) => ~knows[t]
  BY DEF Shape, TypeOK, Locked, Ordered
<1>3. Active(t) => at[t] = 1 /\ done[t] = {}
  BY <1>2 DEF Locked
<1>4. ~Active(t) => step[t] = "none"
  BY <1>1 DEF Shape, TypeOK, Seats, Active, Driving, Busy
<1> QED BY <1>1, <1>2, <1>3, <1>4

(* What a step of a stage process does to the checkpoint: it may complete its
   own stage, and it may take back an evaluation that was completed. *)
LEMMA Checkpoint ==
  ASSUME Settled, Calm', Calm, NEW s \in Supervisors, ChildStep(s)
  PROVE  /\ Busy(s) /\ UNCHANGED supVars
         /\ Is("collect") => Is("collect")'
         /\ \A c \in Checkpointed : Is(c) => Is(c)' \/ (c = Stage(s) /\ c \notin done[s])
<1> USE DEF Settled, Shape, TypeOK, Is
<1>1. Busy(s) /\ UNCHANGED supVars
  BY DEF ChildStep, Boot, Work, Save, Succeed, Exhaust, Crash, Refuse, Busy
<1>2. Stage(s) \in Checkpointed => Stage(s) \notin done[s]
  BY <1>1 DEF Seats, Busy
<1>3. ASSUME Boot(s)
      PROVE  /\ Is("collect") => Is("collect")'
             /\ \A c \in Checkpointed : Is(c) => Is(c)' \/ c = Stage(s)
  <2>1. \/ UNCHANGED stages
        \/ /\ stages' = Marked(s, stages, "running")
           /\ Stage(s) = "collect" => stages["collect"] # "completed"
    BY <1>3 DEF Boot
  <2>2. "collect" \in Checkpointed
    BY DEF Checkpointed
  <2> QED BY <2>1, <2>2 DEF Marked
<1>4. ASSUME Save(s)
      PROVE  \A c \in Checkpointed : Is(c) => Is(c)'
  <2>1. mem[s] = stages
    BY <1>4 DEF Save, Fresh, Loaded, Calm
  <2> QED BY <1>4, <2>1 DEF Save, Marked
<1>5. ASSUME ~Boot(s), ~Save(s) PROVE UNCHANGED stages
  BY <1>5 DEF ChildStep, Work, Succeed, Exhaust, Crash, Refuse, Calm, runVars
<1>6. "collect" \in Checkpointed
  BY DEF Checkpointed
<1> QED BY <1>1, <1>2, <1>3, <1>4, <1>5, <1>6

(* What lies behind a supervisor stays completed. *)
LEMMA InOrderInv == Settled /\ InOrder /\ [Next]_vars => InOrder'
<1> SUFFICES ASSUME Settled, InOrder, [Next]_vars, Calm', NEW t \in Supervisors
             PROVE  Behind(t)'
  BY DEF InOrder
<1>0. Calm /\ \A s \in Supervisors : Behind(s)
  BY CalmGoes DEF InOrder
<1> USE <1>0, StagesFacts DEF Settled, Shape, TypeOK
<1>1. ASSUME NEW s \in Supervisors, SupervisorStep(s) PROVE Behind(t)'
  <2> USE DEF Behind, Acting, Active, Driving, Busy, Is, Stage
  <2>1. CASE Create(s)
    BY <2>1 DEF Create, childVars, runVars, Seats
  <2>2. CASE Resume(s)
    <3>1. CASE pc' = [pc EXCEPT ![s] = "driving"] /\ done' = [done EXCEPT ![s] = Completed]
      BY <2>2, <3>1 DEF Resume, childVars, runVars, Seats, Completed
    <3>2. CASE pc' = [pc EXCEPT ![s] = "refused"] /\ UNCHANGED done
      BY <2>2, <3>2 DEF Resume, childVars, runVars
    <3> QED BY <2>2, <3>1, <3>2, ResumeCases
  <2>3. CASE Skip(s)
    BY <2>3 DEF Skip, Skippable, childVars, runVars, Seats
  <2>4. CASE Launch(s)
    BY <2>4 DEF Launch, runVars
  <2>5. CASE Adopt(s)
    <3>1. CASE UNCHANGED <<pc, step>>
      BY <2>5, <3>1 DEF Adopt, runVars
    <3>2. CASE pc' = [pc EXCEPT ![s] = "refused"] /\ step' = [step EXCEPT ![s] = "none"]
      BY <2>5, <3>2 DEF Adopt, runVars
    <3> QED BY <2>5, <3>1, <3>2, AdoptCases
  <2>6. CASE Reap(s)
    <3>1. CASE Return(s, CRASHED) \/ Return(s, code[s])
      BY <2>6, <3>1 DEF Reap, Return, Leave, runVars
    <3>2. CASE Retry(s)
      BY <2>6, <3>2 DEF Reap, Retry, runVars
    <3>3. CASE Advance(s) /\ ~Crashed(code[s]) /\ code[s] \notin {REFUSED, INTERRUPTED}
      <4>1. code[s] \in {OK, FINDINGS}
        BY <3>3 DEF Crashed
      <4>2. at[s] \in 1..3 => Is(STAGES[at[s]])
        BY <2>6, <4>1 DEF Reap, Seats, Checkpointed
      <4> QED BY <2>6, <3>3, <4>2 DEF Reap, Advance, runVars
    <3> QED BY <2>6, <3>1, <3>2, <3>3 DEF Reap
  <2>7. CASE Finish(s)
    BY <2>7 DEF Finish, Return, Leave, childVars, runVars
  <2> QED BY <1>1, <2>1, <2>2, <2>3, <2>4, <2>5, <2>6, <2>7 DEF SupervisorStep
<1>2. ASSUME NEW s \in Supervisors, Kill(s) PROVE Behind(t)'
  BY <1>2 DEF Kill, Leave, runVars, Behind, Acting, Active, Driving, Busy, Is, Stage
<1>3. ASSUME NEW s \in Supervisors, ChildStep(s) PROVE Behind(t)'
  <2>1. /\ Busy(s) /\ UNCHANGED supVars
        /\ Is("collect") => Is("collect")'
        /\ \A c \in Checkpointed : Is(c) => Is(c)' \/ (c = Stage(s) /\ c \notin done[s])
    BY <1>3, Checkpoint
  <2>2. CASE t # s
    <3>1. /\ ~Busy(t)
          /\ Active(t) => at[t] = 1 /\ done[t] = {} /\ ~knows[t]
          /\ ~Active(t) => step[t] = "none"
      BY <2>1, <2>2, Others DEF Calm
    <3>2. step'[t] = step[t] /\ code'[t] = code[t]
      BY <1>3, <2>2 DEF ChildStep, Boot, Work, Save, Succeed, Exhaust, Crash, Refuse, Exit
    <3>3. at'[t] = at[t] /\ pc'[t] = pc[t] /\ done'[t] = done[t]
      BY <2>1 DEF supVars
    <3>4. step[t] = "exited" => at[t] = 1 /\ Stage(t) = "collect" /\ Stage(t)' = "collect"
      BY <3>1, <3>3 DEF Stage
    <3>5. step[t] \notin {"saved", "working", "worked"}
      BY <3>1 DEF Busy
    <3> QED BY <2>1, <3>1, <3>2, <3>3, <3>4, <3>5 DEF Behind, Acting, Active, Driving, Busy
  <2>3. CASE t = s
    <3> USE <2>3
    <3>1. at' = at /\ pc' = pc /\ done' = done
      BY <2>1 DEF supVars
    <3>2. Acting(s)' => \A i \in 1..3 : i < at'[s] => Is(STAGES[i])'
      <4>1. \A i \in 1..3 : i < at[s] => Is(STAGES[i])
        BY <2>1 DEF Behind, Acting
      <4>2. at[s] \in 1..Len(Stages)
        BY <2>1 DEF Seats
      <4>3. \A i \in 1..3 : i < at[s] => STAGES[i] \in Checkpointed /\ STAGES[i] # Stage(s)
        <5> SUFFICES ASSUME NEW i \in 1..3, i < at[s]
                     PROVE  STAGES[i] \in Checkpointed /\ STAGES[i] # Stage(s)
          OBVIOUS
        <5>1. STAGES[i] = Stages[i] /\ i \in {1, 2, 3}
          OBVIOUS
        <5>2. CASE i = 1
          BY <4>2, <5>1, <5>2 DEF Stage, Checkpointed
        <5>3. CASE i = 2
          BY <4>2, <5>1, <5>3 DEF Stage, Checkpointed
        <5>4. CASE i = 3
          BY <4>2, <5>1, <5>4 DEF Stage, Checkpointed
        <5> QED BY <5>1, <5>2, <5>3, <5>4
      <4> QED BY <2>1, <3>1, <4>1, <4>3
    <3>3. Active(s)' => \A c \in done'[s] : Is(c)'
      BY <2>1, <3>1 DEF Behind, Active, Driving
    <3>4. at[s] <= Len(Stages) /\ Stage(s)' = Stage(s)
      BY <2>1, <3>1 DEF Seats, Stage
    <3>5. (step[s] = "worked" \/ step[s] = "working" \/ step[s] = "saved") => mem[s] = stages
      BY DEF Fresh, Loaded, Calm
    <3>6. step'[s] = "saved" \/ (step'[s] = "exited" /\ code'[s] \in {OK, FINDINGS})
            => (Stage(s) \in Checkpointed => Is(Stage(s))')
      <4> USE DEF Is
      <4>1. CASE Boot(s)
        <5>1. step'[s] # "saved"
          BY <4>1 DEF Boot, Exit
        <5>2. step'[s] = "exited" /\ code'[s] \in {OK, FINDINGS}
                => Stage(s) = "collect" /\ stages["collect"] = "completed" /\ UNCHANGED stages
          BY <4>1 DEF Boot, Exit
        <5> QED BY <3>4, <5>1, <5>2
      <4>2. CASE Work(s)
        BY <4>2 DEF Work
      <4>3. CASE Save(s)
        <5>1. Stage(s) \in Checkpointed => stages' = [stages EXCEPT ![Stage(s)] = "completed"]
          BY <3>5, <4>3 DEF Save, Marked
        <5> QED BY <3>4, <5>1
      <4>4. CASE Succeed(s)
        <5>1. UNCHANGED stages /\ step[s] = "saved"
          BY <4>4 DEF Succeed, runVars
        <5>2. Stage(s) \in Checkpointed => Is(Stage(s))
          BY <5>1 DEF Behind
        <5> QED BY <3>4, <5>1, <5>2
      <4>5. CASE Exhaust(s)
        BY <4>5 DEF Exhaust, Calm
      <4>6. CASE Crash(s) \/ Refuse(s)
        BY <4>6 DEF Crash, Refuse, Exit
      <4> QED BY <1>3, <4>1, <4>2, <4>3, <4>4, <4>5, <4>6 DEF ChildStep
    <3>7. step'[s] \in {"working", "worked"} =>
            (at[s] = 1 => ~Is("collect")') /\ (at[s] = 3 => frozen' # "absent")
      <4> USE DEF Is
      <4>1. CASE Boot(s)
        <5>1. at[s] = 1 => Stage(s) = "collect"
          BY DEF Stage
        <5>2. at[s] = 3 => Stage(s) = "evaluate"
          BY DEF Stage
        <5>3. step'[s] = "working" /\ Stage(s) \in {"collect", "evaluate"}
                => stages' = Marked(s, stages, "running")
          BY <4>1 DEF Boot, Exit
        <5>4. step'[s] = "working" /\ Stage(s) = "evaluate" => frozen # "absent"
          BY <4>1 DEF Boot, Exit
        <5>5. step'[s] # "worked" /\ frozen' = frozen
          BY <4>1 DEF Boot, Exit
        <5>6. "collect" \in Checkpointed
          BY DEF Checkpointed
        <5> QED BY <5>1, <5>2, <5>3, <5>4, <5>5, <5>6 DEF Marked
      <4>2. CASE Work(s)
        BY <4>2 DEF Work, Behind, Stage
      <4>3. CASE Save(s)
        BY <4>3 DEF Save
      <4>4. CASE Succeed(s)
        BY <4>4 DEF Succeed, Exit
      <4>5. CASE Exhaust(s)
        BY <4>5 DEF Exhaust, Exit
      <4>6. CASE Crash(s) \/ Refuse(s)
        BY <4>6 DEF Crash, Refuse, Exit
      <4> QED BY <1>3, <4>1, <4>2, <4>3, <4>4, <4>5, <4>6 DEF ChildStep
    <3> QED BY <3>1, <3>2, <3>3, <3>4, <3>6, <3>7 DEF Behind
  <2> QED BY <2>2, <2>3
<1>4. CASE UNCHANGED vars
  BY <1>4 DEF vars, supVars, childVars, runVars, Behind, Acting, Active, Driving, Busy, Is, Stage
<1> QED BY <1>1, <1>2, <1>3, <1>4 DEF Next, AtRest

(* Nothing is collected over a benchmark, and nothing is evaluated without one. *)
LEMMA SealedInv == Settled /\ InOrder /\ Sealed /\ [Next]_vars => Sealed'
<1> SUFFICES ASSUME Settled, InOrder, Sealed, [Next]_vars, Calm'
             PROVE  /\ frozen' # "stale"
                    /\ frozen' = "current" => Is("collect")'
                    /\ Is("evaluate")' => frozen' = "current"
  BY DEF Sealed
<1>0. /\ Calm /\ \A s \in Supervisors : Behind(s)
      /\ frozen # "stale"
      /\ frozen = "current" => Is("collect")
      /\ Is("evaluate") => frozen = "current"
  BY CalmGoes DEF InOrder, Sealed
<1> USE <1>0
<1>1. ASSUME NEW s \in Supervisors, SupervisorStep(s) \/ Kill(s)
      PROVE  UNCHANGED <<stages, frozen>>
  BY <1>1 DEF SupervisorStep, Create, Resume, Skip, Launch, Adopt, Reap, Finish, Kill, runVars
<1>2. ASSUME NEW s \in Supervisors, ChildStep(s)
      PROVE  /\ frozen' # "stale"
             /\ frozen' = "current" => Is("collect")'
             /\ Is("evaluate")' => frozen' = "current"
  <2> USE DEF Settled, Shape, TypeOK
  <2>1. Busy(s) /\ (Is("collect") => Is("collect")')
    BY <1>2, Checkpoint
  <2>2. /\ at[s] \in 1..Len(Stages)
        /\ Stage(s) = "collect" => at[s] = 1
        /\ Stage(s) = "freeze-benchmark" => at[s] = 2
        /\ Stage(s) = "evaluate" => at[s] = 3
    BY <2>1, StagesFacts DEF Seats, Stage
  <2>3. CASE Boot(s)
    <3>1. UNCHANGED frozen /\ (UNCHANGED stages \/ stages' = Marked(s, stages, "running"))
      BY <2>3 DEF Boot
    <3>2. Is("evaluate")' => Is("evaluate")
      BY <3>1 DEF Marked, Is, Checkpointed
    <3> QED BY <2>1, <3>1, <3>2
  <2>4. CASE Work(s)
    <3>1. step[s] = "working" /\ UNCHANGED stages
      BY <2>4 DEF Work
    <3>2. CASE Stage(s) = "freeze-benchmark"
      <4>1. Is("collect")
        BY <2>1, <2>2, <3>2, StagesFacts DEF Behind, Acting
      <4> QED BY <2>1, <2>4, <3>2, <4>1 DEF Work
    <3>3. CASE Stage(s) = "collect"
      <4>1. ~Is("collect")
        BY <2>2, <3>1, <3>3 DEF Behind
      <4> QED BY <2>4, <3>1, <3>3, <4>1 DEF Work, Is
    <3>4. CASE Stage(s) \notin {"freeze-benchmark", "collect"}
      BY <2>4, <3>1, <3>4 DEF Work, Is
    <3> QED BY <3>2, <3>3, <3>4
  <2>5. CASE Save(s)
    <3>1. step[s] = "worked" /\ UNCHANGED frozen
      BY <2>5 DEF Save
    <3>2. mem[s] = stages
      BY <3>1 DEF Fresh, Loaded, Calm
    <3>3. Is("evaluate")' => Is("evaluate") \/ Stage(s) = "evaluate"
      BY <2>5, <3>2 DEF Save, Marked, Is, Checkpointed
    <3>4. Stage(s) = "evaluate" => frozen # "absent"
      BY <2>2, <3>1 DEF Behind
    <3> QED BY <2>1, <3>1, <3>3, <3>4
  <2>6. CASE Succeed(s) \/ Exhaust(s) \/ Crash(s) \/ Refuse(s)
    <3>1. UNCHANGED <<stages, frozen>>
      BY <2>6 DEF Succeed, Exhaust, Crash, Refuse, runVars, Calm
    <3> QED BY <3>1 DEF Is
  <2> QED BY <1>2, <2>3, <2>4, <2>5, <2>6 DEF ChildStep
<1>3. CASE UNCHANGED vars
  BY <1>3 DEF vars, runVars, Is
<1> QED BY <1>1, <1>2, <1>3 DEF Next, AtRest, Is

(* Nobody forgets that a stage reported findings. *)
LEMMA ToldInv == Shape /\ Told /\ [Next]_vars => Told'
<1> SUFFICES ASSUME Shape, Told, [Next]_vars PROVE Told'
  OBVIOUS
<1> USE DEF Shape, TypeOK, Told
<1>1. ASSUME NEW s \in Supervisors, SupervisorStep(s) PROVE Told'
  <2>1. CASE Create(s)
    BY <2>1 DEF Create, history
  <2>2. CASE Resume(s)
    BY <2>2, ResumeCases DEF Resume
  <2>3. CASE Skip(s)
    BY <2>3 DEF Skip, history
  <2>4. CASE Launch(s)
    BY <2>4 DEF Launch, history
  <2>5. CASE Adopt(s)
    BY <2>5, AdoptCases DEF Adopt
  <2>6. CASE Reap(s)
    <3>1. CASE Return(s, CRASHED) \/ (code[s] \in {REFUSED, INTERRUPTED} /\ Return(s, code[s]))
      BY <2>6, <3>1 DEF Reap, Return, Leave
    <3>2. CASE Crashed(code[s]) /\ Retry(s)
      BY <2>6, <3>2 DEF Reap, Retry, Crashed
    <3>3. CASE Advance(s)
      BY <2>6, <3>3 DEF Reap, Advance, Worse
    <3> QED BY <2>6, <3>1, <3>2, <3>3 DEF Reap
  <2>7. CASE Finish(s)
    BY <2>7 DEF Finish, Return, Leave, history
  <2> QED BY <1>1, <2>1, <2>2, <2>3, <2>4, <2>5, <2>6, <2>7 DEF SupervisorStep
<1>2. ASSUME NEW s \in Supervisors, Kill(s) PROVE Told'
  BY <1>2 DEF Kill, Leave, history
<1>3. ASSUME NEW s \in Supervisors, ChildStep(s) PROVE Told'
  <2>1. UNCHANGED <<pc, worst, found>>
    BY <1>3 DEF ChildStep, Boot, Work, Save, Succeed, Exhaust, Crash, Refuse, supVars, history
  <2> QED BY <2>1
<1>4. CASE UNCHANGED vars
  BY <1>4 DEF vars, supVars, history
<1> QED BY <1>1, <1>2, <1>3, <1>4 DEF Next, AtRest

-----------------------------------------------------------------------------
IInv == Settled /\ InOrder /\ Sealed /\ Told

LEMMA InitInv == Init => IInv
<1> SUFFICES ASSUME Init PROVE IInv
  OBVIOUS
<1>1. Shape
  BY InitShape
<1>2. Locked
  BY PipelineAssumption DEF Init, Locked, Active, Driving, Loaded
<1>3. Ordered /\ Fresh /\ Told
  BY DEF Init, Ordered, Fresh, Loaded, Busy, Told
<1>4. InOrder
  BY DEF Init, InOrder, Behind, Acting, Active, Busy, Driving
<1>5. Sealed
  BY DEF Init, Sealed, Is, Blank, Checkpointed
<1> QED BY <1>1, <1>2, <1>3, <1>4, <1>5 DEF IInv, Settled

LEMMA NextInv == IInv /\ [Next]_vars => IInv'
<1> SUFFICES ASSUME IInv, [Next]_vars PROVE IInv'
  OBVIOUS
<1>1. Settled /\ InOrder /\ Sealed /\ Told /\ Shape /\ Locked /\ Ordered /\ Fresh
  BY DEF IInv, Settled
<1>2. Shape'
  BY <1>1, TypeInv, SeatsInv DEF Shape
<1>3. Locked' /\ Ordered' /\ Fresh'
  BY <1>1, LockedInv, OrderedInv, FreshInv
<1>4. InOrder' /\ Sealed' /\ Told'
  BY <1>1, InOrderInv, SealedInv, ToldInv
<1> QED BY <1>2, <1>3, <1>4 DEF IInv, Settled

LEMMA Invariance == Spec => []IInv
<1>1. Init => IInv
  BY InitInv
<1>2. IInv /\ [Next]_vars => IInv'
  BY NextInv
<1> QED BY <1>1, <1>2, PTL DEF Spec

(* Every variable of the supervisors, their stage processes and the checkpoint
   has its type, for any number of supervisors and attempts. *)
THEOREM Typing == Spec => []TypeOK
<1>1. IInv => TypeOK
  BY DEF IInv, Settled, Shape
<1> QED BY <1>1, Invariance, PTL

(* At most one stage process at a time runs on a run directory, however many
   supervisors are started, killed and resumed, unless the lock was taken
   while a stray stage process was still running. *)
THEOREM OneStageProcess == Spec => []SoleStageProcess
<1>1. IInv => SoleStageProcess
  <2> DEFINE B == {s \in Supervisors : step[s] \in Running}
  <2> SUFFICES ASSUME IInv, ~intruded PROVE Cardinality(B) <= 1
    BY DEF SoleStageProcess
  <2>1. ASSUME NEW s \in B, NEW t \in B PROVE s = t
    BY OneBusy DEF IInv, Settled, Busy
  <2>2. CASE B = {}
    BY <2>2, FS_EmptySet
  <2>3. ASSUME NEW s \in B PROVE Cardinality(B) <= 1
    <3>1. B = {s}
      BY <2>1
    <3> HIDE DEF B
    <3>2. Cardinality({s}) = 1
      BY FS_Singleton
    <3> QED BY <3>1, <3>2
  <2> QED BY <2>2, <2>3
<1> QED BY <1>1, Invariance, PTL

(* An evaluation recorded as completed is over the corpus the benchmark was
   frozen from, whatever crashed, was killed and was resumed before. *)
THEOREM EvaluatesTheFrozen == Spec => []BenchmarkCurrent
<1>1. IInv => BenchmarkCurrent
  BY DEF IInv, Sealed, Calm, Is, BenchmarkCurrent
<1> QED BY <1>1, Invariance, PTL

(* A supervisor that ends with exit status 0 has seen no stage report
   findings, at no attempt. *)
THEOREM FindingsAreReported == Spec => []FindingsReported
<1>1. IInv => FindingsReported
  BY DEF IInv, Told, FindingsReported
<1> QED BY <1>1, Invariance, PTL

(* A supervisor that ends with 0 or 1 has every checkpointed stage completed:
   those it skipped, those it waited for, and those of a supervisor before. *)
THEOREM EndsComplete == Spec => EndMeansComplete
<1> DEFINE A == \A s \in Supervisors :
                  pc[s] # "over" /\ pc'[s] = "over" /\ worst'[s] \in {OK, FINDINGS}
                    => intruded \/ exhausted \/ Completed = Checkpointed
<1>1. IInv /\ [Next]_vars => A
  <2> SUFFICES ASSUME IInv, [Next]_vars, Calm, NEW s \in Supervisors,
                      pc[s] # "over", pc'[s] = "over", worst'[s] \in {OK, FINDINGS}
               PROVE  Completed = Checkpointed
    BY DEF Calm
  <2> USE DEF IInv, Settled, Shape, TypeOK
  <2>1. ASSUME NEW t \in Supervisors, SupervisorStep(t) PROVE Finish(s)
    <3>1. CASE Create(t) \/ Skip(t) \/ Launch(t)
      BY <3>1 DEF Create, Skip, Launch
    <3>2. CASE Resume(t)
      <4>1. \E how \in {"driving", "refused"} : pc' = [pc EXCEPT ![t] = how]
        BY <3>2, ResumeCases
      <4> QED BY <4>1
    <3>3. CASE Adopt(t)
      <4>1. UNCHANGED pc \/ pc' = [pc EXCEPT ![t] = "refused"]
        BY <3>3, AdoptCases
      <4> QED BY <4>1
    <3>4. CASE Reap(t)
      <4>1. CASE Return(t, CRASHED)
        BY <4>1 DEF Return, Leave
      <4>2. CASE code[t] \in {REFUSED, INTERRUPTED} /\ Return(t, code[t])
        BY <4>2 DEF Return, Leave
      <4>3. CASE Retry(t) \/ Advance(t)
        BY <4>3 DEF Retry, Advance
      <4> QED BY <3>4, <4>1, <4>2, <4>3 DEF Reap
    <3>5. CASE Finish(t)
      BY <3>5 DEF Finish, Return, Leave
    <3> QED BY <2>1, <3>1, <3>2, <3>3, <3>4, <3>5 DEF SupervisorStep
  <2>2. ASSUME NEW t \in Supervisors, Kill(t) PROVE FALSE
    BY <2>2 DEF Kill, Leave
  <2>3. ASSUME NEW t \in Supervisors, ChildStep(t) PROVE FALSE
    BY <2>3 DEF ChildStep, Boot, Work, Save, Succeed, Exhaust, Crash, Refuse, supVars
  <2>4. Finish(s)
    BY <2>1, <2>2, <2>3 DEF Next, AtRest, vars, supVars
  <2>5. pc[s] = "driving" /\ at[s] > 3
    BY <2>4, StagesFacts DEF Finish
  <2>6. \A i \in 1..3 : Is(STAGES[i])
    <3>1. Behind(s) /\ Acting(s)
      BY <2>5 DEF InOrder, Acting, Active, Driving
    <3>2. at[s] \in Nat /\ \A i \in 1..3 : i < at[s]
      BY <2>5
    <3> QED BY <3>1, <3>2 DEF Behind
  <2>7. STAGES[1] = "collect" /\ STAGES[2] = "freeze-benchmark" /\ STAGES[3] = "evaluate"
    BY DEF STAGES
  <2>8. Is("collect") /\ Is("freeze-benchmark") /\ Is("evaluate")
    BY <2>6, <2>7
  <2> QED BY <2>8 DEF Is, Completed, Checkpointed
<1> QED BY <1>1, Invariance, PTL DEF EndMeansComplete, Spec
=============================================================================
