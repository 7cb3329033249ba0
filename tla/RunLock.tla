------------------------------ MODULE RunLock ------------------------------
(***************************************************************************)
(* supervisor.py's RunLock: the file supervisor/lock between the processes *)
(* that want to drive one run.  Each process takes the lock once, drives,  *)
(* and releases it; it may be killed before any step.  A system call is an *)
(* action.  A process that created the file writes its pid through the     *)
(* handle it got, whatever has become of the name since.  A process that   *)
(* has released the lock, or was refused it, is still there to be probed   *)
(* until it exits, and a pid that is free may become a stranger's.         *)
(***************************************************************************)
EXTENDS Naturals

CONSTANTS
  Procs,    \* supervisors, each a process with a pid of its own
  NoProc,   \* no process: no lock file, or no readable pid (holder = 0)
  Overlap,  \* TRUE when two supervisors may be acquiring at the same time
  MayDie    \* TRUE when a supervisor may be killed

ASSUME LockAssumption ==
  /\ NoProc \notin Procs
  /\ Overlap \in BOOLEAN /\ MayDie \in BOOLEAN

VARIABLES
  pc,       \* where each process is
  file,     \* the creator of the file that supervisor/lock names, or NoProc
  written,  \* the processes whose pid is in the file they created
  holder,   \* what each process has read from the lock
  tries,    \* iterations of acquire()'s loop that are over
  overlapped \* history: two supervisors have acquired at the same time

vars == <<pc, file, written, holder, tries, overlapped>>

(* In acquire(); behind it and behind release(); after the process has
   ended, its pid free or another process's. *)
Acquiring == {"create", "read", "probe", "unlink", "write"}
Leaving   == {"refused", "released"}
Finished  == {"exited", "killed", "reused"}

Init ==
  /\ pc = [p \in Procs |-> "start"]
  /\ file = NoProc /\ written = {}
  /\ holder = [p \in Procs |-> NoProc]
  /\ tries = [p \in Procs |-> 0]
  /\ overlapped = FALSE

Goto(p, place) == pc' = [pc EXCEPT ![p] = place]

(* os.kill(pid, 0) finds the process. *)
Alive(p) == pc[p] \notin {"start", "exited", "killed"}

Contended == \E q \in Procs : pc[q] \in Acquiring

Begin(p) ==
  /\ pc[p] = "start"
  /\ Contended => Overlap
  /\ overlapped' = (overlapped \/ Contended)
  /\ Goto(p, "create")
  /\ UNCHANGED <<file, written, holder, tries>>

(* os.open(O_CREAT | O_EXCL) succeeds, or raises FileExistsError. *)
Create(p) ==
  /\ pc[p] = "create" /\ tries[p] < 2
  /\ file = NoProc
  /\ file' = p
  /\ Goto(p, "write")
  /\ UNCHANGED <<written, holder, tries, overlapped>>

Exists(p) ==
  /\ pc[p] = "create" /\ tries[p] < 2
  /\ file # NoProc
  /\ Goto(p, "read")
  /\ UNCHANGED <<file, written, holder, tries, overlapped>>

(* Two iterations are over: RunLocked("could not take"). *)
GiveUp(p) ==
  /\ pc[p] = "create" /\ tries[p] = 2
  /\ Goto(p, "refused")
  /\ UNCHANGED <<file, written, holder, tries, overlapped>>

(* The pid in the file: 0 when the file is gone or still empty. *)
Content == IF file \in written THEN file ELSE NoProc

Read(p) ==
  /\ pc[p] = "read"
  /\ holder' = [holder EXCEPT ![p] = Content]
  /\ Goto(p, "probe")
  /\ UNCHANGED <<file, written, tries, overlapped>>

(* Mutant of Blocks: a live holder does not block. *)
MutantBlind(q) == q # NoProc /\ ~Alive(q)

(* The holder that was read is a live process. *)
Blocks(q) == q # NoProc /\ Alive(q)

Probe(p) ==
  /\ pc[p] = "probe"
  /\ Goto(p, IF Blocks(holder[p]) THEN "refused" ELSE "unlink")
  /\ UNCHANGED <<file, written, holder, tries, overlapped>>

(* unlink(missing_ok=True): whatever the name means by now. *)
Unlink(p) ==
  /\ pc[p] = "unlink"
  /\ file' = NoProc
  /\ tries' = [tries EXCEPT ![p] = @ + 1]
  /\ Goto(p, "create")
  /\ UNCHANGED <<written, holder, overlapped>>

Write(p) ==
  /\ pc[p] = "write"
  /\ written' = written \cup {p}
  /\ Goto(p, "driving")
  /\ UNCHANGED <<file, holder, tries, overlapped>>

Release(p) ==
  /\ pc[p] = "driving"
  /\ file' = NoProc
  /\ Goto(p, "released")
  /\ UNCHANGED <<written, holder, tries, overlapped>>

(* The supervisor's process ends, on its way out of supervise(). *)
Exit(p) ==
  /\ pc[p] \in Leaving
  /\ Goto(p, "exited")
  /\ UNCHANGED <<file, written, holder, tries, overlapped>>

Kill(p) ==
  /\ MayDie
  /\ pc[p] \notin Finished \cup {"start"}
  /\ Goto(p, "killed")
  /\ UNCHANGED <<file, written, holder, tries, overlapped>>

(* The operating system gives the pid of a process that has ended to one
   that is no supervisor, or that one ends. *)
Recycle(p) ==
  /\ \/ pc[p] \in {"exited", "killed"} /\ Goto(p, "reused")
     \/ pc[p] = "reused" /\ Goto(p, "exited")
  /\ UNCHANGED <<file, written, holder, tries, overlapped>>

Step(p) ==
  \/ Begin(p) \/ Create(p) \/ Exists(p) \/ GiveUp(p)
  \/ Read(p) \/ Probe(p) \/ Unlink(p) \/ Write(p) \/ Release(p) \/ Exit(p)

(* Every supervisor has ended: the run is left as it is. *)
Over == (\A p \in Procs : pc[p] \in Finished) /\ UNCHANGED vars

Next == (\E p \in Procs : Step(p) \/ Kill(p) \/ Recycle(p)) \/ Over

(* The operating system runs every process that can take a step. *)
Fairness == \A p \in Procs : WF_vars(Step(p))

Spec == Init /\ [][Next]_vars /\ Fairness

-----------------------------------------------------------------------------
(* Every variable has its type. *)
TypeOK ==
  /\ pc \in [Procs -> Acquiring \cup Leaving \cup Finished \cup {"start", "driving"}]
  /\ file \in Procs \cup {NoProc}
  /\ written \in SUBSET Procs
  /\ holder \in [Procs -> Procs \cup {NoProc}]
  /\ tries \in [Procs -> 0..2]
  /\ overlapped \in BOOLEAN

(* supervisor.py:25-26 and 73, durability.md: two supervisors never drive one
   run at once. *)
OneSupervisor ==
  \A p, q \in Procs : pc[p] = "driving" /\ pc[q] = "driving" => p = q

(* While acquisitions do not overlap the lock keeps that promise, whoever is
   killed at whatever point (supervisor.py:82-99). *)
SoleDriver == overlapped \/ OneSupervisor

(* Nor is anybody turned away from a run that nobody drives, but in two
   cases: the process that the refusal names drives; or it did when the lock
   was read, has released it since and is not gone; or it is no supervisor
   and has the pid of one that left its lock behind.  A lock left by a
   supervisor that was killed, even before it wrote its pid, does not keep
   the next one out as long as the pid is free (supervisor.py:85-95). *)
RefusalJustified ==
  [][\A p \in Procs : pc[p] # "refused" /\ pc'[p] = "refused"
       => \/ overlapped
          \/ /\ holder[p] \in Procs \ {p}
             /\ pc[holder[p]] \in {"driving", "released", "reused"}]_vars

(* supervisor.py:73, "a lock whose holder died is taken over": whoever is
   refused is refused by a supervisor.  Not kept: a pid is all that the lock
   says of its holder. *)
RefusedBySupervisor ==
  [][\A p \in Procs : pc[p] # "refused" /\ pc'[p] = "refused"
       => overlapped \/ pc[holder[p]] # "reused"]_vars

(* However the acquisitions interleave and whoever is killed, acquire() ends
   for every supervisor: none waits for a lock (supervisor.py:81). *)
EveryoneEnds == \A p \in Procs : <>(pc[p] \in Finished)

(* What the lock promises, with its driver the process whose pid the lock
   file holds. *)
Lock == INSTANCE DriverLock WITH
  driver <- Content,
  gone   <- {p \in Procs : pc[p] \in Leaving \cup Finished}
=============================================================================
