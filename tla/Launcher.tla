------------------------------- MODULE Launcher -------------------------------
(***************************************************************************)
(* The console as a launcher of lab commands (console/launcher.py).        *)
(*                                                                         *)
(* A launch is an ordinary CLI child in a session of its own.  The console *)
(* holds a record of it in memory, a copy of that record on disk, and one  *)
(* thread: _watch for a child it started, _follow for one it found when it *)
(* was started again.  The child outlives the console.                     *)
(*                                                                         *)
(* A save is two steps, as in the code: the record is read from memory     *)
(* (Launch.record), then the file is replaced (durable_write_text), and    *)
(* the request that stops a launch saves beside the thread that watches it.*)
(***************************************************************************)
EXTENDS Naturals, Sequences, FiniteSets

CONSTANTS Launches,    \* launch ids
          Runs,        \* run ids the commands may create
          NoRun,       \* a record without a run
          Kinds,       \* the kinds of launch asked for
          MaxCrashes   \* bound: how often the console dies

Writers == {"thread", "request"}

(* What a child's exit, or the last row of its run's attempts log, says.   *)
Exits == {"succeeded", "findings", "refused", "crashed", "stopped", "failed"}
Statuses == Exits \cup {"running", "interrupted", "ended"}

VARIABLES
    up,        \* the console process lives
    crashes,   \* how often it has died
    memory,    \* launch -> the record held in memory
    listed,    \* the launches in Launcher._launches
    disk,      \* launch -> its record file, or <<>> when there is none
    paper,     \* launch -> writer -> a record read but not yet on disk, or <<>>
    thread,    \* launch -> where the console's code for it stands
    kind,      \* launch -> its kind
    before,    \* launch -> the runs that existed when its child was started
    child,     \* launch -> "none", "alive", "dead", or "stolen": its pid is another's
    exit,      \* launch -> how its child ended
    works,     \* launch -> the run its child works on
    made,      \* the runs created, in the order they were
    rows       \* run -> what the last row of its attempts log says

launchVars == <<memory, listed, disk, paper, thread, kind, before>>
childVars == <<child, exit, works, made, rows>>
vars == <<up, crashes, launchVars, childVars>>

Blank == [run |-> NoRun, status |-> "running", stop |-> FALSE, pid |-> FALSE]
Here == {made[i] : i \in DOMAIN made}

Init ==
    /\ up = TRUE /\ crashes = 0
    /\ memory = [l \in Launches |-> Blank] /\ listed = {}
    /\ disk = [l \in Launches |-> <<>>]
    /\ paper = [l \in Launches |-> [w \in Writers |-> <<>>]]
    /\ thread = [l \in Launches |-> "none"]
    /\ kind \in [Launches -> Kinds]
    /\ before = [l \in Launches |-> {}]
    /\ child = [l \in Launches |-> "none"]
    /\ exit = [l \in Launches |-> "failed"]
    /\ works = [l \in Launches |-> NoRun]
    /\ \E r \in Runs : made = <<r>>
    /\ rows = [r \in Runs |-> "ended"]

-----------------------------------------------------------------------------
(* _alive asks the operating system about a pid, whoever has it now.       *)
Alive(l) == memory[l].pid /\ child[l] \in {"alive", "stolen"}

(* _new_run: the newest run that was not there before the child started.   *)
Newest(l) ==
    LET fresh == {i \in DOMAIN made : made[i] \in Here \ before[l]}
    IN  IF fresh = {} THEN NoRun
        ELSE made[CHOOSE i \in fresh : \A j \in fresh : j <= i]

StatusFor(code, stopped) == IF stopped THEN "stopped" ELSE code

-----------------------------------------------------------------------------
(* Launcher.launch: the check that the run has no running launch, the      *)
(* insertion under the lock, and the start, with no lock over the three.   *)
Check(l) ==
    /\ up /\ thread[l] = "none"
    /\ \E r \in IF kind[l] = "pipeline" THEN {NoRun} ELSE Here :
          /\ \A m \in listed : ~(r # NoRun /\ memory[m].run = r
                                           /\ memory[m].status = "running")
          /\ memory' = [memory EXCEPT ![l].run = r]
    /\ thread' = [thread EXCEPT ![l] = "checked"]
    /\ UNCHANGED <<up, crashes, listed, disk, paper, kind, before, childVars>>

Insert(l) ==
    /\ up /\ thread[l] = "checked"
    /\ listed' = listed \cup {l}
    /\ thread' = [thread EXCEPT ![l] = "listed"]
    /\ UNCHANGED <<up, crashes, memory, disk, paper, kind, before, childVars>>

(* _start: the runs there are, then the child; its pid is on disk only     *)
(* with the save that follows.                                             *)
Spawn(l) ==
    /\ up /\ thread[l] = "listed"
    /\ before' = [before EXCEPT ![l] = Here]
    /\ child' = [child EXCEPT ![l] = "alive"]
    /\ works' = [works EXCEPT ![l] = memory[l].run]
    /\ memory' = [memory EXCEPT ![l].pid = TRUE]
    /\ thread' = [thread EXCEPT ![l] = "spawned"]
    /\ paper' = [paper EXCEPT ![l]["thread"] = memory'[l]]
    /\ UNCHANGED <<up, crashes, listed, disk, kind, exit, made, rows>>

(* durable_write_text: the file is replaced by what was read before.  A    *)
(* thread goes on once its save is done.                                   *)
After(at) == CASE at = "spawned" -> "watch"
               [] at = "naming" -> "watch"
               [] at = "settled" -> "over"
               [] OTHER -> at

Replace(l, w) ==
    /\ up /\ paper[l][w] # <<>>
    /\ disk' = [disk EXCEPT ![l] = paper[l][w]]
    /\ paper' = [paper EXCEPT ![l][w] = <<>>]
    /\ thread' = IF w = "thread" THEN [thread EXCEPT ![l] = After(thread[l])] ELSE thread
    /\ UNCHANGED <<up, crashes, memory, listed, kind, before, childVars>>

(* _watch, while the child runs: surface its run once the directory is     *)
(* there, and save the record that names it.                               *)
Name(l) ==
    /\ up /\ thread[l] = "watch" /\ child[l] = "alive"
    /\ memory[l].run = NoRun /\ Newest(l) # NoRun
    /\ memory' = [memory EXCEPT ![l].run = Newest(l)]
    /\ paper' = [paper EXCEPT ![l]["thread"] = memory'[l]]
    /\ thread' = [thread EXCEPT ![l] = "naming"]
    /\ UNCHANGED <<up, crashes, listed, disk, kind, before, childVars>>

(* _watch, once the child has ended: its run if still unknown, the exit    *)
(* status, and the last save.                                              *)
Settle(l) ==
    /\ up /\ thread[l] = "watch" /\ child[l] = "dead"
    /\ memory' = [memory EXCEPT
          ![l].run = IF @ = NoRun THEN Newest(l) ELSE @,
          ![l].status = StatusFor(exit[l], memory[l].stop)]
    /\ paper' = [paper EXCEPT ![l]["thread"] = memory'[l]]
    /\ thread' = [thread EXCEPT ![l] = "settled"]
    /\ UNCHANGED <<up, crashes, listed, disk, kind, before, childVars>>

(* _follow and _outcome: a child of an earlier console gives no exit       *)
(* status, so the last row of its run's attempts log has to do.            *)
Outcome(l) == IF memory[l].run \in Here THEN rows[memory[l].run] ELSE "ended"

Follow(l) ==
    /\ up /\ thread[l] = "follow" /\ ~Alive(l)
    /\ memory' = [memory EXCEPT ![l].status = StatusFor(Outcome(l), memory[l].stop)]
    /\ paper' = [paper EXCEPT ![l]["thread"] = memory'[l]]
    /\ thread' = [thread EXCEPT ![l] = "settled"]
    /\ UNCHANGED <<up, crashes, listed, disk, kind, before, childVars>>

(* stop: the flag and its record, then the signal to whatever has the pid. *)
Stop(l) ==
    /\ up /\ l \in listed /\ ~memory[l].stop
    /\ memory' = [memory EXCEPT ![l].stop = TRUE]
    /\ paper' = [paper EXCEPT ![l]["request"] = memory'[l]]
    /\ UNCHANGED <<up, crashes, listed, disk, thread, kind, before, childVars>>

-----------------------------------------------------------------------------
(* The console dies: its threads and its memory with it, never a child.    *)
Crash ==
    /\ up /\ crashes < MaxCrashes
    /\ up' = FALSE /\ crashes' = crashes + 1
    /\ listed' = {}
    /\ paper' = [l \in Launches |-> [w \in Writers |-> <<>>]]
    /\ thread' = [l \in Launches |-> IF thread[l] = "none" THEN "none" ELSE "over"]
    /\ UNCHANGED <<memory, disk, kind, before, childVars>>

(* _restore: every record on disk comes back; a running one is followed    *)
(* while its pid answers, and is interrupted - on disk too - when not.     *)
Answers(l) == disk[l].pid /\ child[l] \in {"alive", "stolen"}
MutantRestored(l) == IF disk[l].status = "running"
                     THEN [disk[l] EXCEPT !.status = "interrupted"] ELSE disk[l]
Restored(l) ==
    IF disk[l].status = "running" /\ ~Answers(l)
    THEN [disk[l] EXCEPT !.status = "interrupted"] ELSE disk[l]
MutantAttached(l) == "over"
Attached(l) == IF disk[l].status = "running" /\ Answers(l) THEN "follow" ELSE "over"

Restart ==
    /\ ~up
    /\ up' = TRUE
    /\ listed' = {l \in Launches : disk[l] # <<>>}
    /\ memory' = [l \in Launches |-> IF l \in listed' THEN Restored(l) ELSE memory[l]]
    /\ disk' = [l \in Launches |-> IF l \in listed' THEN Restored(l) ELSE <<>>]
    /\ thread' = [l \in Launches |-> IF l \in listed' THEN Attached(l) ELSE thread[l]]
    /\ UNCHANGED <<crashes, paper, kind, before, childVars>>

-----------------------------------------------------------------------------
(* LogControl.delete_launch: a finished launch's record and its entry.     *)
DeleteLaunch(l) ==
    /\ up /\ l \in listed /\ memory[l].status # "running"
    /\ disk' = [disk EXCEPT ![l] = <<>>]
    /\ listed' = listed \ {l}
    /\ UNCHANGED <<up, crashes, memory, paper, thread, kind, before, childVars>>

-----------------------------------------------------------------------------
(* The children, as the supervisor and the stages write: a pipeline makes  *)
(* a run, a supervisor writes a row per attempt, and any of them ends.     *)
Make(l) ==
    /\ child[l] = "alive" /\ works[l] = NoRun
    /\ \E r \in Runs \ Here :
          /\ made' = Append(made, r)
          /\ works' = [works EXCEPT ![l] = r]
    /\ UNCHANGED <<up, crashes, launchVars, child, exit, rows>>

(* A run made from a terminal, which is no launch of the console.          *)
Elsewhere ==
    /\ \E r \in Runs \ Here : made' = Append(made, r)
    /\ UNCHANGED <<up, crashes, launchVars, child, exit, works, rows>>

Supervised(l) == kind[l] \in {"pipeline", "resume"} /\ works[l] \in Here

(* The row an exit leaves last: none for a signal, and verify's own for a  *)
(* run that completed with a finding.                                      *)
LastRow(l, code) ==
    CASE ~Supervised(l) \/ code \in {"stopped", "failed"} -> {rows[r] : r \in {works[l]} \cap Runs}
      [] code = "findings" -> {"findings", "succeeded"}
      [] OTHER -> {code}

End(l) ==
    /\ child[l] = "alive"
    /\ \E code \in Exits :
          /\ exit' = [exit EXCEPT ![l] = code]
          /\ IF works[l] = NoRun THEN UNCHANGED rows
             ELSE \E row \in LastRow(l, code) : rows' = [rows EXCEPT ![works[l]] = row]
    /\ child' = [child EXCEPT ![l] = "dead"]
    /\ UNCHANGED <<up, crashes, launchVars, works, made>>

(* The operating system gives the pid of a reaped child to another         *)
(* process.  A console that watches its own child has not reaped it.       *)
Steal(l) ==
    /\ child[l] = "dead" /\ thread[l] \in {"follow", "over"}
    /\ child' = [child EXCEPT ![l] = "stolen"]
    /\ UNCHANGED <<up, crashes, launchVars, exit, works, made, rows>>

-----------------------------------------------------------------------------
Thread(l) == \/ Insert(l) \/ Spawn(l) \/ Replace(l, "thread")
             \/ Name(l) \/ Settle(l) \/ Follow(l)
Launching(l) == Check(l) \/ Thread(l) \/ Stop(l) \/ Replace(l, "request") \/ DeleteLaunch(l)
Children(l) == Make(l) \/ End(l) \/ Steal(l)

Next == \/ \E l \in Launches : Launching(l) \/ Children(l)
        \/ Elsewhere \/ Crash \/ Restart

-----------------------------------------------------------------------------
(* A launch nobody asked to stop, whose record says it is over - in memory *)
(* or on disk - has no child running, whichever console wrote the record:  *)
(* a restarted console re-attaches to the children still running.          *)
Over(record) == record # <<>> /\ record.status # "running"
Orphaned(l) == (l \in listed /\ Over(memory[l])) \/ Over(disk[l])
UnstoppedIsOver ==
    \A l \in Launches : Orphaned(l) /\ ~memory[l].stop => child[l] # "alive"

(* A listed launch whose child has ended comes to say so while the console *)
(* lives, unless its pid is another process's by then.                     *)
EndIsSeen ==
    \A l \in Launches :
        (up /\ l \in listed /\ child[l] = "dead")
            ~> (~up \/ l \notin listed \/ memory[l].status # "running" \/ child[l] = "stolen")

(* What the documents say, and the code does not keep:                     *)
(* a restarted console re-attaches to every child still running;           *)
EndedIsOver == \A l \in Launches : Orphaned(l) => child[l] # "alive"
(* a dying console does not forget a launch;                               *)
NeverForgotten == \A l \in Launches : up /\ child[l] = "alive" => l \in listed
(* a run has one running launch;                                           *)
OneLaunchPerRun ==
    \A l, m \in listed : l # m /\ memory[l].run = memory[m].run =>
        memory[l].run = NoRun \/ ~({memory[l].status, memory[m].status} = {"running"})
(* a launch that says "succeeded" exited zero.                             *)
SucceededMeansExitZero ==
    \A l \in listed : memory[l].status = "succeeded" => exit[l] = "succeeded"

Spec == Init /\ [][Next]_vars
Fairness == \A l \in Launches : WF_vars(Thread(l))
FairSpec == Spec /\ Fairness
=============================================================================
