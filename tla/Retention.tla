------------------------------ MODULE Retention ------------------------------
(***************************************************************************)
(* What the console deletes under its output root (console/logs.py), by    *)
(* hand and on the retention beat (server._retention_beat).                *)
(*                                                                         *)
(* A request and the beat are two threads.  Each checks that no running    *)
(* launch has the run (Launcher.live_runs), removes the tree file by file  *)
(* and then appends the audit row; no lock spans the three.  A launch is   *)
(* here what live_runs sees of it: "unseen" while a child writes to a run  *)
(* the launch record does not name yet, "seen" once it does.               *)
(***************************************************************************)
EXTENDS Naturals

CONSTANTS Targets,   \* the runs under the output root, now or later
          Nothing,   \* what a deleter has in hand between two deletions
          MaxRemovals \* bound: the times one run is removed and comes back

Hands == {"hand", "beat"}
Parts == {"run", "projection"}

VARIABLES
    holds,     \* the runs with a directory
    derived,   \* the runs with a projections directory
    reported,  \* the runs with rendered reports
    writer,    \* run -> "none", "unseen" or "seen"
    spared,    \* kept_runs of the policy
    hand,      \* thread -> where it stands, what it deletes, the rest of its plan
    half,      \* the runs a removal has begun on and not ended
    retired,   \* history: run -> the times its directory went
    log,       \* retention-log.jsonl: run -> its rows of kind "run"
    died       \* the runs in removal when the console died

vars == <<holds, derived, reported, writer, spared, hand, half, retired, log, died>>
world == <<holds, derived, reported, writer>>

Free == [at |-> "idle", what |-> "run", run |-> Nothing, plan |-> {}]

Init ==
    /\ holds \in SUBSET Targets
    /\ derived = holds /\ reported = {}
    /\ writer = [r \in Targets |-> "none"]
    /\ spared = {}
    /\ hand = [h \in Hands |-> Free]
    /\ half = {} /\ died = {}
    /\ retired = [r \in Targets |-> 0] /\ log = [r \in Targets |-> 0]

-----------------------------------------------------------------------------
(* LogControl._refuse_live: what the launcher knows to be running.         *)
Live == {r \in Targets : writer[r] = "seen"}

(* LogControl.plan: a run that is live, kept or reported stays; one whose  *)
(* age or rank is past the policy's is due.  Of a run that is not deleted  *)
(* the projection may be due, kept or not.                                 *)
DueRuns == holds \ (Live \cup spared \cup reported)
DueProjections == (derived \cap holds) \ Live
PlanOf(runs, projections) ==
    {<<"run", r>> : r \in runs} \cup {<<"projection", r>> : r \in projections \ runs}

(* RetentionPolicy: by its days and counts any of them may be past, or none.*)
Past(due) == SUBSET due

(* _retention_beat, while auto_apply is on: apply plans once, then deletes. *)
Beat ==
    /\ hand["beat"] = Free
    /\ \E runs \in Past(DueRuns), projections \in Past(DueProjections) :
          hand' = [hand EXCEPT !["beat"].plan = PlanOf(runs, projections)]
    /\ UNCHANGED <<world, spared, half, retired, log, died>>

(* _run_dir and _refuse_live of one deletion; apply goes on past a refusal.*)
Take(h, what, r) == [hand[h] EXCEPT !.plan = @ \ {<<what, r>>}]
Refused(what, r) == r \notin holds \/ r \in Live
Begin(h, what, r) ==
    /\ hand[h].at = "idle"
    /\ h = "beat" => <<what, r>> \in hand[h].plan
    /\ hand' = [hand EXCEPT ![h] =
          IF Refused(what, r) THEN Take(h, what, r)
          ELSE [Take(h, what, r) EXCEPT !.at = "checked", !.what = what, !.run = r]]
    /\ hand' # hand
    /\ UNCHANGED <<world, spared, half, retired, log, died>>

(* shutil.rmtree, begun: the run's files go one by one.                    *)
Back(h) == [hand[h] EXCEPT !.at = "idle", !.run = Nothing, !.what = "run"]
Unlink(h) ==
    /\ hand[h].at = "checked" /\ hand[h].what = "run"
    /\ hand' = [hand EXCEPT ![h] = IF hand[h].run \in holds
                                   THEN [@ EXCEPT !.at = "removing"] ELSE Back(h)]
    /\ half' = half \cup ({hand[h].run} \cap holds)
    /\ UNCHANGED <<world, spared, retired, log, died>>

(* shutil.rmtree, ended: the last file and the directory; or an error, on  *)
(* a file that another removal of the same run took first, or because a    *)
(* child has put another file into a directory that was to be empty.       *)
Beside(h) == \E g \in Hands \ {h} : hand[g].run = hand[h].run /\ hand[g].at # "removed"
MutantRemoves(h) == TRUE
Removes(h) == hand[h].run \in holds
Trips(h) == hand[h].run \notin holds \/ Beside(h) \/ writer[hand[h].run] # "none"
Rmdir(h) ==
    /\ hand[h].at = "removing" /\ Removes(h)
    /\ holds' = holds \ {hand[h].run}
    /\ derived' = derived \ {hand[h].run}
    /\ reported' = reported \ {hand[h].run}
    /\ half' = half \ {hand[h].run}
    /\ retired' = [r \in Targets |-> IF r \in holds \ holds' THEN retired[r] + 1 ELSE retired[r]]
    /\ hand' = [hand EXCEPT ![h].at = "removed"]
    /\ UNCHANGED <<writer, spared, log, died>>
Trip(h) ==
    /\ \/ hand[h].at = "removing"
       \/ hand[h].at = "checked" /\ hand[h].what = "projection"
    /\ Trips(h)
    /\ hand' = [hand EXCEPT ![h] = Back(h)]
    /\ UNCHANGED <<world, spared, half, retired, log, died>>

(* drop_projection: the derived files only, whether there are any or not.  *)
Drop(h) ==
    /\ hand[h].at = "checked" /\ hand[h].what = "projection"
    /\ derived' = derived \ {hand[h].run}
    /\ hand' = [hand EXCEPT ![h].at = "removed"]
    /\ UNCHANGED <<holds, reported, writer, spared, half, retired, log, died>>

(* _audit *)
Audit(h) ==
    /\ hand[h].at = "removed"
    /\ log' = IF hand[h].what = "run" THEN [log EXCEPT ![hand[h].run] = @ + 1] ELSE log
    /\ hand' = [hand EXCEPT ![h] = Back(h)]
    /\ UNCHANGED <<world, spared, half, retired, died>>

(* keep: the policy file is replaced, under no lock.                       *)
Keep(r) ==
    /\ r \in holds
    /\ spared' = IF r \in spared THEN spared \ {r} ELSE spared \cup {r}
    /\ UNCHANGED <<world, hand, half, retired, log, died>>

-----------------------------------------------------------------------------
(* A child starts on a run - one that is there, known from the start, or   *)
(* one it makes - the console names its run, and the child ends.  What it  *)
(* writes makes the directories it goes to (durable_write_text), those of  *)
(* a run that has been removed meanwhile too.                              *)
Resume(r) ==
    /\ r \in holds /\ writer[r] = "none"
    /\ writer' = [writer EXCEPT ![r] = "seen"]
    /\ UNCHANGED <<holds, derived, reported, spared, hand, half, retired, log, died>>
Make(r) ==
    /\ r \notin holds /\ retired[r] = 0 /\ writer[r] = "none"
    /\ holds' = holds \cup {r} /\ writer' = [writer EXCEPT ![r] = "unseen"]
    /\ UNCHANGED <<derived, reported, spared, hand, half, retired, log, died>>
Name(r) ==
    /\ writer[r] = "unseen" /\ r \in holds
    /\ writer' = [writer EXCEPT ![r] = "seen"]
    /\ UNCHANGED <<holds, derived, reported, spared, hand, half, retired, log, died>>
Write(r) ==
    /\ writer[r] # "none" /\ retired[r] < MaxRemovals
    /\ holds' = holds \cup {r}
    /\ derived' \in {derived, derived \cup {r}}
    /\ reported' \in {reported, reported \cup {r}}
    /\ UNCHANGED <<writer, spared, hand, half, retired, log, died>>
End(r) ==
    /\ writer[r] # "none"
    /\ writer' = [writer EXCEPT ![r] = "none"]
    /\ UNCHANGED <<holds, derived, reported, spared, hand, half, retired, log, died>>

(* The console dies and is started again: what its threads had in hand is  *)
(* nowhere on disk.                                                        *)
Die ==
    /\ \E h \in Hands : hand[h] # Free
    /\ hand' = [h \in Hands |-> Free]
    /\ died' = died \cup ({hand[h].run : h \in Hands} \ {Nothing})
    /\ UNCHANGED <<world, spared, half, retired, log>>

Deleting(h) == \/ \E what \in Parts, r \in Targets : Begin(h, what, r)
               \/ Unlink(h) \/ Rmdir(h) \/ Trip(h) \/ Drop(h) \/ Audit(h)
Child(r) == Resume(r) \/ Make(r) \/ Name(r) \/ Write(r) \/ End(r)

Next == \/ \E h \in Hands : Deleting(h)
        \/ \E r \in Targets : Keep(r) \/ Child(r)
        \/ Beat \/ Die

Spec == Init /\ [][Next]_vars
-----------------------------------------------------------------------------
(* The retention log has one row for each time the directory of a run      *)
(* went - by hand or by the beat, and again after a child brought it back  *)
(* - but for one a thread is about to write; and, of a run that a thread   *)
(* had in hand when the console died, no row for what did not go.          *)
Owes(h, r) == hand[h].at = "removed" /\ hand[h].what = "run" /\ hand[h].run = r
Due(h, r) == IF Owes(h, r) THEN 1 ELSE 0
OneRowEach ==
    \A r \in Targets :
        LET said == log[r] + Due("hand", r) + Due("beat", r)
        IN  said <= retired[r] /\ (r \notin died => said = retired[r])

(* What the documents say, and the code does not keep:                     *)
(* nothing is deleted while a launch is still writing to it;               *)
NothingLiveDeleted == \A r \in half : writer[r] = "none"
(* a run marked "keep" is exempt from every rule of the policy;            *)
KeptIsSpared ==
    [][\A r \in spared : hand["beat"].plan = {} => \A what \in Parts :
          <<what, r>> \notin hand'["beat"].plan]_vars
(* a run is kept whole or deleted whole;                                   *)
KeptWhole == \A r \in half : \E h \in Hands : hand[h].run = r
(* a run whose deletion the log reports is not there any more.             *)
DeletedIsGone == \A r \in Targets : log[r] > 0 => r \notin holds
=============================================================================
