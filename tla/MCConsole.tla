------------------------------ MODULE MCConsole ------------------------------
(***************************************************************************)
(* The console's four parts side by side: its launches, what it deletes,   *)
(* the settings draft and the live view.  They share no variable here, so  *)
(* a behaviour is one of one part, chosen in the initial state, and the    *)
(* other three stand still.                                                *)
(***************************************************************************)
EXTENDS Naturals, Sequences, FiniteSets

CONSTANTS Launches, Runs, NoRun, Kinds, MaxCrashes,
          Targets, Nothing, MaxRemovals,
          Editors, Agents, Keys, Values, Configs, Unset, MaxEdits,
          Docs, MaxEvents, MaxReceipts

ASSUME ConsoleAssumption ==
    /\ NoRun \notin Runs /\ Nothing \notin Targets
    /\ Kinds \subseteq {"pipeline", "resume", "single"}
    /\ Unset \notin Values /\ Unset \notin Configs /\ Agents \subseteq Editors
    /\ {MaxCrashes, MaxRemovals, MaxEdits, MaxEvents, MaxReceipts} \subseteq Nat

VARIABLES part,
    up, crashes, memory, listed, disk, paper, thread, kind, before,
    child, exit, works, made, rows,
    holds, derived, reported, writer, spared, hand, half, retired, log, died,
    draft, lock, edit, shown, copy, done, apart, raced,
    events, receipts, at, custody, syncing, read, view, refreshing, dropped

L == INSTANCE Launcher
R == INSTANCE Retention
D == INSTANCE Draft
V == INSTANCE LiveView

Parts == {"launches", "deletions", "draft", "view"}
launches == <<up, crashes, memory, listed, disk, paper, thread, kind, before,
              child, exit, works, made, rows>>
deletions == <<holds, derived, reported, writer, spared, hand, half, retired, log, died>>
drafts == <<draft, lock, edit, shown, copy, done, apart, raced>>
views == <<events, receipts, at, custody, syncing, read, view, refreshing, dropped>>
allVars == <<part, launches, deletions, drafts, views>>

(* One initial state for each part that stands still.                      *)
Still == made = <<CHOOSE r \in Runs : TRUE>> /\ kind = [l \in Launches |-> CHOOSE k \in Kinds : TRUE]
ConsoleInit ==
    /\ part \in Parts
    /\ L!Init /\ R!Init /\ D!Init /\ V!Init
    /\ part = "launches" \/ Still
    /\ part = "deletions" \/ holds = Targets
    /\ part = "draft" \/ apart = {}

Launching == part = "launches" /\ L!Next /\ UNCHANGED <<part, deletions, drafts, views>>
Deleting == part = "deletions" /\ R!Next /\ UNCHANGED <<part, launches, drafts, views>>
Editing == part = "draft" /\ D!Next /\ UNCHANGED <<part, launches, deletions, views>>
Viewing == part = "view" /\ V!Next /\ UNCHANGED <<part, launches, deletions, drafts>>
ConsoleNext == Launching \/ Deleting \/ Editing \/ Viewing

Watching(l) == part = "launches" /\ L!Thread(l) /\ UNCHANGED <<part, deletions, drafts, views>>
FairSpec == ConsoleInit /\ [][ConsoleNext]_allVars /\ \A l \in Launches : WF_allVars(Watching(l))

-----------------------------------------------------------------------------
(* A launch nobody asked to stop, whose record says it is over, has no     *)
(* child running.                                                          *)
UnstoppedIsOver == L!UnstoppedIsOver
(* A listed launch whose child has ended comes to say so.                  *)
EndIsSeen == L!EndIsSeen
(* The retention log has one row for each time a run was removed, but for  *)
(* what died with the console.                                             *)
OneRowEach == R!OneRowEach
(* While processes edit one at a time, no committed edit of the draft is   *)
(* lost, doubled or applied to a draft other than its editor was shown.    *)
EditsKept == D!EditsKept
(* The replay scrubber shows nothing further along than the live view, but *)
(* where a receipt that is not read yet misleads it.                       *)
ScrubberNeverAhead == V!ScrubberNeverAhead

(* What the documents say and the code does not keep; the parts say of     *)
(* each what it is.                                                        *)
EndedIsOver == L!EndedIsOver
NeverForgotten == L!NeverForgotten
SucceededMeansExitZero == L!SucceededMeansExitZero
OneLaunchPerRun == L!OneLaunchPerRun
NothingLiveDeleted == R!NothingLiveDeleted
KeptIsSpared == R!KeptIsSpared
KeptWhole == R!KeptWhole
DeletedIsGone == R!DeletedIsGone
StrictResolves == D!StrictResolves
NoEditLost == D!NoEditLost
GuardHolds == D!GuardHolds
ScrubberTrue == V!ScrubberTrue
SamePicture == V!SamePicture
=============================================================================
