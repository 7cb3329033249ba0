-------------------------------- MODULE Draft --------------------------------
(***************************************************************************)
(* The settings draft, which the browser and an agent edit through the     *)
(* same operations (console/state.py Workspace, console/operations.py).    *)
(*                                                                         *)
(* An edit of the draft reads it, changes it and replaces the file under   *)
(* the lock of its process; what update_settings checks of a strict edit   *)
(* is read before.  The console serves the browser and agents over http;   *)
(* each agent over stdio (pheasant-lab mcp) has a process of its own, with *)
(* a lock of its own, over the same file.                                  *)
(***************************************************************************)
EXTENDS Naturals, Sequences, FiniteSets

CONSTANTS Editors,   \* the surfaces that edit: the browser, agents
          Agents,    \* those that may come over stdio, as a process of their own
          Keys,      \* the settings an override names
          Values,    \* what they may be set to
          Configs,   \* the config files
          Unset,     \* a setting without an override; also "leave it alone"
          MaxEdits   \* bound: edits committed and in hand

None == [k \in Keys |-> Unset]
Edits == [what : {"set"}, over : [Keys -> Values \cup {Unset}] \ {None}, config : {Unset}]
         \cup [what : {"unset"}, over : {[k \in Keys |-> IF k = j THEN v ELSE Unset] :
                                           j \in Keys, v \in Values}, config : {Unset}]
         \cup [what : {"set"}, over : {None}, config : Configs]
         \cup [what : {"reset"}, over : {None}, config : {Unset}]

VARIABLES
    draft,    \* workspace.json
    lock,     \* the editors that hold the Workspace._lock of their process
    edit,     \* editor -> the edit in hand, or <<>>
    shown,    \* editor -> the draft it last loaded
    copy,     \* editor -> the draft as read under the lock
    done,     \* the edits committed, in their order
    apart,    \* the editors that are a process of their own, for good
    raced     \* history: two processes have edited at the same time

vars == <<draft, lock, edit, shown, copy, done, apart, raced>>

(* The editors of one process.                                             *)
Beside(e) == IF e \in apart THEN {e} ELSE Editors \ apart

Default == CHOOSE c \in Configs : TRUE
Blank == [revision |-> 0, config |-> Default, over |-> None]

Init ==
    /\ draft = Blank /\ lock = {} /\ done = <<>> /\ raced = FALSE
    /\ apart \in SUBSET Agents
    /\ edit = [e \in Editors |-> <<>>]
    /\ shown = [e \in Editors |-> Blank] /\ copy = [e \in Editors |-> Blank]

-----------------------------------------------------------------------------
(* Workspace.update and reset, on a draft read before: a changed config    *)
(* clears the overrides written against the other one, and the revision    *)
(* counts every commit.                                                    *)
Switched(d, c) == IF c \in {Unset, d.config} THEN d ELSE [d EXCEPT !.config = c, !.over = None]
Change(over, e) ==
    [k \in Keys |-> IF e.over[k] = Unset THEN over[k]
                    ELSE IF e.what = "unset" THEN Unset ELSE e.over[k]]
Applied(d, e) ==
    IF e.what = "reset" THEN [Blank EXCEPT !.revision = d.revision + 1]
    ELSE [Switched(d, e.config) EXCEPT !.over = Change(@, e), !.revision = @ + 1]

(* Operations._validate, for settings that must agree (the budget shares   *)
(* that sum to one): overriding some of them alone does not resolve.       *)
Resolves(over) == \A j, k \in Keys : over[j] = Unset <=> over[k] = Unset

Load(e) ==
    /\ edit[e] = <<>>
    /\ shown' = [shown EXCEPT ![e] = draft]
    /\ UNCHANGED <<draft, lock, edit, copy, done, apart, raced>>

(* update_settings: a strict edit is tried on the overrides the draft has  *)
(* now - the old ones, even when it names another config.                  *)
Tried(change) == Change(draft.over, change)
Askable(change, strict, guarded) ==
    /\ change.what = "reset" => ~strict /\ ~guarded
    /\ strict => ~guarded /\ Resolves(Tried(change))
Ask(e) ==
    /\ edit[e] = <<>>
    /\ Len(done) + Cardinality({f \in Editors : edit[f] # <<>>}) < MaxEdits
    /\ \E change \in Edits, strict, guarded \in BOOLEAN :
          /\ Askable(change, strict, guarded)
          /\ edit' = [edit EXCEPT ![e] = [change |-> change, strict |-> strict,
                                          guarded |-> guarded]]
    /\ UNCHANGED <<draft, lock, shown, copy, done, apart, raced>>

(* The lock taken and the draft read; a guarded edit whose expected        *)
(* revision is not the draft's is refused.                                 *)
MutantCurrent(e) == shown[e]
Current(e) == draft
Acquire(e) ==
    /\ edit[e] # <<>> /\ lock \cap Beside(e) = {}
    /\ IF edit[e].guarded /\ shown[e].revision # draft.revision
       THEN /\ edit' = [edit EXCEPT ![e] = <<>>]
            /\ UNCHANGED <<lock, copy, raced>>
       ELSE /\ lock' = lock \cup {e}
            /\ copy' = [copy EXCEPT ![e] = Current(e)]
            /\ raced' = (raced \/ lock # {})
            /\ UNCHANGED edit
    /\ UNCHANGED <<draft, shown, done, apart>>

Commit(e) ==
    /\ e \in lock /\ Len(done) < MaxEdits
    /\ draft' = Applied(copy[e], edit[e].change)
    /\ shown' = [shown EXCEPT ![e] = draft']
    /\ done' = Append(done, edit[e].change)
    /\ edit' = [edit EXCEPT ![e] = <<>>]
    /\ lock' = lock \ {e}
    /\ copy' = [copy EXCEPT ![e] = Blank]
    /\ UNCHANGED <<apart, raced>>

(* A process dies: the draft on disk is the last one replaced.             *)
Restart(p) ==
    /\ \E e \in p : edit[e] # <<>>
    /\ lock' = lock \ p
    /\ edit' = [e \in Editors |-> IF e \in p THEN <<>> ELSE edit[e]]
    /\ copy' = [e \in Editors |-> IF e \in p THEN Blank ELSE copy[e]]
    /\ UNCHANGED <<draft, shown, done, apart, raced>>

Editing(e) == Load(e) \/ Ask(e) \/ Acquire(e) \/ Commit(e)
Next == \E e \in Editors : Editing(e) \/ Restart(Beside(e))

Spec == Init /\ [][Next]_vars
-----------------------------------------------------------------------------
(* As long as no two processes have edited at the same time, the draft is  *)
(* what the committed edits make of the blank one, each once and in their  *)
(* order, whoever made them; and an edit that names the revision it was    *)
(* made against is applied to exactly the draft its editor was shown.      *)
Made[i \in 0..MaxEdits] ==
    IF i = 0 \/ i > Len(done) THEN Blank ELSE Applied(Made[i - 1], done[i])
EditsKept ==
    raced \/ /\ draft = Made[Len(done)]
             /\ \A e \in lock : edit[e].guarded => copy[e] = shown[e]

(* What the documents say, and the code does not keep:                     *)
(* a strict edit that is not refused leaves a draft that resolves;         *)
StrictResolves ==
    [][\A e \in Editors : e \in lock \ lock' /\ edit[e].strict
           /\ draft' # draft => Resolves(draft'.over)]_vars
(* no accepted edit is lost, nor is one that names a revision applied to   *)
(* another draft of that number, with an agent over stdio beside another.  *)
NoEditLost == draft = Made[Len(done)]
GuardHolds == \A e \in lock : edit[e].guarded => copy[e] = shown[e]
=============================================================================
