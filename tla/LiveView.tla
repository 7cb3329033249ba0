------------------------------ MODULE LiveView -------------------------------
(***************************************************************************)
(* The console's live view of a run (console/projection.py): a fold over   *)
(* events.jsonl and ingest-receipts.jsonl while the run appends to both.   *)
(*                                                                         *)
(* A refresh reads what is new in the events, then what is new in the      *)
(* receipts, and the run writes on between the two reads.  The replay      *)
(* scrubber folds the same files up to an event (fold_until), placing a    *)
(* receipt by its time - which a receipt that is appended again, with a    *)
(* new status and the time of the first, does not tell.                    *)
(***************************************************************************)
EXTENDS Naturals, Sequences

CONSTANTS Docs,        \* the documents of the run
          MaxEvents,   \* bound: lines of events.jsonl
          MaxReceipts  \* bound: lines of ingest-receipts.jsonl

(* projection.CUSTODY, below it a document no event has named.             *)
CUSTODY == <<"discovered", "acquired", "submitted", "accepted",
             "awaiting_claim", "claimed", "indexed", "rejected">>
Rank(stage) == IF \E i \in DOMAIN CUSTODY : CUSTODY[i] = stage
               THEN CHOOSE i \in DOMAIN CUSTODY : CUSTODY[i] = stage ELSE 0

VARIABLES
    events,    \* events.jsonl: what, of which documents, and when
    receipts,  \* ingest-receipts.jsonl: document, status, recorded_at
    at,        \* the run's clock
    custody,   \* document -> what its last receipt says, or "none"
    syncing,   \* the collection is going on ("no"), is "synced", or "over"
    read,      \* how many events and receipts the view has folded
    view,      \* LiveModel: stages, claim_state, the barrier's last state
    refreshing,\* the watcher is between its two reads
    dropped    \* documents of which a receipt was folded before any event

vars == <<events, receipts, at, custody, syncing, read, view, refreshing, dropped>>
run == <<events, receipts, at, custody, syncing>>

Blank == [stage |-> [d \in Docs |-> "unseen"], claim |-> "none", barrier |-> "none"]

Init ==
    /\ events = <<>> /\ receipts = <<>> /\ at = 0
    /\ custody = [d \in Docs |-> "none"] /\ syncing = "no"
    /\ read = [events |-> 0, receipts |-> 0]
    /\ view = Blank /\ refreshing = FALSE /\ dropped = {}

-----------------------------------------------------------------------------
(* LiveModel._advance: forward only, and never out of "rejected".          *)
Advance(from, stage) ==
    IF from # "rejected" /\ Rank(stage) > Rank(from) THEN stage ELSE from

(* apply_event, with _sync and _barrier.                                   *)
Crossed(from) == IF from \in {"accepted", "submitted"} THEN "indexed" ELSE from
Event(v, e) ==
    CASE e.what = "discovered" ->
            [v EXCEPT !.stage[e.doc] = IF @ = "unseen" THEN "discovered" ELSE @]
      [] e.what = "acquired" ->
            [v EXCEPT !.stage[e.doc] = IF @ = "unseen" THEN @ ELSE Advance(@, "acquired")]
      [] e.what = "queued" -> [v EXCEPT !.claim = "awaiting_claim"]
      [] e.what = "completed" -> v
      [] e.what = "claimed" -> [v EXCEPT !.claim = "claimed", !.barrier = "waiting"]
      [] e.what = "timed_out" -> [v EXCEPT !.claim = "none", !.barrier = "timed_out"]
      [] OTHER -> [stage |-> [d \in Docs |-> Crossed(v.stage[d])],
                   claim |-> "none", barrier |-> "crossed"]

(* apply_receipt: of a document no event has named, nothing.               *)
Receipted(from, status) ==
    CASE from = "unseen" -> from
      [] status = "no_receipt" -> Advance(from, "submitted")
      [] status = "rejected" -> "rejected"
      [] OTHER -> Advance(from, status)
Receipt(v, r) == [v EXCEPT !.stage[r.doc] = Receipted(@, r.status)]

FoldEvents(v, rows) ==
    LET f[i \in 0..Len(rows)] == IF i = 0 THEN v ELSE Event(f[i - 1], rows[i])
    IN  f[Len(rows)]
FoldReceipts(v, rows) ==
    LET f[i \in 0..Len(rows)] == IF i = 0 THEN v ELSE Receipt(f[i - 1], rows[i])
    IN  f[Len(rows)]

(* fold_until: the events up to the n-th, then the receipts recorded by    *)
(* then; "indexed" ones only once the barrier has been folded as crossed.  *)
MutantEarly(r, n, v) == r.recorded > events[n].at
Early(r, n, v) ==
    r.recorded > events[n].at \/ (r.status = "indexed" /\ v.barrier # "crossed")
Timely(v, r, n, seen) == IF Early(r, n, seen) THEN v ELSE Receipt(v, r)
FoldTimely(n, seen) ==
    LET f[i \in 0..Len(receipts)] == IF i = 0 THEN seen ELSE Timely(f[i - 1], receipts[i], n, seen)
    IN  f[Len(receipts)]
FoldUntil(n) == IF n = 0 THEN Blank ELSE FoldTimely(n, FoldEvents(Blank, SubSeq(events, 1, n)))

-----------------------------------------------------------------------------
(* The run, as Ingest and Collection model it: what reaches the two files. *)
Tick == at' = at + 1
Emit(what, d) ==
    /\ Len(events) < MaxEvents
    /\ events' = Append(events, [what |-> what, doc |-> d, at |-> at'])

Find(d) ==
    /\ custody[d] = "none" /\ Tick /\ Emit("discovered", d)
    /\ custody' = [custody EXCEPT ![d] = "found"]
    /\ UNCHANGED <<receipts, syncing>>
Acquire(d) ==
    /\ custody[d] = "found" /\ Tick /\ Emit("acquired", d)
    /\ custody' = [custody EXCEPT ![d] = "held"]
    /\ UNCHANGED <<receipts, syncing>>
Submit(d) ==
    /\ custody[d] = "held" /\ syncing = "no" /\ Len(receipts) < MaxReceipts /\ Tick
    /\ \E status \in {"accepted", "rejected", "no_receipt"} :
          /\ receipts' = Append(receipts, [doc |-> d, status |-> status, recorded |-> at'])
          /\ custody' = [custody EXCEPT ![d] = status]
    /\ UNCHANGED <<events, syncing>>

(* One sync when the collection has ended, run in the call or queued.      *)
Accepted == {d \in Docs : custody[d] = "accepted"}
Whole == CHOOSE d \in Docs : TRUE
Sync ==
    /\ syncing = "no" /\ \A d \in Docs : custody[d] \notin {"found", "held"}
    /\ Tick /\ \E what \in {"queued", "completed"} : Emit(what, Whole)
    /\ syncing' = "synced"
    /\ UNCHANGED <<receipts, custody>>

(* acknowledge: each poll reads the receipts of all submissions back, and  *)
(* _fold appends again, with the time the first was recorded at, each of   *)
(* which the region says something else by now: another status, or the     *)
(* same with an artifact.  It ends when none is left, or at its deadline.  *)
Recorded(d) == CHOOSE t \in 1..at : \E i \in DOMAIN receipts :
                   receipts[i].doc = d /\ receipts[i].recorded = t
Fold(d) ==
    /\ syncing = "synced" /\ custody[d] \in {"accepted", "rejected", "no_receipt", "indexed"}
    /\ Len(receipts) < MaxReceipts /\ Tick
    /\ \E status \in {"accepted", "rejected", "indexed"} :
          /\ receipts' = Append(receipts,
                 [doc |-> d, status |-> status, recorded |-> Recorded(d)])
          /\ custody' = [custody EXCEPT ![d] = status]
    /\ UNCHANGED <<events, syncing>>
Poll ==
    /\ syncing = "synced" /\ Accepted # {} /\ Tick
    /\ \/ Emit("claimed", Whole) /\ UNCHANGED syncing
       \/ Emit("timed_out", Whole) /\ syncing' = "over"
    /\ UNCHANGED <<receipts, custody>>
Cross ==
    /\ syncing = "synced" /\ Accepted = {} /\ Tick
    /\ Emit("crossed", Whole)
    /\ syncing' = "over"
    /\ UNCHANGED <<receipts, custody>>

(* The run is collected on: a resumed command, or one that adds to it.     *)
Again ==
    /\ syncing = "over" /\ syncing' = "no"
    /\ UNCHANGED <<events, receipts, at, custody>>

Run == \/ \E d \in Docs : Find(d) \/ Acquire(d) \/ Submit(d) \/ Fold(d)
       \/ Sync \/ Poll \/ Cross \/ Again

-----------------------------------------------------------------------------
(* RunWatcher.refresh: whole new lines of the events, then of the receipts.*)
New(rows, n) == SubSeq(rows, n + 1, Len(rows))
ReadEvents ==
    /\ ~refreshing /\ refreshing' = TRUE
    /\ view' = FoldEvents(view, New(events, read.events))
    /\ read' = [read EXCEPT !.events = Len(events)]
    /\ UNCHANGED <<run, dropped>>

Unseen(rows) == {d \in Docs : view.stage[d] = "unseen"
                              /\ \E i \in DOMAIN rows : rows[i].doc = d}
ReadReceipts ==
    /\ refreshing /\ refreshing' = FALSE
    /\ view' = FoldReceipts(view, New(receipts, read.receipts))
    /\ read' = [read EXCEPT !.receipts = Len(receipts)]
    /\ dropped' = dropped \cup Unseen(New(receipts, read.receipts))
    /\ UNCHANGED run

Watch == ReadEvents \/ ReadReceipts
Next == (Run /\ UNCHANGED <<read, view, refreshing, dropped>>) \/ Watch
Spec == Init /\ [][Next]_vars
-----------------------------------------------------------------------------
(* Between refreshes the scrubber, at any event the live view has folded,  *)
(* shows no document further along than the live view does - but for one   *)
(* of which the live view dropped a receipt, and for one with a receipt    *)
(* that the live view has not read and whose time misleads: it was first   *)
(* recorded when a barrier of the run had crossed already, or it was       *)
(* appended again for another reason than that an accepted document is     *)
(* indexed (ingestion.py:514-531, projection.py:919-931).                  *)
Ahead(n, d) == Rank(FoldUntil(n).stage[d]) > Rank(view.stage[d])
Later(j) == \E i \in DOMAIN events :
    events[i].what = "crossed" /\ events[i].at < receipts[j].recorded
Recast(rows, j) == \E i \in 1..(j - 1) :
    rows[i].doc = rows[j].doc /\ ~(rows[i].status = "accepted" /\ rows[j].status = "indexed")
Misleads(d) == \E j \in DOMAIN receipts :
    j > read.receipts /\ receipts[j].doc = d /\ (Later(j) \/ Recast(receipts, j))
ScrubberNeverAhead ==
    ~refreshing => \A n \in 0..read.events, d \in Docs :
        Ahead(n, d) => d \in dropped \/ Misleads(d)

(* No document falls back in the live view, and a rejected one stays so.   *)
StageNeverFalls ==
    [][\A d \in Docs : Rank(view'.stage[d]) >= Rank(view.stage[d])]_vars

(* What the documents say, and the code does not keep:                     *)
(* the scrubber shows the view as it stood when the event was written;     *)
ScrubberTrue ==
    ~refreshing => \A n \in 0..read.events, d \in Docs : Ahead(n, d) => d \in dropped
(* two consoles that have read the same lines draw the same picture.       *)
Rested == ~refreshing /\ read.events = Len(events) /\ read.receipts = Len(receipts)
SamePicture ==
    Rested => view = FoldReceipts(FoldEvents(Blank, events), receipts)
=============================================================================
