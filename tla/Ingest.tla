------------------------------- MODULE Ingest -------------------------------
(***************************************************************************)
(* pheasant/ingestion.py: how the documents of a collection reach the      *)
(* region and its index.  Concurrent branches give each document a path,   *)
(* log the request, submit in batches with the retries of client.call, and *)
(* log the receipts; then one thread registers the landing directory,      *)
(* syncs, and polls the index barrier.  The process may die at any step;   *)
(* the next one restores paths and receipts from raw/.  The region is the  *)
(* one of pheasant/mock.py, with an index queue.                           *)
(*                                                                         *)
(* A document is its idempotency key: a source with one text.  What the    *)
(* collection does beside submitting is in Collection.                     *)
(***************************************************************************)
EXTENDS Integers, FiniteSets

CONSTANTS
  Keys,       \* idempotency keys of the documents there may be
  SourceOf,   \* the source of each: two texts of a source have two keys
  NameOf,     \* its readable name, not unique
  Refused,    \* keys the region rejects
  Branches,   \* concurrent branches
  BatchSize,  \* documents of one call
  MaxRetries, \* attempts of one call
  Lossy,      \* TRUE when a submission or its answer may be lost
  MaxPolls,   \* polls of the barrier before its deadline
  MaxDeaths   \* bound: deaths of the process

Branch  == 1..Branches
Sources == {SourceOf[k] : k \in Keys}
Names   == {NameOf[k] : k \in Keys}

(* A name, and the number that tells a collision apart. *)
Paths   == Names \X (Nat \ {0})

ASSUME IngestAssumption ==
  /\ DOMAIN SourceOf = Keys /\ DOMAIN NameOf = Keys /\ Refused \in SUBSET Keys
  /\ Branches \in Nat \ {0} /\ BatchSize \in Nat \ {0} /\ MaxRetries \in Nat \ {0}
  /\ Lossy \in BOOLEAN /\ MaxPolls \in Nat \ {0} /\ MaxDeaths \in Nat

VARIABLES
  phase,      \* where the process is
  seen,       \* sources this process has given to a branch
  given,      \* documents of each branch whose source row is not written
  todo,       \* those of them the current step has not reached
  chunk,      \* those of the batch under way the current step has not reached
  batch,      \* the batch under way
  work,       \* where each branch is in submit()
  tries,      \* attempts at its call
  answer,     \* documents its call brought a receipt of
  pathOf,     \* Ingestor._source_path; _path_owner is its inverse
  ledger,     \* ReceiptLedger: the status of each key
  landing,    \* Ingestor.landing_directory is known
  waiting,    \* still_accepted > 0 in the last answer of the barrier
  polls,
  requests,   \* ingest-requests.jsonl: <<key, path>>
  receipts,   \* ingest-receipts.jsonl, folded by key
  filed,      \* sources with a row in sources.jsonl
  decided,    \* the checkpoint holds the final decision of the collection
  registered, \* region: the landing directory is a source
  queued,     \* region: an index task is outstanding
  held,       \* region: <<path, key>> of the documents it stores
  indexed,    \* region: the paths its index has
  status,     \* region: the disposition of each key
  landed,     \* region: the path in its receipt of each key
  unknown,    \* history: a sync was refused with "Unknown source"
  deaths

branches == <<given, todo, chunk, batch, work, tries, answer>>
memory   == <<seen, pathOf, ledger, landing, waiting, polls>>
disk     == <<requests, receipts, filed, decided>>
region   == <<registered, queued, held, indexed, status, landed>>
history  == <<unknown, deaths>>
vars == <<phase, branches, memory, disk, region, history>>

NoPath  == <<>>
Unsent  == [k \in Keys |-> "none"]
Nothing == [b \in Branch |-> {}]

Blank ==
  /\ seen = {} /\ pathOf = [s \in Sources |-> NoPath] /\ ledger = Unsent
  /\ landing = FALSE /\ waiting = FALSE /\ polls = 0
  /\ given = Nothing /\ todo = Nothing /\ chunk = Nothing /\ batch = Nothing
  /\ work = [b \in Branch |-> "done"] /\ tries = [b \in Branch |-> 0]
  /\ answer = Nothing

Init ==
  /\ phase = "round" /\ Blank
  /\ requests = {} /\ receipts = Unsent /\ filed = {} /\ decided = FALSE
  /\ registered = FALSE /\ queued = FALSE /\ held = {} /\ indexed = {}
  /\ status = Unsent /\ landed = [k \in Keys |-> NoPath]
  /\ unknown = FALSE /\ deaths = 0

-----------------------------------------------------------------------------
(* A round hands retained sources to its branches, each once: CollectionState
   knows those this process has seen and those with a row.  One that hands out
   nothing changes nothing here. *)

New == {k \in Keys : SourceOf[k] \notin seen \cup filed}

Round ==
  /\ phase = "round"
  /\ \E share \in [Branch -> SUBSET New] :
       /\ \A b, d \in Branch : \A k \in share[b], l \in share[d] :
            SourceOf[k] = SourceOf[l] => b = d /\ k = l
       /\ share # Nothing
       /\ given' = share /\ todo' = share
       /\ seen' = seen \cup {SourceOf[k] : k \in UNION {share[b] : b \in Branch}}
       /\ work' = [b \in Branch |-> IF share[b] = {} THEN "done" ELSE "assign"]
  /\ phase' = "submit"
  /\ UNCHANGED <<chunk, batch, tries, answer, pathOf, ledger, landing, waiting,
                 polls, disk, region, history>>

At(b, place) == phase = "submit" /\ work[b] = place
Step(b, place) == work' = [work EXCEPT ![b] = place]

(* Mutant of Free: every source gets the name it wants. *)
MutantFree(k, path) == TRUE

(* assign_path's loop condition. *)
Free(k, path) == \A s \in Sources \ {SourceOf[k]} : pathOf[s] # path

Path(k) == pathOf[SourceOf[k]]

(* assign_path, under its lock: an earlier path of the source is kept. *)
AssignPath(b, k) ==
  /\ At(b, "assign") /\ k \in todo[b]
  /\ \E n \in 1..(Cardinality(Sources) + 1) :
       /\ Free(k, <<NameOf[k], n>>)
       /\ \A m \in 1..(n - 1) : ~Free(k, <<NameOf[k], m>>)
       /\ pathOf' = IF Path(k) # NoPath THEN pathOf
                    ELSE [pathOf EXCEPT ![SourceOf[k]] = <<NameOf[k], n>>]
  /\ IF todo[b] = {k}
     THEN Step(b, "batch") /\ todo' = [todo EXCEPT ![b] = given[b]]
     ELSE todo' = [todo EXCEPT ![b] = @ \ {k}] /\ UNCHANGED work
  /\ UNCHANGED <<phase, given, chunk, batch, tries, answer, seen, ledger, landing,
                 waiting, polls, disk, region, history>>

(* requests[start : start + batch_size] *)
NextBatch(b) ==
  /\ At(b, "batch") /\ todo[b] # {}
  /\ \E docs \in SUBSET todo[b] :
       /\ docs # {} /\ Cardinality(docs) <= BatchSize
       /\ docs # todo[b] => Cardinality(docs) = BatchSize
       /\ batch' = [batch EXCEPT ![b] = docs]
       /\ chunk' = [chunk EXCEPT ![b] = docs]
       /\ todo' = [todo EXCEPT ![b] = @ \ docs]
  /\ Step(b, "note")
  /\ UNCHANGED <<phase, given, tries, answer, memory, disk, region, history>>

Logged(b) == chunk[b] = {}

(* IngestRequest.as_record: what a reader joins on is the key, which stands
   for source and text, and the path. *)
AsRecord(k) == <<k, Path(k)>>

(* note_submission and the row of ingest-requests.jsonl. *)
Note(b, k) ==
  /\ At(b, "note") /\ k \in chunk[b]
  /\ requests' = requests \cup {AsRecord(k)}
  /\ chunk' = [chunk EXCEPT ![b] = @ \ {k}]
  /\ UNCHANGED <<phase, given, todo, batch, work, tries, answer, memory, receipts,
                 filed, decided, region, history>>

-----------------------------------------------------------------------------
(* submit_documents in the region. *)

Fresh(docs)  == {k \in docs : status[k] = "none"}
Stored(docs) == {k \in docs : k \notin Refused}

(* A key that has a receipt is written again at the recorded path. *)
Place(k) == IF status[k] = "none" THEN Path(k) ELSE landed[k]

(* The documents of a batch lie at different paths: at most one is left. *)
Submit(docs) ==
  /\ status' = [k \in Keys |-> IF k \notin Fresh(docs) THEN status[k]
                               ELSE IF k \in Refused THEN "rejected" ELSE "accepted"]
  /\ landed' = [k \in Keys |-> IF k \in Fresh(docs) \ Refused THEN Path(k) ELSE landed[k]]
  /\ held' = {h \in held : \A k \in Stored(docs) : h[1] # Place(k)}
             \cup {<<Place(k), k>> : k \in Stored(docs)}
  /\ indexed' = indexed \ {Path(k) : k \in Fresh(docs) \ Refused}
  /\ UNCHANGED <<registered, queued>>

(* The region answers without an error: it may have taken a part of the batch,
   and its receipts may be of a part of that.  A receipt that is not in the
   answer is missed by nobody, but for an answer without any. *)
Answered(b) ==
  /\ At(b, "note") /\ Logged(b)
  /\ \E taken \in SUBSET batch[b] : \E told \in SUBSET taken :
       /\ Lossy \/ told = batch[b]
       /\ Submit(taken)
       /\ answer' = [answer EXCEPT ![b] = told]
       /\ landing' = (landing \/ told # {})
       /\ chunk' = [chunk EXCEPT ![b] = IF told = {} THEN batch[b] ELSE told]
  /\ tries' = [tries EXCEPT ![b] = 0]
  /\ Step(b, "record")
  /\ UNCHANGED <<phase, given, todo, batch, seen, pathOf, ledger, waiting, polls,
                 disk, history>>

(* RateLimited, TimeoutError, TransportError: the call carries a key and is
   sent again.  The last failure raises, and the branch ends. *)
Lost(b) ==
  /\ Lossy
  /\ At(b, "note") /\ Logged(b)
  /\ \E taken \in SUBSET batch[b] : Submit(taken)
  /\ IF tries[b] + 1 < MaxRetries
     THEN /\ tries' = [tries EXCEPT ![b] = @ + 1]
          /\ UNCHANGED <<given, todo, chunk, batch, work>>
     ELSE /\ tries' = [tries EXCEPT ![b] = 0]
          /\ given' = [given EXCEPT ![b] = {}]
          /\ todo' = [todo EXCEPT ![b] = {}]
          /\ chunk' = [chunk EXCEPT ![b] = {}]
          /\ batch' = [batch EXCEPT ![b] = {}]
          /\ Step(b, "done")
  /\ UNCHANGED <<phase, answer, memory, disk, history>>

(* parse_receipts, or the receipts _submit_batch makes up. *)
Told(b, k) == IF k \in answer[b] THEN status[k] ELSE "no_receipt"

(* ReceiptLedger.record and acknowledge; a receipt of a key replaces the
   one before it, as fold_receipts makes of the rows. *)
Receipted(k, told)  == [ledger EXCEPT ![k] = told]
Superseded(k, told) == [receipts EXCEPT ![k] = told]

(* A receipt, and its row in ingest-receipts.jsonl. *)
Record(b, k) ==
  /\ At(b, "record") /\ k \in chunk[b]
  /\ ledger' = Receipted(k, Told(b, k))
  /\ receipts' = Superseded(k, Told(b, k))
  /\ chunk' = [chunk EXCEPT ![b] = @ \ {k}]
  /\ UNCHANGED <<phase, given, todo, batch, work, tries, answer, seen, pathOf,
                 landing, waiting, polls, requests, filed, decided, region, history>>

Recorded(b) ==
  /\ At(b, "record") /\ chunk[b] = {}
  /\ batch' = [batch EXCEPT ![b] = {}]
  /\ answer' = [answer EXCEPT ![b] = {}]
  /\ Step(b, "batch")
  /\ UNCHANGED <<phase, given, todo, chunk, tries, memory, disk, region, history>>

(* submit() has returned: the rows of sources.jsonl. *)
FileSource(b, k) ==
  /\ At(b, "batch") /\ todo[b] = {} /\ k \in given[b]
  /\ filed' = filed \cup {SourceOf[k]}
  /\ given' = [given EXCEPT ![b] = @ \ {k}]
  /\ IF given[b] = {k} THEN Step(b, "done") ELSE UNCHANGED work
  /\ UNCHANGED <<phase, todo, chunk, batch, tries, answer, memory, requests,
                 receipts, decided, region, history>>

EndRound ==
  /\ phase = "submit" /\ \A b \in Branch : work[b] = "done"
  /\ phase' = "round"
  /\ UNCHANGED <<branches, memory, disk, region, history>>

(* The stopping calculus ends the collection, and the checkpoint says so. *)
Decide ==
  /\ phase = "round"
  /\ decided' = TRUE
  /\ phase' = "register"
  /\ UNCHANGED <<branches, memory, requests, receipts, filed, region, history>>

-----------------------------------------------------------------------------
(* The end of cmd_collect. *)

Proceed(place) ==
  /\ phase' = place
  /\ UNCHANGED <<branches, seen, pathOf, landing, requests, filed, decided, held,
                 landed, deaths>>

(* register(): a directory is known only to a process that submitted. *)
Register ==
  /\ phase = "register"
  /\ registered' = (registered \/ landing)
  /\ Proceed("sync")
  /\ UNCHANGED <<ledger, waiting, polls, receipts, queued, indexed, status, unknown>>

(* sync(): an index task, at once or in a fleet's queue. *)
Sync ==
  /\ phase = "sync" /\ registered
  /\ queued' = TRUE
  /\ Proceed("ack")
  /\ UNCHANGED <<ledger, waiting, polls, receipts, registered, indexed, status, unknown>>

(* The refusal is an exception nobody catches: the process ends. *)
SyncRefused ==
  /\ phase = "sync" /\ ~registered
  /\ phase' = "crashed"
  /\ unknown' = TRUE
  /\ UNCHANGED <<branches, memory, disk, region, deaths>>

(* An indexer finishes the task: all the source holds by now. *)
Index ==
  /\ queued
  /\ queued' = FALSE
  /\ indexed' = {h[1] : h \in held}
  /\ UNCHANGED <<phase, branches, memory, disk, registered, held, status, landed, history>>

(* acknowledge_ingest: promotes what the index has, counts what it lacks. *)
Pending  == {k \in Keys : status[k] = "accepted"}
Promoted == {k \in Pending : landed[k] \in indexed}

Acknowledge ==
  /\ phase = "ack"
  /\ status' = [k \in Keys |-> IF k \in Promoted THEN "indexed" ELSE status[k]]
  /\ waiting' = (Pending # Promoted)
  /\ polls' = IF polls < MaxPolls THEN polls + 1 ELSE polls
  /\ Proceed("fold")
  /\ UNCHANGED <<ledger, receipts, registered, queued, indexed, unknown>>

(* Receipts the region tells another status of. *)
Stale == {k \in Keys : ledger[k] # "none" /\ status[k] \notin {"none", ledger[k]}}

(* _refresh and _fold: a new row for the key. *)
Fold(k) ==
  /\ phase = "fold" /\ k \in Stale
  /\ ledger' = Receipted(k, status[k])
  /\ receipts' = Superseded(k, status[k])
  /\ Proceed("fold")
  /\ UNCHANGED <<waiting, polls, registered, queued, indexed, status, unknown>>

(* Mutant of Expired: the barrier waits as long as it takes. *)
MutantExpired == FALSE

(* The deadline of acknowledge(). *)
Expired == polls >= MaxPolls

Barrier ==
  /\ phase = "fold" /\ Stale = {}
  /\ \/ ~waiting /\ Proceed("crossed")
     \/ waiting /\ Expired /\ Proceed("timed_out")
     \/ waiting /\ ~Expired /\ Proceed("ack")
  /\ UNCHANGED <<ledger, waiting, polls, receipts, registered, queued, indexed,
                 status, unknown>>

(* reconcile() and inventory(): the region is asked what it lacks and what it
   holds beside the receipts; its answers are written down and acted on by
   nobody. *)
Reconcile ==
  /\ phase \in {"crossed", "timed_out"}
  /\ Proceed("reconciled")
  /\ UNCHANGED <<ledger, waiting, polls, receipts, registered, queued, indexed,
                 status, unknown>>

(* The stage is marked completed. *)
Complete ==
  /\ phase = "reconciled"
  /\ Proceed("completed")
  /\ UNCHANGED <<ledger, waiting, polls, receipts, registered, queued, indexed,
                 status, unknown>>

-----------------------------------------------------------------------------
(* The memory of the process goes. *)
Forget ==
  /\ seen' = {} /\ pathOf' = [s \in Sources |-> NoPath] /\ ledger' = Unsent
  /\ landing' = FALSE /\ waiting' = FALSE /\ polls' = 0
  /\ given' = Nothing /\ todo' = Nothing /\ chunk' = Nothing /\ batch' = Nothing
  /\ work' = [b \in Branch |-> "done"] /\ tries' = [b \in Branch |-> 0]
  /\ answer' = Nothing

Die ==
  /\ phase \notin {"completed", "crashed", "down"}
  /\ deaths < MaxDeaths /\ deaths' = deaths + 1
  /\ phase' = "down" /\ Forget
  /\ UNCHANGED <<disk, region, unknown>>

(* restore_paths: the first row of a source. *)
RestoredPath(s) ==
  LET rows == {r \in requests : SourceOf[r[1]] = s}
  IN  IF rows = {} THEN NoPath ELSE (CHOOSE r \in rows : TRUE)[2]

(* Mutant of RestoredReceipts: it knows only its own submissions. *)
MutantRestoredReceipts == Unsent

(* ReceiptLedger.restore *)
RestoredReceipts == receipts

Resume ==
  /\ phase = "down"
  /\ pathOf' = [s \in Sources |-> RestoredPath(s)]
  /\ ledger' = RestoredReceipts
  /\ phase' = IF decided THEN "register" ELSE "round"
  /\ UNCHANGED <<branches, seen, landing, waiting, polls, disk, region, history>>

-----------------------------------------------------------------------------
Submission(b) ==
  \/ \E k \in Keys : AssignPath(b, k) \/ Note(b, k) \/ Record(b, k) \/ FileSource(b, k)
  \/ NextBatch(b) \/ Answered(b) \/ Lost(b) \/ Recorded(b)

Lead == Round \/ EndRound \/ Decide \/ Register \/ Sync \/ SyncRefused \/ Acknowledge
        \/ (\E k \in Keys : Fold(k)) \/ Barrier \/ Reconcile \/ Complete

Next == Lead \/ (\E b \in Branch : Submission(b)) \/ Index \/ Die \/ Resume

Spec == Init /\ [][Next]_vars

(* The process and the threads of its pool run while it lives, and whoever
   watches the run resumes it.  No indexer has to come. *)
FairSpec == Spec /\ WF_vars(Lead) /\ WF_vars(Resume)
                 /\ \A b \in Branch : WF_vars(Submission(b))

-----------------------------------------------------------------------------
(* Dispositions of a key in the region. *)
STATUS == {"none", "accepted", "indexed", "rejected"}

(* Every variable has its type. *)
TypeOK ==
  /\ phase \in {"round", "submit", "register", "sync", "ack", "fold", "crossed",
                "timed_out", "reconciled", "completed", "crashed", "down"}
  /\ seen \in SUBSET Sources
  /\ given \in [Branch -> SUBSET Keys] /\ todo \in [Branch -> SUBSET Keys]
  /\ chunk \in [Branch -> SUBSET Keys] /\ batch \in [Branch -> SUBSET Keys]
  /\ work \in [Branch -> {"assign", "batch", "note", "record", "done"}]
  /\ tries \in [Branch -> Nat] /\ answer \in [Branch -> SUBSET Keys]
  /\ pathOf \in [Sources -> Paths \cup {NoPath}]
  /\ ledger \in [Keys -> STATUS \cup {"no_receipt"}]
  /\ landing \in BOOLEAN /\ waiting \in BOOLEAN /\ polls \in Nat
  /\ requests \in SUBSET (Keys \X Paths)
  /\ receipts \in [Keys -> STATUS \cup {"no_receipt"}]
  /\ filed \in SUBSET Sources /\ decided \in BOOLEAN
  /\ registered \in BOOLEAN /\ queued \in BOOLEAN
  /\ held \in SUBSET (Paths \X Keys) /\ indexed \in SUBSET Paths
  /\ status \in [Keys -> STATUS] /\ landed \in [Keys -> Paths \cup {NoPath}]
  /\ unknown \in BOOLEAN /\ deaths \in Nat

(* In the region every source has one path and every path one source, whoever
   submitted, died, restored or submitted again with another text: no second
   document of a source, no document under another's bytes
   (ingestion.py:190-225). *)
OnePathPerSource ==
  \A k, l \in {key \in Keys : landed[key] # NoPath} :
    landed[k] = landed[l] <=> SourceOf[k] = SourceOf[l]

(* Whatever the region stored was announced first, under the path it is
   stored at: a process that died before the receipt leaves a row its
   successor, and the join of hits to sources, can use (ingestion.py:255-258,
   cli.py:303-310). *)
RequestOnFile == \A h \in held : <<h[2], h[1]>> \in requests

(* Once the barrier is crossed, the index has every document that a receipt
   on file says was taken, those of dead processes too, and the receipt says
   so (ingestion.py:374-459, receipts.py:107-118). *)
CrossedMeansIndexed ==
  phase = "crossed" => \A k \in Keys :
    receipts[k] # "none" /\ status[k] \notin {"none", "rejected"}
      => receipts[k] = "indexed" /\ landed[k] \in indexed

(* The collection ends whether an indexer comes or not and whatever calls are
   lost: the barrier has a deadline and a call a last attempt.  Unless the
   region does not know the source (ingestion.py:411-450, client.py:546-594). *)
IngestEnds == <>(phase = "completed" \/ unknown)

(* ingestion.py:314-318: registration "is done once per process because a
   resumed run that submitted nothing has no directory to name and was
   registered by the run that did".  So where documents were submitted no sync
   meets an unknown source. *)
SourceKnown == held # {} => ~unknown
=============================================================================
