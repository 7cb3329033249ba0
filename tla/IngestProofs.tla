---------------------------- MODULE IngestProofs ----------------------------
(***************************************************************************)
(* Theorems about Ingest for any documents, names, branches, batches,      *)
(* losses and deaths.                                                      *)
(*                                                                         *)
(* The inductive invariant follows a document from its path to the index:  *)
(* a path is assigned before a request row names it, the rows are complete *)
(* before the region sees the batch, the region's receipts name the paths  *)
(* of the rows, and the ledger is the fold of the receipt file.            *)
(***************************************************************************)
EXTENDS Ingest, Sequences, TLAPS

(* The locals of submit(). *)
Shape ==
  /\ phase # "submit" => \A b \in Branch : work[b] = "done"
  /\ \A b \in Branch :
       /\ todo[b] \subseteq given[b] /\ batch[b] \subseteq given[b]
       /\ chunk[b] \subseteq batch[b]
       /\ work[b] = "done" => given[b] = {}
       /\ work[b] \in {"assign", "batch"} => batch[b] = {}

(* Documents past the loop of assign_path have a path. *)
Assigned ==
  \A b \in Branch : \A k \in given[b] :
    work[b] # "assign" \/ k \notin todo[b] => Path(k) # NoPath

(* No path has two owners. *)
Distinct ==
  \A s, t \in Sources : pathOf[s] # NoPath /\ pathOf[s] = pathOf[t] => s = t

(* The request rows agree with each other and with the process. *)
Rows ==
  /\ \A r, q \in requests : SourceOf[r[1]] = SourceOf[q[1]] <=> r[2] = q[2]
  /\ phase # "down" => \A r \in requests : Path(r[1]) = r[2]

(* A batch is sent when the rows of all its documents are written. *)
Announced ==
  \A b \in Branch : work[b] = "note" =>
    \A k \in batch[b] \ chunk[b] : <<k, Path(k)>> \in requests

(* What the region keeps. *)
RegionInv ==
  /\ \A k \in Keys : landed[k] # NoPath <=> status[k] \in {"accepted", "indexed"}
  /\ \A k \in Keys : landed[k] # NoPath =>
       /\ <<k, landed[k]>> \in requests
       /\ \E h \in held : h[1] = landed[k]
  /\ \A h \in held : landed[h[2]] = h[1]
  /\ \A k \in Keys : IF k \in Refused THEN status[k] \in {"none", "rejected"}
                                      ELSE status[k] # "rejected"

(* Nothing is promoted before the last batch. *)
IndexInv ==
  /\ phase \in {"round", "submit"} => ~decided
  /\ phase \in {"register", "sync", "ack", "fold", "crossed", "timed_out",
               "reconciled"} => decided
  /\ \A k \in Keys : status[k] = "indexed" => decided /\ landed[k] \in indexed

(* The ledger, and what the barrier has found. *)
BarrierInv ==
  /\ phase # "down" => ledger = receipts
  /\ phase \in {"fold", "crossed"} /\ ~waiting => \A k \in Keys : status[k] # "accepted"
  /\ phase = "crossed" => ~waiting /\ Stale = {}

IInv ==
  /\ TypeOK /\ Shape /\ Assigned /\ Distinct /\ Rows /\ Announced
  /\ RegionInv /\ IndexInv /\ BarrierInv

-----------------------------------------------------------------------------
(* A path is never the empty sequence that stands for none. *)
LEMMA PathIsNoNoPath == \A p \in Paths : p # NoPath
<1> SUFFICES ASSUME NEW m \in Names, NEW n \in Nat, <<m, n>> = NoPath PROVE FALSE
  BY DEF Paths
<1>1. Len(<<m, n>>) = 2 /\ Len(<<>>) = 0
  OBVIOUS
<1> QED BY <1>1 DEF NoPath

(* The rows of a document in the hands of a branch are about a known path. *)
LEMMA PathTyped ==
  ASSUME TypeOK, NEW k \in Keys
  PROVE  SourceOf[k] \in Sources /\ NameOf[k] \in Names /\ Path(k) \in Paths \cup {NoPath}
<1>1. SourceOf[k] \in Sources /\ NameOf[k] \in Names
  BY DEF Sources, Names
<1> QED BY <1>1 DEF Path, TypeOK

(* The numbers assign_path tries are positive. *)
LEMMA BoundTyped ==
  ASSUME NEW c, NEW n \in 1..c
  PROVE  n \in Nat \ {0}
OBVIOUS

(* A batch that is sent has its paths on file. *)
LEMMA SentBatch ==
  ASSUME IInv, NEW b \in Branch, At(b, "note"), Logged(b)
  PROVE  /\ batch[b] \subseteq Keys
         /\ \A k \in batch[b] : Path(k) \in Paths /\ <<k, Path(k)>> \in requests
<1>1. \A k \in batch[b] : <<k, Path(k)>> \in requests
  BY DEF IInv, Announced, At, Logged
<1>2. batch[b] \subseteq Keys /\ requests \in SUBSET (Keys \X Paths)
  BY DEF IInv, TypeOK
<1> QED BY <1>1, <1>2

(* What a submission to the region leaves behind. *)
LEMMA SubmitTyped ==
  ASSUME IInv, NEW b \in Branch, At(b, "note"), Logged(b),
         NEW docs \in SUBSET batch[b], Submit(docs)
  PROVE  /\ held' \in SUBSET (Paths \X Keys) /\ indexed' \in SUBSET Paths
         /\ status' \in [Keys -> STATUS] /\ landed' \in [Keys -> Paths \cup {NoPath}]
<1>1. docs \subseteq Keys /\ \A k \in docs : Path(k) \in Paths
  BY SentBatch
<1>2. status \in [Keys -> STATUS] /\ landed \in [Keys -> Paths \cup {NoPath}]
      /\ held \in SUBSET (Paths \X Keys) /\ indexed \in SUBSET Paths
  BY DEF IInv, TypeOK
<1>3. status' \in [Keys -> STATUS]
  BY <1>2 DEF Submit, STATUS
<1>4. landed' \in [Keys -> Paths \cup {NoPath}]
  <2>1. \A k \in Fresh(docs) \ Refused : Path(k) \in Paths
    BY <1>1 DEF Fresh
  <2>2. landed' = [k \in Keys |-> IF k \in Fresh(docs) \ Refused THEN Path(k) ELSE landed[k]]
    BY DEF Submit
  <2> QED BY <1>2, <2>1, <2>2
<1>5. \A k \in Stored(docs) : Place(k) \in Paths
  <2> SUFFICES ASSUME NEW k \in docs, k \notin Refused PROVE Place(k) \in Paths
    BY DEF Stored
  <2>1. CASE status[k] = "none"
    BY <1>1, <2>1 DEF Place
  <2>2. CASE status[k] # "none"
    <3>1. k \in Keys /\ status[k] \in STATUS
      BY <1>1, <1>2
    <3>2. status[k] # "rejected"
      BY <3>1 DEF IInv, RegionInv
    <3>3. landed[k] # NoPath
      BY <2>2, <3>1, <3>2 DEF IInv, RegionInv, STATUS
    <3> QED BY <1>2, <2>2, <3>1, <3>3 DEF Place
  <2> QED BY <2>1, <2>2
<1>6. held' \in SUBSET (Paths \X Keys)
  <2>1. \A k \in Stored(docs) : k \in Keys
    BY <1>1 DEF Stored
  <2> QED BY <1>2, <1>5, <2>1 DEF Submit
<1>7. indexed' \in SUBSET Paths
  BY <1>2 DEF Submit
<1> QED BY <1>3, <1>4, <1>6, <1>7

-----------------------------------------------------------------------------
(* Every variable keeps its type. *)
LEMMA TypeStep ==
  ASSUME IInv, [Next]_vars
  PROVE  TypeOK'
<1> USE IngestAssumption DEF STATUS
<1>0. TypeOK
  BY DEF IInv
<1>1. CASE Round
  <2>1. PICK share \in [Branch -> SUBSET New] :
          /\ given' = share /\ todo' = share
          /\ seen' = seen \cup {SourceOf[k] : k \in UNION {share[b] : b \in Branch}}
          /\ work' = [b \in Branch |-> IF share[b] = {} THEN "done" ELSE "assign"]
    BY <1>1 DEF Round
  <2>2. share \in [Branch -> SUBSET Keys]
    BY DEF New
  <2>3. {SourceOf[k] : k \in UNION {share[b] : b \in Branch}} \subseteq Sources
    BY <2>2 DEF Sources
  <2> QED BY <1>0, <1>1, <2>1, <2>2, <2>3 DEF Round, TypeOK, disk, region, history
<1>2. ASSUME NEW b \in Branch, NEW k \in Keys, AssignPath(b, k) PROVE TypeOK'
  <2>1. pathOf' \in [Sources -> Paths \cup {NoPath}]
    <3>1. PICK n \in 1..(Cardinality(Sources) + 1) :
            pathOf' = IF Path(k) # NoPath THEN pathOf
                      ELSE [pathOf EXCEPT ![SourceOf[k]] = <<NameOf[k], n>>]
      BY <1>2 DEF AssignPath
    <3>2. n \in Nat \ {0}
      BY <3>1, BoundTyped, Zenon
    <3>3. <<NameOf[k], n>> \in Paths
      BY <3>2, PathTyped, <1>0 DEF Paths
    <3> QED BY <1>0, <3>1, <3>3 DEF TypeOK
  <2>2. todo' \in [Branch -> SUBSET Keys] /\ work' \in [Branch -> {"assign", "batch", "note", "record", "done"}]
    <3> DEFINE WORK == {"assign", "batch", "note", "record", "done"}
    <3>1. /\ todo \in [Branch -> SUBSET Keys] /\ given \in [Branch -> SUBSET Keys]
          /\ work \in [Branch -> WORK]
      BY <1>0 DEF TypeOK
    <3>2. CASE todo[b] = {k}
      <4>1. work' = [work EXCEPT ![b] = "batch"] /\ todo' = [todo EXCEPT ![b] = given[b]]
        BY <1>2, <3>2 DEF AssignPath, Step
      <4> QED BY <3>1, <4>1
    <3>3. CASE todo[b] # {k}
      <4>1. work' = work /\ todo' = [todo EXCEPT ![b] = @ \ {k}]
        BY <1>2, <3>3 DEF AssignPath
      <4> QED BY <3>1, <4>1
    <3> QED BY <3>2, <3>3
  <2> QED BY <1>0, <1>2, <2>1, <2>2 DEF AssignPath, TypeOK, disk, region, history
<1>3. ASSUME NEW b \in Branch, NextBatch(b) PROVE TypeOK'
  BY <1>0, <1>3 DEF NextBatch, At, Step, TypeOK, memory, disk, region, history
<1>4. ASSUME NEW b \in Branch, NEW k \in Keys, Note(b, k) PROVE TypeOK'
  <2>1. k \in given[b] /\ work[b] = "note"
    BY <1>4 DEF Note, AsRecord, At, IInv, Shape
  <2>2. Path(k) \in Paths
    BY <1>0, <2>1, PathTyped DEF IInv, Assigned
  <2>3. requests' \in SUBSET (Keys \X Paths) /\ chunk' \in [Branch -> SUBSET Keys]
    BY <1>0, <1>4, <2>2 DEF Note, AsRecord, TypeOK
  <2> QED BY <1>0, <1>4, <2>3 DEF Note, AsRecord, TypeOK, memory, region, history
<1>5. ASSUME NEW b \in Branch, Answered(b) PROVE TypeOK'
  <2>1. /\ held' \in SUBSET (Paths \X Keys) /\ indexed' \in SUBSET Paths
        /\ status' \in [Keys -> STATUS] /\ landed' \in [Keys -> Paths \cup {NoPath}]
        /\ registered' = registered /\ queued' = queued
    BY <1>5, SubmitTyped DEF Answered, Submit
  <2>4. PICK taken \in SUBSET batch[b] : \E told \in SUBSET taken :
          /\ answer' = [answer EXCEPT ![b] = told] /\ landing' = (landing \/ told # {})
          /\ chunk' = [chunk EXCEPT ![b] = IF told = {} THEN batch[b] ELSE told]
    BY <1>5 DEF Answered
  <2>5. PICK told \in SUBSET taken :
          /\ answer' = [answer EXCEPT ![b] = told] /\ landing' = (landing \/ told # {})
          /\ chunk' = [chunk EXCEPT ![b] = IF told = {} THEN batch[b] ELSE told]
    BY <2>4
  <2>6. told \subseteq Keys /\ batch[b] \subseteq Keys
    BY <1>0, <2>4, <2>5 DEF TypeOK
  <2>7. (told # {}) \in BOOLEAN
    OBVIOUS
  <2>2. landing' \in BOOLEAN /\ answer' \in [Branch -> SUBSET Keys]
    BY <1>0, <2>5, <2>6, <2>7 DEF TypeOK
  <2>3. /\ chunk' \in [Branch -> SUBSET Keys] /\ tries' \in [Branch -> Nat]
        /\ work' \in [Branch -> {"assign", "batch", "note", "record", "done"}]
    <3>1. chunk' \in [Branch -> SUBSET Keys]
      BY <1>0, <2>5, <2>6 DEF TypeOK
    <3> QED BY <1>0, <1>5, <3>1 DEF Answered, Step, TypeOK
  <2> QED BY <1>0, <1>5, <2>1, <2>2, <2>3 DEF Answered, TypeOK, disk, history
<1>6. ASSUME NEW b \in Branch, Lost(b) PROVE TypeOK'
  <2>1. /\ held' \in SUBSET (Paths \X Keys) /\ indexed' \in SUBSET Paths
        /\ status' \in [Keys -> STATUS] /\ landed' \in [Keys -> Paths \cup {NoPath}]
        /\ registered' = registered /\ queued' = queued
    <3>1. PICK taken \in SUBSET batch[b] : Submit(taken)
      BY <1>6 DEF Lost
    <3> QED BY <1>6, <3>1, SubmitTyped DEF Lost, Submit
  <2>2. /\ chunk' \in [Branch -> SUBSET Keys] /\ tries' \in [Branch -> Nat]
        /\ given' \in [Branch -> SUBSET Keys] /\ todo' \in [Branch -> SUBSET Keys]
        /\ batch' \in [Branch -> SUBSET Keys]
        /\ work' \in [Branch -> {"assign", "batch", "note", "record", "done"}]
    <3> DEFINE WORK == {"assign", "batch", "note", "record", "done"}
    <3>1. /\ chunk \in [Branch -> SUBSET Keys] /\ tries \in [Branch -> Nat]
          /\ given \in [Branch -> SUBSET Keys] /\ todo \in [Branch -> SUBSET Keys]
          /\ batch \in [Branch -> SUBSET Keys] /\ work \in [Branch -> WORK]
      BY <1>0 DEF TypeOK
    <3>2. CASE tries[b] + 1 < MaxRetries
      <4>1. /\ tries' = [tries EXCEPT ![b] = @ + 1]
            /\ UNCHANGED <<given, todo, chunk, batch, work>>
        BY <1>6, <3>2 DEF Lost
      <4> QED BY <3>1, <4>1
    <3>3. CASE ~(tries[b] + 1 < MaxRetries)
      <4>1. /\ tries' = [tries EXCEPT ![b] = 0]
            /\ given' = [given EXCEPT ![b] = {}] /\ todo' = [todo EXCEPT ![b] = {}]
            /\ chunk' = [chunk EXCEPT ![b] = {}] /\ batch' = [batch EXCEPT ![b] = {}]
            /\ work' = [work EXCEPT ![b] = "done"]
        BY <1>6, <3>3 DEF Lost, Step
      <4>2. tries' \in [Branch -> Nat] /\ work' \in [Branch -> WORK]
        BY <3>1, <4>1
      <4> QED BY <3>1, <4>1, <4>2
    <3> QED BY <3>2, <3>3
  <2> QED BY <1>0, <1>6, <2>1, <2>2 DEF Lost, TypeOK, memory, disk, history
<1>7. ASSUME NEW b \in Branch, NEW k \in Keys, Record(b, k) PROVE TypeOK'
  BY <1>0, <1>7 DEF Record, Receipted, Superseded, Told, TypeOK, region, history
<1>8. ASSUME NEW b \in Branch, Recorded(b) PROVE TypeOK'
  BY <1>0, <1>8 DEF Recorded, Step, TypeOK, memory, disk, region, history
<1>9. ASSUME NEW b \in Branch, NEW k \in Keys, FileSource(b, k) PROVE TypeOK'
  BY <1>0, <1>9, PathTyped DEF FileSource, Step, TypeOK, memory, region, history
<1>10. CASE EndRound \/ Decide
  <2>1. CASE EndRound
    BY <1>0, <2>1 DEF EndRound, TypeOK, branches, memory, disk, region, history
  <2>2. CASE Decide
    BY <1>0, <2>2 DEF Decide, TypeOK, branches, memory, region, history
  <2> QED BY <1>10, <2>1, <2>2
<1>11. CASE Register \/ Sync \/ SyncRefused
  <2>1. CASE Register
    BY <1>0, <2>1 DEF Register, Proceed, TypeOK, branches
  <2>2. CASE Sync
    BY <1>0, <2>2 DEF Sync, Proceed, TypeOK, branches
  <2>3. CASE SyncRefused
    BY <1>0, <2>3 DEF SyncRefused, TypeOK, branches, memory, disk, region
  <2> QED BY <1>11, <2>1, <2>2, <2>3
<1>12. CASE Index
  <2>1. {h[1] : h \in held} \subseteq Paths
    BY <1>0 DEF TypeOK
  <2> QED BY <1>0, <1>12, <2>1 DEF Index, TypeOK, branches, memory, disk, history
<1>13. CASE Acknowledge
  BY <1>0, <1>13 DEF Acknowledge, Proceed, TypeOK, branches
<1>14. ASSUME NEW k \in Keys, Fold(k) PROVE TypeOK'
  BY <1>0, <1>14 DEF Fold, Receipted, Superseded, Proceed, TypeOK, branches
<1>15. CASE Barrier \/ Reconcile \/ Complete
  BY <1>0, <1>15 DEF Barrier, Reconcile, Complete, Proceed, TypeOK, branches
<1>16. CASE Die
  <2>1. /\ given' = Nothing /\ todo' = Nothing /\ chunk' = Nothing /\ batch' = Nothing
        /\ pathOf' = [s \in Sources |-> NoPath] /\ ledger' = Unsent
        /\ UNCHANGED <<requests, receipts, filed, decided, held, indexed, status,
                       landed, registered, queued, unknown>>
    BY <1>16 DEF Die, Forget, disk, region
  <2>2. Nothing \in [Branch -> SUBSET Keys]
    BY DEF Nothing
  <2>3. pathOf' \in [Sources -> Paths \cup {NoPath}]
    BY <2>1
  <2>4. ledger' \in [Keys -> STATUS \cup {"no_receipt"}]
    BY <2>1 DEF Unsent
  <2>5. /\ seen' = {} /\ landing' = FALSE /\ waiting' = FALSE /\ polls' = 0
        /\ phase' = "down" /\ deaths' = deaths + 1
    BY <1>16 DEF Die, Forget
  <2>6. /\ work' \in [Branch -> {"assign", "batch", "note", "record", "done"}]
        /\ tries' \in [Branch -> Nat]
        /\ answer' \in [Branch -> SUBSET Keys]
    BY <1>16, <2>2 DEF Die, Forget
  <2>7. /\ given' \in [Branch -> SUBSET Keys] /\ todo' \in [Branch -> SUBSET Keys]
        /\ chunk' \in [Branch -> SUBSET Keys] /\ batch' \in [Branch -> SUBSET Keys]
    BY <2>1, <2>2
  <2>8. /\ requests' \in SUBSET (Keys \X Paths) /\ held' \in SUBSET (Paths \X Keys)
        /\ receipts' \in [Keys -> STATUS \cup {"no_receipt"}]
        /\ filed' \in SUBSET Sources /\ decided' \in BOOLEAN /\ indexed' \in SUBSET Paths
        /\ status' \in [Keys -> STATUS] /\ landed' \in [Keys -> Paths \cup {NoPath}]
        /\ registered' \in BOOLEAN /\ queued' \in BOOLEAN /\ unknown' \in BOOLEAN
    BY <1>0, <2>1 DEF TypeOK
  <2>9. /\ deaths' \in Nat /\ polls' \in Nat /\ seen' \in SUBSET Sources
        /\ landing' \in BOOLEAN /\ waiting' \in BOOLEAN
    <3>1. deaths' \in Nat
      BY <1>0, <2>5 DEF TypeOK
    <3>2. polls' \in Nat /\ seen' \in SUBSET Sources
      BY <2>5
    <3>3. landing' \in BOOLEAN /\ waiting' \in BOOLEAN
      BY <2>5, Zenon
    <3> QED BY <3>1, <3>2, <3>3
  <2> QED BY <2>3, <2>4, <2>5, <2>6, <2>7, <2>8, <2>9 DEF TypeOK
<1>17. CASE Resume
  <2>1. \A s \in Sources : RestoredPath(s) \in Paths \cup {NoPath}
    <3> SUFFICES ASSUME NEW s \in Sources, RestoredPath(s) # NoPath
                 PROVE  RestoredPath(s) \in Paths
      OBVIOUS
    <3>1. PICK r \in requests : RestoredPath(s) = r[2]
      BY DEF RestoredPath
    <3> QED BY <1>0, <3>1 DEF TypeOK
  <2> QED BY <1>0, <1>17, <2>1 DEF Resume, RestoredReceipts, TypeOK, branches, disk, region, history
<1>18. CASE UNCHANGED vars
  BY <1>0, <1>18 DEF TypeOK, vars, branches, memory, disk, region, history
<1> QED
  BY <1>1, <1>2, <1>3, <1>4, <1>5, <1>6, <1>7, <1>8, <1>9, <1>10, <1>11, <1>12,
     <1>13, <1>14, <1>15, <1>16, <1>17, <1>18
  DEF Next, Lead, Submission

-----------------------------------------------------------------------------
(* The locals of the branches stay in shape. *)
LEMMA ShapeStep ==
  ASSUME IInv, [Next]_vars
  PROVE  Shape'
<1>0. TypeOK /\ Shape
  BY DEF IInv
<1>1. CASE Round
  <2>1. PICK share \in [Branch -> SUBSET New] :
          /\ given' = share /\ todo' = share
          /\ work' = [b \in Branch |-> IF share[b] = {} THEN "done" ELSE "assign"]
          /\ phase' = "submit" /\ batch' = batch /\ chunk' = chunk
    BY <1>1 DEF Round
  <2>2. \A b \in Branch : batch[b] = {} /\ chunk[b] = {}
    BY <1>0, <1>1 DEF Round, Shape
  <2> QED BY <2>1, <2>2 DEF Shape
<1>2. ASSUME NEW b \in Branch, NEW k \in Keys, AssignPath(b, k) PROVE Shape'
  <2>1. /\ todo \in [Branch -> SUBSET Keys] /\ work \in [Branch -> {"assign", "batch", "note", "record", "done"}]
        /\ phase = "submit" /\ work[b] = "assign" /\ k \in todo[b]
        /\ UNCHANGED <<phase, given, batch, chunk>>
    BY <1>0, <1>2 DEF AssignPath, At, TypeOK
  <2>2. \/ todo[b] = {k} /\ work' = [work EXCEPT ![b] = "batch"]
           /\ todo' = [todo EXCEPT ![b] = given[b]]
        \/ work' = work /\ todo' = [todo EXCEPT ![b] = @ \ {k}]
    BY <1>2 DEF AssignPath, Step
  <2>3. batch[b] = {}
    BY <1>0, <2>1 DEF Shape
  <2>4. ASSUME NEW d \in Branch
        PROVE  /\ todo'[d] \subseteq given[d] /\ batch[d] \subseteq given[d]
               /\ chunk[d] \subseteq batch[d]
               /\ work'[d] = "done" => given[d] = {}
               /\ work'[d] \in {"assign", "batch"} => batch[d] = {}
    BY <1>0, <2>1, <2>2, <2>3 DEF Shape
  <2> QED BY <2>1, <2>4 DEF Shape
<1>3. ASSUME NEW b \in Branch, NextBatch(b) PROVE Shape'
  BY <1>0, <1>3 DEF NextBatch, At, Step, Shape, TypeOK
<1>4. ASSUME NEW b \in Branch, NEW k \in Keys, Note(b, k) PROVE Shape'
  BY <1>0, <1>4 DEF Note, AsRecord, At, Shape, TypeOK
<1>5. ASSUME NEW b \in Branch, Answered(b) PROVE Shape'
  BY <1>0, <1>5 DEF Answered, At, Step, Shape, TypeOK
<1>6. ASSUME NEW b \in Branch, Lost(b) PROVE Shape'
  BY <1>0, <1>6 DEF Lost, At, Step, Shape, TypeOK
<1>7. ASSUME NEW b \in Branch, NEW k \in Keys, Record(b, k) PROVE Shape'
  BY <1>0, <1>7 DEF Record, Receipted, Superseded, At, Shape, TypeOK
<1>8. ASSUME NEW b \in Branch, Recorded(b) PROVE Shape'
  BY <1>0, <1>8 DEF Recorded, At, Step, Shape, TypeOK
<1>9. ASSUME NEW b \in Branch, NEW k \in Keys, FileSource(b, k) PROVE Shape'
  BY <1>0, <1>9 DEF FileSource, At, Step, Shape, TypeOK
<1>10. CASE UNCHANGED branches /\ phase' # "submit" /\ phase # "submit"
  BY <1>0, <1>10 DEF branches, Shape
<1>11. CASE EndRound
  BY <1>0, <1>11 DEF EndRound, branches, Shape
<1>12. CASE UNCHANGED <<branches, phase>>
  BY <1>0, <1>12 DEF branches, Shape
<1>13. CASE Die
  BY <1>13 DEF Die, Forget, Nothing, Shape
<1>14. CASE Decide \/ Register \/ Sync \/ SyncRefused \/ Acknowledge \/ Barrier
            \/ Reconcile \/ Complete \/ Resume \/ \E k \in Keys : Fold(k)
  <2>1. UNCHANGED branches /\ phase' # "submit" /\ phase # "submit"
    BY <1>14 DEF Decide, Register, Sync, SyncRefused, Acknowledge, Barrier, Reconcile, Complete,
       Resume, Fold, Receipted, Superseded, Proceed
  <2> QED BY <1>10, <2>1
<1>15. Index \/ UNCHANGED vars => UNCHANGED <<branches, phase>>
  BY DEF Index, vars
<1> QED
  BY <1>1, <1>2, <1>3, <1>4, <1>5, <1>6, <1>7, <1>8, <1>9, <1>11, <1>12, <1>13,
     <1>14, <1>15
  DEF Next, Lead, Submission

(* Who assigns paths. *)
LEMMA PathMoves ==
  ASSUME [Next]_vars
  PROVE  \/ pathOf' = pathOf
         \/ \E b \in Branch, k \in Keys : AssignPath(b, k)
         \/ Die \/ Resume
BY DEF Next, Lead, Submission, Round, NextBatch, Note, AsRecord, Answered, Lost, Record, Receipted, Superseded, Recorded,
   FileSource, EndRound, Decide, Register, Sync, SyncRefused, Acknowledge, Fold, Receipted, Superseded, Barrier,
   Reconcile, Complete, Index, Proceed, memory, vars

(* What the loop of assign_path finds. *)
LEMMA AssignFacts ==
  ASSUME IInv, NEW b \in Branch, NEW k \in Keys, AssignPath(b, k)
  PROVE  \E path \in Paths :
           /\ Free(k, path)
           /\ pathOf' = IF Path(k) # NoPath THEN pathOf
                        ELSE [pathOf EXCEPT ![SourceOf[k]] = path]
<1>1. PICK n \in 1..(Cardinality(Sources) + 1) :
        /\ Free(k, <<NameOf[k], n>>)
        /\ pathOf' = IF Path(k) # NoPath THEN pathOf
                     ELSE [pathOf EXCEPT ![SourceOf[k]] = <<NameOf[k], n>>]
  BY DEF AssignPath
<1>2. n \in Nat \ {0}
  BY BoundTyped, Zenon
<1>3. <<NameOf[k], n>> \in Paths
  BY <1>2, PathTyped DEF Paths, IInv
<1> QED BY <1>1, <1>3

(* A path a source has is kept while the process lives. *)
LEMMA PathsKept ==
  ASSUME IInv, [Next]_vars, phase' # "down", phase # "down"
  PROVE  \A k \in Keys : Path(k) # NoPath => Path(k)' = Path(k)
<1>1. CASE pathOf' = pathOf
  BY <1>1 DEF Path
<1>2. ASSUME NEW b \in Branch, NEW k \in Keys, AssignPath(b, k)
      PROVE  \A l \in Keys : Path(l) # NoPath => Path(l)' = Path(l)
  <2>1. PICK path \in Paths : pathOf' = IF Path(k) # NoPath THEN pathOf
                                ELSE [pathOf EXCEPT ![SourceOf[k]] = path]
    BY <1>2, AssignFacts
  <2>2. \A l \in Keys : SourceOf[l] \in Sources
    BY PathTyped DEF IInv
  <2> QED BY <2>1, <2>2 DEF Path, IInv, TypeOK
<1>3. ~Die /\ ~Resume
  BY DEF Die, Resume
<1> QED BY <1>1, <1>2, <1>3, PathMoves

(* No path gets a second owner. *)
LEMMA DistinctStep ==
  ASSUME IInv, [Next]_vars
  PROVE  Distinct'
<1>1. CASE pathOf' = pathOf
  BY <1>1 DEF IInv, Distinct
<1>2. ASSUME NEW b \in Branch, NEW k \in Keys, AssignPath(b, k) PROVE Distinct'
  <2>1. PICK path \in Paths :
          /\ Free(k, path)
          /\ pathOf' = IF Path(k) # NoPath THEN pathOf
                       ELSE [pathOf EXCEPT ![SourceOf[k]] = path]
    BY <1>2, AssignFacts
  <2>2. SourceOf[k] \in Sources
    BY PathTyped DEF IInv
  <2> QED BY <2>1, <2>2 DEF Free, Distinct, IInv, TypeOK
<1>3. CASE Die
  BY <1>3 DEF Die, Forget, Distinct
<1>4. CASE Resume
  <2> SUFFICES ASSUME NEW s \in Sources, NEW t \in Sources,
                      RestoredPath(s) # NoPath, RestoredPath(s) = RestoredPath(t)
               PROVE  s = t
    BY <1>4 DEF Resume, Distinct
  <2>1. PICK r \in requests : SourceOf[r[1]] = s /\ RestoredPath(s) = r[2]
    BY DEF RestoredPath
  <2>2. PICK q \in requests : SourceOf[q[1]] = t /\ RestoredPath(t) = q[2]
    BY DEF RestoredPath
  <2> QED BY <2>1, <2>2 DEF IInv, Rows
<1> QED BY <1>1, <1>2, <1>3, <1>4, PathMoves

(* Documents past the loop of assign_path have a path. *)
LEMMA AssignedStep ==
  ASSUME IInv, [Next]_vars
  PROVE  Assigned'
<1>0. TypeOK /\ Shape /\ Assigned
  BY DEF IInv
<1>1. CASE Round
  BY <1>1 DEF Round, Assigned
<1>2. ASSUME NEW b \in Branch, NEW k \in Keys, AssignPath(b, k) PROVE Assigned'
  <2>1. PICK path \in Paths :
          pathOf' = IF Path(k) # NoPath THEN pathOf
                    ELSE [pathOf EXCEPT ![SourceOf[k]] = path]
    BY <1>2, AssignFacts
  <2>2. SourceOf[k] \in Sources /\ path # NoPath
    BY PathTyped, PathIsNoNoPath, <1>0
  <2>3. Path(k)' # NoPath
    BY <1>0, <2>1, <2>2 DEF Path, TypeOK
  <2>4. \A l \in Keys : Path(l) # NoPath => Path(l)' # NoPath
    <3>1. phase # "down" /\ phase' # "down"
      BY <1>2 DEF AssignPath, At
    <3> QED BY <3>1, PathsKept
  <2>5. given' = given /\ work[b] = "assign" /\ k \in todo[b]
    BY <1>2 DEF AssignPath, At
  <2>6. \/ todo[b] = {k} /\ work' = [work EXCEPT ![b] = "batch"]
        \/ todo' = [todo EXCEPT ![b] = @ \ {k}] /\ work' = work
    BY <1>2 DEF AssignPath, Step
  <2>7. \A d \in Branch : d # b => work'[d] = work[d] /\ todo'[d] = todo[d]
    BY <1>0, <1>2 DEF AssignPath, Step, TypeOK
  <2> SUFFICES ASSUME NEW d \in Branch, NEW l \in given[d],
                      work'[d] # "assign" \/ l \notin todo'[d]
               PROVE  Path(l)' # NoPath
    BY <2>5 DEF Assigned
  <2>8. l \in Keys
    BY <1>0 DEF TypeOK
  <2>9. CASE d # b
    BY <1>0, <2>4, <2>7, <2>8, <2>9 DEF Assigned
  <2>10. CASE d = b
    BY <1>0, <2>3, <2>4, <2>5, <2>6, <2>8, <2>10 DEF Assigned, TypeOK
  <2> QED BY <2>9, <2>10
<1>3. ASSUME NEW b \in Branch, NextBatch(b) PROVE Assigned'
  BY <1>0, <1>3 DEF NextBatch, At, Step, Assigned, Path, TypeOK, memory
<1>4. ASSUME NEW b \in Branch, NEW k \in Keys, Note(b, k) PROVE Assigned'
  BY <1>0, <1>4 DEF Note, AsRecord, At, Assigned, Path, memory
<1>5. ASSUME NEW b \in Branch, Answered(b) PROVE Assigned'
  BY <1>0, <1>5 DEF Answered, At, Step, Assigned, Path, TypeOK
<1>6. ASSUME NEW b \in Branch, Lost(b) PROVE Assigned'
  BY <1>0, <1>6 DEF Lost, At, Step, Assigned, Path, TypeOK, memory
<1>7. ASSUME NEW b \in Branch, NEW k \in Keys, Record(b, k) PROVE Assigned'
  BY <1>0, <1>7 DEF Record, Receipted, Superseded, At, Assigned, Path
<1>8. ASSUME NEW b \in Branch, Recorded(b) PROVE Assigned'
  BY <1>0, <1>8 DEF Recorded, At, Step, Assigned, Path, TypeOK, memory
<1>9. ASSUME NEW b \in Branch, NEW k \in Keys, FileSource(b, k) PROVE Assigned'
  BY <1>0, <1>9 DEF FileSource, At, Step, Assigned, Path, TypeOK, memory
<1>10. CASE phase # "submit" /\ given' = given
  BY <1>0, <1>10 DEF Shape, Assigned
<1>11. CASE UNCHANGED <<branches, pathOf>>
  BY <1>0, <1>11 DEF branches, Assigned, Path
<1>12. CASE Die
  BY <1>12 DEF Die, Forget, Nothing, Assigned
<1>13. CASE Decide \/ Register \/ Sync \/ SyncRefused \/ Acknowledge \/ Barrier
            \/ Reconcile \/ Complete \/ Resume \/ \E k \in Keys : Fold(k)
  <2>1. phase # "submit" /\ given' = given
    BY <1>13 DEF Decide, Register, Sync, SyncRefused, Acknowledge, Barrier, Reconcile, Complete,
       Resume, Fold, Receipted, Superseded, Proceed, branches
  <2> QED BY <1>10, <2>1
<1>14. Index \/ EndRound \/ UNCHANGED vars => UNCHANGED <<branches, pathOf>>
  BY DEF Index, EndRound, memory, vars
<1> QED
  BY <1>1, <1>2, <1>3, <1>4, <1>5, <1>6, <1>7, <1>8, <1>9, <1>11, <1>12,
     <1>13, <1>14
  DEF Next, Lead, Submission

-----------------------------------------------------------------------------
(* Who writes request rows. *)
LEMMA RowMoves ==
  ASSUME [Next]_vars
  PROVE  requests' = requests \/ \E b \in Branch, k \in Keys : Note(b, k)
BY DEF Next, Lead, Submission, Round, AssignPath, NextBatch, Answered, Lost, Record, Receipted, Superseded, Recorded,
   FileSource, EndRound, Decide, Register, Sync, SyncRefused, Acknowledge, Fold, Receipted, Superseded, Barrier,
   Reconcile, Complete, Index, Die, Resume, Proceed, disk, vars

(* A document that is noted has a path of its source alone. *)
LEMMA NoteFacts ==
  ASSUME IInv, NEW b \in Branch, NEW k \in Keys, Note(b, k)
  PROVE  /\ Path(k) # NoPath /\ phase = "submit" /\ phase' = "submit"
         /\ requests' = requests \cup {<<k, Path(k)>>}
         /\ pathOf' = pathOf
<1>1. k \in given[b] /\ work[b] = "note"
  BY DEF Note, AsRecord, At, IInv, Shape
<1> QED BY <1>1 DEF Note, AsRecord, At, IInv, Assigned, memory

(* The request rows go on agreeing with each other and with the process. *)
LEMMA RowsStep ==
  ASSUME IInv, [Next]_vars
  PROVE  Rows'
<1>0. TypeOK /\ Rows /\ Distinct
  BY DEF IInv
<1>1. \A r \in requests : r[1] \in Keys /\ r[2] \in Paths /\ r[2] # NoPath
  BY <1>0, PathIsNoNoPath DEF TypeOK
<1>2. ASSUME NEW b \in Branch, NEW k \in Keys, Note(b, k) PROVE Rows'
  <2>1. /\ Path(k) # NoPath /\ phase = "submit" /\ phase' = "submit"
        /\ requests' = requests \cup {<<k, Path(k)>>}
        /\ pathOf' = pathOf
    BY <1>2, NoteFacts
  <2>2. \A r \in requests' : Path(r[1]) = r[2] /\ r[1] \in Keys /\ r[2] # NoPath
    BY <1>0, <1>1, <2>1 DEF Rows
  <2>3. \A l \in Keys : SourceOf[l] \in Sources
    BY PathTyped, <1>0
  <2>4. ASSUME NEW r \in requests', NEW q \in requests'
        PROVE  SourceOf[r[1]] = SourceOf[q[1]] <=> r[2] = q[2]
    BY <1>0, <2>2, <2>3 DEF Path, Distinct
  <2>5. \A r \in requests' : Path(r[1])' = r[2]
    BY <2>1, <2>2 DEF Path
  <2> QED BY <2>4, <2>5 DEF Rows
<1>3. CASE requests' = requests /\ phase' = "down"
  BY <1>0, <1>3 DEF Rows
<1>4. CASE requests' = requests /\ phase' # "down" /\ phase # "down"
  <2>1. \A k \in Keys : Path(k) # NoPath => Path(k)' = Path(k)
    BY <1>4, PathsKept
  <2>2. \A r \in requests : Path(r[1])' = r[2]
    BY <1>0, <1>1, <1>4, <2>1 DEF Rows
  <2> QED BY <1>0, <1>4, <2>2 DEF Rows
<1>5. CASE Resume
  <2>1. requests' = requests /\ pathOf' = [s \in Sources |-> RestoredPath(s)]
    BY <1>5 DEF Resume, disk
  <2>2. ASSUME NEW r \in requests PROVE Path(r[1])' = r[2]
    <3>1. PICK q \in requests : SourceOf[q[1]] = SourceOf[r[1]] /\ RestoredPath(SourceOf[r[1]]) = q[2]
      BY DEF RestoredPath
    <3>2. SourceOf[r[1]] \in Sources
      BY <1>0, <1>1, PathTyped
    <3>3. q[2] = r[2]
      BY <1>0, <3>1 DEF Rows
    <3> QED BY <2>1, <3>1, <3>2, <3>3 DEF Path
  <2> QED BY <1>0, <2>1, <2>2 DEF Rows
<1>6. phase = "down" /\ phase' # "down" => Resume
  BY DEF Next, Lead, Submission, Round, AssignPath, NextBatch, Note, AsRecord, Answered, Lost, Record, Receipted, Superseded,
     Recorded, FileSource, EndRound, Decide, Register, Sync, SyncRefused, Acknowledge, Fold, Receipted, Superseded,
     Barrier, Reconcile, Complete, Index, Die, At, Proceed, vars
<1> QED BY <1>2, <1>3, <1>4, <1>5, <1>6, RowMoves

(* The rows of a batch are complete when it is sent. *)
LEMMA AnnouncedStep ==
  ASSUME IInv, [Next]_vars
  PROVE  Announced'
<1>0. TypeOK /\ Shape /\ Announced
  BY DEF IInv
<1>1. CASE Round
  BY <1>1 DEF Round, Announced
<1>2. ASSUME NEW b \in Branch, NEW k \in Keys, AssignPath(b, k) PROVE Announced'
  <2>1. \A l \in Keys : Path(l) # NoPath => Path(l)' = Path(l)
    <3>1. phase # "down" /\ phase' # "down"
      BY <1>2 DEF AssignPath, At
    <3> QED BY <3>1, PathsKept
  <2>2. /\ UNCHANGED <<batch, chunk, requests>>
        /\ \A d \in Branch : work'[d] = "note" => work[d] = "note"
    BY <1>0, <1>2 DEF AssignPath, At, Step, TypeOK, disk
  <2>3. \A d \in Branch : \A l \in batch[d] : work[d] = "note" => l \in Keys /\ Path(l) # NoPath
    BY <1>0 DEF IInv, Assigned, Shape, TypeOK
  <2> QED BY <1>0, <2>1, <2>2, <2>3 DEF Announced
<1>3. ASSUME NEW b \in Branch, NextBatch(b) PROVE Announced'
  BY <1>0, <1>3 DEF NextBatch, At, Step, Announced, Path, TypeOK, memory, disk
<1>4. ASSUME NEW b \in Branch, NEW k \in Keys, Note(b, k) PROVE Announced'
  BY <1>0, <1>4 DEF Note, AsRecord, At, Announced, Path, TypeOK, memory
<1>5. ASSUME NEW b \in Branch, Answered(b) PROVE Announced'
  BY <1>0, <1>5 DEF Answered, At, Step, Announced, Path, TypeOK, disk
<1>6. ASSUME NEW b \in Branch, Lost(b) PROVE Announced'
  BY <1>0, <1>6 DEF Lost, At, Step, Announced, Path, TypeOK, memory, disk
<1>7. ASSUME NEW b \in Branch, NEW k \in Keys, Record(b, k) PROVE Announced'
  BY <1>0, <1>7 DEF Record, Receipted, Superseded, At, Announced, Path, TypeOK
<1>8. ASSUME NEW b \in Branch, Recorded(b) PROVE Announced'
  BY <1>0, <1>8 DEF Recorded, At, Step, Announced, Path, TypeOK, memory, disk
<1>9. ASSUME NEW b \in Branch, NEW k \in Keys, FileSource(b, k) PROVE Announced'
  BY <1>0, <1>9 DEF FileSource, At, Step, Announced, Path, TypeOK, memory
<1>10. CASE phase # "submit" /\ work' = work
  BY <1>0, <1>10 DEF Shape, Announced
<1>11. CASE UNCHANGED <<branches, pathOf, requests>>
  BY <1>0, <1>11 DEF branches, Announced, Path
<1>12. CASE Die
  BY <1>12 DEF Die, Forget, Announced
<1>13. CASE Decide \/ Register \/ Sync \/ SyncRefused \/ Acknowledge \/ Barrier
            \/ Reconcile \/ Complete \/ Resume \/ \E k \in Keys : Fold(k)
  <2>1. phase # "submit" /\ work' = work
    BY <1>13 DEF Decide, Register, Sync, SyncRefused, Acknowledge, Barrier, Reconcile, Complete,
       Resume, Fold, Receipted, Superseded, Proceed, branches
  <2> QED BY <1>10, <2>1
<1>14. Index \/ EndRound \/ UNCHANGED vars => UNCHANGED <<branches, pathOf, requests>>
  BY DEF Index, EndRound, memory, disk, vars
<1> QED
  BY <1>1, <1>2, <1>3, <1>4, <1>5, <1>6, <1>7, <1>8, <1>9, <1>11, <1>12,
     <1>13, <1>14
  DEF Next, Lead, Submission

-----------------------------------------------------------------------------
(* A submission keeps the region's books: every receipt it writes names the
   path of a row, and what it overwrites is replaced. *)
LEMMA SubmitRegion ==
  ASSUME IInv, NEW b \in Branch, At(b, "note"), Logged(b),
         NEW docs \in SUBSET batch[b], Submit(docs), requests' = requests
  PROVE  RegionInv'
<1>1. docs \subseteq Keys /\ \A k \in docs : Path(k) \in Paths /\ <<k, Path(k)>> \in requests
  BY SentBatch
<1>2. /\ status \in [Keys -> STATUS] /\ landed \in [Keys -> Paths \cup {NoPath}]
      /\ held \in SUBSET (Paths \X Keys) /\ RegionInv
  BY DEF IInv, TypeOK
<1>3. /\ status' = [k \in Keys |-> IF k \notin Fresh(docs) THEN status[k]
                                   ELSE IF k \in Refused THEN "rejected" ELSE "accepted"]
      /\ landed' = [k \in Keys |-> IF k \in Fresh(docs) \ Refused THEN Path(k) ELSE landed[k]]
      /\ held' = {h \in held : \A k \in Stored(docs) : h[1] # Place(k)}
                 \cup {<<Place(k), k>> : k \in Stored(docs)}
  BY DEF Submit
<1>4. \A k \in Fresh(docs) : k \in docs /\ status[k] = "none" /\ landed[k] = NoPath
  BY <1>1, <1>2 DEF Fresh, RegionInv
<1>5. \A k \in Fresh(docs) : Path(k) # NoPath
  BY <1>1, <1>4, PathIsNoNoPath
<1>6. \A k \in Stored(docs) : k \in Keys /\ landed'[k] = Place(k)
  BY <1>1, <1>3 DEF Fresh, Stored, Place
<1>7. \A k \in Keys : landed'[k] # NoPath <=> status'[k] \in {"accepted", "indexed"}
  BY <1>2, <1>3, <1>4, <1>5 DEF RegionInv
<1>8. ASSUME NEW k \in Keys, landed'[k] # NoPath
      PROVE  <<k, landed'[k]>> \in requests' /\ \E h \in held' : h[1] = landed'[k]
  <2>1. CASE k \in Fresh(docs) \ Refused
    <3>1. k \in Stored(docs) /\ landed'[k] = Path(k) /\ <<k, Path(k)>> \in requests
      BY <1>1, <1>3, <1>4, <2>1 DEF Stored
    <3>2. <<Place(k), k>> \in held' /\ landed'[k] = Place(k)
      BY <1>3, <1>6, <3>1
    <3>3. <<Place(k), k>>[1] = landed'[k]
      BY <3>2
    <3>4. <<k, landed'[k]>> \in requests'
      BY <3>1
    <3> QED BY <3>2, <3>3, <3>4
  <2>2. CASE k \notin Fresh(docs) \ Refused
    <3>1. landed'[k] = landed[k]
      BY <1>3, <2>2
    <3>2. PICK h \in held : h[1] = landed[k]
      BY <1>2, <1>8, <3>1 DEF RegionInv
    <3>3. CASE \A l \in Stored(docs) : h[1] # Place(l)
      BY <1>2, <1>3, <1>8, <3>1, <3>2, <3>3 DEF RegionInv
    <3>4. CASE \E l \in Stored(docs) : h[1] = Place(l)
      <4>1. PICK l \in Stored(docs) : h[1] = Place(l)
        BY <3>4
      <4>2. <<Place(l), l>> \in held'
        BY <1>3, <4>1
      <4> QED BY <1>2, <1>8, <3>1, <3>2, <4>1, <4>2 DEF RegionInv
    <3> QED BY <3>3, <3>4
  <2> QED BY <2>1, <2>2
<1>9. ASSUME NEW h \in held' PROVE landed'[h[2]] = h[1]
  <2>1. CASE h \in held
    <3>1. h[2] \in Keys /\ h[1] \in Paths /\ landed[h[2]] = h[1]
      BY <1>2, <2>1 DEF RegionInv
    <3>2. h[2] \notin Fresh(docs)
      BY <1>4, <3>1, PathIsNoNoPath
    <3> QED BY <1>3, <3>1, <3>2
  <2>2. CASE h \in {<<Place(k), k>> : k \in Stored(docs)}
    BY <1>6, <2>2
  <2> QED BY <1>3, <2>1, <2>2
<1>10. \A k \in Keys : IF k \in Refused THEN status'[k] \in {"none", "rejected"}
                                        ELSE status'[k] # "rejected"
  BY <1>2, <1>3 DEF RegionInv
<1> QED BY <1>7, <1>8, <1>9, <1>10 DEF RegionInv

(* Who writes the region's books. *)
LEMMA RegionMoves ==
  ASSUME [Next]_vars
  PROVE  \/ UNCHANGED <<status, landed, held>>
         \/ \E b \in Branch : /\ At(b, "note") /\ Logged(b)
                              /\ \E docs \in SUBSET batch[b] : Submit(docs)
                              /\ UNCHANGED <<requests, decided, phase>>
         \/ Acknowledge
<1>1. ASSUME NEW b \in Branch, Answered(b) \/ Lost(b)
      PROVE  /\ At(b, "note") /\ Logged(b) /\ UNCHANGED <<requests, decided, phase>>
             /\ \E docs \in SUBSET batch[b] : Submit(docs)
  BY <1>1 DEF Answered, Lost, disk
<1>2. CASE \E b \in Branch : Answered(b) \/ Lost(b)
  BY <1>1, <1>2
<1>3. CASE ~ \E b \in Branch : Answered(b) \/ Lost(b)
  BY <1>3 DEF Next, Lead, Submission, Round, AssignPath, NextBatch, Note, AsRecord, Record,
     Receipted, Superseded, Recorded, FileSource, EndRound, Decide, Register, Sync,
     SyncRefused, Fold, Barrier, Reconcile, Complete, Index, Die, Resume, Proceed,
     region, disk, vars
<1> QED BY <1>2, <1>3

(* The region's books stay consistent with the request rows. *)
LEMMA RegionStep ==
  ASSUME IInv, [Next]_vars
  PROVE  RegionInv'
<1>0. TypeOK /\ RegionInv
  BY DEF IInv
<1>1. requests \subseteq requests'
  BY RowMoves DEF Note, AsRecord
<1>2. CASE UNCHANGED <<status, landed, held>>
  BY <1>0, <1>1, <1>2 DEF RegionInv
<1>3. CASE \E b \in Branch : /\ At(b, "note") /\ Logged(b)
                             /\ \E docs \in SUBSET batch[b] : Submit(docs)
                             /\ UNCHANGED <<requests, decided, phase>>
  BY <1>3, SubmitRegion
<1>4. CASE Acknowledge
  <2>1. /\ status' = [k \in Keys |-> IF k \in Promoted THEN "indexed" ELSE status[k]]
        /\ UNCHANGED <<landed, held, requests>>
    BY <1>4 DEF Acknowledge, Proceed
  <2>2. \A k \in Promoted : k \in Keys /\ status[k] = "accepted"
    BY DEF Promoted, Pending
  <2> QED BY <1>0, <2>1, <2>2 DEF RegionInv, TypeOK
<1> QED BY <1>2, <1>3, <1>4, RegionMoves

(* A promoted document stays in the index. *)
LEMMA IndexStep ==
  ASSUME IInv, [Next]_vars
  PROVE  IndexInv'
<1>0. TypeOK /\ RegionInv /\ IndexInv
  BY DEF IInv
<1>1. CASE \E b \in Branch : Answered(b) \/ Lost(b)
  <2>1. PICK b \in Branch : Answered(b) \/ Lost(b)
    BY <1>1
  <2>2. phase = "submit" /\ phase' = "submit" /\ ~decided /\ decided' = decided
    BY <1>0, <2>1 DEF Answered, Lost, At, IndexInv, disk
  <2>3. \A k \in Keys : status[k] # "indexed"
    BY <1>0, <2>2 DEF IndexInv
  <2>4. \A k \in Keys : status'[k] # "indexed"
    <3>1. PICK docs \in SUBSET batch[b] : Submit(docs)
      BY <2>1 DEF Answered, Lost
    <3> QED BY <2>3, <3>1 DEF Submit
  <2> QED BY <2>2, <2>4 DEF IndexInv
<1>2. CASE Index
  <2>1. \A k \in Keys : status[k] = "indexed" => landed[k] \in {h[1] : h \in held}
    <3> SUFFICES ASSUME NEW k \in Keys, status[k] = "indexed"
                 PROVE  \E h \in held : h[1] = landed[k]
      OBVIOUS
    <3> QED BY <1>0 DEF RegionInv
  <2> QED BY <1>0, <1>2, <2>1 DEF Index, IndexInv, disk
<1>3. CASE Acknowledge
  <2>1. /\ status' = [k \in Keys |-> IF k \in Promoted THEN "indexed" ELSE status[k]]
        /\ UNCHANGED <<landed, indexed, decided>> /\ phase = "ack" /\ phase' = "fold"
    BY <1>3 DEF Acknowledge, Proceed
  <2>2. \A k \in Promoted : landed[k] \in indexed
    BY DEF Promoted
  <2> QED BY <1>0, <2>1, <2>2 DEF IndexInv
<1>4. CASE UNCHANGED <<status, landed, indexed, decided, phase>>
  BY <1>0, <1>4 DEF IndexInv
<1>5. CASE Round \/ EndRound
  BY <1>0, <1>5 DEF Round, EndRound, IndexInv, disk, region
<1>6. CASE Decide
  BY <1>0, <1>6 DEF Decide, IndexInv, region
<1>7. CASE Register \/ Sync \/ Barrier \/ Reconcile \/ Complete \/ \E k \in Keys : Fold(k)
  BY <1>0, <1>7 DEF Register, Sync, Barrier, Reconcile, Complete, Fold, Receipted, Superseded, Proceed, IndexInv
<1>8. CASE SyncRefused \/ Die \/ Resume
  BY <1>0, <1>8 DEF SyncRefused, Die, Resume, IndexInv, disk, region
<1>9. ASSUME NEW b \in Branch, NEW k \in Keys,
             AssignPath(b, k) \/ Note(b, k) \/ Record(b, k) \/ FileSource(b, k)
      PROVE  UNCHANGED <<status, landed, indexed, decided, phase>>
  BY <1>9 DEF AssignPath, Note, AsRecord, Record, Receipted, Superseded, FileSource, disk, region
<1>10. ASSUME NEW b \in Branch, NextBatch(b) \/ Recorded(b)
       PROVE  UNCHANGED <<status, landed, indexed, decided, phase>>
  BY <1>10 DEF NextBatch, Recorded, disk, region
<1>11. CASE UNCHANGED vars
  BY <1>4, <1>11 DEF vars, disk, region
<1> QED
  BY <1>1, <1>2, <1>3, <1>4, <1>5, <1>6, <1>7, <1>8, <1>9, <1>10, <1>11
  DEF Next, Lead, Submission

(* The ledger stays the fold of the receipt file, and the barrier is crossed
   only when nothing is left to promote or to read back. *)
LEMMA BarrierStep ==
  ASSUME IInv, [Next]_vars
  PROVE  BarrierInv'
<1>0. TypeOK /\ BarrierInv
  BY DEF IInv
<1>1. CASE \E b \in Branch, k \in Keys : Record(b, k)
  BY <1>0, <1>1 DEF Record, Receipted, Superseded, At, BarrierInv
<1>2. CASE \E k \in Keys : Fold(k)
  BY <1>0, <1>2 DEF Fold, Receipted, Superseded, Proceed, BarrierInv
<1>3. CASE Die
  BY <1>3 DEF Die, BarrierInv
<1>4. CASE Resume
  BY <1>4 DEF Resume, RestoredReceipts, BarrierInv, disk
<1>5. CASE Acknowledge
  <2>1. /\ status' = [k \in Keys |-> IF k \in Promoted THEN "indexed" ELSE status[k]]
        /\ waiting' = (Pending # Promoted)
        /\ UNCHANGED <<ledger, receipts>> /\ phase = "ack" /\ phase' = "fold"
    BY <1>5 DEF Acknowledge, Proceed
  <2>2. ~waiting' => \A k \in Keys : status'[k] # "accepted"
    BY <1>0, <2>1 DEF Pending
  <2> QED BY <1>0, <2>1, <2>2 DEF BarrierInv
<1>6. CASE Barrier
  <2>1. /\ UNCHANGED <<ledger, receipts, status, waiting>>
        /\ phase = "fold" /\ Stale = {}
        /\ phase' = "crossed" => ~waiting
        /\ phase' # "fold" /\ phase' # "down"
    BY <1>6 DEF Barrier, Proceed
  <2>2. Stale' = Stale
    BY <2>1 DEF Stale
  <2> QED BY <1>0, <2>1, <2>2 DEF BarrierInv
<1>7. CASE UNCHANGED <<ledger, receipts, waiting, status, phase>>
  <2>1. Stale' = Stale
    BY <1>7 DEF Stale
  <2> QED BY <1>0, <1>7, <2>1 DEF BarrierInv
<1>8. CASE UNCHANGED <<ledger, receipts>> /\ phase # "down" /\ phase' \notin {"fold", "crossed"}
  BY <1>0, <1>8 DEF BarrierInv
<1>9. CASE Round \/ EndRound \/ Decide \/ Register \/ Sync \/ SyncRefused \/ Reconcile \/ Complete
  <2>1. UNCHANGED <<ledger, receipts>> /\ phase # "down" /\ phase' \notin {"fold", "crossed"}
    BY <1>9 DEF Round, EndRound, Decide, Register, Sync, SyncRefused, Reconcile, Complete, Proceed,
       memory, disk
  <2> QED BY <1>8, <2>1
<1>10. ASSUME NEW b \in Branch, NEW k \in Keys,
              AssignPath(b, k) \/ Note(b, k) \/ FileSource(b, k)
       PROVE  BarrierInv'
  <2>1. UNCHANGED <<ledger, receipts, waiting, status, phase>>
    BY <1>10 DEF AssignPath, Note, AsRecord, FileSource, memory, disk, region
  <2> QED BY <1>7, <2>1
<1>11. ASSUME NEW b \in Branch, NextBatch(b) \/ Recorded(b) PROVE BarrierInv'
  <2>1. UNCHANGED <<ledger, receipts, waiting, status, phase>>
    BY <1>11 DEF NextBatch, Recorded, memory, disk, region
  <2> QED BY <1>7, <2>1
<1>12. ASSUME NEW b \in Branch, Answered(b) \/ Lost(b) PROVE BarrierInv'
  <2>1. UNCHANGED <<ledger, receipts>> /\ phase = "submit" /\ phase' = "submit"
    BY <1>12 DEF Answered, Lost, At, memory, disk
  <2> QED BY <1>8, <2>1
<1>13. Index \/ UNCHANGED vars => UNCHANGED <<ledger, receipts, waiting, status, phase>>
  BY DEF Index, memory, disk, region, vars
<1> QED
  BY <1>1, <1>2, <1>3, <1>4, <1>5, <1>6, <1>7, <1>9, <1>10, <1>11, <1>12, <1>13
  DEF Next, Lead, Submission

-----------------------------------------------------------------------------
(* The first state satisfies the invariant. *)
LEMMA InitIInv == Init => IInv
<1> SUFFICES ASSUME Init PROVE IInv
  OBVIOUS
<1> USE IngestAssumption DEF Init, Blank, Unsent, Nothing
<1>1. TypeOK
  <2>1. /\ given \in [Branch -> SUBSET Keys] /\ todo \in [Branch -> SUBSET Keys]
        /\ chunk \in [Branch -> SUBSET Keys] /\ batch \in [Branch -> SUBSET Keys]
    OBVIOUS
  <2>2. landing \in BOOLEAN /\ waiting \in BOOLEAN /\ decided \in BOOLEAN
        /\ registered \in BOOLEAN /\ queued \in BOOLEAN /\ unknown \in BOOLEAN
    BY Zenon
  <2> QED BY <2>1, <2>2 DEF TypeOK, STATUS
<1>2. Shape /\ Assigned /\ Announced
  BY DEF Shape, Assigned, Announced
<1>3. Distinct /\ Rows
  BY DEF Distinct, Rows
<1>4. RegionInv
  BY DEF RegionInv
<1>5. IndexInv /\ BarrierInv
  BY DEF IndexInv, BarrierInv
<1> QED BY <1>1, <1>2, <1>3, <1>4, <1>5 DEF IInv

(* The invariant is inductive. *)
LEMMA Inductive == Spec => []IInv
<1>1. Init => IInv
  BY InitIInv
<1>2. IInv /\ [Next]_vars => IInv'
  <2> SUFFICES ASSUME IInv, [Next]_vars PROVE IInv'
    OBVIOUS
  <2>1. TypeOK' /\ Shape' /\ Assigned' /\ Distinct'
    BY TypeStep, ShapeStep, AssignedStep, DistinctStep
  <2>2. Rows' /\ Announced' /\ RegionInv'
    BY RowsStep, AnnouncedStep, RegionStep
  <2>3. IndexInv' /\ BarrierInv'
    BY IndexStep, BarrierStep
  <2> QED BY <2>1, <2>2, <2>3 DEF IInv
<1> QED BY <1>1, <1>2, PTL DEF Spec

-----------------------------------------------------------------------------
(* Type correctness, for any constants. *)
THEOREM IngestTypeOK == Spec => []TypeOK
<1>1. IInv => TypeOK
  BY DEF IInv
<1> QED BY <1>1, Inductive, PTL

(* The region has one path of each source, whatever died or was lost. *)
THEOREM IngestOnePathPerSource == Spec => []OnePathPerSource
<1>1. IInv => OnePathPerSource
  <2> SUFFICES ASSUME IInv, NEW k \in Keys, NEW l \in Keys,
                      landed[k] # NoPath, landed[l] # NoPath
               PROVE  landed[k] = landed[l] <=> SourceOf[k] = SourceOf[l]
    BY DEF OnePathPerSource
  <2>1. <<k, landed[k]>> \in requests /\ <<l, landed[l]>> \in requests
    BY DEF IInv, RegionInv
  <2>2. SourceOf[<<k, landed[k]>>[1]] = SourceOf[<<l, landed[l]>>[1]]
        <=> <<k, landed[k]>>[2] = <<l, landed[l]>>[2]
    BY <2>1 DEF IInv, Rows
  <2> QED BY <2>2
<1> QED BY <1>1, Inductive, PTL

(* What the region stores was announced first. *)
THEOREM IngestRequestOnFile == Spec => []RequestOnFile
<1>1. IInv => RequestOnFile
  <2> SUFFICES ASSUME IInv, NEW h \in held PROVE <<h[2], h[1]>> \in requests
    BY DEF RequestOnFile
  <2>1. h[2] \in Keys /\ h[1] \in Paths
    BY DEF IInv, TypeOK
  <2>2. landed[h[2]] = h[1] /\ landed[h[2]] # NoPath
    BY <2>1, PathIsNoNoPath DEF IInv, RegionInv
  <2>3. <<h[2], landed[h[2]]>> \in requests
    BY <2>1, <2>2 DEF IInv, RegionInv
  <2> QED BY <2>2, <2>3
<1> QED BY <1>1, Inductive, PTL

(* A crossed barrier means an indexed document for every receipt on file. *)
THEOREM IngestCrossedMeansIndexed == Spec => []CrossedMeansIndexed
<1>1. IInv => CrossedMeansIndexed
  <2> SUFFICES ASSUME IInv, phase = "crossed", NEW k \in Keys,
                      receipts[k] # "none", status[k] \notin {"none", "rejected"}
               PROVE  receipts[k] = "indexed" /\ landed[k] \in indexed
    BY DEF CrossedMeansIndexed
  <2>1. ledger = receipts /\ Stale = {} /\ status[k] # "accepted"
    BY DEF IInv, BarrierInv
  <2>2. status[k] = ledger[k]
    BY <2>1 DEF Stale
  <2>3. status[k] = "indexed"
    BY <2>1 DEF IInv, TypeOK, STATUS
  <2> QED BY <2>1, <2>2, <2>3 DEF IInv, IndexInv
<1> QED BY <1>1, Inductive, PTL
=============================================================================
