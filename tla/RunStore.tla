------------------------------ MODULE RunStore ------------------------------
(***************************************************************************)
(* How a run is kept on disk: the append-only files of raw/                *)
(* (tracing/events.py) and the checkpoint state.json (lifecycle.py), over  *)
(* clean exits, kills, power cuts and resumes of the processes that write  *)
(* them one after the other.                                               *)
(*                                                                         *)
(* A file is a number of complete lines, the last of them perhaps still in *)
(* the process or in the page cache, and perhaps half a line after them.   *)
(* A checkpoint is the number of records of each file it depends on.  What *)
(* fsync returned for stays; a rename is atomic.                           *)
(***************************************************************************)
EXTENDS Integers, Sequences

CONSTANTS
  Files,        \* raw/*.jsonl
  Events,       \* events.jsonl among them
  Standing,     \* those every Tracer opens: events, spans, errors
  Buffered,     \* those of them opened with flush=False
  MaxRecords,   \* bound: records appended to a file
  MaxCrashes,   \* bound: kills and power cuts
  PowerCuts     \* TRUE when the machine may lose power

ASSUME StoreAssumption ==
  /\ Events \in Standing /\ Standing \in SUBSET Files
  /\ Buffered \in SUBSET Standing
  /\ MaxRecords \in Nat /\ MaxCrashes \in Nat /\ PowerCuts \in BOOLEAN

VARIABLES
  pc,          \* what the process is doing
  opened,      \* the files it holds a writer for
  pending,     \* lines in a writer's buffer
  cached,      \* complete lines the operating system has
  durable,     \* those that are on disk
  torn,        \* the files that end in a fragment
  log,         \* the sequence numbers of the events, in file order
  sequence,    \* EventLog._sequence
  todo,        \* files the barrier, close() or the repair still has to visit
  repairs,     \* Tracer.repairs: cuts this process has not emitted yet
  data,        \* RunState.data as of the last save()
  state,       \* state.json
  stateOnDisk, \* state.json after a power cut
  inherited,   \* history: the most lines a process ever found at its start
  garbled,     \* history: a record was appended to a fragment
  crashes

lineVars  == <<pending, cached, durable, torn>>
eventVars == <<log, sequence>>
stateVars == <<data, state, stateOnDisk>>
vars == <<pc, opened, lineVars, eventVars, todo, repairs, stateVars,
          inherited, garbled, crashes>>

None == [f \in Files |-> 0]

Init ==
  /\ pc = "running" /\ opened = Standing
  /\ pending = None /\ cached = None /\ durable = None /\ torn = {}
  /\ log = <<>> /\ sequence = 0 /\ todo = {} /\ repairs = 0
  /\ data = None /\ state = None /\ stateOnDisk = None
  /\ inherited = None /\ garbled = FALSE /\ crashes = 0

Lines(f) == cached[f] + pending[f]

(* JsonlWriter.append: to the buffer, and with flush on to the system.  The
   writer of a side file is made by the first append. *)
Write(f) ==
  /\ IF f \in Buffered
     THEN pending' = [pending EXCEPT ![f] = @ + 1] /\ UNCHANGED cached
     ELSE /\ cached' = [cached EXCEPT ![f] = Lines(f) + 1]
          /\ pending' = [pending EXCEPT ![f] = 0]
  /\ opened' = opened \cup {f}
  /\ garbled' = (garbled \/ f \in torn)
  /\ UNCHANGED <<durable, torn>>

(* EventLog.emit: numbering and writing are one step. *)
Emit ==
  /\ sequence' = sequence + 1
  /\ log' = Append(log, sequence + 1)
  /\ Write(Events)

AppendRecord(f) ==
  /\ pc = "running"
  /\ Lines(f) < MaxRecords
  /\ IF f = Events THEN Emit ELSE Write(f) /\ UNCHANGED eventVars
  /\ UNCHANGED <<pc, todo, repairs, stateVars, inherited, crashes>>

(* The buffer of a writer was full. *)
Spill(f) ==
  /\ pc = "running" /\ pending[f] > 0
  /\ cached' = [cached EXCEPT ![f] = Lines(f)]
  /\ pending' = [pending EXCEPT ![f] = 0]
  /\ UNCHANGED <<pc, opened, durable, torn, eventVars, todo, repairs, stateVars,
                 inherited, garbled, crashes>>

-----------------------------------------------------------------------------
(* RunState.save(): the barrier, then durable_write_text. *)

(* Tracer.sync() and Tracer.close() visit the writers this process made. *)
ToSync == opened

Save ==
  /\ pc = "running"
  /\ data' = [f \in Files |-> Lines(f)]
  /\ todo' = ToSync
  /\ pc' = "syncing"
  /\ UNCHANGED <<opened, lineVars, eventVars, repairs, state, stateOnDisk,
                 inherited, garbled, crashes>>

(* Session.close(), when the command returns or raises. *)
Close ==
  /\ pc = "running"
  /\ todo' = ToSync
  /\ pc' = "closing"
  /\ UNCHANGED <<opened, lineVars, eventVars, repairs, stateVars,
                 inherited, garbled, crashes>>

(* JsonlWriter.sync, JsonlWriter.close. *)
Sync(f) ==
  /\ pc \in {"syncing", "closing"} /\ f \in todo
  /\ cached' = [cached EXCEPT ![f] = Lines(f)]
  /\ durable' = [durable EXCEPT ![f] = Lines(f)]
  /\ pending' = [pending EXCEPT ![f] = 0]
  /\ todo' = todo \ {f}
  /\ UNCHANGED <<pc, opened, torn, eventVars, repairs, stateVars,
                 inherited, garbled, crashes>>

(* The temporary file is written and fsynced: nothing of it shows. *)
WriteTemp ==
  /\ pc = "syncing" /\ todo = {}
  /\ pc' = "replacing"
  /\ UNCHANGED <<opened, lineVars, eventVars, todo, repairs, stateVars,
                 inherited, garbled, crashes>>

Replace ==
  /\ pc = "replacing"
  /\ state' = data
  /\ pc' = "settling"
  /\ UNCHANGED <<opened, lineVars, eventVars, todo, repairs, data, stateOnDisk,
                 inherited, garbled, crashes>>

(* _fsync_directory. *)
Settle ==
  /\ pc = "settling"
  /\ stateOnDisk' = state
  /\ pc' = "running"
  /\ UNCHANGED <<opened, lineVars, eventVars, todo, repairs, data, state,
                 inherited, garbled, crashes>>

-----------------------------------------------------------------------------
(* The process ends: its buffers and its memory go. *)
End ==
  /\ pc' = "down" /\ opened' = {}
  /\ pending' = None /\ sequence' = 0 /\ todo' = {} /\ repairs' = 0
  /\ data' = None
  /\ UNCHANGED <<inherited, garbled>>

Exit ==
  /\ pc = "closing" /\ todo = {}
  /\ End
  /\ UNCHANGED <<cached, durable, torn, log, state, stateOnDisk, crashes>>

(* The files a record may be half in when the process is killed. *)
Appending ==
  CASE pc = "running"   -> Files
    [] pc = "recording" -> {Events}
    [] OTHER            -> {f \in todo : pending[f] > 0}

Kill ==
  /\ crashes < MaxCrashes /\ pc # "down"
  /\ End
  /\ \E t \in SUBSET Appending : torn' = torn \cup t
  /\ log' = SubSeq(log, 1, cached[Events])
  /\ crashes' = crashes + 1
  /\ UNCHANGED <<cached, durable, state, stateOnDisk>>

(* Of each file any number of lines past the durable ones is lost; of a
   rename the directory was not synced after, both outcomes. *)
PowerCut ==
  /\ crashes < MaxCrashes /\ PowerCuts
  /\ End
  /\ cached' \in [Files -> 0..MaxRecords + MaxCrashes]
  /\ \A f \in Files : durable[f] <= cached'[f] /\ cached'[f] <= cached[f]
  /\ durable' = cached'
  /\ torn' \in SUBSET (torn \cup Appending \cup {f \in Files : durable[f] < cached[f]})
  /\ log' = SubSeq(log, 1, cached'[Events])
  /\ state' \in {state, stateOnDisk} /\ stateOnDisk' = state'
  /\ crashes' = crashes + 1

-----------------------------------------------------------------------------
(* resume_session: Tracer(resume=True), then the repairs are emitted. *)

Resume ==
  /\ pc = "down"
  /\ todo' = Files
  /\ pc' = "repairing"
  /\ UNCHANGED <<opened, lineVars, eventVars, repairs, stateVars,
                 inherited, garbled, crashes>>

(* Mutant of Kept: the cut goes back one newline too far. *)
MutantKept(f) == cached[f] - 1

(* repair_torn_tail: the lines the cut leaves. *)
Kept(f) == cached[f]

(* Mutant of IsTorn: only events.jsonl is looked at. *)
MutantIsTorn(f) == f = Events /\ f \in torn

IsTorn(f) == f \in torn

Repair(f) ==
  /\ pc = "repairing" /\ f \in todo
  /\ todo' = todo \ {f}
  /\ IF IsTorn(f)
     THEN /\ torn' = torn \ {f}
          /\ cached' = [cached EXCEPT ![f] = Kept(f)]
          /\ durable' = [durable EXCEPT ![f] = Kept(f)]
          /\ log' = IF f = Events THEN SubSeq(log, 1, Kept(f)) ELSE log
          /\ repairs' = repairs + 1
     ELSE UNCHANGED <<torn, cached, durable, log, repairs>>
  /\ UNCHANGED <<pc, opened, pending, sequence, stateVars, inherited, garbled, crashes>>

(* Mutant of Highest: numbering goes on from the checkpoint. *)
MutantHighest == state[Events]

(* EventLog.resume: the highest sequence number of the stream. *)
Highest ==
  LET numbers == {0} \cup {log[i] : i \in DOMAIN log}
  IN  CHOOSE n \in numbers : \A m \in numbers : m <= n

OpenLog ==
  /\ pc = "repairing" /\ todo = {}
  /\ sequence' = Highest
  /\ opened' = Standing
  /\ inherited' = [f \in Files |-> IF inherited[f] < cached[f] THEN cached[f] ELSE inherited[f]]
  /\ data' = state
  /\ pc' = "recording"
  /\ UNCHANGED <<lineVars, log, todo, repairs, state, stateOnDisk, garbled, crashes>>

(* run.repaired for each cut, then run.resumed. *)
EmitResumed ==
  /\ pc = "recording"
  /\ Lines(Events) < MaxRecords + MaxCrashes
  /\ Emit
  /\ IF repairs > 0
     THEN repairs' = repairs - 1 /\ UNCHANGED pc
     ELSE pc' = "running" /\ UNCHANGED repairs
  /\ UNCHANGED <<todo, stateVars, inherited, crashes>>

Next ==
  \/ \E f \in Files : AppendRecord(f) \/ Spill(f) \/ Sync(f) \/ Repair(f)
  \/ Save \/ Close \/ WriteTemp \/ Replace \/ Settle
  \/ Exit \/ Kill \/ PowerCut
  \/ Resume \/ OpenLog \/ EmitResumed

Spec == Init /\ [][Next]_vars

-----------------------------------------------------------------------------
(* Every variable keeps its type. *)
TypeOK ==
  /\ pc \in {"running", "syncing", "closing", "replacing", "settling", "down",
             "repairing", "recording"}
  /\ opened \in SUBSET Files
  /\ pending \in [Files -> Nat] /\ cached \in [Files -> Nat]
  /\ durable \in [Files -> Nat] /\ torn \in SUBSET Files
  /\ log \in Seq(Nat) /\ sequence \in Nat
  /\ todo \in SUBSET Files /\ repairs \in Nat
  /\ data \in [Files -> Nat] /\ state \in [Files -> Nat]
  /\ stateOnDisk \in [Files -> Nat] /\ inherited \in [Files -> Nat]
  /\ garbled \in BOOLEAN /\ crashes \in 0..MaxCrashes

(* A checkpoint never names work whose evidence is still in a page cache
   (docs/durability.md, Tracer.sync). *)
CheckpointBacked ==
  \A f \in Files : state[f] <= durable[f] /\ stateOnDisk[f] <= durable[f]

(* So it is for events, spans and errors, at every kill and power cut. *)
TraceBacked ==
  \A f \in Standing : state[f] <= durable[f] /\ stateOnDisk[f] <= durable[f]

(* What a checkpoint names of any file, and is not on disk, was in the file
   before the process started that saved it: the barrier covers all that a
   process writes itself. *)
OwnWorkBacked ==
  \A f \in Files : state[f] <= durable[f] \/ state[f] <= inherited[f]

(* The events of a run are numbered 1, 2, 3... in file order, whatever the
   crashes: verify reports anything else as a discontinuity. *)
NumbersUnbroken == \A i \in DOMAIN log : log[i] = i

(* No record is ever appended to half a record: every reader would refuse
   the file, and the run could not resume. *)
NothingBehindAFragment == ~garbled

(* No cut, crash or repair takes a line fsync returned for. *)
DurableStays ==
  [][\A f \in Files : durable[f] <= durable'[f] /\ durable'[f] <= cached'[f]]_vars
=============================================================================
