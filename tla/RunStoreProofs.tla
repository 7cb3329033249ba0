---------------------------- MODULE RunStoreProofs ----------------------------
(***************************************************************************)
(* The run's files and its checkpoint, for any files, any number of        *)
(* records and any number of crashes.                                      *)
(***************************************************************************)
EXTENDS RunStore, SequenceTheorems, TLAPS

(* A process has its standing writers. *)
Up == {"running", "syncing", "closing", "replacing", "settling", "recording"}

(* What is on disk is in the cache, and only a writer has a buffer. *)
Ordered ==
  /\ \A f \in Files : durable[f] <= cached[f]
  /\ \A f \in Files \ opened : pending[f] = 0
  /\ pc = "closing" => \A f \in Files \ todo : pending[f] = 0

(* A file this process has no writer for is as it found it. *)
Held ==
  IF pc \in Up
  THEN Standing \subseteq opened /\ \A f \in Files \ opened : cached[f] <= inherited[f]
  ELSE opened = {}

(* n records of f are on disk, or were there before this process. *)
Covered(n, f) == n <= durable[f] \/ (f \notin Standing /\ n <= inherited[f])

(* So it is for both outcomes of the last rename. *)
Saved == \A f \in Files : Covered(state[f], f) /\ Covered(stateOnDisk[f], f)

(* The checkpoint being saved becomes so as the barrier goes on. *)
Saving ==
  /\ pc = "syncing" => \A f \in Files : /\ data[f] <= Lines(f)
                                        /\ f \notin todo => Covered(data[f], f)
  /\ pc = "replacing" => \A f \in Files : Covered(data[f], f)

(* The stream is as long as the file, and its last number is the log's. *)
Numbered ==
  /\ NumbersUnbroken
  /\ Len(log) = Lines(Events)
  /\ pc \in Up => sequence = Len(log)

(* Fragments are gone before anything is appended. *)
Whole ==
  /\ garbled = FALSE
  /\ pc = "repairing" => torn \subseteq todo
  /\ pc \in Up => torn = {}

(* The part of the types that the numbering rests on. *)
EventsTyped == log \in Seq(Nat) /\ sequence \in Nat

IInv == TypeOK /\ Ordered /\ Held /\ Saved /\ Saving /\ Numbered /\ Whole

(* The numbers an unbroken stream goes up to. *)
LEMMA HighestIsLast ==
  ASSUME TypeOK, NumbersUnbroken
  PROVE  Highest = Len(log)
<1> DEFINE numbers == {0} \cup {log[i] : i \in DOMAIN log}
<1>1. log \in Seq(Nat) /\ DOMAIN log = 1..Len(log) /\ Len(log) \in Nat
  BY DEF TypeOK
<1>2. \A m \in numbers : m \in Nat /\ m <= Len(log)
  BY <1>1 DEF NumbersUnbroken
<1>3. Len(log) \in numbers
  <2>1. CASE Len(log) = 0
    BY <2>1
  <2>2. CASE Len(log) > 0
    <3>1. Len(log) \in DOMAIN log
      BY <1>1, <2>2
    <3>2. log[Len(log)] = Len(log)
      BY <3>1 DEF NumbersUnbroken
    <3> QED BY <3>1, <3>2
  <2> QED BY <1>1, <2>1, <2>2
<1> HIDE DEF numbers
<1>4. \A n \in numbers : (\A m \in numbers : m <= n) => n = Len(log)
  <2> SUFFICES ASSUME NEW n \in numbers, \A m \in numbers : m <= n
               PROVE  n = Len(log)
    OBVIOUS
  <2>1. n \in Nat /\ Len(log) \in Nat /\ n <= Len(log) /\ Len(log) <= n
    BY <1>1, <1>2, <1>3
  <2> QED BY <2>1
<1>5. (CHOOSE n \in numbers : \A m \in numbers : m <= n) = Len(log)
  BY <1>2, <1>3, <1>4
<1> QED BY <1>5 DEF Highest, numbers

(* A file that lost the lines past n keeps the first n numbers. *)
LEMMA CutLog ==
  ASSUME TypeOK, NumbersUnbroken, NEW n \in Nat, n <= Len(log)
  PROVE  /\ SubSeq(log, 1, n) \in Seq(Nat)
         /\ Len(SubSeq(log, 1, n)) = n
         /\ \A i \in DOMAIN SubSeq(log, 1, n) : SubSeq(log, 1, n)[i] = i
<1>1. log \in Seq(Nat) /\ Len(log) \in Nat /\ DOMAIN log = 1..Len(log)
  BY DEF TypeOK
<1>2. /\ SubSeq(log, 1, n) \in Seq(Nat)
      /\ Len(SubSeq(log, 1, n)) = n
      /\ \A i \in 1..n : SubSeq(log, 1, n)[i] = log[i]
  BY <1>1
<1>3. DOMAIN SubSeq(log, 1, n) = 1..n
  BY <1>2
<1> QED BY <1>1, <1>2, <1>3 DEF NumbersUnbroken

(* One more event continues the numbers. *)
LEMMA EmitLog ==
  ASSUME TypeOK, NumbersUnbroken, sequence = Len(log), Emit
  PROVE  /\ log' \in Seq(Nat)
         /\ Len(log') = Len(log) + 1
         /\ NumbersUnbroken'
         /\ sequence' = Len(log')
<1>1. log \in Seq(Nat) /\ Len(log) \in Nat /\ DOMAIN log = 1..Len(log)
  BY DEF TypeOK
<1>2. log' = Append(log, Len(log) + 1) /\ sequence' = Len(log) + 1
  BY DEF Emit
<1>3. /\ log' \in Seq(Nat) /\ Len(log') = Len(log) + 1
      /\ DOMAIN log' = 1..(Len(log) + 1)
      /\ \A i \in 1..Len(log) : log'[i] = log[i]
      /\ log'[Len(log) + 1] = Len(log) + 1
  BY <1>1, <1>2
<1> QED BY <1>1, <1>2, <1>3 DEF NumbersUnbroken

(* A file has a number of lines. *)
LEMMA LinesNat ==
  ASSUME TypeOK
  PROVE  \A g \in Files : cached[g] \in Nat /\ pending[g] \in Nat /\ Lines(g) \in Nat
BY DEF TypeOK, Lines

(* An append adds a line to its file and takes none from any. *)
LEMMA WriteLines ==
  ASSUME TypeOK, NEW f \in Files, Write(f)
  PROVE  /\ cached' \in [Files -> Nat] /\ pending' \in [Files -> Nat]
         /\ durable' = durable /\ torn' = torn /\ opened' = opened \cup {f}
         /\ \A g \in Files : /\ Lines(g) \in Nat /\ cached[g] <= cached'[g]
                             /\ Lines(g)' = IF g = f THEN Lines(g) + 1 ELSE Lines(g)
                             /\ g # f => cached'[g] = cached[g] /\ pending'[g] = pending[g]
<1>1. \A g \in Files : cached[g] \in Nat /\ pending[g] \in Nat /\ Lines(g) \in Nat
  BY LinesNat
<1>2. cached \in [Files -> Nat] /\ pending \in [Files -> Nat]
  BY DEF TypeOK
<1>3. CASE f \in Buffered
  <2>1. pending' = [pending EXCEPT ![f] = pending[f] + 1] /\ cached' = cached
    BY <1>3 DEF Write
  <2>2. durable' = durable /\ torn' = torn /\ opened' = opened \cup {f}
    BY DEF Write
  <2> QED BY <1>1, <1>2, <2>1, <2>2 DEF Lines
<1>4. CASE f \notin Buffered
  <2>1. /\ cached' = [cached EXCEPT ![f] = Lines(f) + 1]
        /\ pending' = [pending EXCEPT ![f] = 0]
    BY <1>4 DEF Write
  <2>2. durable' = durable /\ torn' = torn /\ opened' = opened \cup {f}
    BY DEF Write
  <2> QED BY <1>1, <1>2, <2>1, <2>2 DEF Lines
<1> QED BY <1>3, <1>4

(* A flush moves the lines of a buffer, and changes no file's length. *)
LEMMA FlushLines ==
  ASSUME TypeOK, NEW f \in Files,
         cached' = [cached EXCEPT ![f] = Lines(f)],
         pending' = [pending EXCEPT ![f] = 0]
  PROVE  /\ cached' \in [Files -> Nat] /\ pending' \in [Files -> Nat]
         /\ cached'[f] = Lines(f) /\ pending'[f] = 0
         /\ \A g \in Files : /\ Lines(g) \in Nat /\ cached[g] <= cached'[g]
                             /\ Lines(g)' = Lines(g)
                             /\ g # f => cached'[g] = cached[g] /\ pending'[g] = pending[g]
<1>1. \A g \in Files : cached[g] \in Nat /\ pending[g] \in Nat /\ Lines(g) \in Nat
  BY LinesNat
<1>2. cached \in [Files -> Nat] /\ pending \in [Files -> Nat]
  BY DEF TypeOK
<1> QED BY <1>1, <1>2 DEF Lines

(* A repair leaves every file the lines it has. *)
LEMMA RepairLines ==
  ASSUME TypeOK, NumbersUnbroken, Len(log) = Lines(Events), pc = "repairing" => pending[Events] = 0,
         NEW f \in Files, Repair(f)
  PROVE  /\ cached' = cached /\ log' = log
         /\ durable' = durable \/ durable' = [durable EXCEPT ![f] = cached[f]]
<1> USE StoreAssumption
<1>1. cached \in [Files -> Nat] /\ log \in Seq(Nat) /\ Len(log) \in Nat
  BY DEF TypeOK
<1>2. [cached EXCEPT ![f] = cached[f]] = cached
  BY <1>1
<1>3. SubSeq(log, 1, Len(log)) = log
  BY <1>1
<1>4. f = Events => cached[f] = Len(log)
  BY <1>1 DEF Repair, Lines
<1>5. CASE f \in torn
  <2>1. cached' = cached /\ durable' = [durable EXCEPT ![f] = cached[f]]
    BY <1>2, <1>5 DEF Repair, IsTorn, Kept
  <2>2. log' = IF f = Events THEN SubSeq(log, 1, cached[f]) ELSE log
    BY <1>5 DEF Repair, IsTorn, Kept
  <2> QED BY <1>3, <1>4, <2>1, <2>2
<1>6. CASE f \notin torn
  BY <1>6 DEF Repair, IsTorn
<1> QED BY <1>5, <1>6

(* A step keeps the numbers unbroken. *)
LEMMA NumberedStep ==
  ASSUME IInv, [Next]_vars
  PROVE  (Numbered /\ EventsTyped)'
<1> USE StoreAssumption
<1>1. ASSUME NEW f \in Files, AppendRecord(f) PROVE (Numbered /\ EventsTyped)'
  <2>1. pc \in Up /\ sequence = Len(log) /\ Len(log) = Lines(Events) /\ NumbersUnbroken /\ TypeOK
    BY <1>1 DEF AppendRecord, IInv, Numbered, Up
  <2>2. Write(f) /\ pc' = pc
    BY <1>1 DEF AppendRecord, Emit
  <2>3. Lines(Events)' = IF Events = f THEN Lines(Events) + 1 ELSE Lines(Events)
    BY <2>1, <2>2, WriteLines
  <2>4. CASE f = Events
    <3>1. Emit
      BY <1>1, <2>4 DEF AppendRecord
    <3>2. log' \in Seq(Nat) /\ Len(log') = Len(log) + 1 /\ NumbersUnbroken' /\ sequence' = Len(log')
      BY <2>1, <3>1, EmitLog
    <3> QED BY <2>1, <2>3, <2>4, <3>2 DEF Numbered, EventsTyped
  <2>5. CASE f # Events
    <3>1. log' = log /\ sequence' = sequence
      BY <1>1, <2>5 DEF AppendRecord, eventVars
    <3> QED BY <2>1, <2>2, <2>3, <2>5, <3>1 DEF Numbered, NumbersUnbroken, EventsTyped, TypeOK
  <2> QED BY <2>4, <2>5
<1>2. ASSUME NEW f \in Files, Spill(f) PROVE (Numbered /\ EventsTyped)'
  <2>1. TypeOK /\ Numbered
    BY DEF IInv
  <2>2. /\ cached' = [cached EXCEPT ![f] = Lines(f)] /\ pending' = [pending EXCEPT ![f] = 0]
        /\ log' = log /\ sequence' = sequence /\ pc' = pc
    BY <1>2 DEF Spill, eventVars
  <2>3. Lines(Events)' = Lines(Events)
    BY <2>1, <2>2, FlushLines
  <2> QED BY <2>1, <2>2, <2>3 DEF Numbered, NumbersUnbroken, EventsTyped, TypeOK
<1>3. ASSUME NEW f \in Files, Sync(f) PROVE (Numbered /\ EventsTyped)'
  <2>1. TypeOK /\ Numbered
    BY DEF IInv
  <2>2. /\ cached' = [cached EXCEPT ![f] = Lines(f)] /\ pending' = [pending EXCEPT ![f] = 0]
        /\ log' = log /\ sequence' = sequence /\ pc' = pc
    BY <1>3 DEF Sync, eventVars
  <2>3. Lines(Events)' = Lines(Events)
    BY <2>1, <2>2, FlushLines
  <2> QED BY <2>1, <2>2, <2>3 DEF Numbered, NumbersUnbroken, EventsTyped, TypeOK
<1>4. ASSUME NEW f \in Files, Repair(f) PROVE (Numbered /\ EventsTyped)'
  <2>1. TypeOK /\ Numbered /\ NumbersUnbroken /\ Len(log) = Lines(Events)
    BY DEF IInv, Numbered
  <2>2. pending[Events] = 0
    BY <1>4 DEF Repair, IInv, Ordered, Held, Up
  <2>3. cached' = cached /\ log' = log
    BY <1>4, <2>1, <2>2, RepairLines
  <2>4. pending' = pending /\ sequence' = sequence /\ pc' = pc
    BY <1>4 DEF Repair
  <2> QED BY <2>1, <2>3, <2>4 DEF Numbered, NumbersUnbroken, EventsTyped, TypeOK, Lines
<1>5. CASE Save
  BY <1>5 DEF Save, Lines, ToSync, IInv, TypeOK, EventsTyped, Numbered, NumbersUnbroken, Up, lineVars, eventVars, stateVars
<1>6. CASE Close
  BY <1>6 DEF Close, ToSync, IInv, TypeOK, EventsTyped, Numbered, NumbersUnbroken, Up, Lines, lineVars, eventVars, stateVars
<1>7. CASE WriteTemp
  BY <1>7 DEF WriteTemp, IInv, TypeOK, EventsTyped, Numbered, NumbersUnbroken, Up, Lines, lineVars, eventVars, stateVars
<1>8. CASE Replace
  BY <1>8 DEF Replace, IInv, TypeOK, EventsTyped, Numbered, NumbersUnbroken, Up, Lines, lineVars, eventVars, stateVars
<1>9. CASE Settle
  BY <1>9 DEF Settle, IInv, TypeOK, EventsTyped, Numbered, NumbersUnbroken, Up, Lines, lineVars, eventVars, stateVars
<1>10. CASE Exit
  <2>1. pending[Events] = 0 /\ cached[Events] \in Nat
    BY <1>10 DEF Exit, IInv, Ordered, TypeOK
  <2>2. /\ log' = log /\ cached' = cached /\ sequence' = 0 /\ pc' = "down" /\ pending'[Events] = 0
    BY <1>10 DEF Exit, End, None
  <2>3. NumbersUnbroken /\ Len(log) = Lines(Events) /\ log \in Seq(Nat)
    BY DEF IInv, Numbered, TypeOK
  <2> QED BY <2>1, <2>2, <2>3 DEF Numbered, NumbersUnbroken, EventsTyped, Lines, Up
<1>11. CASE Kill
  <2>1. TypeOK /\ NumbersUnbroken /\ Len(log) = Lines(Events)
    BY DEF IInv, Numbered
  <2>2. /\ cached'[Events] \in Nat /\ cached'[Events] <= Len(log)
    BY <1>11, <2>1, LinesNat DEF Kill, Lines
  <2>3. /\ log' = SubSeq(log, 1, cached'[Events])
        /\ sequence' = 0 /\ pc' = "down" /\ pending'[Events] = 0
    BY <1>11 DEF Kill, End, None
  <2>4. /\ log' \in Seq(Nat) /\ Len(log') = cached'[Events]
        /\ \A i \in DOMAIN log' : log'[i] = i
    BY <2>1, <2>2, <2>3, CutLog
  <2> QED BY <2>2, <2>3, <2>4 DEF Numbered, NumbersUnbroken, EventsTyped, Lines, Up
<1>12. CASE PowerCut
  <2>1. TypeOK /\ NumbersUnbroken /\ Len(log) = Lines(Events)
    BY DEF IInv, Numbered
  <2>2. /\ cached'[Events] \in Nat /\ cached'[Events] <= Len(log)
    BY <1>12, <2>1, LinesNat DEF PowerCut, Lines
  <2>3. /\ log' = SubSeq(log, 1, cached'[Events])
        /\ sequence' = 0 /\ pc' = "down" /\ pending'[Events] = 0
    BY <1>12 DEF PowerCut, End, None
  <2>4. /\ log' \in Seq(Nat) /\ Len(log') = cached'[Events]
        /\ \A i \in DOMAIN log' : log'[i] = i
    BY <2>1, <2>2, <2>3, CutLog
  <2> QED BY <2>2, <2>3, <2>4 DEF Numbered, NumbersUnbroken, EventsTyped, Lines, Up
<1>13. CASE Resume
  BY <1>13 DEF Resume, IInv, TypeOK, EventsTyped, Numbered, NumbersUnbroken, Up, Lines, lineVars, eventVars, stateVars
<1>14. CASE OpenLog
  <2>0. log \in Seq(Nat)
    BY DEF IInv, TypeOK
  <2>1. TypeOK /\ Numbered /\ NumbersUnbroken /\ log \in Seq(Nat) /\ Len(log) \in Nat
    BY <2>0 DEF IInv, Numbered
  <2>2. sequence' = Len(log)
    BY <1>14, <2>1, HighestIsLast DEF OpenLog
  <2>3. log' = log /\ cached' = cached /\ pending' = pending
    BY <1>14 DEF OpenLog, lineVars
  <2> QED BY <2>1, <2>2, <2>3 DEF Numbered, NumbersUnbroken, EventsTyped, Lines
<1>15. CASE EmitResumed
  <2>1. pc \in Up /\ sequence = Len(log) /\ NumbersUnbroken /\ TypeOK
    BY <1>15 DEF EmitResumed, IInv, Numbered, Up
  <2>2. Emit /\ Write(Events)
    BY <1>15 DEF EmitResumed, Emit
  <2>3. Lines(Events)' = Lines(Events) + 1
    BY <2>1, <2>2, WriteLines
  <2>4. Len(log) = Lines(Events)
    BY DEF IInv, Numbered
  <2>5. log' \in Seq(Nat) /\ Len(log') = Len(log) + 1 /\ NumbersUnbroken' /\ sequence' = Len(log')
    BY <2>1, <2>2, EmitLog
  <2> QED BY <2>3, <2>4, <2>5 DEF Numbered, EventsTyped
<1>16. CASE UNCHANGED vars
  BY <1>16 DEF IInv, TypeOK, EventsTyped, Numbered, NumbersUnbroken, Up, Lines, vars, lineVars, eventVars, stateVars
<1> QED BY <1>1, <1>2, <1>3, <1>4, <1>5, <1>6, <1>7, <1>8, <1>9, <1>10, <1>11, <1>12, <1>13, <1>14, <1>15, <1>16 DEF Next

(* A step keeps the types. *)
LEMMA TypeStep ==
  ASSUME IInv, [Next]_vars
  PROVE  TypeOK'
<1> USE StoreAssumption
<1>1. ASSUME NEW f \in Files, AppendRecord(f) PROVE TypeOK'
  <2>1. TypeOK /\ log' \in Seq(Nat) /\ sequence' \in Nat
    BY NumberedStep DEF IInv, EventsTyped
  <2>2. Write(f)
    BY <1>1 DEF AppendRecord, Emit
  <2>3. /\ cached' \in [Files -> Nat] /\ pending' \in [Files -> Nat]
        /\ durable' = durable /\ torn' = torn /\ opened' = opened \cup {f}
    BY <2>1, <2>2, WriteLines
  <2>4. garbled' \in BOOLEAN
    BY <2>1, <2>2 DEF Write, TypeOK
  <2> QED BY <1>1, <2>1, <2>3, <2>4 DEF AppendRecord, TypeOK, stateVars
<1>2. ASSUME NEW f \in Files, Spill(f) PROVE TypeOK'
  <2>1. TypeOK /\ log' \in Seq(Nat) /\ sequence' \in Nat
    BY NumberedStep DEF IInv, EventsTyped
  <2>2. /\ cached' = [cached EXCEPT ![f] = Lines(f)] /\ pending' = [pending EXCEPT ![f] = 0]
    BY <1>2 DEF Spill
  <2>3. cached' \in [Files -> Nat] /\ pending' \in [Files -> Nat] /\ Lines(f) \in Nat
    BY <2>1, <2>2, FlushLines
  <2> QED BY <1>2, <2>1, <2>3 DEF Spill, TypeOK, stateVars
<1>3. ASSUME NEW f \in Files, Sync(f) PROVE TypeOK'
  <2>1. TypeOK /\ log' \in Seq(Nat) /\ sequence' \in Nat
    BY NumberedStep DEF IInv, EventsTyped
  <2>2. /\ cached' = [cached EXCEPT ![f] = Lines(f)] /\ pending' = [pending EXCEPT ![f] = 0]
    BY <1>3 DEF Sync
  <2>3. cached' \in [Files -> Nat] /\ pending' \in [Files -> Nat] /\ Lines(f) \in Nat
    BY <2>1, <2>2, FlushLines
  <2> QED BY <1>3, <2>1, <2>3 DEF Sync, TypeOK, stateVars
<1>4. ASSUME NEW f \in Files, Repair(f) PROVE TypeOK'
  <2>1. TypeOK /\ log' \in Seq(Nat) /\ sequence' \in Nat
    BY NumberedStep DEF IInv, EventsTyped
  <2>2. cached' = cached /\ (durable' = durable \/ durable' = [durable EXCEPT ![f] = cached[f]])
    <3>1. Numbered /\ (pc = "repairing" => pending[Events] = 0)
      BY DEF IInv, Ordered, Held, Up
    <3> QED BY <1>4, <2>1, <3>1, RepairLines DEF Numbered
  <2>3. durable' \in [Files -> Nat]
    BY <2>1, <2>2 DEF TypeOK
  <2>4. torn' \in SUBSET Files /\ repairs' \in Nat
    <3>1. torn' \in {torn, torn \ {f}} /\ repairs' \in {repairs, repairs + 1}
      BY <1>4 DEF Repair
    <3>2. torn \in SUBSET Files /\ repairs \in Nat
      BY <2>1 DEF TypeOK
    <3> QED BY <3>1, <3>2
  <2> QED BY <1>4, <2>1, <2>2, <2>3, <2>4 DEF Repair, TypeOK, stateVars
<1>5. CASE Save
  <2>1. TypeOK /\ log' \in Seq(Nat) /\ sequence' \in Nat
    BY NumberedStep DEF IInv, EventsTyped
  <2>2. data' \in [Files -> Nat]
    BY <1>5, <2>1, LinesNat DEF Save
  <2> QED BY <1>5, <2>1, <2>2 DEF Save, ToSync, TypeOK, lineVars
<1>6. CASE Close
  BY <1>6 DEF Close, ToSync, IInv, TypeOK, lineVars, eventVars, stateVars
<1>7. CASE WriteTemp
  BY <1>7 DEF WriteTemp, IInv, TypeOK, lineVars, eventVars, stateVars
<1>8. CASE Replace
  BY <1>8 DEF Replace, IInv, TypeOK, lineVars, eventVars, stateVars
<1>9. CASE Settle
  BY <1>9 DEF Settle, IInv, TypeOK, lineVars, eventVars, stateVars
<1>10. CASE Exit
  <2>1. TypeOK /\ log' \in Seq(Nat) /\ sequence' \in Nat
    BY NumberedStep DEF IInv, EventsTyped
  <2>2. pending' \in [Files -> Nat] /\ data' \in [Files -> Nat]
    BY <1>10 DEF Exit, End, None
  <2> QED BY <1>10, <2>1, <2>2 DEF Exit, End, TypeOK
<1>11. CASE Kill
  <2>1. TypeOK /\ log' \in Seq(Nat) /\ sequence' \in Nat
    BY NumberedStep DEF IInv, EventsTyped
  <2>2. pending' \in [Files -> Nat] /\ data' \in [Files -> Nat]
    BY <1>11 DEF Kill, End, None
  <2>3. torn' \in SUBSET Files
    BY <1>11, <2>1 DEF Kill, Appending, TypeOK
  <2>4. crashes' \in 0..MaxCrashes
    BY <1>11, <2>1 DEF Kill, TypeOK
  <2>5. /\ pc' = "down" /\ opened' = {} /\ todo' = {} /\ repairs' = 0
        /\ UNCHANGED <<cached, durable, state, stateOnDisk, inherited, garbled>>
    BY <1>11 DEF Kill, End
  <2> HIDE <1>11
  <2> QED BY <2>1, <2>2, <2>3, <2>4, <2>5 DEF TypeOK
<1>12. CASE PowerCut
  <2>1. TypeOK /\ log' \in Seq(Nat) /\ sequence' \in Nat
    BY NumberedStep DEF IInv, EventsTyped
  <2>2. pending' \in [Files -> Nat] /\ data' \in [Files -> Nat]
    BY <1>12 DEF PowerCut, End, None
  <2>3. torn' \in SUBSET Files
    BY <1>12, <2>1 DEF PowerCut, Appending, TypeOK
  <2>4. cached' \in [Files -> Nat] /\ durable' = cached'
    BY <1>12 DEF PowerCut
  <2>5. state' \in [Files -> Nat] /\ stateOnDisk' = state'
    BY <1>12, <2>1 DEF PowerCut, TypeOK
  <2>6. /\ pc' = "down" /\ opened' = {} /\ todo' = {} /\ repairs' = 0
        /\ inherited' = inherited /\ garbled' = garbled
    BY <1>12 DEF PowerCut, End
  <2>7. crashes' \in 0..MaxCrashes
    BY <1>12, <2>1 DEF PowerCut, TypeOK
  <2> QED BY <2>1, <2>2, <2>3, <2>4, <2>5, <2>6, <2>7 DEF TypeOK
<1>13. CASE Resume
  BY <1>13 DEF Resume, IInv, TypeOK, lineVars, eventVars, stateVars
<1>14. CASE OpenLog
  <2>1. TypeOK /\ log' \in Seq(Nat) /\ sequence' \in Nat
    BY NumberedStep DEF IInv, EventsTyped
  <2>2. inherited' \in [Files -> Nat]
    BY <1>14, <2>1 DEF OpenLog, TypeOK
  <2> QED BY <1>14, <2>1, <2>2 DEF OpenLog, TypeOK, lineVars
<1>15. CASE EmitResumed
  <2>1. TypeOK /\ log' \in Seq(Nat) /\ sequence' \in Nat
    BY NumberedStep DEF IInv, EventsTyped
  <2>2. Write(Events)
    BY <1>15 DEF EmitResumed, Emit
  <2>3. /\ cached' \in [Files -> Nat] /\ pending' \in [Files -> Nat]
        /\ durable' = durable /\ torn' = torn /\ opened' = opened \cup {Events}
    BY <2>1, <2>2, WriteLines
  <2>4. garbled' \in BOOLEAN /\ repairs' \in Nat
    BY <1>15, <2>1, <2>2 DEF EmitResumed, Write, TypeOK
  <2>5. pc' \in Up
    BY <1>15 DEF EmitResumed, Up
  <2> QED BY <1>15, <2>1, <2>3, <2>4, <2>5 DEF EmitResumed, TypeOK, stateVars, Up
<1>16. CASE UNCHANGED vars
  BY <1>16 DEF IInv, TypeOK, vars, lineVars, eventVars, stateVars
<1> QED BY <1>1, <1>2, <1>3, <1>4, <1>5, <1>6, <1>7, <1>8, <1>9, <1>10, <1>11, <1>12, <1>13, <1>14, <1>15, <1>16 DEF Next

(* A step keeps buffer, cache and disk in order. *)
LEMMA OrderedStep ==
  ASSUME IInv, [Next]_vars
  PROVE  Ordered'
<1> USE StoreAssumption
<1>1. ASSUME NEW f \in Files, AppendRecord(f) PROVE Ordered'
  <2>1. TypeOK /\ Ordered /\ Write(f) /\ pc' = "running"
    BY <1>1 DEF AppendRecord, Emit, IInv
  <2>2. /\ durable' = durable /\ opened' = opened \cup {f}
        /\ \A g \in Files : /\ cached[g] <= cached'[g] /\ cached'[g] \in Nat
                            /\ cached[g] \in Nat /\ durable[g] \in Nat
                            /\ g # f => pending'[g] = pending[g]
    BY <2>1, WriteLines DEF TypeOK
  <2> QED BY <2>1, <2>2 DEF Ordered
<1>2. ASSUME NEW f \in Files, Spill(f) PROVE Ordered'
  <2>1. /\ TypeOK /\ Ordered /\ pc' = "running" /\ durable' = durable /\ opened' = opened
        /\ cached' = [cached EXCEPT ![f] = Lines(f)] /\ pending' = [pending EXCEPT ![f] = 0]
    BY <1>2 DEF Spill, IInv
  <2>2. /\ pending'[f] = 0
        /\ \A g \in Files : /\ cached[g] <= cached'[g] /\ cached'[g] \in Nat
                            /\ cached[g] \in Nat /\ durable[g] \in Nat
                            /\ g # f => pending'[g] = pending[g]
    <3>1. \A g \in Files : cached[g] \in Nat /\ durable[g] \in Nat
      BY <2>1 DEF TypeOK
    <3>2. cached' \in [Files -> Nat] /\ pending'[f] = 0
          /\ \A g \in Files : /\ cached[g] <= cached'[g]
                              /\ g # f => pending'[g] = pending[g]
      BY <2>1, FlushLines
    <3> QED BY <3>1, <3>2
  <2> QED BY <2>1, <2>2 DEF Ordered
<1>3. ASSUME NEW f \in Files, Sync(f) PROVE Ordered'
  <2>1. /\ TypeOK /\ Ordered /\ pc' = pc /\ opened' = opened /\ todo' = todo \ {f}
        /\ cached' = [cached EXCEPT ![f] = Lines(f)] /\ pending' = [pending EXCEPT ![f] = 0]
        /\ durable' = [durable EXCEPT ![f] = Lines(f)]
    BY <1>3 DEF Sync, IInv
  <2>2. /\ pending'[f] = 0 /\ cached'[f] = Lines(f) /\ Lines(f) \in Nat
        /\ \A g \in Files : g # f => cached'[g] = cached[g] /\ pending'[g] = pending[g]
    BY <2>1, FlushLines
  <2>3. durable'[f] = Lines(f) /\ \A g \in Files : g # f => durable'[g] = durable[g]
    BY <2>1 DEF TypeOK
  <2> QED BY <2>1, <2>2, <2>3 DEF Ordered
<1>4. ASSUME NEW f \in Files, Repair(f) PROVE Ordered'
  <2>1. /\ TypeOK /\ Ordered /\ Numbered /\ (pc = "repairing" => pending[Events] = 0)
    BY DEF IInv, Ordered, Held, Up
  <2>2. cached' = cached /\ (durable' = durable \/ durable' = [durable EXCEPT ![f] = cached[f]])
    BY <1>4, <2>1, RepairLines DEF Numbered
  <2>3. \A g \in Files : durable'[g] <= cached[g]
    <3>1. \A g \in Files : durable[g] <= cached[g] /\ cached[g] <= cached[g]
      BY <2>1 DEF TypeOK, Ordered
    <3>2. \A g \in Files : durable'[g] = durable[g] \/ durable'[g] = cached[g]
      BY <2>1, <2>2 DEF TypeOK
    <3> QED BY <3>1, <3>2
  <2>4. pending' = pending /\ opened' = opened /\ pc' = "repairing"
    BY <1>4 DEF Repair
  <2> QED BY <2>1, <2>2, <2>3, <2>4 DEF Ordered
<1>5. CASE Save
  BY <1>5 DEF Save, Lines, ToSync, IInv, TypeOK, Ordered, lineVars, eventVars, stateVars
<1>6. CASE Close
  BY <1>6 DEF Close, ToSync, IInv, TypeOK, Ordered, lineVars, eventVars, stateVars
<1>7. CASE WriteTemp
  BY <1>7 DEF WriteTemp, IInv, TypeOK, Ordered, lineVars, eventVars, stateVars
<1>8. CASE Replace
  BY <1>8 DEF Replace, IInv, TypeOK, Ordered, lineVars, eventVars, stateVars
<1>9. CASE Settle
  BY <1>9 DEF Settle, IInv, TypeOK, Ordered, lineVars, eventVars, stateVars
<1>10. CASE Exit
  <2>1. /\ Ordered /\ durable' = durable /\ cached' = cached /\ pc' = "down"
        /\ \A f \in Files : pending'[f] = 0
    BY <1>10 DEF Exit, End, None, IInv
  <2> QED BY <2>1 DEF Ordered
<1>11. CASE Kill
  <2>1. /\ Ordered /\ durable' = durable /\ cached' = cached /\ pc' = "down"
        /\ \A f \in Files : pending'[f] = 0
    BY <1>11 DEF Kill, End, None, IInv
  <2> QED BY <2>1 DEF Ordered
<1>12. CASE PowerCut
  <2>1. \A f \in Files : durable'[f] = cached'[f] /\ cached'[f] <= cached'[f]
    <3>1. cached' \in [Files -> Nat] /\ durable' = cached'
      BY <1>12 DEF PowerCut
    <3> QED BY <3>1
  <2>2. pc' = "down" /\ \A f \in Files : pending'[f] = 0
    BY <1>12 DEF PowerCut, End, None
  <2> QED BY <2>1, <2>2 DEF Ordered
<1>13. CASE Resume
  BY <1>13 DEF Resume, IInv, TypeOK, Ordered, lineVars, eventVars, stateVars
<1>14. CASE OpenLog
  <2>1. /\ \A f \in Files : durable[f] <= cached[f] /\ pending[f] = 0
        /\ durable' = durable /\ cached' = cached /\ pending' = pending /\ pc' = "recording"
    BY <1>14 DEF OpenLog, IInv, Ordered, Held, Up, lineVars
  <2> QED BY <2>1 DEF Ordered
<1>15. CASE EmitResumed
  <2>1. TypeOK /\ Ordered /\ Write(Events) /\ pc' # "closing"
    BY <1>15 DEF EmitResumed, Emit, IInv
  <2>2. /\ durable' = durable /\ opened' = opened \cup {Events}
        /\ \A g \in Files : /\ cached[g] <= cached'[g] /\ cached'[g] \in Nat
                            /\ cached[g] \in Nat /\ durable[g] \in Nat
                            /\ g # Events => pending'[g] = pending[g]
    BY <2>1, WriteLines DEF TypeOK
  <2> QED BY <2>1, <2>2 DEF Ordered
<1>16. CASE UNCHANGED vars
  BY <1>16 DEF IInv, TypeOK, Ordered, vars, lineVars, eventVars, stateVars
<1> QED BY <1>1, <1>2, <1>3, <1>4, <1>5, <1>6, <1>7, <1>8, <1>9, <1>10, <1>11, <1>12, <1>13, <1>14, <1>15, <1>16 DEF Next

(* What is on disk stays there. *)
LEMMA DurableGrows ==
  ASSUME IInv, [Next]_vars
  PROVE  \A g \in Files : durable[g] <= durable'[g]
<1> DEFINE Grown == \A g \in Files : durable[g] <= durable'[g]
<1>0. durable' = durable => Grown
  BY DEF IInv, TypeOK
<1>1. ASSUME NEW f \in Files, AppendRecord(f) PROVE Grown
  BY <1>0, <1>1 DEF AppendRecord, Emit, Write, lineVars
<1>2. ASSUME NEW f \in Files, Spill(f) PROVE Grown
  BY <1>0, <1>2 DEF Spill, lineVars
<1>3. ASSUME NEW f \in Files, Sync(f) PROVE Grown
  <2>1. \A g \in Files : durable[g] \in Nat /\ durable[g] <= cached[g] /\ cached[g] <= Lines(g)
    <3>1. \A g \in Files : cached[g] \in Nat /\ pending[g] \in Nat /\ durable[g] \in Nat
      BY DEF IInv, TypeOK
    <3> QED BY <3>1 DEF IInv, Ordered, Lines
  <2>2. \A g \in Files : cached[g] \in Nat /\ Lines(g) \in Nat
    BY LinesNat DEF IInv
  <2>3. durable' = [durable EXCEPT ![f] = Lines(f)] \/ durable' = durable
    BY <1>3 DEF Sync
  <2>4. \A g \in Files : durable'[g] \in {durable[g], cached[g], Lines(g)}
    BY <2>3 DEF IInv, TypeOK
  <2> QED BY <2>1, <2>2, <2>4
<1>4. ASSUME NEW f \in Files, Repair(f) PROVE Grown
  <2>1. \A g \in Files : durable[g] \in Nat /\ durable[g] <= cached[g] /\ cached[g] <= Lines(g)
    <3>1. \A g \in Files : cached[g] \in Nat /\ pending[g] \in Nat /\ durable[g] \in Nat
      BY DEF IInv, TypeOK
    <3> QED BY <3>1 DEF IInv, Ordered, Lines
  <2>2. \A g \in Files : cached[g] \in Nat /\ Lines(g) \in Nat
    BY LinesNat DEF IInv
  <2>3. durable' = [durable EXCEPT ![f] = cached[f]] \/ durable' = durable
    BY <1>4 DEF Repair, Kept
  <2>4. \A g \in Files : durable'[g] \in {durable[g], cached[g], Lines(g)}
    BY <2>3 DEF IInv, TypeOK
  <2> QED BY <2>1, <2>2, <2>4
<1>5. CASE Save
  BY <1>0, <1>5 DEF Save, lineVars
<1>6. CASE Close
  BY <1>0, <1>6 DEF Close, lineVars
<1>7. CASE WriteTemp
  BY <1>0, <1>7 DEF WriteTemp, lineVars
<1>8. CASE Replace
  BY <1>0, <1>8 DEF Replace, lineVars
<1>9. CASE Settle
  BY <1>0, <1>9 DEF Settle, lineVars
<1>10. CASE Exit
  BY <1>0, <1>10 DEF Exit, lineVars
<1>11. CASE Kill
  BY <1>0, <1>11 DEF Kill, lineVars
<1>12. CASE PowerCut
  BY <1>12 DEF PowerCut
<1>13. CASE Resume
  BY <1>0, <1>13 DEF Resume, lineVars
<1>14. CASE OpenLog
  BY <1>0, <1>14 DEF OpenLog, lineVars
<1>15. CASE EmitResumed
  BY <1>0, <1>15 DEF EmitResumed, Emit, Write, lineVars
<1>16. CASE UNCHANGED vars
  BY <1>0, <1>16 DEF vars, lineVars
<1> QED BY <1>1, <1>2, <1>3, <1>4, <1>5, <1>6, <1>7, <1>8, <1>9, <1>10, <1>11, <1>12, <1>13, <1>14, <1>15, <1>16 DEF Next

(* A step leaves the files without a writer alone. *)
LEMMA HeldStep ==
  ASSUME IInv, [Next]_vars
  PROVE  Held'
<1> USE StoreAssumption
<1>1. ASSUME NEW f \in Files, AppendRecord(f) PROVE Held'
  BY <1>1 DEF AppendRecord, Emit, Write, Lines, IInv, TypeOK, Ordered, Held, Up, lineVars, eventVars, stateVars
<1>2. ASSUME NEW f \in Files, Spill(f) PROVE Held'
  <2>1. /\ pc' = pc /\ opened' = opened /\ inherited' = inherited
        /\ pending[f] > 0 /\ cached' = [cached EXCEPT ![f] = Lines(f)]
    BY <1>2 DEF Spill
  <2>2. f \in opened
    BY <2>1 DEF IInv, Ordered, TypeOK
  <2> QED BY <2>1, <2>2 DEF IInv, TypeOK, Held
<1>3. ASSUME NEW f \in Files, Sync(f) PROVE Held'
  <2>1. /\ pc' = pc /\ opened' = opened /\ inherited' = inherited /\ pc \in Up
        /\ f \in todo /\ cached' = [cached EXCEPT ![f] = Lines(f)]
    BY <1>3 DEF Sync, Up
  <2>2. f \notin opened => cached'[f] = cached[f]
    BY <2>1 DEF IInv, TypeOK, Ordered, Lines
  <2>3. \A g \in Files \ {f} : cached'[g] = cached[g]
    BY <2>1 DEF IInv, TypeOK
  <2> QED BY <2>1, <2>2, <2>3 DEF IInv, Held
<1>4. ASSUME NEW f \in Files, Repair(f) PROVE Held'
  BY <1>4 DEF Repair, IsTorn, Kept, IInv, TypeOK, Ordered, Held, Up, lineVars, eventVars, stateVars
<1>5. CASE Save
  BY <1>5 DEF Save, Lines, ToSync, IInv, TypeOK, Ordered, Held, Up, lineVars, eventVars, stateVars
<1>6. CASE Close
  BY <1>6 DEF Close, ToSync, IInv, TypeOK, Ordered, Held, Up, lineVars, eventVars, stateVars
<1>7. CASE WriteTemp
  BY <1>7 DEF WriteTemp, IInv, TypeOK, Ordered, Held, Up, lineVars, eventVars, stateVars
<1>8. CASE Replace
  BY <1>8 DEF Replace, IInv, TypeOK, Ordered, Held, Up, lineVars, eventVars, stateVars
<1>9. CASE Settle
  BY <1>9 DEF Settle, IInv, TypeOK, Ordered, Held, Up, lineVars, eventVars, stateVars
<1>10. CASE Exit
  BY <1>10 DEF Exit, End, None, IInv, TypeOK, Ordered, Held, Up, lineVars, eventVars, stateVars
<1>11. CASE Kill
  BY <1>11 DEF Kill, End, None, IInv, TypeOK, Ordered, Held, Up, lineVars, eventVars, stateVars
<1>12. CASE PowerCut
  BY <1>12 DEF PowerCut, End, None, IInv, TypeOK, Ordered, Held, Up, lineVars, eventVars, stateVars
<1>13. CASE Resume
  BY <1>13 DEF Resume, IInv, TypeOK, Ordered, Held, Up, lineVars, eventVars, stateVars
<1>14. CASE OpenLog
  <2>1. /\ opened' = Standing /\ cached' = cached
        /\ inherited' = [f \in Files |-> IF inherited[f] < cached[f] THEN cached[f] ELSE inherited[f]]
    BY <1>14 DEF OpenLog, lineVars
  <2>2. \A f \in Files : cached[f] \in Nat /\ inherited[f] \in Nat
    BY DEF IInv, TypeOK
  <2>3. \A f \in Files : cached'[f] <= inherited'[f]
    BY <2>1, <2>2
  <2>4. pc' \in Up
    BY <1>14 DEF OpenLog, Up
  <2> QED BY <2>1, <2>3, <2>4 DEF Held
<1>15. CASE EmitResumed
  BY <1>15 DEF EmitResumed, Emit, Write, Lines, IInv, TypeOK, Ordered, Held, Up, lineVars, eventVars, stateVars
<1>16. CASE UNCHANGED vars
  BY <1>16 DEF IInv, TypeOK, Ordered, Held, Up, vars, lineVars, eventVars, stateVars
<1> QED BY <1>1, <1>2, <1>3, <1>4, <1>5, <1>6, <1>7, <1>8, <1>9, <1>10, <1>11, <1>12, <1>13, <1>14, <1>15, <1>16 DEF Next

(* A step appends to no fragment. *)
LEMMA WholeStep ==
  ASSUME IInv, [Next]_vars
  PROVE  Whole'
<1>0. Whole
  BY DEF IInv
<1>1. ASSUME NEW f \in Files, AppendRecord(f) PROVE Whole'
  BY <1>0, <1>1 DEF AppendRecord, Emit, Write, Whole, Up
<1>2. ASSUME NEW f \in Files, Spill(f) PROVE Whole'
  BY <1>0, <1>2 DEF Spill, Lines, Whole, Up, lineVars, eventVars, stateVars
<1>3. ASSUME NEW f \in Files, Sync(f) PROVE Whole'
  BY <1>0, <1>3 DEF Sync, Lines, Whole, Up, lineVars, eventVars, stateVars
<1>4. ASSUME NEW f \in Files, Repair(f) PROVE Whole'
  BY <1>0, <1>4 DEF Repair, IsTorn, Kept, Whole, Up, lineVars, eventVars, stateVars
<1>5. CASE Save
  BY <1>0, <1>5 DEF Save, Lines, ToSync, Whole, Up, lineVars, eventVars, stateVars
<1>6. CASE Close
  BY <1>0, <1>6 DEF Close, ToSync, Whole, Up, lineVars, eventVars, stateVars
<1>7. CASE WriteTemp
  BY <1>0, <1>7 DEF WriteTemp, Whole, Up, lineVars, eventVars, stateVars
<1>8. CASE Replace
  BY <1>0, <1>8 DEF Replace, Whole, Up, lineVars, eventVars, stateVars
<1>9. CASE Settle
  BY <1>0, <1>9 DEF Settle, Whole, Up, lineVars, eventVars, stateVars
<1>10. CASE Exit
  BY <1>0, <1>10 DEF Exit, End, None, Whole, Up, lineVars, eventVars, stateVars
<1>11. CASE Kill
  BY <1>0, <1>11 DEF Kill, End, None, Whole, Up, lineVars, eventVars, stateVars
<1>12. CASE PowerCut
  BY <1>0, <1>12 DEF PowerCut, End, None, Whole, Up, lineVars, eventVars, stateVars
<1>13. CASE Resume
  <2>1. torn \subseteq Files
    BY DEF IInv, TypeOK
  <2> QED BY <1>0, <1>13, <2>1 DEF Resume, Whole, Up, lineVars
<1>14. CASE OpenLog
  BY <1>0, <1>14 DEF OpenLog, Whole, Up, lineVars, eventVars, stateVars
<1>15. CASE EmitResumed
  BY <1>0, <1>15 DEF EmitResumed, Emit, Write, Lines, Whole, Up, lineVars, eventVars, stateVars
<1>16. CASE UNCHANGED vars
  BY <1>0, <1>16 DEF Whole, Up, vars, lineVars, eventVars, stateVars
<1> QED BY <1>1, <1>2, <1>3, <1>4, <1>5, <1>6, <1>7, <1>8, <1>9, <1>10, <1>11, <1>12, <1>13, <1>14, <1>15, <1>16 DEF Next

(* A checkpoint that replaces state.json has passed the barrier. *)
LEMMA SavedStep ==
  ASSUME IInv, [Next]_vars
  PROVE  Saved'
<1> USE StoreAssumption
<1>1. ASSUME NEW f \in Files, AppendRecord(f) PROVE Saved'
  BY <1>1 DEF AppendRecord, Emit, Write, Lines, IInv, TypeOK, Ordered, Held, Saved, Saving, Covered, lineVars, eventVars, stateVars
<1>2. ASSUME NEW f \in Files, Spill(f) PROVE Saved'
  BY <1>2 DEF Spill, Lines, IInv, TypeOK, Ordered, Held, Saved, Saving, Covered, lineVars, eventVars, stateVars
<1>3. ASSUME NEW f \in Files, Sync(f) PROVE Saved'
  <2>1. \A g \in Files : durable[g] \in Nat /\ durable'[g] \in Nat /\ durable[g] <= durable'[g]
    BY DurableGrows, TypeStep DEF IInv, TypeOK
  <2>2. /\ inherited' = inherited
        /\ state' = state /\ stateOnDisk' = stateOnDisk
    BY <1>3 DEF Sync, stateVars
  <2>3. state \in [Files -> Nat] /\ stateOnDisk \in [Files -> Nat] /\ Saved
    BY DEF IInv, TypeOK
  <2> QED BY <2>1, <2>2, <2>3 DEF Saved, Covered
<1>4. ASSUME NEW f \in Files, Repair(f) PROVE Saved'
  <2>1. \A g \in Files : durable[g] \in Nat /\ durable'[g] \in Nat /\ durable[g] <= durable'[g]
    BY DurableGrows, TypeStep DEF IInv, TypeOK
  <2>2. /\ inherited' = inherited
        /\ state' = state /\ stateOnDisk' = stateOnDisk
    BY <1>4 DEF Repair, stateVars
  <2>3. state \in [Files -> Nat] /\ stateOnDisk \in [Files -> Nat] /\ Saved
    BY DEF IInv, TypeOK
  <2> QED BY <2>1, <2>2, <2>3 DEF Saved, Covered
<1>5. CASE Save
  BY <1>5 DEF Save, Lines, ToSync, IInv, TypeOK, Ordered, Held, Saved, Saving, Covered, lineVars, eventVars, stateVars
<1>6. CASE Close
  BY <1>6 DEF Close, ToSync, IInv, TypeOK, Ordered, Held, Saved, Saving, Covered, lineVars, eventVars, stateVars
<1>7. CASE WriteTemp
  BY <1>7 DEF WriteTemp, IInv, TypeOK, Ordered, Held, Saved, Saving, Covered, lineVars, eventVars, stateVars
<1>8. CASE Replace
  BY <1>8 DEF Replace, IInv, TypeOK, Ordered, Held, Saved, Saving, Covered, lineVars, eventVars, stateVars
<1>9. CASE Settle
  BY <1>9 DEF Settle, IInv, TypeOK, Ordered, Held, Saved, Saving, Covered, lineVars, eventVars, stateVars
<1>10. CASE Exit
  BY <1>10 DEF Exit, End, None, IInv, TypeOK, Ordered, Held, Saved, Saving, Covered, lineVars, eventVars, stateVars
<1>11. CASE Kill
  BY <1>11 DEF Kill, End, None, IInv, TypeOK, Ordered, Held, Saved, Saving, Covered, lineVars, eventVars, stateVars
<1>12. CASE PowerCut
  <2>1. \A g \in Files : durable[g] \in Nat /\ durable'[g] \in Nat /\ durable[g] <= durable'[g]
    BY DurableGrows, TypeStep DEF IInv, TypeOK
  <2>2. /\ inherited' = inherited
        /\ state' \in {state, stateOnDisk} /\ stateOnDisk' = state'
    BY <1>12 DEF PowerCut, End
  <2>3. state \in [Files -> Nat] /\ stateOnDisk \in [Files -> Nat] /\ Saved
    BY DEF IInv, TypeOK
  <2> QED BY <2>1, <2>2, <2>3 DEF Saved, Covered
<1>13. CASE Resume
  BY <1>13 DEF Resume, IInv, Saved, Covered, lineVars, stateVars
<1>14. CASE OpenLog
  <2>0. \A f \in Files : cached[f] \in Nat /\ inherited[f] \in Nat
    BY DEF IInv, TypeOK
  <2>1. \A f \in Files : /\ inherited[f] \in Nat /\ inherited'[f] \in Nat
                         /\ inherited[f] <= inherited'[f]
    BY <1>14, <2>0 DEF OpenLog
  <2>2. UNCHANGED <<durable, state, stateOnDisk>>
    BY <1>14 DEF OpenLog, lineVars
  <2>3. \A f \in Files : state[f] \in Nat /\ stateOnDisk[f] \in Nat
    BY DEF IInv, TypeOK
  <2> QED BY <2>1, <2>2, <2>3 DEF IInv, Saved, Covered
<1>15. CASE EmitResumed
  BY <1>15 DEF EmitResumed, Emit, Write, Lines, IInv, TypeOK, Ordered, Held, Saved, Saving, Covered, lineVars, eventVars, stateVars
<1>16. CASE UNCHANGED vars
  BY <1>16 DEF IInv, TypeOK, Ordered, Held, Saved, Saving, Covered, vars, lineVars, eventVars, stateVars
<1> QED BY <1>1, <1>2, <1>3, <1>4, <1>5, <1>6, <1>7, <1>8, <1>9, <1>10, <1>11, <1>12, <1>13, <1>14, <1>15, <1>16 DEF Next

(* The barrier covers what the checkpoint names. *)
LEMMA SavingStep ==
  ASSUME IInv, [Next]_vars
  PROVE  Saving'
<1> USE StoreAssumption
<1>1. ASSUME NEW f \in Files, AppendRecord(f) PROVE Saving'
  BY <1>1 DEF AppendRecord, Emit, Write, Lines, IInv, TypeOK, Ordered, Held, Up, Saving, Covered, lineVars, eventVars, stateVars
<1>2. ASSUME NEW f \in Files, Spill(f) PROVE Saving'
  BY <1>2 DEF Spill, Lines, IInv, TypeOK, Ordered, Held, Up, Saving, Covered, lineVars, eventVars, stateVars
<1>3. ASSUME NEW f \in Files, Sync(f) PROVE Saving'
  <2>1. /\ pc' = pc /\ pc # "replacing" /\ todo' = todo \ {f} /\ data' = data
        /\ cached' = [cached EXCEPT ![f] = Lines(f)] /\ pending' = [pending EXCEPT ![f] = 0]
        /\ durable' = [durable EXCEPT ![f] = Lines(f)] /\ inherited' = inherited
    BY <1>3 DEF Sync, stateVars
  <2>2. TypeOK /\ Saving /\ \A g \in Files : data[g] \in Nat /\ Lines(g) \in Nat
    BY LinesNat DEF IInv, TypeOK
  <2>3. \A g \in Files : Lines(g)' = Lines(g)
    BY <2>1, <2>2, FlushLines
  <2>4. durable'[f] = Lines(f) /\ \A g \in Files : g # f => durable'[g] = durable[g]
    BY <2>1, <2>2 DEF TypeOK
  <2> QED BY <2>1, <2>2, <2>3, <2>4 DEF Saving, Covered
<1>4. ASSUME NEW f \in Files, Repair(f) PROVE Saving'
  BY <1>4 DEF Repair, IsTorn, Kept, IInv, TypeOK, Ordered, Held, Up, Saving, Covered, Lines, lineVars, eventVars, stateVars
<1>5. CASE Save
  <2>1. /\ pc' = "syncing" /\ todo' = opened /\ data' = [f \in Files |-> Lines(f)]
        /\ cached' = cached /\ pending' = pending /\ inherited' = inherited
    BY <1>5 DEF Save, ToSync, lineVars
  <2>2. \A f \in Files : Lines(f) \in Nat /\ Lines(f) <= Lines(f)
    BY LinesNat DEF IInv
  <2>3. \A f \in Files \ opened : f \notin Standing /\ Lines(f) <= inherited[f]
    BY <1>5 DEF Save, IInv, TypeOK, Ordered, Held, Up, Lines
  <2> QED BY <2>1, <2>2, <2>3 DEF Saving, Covered, Lines
<1>6. CASE Close
  BY <1>6 DEF Close, ToSync, IInv, TypeOK, Ordered, Held, Up, Saving, Covered, Lines, lineVars, eventVars, stateVars
<1>7. CASE WriteTemp
  BY <1>7 DEF WriteTemp, IInv, TypeOK, Ordered, Held, Up, Saving, Covered, Lines, lineVars, eventVars, stateVars
<1>8. CASE Replace
  BY <1>8 DEF Replace, IInv, TypeOK, Ordered, Held, Up, Saving, Covered, Lines, lineVars, eventVars, stateVars
<1>9. CASE Settle
  BY <1>9 DEF Settle, IInv, TypeOK, Ordered, Held, Up, Saving, Covered, Lines, lineVars, eventVars, stateVars
<1>10. CASE Exit
  BY <1>10 DEF Exit, End, None, IInv, TypeOK, Ordered, Held, Up, Saving, Covered, Lines, lineVars, eventVars, stateVars
<1>11. CASE Kill
  BY <1>11 DEF Kill, End, None, IInv, TypeOK, Ordered, Held, Up, Saving, Covered, Lines, lineVars, eventVars, stateVars
<1>12. CASE PowerCut
  BY <1>12 DEF PowerCut, End, None, IInv, TypeOK, Ordered, Held, Up, Saving, Covered, Lines, lineVars, eventVars, stateVars
<1>13. CASE Resume
  BY <1>13 DEF Resume, IInv, TypeOK, Ordered, Held, Up, Saving, Covered, Lines, lineVars, eventVars, stateVars
<1>14. CASE OpenLog
  BY <1>14 DEF OpenLog, IInv, TypeOK, Ordered, Held, Up, Saving, Covered, Lines, lineVars, eventVars, stateVars
<1>15. CASE EmitResumed
  BY <1>15 DEF EmitResumed, Emit, Write, Lines, IInv, TypeOK, Ordered, Held, Up, Saving, Covered, lineVars, eventVars, stateVars
<1>16. CASE UNCHANGED vars
  BY <1>16 DEF IInv, TypeOK, Ordered, Held, Up, Saving, Covered, Lines, vars, lineVars, eventVars, stateVars
<1> QED BY <1>1, <1>2, <1>3, <1>4, <1>5, <1>6, <1>7, <1>8, <1>9, <1>10, <1>11, <1>12, <1>13, <1>14, <1>15, <1>16 DEF Next

(* A run starts with empty files. *)
LEMMA InitInv == Init => IInv
<1> SUFFICES ASSUME Init PROVE IInv
  OBVIOUS
<1> USE StoreAssumption
<1>1. TypeOK
  <2>1. None \in [Files -> Nat] /\ <<>> \in Seq(Nat) /\ 0 \in 0..MaxCrashes
    BY DEF None
  <2> QED BY <2>1 DEF Init, TypeOK
<1>2. Ordered /\ Held /\ Saved /\ Saving /\ Whole
  BY DEF Init, None, Ordered, Held, Up, Saved, Saving, Covered, Whole
<1>3. Numbered
  BY DEF Init, None, Numbered, NumbersUnbroken, Lines, Up
<1> QED BY <1>1, <1>2, <1>3 DEF IInv

(* The invariant is inductive. *)
LEMMA StepInv == IInv /\ [Next]_vars => IInv'
<1> SUFFICES ASSUME IInv, [Next]_vars PROVE IInv'
  OBVIOUS
<1>1. TypeOK' /\ Ordered' /\ Held'
  BY TypeStep, OrderedStep, HeldStep
<1>2. Saved' /\ Saving' /\ Whole'
  BY SavedStep, SavingStep, WholeStep
<1>3. Numbered'
  BY NumberedStep
<1> QED BY <1>1, <1>2, <1>3 DEF IInv

(* It holds throughout a run. *)
LEMMA Always == Spec => []IInv
BY InitInv, StepInv, PTL DEF Spec

(* Every variable of the store keeps its type. *)
THEOREM StoreTypeOK == Spec => []TypeOK
<1>1. IInv => TypeOK
  BY DEF IInv
<1> QED BY Always, <1>1, PTL

(* Whatever the kills and power cuts, state.json names no event, span or
   error that is not on disk: RunState.save() runs Tracer.sync() first, and
   a Tracer always holds the writers of these files. *)
THEOREM StoreTraceBacked == Spec => []TraceBacked
<1>1. IInv => TraceBacked
  BY StoreAssumption DEF IInv, Saved, Covered, TraceBacked
<1> QED BY Always, <1>1, PTL

(* What state.json names of any file is on disk, or was already in the file
   when the process that saved it opened the run. *)
THEOREM StoreOwnWorkBacked == Spec => []OwnWorkBacked
<1>1. IInv => OwnWorkBacked
  BY DEF IInv, Saved, Covered, OwnWorkBacked
<1> QED BY Always, <1>1, PTL

(* If every file had a standing writer, a checkpoint would name nothing that
   is still in a page cache: the promise of Tracer.sync. *)
THEOREM StandingWritersSuffice ==
  ASSUME Standing = Files
  PROVE  Spec => []CheckpointBacked
<1>1. IInv => CheckpointBacked
  BY DEF IInv, Saved, Covered, CheckpointBacked
<1> QED BY Always, <1>1, PTL

(* EventLog.emit, repair_torn_tail and EventLog.resume together keep the
   events numbered 1, 2, 3... across every crash. *)
THEOREM StoreNumbersUnbroken == Spec => []NumbersUnbroken
<1>1. IInv => NumbersUnbroken
  BY DEF IInv, Numbered
<1> QED BY Always, <1>1, PTL

(* Every file is cut back to whole lines before it is appended to. *)
THEOREM StoreNothingBehindAFragment == Spec => []NothingBehindAFragment
<1>1. IInv => NothingBehindAFragment
  BY DEF IInv, Whole, NothingBehindAFragment
<1> QED BY Always, <1>1, PTL

(* No kill, power cut or repair takes back a line fsync returned for. *)
THEOREM StoreDurableStays == Spec => DurableStays
<1>1. ASSUME IInv, IInv', [Next]_vars
      PROVE  [\A f \in Files : durable[f] <= durable'[f] /\ durable'[f] <= cached'[f]]_vars
  <2>1. \A f \in Files : durable'[f] <= cached'[f]
    BY <1>1 DEF IInv, Ordered
  <2> QED BY <1>1, <2>1, DurableGrows
<1> QED BY Always, <1>1, PTL DEF Spec, DurableStays

=============================================================================
