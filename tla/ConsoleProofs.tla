---------------------------- MODULE ConsoleProofs ----------------------------
(***************************************************************************)
(* The console for any launches, runs, editors and settings: what it says  *)
(* of its launches, what its retention log holds, what becomes of the      *)
(* settings draft and what its live view and its replay show; and the lock *)
(* between the supervisors it launches, which no more than one may hold.   *)
(***************************************************************************)
EXTENDS MCConsole, RunLock, SequenceTheorems, WellFoundedInduction, TLAPS

-----------------------------------------------------------------------------
(* Deletions.                                                              *)

HandRecords ==
  [at : {"idle", "checked", "removing", "removed"}, what : R!Parts,
   run : Targets \cup {Nothing}, plan : SUBSET (R!Parts \X Targets)]

DeletionTypes ==
  /\ holds \in SUBSET Targets
  /\ retired \in [Targets -> Nat]
  /\ log \in [Targets -> Nat]
  /\ hand \in [R!Hands -> HandRecords]

(* A thread between two deletions has none in hand, and only a run's files *)
(* are removed one by one.                                                 *)
InHand ==
  \A h \in R!Hands :
    /\ hand[h].run = Nothing <=> hand[h].at = "idle"
    /\ hand[h].at = "removing" => hand[h].what = "run"

DeletionInv == DeletionTypes /\ InHand /\ R!OneRowEach

LEMMA HandsAre == R!Hands = {"hand", "beat"}
BY DEF R!Hands

LEMMA DueIs ==
  \A h \in R!Hands, r \in Targets :
    /\ R!Due(h, r) \in {0, 1}
    /\ R!Due(h, r) = 1 <=> R!Owes(h, r)
BY DEF R!Due

LEMMA DeletionInit == R!Init => DeletionInv
<1> SUFFICES ASSUME R!Init PROVE DeletionInv
  OBVIOUS
<1>1. /\ holds \in SUBSET Targets
      /\ retired = [r \in Targets |-> 0] /\ log = [r \in Targets |-> 0]
      /\ hand = [h \in R!Hands |-> [at |-> "idle", what |-> "run", run |-> Nothing, plan |-> {}]]
  BY DEF R!Init, R!Free
<1>2. [at |-> "idle", what |-> "run", run |-> Nothing, plan |-> {}] \in HandRecords
  BY DEF HandRecords, R!Parts
<1>3. DeletionTypes
  BY <1>1, <1>2 DEF DeletionTypes
<1>4. InHand
  BY <1>1 DEF InHand
<1>5. \A h \in R!Hands, r \in Targets : ~R!Owes(h, r)
  BY <1>1 DEF R!Owes
<1>6. R!OneRowEach
  BY <1>1, <1>5, HandsAre DEF R!OneRowEach, R!Due
<1> QED BY <1>3, <1>4, <1>6 DEF DeletionInv

(* A step in which no thread ends a removal or writes a row, and each      *)
(* takes at most the removal it began a step further.                      *)
Quietly ==
  /\ retired' = retired /\ log' = log /\ died \subseteq died'
  /\ DeletionTypes' /\ InHand'
  /\ \A h \in R!Hands, r \in Targets : R!Owes(h, r)' => R!Owes(h, r)
  /\ \A h \in R!Hands, r \in Targets : R!Owes(h, r) => R!Owes(h, r)' \/ r \in died'

LEMMA QuietKeeps == DeletionInv /\ Quietly => DeletionInv'
<1> SUFFICES ASSUME DeletionInv, Quietly PROVE DeletionInv'
  OBVIOUS
<1>1. DeletionTypes' /\ InHand' /\ retired' = retired /\ log' = log /\ DeletionTypes
  BY DEF Quietly, DeletionInv
<1>2. ASSUME NEW r \in Targets
      PROVE  /\ (log[r] + R!Due("hand", r) + R!Due("beat", r))' <= retired'[r]
             /\ r \notin died' => (log[r] + R!Due("hand", r) + R!Due("beat", r))' = retired'[r]
  <2>1. /\ log[r] + R!Due("hand", r) + R!Due("beat", r) <= retired[r]
        /\ r \notin died => log[r] + R!Due("hand", r) + R!Due("beat", r) = retired[r]
    BY <1>2 DEF DeletionInv, R!OneRowEach
  <2>2. log[r] \in Nat /\ retired[r] \in Nat
    BY <1>1 DEF DeletionTypes
  <2>3. \A h \in R!Hands : R!Due(h, r) \in {0, 1} /\ R!Due(h, r)' \in {0, 1}
          /\ R!Due(h, r)' <= R!Due(h, r)
          /\ (r \notin died' => R!Due(h, r)' = R!Due(h, r))
    BY DEF Quietly, R!Due
  <2>4. died \subseteq died'
    BY DEF Quietly
  <2> QED BY <1>1, <2>1, <2>2, <2>3, <2>4, HandsAre
<1>3. R!OneRowEach'
  BY <1>2 DEF R!OneRowEach
<1> QED BY <1>1, <1>3 DEF DeletionInv

(* Keeping a run, and what the children do, touches no removal.            *)
LEMMA WorldKeeps ==
  ASSUME DeletionInv, hand' = hand, retired' = retired, log' = log, died' = died,
         holds' \in SUBSET Targets
  PROVE  DeletionInv'
<1>1. DeletionTypes' /\ InHand'
  BY DEF DeletionInv, DeletionTypes, InHand
<1>2. Quietly
  BY <1>1 DEF Quietly, R!Owes
<1> QED BY <1>2, QuietKeeps

(* One thread takes its removal a step further, and ends none.             *)
LEMMA HandKeeps ==
  ASSUME DeletionInv, NEW h \in R!Hands, NEW x \in HandRecords,
         hand' = [hand EXCEPT ![h] = x],
         retired' = retired, log' = log, died' = died, holds' = holds,
         x.run = Nothing <=> x.at = "idle",
         x.at = "removing" => x.what = "run",
         hand[h].at = "removed" => hand[h].what = "projection",
         x.at = "removed" => x.what = "projection"
  PROVE  DeletionInv'
<1>1. DeletionTypes /\ InHand
  BY DEF DeletionInv
<1>2. /\ hand' \in [R!Hands -> HandRecords]
      /\ hand'[h] = x
      /\ \A g \in R!Hands \ {h} : hand'[g] = hand[g]
  BY <1>1 DEF DeletionTypes
<1>3. DeletionTypes'
  BY <1>1, <1>2 DEF DeletionTypes
<1>4. InHand'
  BY <1>1, <1>2 DEF InHand
<1>5. \A g \in R!Hands, r \in Targets : R!Owes(g, r)' <=> R!Owes(g, r)
  BY <1>2 DEF R!Owes
<1> QED BY <1>3, <1>4, <1>5, QuietKeeps DEF Quietly

LEMMA BeatKeeps == DeletionInv /\ R!Beat => DeletionInv'
<1> SUFFICES ASSUME DeletionInv, R!Beat PROVE DeletionInv'
  OBVIOUS
<1>1. DeletionTypes /\ InHand
  BY DEF DeletionInv
<1>2. PICK runs \in SUBSET R!DueRuns, projections \in SUBSET R!DueProjections :
         hand' = [hand EXCEPT !["beat"].plan = R!PlanOf(runs, projections)]
  BY DEF R!Beat, R!Past
<1>3. runs \in SUBSET Targets /\ projections \in SUBSET Targets
  BY <1>1, <1>2 DEF DeletionTypes, R!DueRuns, R!DueProjections
<1>4. R!PlanOf(runs, projections) \in SUBSET (R!Parts \X Targets)
  BY <1>3 DEF R!PlanOf, R!Parts
<1> DEFINE x == [hand["beat"] EXCEPT !.plan = R!PlanOf(runs, projections)]
<1>5. "beat" \in R!Hands /\ hand["beat"] \in HandRecords
  BY <1>1 DEF DeletionTypes, R!Hands
<1>6. x \in HandRecords /\ x.at = hand["beat"].at /\ x.run = hand["beat"].run
      /\ x.what = hand["beat"].what
  BY <1>4, <1>5 DEF HandRecords
<1>7. hand' = [hand EXCEPT !["beat"] = x]
  BY <1>2, <1>5
<1>8. hand["beat"].at = "idle"
  BY DEF R!Beat, R!Free
<1>9. /\ x.run = Nothing <=> x.at = "idle"
      /\ x.at = "idle"
  BY <1>1, <1>5, <1>6, <1>8 DEF InHand
<1>10. retired' = retired /\ log' = log /\ died' = died /\ holds' = holds
  BY DEF R!Beat, R!world
<1> HIDE DEF x
<1> QED BY <1>5, <1>6, <1>7, <1>8, <1>9, <1>10, HandKeeps

LEMMA BeginKeeps ==
  ASSUME DeletionInv, NEW h \in R!Hands, NEW what \in R!Parts, NEW r \in Targets,
         R!Begin(h, what, r)
  PROVE  DeletionInv'
<1>1. DeletionTypes /\ InHand
  BY DEF DeletionInv
<1>2. hand[h] \in HandRecords /\ hand[h].at = "idle" /\ hand[h].run = Nothing
  BY <1>1 DEF DeletionTypes, InHand, R!Begin
<1> DEFINE rest == [hand[h] EXCEPT !.plan = @ \ {<<what, r>>}]
           begun == [rest EXCEPT !.at = "checked", !.what = what, !.run = r]
<1>3. rest \in HandRecords /\ rest.at = "idle" /\ rest.run = Nothing
  BY <1>2 DEF HandRecords
<1>4. begun \in HandRecords /\ begun.at = "checked" /\ begun.run = r
  BY <1>2, <1>3 DEF HandRecords
<1>5. \E x \in {rest, begun} : hand' = [hand EXCEPT ![h] = x]
  BY DEF R!Begin, R!Take
<1>6. PICK x \in {rest, begun} : hand' = [hand EXCEPT ![h] = x]
  BY <1>5
<1>7. r # Nothing
  BY ConsoleAssumption
<1> HIDE DEF rest, begun
<1>8. /\ x \in HandRecords /\ x.at \in {"idle", "checked"}
      /\ x.run = Nothing <=> x.at = "idle"
  BY <1>3, <1>4, <1>6, <1>7
<1>9. retired' = retired /\ log' = log /\ died' = died /\ holds' = holds
  BY DEF R!Begin, R!world
<1> QED BY <1>2, <1>6, <1>8, <1>9, HandKeeps

(* What a thread has in hand once it lets go.                              *)
LEMMA BackIs ==
  ASSUME DeletionTypes, NEW h \in R!Hands
  PROVE  /\ R!Back(h) \in HandRecords
         /\ R!Back(h).at = "idle" /\ R!Back(h).run = Nothing
BY DEF DeletionTypes, HandRecords, R!Back, R!Parts

LEMMA UnlinkKeeps ==
  ASSUME DeletionInv, NEW h \in R!Hands, R!Unlink(h)
  PROVE  DeletionInv'
<1>1. DeletionTypes /\ InHand
  BY DEF DeletionInv
<1>2. hand[h] \in HandRecords /\ hand[h].at = "checked" /\ hand[h].what = "run"
      /\ hand[h].run # Nothing
  BY <1>1 DEF DeletionTypes, InHand, R!Unlink
<1> DEFINE begun == [hand[h] EXCEPT !.at = "removing"]
           back == R!Back(h)
<1>3. begun \in HandRecords /\ begun.at = "removing" /\ begun.what = "run" /\ begun.run # Nothing
  BY <1>2 DEF HandRecords
<1>4. back \in HandRecords /\ back.at = "idle" /\ back.run = Nothing
  BY <1>1, BackIs
<1>5. PICK x \in {begun, back} : hand' = [hand EXCEPT ![h] = x]
  BY DEF R!Unlink
<1> HIDE DEF begun, back
<1>6. retired' = retired /\ log' = log /\ died' = died /\ holds' = holds
  BY DEF R!Unlink, R!world
<1> QED BY <1>2, <1>3, <1>4, <1>5, <1>6, HandKeeps

LEMMA TripKeeps ==
  ASSUME DeletionInv, NEW h \in R!Hands, R!Trip(h)
  PROVE  DeletionInv'
<1>1. DeletionTypes /\ hand[h].at # "removed"
  BY DEF DeletionInv, R!Trip
<1>2. hand' = [hand EXCEPT ![h] = R!Back(h)]
      /\ retired' = retired /\ log' = log /\ died' = died /\ holds' = holds
  BY DEF R!Trip, R!world
<1> QED BY <1>1, <1>2, BackIs, HandKeeps

LEMMA DropKeeps ==
  ASSUME DeletionInv, NEW h \in R!Hands, R!Drop(h)
  PROVE  DeletionInv'
<1>1. DeletionTypes /\ InHand
  BY DEF DeletionInv
<1>2. hand[h] \in HandRecords /\ hand[h].at = "checked" /\ hand[h].what = "projection"
      /\ hand[h].run # Nothing
  BY <1>1 DEF DeletionTypes, InHand, R!Drop
<1> DEFINE x == [hand[h] EXCEPT !.at = "removed"]
<1>3. x \in HandRecords /\ x.at = "removed" /\ x.what = "projection" /\ x.run # Nothing
  BY <1>2 DEF HandRecords
<1>4. hand' = [hand EXCEPT ![h] = x]
      /\ retired' = retired /\ log' = log /\ died' = died /\ holds' = holds
  BY <1>1 DEF R!Drop, DeletionTypes
<1> HIDE DEF x
<1> QED BY <1>2, <1>3, <1>4, HandKeeps

(* The end of a removal: the run is gone, and this thread owes its row.    *)
LEMMA RmdirKeeps ==
  ASSUME DeletionInv, NEW h \in R!Hands, R!Rmdir(h)
  PROVE  DeletionInv'
<1> DEFINE gone == hand[h].run
           x == [hand[h] EXCEPT !.at = "removed"]
<1>1. DeletionTypes /\ InHand
  BY DEF DeletionInv
<1>2. /\ hand[h] \in HandRecords /\ hand[h].at = "removing" /\ hand[h].what = "run"
      /\ gone \in holds /\ gone \in Targets
  BY <1>1 DEF DeletionTypes, InHand, R!Rmdir, R!Removes
<1>3. /\ hand' = [hand EXCEPT ![h] = x]
      /\ holds' = holds \ {gone}
      /\ retired' = [r \in Targets |-> IF r \in holds \ holds' THEN retired[r] + 1 ELSE retired[r]]
      /\ log' = log /\ died' = died
  BY <1>1 DEF R!Rmdir, DeletionTypes
<1>4. /\ x \in HandRecords /\ x.at = "removed" /\ x.what = "run" /\ x.run = gone
  BY <1>2 DEF HandRecords
<1> HIDE DEF gone, x
<1>5. /\ hand' \in [R!Hands -> HandRecords] /\ hand'[h] = x
      /\ \A g \in R!Hands \ {h} : hand'[g] = hand[g]
  BY <1>1, <1>3, <1>4 DEF DeletionTypes
<1>6. /\ retired' \in [Targets -> Nat]
      /\ retired'[gone] = retired[gone] + 1
      /\ \A r \in Targets \ {gone} : retired'[r] = retired[r]
  BY <1>1, <1>2, <1>3 DEF DeletionTypes
<1>7. DeletionTypes'
  BY <1>1, <1>3, <1>5, <1>6 DEF DeletionTypes
<1>8. InHand'
  <2>1. gone # Nothing
    BY <1>2, ConsoleAssumption
  <2> QED BY <1>1, <1>4, <1>5, <2>1 DEF InHand
<1>9. /\ \A g \in R!Hands, r \in Targets : R!Owes(g, r)' <=> R!Owes(g, r) \/ (g = h /\ r = gone)
      /\ ~R!Owes(h, gone)
  BY <1>2, <1>4, <1>5 DEF R!Owes
<1>10. ASSUME NEW r \in Targets
       PROVE  /\ (log[r] + R!Due("hand", r) + R!Due("beat", r))' <= retired'[r]
              /\ r \notin died' => (log[r] + R!Due("hand", r) + R!Due("beat", r))' = retired'[r]
  <2>1. /\ log[r] + R!Due("hand", r) + R!Due("beat", r) <= retired[r]
        /\ r \notin died => log[r] + R!Due("hand", r) + R!Due("beat", r) = retired[r]
    BY <1>10 DEF DeletionInv, R!OneRowEach
  <2>2. log[r] \in Nat /\ retired[r] \in Nat
    BY <1>1 DEF DeletionTypes
  <2>3. /\ \A g \in R!Hands : R!Due(g, r) \in {0, 1}
        /\ \A g \in R!Hands \ {h} : R!Due(g, r)' = R!Due(g, r)
        /\ R!Due(h, r)' = IF r = gone THEN R!Due(h, r) + 1 ELSE R!Due(h, r)
    BY <1>9 DEF R!Due
  <2>4. retired'[r] = IF r = gone THEN retired[r] + 1 ELSE retired[r]
    BY <1>6
  <2> QED BY <1>3, <2>1, <2>2, <2>3, <2>4, HandsAre
<1>11. R!OneRowEach'
  BY <1>10 DEF R!OneRowEach
<1> QED BY <1>7, <1>8, <1>11 DEF DeletionInv

(* The row is written: of a run, what the thread owed.                     *)
LEMMA AuditKeeps ==
  ASSUME DeletionInv, NEW h \in R!Hands, R!Audit(h)
  PROVE  DeletionInv'
<1> DEFINE x == R!Back(h)
           m == hand[h].run
<1>1. DeletionTypes /\ InHand
  BY DEF DeletionInv
<1>2. /\ hand[h] \in HandRecords /\ hand[h].at = "removed" /\ m \in Targets
  BY <1>1 DEF DeletionTypes, InHand, R!Audit, HandRecords
<1>3. /\ hand' = [hand EXCEPT ![h] = x]
      /\ log' = IF hand[h].what = "run" THEN [log EXCEPT ![m] = @ + 1] ELSE log
      /\ retired' = retired /\ holds' = holds /\ died' = died
  BY DEF R!Audit, R!world
<1>4. \A r \in Targets : R!Owes(h, r) <=> hand[h].what = "run" /\ r = m
  BY <1>2 DEF R!Owes
<1>5. x \in HandRecords /\ x.at = "idle" /\ x.run = Nothing
  BY <1>1, BackIs
<1> HIDE DEF x, m
<1>6. /\ hand' \in [R!Hands -> HandRecords] /\ hand'[h] = x
      /\ \A g \in R!Hands \ {h} : hand'[g] = hand[g]
  BY <1>1, <1>3, <1>5 DEF DeletionTypes
<1>7. /\ log' \in [Targets -> Nat]
      /\ \A r \in Targets : log'[r] = IF R!Owes(h, r) THEN log[r] + 1 ELSE log[r]
  BY <1>1, <1>2, <1>3, <1>4 DEF DeletionTypes
<1>8. DeletionTypes'
  BY <1>1, <1>3, <1>6, <1>7 DEF DeletionTypes
<1>9. InHand'
  BY <1>1, <1>5, <1>6 DEF InHand
<1>10. \A g \in R!Hands, r \in Targets : R!Owes(g, r)' <=> R!Owes(g, r) /\ g # h
  BY <1>5, <1>6 DEF R!Owes
<1>11. ASSUME NEW r \in Targets
       PROVE  /\ (log[r] + R!Due("hand", r) + R!Due("beat", r))' <= retired'[r]
              /\ r \notin died' => (log[r] + R!Due("hand", r) + R!Due("beat", r))' = retired'[r]
  <2>1. /\ log[r] + R!Due("hand", r) + R!Due("beat", r) <= retired[r]
        /\ r \notin died => log[r] + R!Due("hand", r) + R!Due("beat", r) = retired[r]
    BY <1>11 DEF DeletionInv, R!OneRowEach
  <2>2. log[r] \in Nat /\ retired[r] \in Nat
    BY <1>1 DEF DeletionTypes
  <2>3. /\ \A g \in R!Hands : R!Due(g, r) \in {0, 1}
        /\ \A g \in R!Hands \ {h} : R!Due(g, r)' = R!Due(g, r)
        /\ R!Due(h, r)' = 0
        /\ log'[r] = log[r] + R!Due(h, r)
    BY <1>7, <1>10, <2>2 DEF R!Due
  <2> QED BY <1>3, <2>1, <2>2, <2>3, HandsAre
<1>12. R!OneRowEach'
  BY <1>11 DEF R!OneRowEach
<1> QED BY <1>8, <1>9, <1>12 DEF DeletionInv

(* The console dies: whatever a thread had in hand died with it.           *)
LEMMA DieKeeps ==
  ASSUME DeletionInv, R!Die
  PROVE  DeletionInv'
<1>1. DeletionTypes
  BY DEF DeletionInv
<1>2. /\ hand' = [h \in R!Hands |-> R!Free]
      /\ died' = died \cup ({hand[h].run : h \in R!Hands} \ {Nothing})
      /\ retired' = retired /\ log' = log /\ holds' = holds
  BY DEF R!Die, R!world
<1>3. R!Free \in HandRecords /\ R!Free.at = "idle" /\ R!Free.run = Nothing
  BY DEF R!Free, HandRecords, R!Parts
<1>4. DeletionTypes' /\ InHand'
  BY <1>1, <1>2, <1>3 DEF DeletionTypes, InHand
<1>5. \A h \in R!Hands, r \in Targets : ~R!Owes(h, r)'
  BY <1>2, <1>3 DEF R!Owes
<1>6. \A h \in R!Hands, r \in Targets : R!Owes(h, r) => r \in died'
  BY <1>2, ConsoleAssumption DEF R!Owes
<1> QED BY <1>2, <1>4, <1>5, <1>6, QuietKeeps DEF Quietly

LEMMA DeletionStep == DeletionInv /\ [R!Next]_deletions => DeletionInv'
<1> SUFFICES ASSUME DeletionInv, [R!Next]_deletions PROVE DeletionInv'
  OBVIOUS
<1>1. DeletionTypes
  BY DEF DeletionInv
<1>2. ASSUME NEW h \in R!Hands, R!Deleting(h) PROVE DeletionInv'
  BY <1>2, BeginKeeps, UnlinkKeeps, RmdirKeeps, TripKeeps, DropKeeps, AuditKeeps
     DEF R!Deleting
<1>3. ASSUME NEW r \in Targets, R!Keep(r) \/ R!Child(r) PROVE DeletionInv'
  <2>1. hand' = hand /\ retired' = retired /\ log' = log /\ died' = died
    BY <1>3 DEF R!Keep, R!Child, R!Resume, R!Make, R!Name, R!Write, R!End
  <2>2. holds' = holds \/ holds' = holds \cup {r}
    BY <1>3 DEF R!Keep, R!Child, R!Resume, R!Make, R!Name, R!Write, R!End, R!world
  <2> QED BY <1>1, <2>1, <2>2, WorldKeeps DEF DeletionTypes
<1>4. CASE UNCHANGED deletions
  BY <1>1, <1>4, WorldKeeps DEF deletions, DeletionTypes
<1>5. CASE R!Next
  BY <1>2, <1>3, <1>5, BeatKeeps, DieKeeps DEF R!Next
<1> QED BY <1>4, <1>5

LEMMA DeletionGivesRows == DeletionInv => OneRowEach
BY DEF DeletionInv, OneRowEach

-----------------------------------------------------------------------------
(* The settings draft.                                                     *)

(* A nonempty set of naturals has a least element.                         *)
LEMMA LeastNatural ==
  ASSUME NEW T \in SUBSET Nat, T # {}
  PROVE  \E m \in T : \A k \in T : m <= k
<1> DEFINE Less == {ss \in Nat \X Nat : ss[1] < ss[2]}
<1>1. IsWellFoundedOn(Less, Nat)
  BY NatLessThanWellFounded DEF OpToRel
<1>2. PICK m \in T : \A k \in T : <<k, m>> \notin Less
  <2> HIDE DEF Less
  <2> QED BY <1>1, WFMin
<1>3. ASSUME NEW k \in T, k < m PROVE FALSE
  <2>1. <<k, m>> \in Nat \X Nat /\ <<k, m>>[1] < <<k, m>>[2]
    BY <1>3
  <2>2. <<k, m>> \in Less
    BY <2>1, Zenon
  <2> QED BY <2>2, <1>2
<1> QED BY <1>3

(* Induction over 0..n, for a set instead of a predicate.                  *)
LEMMA UpTo ==
  ASSUME NEW n \in Nat, NEW G, 0 \in G, \A i \in 1..n : i - 1 \in G => i \in G
  PROVE  0..n \subseteq G
<1> DEFINE Bad == {i \in 0..n : i \notin G}
<1>1. SUFFICES ASSUME Bad # {} PROVE FALSE
  OBVIOUS
<1>2. PICK m \in Bad : \A k \in Bad : m <= k
  <2>1. Bad \in SUBSET Nat
    OBVIOUS
  <2> HIDE DEF Bad
  <2> QED BY <1>1, <2>1, LeastNatural
<1>3. m \in 1..n /\ m - 1 \in 0..n
  OBVIOUS
<1> QED BY <1>2, <1>3

(* Made, of any sequence of edits: the drafts they make one after another. *)
Drafts(s) ==
  CHOOSE d : d = [i \in 0..MaxEdits |->
                    IF i = 0 \/ i > Len(s) THEN D!Blank ELSE D!Applied(d[i - 1], s[i])]

LEMMA DraftsOf ==
  ASSUME NEW s
  PROVE  Drafts(s) = [i \in 0..MaxEdits |->
            IF i = 0 \/ i > Len(s) THEN D!Blank ELSE D!Applied(Drafts(s)[i - 1], s[i])]
<1> DEFINE Next1(d, i) == IF i = 0 \/ i > Len(s) THEN D!Blank ELSE D!Applied(d[i - 1], s[i])
           IsD(n, d) == d = [i \in 0..n |-> Next1(d, i)]
           G == {n \in 0..MaxEdits : \E d : IsD(n, d)}
<1>1. MaxEdits \in Nat
  BY ConsoleAssumption
<1>2. 0 \in G
  <2> DEFINE z == [i \in 0..0 |-> D!Blank]
  <2>1. \A i \in 0..0 : i = 0
    OBVIOUS
  <2>2. IsD(0, z)
    BY <2>1
  <2> HIDE DEF IsD, z
  <2> QED BY <1>1, <2>2
<1>3. ASSUME NEW m \in 1..MaxEdits, m - 1 \in G PROVE m \in G
  <2>1. PICK p : IsD(m - 1, p)
    BY <1>3
  <2> DEFINE q == [i \in 0..m |-> IF i = m THEN Next1(p, m) ELSE p[i]]
  <2>2. ASSUME NEW i \in 0..m PROVE q[i] = Next1(q, i)
    <3>1. i = 0 \/ (i - 1 \in 0..m /\ i - 1 # m /\ i - 1 \in 0..(m - 1))
      OBVIOUS
    <3>2. i # 0 => q[i - 1] = p[i - 1]
      BY <3>1
    <3>3. Next1(q, i) = Next1(p, i)
      BY <3>2
    <3>4. CASE i = m
      BY <3>3, <3>4
    <3>5. CASE i # m
      <4>1. i \in 0..(m - 1) /\ q[i] = p[i]
        BY <3>5
      <4>2. p[i] = Next1(p, i)
        <5> HIDE DEF Next1
        <5> QED BY <2>1, <4>1
      <4> QED BY <4>1, <4>2, <3>3
    <3> QED BY <3>4, <3>5
  <2>3. IsD(m, q)
    <3> HIDE DEF Next1
    <3>1. q = [i \in 0..m |-> q[i]]
      OBVIOUS
    <3> QED BY <2>2, <3>1
  <2> HIDE DEF IsD, q
  <2> QED BY <2>3, <1>1
<1>4. MaxEdits \in G
  <2> HIDE DEF G
  <2>1. 0..MaxEdits \subseteq G
    BY <1>1, <1>2, <1>3, UpTo
  <2> QED BY <1>1, <2>1
<1>5. \E d : IsD(MaxEdits, d)
  <2> HIDE DEF IsD
  <2> QED BY <1>4
<1> QED BY <1>5 DEF Drafts

(* One more edit leaves the drafts before it as they were.                 *)
LEMMA DraftsAppend ==
  ASSUME NEW S, NEW s \in Seq(S), NEW e \in S, Len(s) < MaxEdits
  PROVE  Drafts(Append(s, e))[Len(s) + 1] = D!Applied(Drafts(s)[Len(s)], e)
<1> DEFINE t == Append(s, e)
           A == Drafts(s)
           B == Drafts(t)
           n == Len(s)
           G == {i \in 0..n : A[i] = B[i]}
<1>1. MaxEdits \in Nat /\ n \in Nat /\ n + 1 \in 0..MaxEdits /\ n \in 0..MaxEdits
  BY ConsoleAssumption
<1>2. Len(t) = n + 1 /\ t[n + 1] = e /\ \A i \in 1..n : t[i] = s[i]
  OBVIOUS
<1> HIDE DEF t, n
<1>3. \A i \in 0..MaxEdits :
        /\ A[i] = IF i = 0 \/ i > n THEN D!Blank ELSE D!Applied(A[i - 1], s[i])
        /\ B[i] = IF i = 0 \/ i > n + 1 THEN D!Blank ELSE D!Applied(B[i - 1], t[i])
  <2>1. A = [i \in 0..MaxEdits |->
               IF i = 0 \/ i > n THEN D!Blank ELSE D!Applied(A[i - 1], s[i])]
    BY DraftsOf, Zenon DEF n
  <2>2. B = [i \in 0..MaxEdits |->
               IF i = 0 \/ i > Len(t) THEN D!Blank ELSE D!Applied(B[i - 1], t[i])]
    BY DraftsOf, Zenon
  <2> HIDE DEF A, B
  <2> QED BY <2>1, <2>2, <1>2
<1> HIDE DEF A, B
<1>4. 0 \in G
  BY <1>1, <1>3
<1>5. ASSUME NEW i \in 1..n, i - 1 \in G PROVE i \in G
  BY <1>1, <1>2, <1>3, <1>5
<1>6. A[n] = B[n]
  <2> HIDE DEF G
  <2>1. 0..n \subseteq G
    BY <1>1, <1>4, <1>5, UpTo
  <2>2. n \in G
    BY <1>1, <2>1
  <2> QED BY <2>2 DEF G
<1>7. B[n + 1] = D!Applied(B[n], e)
  BY <1>1, <1>2, <1>3
<1>8. B[n + 1] = D!Applied(A[n], e)
  BY <1>6, <1>7
<1> QED BY <1>8 DEF A, B, t, n

DraftRecords ==
  [revision : Nat, config : Configs \cup {D!Default}, over : [Keys -> Values \cup {Unset}]]
EditRecords == [change : D!Edits, strict : BOOLEAN, guarded : BOOLEAN]

DraftTypes ==
  /\ draft \in DraftRecords
  /\ lock \in SUBSET Editors
  /\ edit \in [Editors -> EditRecords \cup {<<>>}]
  /\ shown \in [Editors -> DraftRecords]
  /\ copy \in [Editors -> DraftRecords]
  /\ done \in Seq(D!Edits) /\ Len(done) <= MaxEdits
  /\ raced \in BOOLEAN

(* Whoever holds a lock has an edit and the draft as it is, and no other   *)
(* holds one; if the edit names a revision, that draft is the one its      *)
(* editor was shown.                                                       *)
Held ==
  \A e \in lock :
    /\ lock = {e}
    /\ edit[e] # <<>>
    /\ copy[e] = draft
    /\ edit[e].guarded => shown[e] = draft

(* A revision names one draft.                                             *)
Revised ==
  \A e \in Editors :
    /\ shown[e].revision <= draft.revision
    /\ shown[e].revision = draft.revision => shown[e] = draft

Kept == draft = Drafts(done)[Len(done)]

(* Whoever holds a lock, raced or not, has an edit in hand.                *)
Busy == \A e \in lock : edit[e] # <<>>

(* All of it but the types, until two processes edit at the same time.     *)
DraftInv == DraftTypes /\ Busy /\ (raced \/ (Held /\ Revised /\ Kept))

LEMMA BlankIs == D!Blank \in DraftRecords
BY ConsoleAssumption DEF D!Blank, D!None, DraftRecords

(* What an edit may change.                                                *)
LEMMA EditIs ==
  ASSUME NEW c \in D!Edits
  PROVE  /\ c.over \in [Keys -> Values \cup {Unset}]
         /\ c.config \in Configs \cup {Unset}
<1> DEFINE Some == [what : {"set"}, over : [Keys -> Values \cup {Unset}] \ {D!None}, config : {Unset}]
           One == [what : {"unset"},
                   over : {[k \in Keys |-> IF k = j THEN v ELSE Unset] : j \in Keys, v \in Values},
                   config : {Unset}]
           File == [what : {"set"}, over : {D!None}, config : Configs]
           Reset == [what : {"reset"}, over : {D!None}, config : {Unset}]
           Fine == c.over \in [Keys -> Values \cup {Unset}] /\ c.config \in Configs \cup {Unset}
<1>1. c \in Some => Fine
  OBVIOUS
<1>2. c \in One => Fine
  <2> SUFFICES ASSUME c \in One PROVE Fine
    OBVIOUS
  <2>1. PICK j \in Keys, v \in Values : c.over = [k \in Keys |-> IF k = j THEN v ELSE Unset]
    OBVIOUS
  <2> QED BY <2>1
<1>3. c \in File => Fine
  BY DEF D!None
<1>4. c \in Reset => Fine
  BY DEF D!None
<1>5. c \in Some \cup One \cup File \cup Reset
  BY DEF D!Edits
<1>6. Fine
  <2> HIDE DEF Some, One, File, Reset, Fine
  <2> QED BY <1>1, <1>2, <1>3, <1>4, <1>5
<1> QED BY <1>6

(* A commit makes a draft, of the next revision.                           *)
LEMMA AppliedIs ==
  ASSUME NEW d \in DraftRecords, NEW c \in D!Edits
  PROVE  /\ D!Applied(d, c) \in DraftRecords
         /\ D!Applied(d, c).revision = d.revision + 1
<1>1. /\ c.over \in [Keys -> Values \cup {Unset}]
      /\ c.config \in Configs \cup {Unset}
  BY EditIs
<1>2. D!Switched(d, c.config) \in DraftRecords
      /\ D!Switched(d, c.config).revision = d.revision
  <2>1. CASE c.config \in {Unset, d.config}
    BY <2>1 DEF D!Switched
  <2>2. CASE c.config \notin {Unset, d.config}
    <3>1. D!Switched(d, c.config) = [d EXCEPT !.config = c.config, !.over = D!None]
      BY <2>2 DEF D!Switched
    <3>2. D!None \in [Keys -> Values \cup {Unset}]
      BY DEF D!None
    <3> QED BY <1>1, <2>2, <3>1, <3>2 DEF DraftRecords
  <2> QED BY <2>1, <2>2
<1>3. ASSUME NEW o \in [Keys -> Values \cup {Unset}]
      PROVE  D!Change(o, c) \in [Keys -> Values \cup {Unset}]
  BY <1>1 DEF D!Change
<1> DEFINE Fine == /\ D!Applied(d, c) \in DraftRecords
                   /\ D!Applied(d, c).revision = d.revision + 1
<1>4. ASSUME c.what = "reset" PROVE Fine
  <2>1. D!Applied(d, c) = [D!Blank EXCEPT !.revision = d.revision + 1]
    BY <1>4 DEF D!Applied
  <2> QED BY <2>1, BlankIs DEF DraftRecords
<1>5. ASSUME c.what # "reset" PROVE Fine
  <2> DEFINE w == D!Switched(d, c.config)
  <2>1. D!Applied(d, c) = [w EXCEPT !.over = D!Change(@, c), !.revision = @ + 1]
    BY <1>5 DEF D!Applied
  <2> HIDE DEF w
  <2>2. w \in DraftRecords /\ w.revision = d.revision
    BY <1>2 DEF w
  <2>3. D!Change(w.over, c) \in [Keys -> Values \cup {Unset}]
    BY <1>3, <2>2 DEF DraftRecords
  <2> DEFINE v == [w EXCEPT !.over = D!Change(w.over, c)]
             n == w.revision + 1
  <2>4. D!Applied(d, c) = [v EXCEPT !.revision = n]
    BY <2>1
  <2>5. v \in DraftRecords
    BY <2>2, <2>3 DEF DraftRecords
  <2>6. n \in Nat /\ n = d.revision + 1
    BY <2>2 DEF DraftRecords
  <2> HIDE DEF v, n
  <2> QED BY <2>4, <2>5, <2>6 DEF DraftRecords
<1>6. Fine
  <2> HIDE DEF Fine
  <2> QED BY <1>4, <1>5
<1> QED BY <1>6

LEMMA DraftInit == D!Init => DraftInv
<1> SUFFICES ASSUME D!Init PROVE DraftInv
  OBVIOUS
<1>1. /\ draft = D!Blank /\ lock = {} /\ done = <<>> /\ raced = FALSE
      /\ edit = [e \in Editors |-> <<>>]
      /\ shown = [e \in Editors |-> D!Blank] /\ copy = [e \in Editors |-> D!Blank]
  BY DEF D!Init
<1>2. DraftTypes
  <2>1. raced \in BOOLEAN
    BY <1>1
  <2>2. draft \in DraftRecords /\ lock \in SUBSET Editors
        /\ shown \in [Editors -> DraftRecords] /\ copy \in [Editors -> DraftRecords]
    BY <1>1, BlankIs
  <2>3. edit \in [Editors -> EditRecords \cup {<<>>}]
    BY <1>1
  <2>4. done \in Seq(D!Edits) /\ Len(done) <= MaxEdits
    BY <1>1, ConsoleAssumption
  <2> QED BY <2>1, <2>2, <2>3, <2>4 DEF DraftTypes
<1>3. Busy /\ Held /\ Revised
  BY <1>1, BlankIs, ConsoleAssumption DEF Busy, Held, Revised, DraftRecords
<1>4. Kept
  <2> DEFINE d == Drafts(<<>>)
  <2>1. d = [i \in 0..MaxEdits |->
               IF i = 0 \/ i > Len(<<>>) THEN D!Blank ELSE D!Applied(d[i - 1], <<>>[i])]
    BY DraftsOf, Zenon
  <2> HIDE DEF d
  <2>2. 0 \in 0..MaxEdits
    BY ConsoleAssumption
  <2>3. d[0] = D!Blank
    BY <2>1, <2>2
  <2> QED BY <1>1, <2>3 DEF Kept, d
<1> QED BY <1>2, <1>3, <1>4 DEF DraftInv

LEMMA LoadKeeps ==
  ASSUME DraftInv, NEW e \in Editors, D!Load(e)
  PROVE  DraftInv'
<1>1. DraftTypes /\ Busy
  BY DEF DraftInv
<1>2. edit[e] = <<>> /\ shown' = [shown EXCEPT ![e] = draft]
      /\ draft' = draft /\ lock' = lock /\ edit' = edit /\ copy' = copy /\ done' = done
      /\ raced' = raced
  BY DEF D!Load
<1>3. DraftTypes' /\ Busy'
  BY <1>1, <1>2 DEF DraftTypes, Busy
<1>4. ASSUME Held, Revised, Kept PROVE Held' /\ Revised' /\ Kept'
  <2>1. Held' /\ Kept'
    BY <1>1, <1>2, <1>4 DEF DraftTypes, Held, Kept
  <2>2. Revised'
    BY <1>1, <1>2, <1>4 DEF DraftTypes, DraftRecords, Revised
  <2> QED BY <2>1, <2>2
<1> QED BY <1>2, <1>3, <1>4 DEF DraftInv

LEMMA AskKeeps ==
  ASSUME DraftInv, NEW e \in Editors, D!Ask(e)
  PROVE  DraftInv'
<1>1. DraftTypes /\ Busy
  BY DEF DraftInv
<1>2. PICK change \in D!Edits, strict \in BOOLEAN, guarded \in BOOLEAN :
         edit' = [edit EXCEPT ![e] = [change |-> change, strict |-> strict, guarded |-> guarded]]
  BY DEF D!Ask
<1>3. edit[e] = <<>> /\ draft' = draft /\ lock' = lock /\ shown' = shown
      /\ copy' = copy /\ done' = done /\ raced' = raced
  BY DEF D!Ask
<1>4. [change |-> change, strict |-> strict, guarded |-> guarded] \in EditRecords
  BY <1>2 DEF EditRecords
<1>5. DraftTypes'
  BY <1>1, <1>2, <1>3, <1>4 DEF DraftTypes
<1>6. e \notin lock
  BY <1>1, <1>3 DEF Busy
<1>7. \A f \in lock : edit'[f] = edit[f]
  BY <1>1, <1>2, <1>6 DEF DraftTypes
<1>8. Busy'
  BY <1>1, <1>3, <1>7 DEF Busy
<1>9. ASSUME Held, Revised, Kept PROVE Held' /\ Revised' /\ Kept'
  BY <1>3, <1>7, <1>9 DEF Held, Revised, Kept
<1> QED BY <1>3, <1>5, <1>8, <1>9 DEF DraftInv

LEMMA AcquireKeeps ==
  ASSUME DraftInv, NEW e \in Editors, D!Acquire(e)
  PROVE  DraftInv'
<1>1. DraftTypes /\ Busy
  BY DEF DraftInv
<1>2. edit[e] # <<>> /\ lock \cap D!Beside(e) = {}
      /\ draft' = draft /\ shown' = shown /\ done' = done
  BY DEF D!Acquire
<1>3. e \notin lock
  BY <1>2 DEF D!Beside
<1>4. CASE edit[e].guarded /\ shown[e].revision # draft.revision
  <2>1. edit' = [edit EXCEPT ![e] = <<>>] /\ lock' = lock /\ copy' = copy /\ raced' = raced
    BY <1>4 DEF D!Acquire
  <2>2. \A f \in lock : edit'[f] = edit[f]
    BY <1>1, <1>3, <2>1 DEF DraftTypes
  <2>3. DraftTypes' /\ Busy'
    BY <1>1, <1>2, <2>1, <2>2 DEF DraftTypes, Busy
  <2>4. ASSUME Held, Revised, Kept PROVE Held' /\ Revised' /\ Kept'
    BY <1>2, <2>1, <2>2, <2>4 DEF Held, Revised, Kept
  <2> QED BY <2>1, <2>3, <2>4 DEF DraftInv
<1>5. CASE ~(edit[e].guarded /\ shown[e].revision # draft.revision)
  <2>1. lock' = lock \cup {e} /\ copy' = [copy EXCEPT ![e] = draft] /\ edit' = edit
        /\ raced' = (raced \/ lock # {})
    BY <1>5 DEF D!Acquire, D!Current
  <2>2. raced' \in BOOLEAN
    BY <2>1
  <2>3. DraftTypes'
    BY <1>1, <1>2, <2>1, <2>2 DEF DraftTypes
  <2>4. Busy'
    BY <1>1, <1>2, <2>1 DEF Busy
  <2>5. ASSUME ~raced, lock = {}, Revised, Kept PROVE Held' /\ Revised' /\ Kept'
    <3>1. Revised' /\ Kept'
      BY <1>2, <2>5 DEF Revised, Kept
    <3>2. edit[e].guarded => shown[e] = draft
      BY <1>5, <2>5 DEF Revised
    <3>3. lock' = {e} /\ copy'[e] = draft'
      BY <1>1, <1>2, <2>1, <2>5 DEF DraftTypes
    <3>4. Held'
      BY <1>2, <2>1, <3>2, <3>3 DEF Held
    <3> QED BY <3>1, <3>4
  <2>6. raced' \/ (Held' /\ Revised' /\ Kept')
    BY <2>1, <2>5 DEF DraftInv
  <2> QED BY <2>3, <2>4, <2>6 DEF DraftInv
<1> QED BY <1>4, <1>5

LEMMA CommitKeeps ==
  ASSUME DraftInv, NEW e \in Editors, D!Commit(e)
  PROVE  DraftInv'
<1>1. DraftTypes /\ Busy
  BY DEF DraftInv
<1>2. /\ e \in lock /\ Len(done) < MaxEdits
      /\ draft' = D!Applied(copy[e], edit[e].change)
      /\ shown' = [shown EXCEPT ![e] = draft']
      /\ done' = Append(done, edit[e].change)
      /\ edit' = [edit EXCEPT ![e] = <<>>]
      /\ lock' = lock \ {e}
      /\ copy' = [copy EXCEPT ![e] = D!Blank]
      /\ raced' = raced
  BY DEF D!Commit
<1> DEFINE c == edit[e].change
<1>3. edit[e] \in EditRecords /\ c \in D!Edits /\ copy[e] \in DraftRecords
  BY <1>1, <1>2 DEF DraftTypes, EditRecords, Busy
<1> HIDE DEF c
<1>4. draft' = D!Applied(copy[e], c) /\ done' = Append(done, c)
  BY <1>2 DEF c
<1>5. draft' \in DraftRecords /\ draft'.revision = copy[e].revision + 1
  BY <1>3, <1>4, AppliedIs
<1>6. done \in Seq(D!Edits) /\ Len(done) \in Nat /\ MaxEdits \in Nat
  BY <1>1, ConsoleAssumption DEF DraftTypes
<1>7. DraftTypes'
  <2>1. done' \in Seq(D!Edits) /\ Len(done') <= MaxEdits
    BY <1>2, <1>3, <1>4, <1>6
  <2> QED BY <1>1, <1>2, <1>5, <2>1, BlankIs DEF DraftTypes
<1>8. Busy'
  BY <1>1, <1>2 DEF DraftTypes, Busy
<1>9. ASSUME Held, Revised, Kept PROVE Held' /\ Revised' /\ Kept'
  <2>1. copy[e] = draft /\ lock' = {} /\ draft \in DraftRecords
    BY <1>1, <1>2, <1>9 DEF Held, DraftTypes
  <2>2. Held'
    BY <2>1 DEF Held
  <2>3. Revised'
    BY <1>1, <1>2, <1>5, <1>9, <2>1 DEF DraftTypes, DraftRecords, Revised
  <2>4. Drafts(done')[Len(done) + 1] = D!Applied(draft, c)
    BY <1>2, <1>3, <1>4, <1>6, <1>9, DraftsAppend DEF Kept
  <2>5. Len(done') = Len(done) + 1
    BY <1>3, <1>4, <1>6
  <2>6. Kept'
    BY <1>4, <2>1, <2>4, <2>5 DEF Kept
  <2> QED BY <2>2, <2>3, <2>6
<1> QED BY <1>2, <1>7, <1>8, <1>9 DEF DraftInv

LEMMA DraftStep == DraftInv /\ [D!Next]_drafts => DraftInv'
<1> SUFFICES ASSUME DraftInv, [D!Next]_drafts PROVE DraftInv'
  OBVIOUS
<1>1. DraftTypes /\ Busy
  BY DEF DraftInv
<1>2. CASE UNCHANGED drafts
  BY <1>2 DEF drafts, DraftInv, DraftTypes, Busy, Held, Revised, Kept
<1>3. ASSUME NEW p \in SUBSET Editors, D!Restart(p) PROVE DraftInv'
  <2>1. /\ lock' = lock \ p
        /\ edit' = [e \in Editors |-> IF e \in p THEN <<>> ELSE edit[e]]
        /\ copy' = [e \in Editors |-> IF e \in p THEN D!Blank ELSE copy[e]]
        /\ draft' = draft /\ shown' = shown /\ done' = done /\ raced' = raced
    BY <1>3 DEF D!Restart
  <2>2. DraftTypes'
    BY <1>1, <2>1, BlankIs DEF DraftTypes
  <2>3. lock' \subseteq lock /\ \A e \in lock' : edit'[e] = edit[e] /\ copy'[e] = copy[e]
    BY <1>1, <2>1 DEF DraftTypes
  <2>4. Busy'
    BY <1>1, <2>3 DEF Busy
  <2>5. ASSUME Held, Revised, Kept PROVE Held' /\ Revised' /\ Kept'
    BY <2>1, <2>3, <2>5 DEF Held, Revised, Kept
  <2> QED BY <2>1, <2>2, <2>4, <2>5 DEF DraftInv
<1>4. ASSUME NEW e \in Editors, D!Editing(e) PROVE DraftInv'
  BY <1>4, LoadKeeps, AskKeeps, AcquireKeeps, CommitKeeps DEF D!Editing
<1>5. \A e \in Editors : D!Beside(e) \in SUBSET Editors
  BY DEF D!Beside
<1>6. CASE D!Next
  BY <1>3, <1>4, <1>5, <1>6 DEF D!Next
<1> QED BY <1>2, <1>6

LEMMA DraftGivesEdits == DraftInv => EditsKept
<1> SUFFICES ASSUME DraftInv, ~raced PROVE D!EditsKept
  BY DEF EditsKept, D!EditsKept
<1>1. D!Made = Drafts(done)
  BY DEF D!Made, Drafts
<1>2. draft = D!Made[Len(done)]
  BY <1>1 DEF DraftInv, Kept
<1>3. \A e \in lock : edit[e].guarded => copy[e] = shown[e]
  BY DEF DraftInv, Held
<1> QED BY <1>2, <1>3 DEF D!EditsKept

-----------------------------------------------------------------------------
(* Launches.                                                               *)

RunIds == Runs \cup {NoRun}
Records == [run : RunIds, status : L!Statuses, stop : BOOLEAN, pid : BOOLEAN]
Pages == Records \cup {<<>>}

LaunchTypes ==
  /\ memory \in [Launches -> Records]
  /\ listed \in SUBSET Launches
  /\ disk \in [Launches -> Pages]
  /\ paper \in [Launches -> [L!Writers -> Pages]]
  /\ thread \in [Launches -> {"none", "checked", "listed", "spawned", "watch",
                              "naming", "settled", "follow", "over"}]
  /\ child \in [Launches -> {"none", "alive", "dead", "stolen"}]
  /\ exit \in [Launches -> L!Exits]
  /\ works \in [Launches -> RunIds]
  /\ made \in Seq(Runs)
  /\ rows \in [Runs -> L!Statuses]

(* What a record on its way to disk, or on disk, is good for: it has the   *)
(* pid or says the launch was stopped, which memory says too, and if it    *)
(* says neither stopped nor running, the child runs no more.               *)
Tells(l, record) ==
  record # <<>> =>
    /\ record.pid \/ record.stop
    /\ record.stop => memory[l].stop
    /\ record.status # "running" /\ ~record.stop => child[l] # "alive"

(* Before its child is started, a launch is running wherever it is named.  *)
Unstarted(l) ==
  thread[l] \in {"none", "checked", "listed"} =>
    /\ child[l] = "none" /\ memory[l].status = "running"
    /\ disk[l] # <<>> => disk[l].status = "running"
    /\ \A w \in L!Writers : paper[l][w] # <<>> => paper[l][w].status = "running"

(* A launch not yet asked for is nowhere.                                  *)
Unasked(l) ==
  thread[l] = "none" =>
    /\ l \notin listed /\ disk[l] = <<>>
    /\ \A w \in L!Writers : paper[l][w] = <<>>

(* While a console has threads for a launch that started, it has its pid;  *)
(* without a console there is neither a thread nor a save under way.       *)
Attended(l) ==
  /\ thread[l] \in {"spawned", "watch", "naming", "settled", "follow"} => memory[l].pid
  /\ ~up => thread[l] \in {"none", "over"} /\ \A w \in L!Writers : paper[l][w] = <<>>

Truthful(l) ==
  /\ Tells(l, disk[l])
  /\ \A w \in L!Writers : Tells(l, paper[l][w])
  /\ memory[l].status # "running" /\ ~memory[l].stop => child[l] # "alive"

LaunchOk(l) == Unstarted(l) /\ Unasked(l) /\ Attended(l) /\ Truthful(l)
LaunchInv == LaunchTypes /\ \A l \in Launches : LaunchOk(l)

LEMMA LaunchInit == L!Init => LaunchInv
<1> SUFFICES ASSUME L!Init PROVE LaunchInv
  OBVIOUS
<1>1. /\ memory = [l \in Launches |-> L!Blank] /\ listed = {}
      /\ disk = [l \in Launches |-> <<>>]
      /\ paper = [l \in Launches |-> [w \in L!Writers |-> <<>>]]
      /\ thread = [l \in Launches |-> "none"]
      /\ child = [l \in Launches |-> "none"]
      /\ exit = [l \in Launches |-> "failed"]
      /\ works = [l \in Launches |-> NoRun]
      /\ rows = [r \in Runs |-> "ended"]
      /\ up = TRUE
  BY DEF L!Init
<1>2. made \in Seq(Runs)
  <2>1. PICK r \in Runs : made = <<r>>
    BY DEF L!Init
  <2> QED BY <2>1
<1>3. /\ L!Blank \in Records /\ L!Blank.status = "running"
      /\ "failed" \in L!Exits /\ "ended" \in L!Statuses
  BY DEF L!Blank, Records, RunIds, L!Statuses, L!Exits
<1>4. LaunchTypes
  BY <1>1, <1>2, <1>3 DEF LaunchTypes, Pages, RunIds
<1>5. ASSUME NEW l \in Launches PROVE LaunchOk(l)
  BY <1>1, <1>3 DEF LaunchOk, Unstarted, Unasked, Attended, Truthful, Tells
<1> QED BY <1>4, <1>5 DEF LaunchInv

(* A launch that a step leaves alone, or of which it ends the child, is as *)
(* it was.                                                                 *)
LEMMA Apart ==
  ASSUME NEW l \in Launches, LaunchOk(l), up' = up,
         memory'[l] = memory[l], disk'[l] = disk[l], paper'[l] = paper[l],
         thread'[l] = thread[l], l \in listed' => l \in listed,
         child'[l] = child[l] \/ (child[l] # "none" /\ child'[l] # "alive")
  PROVE  LaunchOk(l)'
<1>1. Unstarted(l)'
  BY DEF LaunchOk, Unstarted
<1>2. Unasked(l)' /\ Attended(l)'
  BY DEF LaunchOk, Unasked, Attended
<1>3. Truthful(l)'
  BY DEF LaunchOk, Truthful, Tells
<1> QED BY <1>1, <1>2, <1>3 DEF LaunchOk

(* The runs there are, and the newest of those that were not there before. *)
LEMMA NewestIs ==
  ASSUME LaunchTypes, NEW l \in Launches
  PROVE  L!Newest(l) \in RunIds
<1>1. made \in Seq(Runs) /\ Len(made) \in Nat /\ DOMAIN made = 1..Len(made)
  BY DEF LaunchTypes
<1> DEFINE fresh == {i \in DOMAIN made : made[i] \in L!Here \ before[l]}
           last == CHOOSE i \in fresh : \A j \in fresh : j <= i
<1>2. CASE fresh = {}
  BY <1>2 DEF L!Newest, RunIds
<1>3. CASE fresh # {}
  <2> DEFINE back == {Len(made) - i : i \in fresh}
  <2>1. back \in SUBSET Nat /\ back # {}
    BY <1>1, <1>3
  <2>2. PICK m \in back : \A k \in back : m <= k
    <3> HIDE DEF back
    <3> QED BY <2>1, LeastNatural
  <2>3. PICK i \in fresh : m = Len(made) - i
    BY <2>2
  <2>4. ASSUME NEW j \in fresh PROVE j <= i
    <3>1. Len(made) - j \in back
      OBVIOUS
    <3>2. m <= Len(made) - j
      <4> HIDE DEF back
      <4> QED BY <2>2, <3>1
    <3> QED BY <1>1, <2>3, <3>2
  <2>5. last \in fresh
    <3> HIDE DEF fresh
    <3> QED BY <2>3, <2>4
  <2>6. made[last] \in Runs
    BY <1>1, <2>5
  <2> QED BY <1>3, <2>6 DEF L!Newest, RunIds
<1> QED BY <1>2, <1>3

LEMMA HereIs == LaunchTypes => L!Here \in SUBSET Runs
BY DEF LaunchTypes, L!Here

(* A step of one launch leaves the others alone.                           *)
LEMMA OnlyOne ==
  ASSUME LaunchInv, NEW l \in Launches, LaunchTypes', up' = up, LaunchOk(l)',
         \A m \in Launches \ {l} :
            /\ memory'[m] = memory[m] /\ disk'[m] = disk[m] /\ paper'[m] = paper[m]
            /\ thread'[m] = thread[m] /\ child'[m] = child[m]
            /\ m \in listed' => m \in listed
  PROVE  LaunchInv'
<1>1. ASSUME NEW m \in Launches PROVE LaunchOk(m)'
  <2>1. CASE m = l
    BY <2>1
  <2>2. CASE m # l
    <3>1. /\ LaunchOk(m)
          /\ memory'[m] = memory[m] /\ disk'[m] = disk[m] /\ paper'[m] = paper[m]
          /\ thread'[m] = thread[m] /\ child'[m] = child[m]
          /\ m \in listed' => m \in listed
      BY <2>2 DEF LaunchInv
    <3> QED BY <3>1, Apart
  <2> QED BY <2>1, <2>2
<1> QED BY <1>1 DEF LaunchInv

LEMMA CheckKeeps ==
  ASSUME LaunchInv, NEW l \in Launches, L!Check(l)
  PROVE  LaunchInv'
<1>1. LaunchTypes /\ LaunchOk(l)
  BY DEF LaunchInv
<1>2. PICK r \in IF kind[l] = "pipeline" THEN {NoRun} ELSE L!Here :
         memory' = [memory EXCEPT ![l].run = r]
  BY DEF L!Check
<1>3. /\ up /\ thread[l] = "none" /\ thread' = [thread EXCEPT ![l] = "checked"]
      /\ up' = up /\ listed' = listed /\ disk' = disk /\ paper' = paper
      /\ child' = child /\ exit' = exit /\ works' = works /\ made' = made /\ rows' = rows
  BY DEF L!Check, L!childVars
<1>4. r \in RunIds
  BY <1>1, <1>2, HereIs DEF RunIds
<1>5. /\ memory' \in [Launches -> Records]
      /\ memory'[l].status = memory[l].status /\ memory'[l].stop = memory[l].stop
      /\ memory'[l].pid = memory[l].pid
      /\ \A m \in Launches \ {l} : memory'[m] = memory[m]
  BY <1>1, <1>2, <1>4 DEF LaunchTypes, Records
<1>6. LaunchTypes'
  BY <1>1, <1>3, <1>5 DEF LaunchTypes
<1>7. thread'[l] = "checked" /\ \A m \in Launches \ {l} : thread'[m] = thread[m]
  BY <1>1, <1>3 DEF LaunchTypes
<1>8. LaunchOk(l)'
  BY <1>1, <1>3, <1>5, <1>7 DEF LaunchOk, Unstarted, Unasked, Attended, Truthful, Tells
<1> QED BY <1>3, <1>5, <1>6, <1>7, <1>8, OnlyOne

LEMMA InsertKeeps ==
  ASSUME LaunchInv, NEW l \in Launches, L!Insert(l)
  PROVE  LaunchInv'
<1>1. LaunchTypes /\ LaunchOk(l)
  BY DEF LaunchInv
<1>2. /\ up /\ thread[l] = "checked" /\ thread' = [thread EXCEPT ![l] = "listed"]
      /\ listed' = listed \cup {l}
      /\ up' = up /\ memory' = memory /\ disk' = disk /\ paper' = paper
      /\ child' = child /\ exit' = exit /\ works' = works /\ made' = made /\ rows' = rows
  BY DEF L!Insert, L!childVars
<1>3. LaunchTypes'
  BY <1>1, <1>2 DEF LaunchTypes
<1>4. thread'[l] = "listed" /\ \A m \in Launches \ {l} : thread'[m] = thread[m]
  BY <1>1, <1>2 DEF LaunchTypes
<1>5. LaunchOk(l)'
  BY <1>1, <1>2, <1>4 DEF LaunchOk, Unstarted, Unasked, Attended, Truthful, Tells
<1> QED BY <1>2, <1>3, <1>4, <1>5, OnlyOne

(* One page of one launch changes.                                         *)
LEMMA PageIs ==
  ASSUME NEW f \in [Launches -> [L!Writers -> Pages]], NEW l \in Launches,
         NEW w \in L!Writers, NEW page \in Pages, NEW g, g = [f EXCEPT ![l][w] = page]
  PROVE  /\ g \in [Launches -> [L!Writers -> Pages]]
         /\ g[l][w] = page
         /\ \A v \in L!Writers \ {w} : g[l][v] = f[l][v]
         /\ \A m \in Launches \ {l} : g[m] = f[m]
OBVIOUS

LEMMA SpawnKeeps ==
  ASSUME LaunchInv, NEW l \in Launches, L!Spawn(l)
  PROVE  LaunchInv'
<1>1. LaunchTypes /\ LaunchOk(l) /\ "thread" \in L!Writers
  BY DEF LaunchInv, L!Writers
<1>2. /\ up /\ thread[l] = "listed" /\ thread' = [thread EXCEPT ![l] = "spawned"]
      /\ memory' = [memory EXCEPT ![l].pid = TRUE]
      /\ paper' = [paper EXCEPT ![l]["thread"] = memory'[l]]
      /\ child' = [child EXCEPT ![l] = "alive"]
      /\ works' = [works EXCEPT ![l] = memory[l].run]
      /\ up' = up /\ listed' = listed /\ disk' = disk
      /\ exit' = exit /\ made' = made /\ rows' = rows
  BY DEF L!Spawn
<1>3. /\ memory' \in [Launches -> Records] /\ memory'[l] \in Pages
      /\ memory'[l].status = memory[l].status /\ memory'[l].stop = memory[l].stop
      /\ memory'[l].pid = TRUE
      /\ \A m \in Launches \ {l} : memory'[m] = memory[m]
  BY <1>1, <1>2 DEF LaunchTypes, Records, Pages
<1>4. /\ paper' \in [Launches -> [L!Writers -> Pages]]
      /\ paper'[l]["thread"] = memory'[l]
      /\ \A v \in L!Writers \ {"thread"} : paper'[l][v] = paper[l][v]
      /\ \A m \in Launches \ {l} : paper'[m] = paper[m]
  BY <1>1, <1>2, <1>3, PageIs DEF LaunchTypes
<1>5. memory[l].run \in RunIds
  BY <1>1 DEF LaunchTypes, Records
<1>6. LaunchTypes'
  BY <1>1, <1>2, <1>3, <1>4, <1>5 DEF LaunchTypes
<1>7. /\ thread'[l] = "spawned" /\ child'[l] = "alive"
      /\ \A m \in Launches \ {l} : thread'[m] = thread[m] /\ child'[m] = child[m]
  BY <1>1, <1>2 DEF LaunchTypes
<1>8. /\ memory[l].status = "running"
      /\ disk[l] # <<>> => disk[l].status = "running"
      /\ \A w \in L!Writers : paper[l][w] # <<>> => paper[l][w].status = "running"
  BY <1>1, <1>2 DEF LaunchOk, Unstarted
<1>9. Truthful(l)'
  <2>1. Tells(l, disk[l])'
    BY <1>1, <1>2, <1>3, <1>8 DEF LaunchOk, Truthful, Tells
  <2>2. ASSUME NEW w \in L!Writers PROVE Tells(l, paper[l][w])'
    <3>1. CASE w = "thread"
      BY <3>1, <1>3, <1>4, <1>8 DEF Tells
    <3>2. CASE w # "thread"
      <4>1. paper'[l][w] = paper[l][w]
        BY <3>2, <1>4
      <4>2. Tells(l, paper[l][w])
        BY <1>1 DEF LaunchOk, Truthful
      <4> QED BY <4>1, <4>2, <1>3, <1>8 DEF Tells
    <3> QED BY <3>1, <3>2
  <2> QED BY <2>1, <2>2, <1>3, <1>8 DEF Truthful
<1>10. Unstarted(l)' /\ Unasked(l)' /\ Attended(l)'
  BY <1>2, <1>3, <1>7 DEF Unstarted, Unasked, Attended
<1>11. LaunchOk(l)'
  BY <1>9, <1>10 DEF LaunchOk
<1> QED BY <1>2, <1>3, <1>4, <1>6, <1>7, <1>11, OnlyOne

(* The file is replaced by the page that was read.                         *)
LEMMA ReplaceKeeps ==
  ASSUME LaunchInv, NEW l \in Launches, NEW w \in L!Writers, L!Replace(l, w)
  PROVE  LaunchInv'
<1> DEFINE page == paper[l][w]
<1>1. LaunchTypes /\ LaunchOk(l) /\ page \in Pages
  BY DEF LaunchInv, LaunchTypes
<1>2. /\ up /\ page # <<>>
      /\ disk' = [disk EXCEPT ![l] = page]
      /\ paper' = [paper EXCEPT ![l][w] = <<>>]
      /\ thread' = IF w = "thread" THEN [thread EXCEPT ![l] = L!After(thread[l])] ELSE thread
      /\ up' = up /\ memory' = memory /\ listed' = listed
      /\ child' = child /\ exit' = exit /\ works' = works /\ made' = made /\ rows' = rows
  BY DEF L!Replace, L!childVars
<1>3. /\ Tells(l, page)
      /\ thread[l] \in {"none", "checked", "listed"} => page.status = "running"
  BY <1>1, <1>2 DEF LaunchOk, Truthful, Unstarted
<1> HIDE DEF page
<1>4. /\ paper' \in [Launches -> [L!Writers -> Pages]]
      /\ paper'[l][w] = <<>>
      /\ \A v \in L!Writers \ {w} : paper'[l][v] = paper[l][v]
      /\ \A m \in Launches \ {l} : paper'[m] = paper[m]
  <2>1. <<>> \in Pages
    BY DEF Pages
  <2> QED BY <1>1, <1>2, <2>1, PageIs DEF LaunchTypes
<1>5. /\ disk' \in [Launches -> Pages] /\ disk'[l] = page
      /\ \A m \in Launches \ {l} : disk'[m] = disk[m]
  BY <1>1, <1>2 DEF LaunchTypes
<1>6. \/ thread' = thread
      \/ /\ thread[l] = "spawned" \/ thread[l] = "naming"
         /\ thread' = [thread EXCEPT ![l] = "watch"]
      \/ thread[l] = "settled" /\ thread' = [thread EXCEPT ![l] = "over"]
  BY <1>1, <1>2 DEF L!After, LaunchTypes
<1>7. LaunchTypes'
  <2>1. thread' \in [Launches -> {"none", "checked", "listed", "spawned", "watch",
                                  "naming", "settled", "follow", "over"}]
    BY <1>1, <1>6 DEF LaunchTypes
  <2> QED BY <1>1, <1>2, <1>4, <1>5, <2>1 DEF LaunchTypes
<1>8. /\ \A m \in Launches \ {l} : thread'[m] = thread[m]
      /\ \/ thread'[l] = thread[l]
         \/ /\ thread[l] \in {"spawned", "naming", "settled"}
            /\ thread'[l] \in {"watch", "over"}
  BY <1>1, <1>6 DEF LaunchTypes
<1>9. thread[l] # "none"
  <2>1. thread[l] = "none" => page = <<>>
    BY <1>1 DEF LaunchOk, Unasked, page
  <2> QED BY <1>2, <2>1
<1>10. Truthful(l)'
  <2>1. Tells(l, disk[l])'
    BY <1>2, <1>3, <1>5 DEF Tells
  <2>2. ASSUME NEW v \in L!Writers PROVE Tells(l, paper[l][v])'
    <3>1. CASE v = w
      BY <3>1, <1>4 DEF Tells
    <3>2. CASE v # w
      BY <3>2, <1>1, <1>2, <1>4 DEF LaunchOk, Truthful, Tells
    <3> QED BY <3>1, <3>2
  <2> QED BY <2>1, <2>2, <1>1, <1>2 DEF LaunchOk, Truthful
<1>11. Unstarted(l)'
  <2> SUFFICES ASSUME thread'[l] \in {"none", "checked", "listed"} PROVE Unstarted(l)'
    BY DEF Unstarted
  <2>1. thread'[l] = thread[l]
    BY <1>8
  <2>2. \A v \in L!Writers : paper'[l][v] # <<>> => paper'[l][v].status = "running"
    BY <1>1, <1>4, <2>1 DEF LaunchOk, Unstarted
  <2> QED BY <1>1, <1>2, <1>3, <1>5, <2>1, <2>2 DEF LaunchOk, Unstarted
<1>12. Unasked(l)' /\ Attended(l)'
  BY <1>1, <1>2, <1>8, <1>9 DEF LaunchOk, Unasked, Attended
<1>13. LaunchOk(l)'
  BY <1>10, <1>11, <1>12 DEF LaunchOk
<1> QED BY <1>2, <1>4, <1>5, <1>7, <1>8, <1>13, OnlyOne

(* The launch's own thread changes the record and reads it for its save:   *)
(* the pid stays, and a status other than running means an ended child.    *)
LEMMA ThreadKeeps ==
  ASSUME LaunchInv, NEW l \in Launches, NEW x \in Records, NEW t, up,
         t \in {"naming", "settled"},
         thread[l] \in {"watch", "follow"},
         thread' = [thread EXCEPT ![l] = t],
         memory' = [memory EXCEPT ![l] = x],
         paper' = [paper EXCEPT ![l]["thread"] = memory'[l]],
         x.pid = memory[l].pid, x.stop = memory[l].stop,
         x.status = memory[l].status \/ child[l] # "alive",
         up' = up, listed' = listed, disk' = disk, child' = child, exit' = exit,
         works' = works, made' = made, rows' = rows
  PROVE  LaunchInv'
<1>1. LaunchTypes /\ LaunchOk(l) /\ "thread" \in L!Writers
  BY DEF LaunchInv, L!Writers
<1>2. /\ memory' \in [Launches -> Records] /\ memory'[l] = x /\ x \in Pages
      /\ \A m \in Launches \ {l} : memory'[m] = memory[m]
  BY <1>1 DEF LaunchTypes, Pages
<1>3. /\ paper' \in [Launches -> [L!Writers -> Pages]]
      /\ paper'[l]["thread"] = x
      /\ \A v \in L!Writers \ {"thread"} : paper'[l][v] = paper[l][v]
      /\ \A m \in Launches \ {l} : paper'[m] = paper[m]
  <2>1. paper' = [paper EXCEPT ![l]["thread"] = x]
    BY <1>2
  <2> QED BY <1>1, <1>2, <2>1, PageIs DEF LaunchTypes
<1>4. thread'[l] = t /\ \A m \in Launches \ {l} : thread'[m] = thread[m]
  BY <1>1 DEF LaunchTypes
<1>5. LaunchTypes'
  BY <1>1, <1>2, <1>3 DEF LaunchTypes
<1>6. memory[l].pid
  BY <1>1 DEF LaunchOk, Attended
<1>7. x.status # "running" /\ ~x.stop => child[l] # "alive"
  BY <1>1 DEF LaunchOk, Truthful
<1>8. Truthful(l)'
  <2>1. Tells(l, disk[l])'
    BY <1>1, <1>2 DEF LaunchOk, Truthful, Tells
  <2>2. ASSUME NEW v \in L!Writers PROVE Tells(l, paper[l][v])'
    <3>1. CASE v = "thread"
      BY <3>1, <1>2, <1>3, <1>6, <1>7 DEF Tells
    <3>2. CASE v # "thread"
      BY <3>2, <1>1, <1>2, <1>3 DEF LaunchOk, Truthful, Tells
    <3> QED BY <3>1, <3>2
  <2> QED BY <2>1, <2>2, <1>2, <1>7 DEF Truthful
<1>9. Unstarted(l)' /\ Unasked(l)' /\ Attended(l)'
  BY <1>2, <1>4, <1>6 DEF Unstarted, Unasked, Attended
<1>10. LaunchOk(l)'
  BY <1>8, <1>9 DEF LaunchOk
<1> QED BY <1>2, <1>3, <1>4, <1>5, <1>10, OnlyOne

LEMMA NameKeeps ==
  ASSUME LaunchInv, NEW l \in Launches, L!Name(l)
  PROVE  LaunchInv'
<1> DEFINE x == [memory[l] EXCEPT !.run = L!Newest(l)]
<1>1. LaunchTypes
  BY DEF LaunchInv
<1>2. /\ up /\ thread[l] = "watch" /\ thread' = [thread EXCEPT ![l] = "naming"]
      /\ paper' = [paper EXCEPT ![l]["thread"] = memory'[l]]
      /\ up' = up /\ listed' = listed /\ disk' = disk /\ child' = child /\ exit' = exit
      /\ works' = works /\ made' = made /\ rows' = rows
  BY DEF L!Name, L!childVars
<1>3. memory' = [memory EXCEPT ![l] = x]
  BY <1>1 DEF L!Name, LaunchTypes
<1>4. /\ x \in Records /\ x.pid = memory[l].pid /\ x.stop = memory[l].stop
      /\ x.status = memory[l].status
  BY <1>1, NewestIs DEF LaunchTypes, Records
<1> HIDE DEF x
<1> QED BY <1>2, <1>3, <1>4, ThreadKeeps

LEMMA SettleKeeps ==
  ASSUME LaunchInv, NEW l \in Launches, L!Settle(l)
  PROVE  LaunchInv'
<1> DEFINE r == IF memory[l].run = NoRun THEN L!Newest(l) ELSE memory[l].run
           s == L!StatusFor(exit[l], memory[l].stop)
           x == [[memory[l] EXCEPT !.run = r] EXCEPT !.status = s]
<1>1. LaunchTypes
  BY DEF LaunchInv
<1>2. /\ up /\ thread[l] = "watch" /\ thread' = [thread EXCEPT ![l] = "settled"]
      /\ child[l] = "dead"
      /\ paper' = [paper EXCEPT ![l]["thread"] = memory'[l]]
      /\ up' = up /\ listed' = listed /\ disk' = disk /\ child' = child /\ exit' = exit
      /\ works' = works /\ made' = made /\ rows' = rows
  BY DEF L!Settle, L!childVars
<1>3. memory' = [memory EXCEPT ![l] = x]
  BY <1>1 DEF L!Settle, LaunchTypes
<1>4. r \in RunIds /\ s \in L!Statuses
  BY <1>1, NewestIs DEF LaunchTypes, Records, L!StatusFor, L!Statuses, L!Exits
<1>5. /\ x \in Records /\ x.pid = memory[l].pid /\ x.stop = memory[l].stop
  <2> DEFINE named == [memory[l] EXCEPT !.run = r]
  <2>1. named \in Records /\ named.pid = memory[l].pid /\ named.stop = memory[l].stop
    BY <1>1, <1>4 DEF LaunchTypes, Records
  <2> HIDE DEF s
  <2>2. x = [named EXCEPT !.status = s]
    OBVIOUS
  <2> HIDE DEF named, x
  <2> QED BY <1>4, <2>1, <2>2 DEF Records
<1> HIDE DEF x
<1> QED BY <1>2, <1>3, <1>5, ThreadKeeps

LEMMA FollowKeeps ==
  ASSUME LaunchInv, NEW l \in Launches, L!Follow(l)
  PROVE  LaunchInv'
<1> DEFINE s == L!StatusFor(L!Outcome(l), memory[l].stop)
           x == [memory[l] EXCEPT !.status = s]
<1>1. LaunchTypes /\ LaunchOk(l)
  BY DEF LaunchInv
<1>2. /\ up /\ thread[l] = "follow" /\ thread' = [thread EXCEPT ![l] = "settled"]
      /\ ~L!Alive(l)
      /\ paper' = [paper EXCEPT ![l]["thread"] = memory'[l]]
      /\ up' = up /\ listed' = listed /\ disk' = disk /\ child' = child /\ exit' = exit
      /\ works' = works /\ made' = made /\ rows' = rows
  BY DEF L!Follow, L!childVars
<1>3. memory' = [memory EXCEPT ![l] = x]
  BY <1>1 DEF L!Follow, LaunchTypes
<1>4. child[l] # "alive"
  BY <1>1, <1>2 DEF LaunchOk, Attended, L!Alive
<1>5. L!Outcome(l) \in L!Statuses
  BY <1>1, HereIs DEF LaunchTypes, L!Outcome, L!Statuses
<1>6. s \in L!Statuses
  BY <1>5 DEF L!StatusFor, L!Statuses, L!Exits
<1> HIDE DEF s
<1>7. x \in Records /\ x.pid = memory[l].pid /\ x.stop = memory[l].stop
  BY <1>1, <1>6 DEF LaunchTypes, Records
<1> HIDE DEF x
<1> QED BY <1>2, <1>3, <1>4, <1>7, ThreadKeeps

(* A stop is in memory before it is on its way to disk.                    *)
LEMMA StopKeeps ==
  ASSUME LaunchInv, NEW l \in Launches, L!Stop(l)
  PROVE  LaunchInv'
<1> DEFINE x == [memory[l] EXCEPT !.stop = TRUE]
<1>1. LaunchTypes /\ LaunchOk(l) /\ "request" \in L!Writers
  BY DEF LaunchInv, L!Writers
<1>2. /\ up /\ l \in listed
      /\ paper' = [paper EXCEPT ![l]["request"] = memory'[l]]
      /\ up' = up /\ listed' = listed /\ disk' = disk /\ thread' = thread
      /\ child' = child /\ exit' = exit /\ works' = works /\ made' = made /\ rows' = rows
  BY DEF L!Stop, L!childVars
<1>3. memory' = [memory EXCEPT ![l] = x]
  BY <1>1 DEF L!Stop, LaunchTypes
<1>4. x \in Records /\ x.stop /\ x.pid = memory[l].pid /\ x.status = memory[l].status
  BY <1>1 DEF LaunchTypes, Records
<1> HIDE DEF x
<1>5. /\ memory' \in [Launches -> Records] /\ memory'[l] = x /\ x \in Pages
      /\ \A m \in Launches \ {l} : memory'[m] = memory[m]
  BY <1>1, <1>3, <1>4 DEF LaunchTypes, Pages
<1>6. /\ paper' \in [Launches -> [L!Writers -> Pages]]
      /\ paper'[l]["request"] = x
      /\ \A v \in L!Writers \ {"request"} : paper'[l][v] = paper[l][v]
      /\ \A m \in Launches \ {l} : paper'[m] = paper[m]
  <2>1. paper' = [paper EXCEPT ![l]["request"] = x]
    BY <1>2, <1>5
  <2> QED BY <1>1, <1>5, <2>1, PageIs DEF LaunchTypes
<1>7. LaunchTypes'
  BY <1>1, <1>2, <1>5, <1>6 DEF LaunchTypes
<1>8. Truthful(l)'
  <2>1. Tells(l, disk[l])'
    BY <1>1, <1>2, <1>4, <1>5 DEF LaunchOk, Truthful, Tells
  <2>2. ASSUME NEW v \in L!Writers PROVE Tells(l, paper[l][v])'
    <3>1. CASE v = "request"
      BY <3>1, <1>4, <1>5, <1>6 DEF Tells
    <3>2. CASE v # "request"
      BY <3>2, <1>1, <1>2, <1>4, <1>5, <1>6 DEF LaunchOk, Truthful, Tells
    <3> QED BY <3>1, <3>2
  <2> QED BY <2>1, <2>2, <1>4, <1>5 DEF Truthful
<1>9. Unstarted(l)'
  <2> SUFFICES ASSUME thread[l] \in {"none", "checked", "listed"} PROVE Unstarted(l)'
    BY <1>2 DEF Unstarted
  <2>1. memory[l].status = "running"
    BY <1>1 DEF LaunchOk, Unstarted
  <2>2. ASSUME NEW v \in L!Writers
        PROVE  paper'[l][v] # <<>> => paper'[l][v].status = "running"
    <3>1. CASE v = "request"
      BY <3>1, <2>1, <1>4, <1>6
    <3>2. CASE v # "request"
      BY <3>2, <1>1, <1>6 DEF LaunchOk, Unstarted
    <3> QED BY <3>1, <3>2
  <2> QED BY <2>1, <2>2, <1>1, <1>2, <1>4, <1>5 DEF LaunchOk, Unstarted
<1>10. Unasked(l)' /\ Attended(l)'
  BY <1>1, <1>2, <1>4, <1>5 DEF LaunchOk, Unasked, Attended
<1>11. LaunchOk(l)'
  BY <1>8, <1>9, <1>10 DEF LaunchOk
<1> QED BY <1>2, <1>5, <1>6, <1>7, <1>11, OnlyOne

LEMMA DeleteKeeps ==
  ASSUME LaunchInv, NEW l \in Launches, L!DeleteLaunch(l)
  PROVE  LaunchInv'
<1>1. LaunchTypes /\ LaunchOk(l)
  BY DEF LaunchInv
<1>2. /\ up /\ disk' = [disk EXCEPT ![l] = <<>>] /\ listed' = listed \ {l}
      /\ up' = up /\ memory' = memory /\ paper' = paper /\ thread' = thread
      /\ child' = child /\ exit' = exit /\ works' = works /\ made' = made /\ rows' = rows
  BY DEF L!DeleteLaunch, L!childVars
<1>3. /\ disk' \in [Launches -> Pages] /\ disk'[l] = <<>>
      /\ \A m \in Launches \ {l} : disk'[m] = disk[m]
  BY <1>1, <1>2 DEF LaunchTypes, Pages
<1>4. LaunchTypes'
  BY <1>1, <1>2, <1>3 DEF LaunchTypes
<1>5. LaunchOk(l)'
  BY <1>1, <1>2, <1>3 DEF LaunchOk, Unstarted, Unasked, Attended, Truthful, Tells
<1> QED BY <1>2, <1>3, <1>4, <1>5, OnlyOne

(* A dying console loses its threads and the saves under way.              *)
LEMMA CrashKeeps == LaunchInv /\ L!Crash => LaunchInv'
<1> SUFFICES ASSUME LaunchInv, L!Crash PROVE LaunchInv'
  OBVIOUS
<1>1. LaunchTypes
  BY DEF LaunchInv
<1>2. /\ listed' = {} /\ up' = FALSE
      /\ paper' = [l \in Launches |-> [w \in L!Writers |-> <<>>]]
      /\ thread' = [l \in Launches |-> IF thread[l] = "none" THEN "none" ELSE "over"]
      /\ memory' = memory /\ disk' = disk
      /\ child' = child /\ exit' = exit /\ works' = works /\ made' = made /\ rows' = rows
  BY DEF L!Crash, L!childVars
<1>3. LaunchTypes'
  BY <1>1, <1>2 DEF LaunchTypes, Pages
<1>4. ASSUME NEW l \in Launches PROVE LaunchOk(l)'
  <2>1. LaunchOk(l)
    BY DEF LaunchInv
  <2>2. /\ \A w \in L!Writers : paper'[l][w] = <<>>
        /\ thread'[l] = IF thread[l] = "none" THEN "none" ELSE "over"
    BY <1>2
  <2> QED BY <2>1, <2>2, <1>2
          DEF LaunchOk, Unstarted, Unasked, Attended, Truthful, Tells
<1> QED BY <1>3, <1>4 DEF LaunchInv

(* A console that starts again believes what is on disk, and asks for each *)
(* child whether it still runs.                                            *)
LEMMA RestartKeeps == LaunchInv /\ L!Restart => LaunchInv'
<1> SUFFICES ASSUME LaunchInv, L!Restart PROVE LaunchInv'
  OBVIOUS
<1>1. LaunchTypes
  BY DEF LaunchInv
<1>2. /\ ~up /\ up' = TRUE
      /\ listed' = {l \in Launches : disk[l] # <<>>}
      /\ memory' = [l \in Launches |-> IF l \in listed' THEN L!Restored(l) ELSE memory[l]]
      /\ disk' = [l \in Launches |-> IF l \in listed' THEN L!Restored(l) ELSE <<>>]
      /\ thread' = [l \in Launches |-> IF l \in listed' THEN L!Attached(l) ELSE thread[l]]
      /\ paper' = paper
      /\ child' = child /\ exit' = exit /\ works' = works /\ made' = made /\ rows' = rows
  BY DEF L!Restart, L!childVars
<1>3. ASSUME NEW l \in Launches, disk[l] # <<>>
      PROVE  /\ L!Restored(l) \in Records /\ L!Restored(l).pid = disk[l].pid
             /\ L!Restored(l).stop = disk[l].stop
             /\ \/ L!Restored(l).status = disk[l].status
                \/ disk[l].status = "running" /\ ~L!Answers(l)
             /\ L!Attached(l) \in {"follow", "over"}
             /\ L!Attached(l) = "follow" => disk[l].pid
  <2>1. disk[l] \in Records
    BY <1>1, <1>3 DEF LaunchTypes, Pages
  <2>2. L!Attached(l) \in {"follow", "over"} /\ (L!Attached(l) = "follow" => disk[l].pid)
    BY DEF L!Attached, L!Answers
  <2>3. CASE disk[l].status = "running" /\ ~L!Answers(l)
    <3>1. L!Restored(l) = [disk[l] EXCEPT !.status = "interrupted"]
      BY <2>3 DEF L!Restored
    <3>2. "interrupted" \in L!Statuses
      BY DEF L!Statuses
    <3> QED BY <2>1, <2>2, <2>3, <3>1, <3>2 DEF Records
  <2>4. CASE ~(disk[l].status = "running" /\ ~L!Answers(l))
    <3>1. L!Restored(l) = disk[l]
      BY <2>4 DEF L!Restored
    <3> QED BY <2>1, <2>2, <3>1
  <2> QED BY <2>3, <2>4
<1>4. LaunchTypes'
  <2>1. /\ memory' \in [Launches -> Records] /\ disk' \in [Launches -> Pages]
        /\ thread' \in [Launches -> {"none", "checked", "listed", "spawned", "watch",
                                     "naming", "settled", "follow", "over"}]
    BY <1>1, <1>2, <1>3 DEF LaunchTypes, Pages
  <2> QED BY <1>1, <1>2, <2>1 DEF LaunchTypes
<1>5. ASSUME NEW l \in Launches PROVE LaunchOk(l)'
  <2>1. LaunchOk(l) /\ thread[l] \in {"none", "over"}
        /\ \A w \in L!Writers : paper[l][w] = <<>>
    BY <1>2 DEF LaunchInv, LaunchOk, Attended
  <2>2. CASE disk[l] = <<>>
    <3>1. l \notin listed' /\ memory'[l] = memory[l] /\ disk'[l] = <<>> /\ thread'[l] = thread[l]
      BY <2>2, <1>2
    <3> QED BY <2>1, <2>2, <3>1, <1>2
            DEF LaunchOk, Unstarted, Unasked, Attended, Truthful, Tells
  <2>3. CASE disk[l] # <<>>
    <3> DEFINE x == L!Restored(l)
    <3>1. memory'[l] = x /\ disk'[l] = x /\ thread'[l] = L!Attached(l)
      BY <2>3, <1>2
    <3>2. /\ x \in Records /\ x.pid = disk[l].pid /\ x.stop = disk[l].stop
          /\ \/ x.status = disk[l].status
             \/ disk[l].status = "running" /\ ~L!Answers(l)
          /\ L!Attached(l) \in {"follow", "over"}
          /\ L!Attached(l) = "follow" => disk[l].pid
      BY <2>3, <1>3
    <3> HIDE DEF x
    <3>3. Tells(l, disk[l])
      BY <2>1 DEF LaunchOk, Truthful
    <3>4. x.pid \/ x.stop
      BY <2>3, <3>2, <3>3 DEF Tells
    <3>5. x.status # "running" /\ ~x.stop => child[l] # "alive"
      BY <2>3, <3>2, <3>3, <3>4 DEF Tells, L!Answers
    <3>6. Truthful(l)'
      BY <2>1, <3>1, <3>4, <3>5, <1>2 DEF Truthful, Tells
    <3>7. Unstarted(l)' /\ Unasked(l)' /\ Attended(l)'
      BY <3>1, <3>2, <1>2 DEF Unstarted, Unasked, Attended
    <3> QED BY <3>6, <3>7 DEF LaunchOk
  <2> QED BY <2>2, <2>3
<1> QED BY <1>4, <1>5 DEF LaunchInv

(* What the children do.                                                   *)
LEMMA ChildKeeps ==
  ASSUME LaunchInv, LaunchTypes', UNCHANGED <<up, L!launchVars>>,
         \A m \in Launches :
            child'[m] = child[m] \/ (child[m] # "none" /\ child'[m] # "alive")
  PROVE  LaunchInv'
<1>1. ASSUME NEW m \in Launches PROVE LaunchOk(m)'
  <2>1. /\ LaunchOk(m) /\ up' = up
        /\ memory'[m] = memory[m] /\ disk'[m] = disk[m] /\ paper'[m] = paper[m]
        /\ thread'[m] = thread[m] /\ listed' = listed
    BY DEF LaunchInv, L!launchVars
  <2>2. child'[m] = child[m] \/ (child[m] # "none" /\ child'[m] # "alive")
    OBVIOUS
  <2> QED BY <2>1, <2>2, Apart
<1> QED BY <1>1 DEF LaunchInv

LEMMA AppendRun ==
  ASSUME NEW s \in Seq(Runs), NEW r \in Runs
  PROVE  Append(s, r) \in Seq(Runs)
OBVIOUS

LEMMA ChildrenKeep ==
  ASSUME LaunchInv, NEW l \in Launches, L!Children(l)
  PROVE  LaunchInv'
<1>1. LaunchTypes
  BY DEF LaunchInv
<1>2. CASE L!Make(l)
  <2>1. PICK r \in Runs \ L!Here :
           made' = Append(made, r) /\ works' = [works EXCEPT ![l] = r]
    BY <1>2 DEF L!Make
  <2>2. UNCHANGED <<up, L!launchVars>> /\ child' = child /\ exit' = exit /\ rows' = rows
    BY <1>2 DEF L!Make
  <2>3. LaunchTypes'
    BY <1>1, <2>1, <2>2, AppendRun DEF LaunchTypes, L!launchVars, RunIds
  <2> QED BY <2>2, <2>3, ChildKeeps
<1>3. CASE L!End(l)
  <2>1. PICK code \in L!Exits :
          /\ exit' = [exit EXCEPT ![l] = code]
          /\ IF works[l] = NoRun THEN UNCHANGED rows
             ELSE \E row \in L!LastRow(l, code) : rows' = [rows EXCEPT ![works[l]] = row]
    BY <1>3 DEF L!End
  <2>2. /\ child[l] = "alive" /\ child' = [child EXCEPT ![l] = "dead"]
        /\ UNCHANGED <<up, L!launchVars>> /\ works' = works /\ made' = made
    BY <1>3 DEF L!End
  <2>3. rows' \in [Runs -> L!Statuses]
    <3>1. CASE works[l] = NoRun
      BY <1>1, <2>1, <3>1 DEF LaunchTypes
    <3>2. CASE works[l] # NoRun
      <4>1. PICK row \in L!LastRow(l, code) : rows' = [rows EXCEPT ![works[l]] = row]
        BY <2>1, <3>2
      <4>2. row \in {rows[r] : r \in {works[l]} \cap Runs} \cup {"findings", "succeeded", code}
        BY <4>1 DEF L!LastRow
      <4>3. row \in L!Statuses
        BY <1>1, <2>1, <4>2 DEF LaunchTypes, L!Statuses, L!Exits
      <4> QED BY <1>1, <4>1, <4>3 DEF LaunchTypes
    <3> QED BY <3>1, <3>2
  <2>4. LaunchTypes'
    BY <1>1, <2>1, <2>2, <2>3 DEF LaunchTypes, L!launchVars
  <2> QED BY <1>1, <2>2, <2>4, ChildKeeps DEF LaunchTypes
<1>4. CASE L!Steal(l)
  <2>1. /\ child[l] = "dead" /\ child' = [child EXCEPT ![l] = "stolen"]
        /\ UNCHANGED <<up, L!launchVars>> /\ exit' = exit /\ works' = works
        /\ made' = made /\ rows' = rows
    BY <1>4 DEF L!Steal
  <2>2. LaunchTypes'
    BY <1>1, <2>1 DEF LaunchTypes, L!launchVars
  <2> QED BY <1>1, <2>1, <2>2, ChildKeeps DEF LaunchTypes
<1> QED BY <1>2, <1>3, <1>4 DEF L!Children

LEMMA LaunchStep == LaunchInv /\ [L!Next]_launches => LaunchInv'
<1> SUFFICES ASSUME LaunchInv, [L!Next]_launches PROVE LaunchInv'
  OBVIOUS
<1>1. LaunchTypes
  BY DEF LaunchInv
<1>2. CASE UNCHANGED launches
  <2>1. LaunchTypes' /\ UNCHANGED <<up, L!launchVars>> /\ child' = child
    BY <1>1, <1>2 DEF launches, LaunchTypes, L!launchVars
  <2> QED BY <2>1, ChildKeeps
<1>3. CASE L!Elsewhere
  <2>1. PICK r \in Runs \ L!Here : made' = Append(made, r)
    BY <1>3 DEF L!Elsewhere
  <2>2. /\ UNCHANGED <<up, L!launchVars>> /\ child' = child /\ exit' = exit
        /\ works' = works /\ rows' = rows
    BY <1>3 DEF L!Elsewhere
  <2>3. LaunchTypes'
    BY <1>1, <2>1, <2>2, AppendRun DEF LaunchTypes, L!launchVars
  <2> QED BY <2>2, <2>3, ChildKeeps
<1>4. ASSUME NEW l \in Launches, L!Launching(l) PROVE LaunchInv'
  <2>1. "thread" \in L!Writers /\ "request" \in L!Writers
    BY DEF L!Writers
  <2> QED BY <1>4, <2>1, CheckKeeps, InsertKeeps, SpawnKeeps, ReplaceKeeps, NameKeeps,
             SettleKeeps, FollowKeeps, StopKeeps, DeleteKeeps
          DEF L!Launching, L!Thread
<1>5. CASE L!Next
  BY <1>3, <1>4, <1>5, ChildrenKeep, CrashKeeps, RestartKeeps DEF L!Next
<1> QED BY <1>2, <1>5

LEMMA LaunchGivesOver == LaunchInv => UnstoppedIsOver
<1> SUFFICES ASSUME LaunchInv, NEW l \in Launches, L!Orphaned(l), ~memory[l].stop
             PROVE  child[l] # "alive"
  BY DEF UnstoppedIsOver, L!UnstoppedIsOver
<1>1. Truthful(l)
  BY DEF LaunchInv, LaunchOk
<1> QED BY <1>1 DEF Truthful, Tells, L!Orphaned, L!Over

-----------------------------------------------------------------------------
(* The live view: how far along each line of the two files says a document *)
(* is.                                                                     *)

Reached == {"unseen", "discovered", "acquired", "submitted", "accepted", "indexed", "rejected"}
Known == {"accepted", "rejected", "no_receipt", "indexed"}
Says(status) == IF status = "no_receipt" THEN "submitted" ELSE status
OfOne == {"discovered", "acquired"}

Lines == [what : {"queued", "completed", "claimed", "timed_out", "crossed"}, doc : {V!Whole}, at : Nat]
           \cup [what : OfOne, doc : Docs, at : Nat]
Slips == [doc : Docs, status : Known, recorded : Nat]
Pictures == [stage : [Docs -> Reached],
             claim : {"none", "awaiting_claim", "claimed"},
             barrier : {"none", "waiting", "timed_out", "crossed"}]

ViewTypes ==
  /\ events \in Seq(Lines) /\ receipts \in Seq(Slips) /\ at \in Nat
  /\ custody \in [Docs -> {"none", "found", "held"} \cup Known]
  /\ read \in [events : Nat, receipts : Nat]
  /\ read.events <= Len(events) /\ read.receipts <= Len(receipts)
  /\ view \in Pictures /\ refreshing \in BOOLEAN /\ dropped \in SUBSET Docs

(* Nothing is written before its time.                                     *)
Clocked ==
  /\ \A i \in 1..Len(events) : events[i].at <= at
  /\ \A j \in 1..Len(receipts) : receipts[j].recorded \in 1..at

(* A document is discovered before it is acquired.                         *)
Named(lines, d, n) == \E k \in 1..n : lines[k].what = "discovered" /\ lines[k].doc = d
Ordered ==
  /\ \A d \in Docs : custody[d] # "none" => Named(events, d, Len(events))
  /\ \A i \in 1..Len(events) : events[i].what = "acquired" => Named(events, events[i].doc, i - 1)

(* A document has a receipt from its submission on, and one says what it is.*)
Filed ==
  \A d \in Docs :
    /\ custody[d] \in {"none", "found", "held"} => \A j \in 1..Len(receipts) : receipts[j].doc # d
    /\ custody[d] \in Known =>
         \E j \in 1..Len(receipts) : receipts[j].doc = d /\ receipts[j].status = custody[d]

(* A document never but accepted was so only after every crossed barrier.  *)
OnlyAccepted(lines, d) ==
  \A j \in 1..Len(lines) : lines[j].doc = d => lines[j].status = "accepted"
Since ==
  \A d \in Docs : custody[d] = "accepted" /\ OnlyAccepted(receipts, d) =>
    \A i \in 1..Len(events), j \in 1..Len(receipts) :
      events[i].what = "crossed" /\ receipts[j].doc = d => events[i].at < receipts[j].recorded

(* At rest, what has not been read of the receipts is later than what has  *)
(* been read of the events, or an "indexed" after each crossed barrier, or *)
(* was appended again for another reason.                                  *)
Caught ==
  ~refreshing => \A i \in 1..read.events, j \in 1..Len(receipts) :
    j > read.receipts /\ (receipts[j].status # "indexed" \/ events[i].what = "crossed")
      => events[i].at < receipts[j].recorded \/ V!Recast(receipts, j)

(* Every line read shows in the view.                                      *)
Shown ==
  /\ \A i \in 1..read.events : events[i].what \in OfOne =>
       V!Rank(view.stage[events[i].doc]) >= V!Rank(events[i].what)
  /\ \A j \in 1..read.receipts : receipts[j].doc \in dropped \/
       V!Rank(view.stage[receipts[j].doc]) >= V!Rank(Says(receipts[j].status))

ViewInv == ViewTypes /\ Clocked /\ Ordered /\ Filed /\ Since /\ Caught /\ Shown

LEMMA RankIs ==
  /\ V!Rank("unseen") = 0 /\ V!Rank("discovered") = 1 /\ V!Rank("acquired") = 2
  /\ V!Rank("submitted") = 3 /\ V!Rank("accepted") = 4 /\ V!Rank("indexed") = 7
  /\ V!Rank("rejected") = 8
<1>1. DOMAIN V!CUSTODY = 1..8
  BY DEF V!CUSTODY
<1>2. ~(\E i \in 1..8 : V!CUSTODY[i] = "unseen")
  BY DEF V!CUSTODY
<1>3. ASSUME NEW s, NEW k \in 1..8, V!CUSTODY[k] = s,
             \A i \in 1..8 : V!CUSTODY[i] = s => i = k
      PROVE  V!Rank(s) = k
  <2>1. (CHOOSE i \in 1..8 : V!CUSTODY[i] = s) = k
    BY <1>3
  <2> QED BY <2>1, <1>1, <1>3 DEF V!Rank
<1>4. V!Rank("unseen") = 0
  BY <1>1, <1>2 DEF V!Rank
<1>5. V!Rank("discovered") = 1
  BY <1>3 DEF V!CUSTODY
<1>6. V!Rank("acquired") = 2
  BY <1>3 DEF V!CUSTODY
<1>7. V!Rank("submitted") = 3
  BY <1>3 DEF V!CUSTODY
<1>8. V!Rank("accepted") = 4
  BY <1>3 DEF V!CUSTODY
<1>9. V!Rank("indexed") = 7
  BY <1>3 DEF V!CUSTODY
<1>10. V!Rank("rejected") = 8
  BY <1>3 DEF V!CUSTODY
<1> QED BY <1>4, <1>5, <1>6, <1>7, <1>8, <1>9, <1>10

(* One event, or one receipt, folded.                                      *)
LEMMA EventIs ==
  ASSUME NEW v \in Pictures, NEW e \in Lines
  PROVE  /\ V!Event(v, e) \in Pictures
         /\ \A d \in Docs : V!Rank(V!Event(v, e).stage[d]) >= V!Rank(v.stage[d])
         /\ e.what = "discovered" =>
              e.doc \in Docs /\ V!Rank(V!Event(v, e).stage[e.doc]) >= 1
         /\ e.what = "acquired" =>
              e.doc \in Docs /\ (V!Rank(v.stage[e.doc]) >= 1 =>
                                  V!Rank(V!Event(v, e).stage[e.doc]) >= 2)
<1>1. v.stage \in [Docs -> Reached]
      /\ v = [stage |-> v.stage, claim |-> v.claim, barrier |-> v.barrier]
  BY DEF Pictures
<1>2. \A s \in Reached : V!Rank(s) \in 0..8 /\ (V!Rank(s) >= 1 => s # "unseen")
  BY RankIs DEF Reached
<1>3. CASE e.what = "discovered"
  <2>1. e.doc \in Docs
    BY <1>3 DEF Lines, OfOne
  <2> DEFINE x == IF v.stage[e.doc] = "unseen" THEN "discovered" ELSE v.stage[e.doc]
  <2>2. V!Event(v, e) = [v EXCEPT !.stage[e.doc] = x]
    BY <1>3 DEF V!Event
  <2>3. x \in Reached /\ V!Rank(x) >= 1 /\ V!Rank(x) >= V!Rank(v.stage[e.doc])
    BY <2>1, <1>1, RankIs DEF Reached
  <2> HIDE DEF x
  <2>4. V!Event(v, e).stage = [v.stage EXCEPT ![e.doc] = x] /\ V!Event(v, e) \in Pictures
    BY <2>1, <2>2, <2>3 DEF Pictures
  <2>5. \A d \in Docs : V!Rank(V!Event(v, e).stage[d]) >= V!Rank(v.stage[d])
    BY <2>1, <2>3, <2>4, <1>1, <1>2
  <2>6. V!Event(v, e).stage[e.doc] = x
    BY <2>1, <2>4, <1>1
  <2> QED BY <2>1, <2>3, <2>4, <2>5, <2>6, <1>3
<1>4. CASE e.what = "acquired"
  <2>1. e.doc \in Docs
    BY <1>4 DEF Lines, OfOne
  <2> DEFINE x == IF v.stage[e.doc] = "unseen" THEN v.stage[e.doc]
                  ELSE V!Advance(v.stage[e.doc], "acquired")
  <2>2. V!Event(v, e) = [v EXCEPT !.stage[e.doc] = x]
    BY <1>4 DEF V!Event
  <2>3. x \in Reached /\ (V!Rank(v.stage[e.doc]) >= 1 => V!Rank(x) >= 2)
        /\ V!Rank(x) >= V!Rank(v.stage[e.doc])
    BY <2>1, <1>1, RankIs DEF Reached, V!Advance
  <2> HIDE DEF x
  <2>4. V!Event(v, e).stage = [v.stage EXCEPT ![e.doc] = x] /\ V!Event(v, e) \in Pictures
    BY <2>1, <2>2, <2>3 DEF Pictures
  <2>5. \A d \in Docs : V!Rank(V!Event(v, e).stage[d]) >= V!Rank(v.stage[d])
    BY <2>1, <2>3, <2>4, <1>1, <1>2
  <2>6. V!Event(v, e).stage[e.doc] = x
    BY <2>1, <2>4, <1>1
  <2> QED BY <2>1, <2>3, <2>4, <2>5, <2>6, <1>4
<1>5. CASE e.what \in {"queued", "completed", "claimed", "timed_out"}
  <2>1. V!Event(v, e) \in Pictures /\ V!Event(v, e).stage = v.stage
    BY <1>5 DEF V!Event, Pictures
  <2> QED BY <2>1, <1>1, <1>2, <1>5
<1>6. CASE e.what = "crossed"
  <2>1. \A d \in Docs : V!Crossed(v.stage[d]) \in Reached
                        /\ V!Rank(V!Crossed(v.stage[d])) >= V!Rank(v.stage[d])
    BY <1>1, RankIs DEF Reached, V!Crossed
  <2>2. V!Event(v, e) = [stage |-> [d \in Docs |-> V!Crossed(v.stage[d])],
                         claim |-> "none", barrier |-> "crossed"]
    BY <1>6 DEF V!Event
  <2> QED BY <2>1, <2>2, <1>6 DEF Pictures
<1> QED BY <1>3, <1>4, <1>5, <1>6 DEF Lines, OfOne

LEMMA ReceiptIs ==
  ASSUME NEW v \in Pictures, NEW r \in Slips
  PROVE  /\ V!Receipt(v, r) \in Pictures
         /\ \A d \in Docs : V!Rank(V!Receipt(v, r).stage[d]) >= V!Rank(v.stage[d])
         /\ v.stage[r.doc] # "unseen" =>
              V!Rank(V!Receipt(v, r).stage[r.doc]) >= V!Rank(Says(r.status))
         /\ \A d \in Docs : V!Receipt(v, r).stage[d] = v.stage[d]
              \/ (r.doc = d /\ V!Receipt(v, r).stage[d] = Says(r.status))
         /\ \A d \in Docs : v.stage[d] # "unseen" => V!Receipt(v, r).stage[d] # "unseen"
<1> DEFINE x == V!Receipted(v.stage[r.doc], r.status)
<1>1. v.stage \in [Docs -> Reached] /\ r.doc \in Docs /\ r.status \in Known
  BY DEF Pictures, Slips
<1>2. \A s \in Reached : V!Rank(s) \in 0..8
  BY RankIs DEF Reached
<1>3. V!Receipt(v, r) = [v EXCEPT !.stage[r.doc] = x]
  BY DEF V!Receipt
<1>4. /\ x \in Reached /\ V!Rank(x) >= V!Rank(v.stage[r.doc])
      /\ v.stage[r.doc] # "unseen" => V!Rank(x) >= V!Rank(Says(r.status)) /\ x # "unseen"
      /\ x = v.stage[r.doc] \/ x = Says(r.status)
  BY <1>1, RankIs DEF Reached, Known, Says, V!Receipted, V!Advance
<1> HIDE DEF x
<1>5. V!Receipt(v, r).stage = [v.stage EXCEPT ![r.doc] = x] /\ V!Receipt(v, r) \in Pictures
  BY <1>1, <1>3, <1>4 DEF Pictures
<1>6. V!Receipt(v, r).stage[r.doc] = x
      /\ \A d \in Docs \ {r.doc} : V!Receipt(v, r).stage[d] = v.stage[d]
  BY <1>1, <1>5
<1> HIDE DEF Says
<1> QED BY <1>1, <1>2, <1>4, <1>5, <1>6

(* The three folds, as functions that exist.                               *)
LEMMA EventSteps ==
  ASSUME NEW v, NEW lines, Len(lines) \in Nat
  PROVE  \E d : /\ d = [i \in 0..Len(lines) |-> IF i = 0 THEN v ELSE V!Event(d[i - 1], lines[i])]
                /\ V!FoldEvents(v, lines) = d[Len(lines)]
<1> DEFINE n == Len(lines)
           At(d, i) == IF i = 0 THEN v ELSE V!Event(d[i - 1], lines[i])
           IsD(m, d) == d = [i \in 0..m |-> At(d, i)]
           G == {m \in 0..n : \E d : IsD(m, d)}
<1>1. 0 \in G
  <2> DEFINE z == [i \in 0..0 |-> v]
  <2>1. \A i \in 0..0 : i = 0
    OBVIOUS
  <2>2. IsD(0, z)
    BY <2>1
  <2> HIDE DEF IsD, z
  <2> QED BY <2>2
<1>2. ASSUME NEW m \in 1..n, m - 1 \in G PROVE m \in G
  <2>1. PICK p : IsD(m - 1, p)
    BY <1>2
  <2> DEFINE q == [i \in 0..m |-> IF i = m THEN At(p, m) ELSE p[i]]
  <2>2. ASSUME NEW i \in 0..m PROVE q[i] = At(q, i)
    <3>1. i = 0 \/ (i - 1 \in 0..m /\ i - 1 # m /\ i - 1 \in 0..(m - 1))
      OBVIOUS
    <3>2. i # 0 => q[i - 1] = p[i - 1]
      BY <3>1
    <3>3. At(q, i) = At(p, i)
      BY <3>2
    <3>4. CASE i = m
      BY <3>3, <3>4
    <3>5. CASE i # m
      <4>1. i \in 0..(m - 1) /\ q[i] = p[i]
        BY <3>5
      <4>2. p[i] = At(p, i)
        <5> HIDE DEF At
        <5> QED BY <2>1, <4>1
      <4> QED BY <4>1, <4>2, <3>3
    <3> QED BY <3>4, <3>5
  <2>3. IsD(m, q)
    <3> HIDE DEF At
    <3>1. q = [i \in 0..m |-> q[i]]
      OBVIOUS
    <3> QED BY <2>2, <3>1
  <2> HIDE DEF IsD, q
  <2> QED BY <2>3
<1>3. n \in G
  <2> HIDE DEF G
  <2>1. 0..n \subseteq G
    BY <1>1, <1>2, UpTo
  <2> QED BY <2>1
<1>4. \E d : IsD(n, d)
  <2> HIDE DEF IsD
  <2> QED BY <1>3
<1>5. \E d : IsD(n, d) /\ V!FoldEvents(v, lines) = d[n]
  <2> DEFINE c == CHOOSE d : IsD(n, d)
  <2>1. IsD(n, c)
    <3> HIDE DEF IsD
    <3> QED BY <1>4
  <2>2. V!FoldEvents(v, lines) = c[n]
    BY DEF V!FoldEvents
  <2> HIDE DEF c
  <2> QED BY <2>1, <2>2
<1> QED BY <1>5

LEMMA ReceiptSteps ==
  ASSUME NEW v, NEW lines, Len(lines) \in Nat
  PROVE  \E d : /\ d = [i \in 0..Len(lines) |-> IF i = 0 THEN v ELSE V!Receipt(d[i - 1], lines[i])]
                /\ V!FoldReceipts(v, lines) = d[Len(lines)]
<1> DEFINE n == Len(lines)
           At(d, i) == IF i = 0 THEN v ELSE V!Receipt(d[i - 1], lines[i])
           IsD(m, d) == d = [i \in 0..m |-> At(d, i)]
           G == {m \in 0..n : \E d : IsD(m, d)}
<1>1. 0 \in G
  <2> DEFINE z == [i \in 0..0 |-> v]
  <2>1. \A i \in 0..0 : i = 0
    OBVIOUS
  <2>2. IsD(0, z)
    BY <2>1
  <2> HIDE DEF IsD, z
  <2> QED BY <2>2
<1>2. ASSUME NEW m \in 1..n, m - 1 \in G PROVE m \in G
  <2>1. PICK p : IsD(m - 1, p)
    BY <1>2
  <2> DEFINE q == [i \in 0..m |-> IF i = m THEN At(p, m) ELSE p[i]]
  <2>2. ASSUME NEW i \in 0..m PROVE q[i] = At(q, i)
    <3>1. i = 0 \/ (i - 1 \in 0..m /\ i - 1 # m /\ i - 1 \in 0..(m - 1))
      OBVIOUS
    <3>2. i # 0 => q[i - 1] = p[i - 1]
      BY <3>1
    <3>3. At(q, i) = At(p, i)
      BY <3>2
    <3>4. CASE i = m
      BY <3>3, <3>4
    <3>5. CASE i # m
      <4>1. i \in 0..(m - 1) /\ q[i] = p[i]
        BY <3>5
      <4>2. p[i] = At(p, i)
        <5> HIDE DEF At
        <5> QED BY <2>1, <4>1
      <4> QED BY <4>1, <4>2, <3>3
    <3> QED BY <3>4, <3>5
  <2>3. IsD(m, q)
    <3> HIDE DEF At
    <3>1. q = [i \in 0..m |-> q[i]]
      OBVIOUS
    <3> QED BY <2>2, <3>1
  <2> HIDE DEF IsD, q
  <2> QED BY <2>3
<1>3. n \in G
  <2> HIDE DEF G
  <2>1. 0..n \subseteq G
    BY <1>1, <1>2, UpTo
  <2> QED BY <2>1
<1>4. \E d : IsD(n, d)
  <2> HIDE DEF IsD
  <2> QED BY <1>3
<1>5. \E d : IsD(n, d) /\ V!FoldReceipts(v, lines) = d[n]
  <2> DEFINE c == CHOOSE d : IsD(n, d)
  <2>1. IsD(n, c)
    <3> HIDE DEF IsD
    <3> QED BY <1>4
  <2>2. V!FoldReceipts(v, lines) = c[n]
    BY DEF V!FoldReceipts
  <2> HIDE DEF c
  <2> QED BY <2>1, <2>2
<1> QED BY <1>5

LEMMA TimelySteps ==
  ASSUME NEW n, NEW seen, Len(receipts) \in Nat
  PROVE  \E d : /\ d = [i \in 0..Len(receipts) |-> IF i = 0 THEN seen ELSE V!Timely(d[i - 1], receipts[i], n, seen)]
                /\ V!FoldTimely(n, seen) = d[Len(receipts)]
<1> DEFINE top == Len(receipts)
           At(d, i) == IF i = 0 THEN seen ELSE V!Timely(d[i - 1], receipts[i], n, seen)
           IsD(m, d) == d = [i \in 0..m |-> At(d, i)]
           G == {m \in 0..top : \E d : IsD(m, d)}
<1>1. 0 \in G
  <2> DEFINE z == [i \in 0..0 |-> seen]
  <2>1. \A i \in 0..0 : i = 0
    OBVIOUS
  <2>2. IsD(0, z)
    BY <2>1
  <2> HIDE DEF IsD, z
  <2> QED BY <2>2
<1>2. ASSUME NEW m \in 1..top, m - 1 \in G PROVE m \in G
  <2>1. PICK p : IsD(m - 1, p)
    BY <1>2
  <2> DEFINE q == [i \in 0..m |-> IF i = m THEN At(p, m) ELSE p[i]]
  <2>2. ASSUME NEW i \in 0..m PROVE q[i] = At(q, i)
    <3>1. i = 0 \/ (i - 1 \in 0..m /\ i - 1 # m /\ i - 1 \in 0..(m - 1))
      OBVIOUS
    <3>2. i # 0 => q[i - 1] = p[i - 1]
      BY <3>1
    <3>3. At(q, i) = At(p, i)
      BY <3>2
    <3>4. CASE i = m
      BY <3>3, <3>4
    <3>5. CASE i # m
      <4>1. i \in 0..(m - 1) /\ q[i] = p[i]
        BY <3>5
      <4>2. p[i] = At(p, i)
        <5> HIDE DEF At
        <5> QED BY <2>1, <4>1
      <4> QED BY <4>1, <4>2, <3>3
    <3> QED BY <3>4, <3>5
  <2>3. IsD(m, q)
    <3> HIDE DEF At
    <3>1. q = [i \in 0..m |-> q[i]]
      OBVIOUS
    <3> QED BY <2>2, <3>1
  <2> HIDE DEF IsD, q
  <2> QED BY <2>3
<1>3. top \in G
  <2> HIDE DEF G
  <2>1. 0..top \subseteq G
    BY <1>1, <1>2, UpTo
  <2> QED BY <2>1
<1>4. \E d : IsD(top, d)
  <2> HIDE DEF IsD
  <2> QED BY <1>3
<1>5. \E d : IsD(top, d) /\ V!FoldTimely(n, seen) = d[top]
  <2> DEFINE c == CHOOSE d : IsD(top, d)
  <2>1. IsD(top, c)
    <3> HIDE DEF IsD
    <3> QED BY <1>4
  <2>2. V!FoldTimely(n, seen) = c[top]
    BY DEF V!FoldTimely
  <2> HIDE DEF c
  <2> QED BY <2>1, <2>2
<1> QED BY <1>5


LEMMA EventsShow ==
  ASSUME NEW v \in Pictures, NEW lines, Len(lines) \in Nat,
         \A i \in 1..Len(lines) : lines[i] \in Lines,
         \A i \in 1..Len(lines) : lines[i].what = "acquired" =>
           V!Rank(v.stage[lines[i].doc]) >= 1 \/
           \E k \in 1..(i - 1) : lines[k].what = "discovered" /\ lines[k].doc = lines[i].doc
  PROVE  /\ V!FoldEvents(v, lines) \in Pictures
         /\ \A d \in Docs : V!Rank(V!FoldEvents(v, lines).stage[d]) >= V!Rank(v.stage[d])
         /\ \A i \in 1..Len(lines) : lines[i].what \in OfOne =>
              V!Rank(V!FoldEvents(v, lines).stage[lines[i].doc]) >= V!Rank(lines[i].what)
<1> DEFINE n == Len(lines)
           Shows(p, m) ==
             /\ p \in Pictures
             /\ \A d \in Docs : V!Rank(p.stage[d]) >= V!Rank(v.stage[d])
             /\ \A i \in 1..m : lines[i].what \in OfOne =>
                  V!Rank(p.stage[lines[i].doc]) >= V!Rank(lines[i].what)
<1>1. PICK c : c = [i \in 0..n |-> IF i = 0 THEN v ELSE V!Event(c[i - 1], lines[i])]
               /\ V!FoldEvents(v, lines) = c[n]
  <2>1. Len(lines) \in Nat
    OBVIOUS
  <2> QED BY ONLY <2>1, EventSteps, Zenon
<1>2. n \in Nat /\ \A i \in 1..n : lines[i] \in Lines
  OBVIOUS
<1>3. \A p \in Pictures, d \in Docs : V!Rank(p.stage[d]) \in 0..8
  BY RankIs DEF Pictures, Reached
<1>4. \A i \in 1..n : lines[i].what \in OfOne => lines[i].doc \in Docs
  BY <1>2 DEF Lines, OfOne
<1>8. \A i \in 1..n : lines[i].what = "acquired" =>
        V!Rank(v.stage[lines[i].doc]) >= 1 \/
        \E k \in 1..(i - 1) : lines[k].what = "discovered" /\ lines[k].doc = lines[i].doc
  OBVIOUS
<1> HIDE DEF n
<1> DEFINE G == {m \in 0..n : Shows(c[m], m)}
<1>5. 0 \in G
  <2>1. c[0] = v
    BY <1>1, <1>2
  <2>2. \A d \in Docs : V!Rank(v.stage[d]) >= V!Rank(v.stage[d])
    BY <1>3
  <2> QED BY <2>1, <2>2, <1>2
<1>6. ASSUME NEW m \in 1..n, m - 1 \in G PROVE m \in G
  <2> DEFINE p == c[m - 1]
             q == V!Event(p, lines[m])
  <2>1. c[m] = q
    BY ONLY <1>1, <1>2
  <2>2. Shows(p, m - 1) /\ p \in Pictures /\ lines[m] \in Lines
    BY <1>6, <1>2
  <2>3. /\ q \in Pictures
        /\ \A d \in Docs : V!Rank(q.stage[d]) >= V!Rank(p.stage[d])
        /\ lines[m].what = "discovered" =>
             lines[m].doc \in Docs /\ V!Rank(q.stage[lines[m].doc]) >= 1
        /\ lines[m].what = "acquired" =>
             lines[m].doc \in Docs /\ (V!Rank(p.stage[lines[m].doc]) >= 1 =>
                                       V!Rank(q.stage[lines[m].doc]) >= 2)
    <3> HIDE DEF p
    <3> QED BY <2>2, EventIs
  <2> HIDE DEF p, q
  <2>4. \A d \in Docs : V!Rank(q.stage[d]) >= V!Rank(v.stage[d])
    BY <2>2, <2>3, <1>3
  <2>5. ASSUME NEW i \in 1..m, lines[i].what \in OfOne
        PROVE  V!Rank(q.stage[lines[i].doc]) >= V!Rank(lines[i].what)
    <3>1. lines[i].doc \in Docs
      BY <2>5, <1>4, <1>2
    <3>2. CASE i # m
      <4>1. i \in 1..(m - 1)
        BY <3>2, <1>2
      <4>2. V!Rank(p.stage[lines[i].doc]) >= V!Rank(lines[i].what)
        BY <4>1, <2>2, <2>5
      <4>3. V!Rank(lines[i].what) \in Nat
        BY <2>5, RankIs DEF OfOne
      <4>4. V!Rank(q.stage[lines[i].doc]) >= V!Rank(p.stage[lines[i].doc])
        BY <3>1, <2>3
      <4>5. V!Rank(q.stage[lines[i].doc]) \in 0..8 /\ V!Rank(p.stage[lines[i].doc]) \in 0..8
        BY <3>1, <2>2, <2>3, <1>3
      <4> QED BY ONLY <4>2, <4>3, <4>4, <4>5
    <3>3. CASE i = m /\ lines[i].what = "discovered"
      BY <3>3, <2>3, RankIs
    <3>4. CASE i = m /\ lines[i].what = "acquired"
      <4>1. V!Rank(p.stage[lines[m].doc]) >= 1
        <5>1. CASE V!Rank(v.stage[lines[m].doc]) >= 1
          BY <5>1, <2>2, <1>3, <3>1, <3>4
        <5>2. CASE \E k \in 1..(m - 1) : lines[k].what = "discovered" /\ lines[k].doc = lines[m].doc
          <6>1. PICK k \in 1..(m - 1) : lines[k].what = "discovered" /\ lines[k].doc = lines[m].doc
            BY <5>2
          <6>2. V!Rank(p.stage[lines[k].doc]) >= V!Rank(lines[k].what)
            BY <6>1, <2>2 DEF OfOne
          <6> QED BY <6>1, <6>2, RankIs
        <5>3. V!Rank(v.stage[lines[m].doc]) >= 1 \/
              \E k \in 1..(m - 1) : lines[k].what = "discovered" /\ lines[k].doc = lines[m].doc
          BY ONLY <1>8, <3>4
        <5> QED BY ONLY <5>1, <5>2, <5>3
      <4> QED BY <4>1, <3>4, <2>3, RankIs
    <3> QED BY <3>2, <3>3, <3>4, <2>5 DEF OfOne
  <2>6. Shows(q, m)
    BY <2>3, <2>4, <2>5
  <2> QED BY <2>1, <2>6, <1>2
<1>7. n \in G
  <2>1. 0..n \subseteq G
    <3> HIDE DEF G
    <3> QED BY <1>2, <1>5, <1>6, UpTo
  <2> QED BY <2>1, <1>2
<1> QED BY <1>1, <1>7 DEF n

(* From nothing, the events alone show what one of them says.              *)
Traced(p, d, lines, m) ==
  p.stage[d] = "unseen"
  \/ \E i \in 1..m : lines[i].what \in OfOne /\ lines[i].doc = d /\ lines[i].what = p.stage[d]

LEMMA EventTraced ==
  ASSUME NEW lines, NEW m \in Nat, m > 0, NEW v \in Pictures, lines[m] \in Lines,
         \A d \in Docs : Traced(v, d, lines, m - 1)
  PROVE  /\ \A d \in Docs : Traced(V!Event(v, lines[m]), d, lines, m)
         /\ V!Event(v, lines[m]).barrier = "crossed" => v.barrier = "crossed" \/ lines[m].what = "crossed"
<1> DEFINE e == lines[m]
<1>1. v.stage \in [Docs -> Reached] /\ e \in Lines
      /\ v = [stage |-> v.stage, claim |-> v.claim, barrier |-> v.barrier]
  BY DEF Pictures
<1>2. \A d \in Docs : v.stage[d] \in {"unseen", "discovered", "acquired"}
  BY DEF Traced, OfOne
<1>3. \A p, d : p.stage[d] = v.stage[d] /\ d \in Docs => Traced(p, d, lines, m)
  BY DEF Traced
<1>4. \A p, d : d \in Docs /\ e.doc = d /\ e.what \in OfOne /\ p.stage[d] = e.what => Traced(p, d, lines, m)
  BY DEF Traced
<1> HIDE DEF e
<1>5. CASE e.what \in OfOne
  <2> DEFINE x == V!Event(v, e).stage[e.doc]
  <2>1. e.doc \in Docs
    BY <1>1, <1>5 DEF Lines, OfOne
  <2>2. x \in {v.stage[e.doc], e.what} /\ V!Event(v, e).barrier = v.barrier
        /\ \A d \in Docs \ {e.doc} : V!Event(v, e).stage[d] = v.stage[d]
    <3>1. CASE e.what = "discovered"
      BY <3>1, <2>1, <1>1 DEF V!Event
    <3>2. CASE e.what = "acquired"
      BY <3>2, <2>1, <1>1 DEF V!Event, V!Advance
    <3> QED BY <3>1, <3>2, <1>5 DEF OfOne
  <2> HIDE DEF x
  <2>3. ASSUME NEW d \in Docs PROVE Traced(V!Event(v, e), d, lines, m)
    <3>1. V!Event(v, e).stage[d] = v.stage[d] \/ (e.doc = d /\ V!Event(v, e).stage[d] = e.what)
      BY <2>2 DEF x
    <3> QED BY <3>1, <1>3, <1>4, <1>5
  <2> QED BY <2>2, <2>3 DEF e
<1>6. CASE e.what \in {"queued", "completed", "claimed", "timed_out"}
  <2>1. V!Event(v, e).stage = v.stage /\ (V!Event(v, e).barrier = "crossed" => v.barrier = "crossed")
    BY <1>1, <1>6 DEF V!Event
  <2> QED BY <2>1, <1>3 DEF e
<1>7. CASE e.what = "crossed"
  <2>1. V!Event(v, e) = [stage |-> [d \in Docs |-> V!Crossed(v.stage[d])],
                         claim |-> "none", barrier |-> "crossed"]
    BY <1>7 DEF V!Event
  <2>2. \A d \in Docs : V!Event(v, e).stage[d] = v.stage[d]
    BY <2>1, <1>2 DEF V!Crossed
  <2> QED BY <2>2, <1>3, <1>7 DEF e
<1>8. e.what \in OfOne \cup {"queued", "completed", "claimed", "timed_out", "crossed"}
  BY <1>1 DEF Lines
<1> QED BY <1>5, <1>6, <1>7, <1>8

LEMMA BlankPicture == V!Blank \in Pictures /\ \A d \in Docs : V!Blank.stage[d] = "unseen"
  BY DEF V!Blank, Pictures, Reached

LEMMA EventsOnly ==
  ASSUME NEW lines, Len(lines) \in Nat, \A i \in 1..Len(lines) : lines[i] \in Lines
  PROVE  /\ V!FoldEvents(V!Blank, lines) \in Pictures
         /\ \A d \in Docs : Traced(V!FoldEvents(V!Blank, lines), d, lines, Len(lines))
         /\ V!FoldEvents(V!Blank, lines).barrier = "crossed" =>
              \E i \in 1..Len(lines) : lines[i].what = "crossed"
<1> DEFINE n == Len(lines)
           Comes(p, m) ==
             /\ p \in Pictures
             /\ \A d \in Docs : Traced(p, d, lines, m)
             /\ p.barrier = "crossed" => \E i \in 1..m : lines[i].what = "crossed"
<1>1. PICK c : c = [i \in 0..n |-> IF i = 0 THEN V!Blank ELSE V!Event(c[i - 1], lines[i])]
               /\ V!FoldEvents(V!Blank, lines) = c[n]
  <2>1. Len(lines) \in Nat
    OBVIOUS
  <2> QED BY <2>1, EventSteps, Zenon
<1>2. n \in Nat /\ \A i \in 1..n : lines[i] \in Lines
  OBVIOUS
<1> HIDE DEF n
<1> DEFINE G == {m \in 0..n : Comes(c[m], m)}
<1>3. 0 \in G
  <2>1. c[0] = V!Blank
    BY <1>1, <1>2
  <2>2. V!Blank.barrier = "none"
    BY DEF V!Blank
  <2> QED BY <2>1, <2>2, <1>2, BlankPicture DEF Traced
<1>4. ASSUME NEW m \in 1..n, m - 1 \in G PROVE m \in G
  <2> DEFINE p == c[m - 1]
             q == V!Event(p, lines[m])
  <2>1. c[m] = q
    BY ONLY <1>1, <1>2
  <2>2. Comes(p, m - 1) /\ p \in Pictures /\ lines[m] \in Lines /\ m \in Nat /\ m > 0
    BY <1>4, <1>2
  <2> HIDE DEF p
  <2>3. q \in Pictures
    BY <2>2, EventIs
  <2>4. /\ \A d \in Docs : Traced(q, d, lines, m)
        /\ q.barrier = "crossed" => p.barrier = "crossed" \/ lines[m].what = "crossed"
    BY <2>2, EventTraced
  <2> HIDE DEF q
  <2>5. q.barrier = "crossed" => \E i \in 1..m : lines[i].what = "crossed"
    BY <2>2, <2>4
  <2>6. Comes(q, m)
    BY <2>3, <2>4, <2>5
  <2> QED BY <2>1, <2>6, <1>2
<1>5. n \in G
  <2>1. 0..n \subseteq G
    <3> HIDE DEF G
    <3> QED BY <1>2, <1>3, <1>4, UpTo
  <2> QED BY <2>1, <1>2
<1> QED BY <1>1, <1>5 DEF n

LEMMA SaysRank == \A s \in Known : V!Rank(Says(s)) \in 0..8
<1>1. V!Rank(Says("no_receipt")) = 3
  BY RankIs DEF Says
<1>2. \A s \in {"accepted", "rejected", "indexed"} : Says(s) = s
  BY DEF Says
<1>3. \A s \in {"accepted", "rejected", "indexed"} : V!Rank(s) \in 0..8
  BY RankIs
<1> QED BY <1>1, <1>2, <1>3 DEF Known

(* Receipts read by the live view.                                         *)
LEMMA ReceiptsShow ==
  ASSUME NEW v \in Pictures, NEW lines, Len(lines) \in Nat,
         \A i \in 1..Len(lines) : lines[i] \in Slips
  PROVE  /\ V!FoldReceipts(v, lines) \in Pictures
         /\ \A d \in Docs : V!Rank(V!FoldReceipts(v, lines).stage[d]) >= V!Rank(v.stage[d])
         /\ \A i \in 1..Len(lines) : v.stage[lines[i].doc] # "unseen" =>
              V!Rank(V!FoldReceipts(v, lines).stage[lines[i].doc]) >= V!Rank(Says(lines[i].status))
<1> DEFINE n == Len(lines)
           Shows(p, m) ==
             /\ p \in Pictures
             /\ \A d \in Docs : V!Rank(p.stage[d]) >= V!Rank(v.stage[d])
             /\ \A d \in Docs : v.stage[d] # "unseen" => p.stage[d] # "unseen"
             /\ \A i \in 1..m : v.stage[lines[i].doc] # "unseen" =>
                  V!Rank(p.stage[lines[i].doc]) >= V!Rank(Says(lines[i].status))
<1>1. PICK c : c = [i \in 0..n |-> IF i = 0 THEN v ELSE V!Receipt(c[i - 1], lines[i])]
               /\ V!FoldReceipts(v, lines) = c[n]
  <2>1. Len(lines) \in Nat
    OBVIOUS
  <2> QED BY <2>1, ReceiptSteps, Zenon
<1>2. n \in Nat /\ \A i \in 1..n : lines[i] \in Slips
  OBVIOUS
<1>3. \A p \in Pictures, d \in Docs : V!Rank(p.stage[d]) \in 0..8
  BY RankIs DEF Pictures, Reached
<1>4. \A i \in 1..n : lines[i].doc \in Docs /\ V!Rank(Says(lines[i].status)) \in 0..8
  BY <1>2, SaysRank DEF Slips
<1> HIDE DEF n
<1> DEFINE G == {m \in 0..n : Shows(c[m], m)}
<1>5. 0 \in G
  <2>1. c[0] = v
    BY <1>1, <1>2
  <2>2. \A d \in Docs : V!Rank(v.stage[d]) >= V!Rank(v.stage[d])
    BY <1>3
  <2> QED BY <2>1, <2>2, <1>2
<1>6. ASSUME NEW m \in 1..n, m - 1 \in G PROVE m \in G
  <2> DEFINE p == c[m - 1]
             q == V!Receipt(p, lines[m])
  <2>1. c[m] = q
    BY ONLY <1>1, <1>2
  <2>2. Shows(p, m - 1) /\ p \in Pictures /\ lines[m] \in Slips
    BY <1>6, <1>2
  <2>3. /\ q \in Pictures
        /\ \A d \in Docs : V!Rank(q.stage[d]) >= V!Rank(p.stage[d])
        /\ p.stage[lines[m].doc] # "unseen" =>
             V!Rank(q.stage[lines[m].doc]) >= V!Rank(Says(lines[m].status))
        /\ \A d \in Docs : p.stage[d] # "unseen" => q.stage[d] # "unseen"
    <3> HIDE DEF p
    <3> QED BY <2>2, ReceiptIs
  <2> HIDE DEF p, q
  <2>4. \A d \in Docs : V!Rank(q.stage[d]) >= V!Rank(v.stage[d])
    BY <2>2, <2>3, <1>3
  <2>5. ASSUME NEW i \in 1..m, v.stage[lines[i].doc] # "unseen"
        PROVE  V!Rank(q.stage[lines[i].doc]) >= V!Rank(Says(lines[i].status))
    <3>1. lines[i].doc \in Docs /\ V!Rank(Says(lines[i].status)) \in 0..8
      BY <1>4, <1>2
    <3>2. CASE i # m
      <4>1. i \in 1..(m - 1)
        BY <3>2, <1>2
      <4>2. V!Rank(p.stage[lines[i].doc]) >= V!Rank(Says(lines[i].status))
        BY <4>1, <2>2, <2>5
      <4>3. V!Rank(q.stage[lines[i].doc]) >= V!Rank(p.stage[lines[i].doc])
        BY <3>1, <2>3
      <4>4. V!Rank(q.stage[lines[i].doc]) \in 0..8 /\ V!Rank(p.stage[lines[i].doc]) \in 0..8
        BY <3>1, <2>2, <2>3, <1>3
      <4> QED BY ONLY <4>2, <4>3, <4>4, <3>1
    <3>3. CASE i = m
      BY <3>3, <3>1, <2>2, <2>3, <2>5
    <3> QED BY <3>2, <3>3
  <2>6. Shows(q, m)
    BY <2>2, <2>3, <2>4, <2>5
  <2> QED BY <2>1, <2>6, <1>2
<1>7. n \in G
  <2>1. 0..n \subseteq G
    <3> HIDE DEF G
    <3> QED BY <1>2, <1>5, <1>6, UpTo
  <2> QED BY <2>1, <1>2
<1> QED BY <1>1, <1>7 DEF n

(* Receipts folded by the scrubber: a stage is the events' or a timely     *)
(* receipt's.                                                              *)
LEMMA TimelyOnly ==
  ASSUME NEW n, NEW seen \in Pictures, Len(receipts) \in Nat,
         \A j \in 1..Len(receipts) : receipts[j] \in Slips
  PROVE  \A d \in Docs : V!FoldTimely(n, seen).stage[d] = seen.stage[d] \/
           \E j \in 1..Len(receipts) :
             /\ ~V!Early(receipts[j], n, seen) /\ receipts[j].doc = d
             /\ V!FoldTimely(n, seen).stage[d] = Says(receipts[j].status)
<1> DEFINE top == Len(receipts)
           Told(p, m, d) == p.stage[d] = seen.stage[d] \/
             \E j \in 1..m : /\ ~V!Early(receipts[j], n, seen) /\ receipts[j].doc = d
                             /\ p.stage[d] = Says(receipts[j].status)
<1>1. PICK c : c = [i \in 0..top |-> IF i = 0 THEN seen ELSE V!Timely(c[i - 1], receipts[i], n, seen)]
               /\ V!FoldTimely(n, seen) = c[top]
  <2>1. Len(receipts) \in Nat
    OBVIOUS
  <2> QED BY <2>1, TimelySteps, Zenon
<1>2. top \in Nat /\ \A j \in 1..top : receipts[j] \in Slips
  OBVIOUS
<1> HIDE DEF top
<1> DEFINE G == {m \in 0..top : c[m] \in Pictures /\ \A d \in Docs : Told(c[m], m, d)}
<1>3. 0 \in G
  <2>1. c[0] = seen
    BY <1>1, <1>2
  <2> QED BY <2>1, <1>2
<1>4. ASSUME NEW m \in 1..top, m - 1 \in G PROVE m \in G
  <2> DEFINE p == c[m - 1]
             q == V!Timely(p, receipts[m], n, seen)
             r == V!Receipt(p, receipts[m])
  <2>1. c[m] = q
    BY ONLY <1>1, <1>2
  <2>2. p \in Pictures /\ receipts[m] \in Slips /\ \A d \in Docs : Told(p, m - 1, d)
    BY <1>4, <1>2
  <2> HIDE DEF p
  <2>3. \A d \in Docs : Told(p, m, d)
    BY <2>2, <1>2
  <2>4. CASE V!Early(receipts[m], n, seen)
    <3>1. q = p
      BY <2>4 DEF V!Timely
    <3> HIDE DEF q
    <3> QED BY <3>1, <2>1, <2>2, <2>3, <1>2
  <2>5. CASE ~V!Early(receipts[m], n, seen)
    <3>1. q = r
      BY <2>5 DEF V!Timely
    <3>2. /\ r \in Pictures
          /\ \A d \in Docs : r.stage[d] = p.stage[d]
               \/ (receipts[m].doc = d /\ r.stage[d] = Says(receipts[m].status))
      BY <2>2, ReceiptIs
    <3> HIDE DEF q, r
    <3>3. ASSUME NEW d \in Docs PROVE Told(r, m, d)
      <4>1. CASE r.stage[d] = p.stage[d]
        BY <4>1, <2>3
      <4>2. CASE receipts[m].doc = d /\ r.stage[d] = Says(receipts[m].status)
        BY <4>2, <2>5, <1>2
      <4> QED BY <4>1, <4>2, <3>2
    <3> HIDE DEF Told
    <3> QED BY <3>1, <3>2, <3>3, <2>1, <1>2
  <2> QED BY <2>4, <2>5
<1>5. top \in G
  <2>1. 0..top \subseteq G
    <3> HIDE DEF G
    <3> QED BY <1>2, <1>3, <1>4, UpTo
  <2> QED BY <2>1, <1>2
<1> QED BY <1>1, <1>5 DEF top

-----------------------------------------------------------------------------
LEMMA ViewStart == V!Init => ViewInv
<1> SUFFICES ASSUME V!Init PROVE ViewInv
  OBVIOUS
<1>1. /\ events = <<>> /\ receipts = <<>> /\ at = 0
      /\ custody = [d \in Docs |-> "none"]
      /\ read = [events |-> 0, receipts |-> 0]
      /\ view = V!Blank /\ refreshing = FALSE /\ dropped = {}
  BY DEF V!Init
<1>2. ViewTypes
  <2>1. events \in Seq(Lines) /\ receipts \in Seq(Slips) /\ Len(events) = 0 /\ Len(receipts) = 0
    BY <1>1
  <2>2. read \in [events : Nat, receipts : Nat] /\ read.events = 0 /\ read.receipts = 0
    BY <1>1
  <2>3. view \in Pictures
    BY <1>1, BlankPicture
  <2>4. refreshing \in BOOLEAN
    BY <1>1, Zenon
  <2>5. at \in Nat /\ dropped \in SUBSET Docs
        /\ custody \in [Docs -> {"none", "found", "held"} \cup Known]
    BY <1>1
  <2>6. read.events <= Len(events) /\ read.receipts <= Len(receipts)
    BY <2>1, <2>2
  <2> QED BY <2>1, <2>2, <2>3, <2>4, <2>5, <2>6, Zenon DEF ViewTypes
<1>3. Len(events) = 0 /\ Len(receipts) = 0 /\ \A d \in Docs : custody[d] = "none"
  BY <1>1
<1>4. Filed
  BY <1>3 DEF Filed, Known
<1>5. Clocked /\ Ordered /\ Since /\ Caught /\ Shown
  BY <1>1, <1>3 DEF Clocked, Ordered, Since, Caught, Shown
<1> QED BY <1>2, <1>4, <1>5 DEF ViewInv

(* The watcher stands still, and the run's clock ticks.                    *)
Onward == /\ at' = at + 1
          /\ read' = read /\ view' = view /\ refreshing' = refreshing /\ dropped' = dropped

LEMMA LineKeeps ==
  ASSUME ViewInv, Onward, NEW e \in Lines, e.at = at',
         events' = Append(events, e), receipts' = receipts,
         custody' \in [Docs -> {"none", "found", "held"} \cup Known],
         e.what = "acquired" => Named(events, e.doc, Len(events)),
         \A d \in Docs : custody'[d] # "none" =>
           custody[d] # "none" \/ (e.what = "discovered" /\ e.doc = d),
         \A d \in Docs : custody'[d] \in {"none", "found", "held"} =>
           custody[d] \in {"none", "found", "held"},
         \A d \in Docs : custody'[d] \in Known => custody'[d] = custody[d],
         \A d \in Docs : custody'[d] = "accepted" =>
           custody[d] = "accepted" /\ e.what # "crossed"
  PROVE  ViewInv'
<1> DEFINE n == Len(events)
<1>1. /\ events \in Seq(Lines) /\ n \in Nat /\ receipts \in Seq(Slips) /\ Len(receipts) \in Nat
      /\ at \in Nat /\ custody \in [Docs -> {"none", "found", "held"} \cup Known]
      /\ read \in [events : Nat, receipts : Nat] /\ read.events <= n
  BY DEF ViewInv, ViewTypes
<1>2. /\ events' \in Seq(Lines) /\ Len(events') = n + 1 /\ events'[n + 1] = e
      /\ \A i \in 1..n : events'[i] = events[i]
  BY <1>1
<1> HIDE DEF n
<1>3. \A i \in 1..(n + 1) : i \in 1..n \/ i = n + 1
  BY <1>1
<1>4. ViewTypes'
  BY <1>1, <1>2 DEF ViewInv, ViewTypes, Onward, n
<1>5. Clocked'
  <2>1. \A i \in 1..n : events[i].at <= at
    BY DEF ViewInv, Clocked, n
  <2>2. \A i \in 1..n : events[i].at \in Nat
    BY <1>1 DEF Lines, n
  <2>3. \A i \in 1..(n + 1) : events'[i].at <= at'
    BY <1>1, <1>2, <1>3, <2>1, <2>2 DEF Onward
  <2>4. \A j \in 1..Len(receipts) : receipts[j].recorded \in 1..at'
    BY <1>1 DEF ViewInv, Clocked, Onward
  <2> QED BY <1>2, <2>3, <2>4 DEF Clocked
<1>6. \A d, k : k \in 0..n /\ Named(events, d, k) => Named(events', d, k)
  BY <1>1, <1>2 DEF Named
<1>7. Ordered'
  <2>1. ASSUME NEW d \in Docs, custody'[d] # "none" PROVE Named(events', d, n + 1)
    <3>1. CASE custody[d] # "none"
      <4>1. Named(events, d, n)
        BY <3>1 DEF ViewInv, Ordered, n
      <4>2. Named(events', d, n)
        BY <4>1, <1>1, <1>6
      <4>3. 1..n \subseteq 1..(n + 1)
        BY <1>1
      <4> QED BY <4>2, <4>3 DEF Named
    <3>2. CASE e.what = "discovered" /\ e.doc = d
      <4>1. n + 1 \in 1..(n + 1)
        BY <1>1
      <4> QED BY <3>2, <4>1, <1>2 DEF Named
    <3> QED BY <3>1, <3>2, <2>1
  <2>2. ASSUME NEW i \in 1..(n + 1), events'[i].what = "acquired"
        PROVE  Named(events', events'[i].doc, i - 1)
    <3>1. CASE i \in 1..n
      <4>1. events'[i] = events[i] /\ Named(events, events[i].doc, i - 1)
        BY <3>1, <2>2, <1>2 DEF ViewInv, Ordered, n
      <4>2. i - 1 \in 0..n
        BY <3>1, <1>1
      <4> QED BY <4>1, <4>2, <1>6
    <3>2. CASE i = n + 1
      <4>1. events'[i] = e /\ i - 1 = n /\ n \in 0..n
        BY <3>2, <1>1, <1>2
      <4>2. Named(events, e.doc, n)
        BY <4>1, <2>2 DEF n
      <4>3. Named(events', e.doc, n)
        BY <4>1, <4>2, <1>6
      <4> QED BY <4>1, <4>3
    <3> QED BY <3>1, <3>2, <1>3
  <2> QED BY <1>2, <2>1, <2>2 DEF Ordered
<1>8. Filed'
  BY DEF ViewInv, Filed
<1>9. Since'
  <2>1. SUFFICES ASSUME NEW d \in Docs, custody'[d] = "accepted", OnlyAccepted(receipts, d),
                        NEW i \in 1..(n + 1), NEW j \in 1..Len(receipts),
                        events'[i].what = "crossed", receipts[j].doc = d
                 PROVE  events'[i].at < receipts[j].recorded
    BY <1>2 DEF Since
  <2>2. custody[d] = "accepted" /\ i # n + 1
    BY <2>1, <1>2
  <2>3. i \in 1..n /\ events'[i] = events[i]
    BY <2>2, <1>2, <1>3
  <2> QED BY <2>1, <2>2, <2>3 DEF ViewInv, Since, n
<1>10. \A i \in 1..read.events : events'[i] = events[i]
  BY <1>1, <1>2
<1>11. Caught'
  <2>1. Caught
    BY DEF ViewInv
  <2>2. /\ refreshing' = refreshing /\ read' = read /\ receipts' = receipts
    BY DEF Onward
  <2>3. SUFFICES ASSUME ~refreshing, NEW i \in 1..read.events, NEW j \in 1..Len(receipts),
                        j > read.receipts,
                        receipts[j].status # "indexed" \/ events'[i].what = "crossed"
                 PROVE  events'[i].at < receipts[j].recorded \/ V!Recast(receipts, j)
    BY <2>2 DEF Caught
  <2> QED BY <2>1, <2>3, <1>10 DEF Caught
<1>12. Shown'
  <2>1. Shown
    BY DEF ViewInv
  <2> QED BY <2>1, <1>10 DEF Shown, Onward
<1> QED BY <1>4, <1>5, <1>7, <1>8, <1>9, <1>11, <1>12 DEF ViewInv

LEMMA SlipKeeps ==
  ASSUME ViewInv, Onward, NEW r \in Slips, r.recorded \in 1..at',
         events' = events, receipts' = Append(receipts, r),
         custody[r.doc] # "none", custody' = [custody EXCEPT ![r.doc] = r.status],
         \/ custody[r.doc] = "held" /\ r.recorded = at'
         \/ custody[r.doc] \in Known /\ \E j \in 1..Len(receipts) :
              receipts[j].doc = r.doc /\ receipts[j].recorded = r.recorded
  PROVE  ViewInv'
<1> DEFINE n == Len(receipts)
<1>1. /\ events \in Seq(Lines) /\ Len(events) \in Nat /\ receipts \in Seq(Slips) /\ n \in Nat
      /\ at \in Nat /\ custody \in [Docs -> {"none", "found", "held"} \cup Known]
      /\ read \in [events : Nat, receipts : Nat]
      /\ read.events <= Len(events) /\ read.receipts <= n
      /\ r.doc \in Docs /\ r.status \in Known
  BY DEF ViewInv, ViewTypes, Slips
<1>2. /\ receipts' \in Seq(Slips) /\ Len(receipts') = n + 1 /\ receipts'[n + 1] = r
      /\ \A j \in 1..n : receipts'[j] = receipts[j]
  BY <1>1
<1>3. /\ custody' \in [Docs -> {"none", "found", "held"} \cup Known]
      /\ custody'[r.doc] = r.status
      /\ \A d \in Docs \ {r.doc} : custody'[d] = custody[d]
  BY <1>1
<1> HIDE DEF n
<1>4. \A j \in 1..(n + 1) : j \in 1..n \/ j = n + 1
  BY <1>1
<1>5. ViewTypes'
  BY <1>1, <1>2, <1>3 DEF ViewInv, ViewTypes, Onward, n
<1>6. \A i \in 1..Len(events) : events[i].at \in Nat /\ events[i].at < at'
  <2>1. \A i \in 1..Len(events) : events[i].at \in Nat
    BY <1>1 DEF Lines
  <2>2. \A i \in 1..Len(events) : events[i].at <= at
    BY DEF ViewInv, Clocked
  <2> QED BY <1>1, <2>1, <2>2 DEF Onward
<1>7. Clocked'
  <2>1. \A i \in 1..Len(events) : events[i].at <= at'
    BY <1>1, <1>6 DEF Onward
  <2>2. \A j \in 1..n : receipts[j].recorded \in 1..at
    BY DEF ViewInv, Clocked, n
  <2>3. \A j \in 1..(n + 1) : receipts'[j].recorded \in 1..at'
    BY <2>2, <1>1, <1>2, <1>4 DEF Onward
  <2> QED BY <1>2, <2>1, <2>3 DEF Clocked
<1>8. Ordered'
  <2>1. \A d \in Docs : custody'[d] # "none" => custody[d] # "none"
    BY <1>3
  <2>2. events' = events
    OBVIOUS
  <2> QED BY <2>1, <2>2 DEF ViewInv, Ordered
<1>9. Filed'
  <2>1. ASSUME NEW d \in Docs, custody'[d] \in {"none", "found", "held"}, NEW j \in 1..(n + 1)
        PROVE  receipts'[j].doc # d
    <3>1. d # r.doc
      BY <2>1, <1>1, <1>3 DEF Known
    <3>2. custody[d] \in {"none", "found", "held"}
      BY <3>1, <2>1, <1>3
    <3>3. \A k \in 1..n : receipts[k].doc # d
      BY <3>2 DEF ViewInv, Filed, n
    <3> QED BY <3>1, <3>3, <1>2, <1>4
  <2>2. ASSUME NEW d \in Docs, custody'[d] \in Known
        PROVE  \E j \in 1..(n + 1) : receipts'[j].doc = d /\ receipts'[j].status = custody'[d]
    <3>1. CASE d = r.doc
      BY <3>1, <1>1, <1>2, <1>3
    <3>2. CASE d # r.doc
      <4>1. custody[d] \in Known /\ custody'[d] = custody[d]
        BY <3>2, <2>2, <1>3
      <4>2. PICK j \in 1..n : receipts[j].doc = d /\ receipts[j].status = custody[d]
        BY <4>1 DEF ViewInv, Filed, n
      <4> QED BY <4>1, <4>2, <1>1, <1>2
    <3> QED BY <3>1, <3>2
  <2> QED BY <1>2, <2>1, <2>2 DEF Filed
<1>13. ASSUME NEW d \in Docs, d = r.doc, custody[d] \in Known,
              \A k \in 1..n : receipts[k].doc = d => receipts[k].status = "accepted",
              NEW i \in 1..Len(events), events[i].what = "crossed"
       PROVE  events[i].at < r.recorded
  <2>1. PICK k \in 1..n : receipts[k].doc = d /\ receipts[k].status = custody[d]
    BY <1>13 DEF ViewInv, Filed, n
  <2>2. custody[d] = "accepted" /\ OnlyAccepted(receipts, d)
    BY <2>1, <1>13 DEF OnlyAccepted, n
  <2>3. custody[d] # "held"
    BY <1>13 DEF Known
  <2>4. PICK j \in 1..n : receipts[j].doc = d /\ receipts[j].recorded = r.recorded
    BY <2>3, <1>13 DEF n
  <2>5. events[i].at < receipts[j].recorded
    BY <2>2, <2>4, <1>13 DEF ViewInv, Since, n
  <2> QED BY <2>4, <2>5
<1>10. Since'
  <2>1. SUFFICES ASSUME NEW d \in Docs, custody'[d] = "accepted", OnlyAccepted(receipts', d),
                        NEW i \in 1..Len(events), NEW j \in 1..(n + 1),
                        events[i].what = "crossed", receipts'[j].doc = d
                 PROVE  events[i].at < receipts'[j].recorded
    BY <1>2 DEF Since
  <2>2. \A k \in 1..n : receipts[k].doc = d => receipts[k].status = "accepted"
    BY <2>1, <1>1, <1>2 DEF OnlyAccepted
  <2>3. CASE d = r.doc /\ custody[d] = "held"
    <3>1. \A k \in 1..n : receipts[k].doc # d
      BY <2>3 DEF ViewInv, Filed, n
    <3>2. j = n + 1
      BY <3>1, <2>1, <1>2, <1>4
    <3>3. custody[r.doc] \notin Known
      BY <2>3 DEF Known
    <3> QED BY <3>2, <3>3, <1>2, <1>6
  <2>4. CASE d = r.doc /\ custody[d] \in Known /\ j = n + 1
    BY <2>1, <2>2, <2>4, <1>2, <1>13
  <2>5. CASE j \in 1..n /\ (d = r.doc => custody[d] \in Known)
    <3>1. OnlyAccepted(receipts, d) /\ receipts'[j] = receipts[j]
      BY <2>2, <2>5, <1>2 DEF OnlyAccepted, n
    <3>2. custody[d] \in Known
      BY <2>1, <2>5, <1>3 DEF Known
    <3>3. PICK k \in 1..n : receipts[k].doc = d /\ receipts[k].status = custody[d]
      BY <3>2 DEF ViewInv, Filed, n
    <3>4. custody[d] = "accepted"
      BY <3>3, <2>2
    <3> QED BY <3>1, <3>4, <2>1, <2>5, <1>2 DEF ViewInv, Since, n
  <2>6. j = n + 1 => d = r.doc
    BY <2>1, <1>2
  <2> QED BY <2>3, <2>4, <2>5, <2>6, <1>4
<1>11. Caught'
  <2>1. SUFFICES ASSUME ~refreshing, NEW i \in 1..read.events, NEW j \in 1..(n + 1),
                        j > read.receipts,
                        receipts'[j].status # "indexed" \/ events[i].what = "crossed"
                 PROVE  events[i].at < receipts'[j].recorded \/ V!Recast(receipts', j)
    BY <1>2 DEF Caught, Onward
  <2>2. i \in 1..Len(events)
    BY <1>1
  <2>3. CASE j = n + 1 /\ custody[r.doc] = "held"
    <3>1. custody[r.doc] \notin Known
      BY <2>3 DEF Known
    <3> QED BY <3>1, <2>2, <2>3, <1>2, <1>6
  <2>4. CASE j = n + 1 /\ custody[r.doc] \in Known
    <3>1. (n + 1) - 1 = n
      BY <1>1
    <3>2. CASE \E k \in 1..n : receipts[k].doc = r.doc /\ ~(receipts[k].status = "accepted" /\ r.status = "indexed")
      BY <3>1, <3>2, <2>4, <1>2 DEF V!Recast
    <3>3. CASE \A k \in 1..n : receipts[k].doc = r.doc => receipts[k].status = "accepted" /\ r.status = "indexed"
      <4>1. PICK k \in 1..n : receipts[k].doc = r.doc /\ receipts[k].status = custody[r.doc]
        BY <2>4, <1>1 DEF ViewInv, Filed, n
      <4>2. r.status = "indexed"
        BY <3>3, <4>1
      <4>3. events[i].what = "crossed"
        BY <4>2, <2>1, <2>4, <1>2
      <4>4. events[i].at < r.recorded
        BY <3>3, <4>3, <2>2, <2>4, <1>1, <1>13
      <4> QED BY <4>4, <2>4, <1>2
    <3> QED BY <3>2, <3>3
  <2>5. CASE j \in 1..n
    <3>1. receipts'[j] = receipts[j]
      BY <2>5, <1>2
    <3>2. events[i].at < receipts[j].recorded \/ V!Recast(receipts, j)
      BY <3>1, <2>1, <2>5 DEF ViewInv, Caught, n
    <3>3. \A k \in 1..(j - 1) : receipts'[k] = receipts[k]
      BY <2>5, <1>1, <1>2
    <3>4. V!Recast(receipts, j) => V!Recast(receipts', j)
      BY <3>1, <3>3 DEF V!Recast
    <3> QED BY <3>1, <3>2, <3>4
  <2>6. custody[r.doc] = "held" \/ custody[r.doc] \in Known
    OBVIOUS
  <2> QED BY <2>3, <2>4, <2>5, <2>6, <1>4
<1>12. Shown'
  <2>1. Shown
    BY DEF ViewInv
  <2>2. \A j \in 1..read.receipts : receipts'[j] = receipts[j]
    BY <1>1, <1>2
  <2> QED BY <2>1, <2>2 DEF Shown, Onward
<1> QED BY <1>5, <1>7, <1>8, <1>9, <1>10, <1>11, <1>12 DEF ViewInv

(* What the run does between two reads.                                    *)
LEMMA RunKeeps ==
  ViewInv /\ V!Run /\ UNCHANGED <<read, view, refreshing, dropped>> => ViewInv'
<1> SUFFICES ASSUME ViewInv, V!Run, UNCHANGED <<read, view, refreshing, dropped>> PROVE ViewInv'
  OBVIOUS
<1> USE DEF V!Tick, V!Emit
<1>1. /\ at \in Nat /\ at + 1 \in Nat
      /\ custody \in [Docs -> {"none", "found", "held"} \cup Known]
      /\ events \in Seq(Lines) /\ Len(events) \in Nat
      /\ receipts \in Seq(Slips) /\ Len(receipts) \in Nat
  BY DEF ViewInv, ViewTypes
<1>2. at' = at + 1 => Onward
  BY DEF Onward
<1>3. at + 1 \in 1..(at + 1)
  BY <1>1
<1>4. \A i \in 1..Len(events) : events[i].at < at + 1
  <2>1. \A i \in 1..Len(events) : events[i].at \in Nat
    BY <1>1 DEF Lines
  <2>2. \A i \in 1..Len(events) : events[i].at <= at
    BY DEF ViewInv, Clocked
  <2> QED BY <1>1, <2>1, <2>2
<1>5. ASSUME NEW d \in Docs, V!Find(d) PROVE ViewInv'
  <2> DEFINE e == [what |-> "discovered", doc |-> d, at |-> at + 1]
  <2>1. /\ custody[d] = "none" /\ at' = at + 1
        /\ events' = Append(events, e) /\ receipts' = receipts
        /\ custody' = [custody EXCEPT ![d] = "found"]
    BY <1>5 DEF V!Find
  <2>2. e \in Lines /\ e.at = at' /\ e.what = "discovered" /\ e.doc = d
    BY <1>1, <2>1 DEF Lines, OfOne
  <2> HIDE DEF e
  <2>3. /\ custody' \in [Docs -> {"none", "found", "held"} \cup Known]
        /\ custody'[d] = "found" /\ \A f \in Docs \ {d} : custody'[f] = custody[f]
    BY <1>1, <2>1
  <2>4. /\ \A f \in Docs : custody'[f] # "none" =>
             custody[f] # "none" \/ (e.what = "discovered" /\ e.doc = f)
        /\ \A f \in Docs : custody'[f] \in Known => custody'[f] = custody[f]
        /\ \A f \in Docs : custody'[f] \in {"none", "found", "held"} =>
             custody[f] \in {"none", "found", "held"}
        /\ \A f \in Docs : custody'[f] = "accepted" =>
             custody[f] = "accepted" /\ e.what # "crossed"
    BY <2>1, <2>2, <2>3 DEF Known
  <2> QED BY <2>1, <2>2, <2>3, <2>4, <1>2, LineKeeps
<1>6. ASSUME NEW d \in Docs, V!Acquire(d) PROVE ViewInv'
  <2> DEFINE e == [what |-> "acquired", doc |-> d, at |-> at + 1]
  <2>1. /\ custody[d] = "found" /\ at' = at + 1
        /\ events' = Append(events, e) /\ receipts' = receipts
        /\ custody' = [custody EXCEPT ![d] = "held"]
    BY <1>6 DEF V!Acquire
  <2>2. e \in Lines /\ e.at = at' /\ e.what = "acquired" /\ e.doc = d
    BY <1>1, <2>1 DEF Lines, OfOne
  <2> HIDE DEF e
  <2>3. /\ custody' \in [Docs -> {"none", "found", "held"} \cup Known]
        /\ custody'[d] = "held" /\ \A f \in Docs \ {d} : custody'[f] = custody[f]
    BY <1>1, <2>1
  <2>4. /\ \A f \in Docs : custody'[f] # "none" =>
             custody[f] # "none" \/ (e.what = "discovered" /\ e.doc = f)
        /\ \A f \in Docs : custody'[f] \in Known => custody'[f] = custody[f]
        /\ \A f \in Docs : custody'[f] \in {"none", "found", "held"} =>
             custody[f] \in {"none", "found", "held"}
        /\ \A f \in Docs : custody'[f] = "accepted" =>
             custody[f] = "accepted" /\ e.what # "crossed"
    BY <2>1, <2>2, <2>3 DEF Known
  <2>5. Named(events, e.doc, Len(events))
    BY <2>1, <2>2 DEF ViewInv, Ordered
  <2> QED BY <2>1, <2>2, <2>3, <2>4, <2>5, <1>2, LineKeeps
<1>7. ASSUME NEW d \in Docs, V!Submit(d) PROVE ViewInv'
  <2>1. PICK status \in {"accepted", "rejected", "no_receipt"} :
          /\ receipts' = Append(receipts, [doc |-> d, status |-> status, recorded |-> at'])
          /\ custody' = [custody EXCEPT ![d] = status]
    BY <1>7 DEF V!Submit
  <2> DEFINE r == [doc |-> d, status |-> status, recorded |-> at + 1]
  <2>2. custody[d] = "held" /\ at' = at + 1 /\ events' = events
    BY <1>7 DEF V!Submit
  <2>3. receipts' = Append(receipts, r) /\ r \in Slips
        /\ r.doc = d /\ r.status = status /\ r.recorded = at + 1
    BY <1>1, <2>1, <2>2 DEF Slips, Known
  <2> HIDE DEF r
  <2> QED BY <2>1, <2>2, <2>3, <1>2, <1>3, <1>4, SlipKeeps
<1>8. ASSUME NEW d \in Docs, V!Fold(d) PROVE ViewInv'
  <2> DEFINE t == V!Recorded(d)
  <2>1. PICK status \in {"accepted", "rejected", "indexed"} :
          /\ receipts' = Append(receipts, [doc |-> d, status |-> status, recorded |-> t])
          /\ custody' = [custody EXCEPT ![d] = status]
    BY <1>8 DEF V!Fold
  <2>2. custody[d] \in Known /\ at' = at + 1 /\ events' = events
    BY <1>8 DEF V!Fold, Known
  <2>3. t \in 1..at /\ \E j \in 1..Len(receipts) : receipts[j].doc = d /\ receipts[j].recorded = t
    <3>1. PICK j \in 1..Len(receipts) : receipts[j].doc = d
      BY <2>2 DEF ViewInv, Filed
    <3>2. receipts[j].recorded \in 1..at
      BY <3>1 DEF ViewInv, Clocked
    <3>3. DOMAIN receipts = 1..Len(receipts)
      BY <1>1
    <3>4. \E u \in 1..at : \E k \in DOMAIN receipts : receipts[k].doc = d /\ receipts[k].recorded = u
      BY <3>1, <3>2, <3>3
    <3> QED BY <3>3, <3>4 DEF V!Recorded
  <2> HIDE DEF t
  <2> DEFINE r == [doc |-> d, status |-> status, recorded |-> t]
  <2>4. r \in Slips /\ r.doc = d /\ r.status = status /\ r.recorded = t /\ t \in 1..at'
        /\ receipts' = Append(receipts, r)
    BY <1>1, <2>1, <2>2, <2>3 DEF Slips, Known
  <2>5. custody[d] # "none"
    BY <2>2 DEF Known
  <2> HIDE DEF r
  <2> QED BY <2>1, <2>2, <2>3, <2>4, <2>5, <1>2, SlipKeeps
<1>9. ASSUME NEW what \in {"queued", "completed", "claimed", "timed_out", "crossed"},
             at' = at + 1, events' = Append(events, [what |-> what, doc |-> V!Whole, at |-> at']),
             receipts' = receipts, custody' = custody,
             what = "crossed" => \A d \in Docs : custody[d] # "accepted"
      PROVE  ViewInv'
  <2> DEFINE e == [what |-> what, doc |-> V!Whole, at |-> at + 1]
  <2>1. /\ e \in Lines /\ e.at = at' /\ e.what = what
        /\ e.what # "acquired" /\ events' = Append(events, e)
    BY <1>1, <1>9 DEF Lines
  <2> HIDE DEF e
  <2>2. \A d \in Docs : custody'[d] = "accepted" => custody[d] = "accepted" /\ e.what # "crossed"
    BY <1>9, <2>1
  <2> QED BY <1>1, <1>2, <1>9, <2>1, <2>2, LineKeeps
<1>10. CASE V!Sync
  BY <1>10, <1>9 DEF V!Sync
<1>11. CASE V!Poll
  BY <1>11, <1>9 DEF V!Poll
<1>12. CASE V!Cross
  <2>1. \A d \in Docs : custody[d] # "accepted"
    BY <1>12 DEF V!Cross, V!Accepted
  <2> QED BY <1>12, <1>9, <2>1 DEF V!Cross
<1>13. CASE V!Again
  BY <1>13 DEF V!Again, ViewInv, ViewTypes, Clocked, Ordered, Filed, Since, Caught, Shown
<1> QED BY <1>5, <1>6, <1>7, <1>8, <1>10, <1>11, <1>12, <1>13 DEF V!Run

(* What is new of a lines, and where it stands there.                       *)
LEMMA NewIs ==
  ASSUME NEW T, NEW lines \in Seq(T), NEW n \in Nat, n <= Len(lines)
  PROVE  /\ V!New(lines, n) \in Seq(T) /\ Len(V!New(lines, n)) = Len(lines) - n
         /\ \A i \in 1..(Len(lines) - n) : V!New(lines, n)[i] = lines[n + i]
<1> DEFINE top == Len(lines)
<1>1. top \in Nat /\ n + 1 \in Int /\ \A i \in (n + 1)..top : lines[i] \in T
  OBVIOUS
<1>2. /\ SubSeq(lines, n + 1, top) \in Seq(T)
      /\ Len(SubSeq(lines, n + 1, top)) = IF n + 1 <= top THEN top - (n + 1) + 1 ELSE 0
      /\ \A i \in 1..(top - (n + 1) + 1) : SubSeq(lines, n + 1, top)[i] = lines[n + 1 + i - 1]
  BY <1>1, SubSeqProperties
<1> QED BY <1>1, <1>2 DEF V!New

Onwards == \A d \in Docs : V!Rank(view'.stage[d]) >= V!Rank(view.stage[d])

LEMMA ReadEventsKeeps == ViewInv /\ V!ReadEvents => ViewInv' /\ Onwards
<1> SUFFICES ASSUME ViewInv, V!ReadEvents PROVE ViewInv' /\ Onwards
  OBVIOUS
<1> DEFINE n == read.events
           fresh == V!New(events, n)
<1>1. /\ refreshing' = TRUE /\ view' = V!FoldEvents(view, fresh)
      /\ read' = [read EXCEPT !.events = Len(events)]
      /\ events' = events /\ receipts' = receipts /\ at' = at /\ custody' = custody
      /\ dropped' = dropped
  BY DEF V!ReadEvents, V!run
<1>2. /\ events \in Seq(Lines) /\ Len(events) \in Nat /\ n \in Nat /\ n <= Len(events)
      /\ read \in [events : Nat, receipts : Nat] /\ view \in Pictures
  BY DEF ViewInv, ViewTypes
<1> HIDE DEF n
<1>3. /\ Len(fresh) = Len(events) - n /\ Len(fresh) \in Nat
      /\ \A i \in 1..Len(fresh) : fresh[i] = events[n + i] /\ n + i \in 1..Len(events)
  <2>1. Len(V!New(events, n)) = Len(events) - n
        /\ \A i \in 1..(Len(events) - n) : V!New(events, n)[i] = events[n + i]
    BY <1>2, NewIs
  <2> QED BY <2>1, <1>2
<1> HIDE DEF fresh
<1>4. \A i \in 1..Len(events) : events[i] \in Lines
  BY <1>2
<1>5. \A i \in 1..n : events[i].what \in OfOne =>
        V!Rank(view.stage[events[i].doc]) >= V!Rank(events[i].what)
  BY DEF ViewInv, Shown, n
<1>6. ASSUME NEW i \in 1..Len(fresh), fresh[i].what = "acquired"
      PROVE  V!Rank(view.stage[fresh[i].doc]) >= 1 \/
             \E k \in 1..(i - 1) : fresh[k].what = "discovered" /\ fresh[k].doc = fresh[i].doc
  <2>1. fresh[i] = events[n + i] /\ n + i \in 1..Len(events)
    BY <1>3
  <2>2. Named(events, events[n + i].doc, n + i - 1)
    <3>1. \A k \in 1..Len(events) : events[k].what = "acquired" => Named(events, events[k].doc, k - 1)
      BY DEF ViewInv, Ordered
    <3> DEFINE k == n + i
    <3>2. k \in 1..Len(events) /\ events[k].what = "acquired"
      BY <2>1, <1>6
    <3>3. k - 1 = n + i - 1
      BY <1>2, <1>3
    <3> HIDE DEF k
    <3>4. Named(events, events[k].doc, k - 1)
      BY <3>1, <3>2, Zenon
    <3>5. Named(events, events[k].doc, n + i - 1)
      BY <3>3, <3>4, Zenon
    <3> QED BY <3>5, Zenon DEF k
  <2>3. PICK k \in 1..(n + i - 1) : events[k].what = "discovered" /\ events[k].doc = fresh[i].doc
    BY <2>1, <2>2 DEF Named
  <2>4. CASE k <= n
    <3>1. k \in 1..n
      BY <2>3, <2>4, <1>2
    <3>2. V!Rank(view.stage[events[k].doc]) >= V!Rank(events[k].what)
      BY <3>1, <2>3, <1>5 DEF OfOne
    <3> QED BY <3>2, <2>3, RankIs
  <2>5. CASE k > n
    <3>1. k - n \in 1..(i - 1) /\ k - n \in 1..Len(fresh) /\ n + (k - n) = k
      BY <2>3, <2>5, <1>2, <1>3
    <3>2. fresh[k - n] = events[k]
      BY <3>1, <1>3
    <3> QED BY <3>1, <3>2, <2>3
  <2> QED BY <2>3, <2>4, <2>5, <1>2
<1>7. /\ view' \in Pictures
      /\ \A d \in Docs : V!Rank(view'.stage[d]) >= V!Rank(view.stage[d])
      /\ \A i \in 1..Len(fresh) : fresh[i].what \in OfOne =>
           V!Rank(view'.stage[fresh[i].doc]) >= V!Rank(fresh[i].what)
  <2>1. \A i \in 1..Len(fresh) : fresh[i] \in Lines
    BY <1>3, <1>4
  <2> QED BY <1>1, <1>2, <1>3, <1>6, <2>1, EventsShow
<1>8. read'.events = Len(events) /\ read'.receipts = read.receipts
      /\ read' \in [events : Nat, receipts : Nat]
  BY <1>1, <1>2
<1>9. ViewTypes'
  <2>1. refreshing' \in BOOLEAN
    BY <1>1, Zenon
  <2>2. read'.events <= Len(events) /\ read'.receipts <= Len(receipts)
    BY <1>8 DEF ViewInv, ViewTypes
  <2> QED BY <1>1, <1>7, <1>8, <2>1, <2>2 DEF ViewInv, ViewTypes
<1>10. Clocked' /\ Ordered' /\ Filed' /\ Since'
  BY <1>1 DEF ViewInv, Clocked, Ordered, Filed, Since
<1>11. Caught'
  BY <1>1 DEF Caught
<1>12. \A p \in Pictures, d \in Docs : V!Rank(p.stage[d]) \in 0..8
  BY RankIs DEF Pictures, Reached
<1>13. ASSUME NEW i \in 1..Len(events), events[i].what \in OfOne
       PROVE  V!Rank(view'.stage[events[i].doc]) >= V!Rank(events[i].what)
  <2>1. events[i].doc \in Docs /\ V!Rank(events[i].what) \in 0..8
    BY <1>4, <1>13, RankIs DEF Lines, OfOne
  <2>2. CASE i <= n
    <3>1. V!Rank(view.stage[events[i].doc]) >= V!Rank(events[i].what)
      BY <2>2, <1>2, <1>5, <1>13
    <3>2. V!Rank(view'.stage[events[i].doc]) >= V!Rank(view.stage[events[i].doc])
          /\ V!Rank(view'.stage[events[i].doc]) \in 0..8 /\ V!Rank(view.stage[events[i].doc]) \in 0..8
      BY <2>1, <1>2, <1>7, <1>12
    <3> QED BY ONLY <2>1, <3>1, <3>2
  <2>3. CASE i > n
    <3>1. i - n \in 1..Len(fresh) /\ n + (i - n) = i
      BY <2>3, <1>2, <1>3
    <3>2. fresh[i - n] = events[i]
      BY <3>1, <1>3
    <3> QED BY <3>1, <3>2, <1>7, <1>13
  <2> QED BY <2>2, <2>3, <1>2
<1>14. ASSUME NEW j \in 1..read.receipts
       PROVE  receipts[j].doc \in dropped \/
              V!Rank(view'.stage[receipts[j].doc]) >= V!Rank(Says(receipts[j].status))
  <2>1. receipts[j] \in Slips
    BY DEF ViewInv, ViewTypes
  <2>2. receipts[j].doc \in Docs /\ V!Rank(Says(receipts[j].status)) \in 0..8
    BY <2>1, SaysRank DEF Slips
  <2>3. receipts[j].doc \in dropped \/
        V!Rank(view.stage[receipts[j].doc]) >= V!Rank(Says(receipts[j].status))
    BY DEF ViewInv, Shown
  <2>4. V!Rank(view'.stage[receipts[j].doc]) >= V!Rank(view.stage[receipts[j].doc])
        /\ V!Rank(view'.stage[receipts[j].doc]) \in 0..8 /\ V!Rank(view.stage[receipts[j].doc]) \in 0..8
    BY <2>2, <1>2, <1>7, <1>12
  <2> QED BY ONLY <2>2, <2>3, <2>4
<1>15. Shown'
  BY <1>1, <1>8, <1>13, <1>14 DEF Shown
<1> QED BY <1>7, <1>9, <1>10, <1>11, <1>15 DEF ViewInv, Onwards

LEMMA ReadReceiptsKeeps == ViewInv /\ V!ReadReceipts => ViewInv' /\ Onwards
<1> SUFFICES ASSUME ViewInv, V!ReadReceipts PROVE ViewInv' /\ Onwards
  OBVIOUS
<1> DEFINE n == read.receipts
           fresh == V!New(receipts, n)
<1>1. /\ refreshing' = FALSE /\ view' = V!FoldReceipts(view, fresh)
      /\ read' = [read EXCEPT !.receipts = Len(receipts)]
      /\ events' = events /\ receipts' = receipts /\ at' = at /\ custody' = custody
      /\ dropped' = dropped \cup V!Unseen(fresh)
  BY DEF V!ReadReceipts, V!run
<1>2. /\ receipts \in Seq(Slips) /\ Len(receipts) \in Nat /\ n \in Nat /\ n <= Len(receipts)
      /\ read \in [events : Nat, receipts : Nat] /\ view \in Pictures
      /\ events \in Seq(Lines) /\ read.events <= Len(events)
  BY DEF ViewInv, ViewTypes
<1> HIDE DEF n
<1>3. /\ Len(fresh) = Len(receipts) - n /\ Len(fresh) \in Nat
      /\ \A j \in 1..Len(fresh) : fresh[j] = receipts[n + j] /\ n + j \in 1..Len(receipts)
      /\ DOMAIN fresh = 1..Len(fresh)
  <2>1. V!New(receipts, n) \in Seq(Slips) /\ Len(V!New(receipts, n)) = Len(receipts) - n
        /\ \A i \in 1..(Len(receipts) - n) : V!New(receipts, n)[i] = receipts[n + i]
    BY <1>2, NewIs
  <2> QED BY <2>1, <1>2
<1> HIDE DEF fresh
<1>4. \A j \in 1..Len(receipts) : receipts[j] \in Slips /\ receipts[j].doc \in Docs
                                  /\ V!Rank(Says(receipts[j].status)) \in 0..8
  <2>1. \A j \in 1..Len(receipts) : receipts[j] \in Slips
    BY <1>2
  <2> QED BY <2>1, SaysRank DEF Slips
<1>5. /\ view' \in Pictures
      /\ \A d \in Docs : V!Rank(view'.stage[d]) >= V!Rank(view.stage[d])
      /\ \A j \in 1..Len(fresh) : view.stage[fresh[j].doc] # "unseen" =>
           V!Rank(view'.stage[fresh[j].doc]) >= V!Rank(Says(fresh[j].status))
  <2>1. \A j \in 1..Len(fresh) : fresh[j] \in Slips
    BY <1>3, <1>4
  <2> QED BY <1>1, <1>2, <1>3, <2>1, ReceiptsShow
<1>6. /\ read'.events = read.events /\ read'.receipts = Len(receipts)
      /\ read' \in [events : Nat, receipts : Nat]
  BY <1>1, <1>2
<1>7. dropped' \in SUBSET Docs
  BY <1>1 DEF ViewInv, ViewTypes, V!Unseen
<1>8. ViewTypes'
  <2>1. refreshing' \in BOOLEAN
    BY <1>1, Zenon
  <2>2. read'.events <= Len(events) /\ read'.receipts <= Len(receipts)
    BY <1>2, <1>6
  <2> QED BY <1>1, <1>5, <1>6, <1>7, <2>1, <2>2 DEF ViewInv, ViewTypes
<1>9. Clocked' /\ Ordered' /\ Filed' /\ Since'
  BY <1>1 DEF ViewInv, Clocked, Ordered, Filed, Since
<1>10. Caught'
  <2>1. \A j \in 1..Len(receipts) : ~(j > Len(receipts))
    BY <1>2
  <2> QED BY <1>1, <1>6, <2>1 DEF Caught
<1>11. \A p \in Pictures, d \in Docs : V!Rank(p.stage[d]) \in 0..8
  BY RankIs DEF Pictures, Reached
<1>12. \A d \in Docs : V!Rank(view'.stage[d]) >= V!Rank(view.stage[d])
         /\ V!Rank(view'.stage[d]) \in 0..8 /\ V!Rank(view.stage[d]) \in 0..8
  BY <1>2, <1>5, <1>11
<1>13. ASSUME NEW i \in 1..read.events, events[i].what \in OfOne
       PROVE  V!Rank(view'.stage[events[i].doc]) >= V!Rank(events[i].what)
  <2>1. events[i] \in Lines
    BY <1>2
  <2>2. events[i].doc \in Docs /\ V!Rank(events[i].what) \in 0..8
    BY <2>1, <1>13, RankIs DEF Lines, OfOne
  <2>3. V!Rank(view.stage[events[i].doc]) >= V!Rank(events[i].what)
    BY <1>13 DEF ViewInv, Shown
  <2> QED BY ONLY <2>2, <2>3, <1>12
<1>14. ASSUME NEW j \in 1..Len(receipts)
       PROVE  receipts[j].doc \in dropped' \/
              V!Rank(view'.stage[receipts[j].doc]) >= V!Rank(Says(receipts[j].status))
  <2>1. CASE j <= n
    <3>1. receipts[j].doc \in dropped \/
          V!Rank(view.stage[receipts[j].doc]) >= V!Rank(Says(receipts[j].status))
      BY <2>1, <1>2 DEF ViewInv, Shown, n
    <3>2. dropped \subseteq dropped'
      BY <1>1
    <3> QED BY ONLY <3>1, <3>2, <1>4, <1>12
  <2>2. CASE j > n
    <3>1. j - n \in 1..Len(fresh) /\ n + (j - n) = j
      BY <2>2, <1>2, <1>3
    <3>2. fresh[j - n] = receipts[j] /\ j - n \in DOMAIN fresh
      BY <3>1, <1>3
    <3>3. CASE view.stage[receipts[j].doc] = "unseen"
      <4>1. receipts[j].doc \in V!Unseen(fresh)
        BY <3>2, <3>3, <1>4 DEF V!Unseen
      <4> QED BY <4>1, <1>1
    <3>4. CASE view.stage[receipts[j].doc] # "unseen"
      BY <3>1, <3>2, <3>4, <1>5
    <3> QED BY <3>3, <3>4
  <2> QED BY <2>1, <2>2, <1>2
<1>15. Shown'
  BY <1>1, <1>6, <1>13, <1>14 DEF Shown
<1> QED BY <1>5, <1>8, <1>9, <1>10, <1>15 DEF ViewInv, Onwards

LEMMA ViewStep == ViewInv /\ [V!Next]_views => ViewInv' /\ Onwards
<1> SUFFICES ASSUME ViewInv, [V!Next]_views PROVE ViewInv' /\ Onwards
  OBVIOUS
<1>1. view' = view => Onwards
  <2>1. \A s \in Reached : V!Rank(s) \in 0..8
    BY RankIs DEF Reached
  <2>2. \A d \in Docs : view.stage[d] \in Reached
    BY DEF ViewInv, ViewTypes, Pictures
  <2> QED BY <2>1, <2>2 DEF Onwards
<1>2. CASE V!Run /\ UNCHANGED <<read, view, refreshing, dropped>>
  BY <1>1, <1>2, RunKeeps
<1>3. CASE V!Watch
  BY <1>3, ReadEventsKeeps, ReadReceiptsKeeps DEF V!Watch
<1>4. CASE UNCHANGED views
  <2>1. view' = view
    BY <1>4 DEF views
  <2>2. ViewInv'
    BY <1>4 DEF views, ViewInv, ViewTypes, Clocked, Ordered, Filed, Since, Caught, Shown
  <2> QED BY <2>1, <2>2, <1>1
<1> QED BY <1>2, <1>3, <1>4 DEF V!Next

(* A stage the scrubber shows comes from an event or a timely receipt; the *)
(* live view shows the event, and the receipt too if it has read it.  One  *)
(* it has not read is later than the event, or its time misleads.          *)
LEMMA ViewGivesAhead == ViewInv => ScrubberNeverAhead
<1> SUFFICES ASSUME ViewInv, ~refreshing, NEW n \in 0..read.events, NEW d \in Docs, V!Ahead(n, d)
             PROVE  d \in dropped \/ V!Misleads(d)
  BY DEF ScrubberNeverAhead, V!ScrubberNeverAhead
<1> DEFINE far == V!FoldUntil(n).stage[d]
           near == view.stage[d]
<1>1. /\ events \in Seq(Lines) /\ Len(events) \in Nat /\ receipts \in Seq(Slips)
      /\ Len(receipts) \in Nat /\ view \in Pictures /\ read \in [events : Nat, receipts : Nat]
      /\ read.events <= Len(events) /\ read.receipts <= Len(receipts)
      /\ DOMAIN events = 1..Len(events) /\ DOMAIN receipts = 1..Len(receipts)
  BY DEF ViewInv, ViewTypes
<1>2. near \in Reached /\ V!Rank(near) \in 0..8 /\ n \in Nat /\ n <= Len(events)
  BY <1>1, RankIs DEF Pictures, Reached
<1>3. V!Rank(far) > V!Rank(near)
  BY DEF V!Ahead
<1>4. far # "unseen"
  BY <1>2, <1>3, RankIs
<1>5. n # 0
  BY <1>4, BlankPicture DEF V!FoldUntil
<1> DEFINE past == SubSeq(events, 1, n)
           seen == V!FoldEvents(V!Blank, past)
<1>6. Len(past) = n /\ \A i \in 1..n : past[i] = events[i] /\ past[i] \in Lines
  <2>1. \A i \in 1..n : events[i] \in Lines
    BY <1>1, <1>2
  <2>2. Len(SubSeq(events, 1, n)) = (IF 1 <= n THEN n - 1 + 1 ELSE 0)
        /\ \A i \in 1..(n - 1 + 1) : SubSeq(events, 1, n)[i] = events[1 + i - 1]
    BY <1>2, <2>1, SubSeqProperties
  <2> QED BY <1>2, <1>5, <2>1, <2>2
<1>7. far = V!FoldTimely(n, seen).stage[d]
  BY <1>5 DEF V!FoldUntil
<1> HIDE DEF past
<1>8. /\ seen \in Pictures /\ Traced(seen, d, past, n)
      /\ seen.barrier = "crossed" => \E i \in 1..n : past[i].what = "crossed"
  <2>1. Len(past) \in Nat /\ \A i \in 1..Len(past) : past[i] \in Lines
    BY <1>2, <1>6
  <2>2. /\ seen \in Pictures
        /\ \A f \in Docs : Traced(seen, f, past, Len(past))
        /\ seen.barrier = "crossed" => \E i \in 1..Len(past) : past[i].what = "crossed"
    BY <2>1, EventsOnly
  <2> QED BY <2>2, <1>6
<1> HIDE DEF seen, far
<1>9. far = seen.stage[d] \/
      \E j \in 1..Len(receipts) : /\ ~V!Early(receipts[j], n, seen) /\ receipts[j].doc = d
                                  /\ far = Says(receipts[j].status)
  <2>1. \A j \in 1..Len(receipts) : receipts[j] \in Slips
    BY <1>1
  <2> QED BY <1>1, <1>7, <1>8, <2>1, TimelyOnly
<1>10. CASE far = seen.stage[d]
  <2>1. PICK i \in 1..n : past[i].what \in OfOne /\ past[i].doc = d /\ past[i].what = far
    BY <1>4, <1>8, <1>10 DEF Traced
  <2>2. i \in 1..read.events /\ events[i] = past[i]
    BY <1>1, <1>2, <1>6
  <2>3. V!Rank(near) >= V!Rank(far)
    BY <2>1, <2>2 DEF ViewInv, Shown
  <2>4. V!Rank(far) \in 0..8
    BY <2>1, RankIs DEF OfOne
  <2> QED BY ONLY <2>3, <2>4, <1>2, <1>3
<1>11. CASE far # seen.stage[d]
  <2>1. PICK j \in 1..Len(receipts) : /\ ~V!Early(receipts[j], n, seen) /\ receipts[j].doc = d
                                      /\ far = Says(receipts[j].status)
    BY <1>9, <1>11
  <2>2. receipts[j] \in Slips
    BY <1>1
  <2>3. V!Rank(far) \in 0..8
    BY <2>1, <2>2, SaysRank DEF Slips
  <2>4. n \in 1..read.events /\ n \in 1..Len(events) /\ events[n] \in Lines
    BY <1>1, <1>2, <1>5
  <2>5. ~(receipts[j].recorded > events[n].at)
        /\ (receipts[j].status = "indexed" => seen.barrier = "crossed")
    BY <2>1 DEF V!Early
  <2>6. CASE j <= read.receipts
    <3>1. d \in dropped \/ V!Rank(near) >= V!Rank(far)
      BY <2>1, <2>6, <1>1 DEF ViewInv, Shown
    <3> QED BY ONLY <3>1, <2>3, <1>2, <1>3
  <2>9. j > read.receipts /\ V!Recast(receipts, j) => V!Misleads(d)
    BY <2>1, <1>1 DEF V!Misleads
  <2>7. CASE j > read.receipts /\ receipts[j].status # "indexed"
    <3>1. events[n].at < receipts[j].recorded \/ V!Recast(receipts, j)
      BY <2>4, <2>7 DEF ViewInv, Caught
    <3>2. events[n].at \in Nat /\ receipts[j].recorded \in Nat
      BY <2>2, <2>4 DEF Lines, Slips
    <3>3. ~(events[n].at < receipts[j].recorded)
      BY ONLY <3>2, <2>5
    <3> QED BY <3>1, <3>3, <2>7, <2>9
  <2>8. CASE j > read.receipts /\ receipts[j].status = "indexed"
    <3>1. PICK i \in 1..n : past[i].what = "crossed"
      BY <2>5, <2>8, <1>8
    <3>2. events[i].what = "crossed" /\ i \in 1..read.events /\ i \in 1..Len(events)
      BY <3>1, <1>1, <1>2, <1>6
    <3>3. events[i].at < receipts[j].recorded \/ V!Recast(receipts, j)
      BY <3>2, <2>8 DEF ViewInv, Caught
    <3>4. events[i].at < receipts[j].recorded => V!Misleads(d)
      BY <3>2, <2>1, <2>8, <1>1 DEF V!Later, V!Misleads
    <3> QED BY <3>3, <3>4, <2>8, <2>9
  <2> QED BY <2>6, <2>7, <2>8, <1>1
<1> QED BY <1>10, <1>11

-----------------------------------------------------------------------------
(* The four parts side by side.                                           *)
ConsoleInv == LaunchInv /\ DeletionInv /\ DraftInv /\ ViewInv

LEMMA ConsoleInvariant == FairSpec => []ConsoleInv
<1>1. ConsoleInit => ConsoleInv
  BY LaunchInit, DeletionInit, DraftInit, ViewStart DEF ConsoleInit, ConsoleInv
<1>2. ConsoleInv /\ [ConsoleNext]_allVars => ConsoleInv'
  <2> SUFFICES ASSUME ConsoleInv, [ConsoleNext]_allVars PROVE ConsoleInv'
    OBVIOUS
  <2>1. [L!Next]_launches
    BY DEF ConsoleNext, Launching, Deleting, Editing, Viewing, allVars
  <2>2. [R!Next]_deletions
    BY DEF ConsoleNext, Launching, Deleting, Editing, Viewing, allVars
  <2>3. [D!Next]_drafts
    BY DEF ConsoleNext, Launching, Deleting, Editing, Viewing, allVars
  <2>4. [V!Next]_views
    BY DEF ConsoleNext, Launching, Deleting, Editing, Viewing, allVars
  <2> QED BY <2>1, <2>2, <2>3, <2>4, LaunchStep, DeletionStep, DraftStep, ViewStep DEF ConsoleInv
<1> QED BY <1>1, <1>2, PTL DEF FairSpec

(* A launch nobody asked to stop, whose record in memory or on disk says   *)
(* it is over, has no child running, through every crash and restart of    *)
(* the console (console/launcher.py).                                      *)
THEOREM LaunchesUnstoppedAreOver == FairSpec => []UnstoppedIsOver
<1>1. ConsoleInv => UnstoppedIsOver
  BY LaunchGivesOver DEF ConsoleInv
<1> QED BY <1>1, ConsoleInvariant, PTL

(* The retention log has one row for each time a run was removed, whoever  *)
(* removed it and however often a live writer brought it back, or a thread *)
(* is about to write it, unless the console died there (console/logs.py).  *)
THEOREM DeletionsOneRowEach == FairSpec => []OneRowEach
<1>1. ConsoleInv => OneRowEach
  BY DeletionGivesRows DEF ConsoleInv
<1> QED BY <1>1, ConsoleInvariant, PTL

(* Until two processes edit the draft at the same time, it is what the     *)
(* committed edits make of the blank one, each once and in order, and an   *)
(* edit made against a revision is applied to the draft its editor was     *)
(* shown (console/state.py, console/operations.py, cli.cmd_mcp).           *)
THEOREM DraftKeepsEdits == FairSpec => []EditsKept
<1>1. ConsoleInv => EditsKept
  BY DraftGivesEdits DEF ConsoleInv
<1> QED BY <1>1, ConsoleInvariant, PTL

(* Between refreshes the replay scrubber, at any event the live view has   *)
(* read, shows no document further along than the live view does, but for  *)
(* one of which the view dropped a receipt, and one with an unread receipt *)
(* from behind a crossed barrier or appended again for another reason than *)
(* that what was accepted is indexed (console/projection.py, fold_until).  *)
THEOREM ViewScrubberNeverAhead == FairSpec => []ScrubberNeverAhead
<1>1. ConsoleInv => ScrubberNeverAhead
  BY ViewGivesAhead DEF ConsoleInv
<1> QED BY <1>1, ConsoleInvariant, PTL

(* No document falls back in the live view, and a rejected one stays so,   *)
(* whatever is read in whatever order (console/projection.py).             *)
THEOREM ViewStageNeverFalls == FairSpec => V!StageNeverFalls
<1>1. ConsoleInv /\ [ConsoleNext]_allVars =>
        [\A d \in Docs : V!Rank(view'.stage[d]) >= V!Rank(view.stage[d])]_V!vars
  <2> SUFFICES ASSUME ConsoleInv, [ConsoleNext]_allVars
               PROVE  \A d \in Docs : V!Rank(view'.stage[d]) >= V!Rank(view.stage[d])
    OBVIOUS
  <2>1. [V!Next]_views
    BY DEF ConsoleNext, Launching, Deleting, Editing, Viewing, allVars
  <2>2. Onwards
    BY <2>1, ViewStep DEF ConsoleInv
  <2> QED BY <2>2 DEF Onwards
<1> QED BY <1>1, ConsoleInvariant, PTL DEF FairSpec, V!StageNeverFalls

-----------------------------------------------------------------------------
(* The lock of a run, for any number of supervisors.                       *)

USE DEF Acquiring, Leaving, Finished

(* Acquisitions that do not overlap are alone. *)
Alone ==
  \A p, q \in Procs : pc[p] \in Acquiring /\ pc[q] \in Acquiring => p = q

(* A pid is in its file from the end of acquire() on. *)
PidsWritten ==
  /\ \A p \in written : pc[p] \in {"driving", "released"} \cup Finished
  /\ \A p \in Procs : pc[p] \in {"driving", "released"} => p \in written

(* The lock names its creator's file while that process lives. *)
CreatorKnown ==
  /\ file # NoProc => pc[file] \in {"write", "driving"} \cup Finished
  /\ \A p \in Procs : pc[p] \in {"write", "driving"} => file = p

(* What a supervisor has read still holds, or the lock is gone or dead. *)
ReadHolds ==
  \A p \in Procs :
    /\ pc[p] = "probe" =>
         /\ holder[p] \in written \cup {NoProc}
         /\ file \in {NoProc, holder[p]} \/ pc[file] \in Finished
    /\ pc[p] = "unlink" => file = NoProc \/ pc[file] \in Finished

(* One takeover suffices. *)
FirstTry ==
  \A p \in Procs :
    /\ pc[p] \in {"read", "probe", "unlink"} => tries[p] = 0
    /\ pc[p] = "create" => tries[p] = 0 \/ (tries[p] = 1 /\ file = NoProc)
    /\ pc[p] = "start" => tries[p] = 0

Orderly == Alone /\ PidsWritten /\ CreatorKnown /\ ReadHolds /\ FirstTry

(* A supervisor is never in a third iteration. *)
TriesLeft ==
  \A p \in Procs : pc[p] \in {"read", "probe", "unlink"} => tries[p] < 2

Typed == TypeOK /\ TriesLeft

LockInv == Typed /\ (overlapped \/ Orderly)

(* Before any supervisor starts, the lock is free and in order. *)
LEMMA LockInit == Init => LockInv
<1> SUFFICES ASSUME Init PROVE LockInv
  OBVIOUS
<1>1. Typed
  <2>1. pc \in [Procs -> {"start"}] /\ tries \in [Procs -> {0}]
        /\ holder \in [Procs -> {NoProc}]
    BY DEF Init
  <2>2. overlapped \in BOOLEAN
    BY DEF Init
  <2> QED BY <2>1, <2>2 DEF Init, Typed, TypeOK, TriesLeft
<1>2. Alone /\ PidsWritten /\ ReadHolds /\ FirstTry
  BY DEF Init, Alone, PidsWritten, ReadHolds, FirstTry
<1>3. CreatorKnown
  BY DEF Init, CreatorKnown
<1> QED BY <1>1, <1>2, <1>3 DEF LockInv, Orderly

(* No step takes a variable out of its type or acquire() into a third try. *)
LEMMA LockTyped == Typed /\ [Next]_vars => Typed'
<1> SUFFICES ASSUME Typed, [Next]_vars PROVE Typed'
  OBVIOUS
<1> USE DEF Typed, TypeOK, TriesLeft, Goto
<1>1. ASSUME NEW p \in Procs, Step(p) PROVE Typed'
  <2>1. CASE Begin(p) BY <2>1 DEF Begin, Contended
  <2>2. CASE Create(p) BY <2>2 DEF Create
  <2>3. CASE Exists(p) BY <2>3 DEF Exists
  <2>4. CASE GiveUp(p) BY <2>4 DEF GiveUp
  <2>5. CASE Read(p) BY <2>5 DEF Read, Content
  <2>6. CASE Probe(p) BY <2>6 DEF Probe
  <2>7. CASE Unlink(p) BY <2>7 DEF Unlink
  <2>8. CASE Write(p) BY <2>8 DEF Write
  <2>9. CASE Release(p) BY <2>9 DEF Release
  <2>10. CASE Exit(p) BY <2>10 DEF Exit
  <2> QED BY <1>1, <2>1, <2>2, <2>3, <2>4, <2>5, <2>6, <2>7, <2>8, <2>9, <2>10 DEF Step
<1>2. ASSUME NEW p \in Procs, Kill(p) \/ Recycle(p) PROVE Typed'
  BY <1>2 DEF Kill, Recycle
<1>3. CASE UNCHANGED vars
  BY <1>3 DEF vars
<1> QED BY <1>1, <1>2, <1>3 DEF Next, Over

(* While acquisitions do not overlap, the lock stays in order. *)
LEMMA LockOrder == Typed /\ Orderly /\ [Next]_vars => overlapped' \/ Orderly'
<1> SUFFICES ASSUME Typed, Orderly, [Next]_vars, ~overlapped' PROVE Orderly'
  OBVIOUS
<1> USE LockAssumption DEF Typed, TypeOK, Goto, Orderly
<1>1. ASSUME NEW p \in Procs, Begin(p) PROVE Orderly'
  <2>1. Alone' BY <1>1 DEF Begin, Contended, Alone
  <2>2. PidsWritten' /\ FirstTry' BY <1>1 DEF Begin, PidsWritten, FirstTry
  <2>3. CreatorKnown' /\ ReadHolds' BY <1>1 DEF Begin, CreatorKnown, ReadHolds
  <2> QED BY <2>1, <2>2, <2>3
<1>2. ASSUME NEW p \in Procs, Create(p) PROVE Orderly'
  <2>1. Alone' BY <1>2 DEF Create, Alone
  <2>2. PidsWritten' /\ FirstTry' BY <1>2 DEF Create, PidsWritten, FirstTry, Alone
  <2>3. CreatorKnown' BY <1>2 DEF Create, CreatorKnown
  <2>4. ReadHolds' BY <1>2 DEF Create, ReadHolds, Alone
  <2> QED BY <2>1, <2>2, <2>3, <2>4
<1>3. ASSUME NEW p \in Procs, Exists(p) PROVE Orderly'
  <2>1. Alone' BY <1>3 DEF Exists, Alone
  <2>2. PidsWritten' /\ FirstTry' BY <1>3 DEF Exists, PidsWritten, FirstTry
  <2>3. CreatorKnown' /\ ReadHolds' BY <1>3 DEF Exists, CreatorKnown, ReadHolds
  <2> QED BY <2>1, <2>2, <2>3
<1>4. ASSUME NEW p \in Procs, GiveUp(p) PROVE Orderly'
  BY <1>4 DEF GiveUp, FirstTry
<1>5. ASSUME NEW p \in Procs, Read(p) PROVE Orderly'
  <2>1. Alone' BY <1>5 DEF Read, Alone
  <2>2. PidsWritten' /\ FirstTry' BY <1>5 DEF Read, PidsWritten, FirstTry
  <2>3. CreatorKnown' BY <1>5 DEF Read, CreatorKnown
  <2>4. file \notin written => file = NoProc \/ pc[file] \in Finished
    BY <1>5 DEF Read, CreatorKnown, PidsWritten, Alone
  <2>5. ReadHolds' BY <1>5, <2>4 DEF Read, Content, ReadHolds
  <2> QED BY <2>1, <2>2, <2>3, <2>5
<1>6. ASSUME NEW p \in Procs, Probe(p) PROVE Orderly'
  <2>1. Alone' BY <1>6 DEF Probe, Alone
  <2>2. PidsWritten' /\ FirstTry' BY <1>6 DEF Probe, PidsWritten, FirstTry
  <2>3. CreatorKnown' BY <1>6 DEF Probe, CreatorKnown
  <2>4. Blocks(holder[p]) \/ file = NoProc \/ pc[file] \in Finished
    BY <1>6 DEF Probe, Blocks, Alive, ReadHolds, PidsWritten, CreatorKnown
  <2>5. ReadHolds' BY <1>6, <2>4 DEF Probe, ReadHolds
  <2> QED BY <2>1, <2>2, <2>3, <2>5
<1>7. ASSUME NEW p \in Procs, Unlink(p) PROVE Orderly'
  <2>1. Alone' BY <1>7 DEF Unlink, Alone
  <2>2. PidsWritten' /\ FirstTry' BY <1>7 DEF Unlink, PidsWritten, FirstTry
  <2>3. CreatorKnown' BY <1>7 DEF Unlink, CreatorKnown, ReadHolds
  <2>4. ReadHolds' BY <1>7 DEF Unlink, ReadHolds
  <2> QED BY <2>1, <2>2, <2>3, <2>4
<1>8. ASSUME NEW p \in Procs, Write(p) PROVE Orderly'
  <2>1. Alone' BY <1>8 DEF Write, Alone
  <2>2. PidsWritten' /\ FirstTry' BY <1>8 DEF Write, PidsWritten, FirstTry
  <2>3. CreatorKnown' BY <1>8 DEF Write, CreatorKnown
  <2>4. ReadHolds' BY <1>8 DEF Write, ReadHolds
  <2> QED BY <2>1, <2>2, <2>3, <2>4
<1>9. ASSUME NEW p \in Procs, Release(p) PROVE Orderly'
  <2>1. Alone' BY <1>9 DEF Release, Alone
  <2>2. PidsWritten' /\ FirstTry' BY <1>9 DEF Release, PidsWritten, FirstTry
  <2>3. CreatorKnown' BY <1>9 DEF Release, CreatorKnown
  <2>4. ReadHolds' BY <1>9 DEF Release, ReadHolds
  <2> QED BY <2>1, <2>2, <2>3, <2>4
<1>10. ASSUME NEW p \in Procs, Kill(p) PROVE Orderly'
  <2>1. Alone' BY <1>10 DEF Kill, Alone
  <2>2. PidsWritten' /\ FirstTry' BY <1>10 DEF Kill, PidsWritten, FirstTry
  <2>3. CreatorKnown' BY <1>10 DEF Kill, CreatorKnown
  <2>4. ReadHolds' BY <1>10 DEF Kill, ReadHolds
  <2> QED BY <2>1, <2>2, <2>3, <2>4
<1>12. ASSUME NEW p \in Procs, Exit(p) \/ Recycle(p) PROVE Orderly'
  <2>1. Alone' BY <1>12 DEF Exit, Recycle, Alone
  <2>2. PidsWritten' /\ FirstTry' BY <1>12 DEF Exit, Recycle, PidsWritten, FirstTry
  <2>3. CreatorKnown' BY <1>12 DEF Exit, Recycle, CreatorKnown
  <2>4. ReadHolds' BY <1>12 DEF Exit, Recycle, ReadHolds
  <2> QED BY <2>1, <2>2, <2>3, <2>4
<1>11. CASE UNCHANGED vars
  BY <1>11 DEF vars, Alone, PidsWritten, CreatorKnown, ReadHolds, FirstTry
<1> QED BY <1>1, <1>2, <1>3, <1>4, <1>5, <1>6, <1>7, <1>8, <1>9, <1>10, <1>11, <1>12
        DEF Next, Step, Over

(* The order is kept from the start until two acquisitions overlap. *)
LEMMA LockInvariance == Init /\ [][Next]_vars => []LockInv
<1>1. LockInv /\ [Next]_vars => LockInv'
  <2> SUFFICES ASSUME LockInv, [Next]_vars PROVE LockInv'
    OBVIOUS
  <2>1. Typed'
    BY LockTyped DEF LockInv
  <2>2. overlapped => overlapped'
    BY DEF Next, Step, Over, vars, Begin, Create, Exists, GiveUp, Read, Probe,
           Unlink, Write, Release, Exit, Kill, Recycle
  <2> QED BY <2>1, <2>2, LockOrder DEF LockInv
<1> QED BY <1>1, LockInit, PTL

(* Every variable of the lock keeps its type, and no supervisor goes through
   acquire()'s loop more than twice (supervisor.py:81). *)
THEOREM LockTypeOK == Spec => []TypeOK
<1>1. LockInv => TypeOK
  BY DEF LockInv, Typed
<1> QED BY <1>1, LockInvariance, PTL DEF Spec

(* Any number of supervisors, killed at any point: as long as no two acquire
   at the same time, at most one drives the run (supervisor.py:73-104). *)
THEOREM LockSoleDriver == Spec => []SoleDriver
<1>1. LockInv => SoleDriver
  BY LockAssumption DEF LockInv, Orderly, CreatorKnown, SoleDriver, OneSupervisor
<1> QED BY <1>1, LockInvariance, PTL DEF Spec

(* Under the same condition whoever is refused was refused because of a
   process that drives, or that did when the lock was read and is not gone,
   or that was given the pid of one that died driving: a dead one whose pid
   is free never blocks (supervisor.py:85-95). *)
THEOREM LockRefusalJustified == Spec => RefusalJustified
<1> DEFINE Justified ==
      \A p \in Procs : pc[p] # "refused" /\ pc'[p] = "refused"
        => \/ overlapped
           \/ /\ holder[p] \in Procs \ {p}
              /\ pc[holder[p]] \in {"driving", "released", "reused"}
<1>1. LockInv /\ [Next]_vars => [Justified]_vars
  <2> SUFFICES ASSUME LockInv, Next, ~overlapped, NEW p \in Procs,
                      pc[p] # "refused", pc'[p] = "refused"
               PROVE  /\ holder[p] \in Procs \ {p}
                      /\ pc[holder[p]] \in {"driving", "released", "reused"}
    BY DEF vars
  <2> USE DEF LockInv, Typed, TypeOK, Orderly, Goto
  <2>1. Probe(p)
    <3>1. ~GiveUp(p)
      BY DEF GiveUp, FirstTry
    <3>2. \E q \in Procs : Step(q) \/ Kill(q) \/ Recycle(q)
      BY DEF Next, Over, vars
    <3>3. PICK q \in Procs : Step(q) \/ Kill(q) \/ Recycle(q)
      BY <3>2
    <3>4. pc' = [pc EXCEPT ![q] = pc'[q]]
      BY <3>3 DEF Step, Begin, Create, Exists, GiveUp, Read, Probe,
                  Unlink, Write, Release, Exit, Kill, Recycle
    <3>5. q = p
      BY <3>4
    <3> QED BY <3>1, <3>3, <3>5 DEF Step, Begin, Create, Exists, GiveUp, Read,
                                    Unlink, Write, Release, Exit, Kill, Recycle
  <2>2. Blocks(holder[p])
    BY <2>1 DEF Probe
  <2>3. holder[p] \in written /\ holder[p] \in Procs
    BY <2>1, <2>2 DEF Probe, Blocks, ReadHolds
  <2>4. pc[holder[p]] \in {"driving", "released", "reused"} /\ pc[p] = "probe"
    BY <2>1, <2>2, <2>3 DEF Probe, Blocks, Alive, PidsWritten
  <2> QED BY <2>3, <2>4
<1> QED BY <1>1, LockInvariance, PTL DEF Spec, RefusalJustified

(* Where acquisitions never overlap, the file protocol implements the lock of
   DriverLock: one driver until it leaves, and a dead one is cleared before
   the next (supervisor.py:25-26, 72-104). *)
THEOREM LockImplementsDriverLock ==
  ASSUME Overlap = FALSE
  PROVE  Spec => Lock!Spec
<1> USE DEF Lock!Take, Lock!GiveBack, Lock!Leave, Lock!Clear
<1> DEFINE Ended == {p \in Procs : pc[p] \in Leaving \cup Finished}
<1>1. Init => Lock!Init
  BY LockAssumption DEF Init, Lock!Init, Content
<1>2. Init => ~overlapped
  BY DEF Init
<1>3. ~overlapped /\ [Next]_vars => ~overlapped'
  BY DEF Next, Step, Over, vars, Begin, Create, Exists, GiveUp, Read, Probe,
         Unlink, Write, Release, Exit, Kill, Recycle
<1>4. LockInv /\ ~overlapped /\ [Next]_vars => [Lock!Next]_<<Content, Ended>>
  <2> SUFFICES ASSUME LockInv, ~overlapped, [Next]_vars
               PROVE  [Lock!Next]_<<Content, Ended>>
    OBVIOUS
  <2> USE LockAssumption DEF LockInv, Typed, TypeOK, Orderly, Goto
  <2>1. ASSUME NEW p \in Procs, Begin(p) \/ Exists(p) \/ Read(p)
        PROVE  UNCHANGED <<Content, Ended>>
    BY <2>1 DEF Begin, Exists, Read, Content
  <2>2. ASSUME NEW p \in Procs, Create(p) PROVE UNCHANGED <<Content, Ended>>
    BY <2>2 DEF Create, Content, PidsWritten
  <2>3. ASSUME NEW p \in Procs, GiveUp(p) PROVE FALSE
    BY <2>3 DEF GiveUp, FirstTry
  <2>4. ASSUME NEW p \in Procs, Probe(p)
        PROVE  UNCHANGED <<Content, Ended>> \/ Lock!Leave(p)
    <3>1. CASE pc'[p] = "unlink"
      BY <2>4, <3>1 DEF Probe, Content
    <3>2. CASE pc'[p] = "refused"
      BY <2>4, <3>2 DEF Probe, Content
    <3> QED BY <2>4, <3>1, <3>2 DEF Probe
  <2>5. ASSUME NEW p \in Procs, Unlink(p)
        PROVE  UNCHANGED <<Content, Ended>> \/ Lock!Clear
    <3>1. Ended' = Ended
      BY <2>5 DEF Unlink
    <3>2. Content' = NoProc
      BY <2>5 DEF Unlink, Content
    <3>3. Content = NoProc \/ Content \in Ended
      BY <2>5 DEF Unlink, ReadHolds, Content
    <3> QED BY <3>1, <3>2, <3>3
  <2>6. ASSUME NEW p \in Procs, Write(p) PROVE Lock!Take(p)
    <3>1. Ended' = Ended /\ p \notin Ended
      BY <2>6 DEF Write
    <3>2. Content = NoProc /\ Content' = p
      BY <2>6 DEF Write, Content, CreatorKnown, PidsWritten
    <3> QED BY <3>1, <3>2
  <2>7. ASSUME NEW p \in Procs, Release(p) PROVE Lock!GiveBack(p)
    <3>1. Ended' = Ended \cup {p}
      BY <2>7 DEF Release
    <3>2. Content = p /\ Content' = NoProc
      BY <2>7 DEF Release, Content, CreatorKnown, PidsWritten
    <3> QED BY <3>1, <3>2
  <2>8. ASSUME NEW p \in Procs, Kill(p) PROVE Lock!Leave(p)
    BY <2>8 DEF Kill, Content
  <2>10. ASSUME NEW p \in Procs, Exit(p) \/ Recycle(p)
         PROVE  UNCHANGED <<Content, Ended>>
    BY <2>10 DEF Exit, Recycle, Content
  <2>9. CASE UNCHANGED vars
    BY <2>9 DEF vars, Content
  <2> QED BY <2>1, <2>2, <2>3, <2>4, <2>5, <2>6, <2>7, <2>8, <2>9, <2>10
          DEF Next, Step, Over, Lock!Next
<1> QED BY <1>1, <1>2, <1>3, <1>4, LockInvariance, PTL DEF Spec, Lock!Spec
=============================================================================
