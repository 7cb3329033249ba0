-------------------------- MODULE CollectionProofs --------------------------
(***************************************************************************)
(* Theorems about Collection for any sources, branches, rounds and deaths. *)
(*                                                                         *)
(* The inductive invariant says where every record and every claim is: a   *)
(* record that was admitted is in the hands of one branch, on file, or     *)
(* dropped; a claim in memory is on file, in the hands of the branch that  *)
(* holds its source, or lost with a source that was dropped and will not   *)
(* be listed while this process lives.  The registry of a living process   *)
(* agrees with the file, so a process that resumes judges candidates as    *)
(* its predecessor would have.                                             *)
(***************************************************************************)
EXTENDS Collection, FiniteSetTheorems, TLAPS

Kept(s) == registry[s] \in {"retained", "failed"}
Filed(s) == rows[s].state # "unseen"

(* The phases and the locals of _run_round. *)
PhasesInv ==
  /\ phase \notin {"admit", "extract"} =>
       \A b \in Subtopics : pool[b] = <<>> /\ fresh[b] = {}
  /\ phase # "extract" => \A b \in Subtopics : work[b] = "done" /\ unwritten[b] = {}
  /\ \A b \in Subtopics : b \notin asked => pool[b] = <<>> /\ fresh[b] = {}
  /\ phase = "down" => registry = Unseen /\ claims = {} /\ decision = "continue"

(* A record in the hands of a branch: admitted, not on file, nobody else's. *)
FreshInv ==
  \A b \in Subtopics : \A s \in fresh[b] :
    /\ Kept(s) /\ ~Filed(s)
    /\ \A d \in Subtopics : s \in fresh[d] => d = b

(* Where branches stand. *)
WorkInv ==
  \A b \in Subtopics :
    /\ phase = "extract" /\ work[b] = "done" => fresh[b] = {}
    /\ work[b] = "failed" => fresh[b] \subseteq dropped
    /\ unwritten[b] # {} => work[b] \in {"claims", "failed"}

(* The file and the registry. *)
RowsInv ==
  /\ \A s \in Sources : rowCount[s] = IF Filed(s) THEN 1 ELSE 0
  /\ phase # "down" => \A s \in Sources :
       Filed(s) => registry[s] = rows[s].state /\ owner[s] = rows[s].by

(* Nothing admitted is lost but by a branch that raised. *)
HeldInv ==
  phase # "down" => \A s \in Sources :
    Kept(s) => Filed(s) \/ s \in dropped \/ \E b \in Subtopics : s \in fresh[b]

(* Of two listings of one work one is admitted at most. *)
AlikeInv ==
  \A s, t \in Sources : {s, t} \in Alike /\ s # t =>
    /\ ~(Kept(s) /\ Kept(t))
    /\ ~(Filed(s) /\ Filed(t))

(* The claims and their rows. *)
ClaimsInv ==
  /\ \A c \in Claims : claimRows[c] <= 1
  /\ \A b \in Subtopics : \A c \in unwritten[b] :
       c \in claims /\ claimRows[c] = 0 /\ c[1] \in fresh[b]
  /\ phase # "down" => \A c \in Claims : claimRows[c] > 0 => c \in claims

(* A claim that no file will have from this process: its source was dropped. *)
Lost(c) ==
  /\ c[1] \in dropped /\ Kept(c[1]) /\ ~Filed(c[1])
  /\ \A b \in Subtopics : c[1] \notin fresh[b]

(* No claim is in memory alone but those. *)
LostInv ==
  phase # "down" => \A c \in claims :
    claimRows[c] > 0 \/ (\E b \in Subtopics : c \in unwritten[b]) \/ Lost(c)

Ended == {"finished", "completed", "down"}

(* What the last checkpoint decided. *)
SavedInv ==
  /\ decision \in {"continue", saved.decision}
  /\ saved.decision \in {"stopped", "sufficient", "round_limit"} =>
       phase \in Ended
  /\ saved.decision = "sufficient" /\ dropped = {} => \A b \in Subtopics :
       Minimum <= Cardinality({s \in Sources : rows[s] = RowOf(b)})

IInv ==
  /\ TypeOK /\ PhasesInv /\ FreshInv /\ WorkInv /\ RowsInv /\ HeldInv
  /\ AlikeInv /\ ClaimsInv /\ LostInv /\ SavedInv

(* The branch whose turn it is. *)
LEMMA WhoseTyped ==
  ASSUME TypeOK
  PROVE  Whose \in Subtopics
<1>1. Branches \in Nat /\ Branches > 0 /\ turn \in Nat
  BY CollectionAssumption DEF TypeOK
<1>2. turn % Branches \in 0..Branches - 1
  BY <1>1
<1> QED BY <1>1, <1>2 DEF Whose, Place, Subtopics

(* What the branches find are sources, and nothing for those not asked. *)
LEMMA FoundTyped ==
  ASSUME NEW b \in Subtopics
  PROVE  Found(b) \subseteq Seq(Sources) /\ (b \notin asked => Found(b) = {<<>>})
<1>1. \A found \in Listings[b] : Cut(found) \in Seq(Sources)
  <2> SUFFICES ASSUME NEW found \in Seq(Sources) PROVE Cut(found) \in Seq(Sources)
    BY CollectionAssumption
  <2>1. Len(found) > MaxSources => SubSeq(found, 1, MaxSources) \in Seq(Sources)
    BY CollectionAssumption
  <2> QED BY <2>1, CollectionAssumption DEF Cut
<1>2. Listings[b] \in SUBSET Seq(Sources)
  BY CollectionAssumption
<1>3. <<>> \in Seq(Sources)
  OBVIOUS
<1>4. CASE b \in asked
  <2>1. Found(b) = {Cut(found) : found \in Listings[b]}
    BY <1>4 DEF Found
  <2> QED BY <1>1, <1>4, <2>1
<1>5. CASE b \notin asked
  BY <1>3, <1>5 DEF Found
<1> QED BY <1>4, <1>5

(* A candidate under judgement is a source that a branch of the round found. *)
LEMMA TurnFacts ==
  ASSUME IInv, NEW s \in Sources, Turn(s)
  PROVE  \E b \in Subtopics : b = Whose /\ b \in asked /\ phase = "admit"
<1>1. Whose \in Subtopics
  BY WhoseTyped DEF IInv
<1>2. Index \in Nat /\ Index > 0
  <2>1. Branches \in Nat /\ Branches > 0 /\ turn \in Nat
    BY CollectionAssumption DEF IInv, TypeOK
  <2>2. turn \div Branches \in Nat
    BY <2>1
  <2> QED BY <2>2 DEF Index, Place
<1>3. pool[Whose] # <<>>
  <2>1. Index <= Len(pool[Whose])
    BY DEF Turn, Here
  <2>2. Len(<<>>) = 0
    OBVIOUS
  <2> QED BY <1>2, <2>1, <2>2
<1> QED BY <1>1, <1>3 DEF IInv, PhasesInv, Turn

(* What admission does to a candidate that is taken. *)
LEMMA AdmitFacts ==
  ASSUME IInv, NEW s \in Sources, Admit(s)
  PROVE  \E b \in Subtopics :
           /\ b \in asked /\ phase = "admit" /\ registry[s] = "unseen"
           /\ \A t \in Sources : {s, t} \in Alike => registry[t] = "unseen"
           /\ registry' = [registry EXCEPT ![s] = "retained"]
           /\ owner' = [owner EXCEPT ![s] = b]
           /\ fresh' = [fresh EXCEPT ![b] = @ \cup {s}]
           /\ turn' = turn + 1
           /\ UNCHANGED <<phase, round, asked, pool, claims, unwritten, work,
                decision, gaps, rows, rowCount, claimRows, saved, dropped, deaths>>
<1>1. Turn(s) /\ ~Known(s)
  BY DEF Admit
<1>2. PICK b \in Subtopics : b = Whose /\ b \in asked /\ phase = "admit"
  BY <1>1, TurnFacts
<1>3. \A t \in Sources : t = s \/ {s, t} \in Alike => registry[t] = "unseen"
  <2>1. \A t \in Sources : {t, s} = {s, t}
    OBVIOUS
  <2> QED BY <1>1, <2>1 DEF Known
<1>4. /\ registry' = [registry EXCEPT ![s] = "retained"]
      /\ owner' = [owner EXCEPT ![s] = b]
      /\ fresh' = [fresh EXCEPT ![b] = @ \cup {s}]
  BY <1>2 DEF Admit, Register
<1> QED BY <1>1, <1>2, <1>3, <1>4 DEF Turn, disk, history

(* What it does to one that is not. *)
LEMMA JudgeFacts ==
  ASSUME IInv, NEW s \in Sources, Refuse(s) \/ Duplicate(s) \/ Again(s)
  PROVE  /\ \/ registry' = registry /\ owner' = owner
            \/ /\ registry[s] = "unseen"
               /\ registry' = [registry EXCEPT ![s] = "rejected"]
               /\ \E b \in Subtopics : owner' = [owner EXCEPT ![s] = b]
         /\ phase = "admit" /\ turn' = turn + 1
         /\ UNCHANGED <<phase, round, asked, pool, fresh, claims, unwritten, work,
              decision, gaps, rows, rowCount, claimRows, saved, dropped, deaths>>
<1>1. Turn(s)
  BY DEF Refuse, Duplicate, Again
<1>2. Whose \in Subtopics
  BY WhoseTyped DEF IInv
<1>3. fresh' = fresh
  BY DEF Refuse, Duplicate, Again
<1>4. CASE Again(s)
  BY <1>1, <1>3, <1>4 DEF Again, Turn, disk, history
<1>5. CASE Refuse(s) \/ Duplicate(s)
  <2>1. registry[s] = "unseen"
    BY <1>5 DEF Refuse, Duplicate, Known
  <2>2. registry' = [registry EXCEPT ![s] = "rejected"] /\ owner' = [owner EXCEPT ![s] = Whose]
    BY <1>5 DEF Refuse, Duplicate, Register
  <2> QED BY <1>1, <1>2, <1>3, <2>1, <2>2 DEF Turn, disk, history
<1> QED BY <1>4, <1>5

(* A step keeps the types. *)
LEMMA TypeStep ==
  ASSUME IInv, [Next]_vars
  PROVE  TypeOK'
<1> USE CollectionAssumption
<1>0. TypeOK /\ PhasesInv /\ FreshInv
  BY DEF IInv
<1>1. ASSUME Plan PROVE TypeOK'
  <2>1. gaps' \in SUBSET Subtopics /\ phase' \in {"search", "finished"}
    BY <1>1 DEF Plan, Audit
  <2> QED BY <1>0, <1>1, <2>1 DEF Plan, Checkpoint, history, TypeOK
<1>2. ASSUME Discover PROVE TypeOK'
  <2>1. pool' \in [Subtopics -> UNION {Found(b) : b \in Subtopics}]
        /\ \A b \in Subtopics : pool'[b] \in Found(b)
    BY <1>2 DEF Discover
  <2>2. pool' \in [Subtopics -> Seq(Sources)]
    BY <2>1, FoundTyped
  <2> QED BY <1>0, <1>2, <2>2 DEF Discover, disk, history, TypeOK
<1>3. ASSUME NEW s \in Sources, Admit(s) PROVE TypeOK'
  <2>1. PICK b \in Subtopics :
          /\ phase = "admit" /\ phase' = "admit" /\ registry[s] = "unseen"
          /\ \A t \in Sources : {s, t} \in Alike => registry[t] = "unseen"
          /\ registry' = [registry EXCEPT ![s] = "retained"]
          /\ owner' = [owner EXCEPT ![s] = b]
          /\ fresh' = [fresh EXCEPT ![b] = @ \cup {s}]
          /\ UNCHANGED <<work, unwritten, claims, rows, rowCount, claimRows, saved, decision, dropped>>
    BY <1>3, AdmitFacts
  <2>2. UNCHANGED <<phase, round, asked, pool, gaps, deaths>> /\ turn' = turn + 1
    BY <1>3, AdmitFacts
  <2>3. /\ registry' \in [Sources -> {"unseen", "rejected", "retained", "failed"}]
        /\ owner' \in [Sources -> Subtopics \cup {0}]
        /\ fresh' \in [Subtopics -> SUBSET Sources]
    BY <1>0, <2>1 DEF TypeOK
  <2>4. turn' \in Nat
    BY <1>0, <2>2 DEF TypeOK
  <2> HIDE <1>3
  <2> QED BY <1>0, <2>1, <2>2, <2>3, <2>4 DEF TypeOK
<1>4. ASSUME NEW s \in Sources, Refuse(s) \/ Duplicate(s) \/ Again(s) PROVE TypeOK'
  <2>1. /\ registry' \in [Sources -> {"unseen", "rejected", "retained", "failed"}]
        /\ owner' \in [Sources -> Subtopics \cup {0}]
    <3>1. CASE registry' = registry /\ owner' = owner
      BY <1>0, <3>1 DEF TypeOK
    <3>2. ASSUME NEW b \in Subtopics, owner' = [owner EXCEPT ![s] = b],
                 registry' = [registry EXCEPT ![s] = "rejected"]
          PROVE  /\ registry' \in [Sources -> {"unseen", "rejected", "retained", "failed"}]
                 /\ owner' \in [Sources -> Subtopics \cup {0}]
      BY <1>0, <3>2 DEF TypeOK
    <3> QED BY <1>4, <3>1, <3>2, JudgeFacts
  <2> QED BY <1>0, <1>4, <2>1, JudgeFacts DEF TypeOK
<1>5. ASSUME Pass PROVE TypeOK'
  BY <1>0, <1>5 DEF Pass, disk, history, TypeOK, PhasesInv, FreshInv
<1>6. ASSUME Admitted PROVE TypeOK'
  BY <1>0, <1>6 DEF Admitted, disk, history, TypeOK, PhasesInv, FreshInv
<1>7. ASSUME Decide PROVE TypeOK'
  <2>1. PICK outcome \in Outcomes \ {"continue"} :
          decision' = outcome /\ Checkpoint(round, asked, outcome)
    BY <1>7 DEF Decide
  <2>2. outcome \in {"stopped", "sufficient", "round_limit"}
    BY <2>1 DEF Outcomes
  <2>3. gaps' \in SUBSET Subtopics
    BY <1>7 DEF Decide, Audit
  <2>4. saved' \in [round : Nat, asked : SUBSET Subtopics,
                    decision : {"none", "continue", "stopped", "sufficient", "round_limit"}]
    BY <1>0, <2>1, <2>2 DEF Checkpoint, TypeOK
  <2> QED BY <1>0, <1>7, <2>1, <2>2, <2>3, <2>4 DEF Decide, Forget, history, TypeOK
<1>8. ASSUME NextRound PROVE TypeOK'
  BY <1>0, <1>8 DEF NextRound, RoundDone, Forget, Checkpoint, Audit, history, TypeOK,
        PhasesInv, FreshInv
<1>9. ASSUME Complete PROVE TypeOK'
  BY <1>0, <1>9 DEF Complete, memory, disk, history, TypeOK, PhasesInv, FreshInv
<1>10. ASSUME NEW b \in Subtopics, Nothing(b) PROVE TypeOK'
  BY <1>0, <1>10 DEF Nothing, At, Step, inRound, history, TypeOK, PhasesInv, FreshInv
<1>11. ASSUME NEW b \in Subtopics, Extract(b) PROVE TypeOK'
  BY <1>0, <1>11 DEF Extract, At, Step, About, New, inRound, history, TypeOK, PhasesInv, FreshInv
<1>12. ASSUME NEW b \in Subtopics, WriteClaim(b) PROVE TypeOK'
  BY <1>0, <1>12 DEF WriteClaim, At, inRound, history, TypeOK, PhasesInv, FreshInv
<1>13. ASSUME NEW b \in Subtopics, Submit(b) PROVE TypeOK'
  BY <1>0, <1>13 DEF Submit, At, Step, ClaimsWritten, inRound, history, TypeOK, PhasesInv,
        FreshInv
<1>14. ASSUME NEW b \in Subtopics, WriteSource(b) PROVE TypeOK'
  <2>1. PICK s \in fresh[b] :
          /\ rows' = [rows EXCEPT ![s] = [state |-> registry[s], by |-> owner[s]]]
          /\ rowCount' = [rowCount EXCEPT ![s] = @ + 1]
          /\ fresh' = [fresh EXCEPT ![b] = @ \ {s}]
    BY <1>14 DEF WriteSource, AsRecord
  <2>2. s \in Sources /\ registry[s] \in {"retained", "failed"} /\ owner[s] \in Subtopics \cup {0}
    BY <1>0, <2>1 DEF TypeOK, FreshInv, Kept
  <2> QED BY <1>0, <1>14, <2>1, <2>2 DEF WriteSource, AsRecord, inRound, history, TypeOK
<1>15. ASSUME NEW b \in Subtopics, Finish(b) PROVE TypeOK'
  BY <1>0, <1>15 DEF Finish, At, Step, inRound, history, TypeOK, PhasesInv, FreshInv
<1>16. ASSUME NEW b \in Subtopics, Raise(b) PROVE TypeOK'
  BY <1>0, <1>16 DEF Raise, At, Step, TypeOK, PhasesInv, FreshInv
<1>17. ASSUME Die PROVE TypeOK'
  BY <1>0, <1>17 DEF Die, Forget, disk, Unseen, NoOne, TypeOK
<1>18. ASSUME Resume PROVE TypeOK'
  BY <1>0, <1>18 DEF Resume, Rehydrated, disk, history, TypeOK, PhasesInv, FreshInv
<1>19. ASSUME UNCHANGED vars PROVE TypeOK'
  BY <1>0, <1>19 DEF vars, memory, disk, history, TypeOK, PhasesInv, FreshInv
<1> QED BY <1>1, <1>2, <1>3, <1>4, <1>5, <1>6, <1>7, <1>8, <1>9, <1>10, <1>11, <1>12, <1>13,
      <1>14, <1>15, <1>16, <1>17, <1>18, <1>19 DEF Next, Lead, Consider, Work

(* A step keeps the phases. *)
LEMMA PhasesStep ==
  ASSUME IInv, [Next]_vars
  PROVE  PhasesInv'
<1> USE CollectionAssumption
<1>0. PhasesInv /\ TypeOK
  BY DEF IInv
<1>1. ASSUME Plan PROVE PhasesInv'
  BY <1>0, <1>1 DEF Plan, Checkpoint, history, PhasesInv, TypeOK
<1>2. ASSUME Discover PROVE PhasesInv'
  <2>1. \A b \in Subtopics : b \notin asked => pool'[b] = <<>> /\ fresh[b] = {}
    BY <1>0, <1>2, FoundTyped DEF Discover, PhasesInv
  <2> QED BY <1>0, <1>2, <2>1 DEF Discover, disk, history, PhasesInv
<1>3. ASSUME NEW s \in Sources, Admit(s) PROVE PhasesInv'
  <2>1. PICK b \in asked : b \in Subtopics /\ fresh' = [fresh EXCEPT ![b] = @ \cup {s}]
    BY <1>3, AdmitFacts
  <2>2. \A d \in Subtopics : d \notin asked => fresh'[d] = fresh[d]
    BY <1>0, <2>1 DEF TypeOK
  <2>3. /\ phase = "admit" /\ UNCHANGED <<phase, work, unwritten, asked, pool>>
    BY <1>3, AdmitFacts
  <2> QED BY <1>0, <2>2, <2>3 DEF PhasesInv
<1>4. ASSUME NEW s \in Sources, Refuse(s) \/ Duplicate(s) \/ Again(s) PROVE PhasesInv'
  BY <1>0, <1>4, JudgeFacts DEF PhasesInv, TypeOK
<1>5. ASSUME Pass PROVE PhasesInv'
  BY <1>0, <1>5 DEF Pass, disk, history, PhasesInv, TypeOK
<1>6. ASSUME Admitted PROVE PhasesInv'
  BY <1>0, <1>6 DEF Admitted, disk, history, PhasesInv, TypeOK
<1>7. ASSUME Decide PROVE PhasesInv'
  BY <1>0, <1>7 DEF Decide, RoundDone, Forget, Checkpoint, Audit, history, PhasesInv, TypeOK
<1>8. ASSUME NextRound PROVE PhasesInv'
  BY <1>0, <1>8 DEF NextRound, RoundDone, Forget, Checkpoint, Audit, history, PhasesInv, TypeOK
<1>9. ASSUME Complete PROVE PhasesInv'
  BY <1>0, <1>9 DEF Complete, memory, disk, history, PhasesInv, TypeOK
<1>10. ASSUME NEW b \in Subtopics, Nothing(b) PROVE PhasesInv'
  BY <1>0, <1>10 DEF Nothing, At, Step, inRound, history, PhasesInv, TypeOK
<1>11. ASSUME NEW b \in Subtopics, Extract(b) PROVE PhasesInv'
  BY <1>0, <1>11 DEF Extract, At, Step, About, New, inRound, history, PhasesInv, TypeOK
<1>12. ASSUME NEW b \in Subtopics, WriteClaim(b) PROVE PhasesInv'
  BY <1>0, <1>12 DEF WriteClaim, At, inRound, history, PhasesInv, TypeOK
<1>13. ASSUME NEW b \in Subtopics, Submit(b) PROVE PhasesInv'
  BY <1>0, <1>13 DEF Submit, At, Step, ClaimsWritten, inRound, history, PhasesInv, TypeOK
<1>14. ASSUME NEW b \in Subtopics, WriteSource(b) PROVE PhasesInv'
  BY <1>0, <1>14 DEF WriteSource, AsRecord, At, inRound, history, PhasesInv, TypeOK
<1>15. ASSUME NEW b \in Subtopics, Finish(b) PROVE PhasesInv'
  BY <1>0, <1>15 DEF Finish, At, Step, inRound, history, PhasesInv, TypeOK
<1>16. ASSUME NEW b \in Subtopics, Raise(b) PROVE PhasesInv'
  BY <1>0, <1>16 DEF Raise, At, Step, PhasesInv, TypeOK
<1>17. ASSUME Die PROVE PhasesInv'
  BY <1>0, <1>17 DEF Die, Forget, disk, PhasesInv
<1>18. ASSUME Resume PROVE PhasesInv'
  BY <1>0, <1>18 DEF Resume, Rehydrated, disk, history, PhasesInv, TypeOK
<1>19. ASSUME UNCHANGED vars PROVE PhasesInv'
  BY <1>0, <1>19 DEF vars, memory, disk, history, PhasesInv, TypeOK
<1> QED BY <1>1, <1>2, <1>3, <1>4, <1>5, <1>6, <1>7, <1>8, <1>9, <1>10, <1>11, <1>12, <1>13,
      <1>14, <1>15, <1>16, <1>17, <1>18, <1>19 DEF Next, Lead, Consider, Work

(* A step leaves a record in one pair of hands. *)
LEMMA FreshStep ==
  ASSUME IInv, [Next]_vars
  PROVE  FreshInv'
<1> USE CollectionAssumption
<1>0. FreshInv /\ PhasesInv /\ HeldInv /\ RowsInv
  BY DEF IInv
<1>t. /\ registry \in [Sources -> {"unseen", "rejected", "retained", "failed"}]
      /\ fresh \in [Subtopics -> SUBSET Sources]
      /\ rows \in [Sources -> [state : {"unseen", "retained", "failed"}, by : Subtopics \cup {0}]]
      /\ rowCount \in [Sources -> Nat] /\ owner \in [Sources -> Subtopics \cup {0}]
  BY DEF IInv, TypeOK
<1>1. ASSUME UNCHANGED <<registry, rows, fresh>> PROVE FreshInv'
  BY <1>0, <1>1 DEF FreshInv, Kept, Filed
<1>2. ASSUME Plan \/ Discover \/ Pass \/ Admitted \/ Complete \/ UNCHANGED vars PROVE FreshInv'
  <2>1. CASE Plan \/ Discover \/ Pass
    <3>1. UNCHANGED <<registry, rows, fresh>>
      BY <2>1 DEF Plan, Checkpoint, history, Discover, disk, Pass
    <3> QED BY <1>1, <3>1
  <2>2. CASE Admitted \/ Complete \/ UNCHANGED vars
    <3>1. UNCHANGED <<registry, rows, fresh>>
      BY <2>2 DEF Admitted, disk, history, Complete, memory, vars
    <3> QED BY <1>1, <3>1
  <2> QED BY <1>2, <2>1, <2>2
<1>3. ASSUME NEW b \in Subtopics,
      Nothing(b) \/ Extract(b) \/ WriteClaim(b) \/ Finish(b) \/ Raise(b) PROVE FreshInv'
  <2>1. UNCHANGED <<registry, rows, fresh>>
    BY <1>3 DEF Nothing, At, Step, inRound, history, Extract, About, New, WriteClaim, Finish,
          Raise
  <2> QED BY <1>1, <2>1
<1>4. ASSUME NEW s \in Sources, Admit(s) PROVE FreshInv'
  <2>1. PICK b \in Subtopics :
          /\ phase = "admit" /\ phase' = "admit" /\ registry[s] = "unseen"
          /\ \A t \in Sources : {s, t} \in Alike => registry[t] = "unseen"
          /\ registry' = [registry EXCEPT ![s] = "retained"]
          /\ owner' = [owner EXCEPT ![s] = b]
          /\ fresh' = [fresh EXCEPT ![b] = @ \cup {s}]
          /\ UNCHANGED <<work, unwritten, claims, rows, rowCount, claimRows, saved, decision, dropped>>
    BY <1>4, AdmitFacts
  <2>2. ~Filed(s) /\ \A d \in Subtopics : s \notin fresh[d]
    BY <1>0, <1>t, <2>1 DEF RowsInv, FreshInv, Kept, Filed
  <2> QED BY <1>0, <1>t, <2>1, <2>2 DEF FreshInv, Kept, Filed
<1>5. ASSUME NEW s \in Sources, Refuse(s) \/ Duplicate(s) \/ Again(s) PROVE FreshInv'
  <2>1. fresh' = fresh /\ rows' = rows
    BY <1>5, JudgeFacts
  <2>2. \A t \in Sources : Kept(t) => registry'[t] = registry[t]
    BY <1>t, <1>5, JudgeFacts DEF Kept
  <2> QED BY <1>0, <1>t, <2>1, <2>2 DEF FreshInv, Kept, Filed
<1>6. ASSUME Decide PROVE FreshInv'
  BY <1>6 DEF Decide, Forget, FreshInv
<1>7. ASSUME NextRound PROVE FreshInv'
  BY <1>7 DEF NextRound, Forget, FreshInv
<1>8. ASSUME NEW b \in Subtopics, Submit(b) PROVE FreshInv'
  <2>1. PICK failed \in SUBSET fresh[b] :
          registry' = [s \in Sources |-> IF s \in failed THEN "failed" ELSE registry[s]]
    BY <1>8 DEF Submit
  <2>2. /\ UNCHANGED <<phase, owner, fresh, rows, rowCount, claims, unwritten, claimRows, saved, decision, dropped>>
        /\ phase = "extract" /\ work[b] = "claims" /\ unwritten[b] = {}
    BY <1>8 DEF Submit, At, ClaimsWritten, inRound, history
  <2> QED BY <1>0, <1>t, <2>1, <2>2 DEF FreshInv, Kept, Filed
<1>9. ASSUME NEW b \in Subtopics, WriteSource(b) PROVE FreshInv'
  <2>1. PICK s \in fresh[b] :
          /\ rows' = [rows EXCEPT ![s] = [state |-> registry[s], by |-> owner[s]]]
          /\ rowCount' = [rowCount EXCEPT ![s] = @ + 1]
          /\ fresh' = [fresh EXCEPT ![b] = @ \ {s}]
    BY <1>9 DEF WriteSource, AsRecord
  <2>2. s \in Sources /\ registry[s] \in {"retained", "failed"} /\ ~Filed(s)
    BY <1>0, <1>t, <2>1 DEF FreshInv, Kept
  <2>3. /\ UNCHANGED <<phase, registry, owner, claims, unwritten, work, claimRows, saved, decision, dropped>>
        /\ phase = "extract" /\ work[b] = "rows"
    BY <1>9 DEF WriteSource, AsRecord, At, inRound, history
  <2>4. \A d \in Subtopics : s \notin fresh'[d]
    BY <1>0, <1>t, <2>1 DEF FreshInv
  <2>5. \A t \in Sources : t # s => rows'[t] = rows[t]
    BY <1>t, <2>1
  <2>6. \A d \in Subtopics : fresh'[d] \subseteq fresh[d] /\ fresh[d] \subseteq Sources
    BY <1>t, <2>1
  <2>7. \A d \in Subtopics : \A t \in fresh'[d] : Kept(t)' /\ ~Filed(t)'
    BY <1>0, <2>3, <2>4, <2>5, <2>6 DEF FreshInv, Kept, Filed
  <2> QED BY <1>0, <2>6, <2>7 DEF FreshInv
<1>10. ASSUME Die PROVE FreshInv'
  BY <1>10 DEF Die, Forget, FreshInv
<1>11. ASSUME Resume PROVE FreshInv'
  <2>1. fresh' = fresh /\ \A d \in Subtopics : fresh[d] = {}
    BY <1>0, <1>11 DEF Resume, PhasesInv
  <2> QED BY <2>1 DEF FreshInv
<1> QED BY <1>2, <1>3, <1>4, <1>5, <1>6, <1>7, <1>8, <1>9, <1>10, <1>11 DEF Next, Lead,
      Consider, Work

(* A step keeps what a branch has when it is where it is. *)
LEMMA WorkStep ==
  ASSUME IInv, [Next]_vars
  PROVE  WorkInv'
<1> USE CollectionAssumption
<1>0. WorkInv /\ PhasesInv
  BY DEF IInv
<1>t. /\ work \in [Subtopics -> {"extract", "claims", "rows", "done", "failed"}]
      /\ fresh \in [Subtopics -> SUBSET Sources] /\ unwritten \in [Subtopics -> SUBSET Claims]
  BY DEF IInv, TypeOK
<1>1. ASSUME UNCHANGED <<phase, work, fresh, unwritten, dropped>> PROVE WorkInv'
  BY <1>0, <1>1 DEF WorkInv
<1>2. ASSUME Pass \/ UNCHANGED vars PROVE WorkInv'
  <2>1. UNCHANGED <<phase, work, fresh, unwritten, dropped>>
    BY <1>2 DEF Pass, disk, history, vars, memory
  <2> QED BY <1>1, <2>1
<1>3. ASSUME NEW s \in Sources, Refuse(s) \/ Duplicate(s) \/ Again(s) PROVE WorkInv'
  <2>1. UNCHANGED <<phase, work, fresh, unwritten, dropped>>
    BY <1>3, JudgeFacts
  <2> QED BY <1>1, <2>1
<1>4. ASSUME Plan PROVE WorkInv'
  BY <1>0, <1>4 DEF Plan, history, WorkInv
<1>5. ASSUME Discover PROVE WorkInv'
  BY <1>0, <1>5 DEF Discover, history, WorkInv
<1>6. ASSUME NEW s \in Sources, Admit(s) PROVE WorkInv'
  <2>1. PICK b \in Subtopics :
          /\ phase = "admit" /\ phase' = "admit" /\ registry[s] = "unseen"
          /\ \A t \in Sources : {s, t} \in Alike => registry[t] = "unseen"
          /\ registry' = [registry EXCEPT ![s] = "retained"]
          /\ owner' = [owner EXCEPT ![s] = b]
          /\ fresh' = [fresh EXCEPT ![b] = @ \cup {s}]
          /\ UNCHANGED <<work, unwritten, claims, rows, rowCount, claimRows, saved, decision, dropped>>
    BY <1>6, AdmitFacts
  <2> QED BY <1>0, <2>1 DEF WorkInv, PhasesInv
<1>7. ASSUME Admitted PROVE WorkInv'
  <2>1. \A b \in Subtopics : work'[b] = (IF b \in asked THEN "extract" ELSE "done") /\ unwritten'[b] = {}
    BY <1>0, <1>7 DEF Admitted, PhasesInv
  <2>2. fresh' = fresh
    BY <1>7 DEF Admitted
  <2> QED BY <1>0, <2>1, <2>2 DEF WorkInv, PhasesInv
<1>8. ASSUME Decide PROVE WorkInv'
  BY <1>8 DEF Decide, Forget, WorkInv
<1>9. ASSUME NextRound PROVE WorkInv'
  BY <1>9 DEF NextRound, Forget, WorkInv
<1>10. ASSUME Complete PROVE WorkInv'
  BY <1>0, <1>10 DEF Complete, memory, history, WorkInv
<1>11. ASSUME NEW b \in Subtopics, Nothing(b) PROVE WorkInv'
  <2>1. work' = [work EXCEPT ![b] = "done"] /\ fresh[b] = {} /\ work[b] = "extract"
        /\ UNCHANGED <<phase, fresh, unwritten, dropped>>
    BY <1>11 DEF Nothing, At, Step, inRound, history
  <2> QED BY <1>0, <1>t, <2>1 DEF WorkInv
<1>12. ASSUME NEW b \in Subtopics, Extract(b) PROVE WorkInv'
  <2>1. work' = [work EXCEPT ![b] = "claims"]
        /\ \A d \in Subtopics : d # b => unwritten'[d] = unwritten[d]
        /\ UNCHANGED <<phase, fresh, dropped>>
    BY <1>t, <1>12 DEF Extract, At, Step, inRound, history
  <2> QED BY <1>0, <1>t, <2>1 DEF WorkInv
<1>13. ASSUME NEW b \in Subtopics, WriteClaim(b) PROVE WorkInv'
  <2>1. /\ work[b] = "claims" /\ \A d \in Subtopics : unwritten'[d] \subseteq unwritten[d]
        /\ UNCHANGED <<phase, work, fresh, dropped>>
    BY <1>t, <1>13 DEF WriteClaim, At, inRound, history
  <2> QED BY <1>0, <1>t, <2>1 DEF WorkInv
<1>14. ASSUME NEW b \in Subtopics, Submit(b) PROVE WorkInv'
  <2>1. /\ work' = [work EXCEPT ![b] = "rows"] /\ unwritten[b] = {}
        /\ UNCHANGED <<phase, fresh, unwritten, dropped>>
    BY <1>14 DEF Submit, Step, ClaimsWritten, inRound, history
  <2> QED BY <1>0, <1>t, <2>1 DEF WorkInv
<1>15. ASSUME NEW b \in Subtopics, WriteSource(b) PROVE WorkInv'
  <2>1. /\ \A d \in Subtopics : fresh'[d] \subseteq fresh[d]
        /\ UNCHANGED <<phase, work, unwritten, dropped>>
    BY <1>t, <1>15 DEF WriteSource, AsRecord, inRound, history
  <2> QED BY <1>0, <1>t, <2>1 DEF WorkInv
<1>16. ASSUME NEW b \in Subtopics, Finish(b) PROVE WorkInv'
  <2>1. work' = [work EXCEPT ![b] = "done"] /\ fresh[b] = {} /\ work[b] = "rows"
        /\ UNCHANGED <<phase, fresh, unwritten, dropped>>
    BY <1>16 DEF Finish, At, Step, inRound, history
  <2> QED BY <1>0, <1>t, <2>1 DEF WorkInv
<1>17. ASSUME NEW b \in Subtopics, Raise(b) PROVE WorkInv'
  <2>1. /\ work' = [work EXCEPT ![b] = "failed"] /\ dropped' = dropped \cup fresh[b]
        /\ work[b] \in {"extract", "claims"} /\ UNCHANGED <<phase, fresh, unwritten>>
    BY <1>17 DEF Raise, At, Step
  <2> QED BY <1>0, <1>t, <2>1 DEF WorkInv
<1>18. ASSUME Die PROVE WorkInv'
  BY <1>18 DEF Die, Forget, WorkInv
<1>19. ASSUME Resume PROVE WorkInv'
  <2>1. \A b \in Subtopics : work'[b] = "done" /\ unwritten'[b] = {} /\ fresh'[b] = {}
    BY <1>0, <1>19 DEF Resume, PhasesInv
  <2> QED BY <2>1 DEF WorkInv
<1> QED BY <1>2, <1>3, <1>4, <1>5, <1>6, <1>7, <1>8, <1>9, <1>10, <1>11, <1>12, <1>13, <1>14,
      <1>15, <1>16, <1>17, <1>18, <1>19 DEF Next, Lead, Consider, Work

(* A step keeps the registry as the file has it. *)
LEMMA RowsStep ==
  ASSUME IInv, [Next]_vars
  PROVE  RowsInv'
<1> USE CollectionAssumption
<1>0. RowsInv /\ FreshInv /\ PhasesInv
  BY DEF IInv
<1>t. /\ registry \in [Sources -> {"unseen", "rejected", "retained", "failed"}]
      /\ fresh \in [Subtopics -> SUBSET Sources]
      /\ rows \in [Sources -> [state : {"unseen", "retained", "failed"}, by : Subtopics \cup {0}]]
      /\ rowCount \in [Sources -> Nat] /\ owner \in [Sources -> Subtopics \cup {0}]
  BY DEF IInv, TypeOK
<1>1. ASSUME (phase' # "down" => phase # "down") /\ UNCHANGED <<registry, owner, rows, rowCount>>
      PROVE RowsInv'
  BY <1>0, <1>1 DEF RowsInv, Filed
<1>2. ASSUME Plan \/ Discover \/ Pass \/ Admitted \/ Decide \/ NextRound \/ Complete
      \/ UNCHANGED vars PROVE RowsInv'
  <2>1. CASE Plan \/ Discover \/ Pass \/ Admitted
    <3>1. (phase' # "down" => phase # "down") /\ UNCHANGED <<registry, owner, rows, rowCount>>
      BY <2>1 DEF Plan, Checkpoint, history, Discover, disk, Pass, Admitted
    <3> QED BY <1>1, <3>1
  <2>2. CASE Decide \/ NextRound \/ Complete \/ UNCHANGED vars
    <3>1. (phase' # "down" => phase # "down") /\ UNCHANGED <<registry, owner, rows, rowCount>>
      BY <2>2 DEF Decide, RoundDone, Forget, Checkpoint, Audit, history, NextRound, Complete,
            memory, disk, vars
    <3> QED BY <1>1, <3>1
  <2> QED BY <1>2, <2>1, <2>2
<1>3. ASSUME NEW b \in Subtopics,
      Nothing(b) \/ Extract(b) \/ WriteClaim(b) \/ Finish(b) \/ Raise(b) PROVE RowsInv'
  <2>1. (phase' # "down" => phase # "down") /\ UNCHANGED <<registry, owner, rows, rowCount>>
    BY <1>3 DEF Nothing, At, Step, inRound, history, Extract, About, New, WriteClaim, Finish,
          Raise
  <2> QED BY <1>1, <2>1
<1>4. ASSUME NEW s \in Sources, Admit(s) PROVE RowsInv'
  <2>1. PICK b \in Subtopics :
          /\ phase = "admit" /\ phase' = "admit" /\ registry[s] = "unseen"
          /\ \A t \in Sources : {s, t} \in Alike => registry[t] = "unseen"
          /\ registry' = [registry EXCEPT ![s] = "retained"]
          /\ owner' = [owner EXCEPT ![s] = b]
          /\ fresh' = [fresh EXCEPT ![b] = @ \cup {s}]
          /\ UNCHANGED <<work, unwritten, claims, rows, rowCount, claimRows, saved, decision, dropped>>
    BY <1>4, AdmitFacts
  <2>2. ~Filed(s)
    BY <1>0, <2>1, <1>t DEF RowsInv, Filed
  <2> QED BY <1>0, <1>t, <2>1, <2>2 DEF RowsInv, Filed
<1>5. ASSUME NEW s \in Sources, Refuse(s) \/ Duplicate(s) \/ Again(s) PROVE RowsInv'
  <2>1. UNCHANGED <<phase, rows, rowCount>> /\ phase = "admit"
    BY <1>5, JudgeFacts
  <2>2. \A t \in Sources : registry[t] # "unseen" => registry'[t] = registry[t] /\ owner'[t] = owner[t]
    BY <1>t, <1>5, JudgeFacts
  <2> QED BY <1>0, <1>t, <2>1, <2>2 DEF RowsInv, Filed
<1>6. ASSUME NEW b \in Subtopics, Submit(b) PROVE RowsInv'
  <2>1. PICK failed \in SUBSET fresh[b] :
          registry' = [s \in Sources |-> IF s \in failed THEN "failed" ELSE registry[s]]
    BY <1>6 DEF Submit
  <2>2. /\ UNCHANGED <<phase, owner, fresh, rows, rowCount, claims, unwritten, claimRows, saved, decision, dropped>>
        /\ phase = "extract" /\ work[b] = "claims" /\ unwritten[b] = {}
    BY <1>6 DEF Submit, At, ClaimsWritten, inRound, history
  <2>3. \A s \in Sources : Filed(s) => registry'[s] = registry[s]
    BY <1>0, <1>t, <2>1 DEF FreshInv
  <2>4. rowCount' = rowCount
    BY <1>6 DEF Submit
  <2> QED BY <1>0, <2>2, <2>3, <2>4 DEF RowsInv, Filed
<1>7. ASSUME NEW b \in Subtopics, WriteSource(b) PROVE RowsInv'
  <2>1. PICK s \in fresh[b] :
          /\ rows' = [rows EXCEPT ![s] = [state |-> registry[s], by |-> owner[s]]]
          /\ rowCount' = [rowCount EXCEPT ![s] = @ + 1]
          /\ fresh' = [fresh EXCEPT ![b] = @ \ {s}]
    BY <1>7 DEF WriteSource, AsRecord
  <2>2. s \in Sources /\ registry[s] \in {"retained", "failed"} /\ ~Filed(s)
    BY <1>0, <1>t, <2>1 DEF FreshInv, Kept
  <2>3. /\ UNCHANGED <<phase, registry, owner, claims, unwritten, work, claimRows, saved, decision, dropped>>
        /\ phase = "extract" /\ work[b] = "rows"
    BY <1>7 DEF WriteSource, AsRecord, At, inRound, history
  <2>4. rowCount[s] = 0
    BY <1>0, <2>2 DEF RowsInv
  <2>5. \A t \in Sources : t # s => rows'[t] = rows[t] /\ rowCount'[t] = rowCount[t]
    BY <1>t, <2>1
  <2>6. rows'[s] = [state |-> registry[s], by |-> owner[s]] /\ rowCount'[s] = 1
    BY <1>t, <2>1, <2>2, <2>4
  <2> QED BY <1>0, <2>2, <2>3, <2>5, <2>6 DEF RowsInv, Filed
<1>8. ASSUME Die PROVE RowsInv'
  BY <1>0, <1>8 DEF Die, disk, RowsInv, Filed
<1>9. ASSUME Resume PROVE RowsInv'
  <2>1. /\ \A s \in Sources : registry'[s] = rows[s].state /\ owner'[s] = rows[s].by
        /\ UNCHANGED <<rows, rowCount>>
    BY <1>9 DEF Resume, Rehydrated, disk
  <2> QED BY <1>0, <2>1 DEF RowsInv, Filed
<1> QED BY <1>2, <1>3, <1>4, <1>5, <1>6, <1>7, <1>8, <1>9 DEF Next, Lead, Consider, Work

(* A step loses no record but when a branch raises. *)
LEMMA HeldStep ==
  ASSUME IInv, [Next]_vars
  PROVE  HeldInv'
<1> USE CollectionAssumption
<1>0. HeldInv /\ WorkInv /\ RowsInv /\ FreshInv
  BY DEF IInv
<1>t. /\ registry \in [Sources -> {"unseen", "rejected", "retained", "failed"}]
      /\ fresh \in [Subtopics -> SUBSET Sources]
      /\ rows \in [Sources -> [state : {"unseen", "retained", "failed"}, by : Subtopics \cup {0}]]
      /\ rowCount \in [Sources -> Nat] /\ owner \in [Sources -> Subtopics \cup {0}]
  BY DEF IInv, TypeOK
<1>1. ASSUME (phase' # "down" => phase # "down") /\ UNCHANGED <<registry, rows, fresh, dropped>>
      PROVE HeldInv'
  BY <1>0, <1>1 DEF HeldInv, Kept, Filed
<1>2. ASSUME Plan \/ Discover \/ Pass \/ Admitted \/ Complete \/ UNCHANGED vars PROVE HeldInv'
  <2>1. CASE Plan \/ Discover \/ Pass
    <3>1. (phase' # "down" => phase # "down") /\ UNCHANGED <<registry, rows, fresh, dropped>>
      BY <2>1 DEF Plan, Checkpoint, history, Discover, disk, Pass
    <3> QED BY <1>1, <3>1
  <2>2. CASE Admitted \/ Complete \/ UNCHANGED vars
    <3>1. (phase' # "down" => phase # "down") /\ UNCHANGED <<registry, rows, fresh, dropped>>
      BY <2>2 DEF Admitted, disk, history, Complete, memory, vars
    <3> QED BY <1>1, <3>1
  <2> QED BY <1>2, <2>1, <2>2
<1>3. ASSUME NEW b \in Subtopics, Nothing(b) \/ Extract(b) \/ WriteClaim(b) \/ Finish(b)
      PROVE HeldInv'
  <2>1. (phase' # "down" => phase # "down") /\ UNCHANGED <<registry, rows, fresh, dropped>>
    BY <1>3 DEF Nothing, At, Step, inRound, history, Extract, About, New, WriteClaim, Finish
  <2> QED BY <1>1, <2>1
<1>4. ASSUME NEW s \in Sources, Admit(s) PROVE HeldInv'
  <2>1. PICK b \in Subtopics :
          /\ phase = "admit" /\ phase' = "admit" /\ registry[s] = "unseen"
          /\ \A t \in Sources : {s, t} \in Alike => registry[t] = "unseen"
          /\ registry' = [registry EXCEPT ![s] = "retained"]
          /\ owner' = [owner EXCEPT ![s] = b]
          /\ fresh' = [fresh EXCEPT ![b] = @ \cup {s}]
          /\ UNCHANGED <<work, unwritten, claims, rows, rowCount, claimRows, saved, decision, dropped>>
    BY <1>4, AdmitFacts
  <2>2. s \in fresh'[b] /\ \A d \in Subtopics : fresh[d] \subseteq fresh'[d]
    BY <1>t, <2>1
  <2>3. \A t \in Sources : t # s => registry'[t] = registry[t]
    BY <1>t, <2>1
  <2> QED BY <1>0, <2>1, <2>2, <2>3 DEF HeldInv, Kept, Filed
<1>5. ASSUME NEW s \in Sources, Refuse(s) \/ Duplicate(s) \/ Again(s) PROVE HeldInv'
  <2>1. UNCHANGED <<phase, rows, fresh, dropped>> /\ phase = "admit"
    BY <1>5, JudgeFacts
  <2>2. \A t \in Sources : Kept(t)' => Kept(t)
    BY <1>t, <1>5, JudgeFacts DEF Kept
  <2> QED BY <1>0, <2>1, <2>2 DEF HeldInv, Filed
<1>6. ASSUME Decide PROVE HeldInv'
  <2>1. \A b \in Subtopics : fresh[b] \subseteq dropped
    BY <1>0, <1>6 DEF Decide, RoundDone, WorkInv
  <2>2. UNCHANGED <<registry, rows, dropped>> /\ phase = "extract"
    BY <1>6 DEF Decide, RoundDone, history
  <2> QED BY <1>0, <2>1, <2>2 DEF HeldInv, Kept, Filed
<1>7. ASSUME NextRound PROVE HeldInv'
  <2>1. \A b \in Subtopics : fresh[b] \subseteq dropped
    BY <1>0, <1>7 DEF NextRound, RoundDone, WorkInv
  <2>2. UNCHANGED <<registry, rows, dropped>> /\ phase = "extract"
    BY <1>7 DEF NextRound, RoundDone, history
  <2> QED BY <1>0, <2>1, <2>2 DEF HeldInv, Kept, Filed
<1>8. ASSUME NEW b \in Subtopics, Submit(b) PROVE HeldInv'
  <2>1. PICK failed \in SUBSET fresh[b] :
          registry' = [s \in Sources |-> IF s \in failed THEN "failed" ELSE registry[s]]
    BY <1>8 DEF Submit
  <2>2. /\ UNCHANGED <<phase, owner, fresh, rows, rowCount, claims, unwritten, claimRows, saved, decision, dropped>>
        /\ phase = "extract" /\ work[b] = "claims" /\ unwritten[b] = {}
    BY <1>8 DEF Submit, At, ClaimsWritten, inRound, history
  <2>3. \A s \in Sources : Kept(s)' => Kept(s)
    BY <1>0, <1>t, <2>1 DEF FreshInv, Kept
  <2> QED BY <1>0, <2>2, <2>3 DEF HeldInv, Filed
<1>9. ASSUME NEW b \in Subtopics, WriteSource(b) PROVE HeldInv'
  <2>1. PICK s \in fresh[b] :
          /\ rows' = [rows EXCEPT ![s] = [state |-> registry[s], by |-> owner[s]]]
          /\ rowCount' = [rowCount EXCEPT ![s] = @ + 1]
          /\ fresh' = [fresh EXCEPT ![b] = @ \ {s}]
    BY <1>9 DEF WriteSource, AsRecord
  <2>2. s \in Sources /\ registry[s] \in {"retained", "failed"} /\ ~Filed(s)
    BY <1>0, <1>t, <2>1 DEF FreshInv, Kept
  <2>3. /\ UNCHANGED <<phase, registry, owner, claims, unwritten, work, claimRows, saved, decision, dropped>>
        /\ phase = "extract" /\ work[b] = "rows"
    BY <1>9 DEF WriteSource, AsRecord, At, inRound, history
  <2>4. \A t \in Sources : t # s => rows'[t] = rows[t]
    BY <1>t, <2>1
  <2>5. \A d \in Subtopics : fresh[d] \subseteq fresh'[d] \cup {s}
    BY <1>t, <2>1
  <2>6. Filed(s)'
    BY <1>t, <2>1, <2>2 DEF Filed
  <2> QED BY <1>0, <2>3, <2>4, <2>5, <2>6 DEF HeldInv, Kept, Filed
<1>10. ASSUME NEW b \in Subtopics, Raise(b) PROVE HeldInv'
  <2>1. UNCHANGED <<phase, registry, rows, fresh>> /\ dropped \subseteq dropped'
    BY <1>10 DEF Raise
  <2> QED BY <1>0, <2>1 DEF HeldInv, Kept, Filed
<1>11. ASSUME Die PROVE HeldInv'
  BY <1>11 DEF Die, HeldInv
<1>12. ASSUME Resume PROVE HeldInv'
  <2>1. \A s \in Sources : registry'[s] = rows[s].state /\ rows'[s] = rows[s]
    BY <1>12 DEF Resume, Rehydrated, disk
  <2> QED BY <2>1 DEF HeldInv, Kept, Filed
<1> QED BY <1>2, <1>3, <1>4, <1>5, <1>6, <1>7, <1>8, <1>9, <1>10, <1>11, <1>12 DEF Next, Lead,
      Consider, Work

(* A step admits no second listing of a work. *)
LEMMA AlikeStep ==
  ASSUME IInv, [Next]_vars
  PROVE  AlikeInv'
<1> USE CollectionAssumption
<1>0. AlikeInv /\ FreshInv /\ RowsInv /\ PhasesInv
  BY DEF IInv
<1>t. /\ registry \in [Sources -> {"unseen", "rejected", "retained", "failed"}]
      /\ fresh \in [Subtopics -> SUBSET Sources]
      /\ rows \in [Sources -> [state : {"unseen", "retained", "failed"}, by : Subtopics \cup {0}]]
      /\ rowCount \in [Sources -> Nat] /\ owner \in [Sources -> Subtopics \cup {0}]
  BY DEF IInv, TypeOK
<1>1. ASSUME UNCHANGED <<registry, rows>> PROVE AlikeInv'
  BY <1>0, <1>1 DEF AlikeInv, Kept, Filed
<1>2. ASSUME Plan \/ Discover \/ Pass \/ Admitted \/ Decide \/ NextRound \/ Complete
      \/ UNCHANGED vars PROVE AlikeInv'
  <2>1. CASE Plan \/ Discover \/ Pass \/ Admitted
    <3>1. UNCHANGED <<registry, rows>>
      BY <2>1 DEF Plan, Checkpoint, history, Discover, disk, Pass, Admitted
    <3> QED BY <1>1, <3>1
  <2>2. CASE Decide \/ NextRound \/ Complete \/ UNCHANGED vars
    <3>1. UNCHANGED <<registry, rows>>
      BY <2>2 DEF Decide, RoundDone, Forget, Checkpoint, Audit, history, NextRound, Complete,
            memory, disk, vars
    <3> QED BY <1>1, <3>1
  <2> QED BY <1>2, <2>1, <2>2
<1>3. ASSUME NEW b \in Subtopics,
      Nothing(b) \/ Extract(b) \/ WriteClaim(b) \/ Finish(b) \/ Raise(b) PROVE AlikeInv'
  <2>1. UNCHANGED <<registry, rows>>
    BY <1>3 DEF Nothing, At, Step, inRound, history, Extract, About, New, WriteClaim, Finish,
          Raise
  <2> QED BY <1>1, <2>1
<1>4. ASSUME NEW s \in Sources, Admit(s) PROVE AlikeInv'
  <2>1. PICK b \in Subtopics :
          /\ phase = "admit" /\ phase' = "admit" /\ registry[s] = "unseen"
          /\ \A t \in Sources : {s, t} \in Alike => registry[t] = "unseen"
          /\ registry' = [registry EXCEPT ![s] = "retained"]
          /\ owner' = [owner EXCEPT ![s] = b]
          /\ fresh' = [fresh EXCEPT ![b] = @ \cup {s}]
          /\ UNCHANGED <<work, unwritten, claims, rows, rowCount, claimRows, saved, decision, dropped>>
    BY <1>4, AdmitFacts
  <2>2. \A t \in Sources : t # s => registry'[t] = registry[t]
    BY <1>t, <2>1
  <2>3. \A t \in Sources : {s, t} = {t, s}
    OBVIOUS
  <2>4. \A t \in Sources : {s, t} \in Alike \/ {t, s} \in Alike => ~Kept(t)
    BY <2>1, <2>3 DEF Kept
  <2>5. \A t, u \in Sources : {t, u} \in Alike /\ t # u => ~(Kept(t)' /\ Kept(u)')
    BY <1>0, <2>2, <2>4 DEF AlikeInv, Kept
  <2> QED BY <1>0, <2>1, <2>5 DEF AlikeInv, Filed
<1>5. ASSUME NEW s \in Sources, Refuse(s) \/ Duplicate(s) \/ Again(s) PROVE AlikeInv'
  <2>1. rows' = rows
    BY <1>5, JudgeFacts
  <2>2. \A t \in Sources : Kept(t)' => Kept(t)
    BY <1>t, <1>5, JudgeFacts DEF Kept
  <2> QED BY <1>0, <2>1, <2>2 DEF AlikeInv, Filed
<1>6. ASSUME NEW b \in Subtopics, Submit(b) PROVE AlikeInv'
  <2>1. PICK failed \in SUBSET fresh[b] :
          registry' = [s \in Sources |-> IF s \in failed THEN "failed" ELSE registry[s]]
    BY <1>6 DEF Submit
  <2>2. /\ UNCHANGED <<phase, owner, fresh, rows, rowCount, claims, unwritten, claimRows, saved, decision, dropped>>
        /\ phase = "extract" /\ work[b] = "claims" /\ unwritten[b] = {}
    BY <1>6 DEF Submit, At, ClaimsWritten, inRound, history
  <2>3. \A s \in Sources : Kept(s)' => Kept(s)
    BY <1>0, <1>t, <2>1 DEF FreshInv, Kept
  <2> QED BY <1>0, <2>2, <2>3 DEF AlikeInv, Filed
<1>7. ASSUME NEW b \in Subtopics, WriteSource(b) PROVE AlikeInv'
  <2>1. PICK s \in fresh[b] :
          /\ rows' = [rows EXCEPT ![s] = [state |-> registry[s], by |-> owner[s]]]
          /\ rowCount' = [rowCount EXCEPT ![s] = @ + 1]
          /\ fresh' = [fresh EXCEPT ![b] = @ \ {s}]
    BY <1>7 DEF WriteSource, AsRecord
  <2>2. s \in Sources /\ registry[s] \in {"retained", "failed"} /\ ~Filed(s)
    BY <1>0, <1>t, <2>1 DEF FreshInv, Kept
  <2>3. /\ UNCHANGED <<phase, registry, owner, claims, unwritten, work, claimRows, saved, decision, dropped>>
        /\ phase = "extract" /\ work[b] = "rows"
    BY <1>7 DEF WriteSource, AsRecord, At, inRound, history
  <2>4. \A t \in Sources : t # s => rows'[t] = rows[t]
    BY <1>t, <2>1
  <2>5. Kept(s)
    BY <2>2 DEF Kept
  <2>6. \A t \in Sources : Filed(t) => Kept(t)
    BY <1>0, <1>t, <2>3 DEF RowsInv, Filed, Kept
  <2>7. \A t \in Sources : Filed(t)' => Kept(t)
    BY <2>4, <2>5, <2>6 DEF Filed
  <2> QED BY <1>0, <2>3, <2>7 DEF AlikeInv, Kept
<1>8. ASSUME Die PROVE AlikeInv'
  <2>1. \A s \in Sources : registry'[s] = "unseen"
    BY <1>8 DEF Die, Unseen
  <2> QED BY <1>0, <2>1, <1>8 DEF Die, disk, AlikeInv, Kept, Filed
<1>9. ASSUME Resume PROVE AlikeInv'
  <2>1. \A s \in Sources : registry'[s] = rows[s].state /\ rows'[s] = rows[s]
    BY <1>9 DEF Resume, Rehydrated, disk
  <2> QED BY <1>0, <2>1 DEF AlikeInv, Kept, Filed
<1> QED BY <1>2, <1>3, <1>4, <1>5, <1>6, <1>7, <1>8, <1>9 DEF Next, Lead, Consider, Work

(* A step keeps every claim on file or in the hands that hold its source. *)
LEMMA ClaimsStep ==
  ASSUME IInv, [Next]_vars
  PROVE  ClaimsInv'
<1> USE CollectionAssumption
<1>0. ClaimsInv /\ WorkInv /\ FreshInv /\ PhasesInv
  BY DEF IInv
<1>t. /\ unwritten \in [Subtopics -> SUBSET Claims] /\ fresh \in [Subtopics -> SUBSET Sources]
      /\ claims \in SUBSET Claims /\ claimRows \in [Claims -> Nat]
  BY DEF IInv, TypeOK
<1>1. ASSUME (phase' # "down" => phase # "down") /\ UNCHANGED <<claims, unwritten, claimRows,
      fresh>> PROVE ClaimsInv'
  BY <1>0, <1>1 DEF ClaimsInv
<1>2. ASSUME Plan \/ Discover \/ Pass \/ Admitted \/ Complete \/ UNCHANGED vars PROVE ClaimsInv'
  <2>1. CASE Plan \/ Discover \/ Pass
    <3>1. (phase' # "down" => phase # "down") /\ UNCHANGED <<claims, unwritten, claimRows, fresh>>
      BY <2>1 DEF Plan, Checkpoint, history, Discover, disk, Pass
    <3> QED BY <1>1, <3>1
  <2>2. CASE Admitted \/ Complete \/ UNCHANGED vars
    <3>1. (phase' # "down" => phase # "down") /\ UNCHANGED <<claims, unwritten, claimRows, fresh>>
      BY <2>2 DEF Admitted, disk, history, Complete, memory, vars
    <3> QED BY <1>1, <3>1
  <2> QED BY <1>2, <2>1, <2>2
<1>3. ASSUME NEW b \in Subtopics, Nothing(b) \/ Submit(b) \/ Finish(b) \/ Raise(b)
      PROVE ClaimsInv'
  <2>1. (phase' # "down" => phase # "down") /\ UNCHANGED <<claims, unwritten, claimRows, fresh>>
    BY <1>3 DEF Nothing, At, Step, inRound, history, Submit, ClaimsWritten, Finish, Raise
  <2> QED BY <1>1, <2>1
<1>4. ASSUME NEW s \in Sources, Refuse(s) \/ Duplicate(s) \/ Again(s) PROVE ClaimsInv'
  <2>1. (phase' # "down" => phase # "down") /\ UNCHANGED <<claims, unwritten, claimRows, fresh>>
    BY <1>4, JudgeFacts
  <2> QED BY <1>1, <2>1
<1>5. ASSUME NEW s \in Sources, Admit(s) PROVE ClaimsInv'
  <2>1. PICK b \in Subtopics :
          /\ phase = "admit" /\ phase' = "admit" /\ registry[s] = "unseen"
          /\ \A t \in Sources : {s, t} \in Alike => registry[t] = "unseen"
          /\ registry' = [registry EXCEPT ![s] = "retained"]
          /\ owner' = [owner EXCEPT ![s] = b]
          /\ fresh' = [fresh EXCEPT ![b] = @ \cup {s}]
          /\ UNCHANGED <<work, unwritten, claims, rows, rowCount, claimRows, saved, decision, dropped>>
    BY <1>5, AdmitFacts
  <2>2. \A d \in Subtopics : fresh[d] \subseteq fresh'[d]
    BY <1>t, <2>1
  <2> QED BY <1>0, <2>1, <2>2 DEF ClaimsInv
<1>6. ASSUME Decide PROVE ClaimsInv'
  <2>1. \A b \in Subtopics : unwritten'[b] = {}
    BY <1>6 DEF Decide, Forget
  <2>2. UNCHANGED <<claims, claimRows>> /\ phase = "extract"
    BY <1>6 DEF Decide, RoundDone
  <2> QED BY <1>0, <2>1, <2>2 DEF ClaimsInv
<1>7. ASSUME NextRound PROVE ClaimsInv'
  <2>1. \A b \in Subtopics : unwritten'[b] = {}
    BY <1>7 DEF NextRound, Forget
  <2>2. UNCHANGED <<claims, claimRows>> /\ phase = "extract"
    BY <1>7 DEF NextRound, RoundDone
  <2> QED BY <1>0, <2>1, <2>2 DEF ClaimsInv
<1>8. ASSUME NEW b \in Subtopics, Extract(b) PROVE ClaimsInv'
  <2>1. PICK said \in SUBSET About(b) :
          claims' = claims \cup said /\ unwritten' = [unwritten EXCEPT ![b] = said \ claims]
    BY <1>8 DEF Extract, New
  <2>2. /\ UNCHANGED <<phase, fresh, claimRows>> /\ phase = "extract" /\ work[b] = "extract"
    BY <1>8 DEF Extract, At, inRound
  <2>3. unwritten[b] = {}
    BY <1>0, <2>2 DEF WorkInv
  <2>4. \A c \in Claims : c \notin claims => claimRows[c] = 0
    BY <1>0, <1>t, <2>2 DEF ClaimsInv
  <2>5. \A c \in said : c \in Claims /\ c[1] \in fresh[b]
    BY <2>1 DEF About
  <2>6. \A d \in Subtopics : unwritten'[d] = IF d = b THEN said \ claims ELSE unwritten[d]
    BY <1>t, <2>1
  <2> QED BY <1>0, <2>1, <2>2, <2>3, <2>4, <2>5, <2>6 DEF ClaimsInv
<1>9. ASSUME NEW b \in Subtopics, WriteClaim(b) PROVE ClaimsInv'
  <2>1. PICK c \in unwritten[b] :
          /\ claimRows' = [claimRows EXCEPT ![c] = @ + 1]
          /\ unwritten' = [unwritten EXCEPT ![b] = @ \ {c}]
    BY <1>9 DEF WriteClaim
  <2>2. UNCHANGED <<phase, fresh, claims>> /\ phase = "extract"
    BY <1>9 DEF WriteClaim, At, inRound
  <2>3. c \in Claims /\ claimRows[c] = 0 /\ c[1] \in fresh[b] /\ c \in claims
    BY <1>0, <1>t, <2>1 DEF ClaimsInv
  <2>4. claimRows'[c] = 1 /\ \A e \in Claims : e # c => claimRows'[e] = claimRows[e]
    BY <1>t, <2>1, <2>3
  <2>5. \A d \in Subtopics : d # b => c \notin unwritten[d]
    BY <1>0, <2>1, <2>3 DEF ClaimsInv, FreshInv
  <2>6. \A d \in Subtopics : unwritten'[d] = unwritten[d] \ {c}
    BY <1>t, <2>1, <2>5
  <2>7. \A e \in Claims : claimRows'[e] <= 1
    BY <1>0, <2>4 DEF ClaimsInv
  <2>8. \A d \in Subtopics : \A e \in unwritten'[d] :
          e \in claims /\ claimRows'[e] = 0 /\ e[1] \in fresh[d]
    BY <1>0, <1>t, <2>4, <2>6 DEF ClaimsInv
  <2>9. \A e \in Claims : claimRows'[e] > 0 => e \in claims
    BY <1>0, <2>2, <2>3, <2>4 DEF ClaimsInv
  <2> QED BY <2>2, <2>7, <2>8, <2>9 DEF ClaimsInv
<1>10. ASSUME NEW b \in Subtopics, WriteSource(b) PROVE ClaimsInv'
  <2>1. /\ UNCHANGED <<phase, claims, unwritten, claimRows>> /\ unwritten[b] = {}
        /\ \A d \in Subtopics : d # b => fresh'[d] = fresh[d]
    BY <1>0, <1>t, <1>10 DEF WriteSource, AsRecord, At, inRound, WorkInv
  <2> QED BY <1>0, <2>1 DEF ClaimsInv
<1>11. ASSUME Die PROVE ClaimsInv'
  <2>1. phase' = "down" /\ claimRows' = claimRows /\ \A b \in Subtopics : unwritten'[b] = {}
    BY <1>11 DEF Die, Forget, disk
  <2> QED BY <1>0, <2>1 DEF ClaimsInv
<1>12. ASSUME Resume PROVE ClaimsInv'
  <2>1. \A b \in Subtopics : unwritten'[b] = {}
    BY <1>0, <1>12 DEF Resume, PhasesInv
  <2>2. claims' = {c \in Claims : claimRows[c] > 0} /\ claimRows' = claimRows
    BY <1>12 DEF Resume, disk
  <2> QED BY <1>0, <2>1, <2>2 DEF ClaimsInv
<1> QED BY <1>2, <1>3, <1>4, <1>5, <1>6, <1>7, <1>8, <1>9, <1>10, <1>11, <1>12 DEF Next, Lead,
      Consider, Work

(* A step leaves a claim that is on no file only with a branch that has yet to
   write it, or loses it with its source. *)
LEMMA LostStep ==
  ASSUME IInv, [Next]_vars
  PROVE  LostInv'
<1> USE CollectionAssumption
<1>0. LostInv /\ ClaimsInv /\ WorkInv /\ FreshInv /\ PhasesInv
  BY DEF IInv
<1>t. /\ unwritten \in [Subtopics -> SUBSET Claims] /\ fresh \in [Subtopics -> SUBSET Sources]
      /\ claims \in SUBSET Claims /\ claimRows \in [Claims -> Nat]
      /\ registry \in [Sources -> {"unseen", "rejected", "retained", "failed"}]
      /\ rows \in [Sources -> [state : {"unseen", "retained", "failed"}, by : Subtopics \cup {0}]]
      /\ work \in [Subtopics -> {"extract", "claims", "rows", "done", "failed"}]
      /\ \A c \in Claims : c[1] \in Sources
  BY DEF IInv, TypeOK
(* What a step must leave alone to keep the claims it does not touch. *)
<1>1. ASSUME NEW c \in Claims, Lost(c), dropped \subseteq dropped',
             Kept(c[1]) => Kept(c[1])', Filed(c[1])' => Filed(c[1]),
             \A b \in Subtopics : c[1] \in fresh'[b] => c[1] \in fresh[b]
      PROVE  Lost(c)'
  BY <1>1 DEF Lost
<1>2. ASSUME phase' # "down" => phase # "down", UNCHANGED <<claims, unwritten, claimRows>>,
             \A c \in Claims : Lost(c) => Lost(c)'
      PROVE  LostInv'
  BY <1>0, <1>t, <1>2 DEF LostInv
<1>3. ASSUME phase' # "down" => phase # "down", UNCHANGED <<claims, unwritten, claimRows>>,
             UNCHANGED <<registry, rows, fresh>>, dropped \subseteq dropped'
      PROVE  LostInv'
  <2>1. \A c \in Claims : Lost(c) => Lost(c)'
    BY <1>1, <1>3 DEF Kept, Filed
  <2> QED BY <1>2, <1>3, <2>1
<1>4. CASE Plan \/ Discover \/ Pass
  BY <1>3, <1>4 DEF Plan, Checkpoint, history, Discover, disk, Pass
<1>5. CASE Admitted \/ Complete \/ UNCHANGED vars
  BY <1>3, <1>5 DEF Admitted, disk, history, Complete, memory, vars
<1>6. ASSUME NEW b \in Subtopics, Nothing(b) \/ Finish(b) \/ Raise(b) PROVE LostInv'
  BY <1>3, <1>6 DEF Nothing, At, Step, inRound, history, Finish, Raise
<1>7. ASSUME NEW s \in Sources, Refuse(s) \/ Duplicate(s) \/ Again(s) PROVE LostInv'
  <2>1. /\ UNCHANGED <<phase, fresh, claims, unwritten, claimRows, rows, dropped>>
        /\ \/ registry' = registry
           \/ registry[s] = "unseen" /\ registry' = [registry EXCEPT ![s] = "rejected"]
    BY <1>7, JudgeFacts
  <2>2. \A t \in Sources : Kept(t) => Kept(t)'
    BY <1>t, <2>1 DEF Kept
  <2>3. \A c \in Claims : Lost(c) => Lost(c)'
    BY <1>1, <1>t, <2>1, <2>2 DEF Filed
  <2> QED BY <1>2, <2>1, <2>3
<1>8. ASSUME NEW s \in Sources, Admit(s) PROVE LostInv'
  <2>1. PICK b \in Subtopics :
          /\ phase = "admit" /\ phase' = "admit" /\ registry[s] = "unseen"
          /\ registry' = [registry EXCEPT ![s] = "retained"]
          /\ fresh' = [fresh EXCEPT ![b] = @ \cup {s}]
          /\ UNCHANGED <<unwritten, claims, rows, claimRows, dropped>>
    BY <1>8, AdmitFacts
  <2>2. \A t \in Sources : Kept(t) => t # s /\ Kept(t)'
    BY <1>t, <2>1 DEF Kept
  <2>3. \A d \in Subtopics, t \in Sources : t # s /\ t \in fresh'[d] => t \in fresh[d]
    BY <1>t, <2>1
  <2>4. \A c \in Claims : Lost(c) => c[1] \in Sources /\ Kept(c[1])
    BY <1>t DEF Lost
  <2>5. \A c \in Claims : Lost(c) => Lost(c)'
    BY <1>1, <2>1, <2>2, <2>3, <2>4 DEF Filed
  <2> QED BY <1>2, <2>1, <2>5
<1>9. ASSUME Decide \/ NextRound PROVE LostInv'
  <2>1. /\ UNCHANGED <<registry, rows, claims, claimRows, dropped>> /\ phase = "extract"
        /\ RoundDone /\ \A b \in Subtopics : fresh'[b] = {} /\ unwritten'[b] = {}
    BY <1>9 DEF Decide, NextRound, RoundDone, Forget, history
  <2>2. ASSUME NEW c \in Claims, NEW b \in Subtopics, c \in unwritten[b] PROVE Lost(c)'
    <3>1. work[b] = "failed" /\ fresh[b] \subseteq dropped
      BY <1>0, <1>t, <2>1, <2>2 DEF WorkInv, RoundDone
    <3>2. c[1] \in fresh[b] /\ Kept(c[1]) /\ ~Filed(c[1])
      BY <1>0, <2>2 DEF ClaimsInv, FreshInv
    <3>3. Kept(c[1])' /\ ~Filed(c[1])'
      BY <2>1, <3>2 DEF Kept, Filed
    <3> QED BY <2>1, <3>1, <3>2, <3>3 DEF Lost
  <2>3. \A c \in Claims : Lost(c) => Lost(c)'
    BY <1>1, <2>1 DEF Kept, Filed
  <2> QED BY <1>0, <1>t, <2>1, <2>2, <2>3 DEF LostInv
<1>10. ASSUME NEW b \in Subtopics, Extract(b) PROVE LostInv'
  <2>1. PICK said \in SUBSET About(b) :
          claims' = claims \cup said /\ unwritten' = [unwritten EXCEPT ![b] = said \ claims]
    BY <1>10 DEF Extract, New
  <2>2. /\ UNCHANGED <<phase, fresh, registry, rows, claimRows, dropped>>
        /\ phase = "extract" /\ work[b] = "extract"
    BY <1>10 DEF Extract, At, inRound, history
  <2>3. unwritten[b] = {}
    BY <1>0, <2>2 DEF WorkInv
  <2>4. \A d \in Subtopics : unwritten'[d] = IF d = b THEN said \ claims ELSE unwritten[d]
    BY <1>t, <2>1
  <2>5. \A c \in Claims : Lost(c) => Lost(c)'
    BY <1>1, <2>2 DEF Kept, Filed
  <2>6. ASSUME NEW c \in claims
        PROVE  claimRows'[c] > 0 \/ (\E d \in Subtopics : c \in unwritten'[d]) \/ Lost(c)'
    <3>1. claimRows[c] > 0 \/ (\E d \in Subtopics : c \in unwritten[d]) \/ Lost(c)
      BY <1>0, <2>2 DEF LostInv
    <3> QED BY <1>t, <2>2, <2>3, <2>4, <2>5, <3>1
  <2>7. \A c \in said \ claims : c \in unwritten'[b]
    BY <2>4
  <2>8. \A c \in claims' : c \in claims \/ c \in said \ claims
    BY <2>1
  <2> QED BY <2>6, <2>7, <2>8 DEF LostInv
<1>11. ASSUME NEW b \in Subtopics, WriteClaim(b) PROVE LostInv'
  <2>1. PICK c \in unwritten[b] :
          /\ claimRows' = [claimRows EXCEPT ![c] = @ + 1]
          /\ unwritten' = [unwritten EXCEPT ![b] = @ \ {c}]
    BY <1>11 DEF WriteClaim
  <2>2. UNCHANGED <<phase, fresh, registry, rows, claims, dropped>> /\ phase = "extract"
    BY <1>11 DEF WriteClaim, At, inRound, history
  <2>3. /\ \A d \in Subtopics, e \in Claims : e # c /\ e \in unwritten[d] => e \in unwritten'[d]
        /\ claimRows'[c] > 0 /\ \A e \in Claims : e # c => claimRows'[e] = claimRows[e]
    BY <1>t, <2>1
  <2>4. \A e \in Claims : Lost(e) => Lost(e)'
    BY <1>1, <2>2 DEF Kept, Filed
  <2> QED BY <1>0, <1>t, <2>2, <2>3, <2>4 DEF LostInv
<1>12. ASSUME NEW b \in Subtopics, Submit(b) PROVE LostInv'
  <2>1. PICK failed \in SUBSET fresh[b] :
          registry' = [s \in Sources |-> IF s \in failed THEN "failed" ELSE registry[s]]
    BY <1>12 DEF Submit
  <2>2. UNCHANGED <<phase, fresh, rows, claims, unwritten, claimRows, dropped>>
    BY <1>12 DEF Submit, inRound, history
  <2>3. \A s \in Sources : Kept(s) => Kept(s)'
    BY <2>1 DEF Kept
  <2>4. \A c \in Claims : Lost(c) => Lost(c)'
    BY <1>1, <1>t, <2>2, <2>3 DEF Filed
  <2> QED BY <1>2, <2>2, <2>4
<1>13. ASSUME NEW b \in Subtopics, WriteSource(b) PROVE LostInv'
  <2>1. PICK s \in fresh[b] :
          /\ rows' = [rows EXCEPT ![s] = [state |-> registry[s], by |-> owner[s]]]
          /\ fresh' = [fresh EXCEPT ![b] = @ \ {s}]
    BY <1>13 DEF WriteSource, AsRecord
  <2>2. UNCHANGED <<phase, registry, claims, unwritten, claimRows, dropped>>
    BY <1>13 DEF WriteSource, AsRecord, inRound, history
  <2>3. \A c \in Claims : Lost(c) => c[1] # s
    BY <2>1 DEF Lost
  <2>4. \A t \in Sources : t # s /\ Filed(t)' => Filed(t)
    BY <1>t, <2>1 DEF Filed
  <2>5. \A d \in Subtopics : fresh'[d] \subseteq fresh[d]
    BY <1>t, <2>1
  <2>6. \A c \in Claims : Lost(c) => Lost(c)'
    BY <1>1, <1>t, <2>2, <2>3, <2>4, <2>5 DEF Kept
  <2> QED BY <1>2, <2>2, <2>6
<1>14. CASE Die
  BY <1>14 DEF Die, LostInv
<1>15. CASE Resume
  <2>1. claims' = {c \in Claims : claimRows[c] > 0} /\ claimRows' = claimRows
    BY <1>15 DEF Resume, disk
  <2> QED BY <2>1 DEF LostInv
<1> QED BY <1>4, <1>5, <1>6, <1>7, <1>8, <1>9, <1>10, <1>11, <1>12, <1>13, <1>14, <1>15
      DEF Next, Lead, Consider, Work

(* At the end of a round in which nothing was dropped the sources counted for
   a facet are those on file. *)
LEMMA CountedIsFiled ==
  ASSUME IInv, RoundDone, dropped = {}, NEW b \in Subtopics
  PROVE  SourcesFor(b) = {s \in Sources : rows[s] = RowOf(b)}
<1>0. TypeOK /\ WorkInv /\ RowsInv /\ HeldInv /\ phase = "extract"
  BY DEF IInv, RoundDone
<1>1. \A d \in Subtopics : fresh[d] = {}
  BY <1>0 DEF RoundDone, WorkInv, TypeOK
<1>2. \A s \in Sources : Kept(s) => Filed(s)
  BY <1>0, <1>1 DEF HeldInv
<1>3. ASSUME NEW s \in Sources, registry[s] = "retained", owner[s] = b
      PROVE  rows[s] = RowOf(b)
  <2>1. rows[s].state = "retained" /\ rows[s].by = b
    BY <1>0, <1>2, <1>3 DEF RowsInv, Kept
  <2>2. rows[s] \in [state : {"unseen", "retained", "failed"}, by : Subtopics \cup {0}]
    BY <1>0 DEF TypeOK
  <2> QED BY <2>1, <2>2 DEF RowOf
<1>4. ASSUME NEW s \in Sources, rows[s] = RowOf(b)
      PROVE  registry[s] = "retained" /\ owner[s] = b
  <2>1. rows[s].state = "retained" /\ rows[s].by = b
    BY <1>4 DEF RowOf
  <2> QED BY <1>0, <2>1 DEF RowsInv, Filed
<1> QED BY <1>3, <1>4 DEF SourcesFor, Retained

(* Before the end no decision stands. *)
LEMMA Undecided ==
  ASSUME TypeOK, SavedInv, phase \notin Ended
  PROVE  decision = "continue" /\ saved.decision \in {"none", "continue"}
<1>1. /\ decision \in {"continue", "stopped", "sufficient", "round_limit"}
      /\ saved.decision \in {"none", "continue", "stopped", "sufficient", "round_limit"}
  BY DEF TypeOK
<1> QED BY <1>1 DEF SavedInv

(* A step leaves a decision on file as it is. *)
LEMMA SavedStep ==
  ASSUME IInv, [Next]_vars
  PROVE  SavedInv'
<1> USE CollectionAssumption
<1>0. SavedInv /\ TypeOK /\ PhasesInv
  BY DEF IInv
<1>1. ASSUME UNCHANGED <<decision, saved, rows, dropped>> /\ (phase \in Ended => phase' \in Ended)
      PROVE SavedInv'
  BY <1>0, <1>1 DEF SavedInv, RowOf, Ended
<1>2. ASSUME Discover \/ Pass \/ Admitted \/ Complete \/ UNCHANGED vars PROVE SavedInv'
  <2>1. CASE Discover \/ Pass
    <3>1. UNCHANGED <<decision, saved, rows, dropped>> /\ (phase \in Ended => phase' \in Ended)
      BY <2>1 DEF Discover, disk, history, Pass, Ended
    <3> QED BY <1>1, <3>1
  <2>2. CASE Admitted \/ Complete \/ UNCHANGED vars
    <3>1. UNCHANGED <<decision, saved, rows, dropped>> /\ (phase \in Ended => phase' \in Ended)
      BY <2>2 DEF Admitted, disk, history, Complete, memory, vars, Ended
    <3> QED BY <1>1, <3>1
  <2> QED BY <1>2, <2>1, <2>2
<1>3. ASSUME NEW b \in Subtopics,
      Nothing(b) \/ Extract(b) \/ WriteClaim(b) \/ Submit(b) \/ Finish(b) PROVE SavedInv'
  <2>1. UNCHANGED <<decision, saved, rows, dropped>> /\ (phase \in Ended => phase' \in Ended)
    BY <1>3 DEF Nothing, At, Step, inRound, history, Extract, About, New, WriteClaim, Submit,
          ClaimsWritten, Finish, Ended
  <2> QED BY <1>1, <2>1
<1>4. ASSUME NEW s \in Sources, Refuse(s) \/ Duplicate(s) \/ Again(s) PROVE SavedInv'
  <2>1. UNCHANGED <<decision, saved, rows, dropped>> /\ (phase \in Ended => phase' \in Ended)
    BY <1>4, JudgeFacts
  <2> QED BY <1>1, <2>1
<1>5. ASSUME Plan PROVE SavedInv'
  <2>1. decision = "continue"
    BY <1>0, <1>5, Undecided DEF Plan, Ended
  <2>2. saved'.decision = "continue" /\ decision' = decision
    BY <1>5 DEF Plan, Checkpoint
  <2> QED BY <2>1, <2>2 DEF SavedInv, Ended
<1>6. ASSUME NEW s \in Sources, Admit(s) PROVE SavedInv'
  <2>1. UNCHANGED <<decision, saved, rows, dropped, phase>>
    BY <1>6, AdmitFacts
  <2> QED BY <1>1, <2>1
<1>7. ASSUME Decide PROVE SavedInv'
  <2>1. PICK outcome \in Outcomes \ {"continue"} :
          decision' = outcome /\ Checkpoint(round, asked, outcome)
    BY <1>7 DEF Decide
  <2>2. saved'.decision = outcome /\ UNCHANGED <<rows,
        dropped>> /\ phase' = "finished" /\ RoundDone
    BY <1>7, <2>1 DEF Decide, Checkpoint, history
  <2>3. ASSUME outcome = "sufficient", dropped = {}, NEW b \in Subtopics
        PROVE  Minimum <= Cardinality({s \in Sources : rows[s] = RowOf(b)})
    <3>1. Covered
      BY <2>1, <2>3 DEF Outcomes
    <3>2. Minimum <= Cardinality(SourcesFor(b))
      BY <3>1, <2>3, CollectionAssumption DEF Covered
    <3>3. SourcesFor(b) = {s \in Sources : rows[s] = RowOf(b)}
      BY <2>2, <2>3, CountedIsFiled
    <3> QED BY <3>2, <3>3
  <2>4. \A b \in Subtopics : RowOf(b)' = RowOf(b)
    BY DEF RowOf
  <2> QED BY <2>1, <2>2, <2>3, <2>4 DEF SavedInv, Ended
<1>8. ASSUME NextRound PROVE SavedInv'
  <2>1. decision = "continue"
    BY <1>0, <1>8, Undecided DEF NextRound, RoundDone, Ended
  <2>2. saved'.decision = "continue" /\ decision' = decision
    BY <1>8 DEF NextRound, Checkpoint
  <2> QED BY <2>1, <2>2 DEF SavedInv, Ended
<1>9. ASSUME NEW b \in Subtopics, WriteSource(b) PROVE SavedInv'
  <2>1. decision = "continue" /\ saved.decision \in {"none", "continue"}
    BY <1>0, <1>9, Undecided DEF WriteSource, AsRecord, At, Ended
  <2>2. UNCHANGED <<decision, saved, phase>> /\ phase = "extract"
    BY <1>9 DEF WriteSource, AsRecord, At, inRound
  <2> QED BY <2>1, <2>2 DEF SavedInv, Ended
<1>10. ASSUME NEW b \in Subtopics, Raise(b) PROVE SavedInv'
  <2>1. decision = "continue" /\ saved.decision \in {"none", "continue"}
    BY <1>0, <1>10, Undecided DEF Raise, At, Ended
  <2>2. UNCHANGED <<decision, saved, phase>> /\ phase = "extract"
    BY <1>10 DEF Raise, At
  <2> QED BY <2>1, <2>2 DEF SavedInv, Ended
<1>11. ASSUME Die PROVE SavedInv'
  <2>1. decision' = "continue" /\ phase' = "down" /\ UNCHANGED <<saved, rows, dropped>>
    BY <1>11 DEF Die, disk
  <2> QED BY <1>0, <2>1 DEF SavedInv, RowOf, Ended
<1>12. ASSUME Resume PROVE SavedInv'
  <2>1. /\ decision' = IF saved.decision = "none" THEN "continue" ELSE saved.decision
        /\ UNCHANGED <<saved, rows, dropped>>
    BY <1>12 DEF Resume, disk, history
  <2>2. saved.decision \in {"stopped", "sufficient", "round_limit"} => phase' = "finished"
    BY <1>12 DEF Resume
  <2> QED BY <1>0, <2>1, <2>2 DEF SavedInv, RowOf, Ended
<1> QED BY <1>2, <1>3, <1>4, <1>5, <1>6, <1>7, <1>8, <1>9, <1>10, <1>11, <1>12 DEF Next, Lead,
      Consider, Work

(* The initial state satisfies the invariant. *)
LEMMA InitInv ==
  ASSUME Init
  PROVE  IInv
<1> USE CollectionAssumption
<1>1. TypeOK
  BY DEF Init, TypeOK, Unseen, NoOne, NoRow
<1>2. PhasesInv /\ FreshInv /\ WorkInv /\ ClaimsInv /\ LostInv /\ SavedInv
  BY DEF Init, PhasesInv, FreshInv, WorkInv, ClaimsInv, LostInv, SavedInv
<1>3. RowsInv /\ HeldInv /\ AlikeInv
  BY DEF Init, RowsInv, HeldInv, AlikeInv, Kept, Filed, NoRow, Unseen
<1> QED BY <1>1, <1>2, <1>3 DEF IInv

(* The invariant is inductive. *)
LEMMA InvStep ==
  ASSUME IInv, [Next]_vars
  PROVE  IInv'
<1>1. TypeOK' /\ PhasesInv' /\ FreshInv' /\ WorkInv' /\ RowsInv'
  BY TypeStep, PhasesStep, FreshStep, WorkStep, RowsStep
<1>2. HeldInv' /\ AlikeInv' /\ ClaimsInv' /\ LostInv' /\ SavedInv'
  BY HeldStep, AlikeStep, ClaimsStep, LostStep, SavedStep
<1> QED BY <1>1, <1>2 DEF IInv

(* The invariant is inductive. *)
LEMMA Invariance == Spec => []IInv
<1> QED BY InitInv, InvStep, PTL DEF Spec

-----------------------------------------------------------------------------
(* Every variable has its type, whatever dies or raises. *)
THEOREM CollectionTypeOK == Spec => []TypeOK
<1>1. IInv => TypeOK
  BY DEF IInv
<1> QED BY <1>1, Invariance, PTL

(* sources.jsonl and claims.jsonl name nothing twice. *)
THEOREM CollectionWrittenOnce == Spec => []WrittenOnce
<1>1. ASSUME IInv PROVE WrittenOnce
  <2>1. \A s \in Sources : rowCount[s] = 1 \/ rowCount[s] = 0
    BY <1>1 DEF IInv, RowsInv
  <2>2. \A c \in Claims : claimRows[c] <= 1
    BY <1>1 DEF IInv, ClaimsInv
  <2> QED BY <2>1, <2>2 DEF WrittenOnce
<1> QED BY <1>1, Invariance, PTL

(* The corpus holds one listing of a work. *)
THEOREM CollectionOneRecordPerWork == Spec => []OneRecordPerWork
<1>1. IInv => OneRecordPerWork
  BY DEF IInv, AlikeInv, OneRecordPerWork, Filed
<1> QED BY <1>1, Invariance, PTL

(* A source on file has its claims on file. *)
THEOREM CollectionClaimsBeforeSource == Spec => []ClaimsBeforeSource
<1>1. ASSUME IInv PROVE ClaimsBeforeSource
  <2>1. TypeOK /\ PhasesInv /\ FreshInv /\ ClaimsInv /\ LostInv
    BY <1>1 DEF IInv
  <2>2. SUFFICES ASSUME NEW c \in claims, Filed(c[1]) PROVE claimRows[c] > 0
    BY DEF ClaimsBeforeSource, Filed
  <2>3. phase # "down" /\ c \in Claims
    BY <2>1, <2>2 DEF PhasesInv, TypeOK
  <2>4. ~Lost(c) /\ \A b \in Subtopics : c \notin unwritten[b]
    BY <2>1, <2>2 DEF ClaimsInv, FreshInv, Lost
  <2> QED BY <2>1, <2>3, <2>4 DEF LostInv
<1> QED BY <1>1, Invariance, PTL

(* A process that resumes at a boundary holds what its predecessor held, but
   for dropped sources and the claims about them. *)
THEOREM CollectionBoundaryOnFile == Spec => []BoundaryOnFile
<1>1. ASSUME IInv PROVE BoundaryOnFile
  <2>1. TypeOK /\ PhasesInv /\ RowsInv /\ HeldInv /\ ClaimsInv /\ LostInv
    BY <1>1 DEF IInv
  <2>2. SUFFICES ASSUME phase \in {"search", "finished", "completed"}
                 PROVE  /\ \A s \in Retained \ dropped : rows[s] = RowOf(owner[s])
                        /\ \A s \in Sources : rows[s].state = "retained" => s \in Retained
                        /\ \A c \in Claims : claimRows[c] > 0 => c \in claims
                        /\ \A c \in claims : claimRows[c] > 0 \/ c[1] \in dropped
    BY DEF BoundaryOnFile
  <2>3. \A b \in Subtopics : fresh[b] = {} /\ unwritten[b] = {}
    BY <2>1, <2>2 DEF PhasesInv
  <2>4. ASSUME NEW s \in Retained \ dropped PROVE rows[s] = RowOf(owner[s])
    <3>1. s \in Sources /\ registry[s] = "retained"
      BY DEF Retained
    <3>2. Filed(s)
      BY <2>1, <2>2, <2>3, <3>1 DEF HeldInv, Kept
    <3>3. rows[s].state = "retained" /\ rows[s].by = owner[s]
      BY <2>1, <2>2, <3>1, <3>2 DEF RowsInv
    <3>4. rows[s] \in [state : {"unseen", "retained", "failed"}, by : Subtopics \cup {0}]
      BY <2>1, <3>1 DEF TypeOK
    <3> QED BY <3>3, <3>4 DEF RowOf
  <2>5. \A s \in Sources : rows[s].state = "retained" => s \in Retained
    BY <2>1, <2>2 DEF RowsInv, Filed, Retained
  <2>6. \A c \in Claims : claimRows[c] > 0 => c \in claims
    BY <2>1, <2>2 DEF ClaimsInv
  <2>7. \A c \in claims : claimRows[c] > 0 \/ c[1] \in dropped
    BY <2>1, <2>2, <2>3 DEF LostInv, Lost
  <2> QED BY <2>4, <2>5, <2>6, <2>7
<1> QED BY <1>1, Invariance, PTL

(* "sufficient" is said of what is on file. *)
THEOREM CollectionSufficientOnFile == Spec => []SufficientOnFile
<1>1. ASSUME IInv PROVE SufficientOnFile
  <2>1. SavedInv
    BY <1>1 DEF IInv
  <2>2. decision = "sufficient" => saved.decision = "sufficient"
    BY <2>1 DEF SavedInv
  <2> QED BY <2>1, <2>2 DEF SavedInv, SufficientOnFile
<1> QED BY <1>1, Invariance, PTL

(* A process judges a candidate once. *)
THEOREM CollectionJudgedOnce == Spec => JudgedOnce
<1> DEFINE Judged == phase' # "down" => \A s \in Sources :
      registry[s] \in {"rejected", "failed"} => registry'[s] = registry[s]
<1>1. ASSUME IInv, [Next]_vars PROVE Judged
  <2>0. TypeOK /\ FreshInv /\ PhasesInv
    BY <1>1 DEF IInv
  <2>1. registry \in [Sources -> {"unseen", "rejected", "retained", "failed"}]
    BY <2>0 DEF TypeOK
  <2>2. ASSUME NEW s \in Sources, Admit(s) PROVE Judged
    BY <1>1, <2>1, <2>2, AdmitFacts
  <2>3. ASSUME NEW s \in Sources, Refuse(s) \/ Duplicate(s) \/ Again(s) PROVE Judged
    BY <1>1, <2>1, <2>3, JudgeFacts
  <2>4. ASSUME NEW b \in Subtopics, Submit(b) PROVE Judged
    <3>1. PICK failed \in SUBSET fresh[b] :
            registry' = [s \in Sources |-> IF s \in failed THEN "failed" ELSE registry[s]]
      BY <2>4 DEF Submit
    <3>2. \A s \in failed : registry[s] # "rejected"
      BY <2>0, <3>1 DEF FreshInv, Kept
    <3> QED BY <2>1, <3>1, <3>2
  <2>5. CASE Die
    BY <2>5 DEF Die
  <2>6. CASE Resume
    <3>1. \A s \in Sources : registry[s] = "unseen"
      BY <2>0, <2>6 DEF Resume, PhasesInv, Unseen
    <3> QED BY <3>1
  <2>7. CASE Plan \/ Discover \/ Pass \/ Admitted
    BY <2>7 DEF Plan, Discover, Pass, Admitted
  <2>8. CASE Decide \/ NextRound \/ Complete \/ UNCHANGED vars
    BY <2>8 DEF Decide, NextRound, Complete, vars, memory
  <2>9. ASSUME NEW b \in Subtopics, Nothing(b) \/ Extract(b) \/ WriteClaim(b) \/ WriteSource(b)
                                    \/ Finish(b) \/ Raise(b)
        PROVE  Judged
    BY <2>9 DEF Nothing, Extract, WriteClaim, WriteSource, AsRecord, Finish, Raise
  <2> QED BY <1>1, <2>2, <2>3, <2>4, <2>5, <2>6, <2>7, <2>8, <2>9 DEF Next, Lead, Consider, Work
<1>2. IInv /\ [Next]_vars => [Judged]_vars
  BY <1>1
<1> QED BY <1>2, Invariance, PTL DEF Spec, JudgedOnce

-----------------------------------------------------------------------------
(* Who owns a source that several branches found.                          *)

(* No branch brings more than the cap, nor a source twice. *)
PoolInv == \A b \in Subtopics :
  /\ Len(pool[b]) <= MaxSources
  /\ \A i, j \in 1..Len(pool[b]) : pool[b][i] = pool[b][j] => i = j

(* The places the round robin has passed. *)
Passed(b, i) == i < Index \/ (i = Index /\ b < Whose)

(* During admission what was passed is judged, and what a branch holds it
   holds for a place that was passed. *)
TurnInv ==
  /\ phase \notin {"admit", "extract"} => turn = 0
  /\ phase = "admit" => \A b \in Subtopics :
       /\ \A i \in 1..Len(pool[b]) : Passed(b, i) => registry[pool[b][i]] # "unseen"
       /\ \A s \in fresh[b] : \E i \in 1..Len(pool[b]) : Passed(b, i) /\ pool[b][i] = s

OwnerInv == PoolInv /\ TurnInv /\ HighestListingOwns

(* One more turn: the next branch, after the last one the next index. *)
LEMMA NextPlace ==
  ASSUME NEW n \in Nat \ {0}, NEW t \in Nat
  PROVE  /\ t \div n \in Nat /\ t % n \in 0..n - 1
         /\ t % n = n - 1 => (t + 1) \div n = (t \div n) + 1 /\ (t + 1) % n = 0
         /\ t % n # n - 1 => (t + 1) \div n = t \div n /\ (t + 1) % n = (t % n) + 1
<1> DEFINE q == t \div n
           r == t % n
<1>1. q \in Nat /\ r \in 0..n - 1 /\ t = n * q + r
  OBVIOUS
<1>2. ASSUME NEW u \in Nat, NEW d \in Nat, NEW e \in 0..n - 1, u = n * d + e
      PROVE  u \div n = d /\ u % n = e
  BY <1>2
<1>3. CASE r = n - 1
  <2>1. n * (q + 1) = n * q + n
    BY <1>1
  <2>2. t + 1 = n * (q + 1) + 0
    BY <1>1, <1>3, <2>1
  <2>3. t + 1 \in Nat /\ q + 1 \in Nat /\ 0 \in 0..n - 1
    BY <1>1
  <2> HIDE DEF q, r
  <2>4. (t + 1) \div n = q + 1 /\ (t + 1) % n = 0
    BY <1>2, <2>2, <2>3
  <2> QED BY <1>1, <1>3, <2>4 DEF q, r
<1>4. CASE r # n - 1
  <2>1. t + 1 \in Nat /\ r + 1 \in 0..n - 1 /\ t + 1 = n * q + (r + 1)
    BY <1>1, <1>4
  <2> HIDE DEF q, r
  <2>2. (t + 1) \div n = q /\ (t + 1) % n = r + 1
    BY <1>1, <1>2, <2>1
  <2> QED BY <1>1, <1>4, <2>2 DEF q, r
<1> QED BY <1>3, <1>4

LEMMA TurnPasses ==
  ASSUME TypeOK, turn' = turn + 1
  PROVE  \A b \in Subtopics, i \in Nat :
           Passed(b, i)' <=> Passed(b, i) \/ (i = Index /\ b = Whose)
<1>1. Branches \in Nat \ {0} /\ turn \in Nat /\ Subtopics = 1..Branches
  BY CollectionAssumption DEF TypeOK, Subtopics
<1> DEFINE q == turn \div Branches
           r == turn % Branches
<1>2. /\ q \in Nat /\ r \in 0..Branches - 1
      /\ r = Branches - 1 => (turn + 1) \div Branches = q + 1 /\ (turn + 1) % Branches = 0
      /\ r # Branches - 1 => (turn + 1) \div Branches = q /\ (turn + 1) % Branches = r + 1
  BY <1>1, NextPlace
<1>3. Index = q + 1 /\ Whose = r + 1
  BY DEF Index, Whose, Place
<1>4. /\ Index' = ((turn + 1) \div Branches) + 1
      /\ Whose' = ((turn + 1) % Branches) + 1
  BY DEF Index, Whose, Place
<1> HIDE DEF q, r
<1>5. CASE r = Branches - 1
  <2>1. Index' = q + 2 /\ Whose' = 1
    BY <1>2, <1>4, <1>5
  <2> QED BY <1>1, <1>2, <1>3, <1>5, <2>1 DEF Passed
<1>6. CASE r # Branches - 1
  <2>1. Index' = q + 1 /\ Whose' = r + 2
    BY <1>2, <1>4, <1>6
  <2> QED BY <1>1, <1>2, <1>3, <1>6, <2>1 DEF Passed
<1> QED BY <1>5, <1>6

(* What the branches of a round bring. *)
LEMMA FoundBounded ==
  ASSUME NEW b \in Subtopics, NEW found \in Found(b)
  PROVE  /\ Len(found) <= MaxSources
         /\ \A i, j \in 1..Len(found) : found[i] = found[j] => i = j
<1>1. CASE found = <<>>
  BY <1>1, CollectionAssumption
<1>2. CASE found # <<>>
  <2>1. PICK listing \in Listings[b] : found = Cut(listing)
    BY <1>2 DEF Found
  <2>2. /\ listing \in Seq(Sources)
        /\ \A i, j \in 1..Len(listing) : listing[i] = listing[j] => i = j
        /\ MaxSources \in Nat \ {0} /\ Len(listing) \in Nat
    BY <2>1, CollectionAssumption, NoRepeats
  <2>3. CASE Len(listing) <= MaxSources
    BY <2>1, <2>2, <2>3 DEF Cut
  <2>4. CASE ~(Len(listing) <= MaxSources)
    <3>1. found = SubSeq(listing, 1, MaxSources)
      BY <2>1, <2>4 DEF Cut
    <3>2. /\ Len(found) = MaxSources
          /\ \A i \in 1..MaxSources : found[i] = listing[i] /\ i \in 1..Len(listing)
      BY <2>2, <2>4, <3>1
    <3> QED BY <2>2, <3>2
  <2> QED BY <2>3, <2>4
<1> QED BY <1>1, <1>2

(* A branch whose turn comes has room: it holds fewer records than places of
   its own were passed. *)
LEMMA RoomLeft ==
  ASSUME IInv, OwnerInv, phase = "admit", Index <= Len(pool[Whose])
  PROVE  Cardinality(fresh[Whose]) < MaxSources
<1>1. TypeOK /\ PoolInv /\ TurnInv /\ Whose \in Subtopics
  BY WhoseTyped DEF IInv, OwnerInv
<1>2. Index \in Nat /\ Index >= 1
  <2>1. Branches \in Nat \ {0} /\ turn \in Nat
    BY <1>1, CollectionAssumption DEF TypeOK
  <2>2. turn \div Branches \in Nat
    BY <2>1, NextPlace
  <2> QED BY <2>2 DEF Index, Place
<1> DEFINE mine == pool[Whose]
           S == 1..(Index - 1)
           T == {mine[i] : i \in S}
           f == [i \in S |-> mine[i]]
<1>3. mine \in Seq(Sources) /\ Len(mine) \in Nat /\ Len(mine) <= MaxSources /\ MaxSources \in Nat
  BY <1>1, CollectionAssumption DEF TypeOK, PoolInv
<1>4. IsFiniteSet(S) /\ Cardinality(S) = Index - 1
  BY <1>2, FS_Interval
<1>5. f \in Surjection(S, T)
  BY DEF Surjection
<1>6. IsFiniteSet(T) /\ Cardinality(T) <= Index - 1
  <2> HIDE DEF f, S, T
  <2> QED BY <1>4, <1>5, FS_Surjection
<1>7. fresh[Whose] \in SUBSET T
  <2> SUFFICES ASSUME NEW s \in fresh[Whose] PROVE s \in T
    OBVIOUS
  <2>1. PICK i \in 1..Len(mine) : Passed(Whose, i) /\ mine[i] = s
    BY <1>1 DEF TurnInv
  <2>2. i \in S
    <3>1. Whose \in Nat
      BY <1>1, CollectionAssumption DEF Subtopics
    <3> QED BY <1>2, <1>3, <2>1, <3>1 DEF Passed
  <2> QED BY <2>1, <2>2
<1>8. Cardinality(fresh[Whose]) <= Index - 1 /\ Cardinality(fresh[Whose]) \in Nat
  <2> HIDE DEF T
  <2>1. IsFiniteSet(fresh[Whose]) /\ Cardinality(fresh[Whose]) <= Cardinality(T)
    BY <1>6, <1>7, FS_Subset
  <2>2. Cardinality(T) \in Nat /\ Cardinality(fresh[Whose]) \in Nat
    BY <1>6, <2>1, FS_CardinalityType
  <2> QED BY <1>2, <1>6, <2>1, <2>2
<1> QED BY <1>2, <1>3, <1>8

(* A candidate is judged at its turn, the first place it is listed at. *)
LEMMA OwnerTurn ==
  ASSUME IInv, OwnerInv, NEW s \in Sources, Turn(s),
         \/ registry' = registry /\ registry[s] # "unseen"
         \/ \E judged \in {"retained", "rejected"} :
              registry' = [registry EXCEPT ![s] = judged],
         \/ fresh' = fresh
         \/ registry[s] = "unseen" /\ fresh' = [fresh EXCEPT ![Whose] = @ \cup {s}]
  PROVE  OwnerInv'
<1>1. TypeOK /\ PoolInv /\ TurnInv /\ HighestListingOwns /\ Whose \in Subtopics
  BY WhoseTyped DEF IInv, OwnerInv
<1>2. /\ phase = "admit" /\ phase' = phase /\ pool' = pool /\ turn' = turn + 1
      /\ Index <= Len(pool[Whose]) /\ s = pool[Whose][Index]
  BY DEF Turn, Here
<1>3. Index \in 1..Len(pool[Whose])
  <2>1. Branches \in Nat \ {0} /\ turn \in Nat
    BY <1>1, CollectionAssumption DEF TypeOK
  <2>2. turn \div Branches \in Nat
    BY <2>1, NextPlace
  <2>3. Len(pool[Whose]) \in Nat
    BY <1>1 DEF TypeOK
  <2> QED BY <1>2, <2>2, <2>3 DEF Index, Place
<1>4. \A b \in Subtopics : Len(pool[b]) \in Nat /\ \A i \in 1..Len(pool[b]) : pool[b][i] \in Sources
  BY <1>1 DEF TypeOK
<1>5. \A b \in Subtopics, i \in Nat : Passed(b, i)' <=> Passed(b, i) \/ (i = Index /\ b = Whose)
  BY <1>1, <1>2, TurnPasses
<1>6. registry'[s] # "unseen" /\ \A t \in Sources : registry[t] # "unseen" => registry'[t] # "unseen"
  BY <1>1 DEF TypeOK
<1>7. /\ \A b \in Subtopics : fresh'[b] \subseteq fresh[b] \cup {s}
      /\ \A b \in Subtopics : s \in fresh'[b] /\ s \notin fresh[b] =>
           registry[s] = "unseen" /\ b = Whose
  <2>1. CASE fresh' = fresh
    BY <2>1
  <2>2. CASE registry[s] = "unseen" /\ fresh' = [fresh EXCEPT ![Whose] = @ \cup {s}]
    <3>1. \A b \in Subtopics : fresh'[b] = IF b = Whose THEN fresh[b] \cup {s} ELSE fresh[b]
      BY <1>1, <2>2 DEF TypeOK
    <3> QED BY <2>2, <3>1
  <2> QED BY <2>1, <2>2
<1>8. PoolInv'
  BY <1>1, <1>2 DEF PoolInv
<1>9. TurnInv'
  <2> SUFFICES ASSUME NEW b \in Subtopics
               PROVE  /\ \A i \in 1..Len(pool[b]) : Passed(b, i)' => registry'[pool[b][i]] # "unseen"
                      /\ \A t \in fresh'[b] : \E i \in 1..Len(pool[b]) : Passed(b, i)' /\ pool[b][i] = t
    BY <1>2 DEF TurnInv, Passed
  <2>1. ASSUME NEW i \in 1..Len(pool[b]), Passed(b, i)' PROVE registry'[pool[b][i]] # "unseen"
    <3>1. i \in Nat /\ pool[b][i] \in Sources
      BY <1>4
    <3>2. CASE Passed(b, i)
      BY <1>1, <1>2, <1>6, <3>1, <3>2 DEF TurnInv
    <3>3. CASE i = Index /\ b = Whose
      BY <1>2, <1>6, <3>3
    <3> QED BY <1>5, <2>1, <3>1, <3>2, <3>3
  <2>2. ASSUME NEW t \in fresh'[b] PROVE \E i \in 1..Len(pool[b]) : Passed(b, i)' /\ pool[b][i] = t
    <3>1. CASE t \in fresh[b]
      <4>1. PICK i \in 1..Len(pool[b]) : Passed(b, i) /\ pool[b][i] = t
        BY <1>1, <1>2, <3>1 DEF TurnInv
      <4>2. i \in Nat
        BY <1>4
      <4> QED BY <1>5, <4>1, <4>2
    <3>2. CASE t \notin fresh[b]
      <4>1. t = s /\ b = Whose
        BY <1>7, <2>2, <3>2
      <4>2. Index \in Nat
        BY <1>3
      <4> QED BY <1>2, <1>3, <1>5, <4>1, <4>2
    <3> QED BY <3>1, <3>2
  <2> QED BY <2>1, <2>2
<1>10. HighestListingOwns'
  <2> SUFFICES ASSUME NEW b \in Subtopics, NEW d \in Subtopics, NEW t \in fresh'[b],
                      NEW i \in 1..Len(pool[b]), NEW j \in 1..Len(pool[d]),
                      pool[b][i] = t, pool[d][j] = t
               PROVE  i < j \/ (i = j /\ b <= d)
    BY <1>2 DEF HighestListingOwns
  <2>1. CASE t \in fresh[b]
    BY <1>1, <2>1 DEF HighestListingOwns
  <2>2. CASE t \notin fresh[b]
    <3>1. t = s /\ b = Whose /\ registry[s] = "unseen"
      BY <1>7, <2>2
    <3>2. i = Index
      BY <1>1, <1>2, <1>3, <3>1 DEF PoolInv
    <3>3. ~Passed(d, j)
      BY <1>1, <1>2, <3>1 DEF TurnInv
    <3>4. i \in Nat /\ j \in Nat /\ b \in Nat /\ d \in Nat
      BY <1>4, CollectionAssumption DEF Subtopics
    <3> QED BY <3>1, <3>2, <3>3, <3>4 DEF Passed
  <2> QED BY <2>1, <2>2
<1> QED BY <1>8, <1>9, <1>10 DEF OwnerInv

(* A step of admission or of a branch keeps the owners. *)
LEMMA OwnerStep ==
  ASSUME IInv, OwnerInv, [Next]_vars
  PROVE  OwnerInv'
<1>1. TypeOK /\ PhasesInv /\ PoolInv /\ TurnInv /\ HighestListingOwns
  BY DEF IInv, OwnerInv
<1>2. ASSUME NEW s \in Sources, Admit(s) \/ Refuse(s) \/ Duplicate(s) \/ Again(s) PROVE OwnerInv'
  <2>1. Turn(s)
    BY <1>2 DEF Admit, Refuse, Duplicate, Again
  <2>2. \/ registry' = registry /\ registry[s] # "unseen"
        \/ \E judged \in {"retained", "rejected"} :
             registry' = [registry EXCEPT ![s] = judged]
    BY <1>2 DEF Admit, Refuse, Duplicate, Again, Register
  <2>3. \/ fresh' = fresh
        \/ registry[s] = "unseen" /\ fresh' = [fresh EXCEPT ![Whose] = @ \cup {s}]
    BY <1>2 DEF Admit, Refuse, Duplicate, Again, Known
  <2> QED BY <2>1, <2>2, <2>3, OwnerTurn
<1>3. CASE Pass
  <2>1. /\ phase = "admit" /\ phase' = phase /\ pool' = pool /\ turn' = turn + 1
        /\ registry' = registry /\ fresh' = fresh /\ ~Here
    BY <1>3 DEF Pass
  <2>2. \A b \in Subtopics, i \in Nat : Passed(b, i)' <=> Passed(b, i) \/ (i = Index /\ b = Whose)
    BY <1>1, <2>1, TurnPasses
  <2>3. ~(Index <= Len(pool[Whose]))
    BY <2>1, RoomLeft DEF Here
  <2>4. \A b \in Subtopics : \A i \in 1..Len(pool[b]) : i \in Nat /\ (Passed(b, i)' <=> Passed(b, i))
    <3>1. \A b \in Subtopics : Len(pool[b]) \in Nat
      BY <1>1 DEF TypeOK
    <3> QED BY <2>2, <2>3, <3>1
  <2>5. TurnInv'
    <3> SUFFICES ASSUME NEW b \in Subtopics
                 PROVE  /\ \A i \in 1..Len(pool[b]) : Passed(b, i)' => registry[pool[b][i]] # "unseen"
                        /\ \A t \in fresh[b] : \E i \in 1..Len(pool[b]) : Passed(b, i)' /\ pool[b][i] = t
      BY <2>1 DEF TurnInv, Passed
    <3> QED BY <1>1, <2>1, <2>4 DEF TurnInv
  <2> QED BY <1>1, <2>1, <2>5 DEF OwnerInv, PoolInv, HighestListingOwns
<1>4. CASE Discover
  <2>1. /\ phase = "search" /\ phase' = "admit" /\ turn' = turn
        /\ registry' = registry /\ fresh' = fresh
        /\ pool' \in [Subtopics -> UNION {Found(b) : b \in Subtopics}]
        /\ \A b \in Subtopics : pool'[b] \in Found(b)
    BY <1>4 DEF Discover
  <2>2. turn = 0 /\ \A b \in Subtopics : fresh[b] = {}
    BY <1>1, <2>1 DEF TurnInv, PhasesInv
  <2>3. PoolInv'
    BY <2>1, FoundBounded DEF PoolInv
  <2>4. \A b \in Subtopics, i \in Nat \ {0} : ~Passed(b, i)'
    <3>1. Branches \in Nat \ {0} /\ Subtopics = 1..Branches
      BY CollectionAssumption DEF Subtopics
    <3>2. 0 \div Branches = 0 /\ 0 % Branches = 0
      BY <3>1
    <3>3. Index' = 1 /\ Whose' = 1
      BY <2>1, <2>2, <3>2 DEF Index, Whose, Place
    <3> QED BY <3>1, <3>3 DEF Passed
  <2>5. TurnInv'
    <3>1. \A b \in Subtopics : pool'[b] \in Seq(Sources)
      BY <2>1, FoundTyped
    <3>2. \A b \in Subtopics : \A i \in 1..Len(pool'[b]) : i \in Nat \ {0}
      BY <3>1
    <3> QED BY <2>1, <2>2, <2>4, <3>2 DEF TurnInv
  <2>6. HighestListingOwns'
    BY <2>1, <2>2 DEF HighestListingOwns
  <2> QED BY <2>3, <2>5, <2>6 DEF OwnerInv
<1>5. CASE Decide \/ NextRound \/ Die
  <2>1. /\ turn' = 0 /\ phase' \in {"finished", "search", "down"}
        /\ \A b \in Subtopics : pool'[b] = <<>> /\ fresh'[b] = {}
    BY <1>5 DEF Decide, NextRound, Die, Forget
  <2>2. PoolInv'
    BY <2>1, CollectionAssumption DEF PoolInv
  <2> QED BY <2>1, <2>2 DEF OwnerInv, TurnInv, HighestListingOwns
<1>6. ASSUME pool' = pool, turn' = turn, phase' # "admit",
             \A b \in Subtopics : fresh'[b] \subseteq fresh[b],
             phase' \in {"admit", "extract"} \/ phase \notin {"admit", "extract"}
      PROVE  OwnerInv'
  <2>1. PoolInv' /\ HighestListingOwns'
    BY <1>1, <1>6 DEF PoolInv, HighestListingOwns
  <2>2. TurnInv'
    BY <1>1, <1>6 DEF TurnInv
  <2> QED BY <2>1, <2>2 DEF OwnerInv
<1>7. CASE Plan \/ Admitted \/ Complete \/ Resume
  <2>1. pool' = pool /\ turn' = turn /\ fresh' = fresh
    BY <1>7 DEF Plan, Admitted, Complete, Resume, memory
  <2>2. \/ phase' = "extract"
        \/ phase' \in {"search", "plan", "finished", "completed"} /\ phase \notin {"admit", "extract"}
    BY <1>7 DEF Plan, Admitted, Complete, Resume
  <2> QED BY <1>6, <2>1, <2>2
<1>8. ASSUME NEW b \in Subtopics, Work(b) PROVE OwnerInv'
  <2>1. pool' = pool /\ turn' = turn /\ phase = "extract" /\ phase' = phase
    BY <1>8 DEF Work, Nothing, Extract, WriteClaim, Submit, WriteSource, AsRecord, Finish, Raise, At, inRound
  <2>2. \A d \in Subtopics : fresh'[d] \subseteq fresh[d]
    <3>1. CASE WriteSource(b)
      <4>1. PICK s \in fresh[b] : fresh' = [fresh EXCEPT ![b] = @ \ {s}]
        BY <3>1 DEF WriteSource, AsRecord
      <4> QED BY <1>1, <4>1 DEF TypeOK
    <3>2. CASE ~WriteSource(b)
      BY <1>8, <3>2 DEF Work, Nothing, Extract, WriteClaim, Submit, Finish, Raise
    <3> QED BY <3>1, <3>2
  <2> QED BY <1>6, <2>1, <2>2
<1>9. CASE UNCHANGED vars
  <2>1. UNCHANGED <<phase, pool, turn, registry, fresh>>
    BY <1>9 DEF vars, memory
  <2> QED BY <1>1, <2>1
          DEF OwnerInv, PoolInv, TurnInv, HighestListingOwns, Passed, Index, Whose, Place
<1> QED BY <1>2, <1>3, <1>4, <1>5, <1>7, <1>8, <1>9 DEF Next, Lead, Consider

(* A source that several branches found is admitted for the one that listed it
   highest, on a tie for the lower subtopic id (orchestrator.py:319-333). *)
THEOREM CollectionHighestListingOwns == Spec => []HighestListingOwns
<1>1. Init => OwnerInv
  BY CollectionAssumption DEF Init, OwnerInv, PoolInv, TurnInv, HighestListingOwns
<1>2. IInv /\ OwnerInv /\ [Next]_vars => OwnerInv'
  BY OwnerStep
<1>3. OwnerInv => HighestListingOwns
  BY DEF OwnerInv
<1> QED BY <1>1, <1>2, <1>3, Invariance, PTL DEF Spec

-----------------------------------------------------------------------------
(* What a branch holds passed the validation. *)
FreshValid == \A b \in Subtopics : fresh[b] \subseteq Valid

LEMMA FreshValidStep ==
  ASSUME IInv, FreshValid, [Next]_vars
  PROVE  FreshValid'
<1>0. fresh \in [Subtopics -> SUBSET Sources]
  BY DEF IInv, TypeOK
<1>1. ASSUME NEW s \in Sources, Admit(s) PROVE FreshValid'
  <2>1. s \in Valid
    BY <1>1 DEF Admit
  <2>2. PICK b \in Subtopics : fresh' = [fresh EXCEPT ![b] = @ \cup {s}]
    BY <1>1, AdmitFacts
  <2> QED BY <1>0, <2>1, <2>2 DEF FreshValid
<1>2. ASSUME NEW s \in Sources, Refuse(s) \/ Duplicate(s) \/ Again(s) PROVE FreshValid'
  BY <1>2, JudgeFacts DEF FreshValid
<1>3. ASSUME NEW b \in Subtopics, WriteSource(b) PROVE FreshValid'
  <2>1. PICK s : fresh' = [fresh EXCEPT ![b] = @ \ {s}]
    BY <1>3 DEF WriteSource, AsRecord
  <2> QED BY <1>0, <2>1 DEF FreshValid
<1>4. CASE Decide \/ NextRound \/ Die
  BY <1>4 DEF Decide, NextRound, Die, Forget, FreshValid
<1>5. CASE Plan \/ Discover \/ Pass \/ Admitted \/ Complete \/ Resume \/ UNCHANGED vars
  BY <1>5 DEF Plan, Discover, Pass, Admitted, Complete, Resume, vars, memory, FreshValid
<1>6. ASSUME NEW b \in Subtopics, Nothing(b) \/ Extract(b) \/ WriteClaim(b) \/ Submit(b)
                                  \/ Finish(b) \/ Raise(b)
      PROVE  FreshValid'
  BY <1>6 DEF Nothing, Extract, WriteClaim, Submit, Finish, Raise, FreshValid
<1> QED BY <1>1, <1>2, <1>3, <1>4, <1>5, <1>6 DEF Next, Lead, Consider, Work

(* What a reader of the files sees. *)
Listed == {s \in Sources : rows[s].state # "unseen"}
Noted  == {c \in Claims : claimRows[c] > 0}

(* Only the two writers touch the files, only the end of the stage closes them. *)
LEMMA Unread ==
  ASSUME [Next]_vars
  PROVE  \/ UNCHANGED <<rows, claimRows>> /\ (phase' = "completed" <=> phase = "completed")
         \/ Complete
         \/ \E b \in Subtopics : WriteClaim(b) \/ WriteSource(b)
<1>1. ASSUME NEW s \in Sources, Admit(s) \/ Refuse(s) \/ Duplicate(s) \/ Again(s)
      PROVE  UNCHANGED <<rows, claimRows, phase>>
  BY <1>1 DEF Admit, Refuse, Duplicate, Again, Turn, disk
<1>2. CASE Plan \/ Discover \/ Pass \/ Admitted
  BY <1>2 DEF Plan, Discover, Pass, Admitted, disk
<1>3. CASE Decide \/ NextRound
  BY <1>3 DEF Decide, NextRound, RoundDone
<1>4. CASE Die \/ Resume \/ UNCHANGED vars
  BY <1>4 DEF Die, Resume, vars, disk
<1>5. ASSUME NEW b \in Subtopics, Nothing(b) \/ Extract(b) \/ Submit(b) \/ Finish(b) \/ Raise(b)
      PROVE  UNCHANGED <<rows, claimRows, phase>>
  BY <1>5 DEF Nothing, Extract, Submit, Finish, Raise, inRound
<1> QED BY <1>1, <1>2, <1>3, <1>4, <1>5 DEF Next, Lead, Consider, Work

(* The row of a source lists it. *)
LEMMA SourceIsListed ==
  ASSUME IInv, FreshValid, NEW b \in Subtopics, WriteSource(b)
  PROVE  \E s \in Sources : Promise!List(s)
<1>0. TypeOK /\ FreshInv /\ RowsInv /\ AlikeInv
  BY DEF IInv
<1>1. PICK s \in fresh[b] :
        rows' = [rows EXCEPT ![s] = [state |-> registry[s], by |-> owner[s]]]
  BY DEF WriteSource, AsRecord
<1>2. phase = "extract" /\ phase' = "extract" /\ claimRows' = claimRows
  BY DEF WriteSource, AsRecord, At, inRound
<1>3. s \in Sources /\ s \in Valid /\ Kept(s) /\ ~Filed(s)
  BY <1>0 DEF TypeOK, FreshInv, FreshValid
<1>4. Listed' = Listed \cup {s}
  <2>1. rows'[s].state # "unseen" /\ \A t \in Sources \ {s} : rows'[t] = rows[t]
    BY <1>0, <1>1, <1>3 DEF TypeOK, Kept
  <2> QED BY <1>3, <2>1 DEF Listed
<1>5. ASSUME NEW t \in Listed PROVE {s, t} \notin Alike
  <2>1. t \in Sources /\ Filed(t) /\ t # s
    BY <1>3 DEF Listed, Filed
  <2>2. Kept(t)
    BY <1>0, <1>2, <2>1 DEF RowsInv, TypeOK, Filed, Kept
  <2> QED BY <1>0, <1>3, <2>1, <2>2 DEF AlikeInv
<1>6. s \notin Listed
  BY <1>3 DEF Listed, Filed
<1> QED BY <1>2, <1>3, <1>4, <1>5, <1>6 DEF Promise!List, Listed

(* The row of a claim notes it, and its source is not listed. *)
LEMMA ClaimIsNoted ==
  ASSUME IInv, FreshValid, NEW b \in Subtopics, WriteClaim(b)
  PROVE  \E c \in Claims : Promise!Note(c)
<1>0. TypeOK /\ FreshInv /\ ClaimsInv
  BY DEF IInv
<1>1. PICK c \in unwritten[b] : claimRows' = [claimRows EXCEPT ![c] = @ + 1]
  BY DEF WriteClaim
<1>2. phase = "extract" /\ phase' = "extract" /\ rows' = rows
  BY DEF WriteClaim, At, inRound
<1>3. c \in Claims /\ claimRows[c] = 0 /\ c[1] \in fresh[b]
  BY <1>0 DEF TypeOK, ClaimsInv
<1>4. c[1] \in Valid /\ c[1] \notin Listed
  BY <1>0, <1>3 DEF FreshInv, FreshValid, Filed, Listed
<1>5. Noted' = Noted \cup {c}
  <2>1. claimRows'[c] = 1 /\ \A d \in Claims \ {c} : claimRows'[d] = claimRows[d]
    BY <1>0, <1>1, <1>3 DEF TypeOK
  <2> QED BY <1>3, <2>1 DEF Noted
<1>6. c \notin Noted
  BY <1>3 DEF Noted
<1> QED BY <1>2, <1>3, <1>4, <1>5, <1>6 DEF Promise!Note, Listed, Noted

(* The files of a collection, read at any time, are those of a Corpus. *)
THEOREM CollectionImplementsCorpus == Spec => ImplementsCorpus
<1>1. Init => Promise!Init
  BY DEF Init, NoRow, Promise!Init
<1>2. Init => FreshValid
  BY DEF Init, FreshValid
<1>3. ASSUME IInv, FreshValid, [Next]_vars PROVE [Promise!Next]_(Promise!vars)
  <2>1. CASE UNCHANGED <<rows, claimRows>> /\ (phase' = "completed" <=> phase = "completed")
    BY <2>1 DEF Promise!vars
  <2>2. CASE Complete
    BY <2>2 DEF Complete, disk, Promise!Next, Promise!Close
  <2>3. ASSUME NEW b \in Subtopics, WriteClaim(b) PROVE Promise!Next
    BY <1>3, <2>3, ClaimIsNoted DEF Promise!Next
  <2>4. ASSUME NEW b \in Subtopics, WriteSource(b) PROVE Promise!Next
    BY <1>3, <2>4, SourceIsListed DEF Promise!Next
  <2> QED BY <1>3, <2>1, <2>2, <2>3, <2>4, Unread
<1>4. IInv /\ FreshValid /\ [Next]_vars => FreshValid'
  BY FreshValidStep
<1> QED BY <1>1, <1>2, <1>3, <1>4, Invariance, PTL DEF Spec, ImplementsCorpus, Promise!Spec
==============================================================================
