-------------------------- MODULE EvaluationProofs --------------------------
(***************************************************************************)
(* Proofs about Evaluation: what is asked, what is on file, what the       *)
(* region may learn and what an evaluation measured, for any number of     *)
(* questions, repetitions, failures and deaths.                            *)
(***************************************************************************)
EXTENDS Evaluation, WellFoundedInduction, TLAPS

Asking  == {"independent", "dependent"}
Closed  == {"finish", "exited"}
Working == {"independent", "seed", "writing", "dependent", "persist", "mark"}
First1  == Group("independent")

(* TypeOK, variable by variable. *)
Types ==
  /\ phase \in {"down", "exited", "finish"} \cup Working
  /\ cell \in 1..Cells /\ left \in SUBSET Arms /\ session \in Sessions \cup {Nothing}
  /\ lost \in SUBSET Keys /\ drifted \in SUBSET {"memory", "corpus"}
  /\ toSeed \in SUBSET Records /\ written \in SUBSET Records
  /\ memory \in SUBSET Records /\ unindexed \in SUBSET Records
  /\ recorded \in [Keys -> Rows \cup {Nothing}] /\ answers \in [Keys -> Rows \cup {Nothing}]
  /\ raw \in [Keys -> Seq(Rows)] /\ stage \in {"none", "running", "completed"}
  /\ queued \in BOOLEAN /\ resumed \in BOOLEAN
  /\ confirmed \in {"none", "unknown", "indexed", "timed_out", "failed"}
  /\ corpus \in Nat /\ ended \in Nat /\ faults \in Nat /\ moves \in Nat /\ deaths \in Nat

(* The cell of a key, counted as the loop counts it. *)
Place(k)  == (k[3] - 1) * Questions + k[2]
Passed(k) == Place(k) < cell \/ (Place(k) = cell /\ k[1] \notin left)

(* What has been answered is what the loops have passed. *)
Progress ==
  /\ phase = "down" => answers = NoAnswers /\ recorded = NoAnswers
  /\ phase \in Asking => left # {} /\ left \subseteq Group(phase)
  /\ \A k \in Keys : answers[k] # Nothing <=>
       CASE phase = "down"                -> FALSE
         [] phase = "independent"         -> k[1] \in First1 /\ Passed(k)
         [] phase \in {"seed", "writing"} -> k[1] \in First1
         [] phase = "dependent"           -> k[1] \in First1 \/ Passed(k)
         [] OTHER                         -> TRUE

(* The checkpoint and the era of the rows. *)
Eras ==
  /\ phase \in Working => stage = "running"
  /\ phase \in Closed => stage = "completed"
  /\ \A k \in Keys : \A i \in DOMAIN raw[k] :
       /\ raw[k][i].take = i /\ raw[k][i].era <= ended
       /\ stage # "running" => raw[k][i].era < ended

(* A usable row of the evaluation under way is one it will not ask for again. *)
Once ==
  StoreText => \A k \in Keys :
    /\ \A i, j \in Usable(k) : raw[k][i].era = raw[k][j].era => i = j
    /\ phase \in Working /\ answers[k] = Nothing /\ recorded[k] = Nothing
         => \A i \in Usable(k) : raw[k][i].era < ended

(* An answer is a failure or the last on file. *)
OnFile(ans, k) ==
  \/ ans.status = "failed"
  \/ StoreText /\ ans = Reusable(k)
  \/ ~StoreText /\ ans = raw[k][Len(raw[k])]

Era == IF phase \in Closed THEN ended - 1 ELSE ended
Filed ==
  /\ \A k \in Keys : answers[k] # Nothing => OnFile(answers[k], k) /\ (resumed \/ answers[k].era = Era)
  /\ \A k \in Keys : recorded[k] # Nothing => StoreText /\ resumed /\ recorded[k] = Reusable(k)
  /\ phase \in {"mark"} \cup Closed => result # Nothing /\ result.answers = answers

(* What is taught, or is to be, rests on an answer that is on file. *)
Rests(m) ==
  /\ m[1] \in Learned \ Forbidden /\ "P0" \in Arms
  /\ m[3] \in DOMAIN raw[<<"P0", m[1], 1>>]
  /\ m[2] \in raw[<<"P0", m[1], 1>>][m[3]].proves
Sourced ==
  /\ \A k \in Keys : answers[k] # Nothing /\ answers[k].proves # {} =>
       /\ answers[k].take \in DOMAIN raw[k]
       /\ raw[k][answers[k].take].proves = answers[k].proves
  /\ \A m \in memory \cup toSeed : Rests(m)

(* What the process believes it wrote is in the region. *)
Treating ==
  /\ written \subseteq memory /\ unindexed \subseteq memory
  /\ ~Fleet => unindexed = {}
  /\ phase \notin {"writing"} => toSeed = {}
  /\ phase \in {"down", "independent", "seed"} => written = {} /\ ~queued

(* What nothing interrupted is measured with the memory it waited for. *)
Whole == written \cap unindexed = {}
Unbroken ==
  deaths = 0 =>
    /\ phase = "down" => raw = [k \in Keys |-> <<>>] /\ stage = "none"
    /\ phase # "exited" => \A k \in Keys : recorded[k] = Nothing
    /\ phase \in {"down", "independent", "seed"} => memory = {}
    /\ phase = "writing" => memory \cap toSeed = {} /\ (~queued => Whole)
    /\ phase \in {"dependent", "persist", "mark"} \cup Closed /\ confirmed \in {"none", "indexed"} =>
         /\ Whole
         /\ \A k \in Keys : k[1] = "P1" /\ answers[k] # Nothing /\ answers[k].status # "failed"
              => \A v \in answers[k].found : written \subseteq v.memory
         /\ session # Nothing /\ session.arm = "P1" => \A v \in session.found : written \subseteq v.memory
    /\ phase \in {"down"} \cup (Working \ {"mark"}) => result = Nothing
    /\ phase \in {"mark"} \cup Closed =>
         /\ result.answers = answers /\ result.seeded = written
         /\ result.stated = (confirmed \notin {"none", "indexed"})

(* An arm that is answering has its turn, and an answer to give. *)
Pure(v) == v.corpus = 0 /\ ~v.taught
Seated ==
  session # Nothing =>
    /\ Turn(session.arm) /\ recorded[KeyOf(session.arm)] = Nothing
    /\ Pinning /\ session.arm = "P0" => \A v \in session.found : Pure(v)

(* No search and no reading is of a later state than the region's. *)
Dated(v)  == v.corpus <= corpus /\ (v.taught => memory # {})
Behind(r) == r.read <= corpus /\ \A v \in r.found : Dated(v)
Timely ==
  /\ \A k \in Keys : \A i \in DOMAIN raw[k] : Behind(raw[k][i])
  /\ session # Nothing =>
       /\ \A v \in session.found : Dated(v)
       /\ session.said # Nothing => session.said.read <= corpus

(* What a process took over, where it found nothing moved, is of the sealed
   region, and it is what it scores. *)
Guarded ==
  /\ phase # "down" /\ drifted \subseteq {"memory"} =>
       \A k \in Keys : recorded[k] # Nothing => Sealed(recorded[k])
  /\ \A k \in Keys : recorded[k] # Nothing /\ answers[k] # Nothing => answers[k] = recorded[k]

IInv ==
  /\ Types /\ Progress /\ Eras /\ Once /\ Filed /\ ResultOnFile /\ Sourced
  /\ Seated /\ Timely /\ Guarded /\ BaselineSealed /\ Treating /\ Unbroken

-----------------------------------------------------------------------------
(* Division with remainder. *)
LEMMA Divided ==
  ASSUME NEW Q \in Nat \ {0}, NEW x \in Nat
  PROVE  /\ x \div Q \in Nat /\ x % Q \in 0..(Q - 1)
         /\ x = Q * (x \div Q) + (x % Q)
OBVIOUS

LEMMA Products ==
  ASSUME NEW Q \in Nat, NEW a \in Int, NEW b \in Int, a < b
  PROVE  Q * a + Q <= Q * b
<1>1. b - a - 1 \in Nat
  OBVIOUS
<1>2. Q * (b - a - 1) \in Nat
  BY <1>1
<1>3. Q * (b - a - 1) = Q * b - Q * a - Q
  OBVIOUS
<1> QED BY <1>2, <1>3

(* Quotient and remainder are unique. *)
LEMMA DividedOnce ==
  ASSUME NEW Q \in Nat \ {0}, NEW a \in Int, NEW b \in Int,
         NEW r \in 0..(Q - 1), NEW s \in 0..(Q - 1), Q * a + r = Q * b + s
  PROVE  a = b /\ r = s
<1>1. Q * a \in Int /\ Q * b \in Int
  OBVIOUS
<1>2. ~(a < b)
  BY <1>1, Products
<1>3. ~(b < a)
  BY <1>1, Products
<1>4. a = b
  BY <1>2, <1>3
<1> QED BY <1>1, <1>4

(* The keys of an arm are the cells, one by one. *)
LEMMA CellsAreKeys ==
  ASSUME cell \in 1..Cells, NEW a \in Arms
  PROVE  /\ KeyOf(a) \in Keys /\ KeyOf(a)[1] = a /\ Place(KeyOf(a)) = cell
         /\ \A k \in Keys : k[1] = a /\ Place(k) = cell => k = KeyOf(a)
<1> DEFINE x == cell - 1
<1>1. Questions \in Nat \ {0} /\ Repetitions \in Nat \ {0}
  BY EvaluationAssumption
<1>2. Questions * Repetitions \in Nat /\ x \in Nat /\ x < Questions * Repetitions
  BY <1>1 DEF Cells
<1>3. /\ x \div Questions \in Nat /\ x % Questions \in 0..(Questions - 1)
      /\ x = Questions * (x \div Questions) + (x % Questions)
  BY <1>1, <1>2, Divided
<1> DEFINE n == x \div Questions
           r == x % Questions
<1>4. n \in Nat /\ r \in 0..(Questions - 1) /\ x = Questions * n + r
  BY <1>3
<1>5. KeyOf(a) = <<a, r + 1, n + 1>>
  BY DEF KeyOf
<1> HIDE DEF n, r
<1>6. n < Repetitions
  <2> SUFFICES ASSUME Repetitions - 1 < n PROVE FALSE
    BY <1>1, <1>4
  <2>1. Questions * (Repetitions - 1) + Questions <= Questions * n
    BY <1>1, <1>4, Products
  <2>2. Questions * (Repetitions - 1) = Questions * Repetitions - Questions
    BY <1>1
  <2>3. Questions * n \in Nat
    BY <1>1, <1>4
  <2> QED BY <1>1, <1>2, <1>4, <2>1, <2>2, <2>3
<1>7. KeyOf(a) \in Keys /\ KeyOf(a)[1] = a /\ KeyOf(a)[2] = r + 1 /\ KeyOf(a)[3] = n + 1
  BY <1>1, <1>4, <1>5, <1>6 DEF Keys, Asked
<1>8. Place(KeyOf(a)) = cell
  <2>1. Place(KeyOf(a)) = (n + 1 - 1) * Questions + (r + 1)
    <3>1. Place(<<a, r + 1, n + 1>>) = (n + 1 - 1) * Questions + (r + 1)
      BY <1>1, <1>4 DEF Place
    <3> QED BY <1>5, <3>1
  <2>2. (n + 1 - 1) * Questions = Questions * n
    BY <1>1, <1>4
  <2>3. Questions * n \in Nat
    BY <1>1, <1>4
  <2> QED BY <1>1, <1>2, <1>4, <2>1, <2>2, <2>3
<1>9. ASSUME NEW k \in Keys, k[1] = a, Place(k) = cell PROVE k = KeyOf(a)
  <2>1. /\ k = <<k[1], k[2], k[3]>> /\ k[2] \in 1..Questions /\ k[3] \in 1..Repetitions
    BY <1>9 DEF Keys, Asked
  <2>2. (k[3] - 1) * Questions = Questions * (k[3] - 1)
    BY <1>1, <2>1
  <2>3. Questions * (k[3] - 1) \in Int /\ Questions * n \in Int
    BY <1>1, <1>4, <2>1
  <2>4. Questions * (k[3] - 1) + (k[2] - 1) = Questions * n + r
    BY <1>1, <1>2, <1>4, <1>9, <2>1, <2>2, <2>3 DEF Place
  <2>5. k[3] - 1 \in Int /\ k[2] - 1 \in 0..(Questions - 1)
    BY <1>1, <2>1
  <2>6. k[3] - 1 = n /\ k[2] - 1 = r
    BY <1>1, <1>4, <2>4, <2>5, DividedOnce
  <2>7. k[3] = n + 1 /\ k[2] = r + 1
    BY <1>1, <1>4, <2>1, <2>6
  <2> QED BY <1>5, <1>9, <2>1, <2>7
<1> QED BY <1>7, <1>8, <1>9

LEMMA PlacesAreCells == \A k \in Keys : Place(k) \in 1..Cells
<1> SUFFICES ASSUME NEW k \in Keys PROVE Place(k) \in 1..Cells
  OBVIOUS
<1>1. /\ Questions \in Nat \ {0} /\ Repetitions \in Nat \ {0}
      /\ k[2] \in 1..Questions /\ k[3] \in 1..Repetitions
  BY EvaluationAssumption DEF Keys, Asked
<1>2. (k[3] - 1) * Questions = Questions * (k[3] - 1) /\ Questions * (k[3] - 1) \in Nat
  BY <1>1
<1>3. Questions * (k[3] - 1) + Questions <= Questions * Repetitions
  <2>1. k[3] - 1 < Repetitions
    BY <1>1
  <2> QED BY <1>1, <2>1, Products
<1>4. Questions * Repetitions \in Nat
  BY <1>1
<1> QED BY <1>1, <1>2, <1>3, <1>4 DEF Place, Cells

(* A set of positions that is not empty has a last. *)
LEMMA LastFacts ==
  ASSUME NEW n \in Nat, NEW S \in SUBSET (1..n), S # {}
  PROVE  Last(S) \in S /\ \A j \in S : j <= Last(S)
<1> DEFINE R == {ss \in Nat \X Nat : ss[1] < ss[2]}
           T == {n - i : i \in S}
<1>1. IsWellFoundedOn(R, Nat)
  BY NatLessThanWellFounded DEF OpToRel
<1>2. T \in SUBSET Nat /\ T # {}
  <2>1. \A i \in S : i \in Nat /\ n - i \in Nat
    OBVIOUS
  <2> QED BY <2>1
<1>3. PICK m \in T : \A k \in T : <<k, m>> \notin R
  <2> HIDE DEF R, T
  <2> QED BY <1>1, <1>2, WFMin
<1>4. ASSUME NEW k \in T, k < m PROVE FALSE
  <2>1. <<k, m>> \in Nat \X Nat /\ <<k, m>>[1] < <<k, m>>[2]
    BY <1>2, <1>4
  <2>2. <<k, m>> \in R
    BY <2>1, Zenon
  <2> QED BY <2>2, <1>3
<1>5. PICK i \in S : m = n - i
  OBVIOUS
<1>6. \A j \in S : j <= i
  BY <1>4, <1>5
<1> QED BY <1>6 DEF Last

-----------------------------------------------------------------------------
(* What is reused of a key is a usable row of it, the last one. *)
LEMMA ReusableFacts ==
  ASSUME raw \in [Keys -> Seq(Rows)], NEW k \in Keys
  PROVE  /\ Usable(k) = {} => Reusable(k) = Nothing
         /\ Usable(k) # {} => \E i \in Usable(k) : /\ Reusable(k) = raw[k][i]
                                                   /\ \A j \in Usable(k) : j <= i
         /\ Reusable(k) \in Rows \cup {Nothing}
         /\ \A i \in Usable(k) : i \in 1..Len(raw[k]) /\ raw[k][i] \in Rows /\ raw[k][i] # Nothing
<1>1. Usable(k) = {} => Reusable(k) = Nothing
  BY DEF Reusable
<1>2. Len(raw[k]) \in Nat /\ Usable(k) \in SUBSET (1..Len(raw[k]))
  BY DEF Usable
<1>3. Usable(k) # {} => \E i \in Usable(k) : /\ Reusable(k) = raw[k][i]
                                             /\ \A j \in Usable(k) : j <= i
  BY <1>2, LastFacts DEF Reusable
<1>4. \A i \in Usable(k) : raw[k][i] \in Rows
  BY <1>2
<1>5. \A r \in Rows : r # Nothing
  BY DEF Rows, Statuses, Nothing
<1> QED BY <1>1, <1>2, <1>3, <1>4, <1>5

(* What a further row does to them. *)
LEMMA Appended ==
  ASSUME raw \in [Keys -> Seq(Rows)], NEW k \in Keys, NEW row \in Rows,
         raw' = [raw EXCEPT ![k] = Append(@, row)]
  PROVE  /\ raw' \in [Keys -> Seq(Rows)]
         /\ \A l \in Keys : l # k =>
              raw'[l] = raw[l] /\ Usable(l)' = Usable(l) /\ Reusable(l)' = Reusable(l)
         /\ Len(raw'[k]) = Len(raw[k]) + 1 /\ raw'[k][Len(raw[k]) + 1] = row
         /\ \A i \in 1..Len(raw[k]) : raw'[k][i] = raw[k][i]
         /\ row.status = "failed" => Usable(k)' = Usable(k) /\ Reusable(k)' = Reusable(k)
         /\ row.status # "failed" =>
              Usable(k)' = Usable(k) \cup {Len(raw[k]) + 1} /\ Reusable(k)' = row
<1> DEFINE n == Len(raw[k])
<1>1. raw[k] \in Seq(Rows) /\ n \in Nat
  OBVIOUS
<1>2. raw' \in [Keys -> Seq(Rows)]
  BY <1>1
<1>3. /\ raw'[k] = Append(raw[k], row)
      /\ \A l \in Keys : l # k => raw'[l] = raw[l]
  OBVIOUS
<1>4. Len(raw'[k]) = n + 1 /\ raw'[k][n + 1] = row /\ \A i \in 1..n : raw'[k][i] = raw[k][i]
  BY <1>1, <1>3
<1>5. \A l \in Keys : l # k => Usable(l)' = Usable(l) /\ Reusable(l)' = Reusable(l)
  BY <1>3 DEF Usable, Reusable
<1>6. DOMAIN raw[k] = 1..n /\ DOMAIN raw'[k] = 1..(n + 1)
  BY <1>1, <1>2, <1>4
<1> HIDE DEF n
<1>7. ASSUME row.status = "failed" PROVE Usable(k)' = Usable(k) /\ Reusable(k)' = Reusable(k)
  <2>1. Usable(k)' = Usable(k)
    BY <1>1, <1>4, <1>6, <1>7 DEF Usable
  <2>2. Usable(k) # {} => Last(Usable(k)) \in 1..n
    BY <1>1, <1>6, LastFacts DEF Usable
  <2> QED BY <1>4, <2>1, <2>2 DEF Reusable
<1>8. ASSUME row.status # "failed" PROVE Usable(k)' = Usable(k) \cup {n + 1} /\ Reusable(k)' = row
  <2>1. Usable(k)' = Usable(k) \cup {n + 1}
    BY <1>1, <1>4, <1>6, <1>8 DEF Usable
  <2>2. Usable(k)' \in SUBSET (1..(n + 1)) /\ n + 1 \in Nat
    BY <1>1, <1>6 DEF Usable
  <2>3. Last(Usable(k)') \in Usable(k)' /\ \A j \in Usable(k)' : j <= Last(Usable(k)')
    BY <2>1, <2>2, LastFacts
  <2>4. Last(Usable(k)') = n + 1
    <3>1. n + 1 \in Usable(k)'
      BY <2>1
    <3>2. n + 1 <= Last(Usable(k)') /\ Last(Usable(k)') \in 1..(n + 1)
      BY <2>2, <2>3, <3>1
    <3> QED BY <1>1, <3>2
  <2> QED BY <1>4, <2>1, <2>4 DEF Reusable
<1> QED BY <1>2, <1>3, <1>4, <1>5, <1>7, <1>8 DEF n

-----------------------------------------------------------------------------
LEMMA TypesAreTypeOK == Types <=> TypeOK
BY Zenon DEF Types, TypeOK, Working

(* What an arm's turn comes to: an answer it had, a row it appends to the
   file, or a failure that leaves none. *)
Given(a, ans) ==
  /\ Turn(a) /\ Onward(a)
  /\ answers' = [answers EXCEPT ![KeyOf(a)] = ans] /\ session' = Nothing
  /\ lost' \in {lost, lost \ {KeyOf(a)}}
  /\ UNCHANGED <<recorded, drifted, toSeed, written, queued, confirmed, stage, result, memory,
                 unindexed, corpus, ended, resumed, moves, deaths>>
Reused(a, ans) ==
  recorded[KeyOf(a)] # Nothing /\ ans = recorded[KeyOf(a)] /\ UNCHANGED <<raw, faults>>
Taken(a, ans) ==
  /\ recorded[KeyOf(a)] = Nothing /\ session # Nothing /\ session.arm = a
  /\ session.said # Nothing
  /\ raw' = [raw EXCEPT ![KeyOf(a)] = Append(@, ans)]
  /\ ans.take = Len(raw[KeyOf(a)]) + 1 /\ ans.era = ended
  /\ ans.found = session.found /\ ans.read = session.said.read
Missed(a, ans) ==
  /\ recorded[KeyOf(a)] = Nothing
  /\ ans.status = "failed" /\ ans.proves = {} /\ ans.era = ended /\ UNCHANGED raw
Gives(a, ans) ==
  Given(a, ans) /\ faults' \in {faults, faults + 1} /\ (Reused(a, ans) \/ Taken(a, ans) \/ Missed(a, ans))

LEMMA RowIsRow ==
  ASSUME Types, NEW a \in Arms, KeyOf(a) \in Keys, session # Nothing, session.said # Nothing
  PROVE  Row(a) \in Rows
<1>1. Len(raw[KeyOf(a)]) + 1 \in Nat /\ ended \in Nat
  BY DEF Types
<1>2. session \in Sessions
  BY DEF Types
<1>3. session.said \in Said /\ session.found \in SUBSET Views /\ session.raised \in BOOLEAN
  BY <1>2 DEF Sessions
<1>4. session.said.status \in Statuses /\ session.said.proves \in SUBSET Kinds
      /\ session.said.read \in Nat
  BY <1>3 DEF Said
<1> QED BY <1>1, <1>3, <1>4 DEF Row, Rows

LEMMA AnswerCases ==
  ASSUME Types, Seated, NEW a \in Arms, Reuse(a) \/ File(a) \/ Raise(a)
  PROVE  KeyOf(a) \in Keys /\ \E ans \in Rows : Gives(a, ans)
<1>0. KeyOf(a) \in Keys
  BY CellsAreKeys DEF Types
<1>1. CASE Reuse(a)
  <2> DEFINE ans == recorded[KeyOf(a)]
  <2>1. ans \in Rows
    BY <1>0, <1>1 DEF Reuse, Types
  <2>2. session' = Nothing /\ lost' = lost
    BY <1>1 DEF Reuse, bounds, history
  <2>3. Given(a, ans) /\ Reused(a, ans) /\ faults' = faults
    BY <1>1, <2>2 DEF Reuse, Given, Reused, disk, region, bounds, history
  <2> QED BY <1>0, <2>1, <2>3 DEF Gives
<1>2. CASE File(a)
  <2> DEFINE ans == Row(a)
  <2>1. /\ session # Nothing /\ session.said # Nothing /\ session.arm = a
        /\ recorded[KeyOf(a)] = Nothing
    BY <1>2 DEF File, Seated
  <2>2. ans \in Rows
    BY <1>0, <2>1, RowIsRow
  <2>3. /\ ans.take = Len(raw[KeyOf(a)]) + 1 /\ ans.era = ended
        /\ ans.found = session.found /\ ans.read = session.said.read
    BY DEF Row
  <2>4. Given(a, ans) /\ faults' = faults
    BY <1>2 DEF File, Given, region
  <2>5. Taken(a, ans)
    BY <1>2, <2>1, <2>3 DEF File, Taken
  <2> QED BY <1>0, <2>2, <2>4, <2>5 DEF Gives
<1>3. CASE Raise(a)
  <2> DEFINE ans == Failure
  <2>1. ans \in Rows /\ ans.status = "failed" /\ ans.proves = {} /\ ans.era = ended
    <3>1. ended \in Nat
      BY DEF Types
    <3> QED BY <3>1 DEF Failure, Rows, Statuses
  <2>2. session # Nothing /\ recorded[KeyOf(a)] = Nothing
    BY <1>3 DEF Raise, InHand, Seated
  <2>3. Given(a, ans) /\ Missed(a, ans) /\ faults' = faults + 1
    BY <1>3, <2>1, <2>2 DEF Raise, Fault, Given, Missed, disk, region, history
  <2> QED BY <1>0, <2>1, <2>3 DEF Gives
<1> QED BY <1>1, <1>2, <1>3

(* The steps of a session before it is answered: they change nothing else. *)
Sits == Search \/ Compose \/ \E a \in Arms : Ask(a)
LEMMA SitsStand ==
  ASSUME Sits
  PROVE  /\ faults' \in {faults, faults + 1}
         /\ UNCHANGED <<phase, cell, left, recorded, answers, drifted, toSeed, written, queued,
                        confirmed, raw, stage, result, memory, unindexed, corpus, ended, resumed,
                        lost, moves, deaths>>
BY DEF Sits, Search, Compose, Ask, Fault, disk, region, bounds, history

(* What they make of the session. *)
LEMMA SessionCases ==
  ASSUME Types, Sits
  PROVE  /\ session' \in Sessions /\ session' # Nothing
         /\ \/ /\ session = Nothing /\ session'.arm \in Arms /\ Turn(session'.arm)
               /\ recorded[KeyOf(session'.arm)] = Nothing
               /\ session'.found = {} /\ session'.said = Nothing
            \/ /\ session # Nothing /\ session'.arm = session.arm
               /\ \/ session'.found = session.found
                  \/ /\ session'.found = session.found \cup {View(session.arm)}
                     /\ ~Refused(session.arm)
               /\ \/ session'.said = session.said
                  \/ session'.said # Nothing /\ session'.said.read \in {0, corpus}
<1>0. Nothing \notin Sessions
  BY DEF Nothing, Sessions
<1>1. CASE \E a \in Arms : Ask(a)
  <2>1. PICK a \in Arms : Ask(a)
    BY <1>1
  <2>2. session' = [arm |-> a, found |-> {}, raised |-> FALSE, said |-> Nothing]
    BY <2>1 DEF Ask
  <2>3. session' \in Sessions
    BY <2>2 DEF Sessions
  <2>4. session = Nothing /\ Turn(a) /\ recorded[KeyOf(a)] = Nothing
    BY <2>1 DEF Ask
  <2>5. session'.arm = a /\ session'.found = {} /\ session'.said = Nothing
    BY <2>2
  <2>6. session'.arm \in Arms /\ Turn(session'.arm) /\ recorded[KeyOf(session'.arm)] = Nothing
    BY <2>4, <2>5
  <2> QED BY <1>0, <2>3, <2>4, <2>5, <2>6
<1>2. CASE Search
  <2>1. session \in Sessions /\ session # Nothing
    BY <1>2 DEF Types, Search, InHand
  <2>2. View(session.arm) \in Views
    BY DEF View, Views, Types
  <2>3. CASE session' = [session EXCEPT !.raised = TRUE]
    BY <1>0, <2>1, <2>3 DEF Sessions
  <2>4. CASE session' = [session EXCEPT !.found = @ \cup {View(session.arm)}] /\ ~Refused(session.arm)
    <3>1. session.found \cup {View(session.arm)} \in SUBSET Views
      BY <2>1, <2>2 DEF Sessions
    <3> DEFINE f == session.found \cup {View(session.arm)}
    <3>2. session' = [session EXCEPT !.found = f]
      BY <2>4
    <3> HIDE DEF f
    <3>3. session' \in Sessions /\ session'.found = f /\ session'.arm = session.arm
          /\ session'.said = session.said
      BY <2>1, <3>1, <3>2 DEF Sessions, f
    <3> QED BY <1>0, <2>1, <2>4, <3>3 DEF f
  <2> QED BY <1>2, <2>3, <2>4 DEF Search
<1>3. CASE Compose
  <2>1. session \in Sessions /\ session # Nothing
    BY <1>3 DEF Types, Compose, InHand
  <2>0. PICK s \in Statuses : \E p \in Provable(s) :
          session' = [session EXCEPT !.said =
            [status |-> s, proves |-> p, read |-> IF session.found = {} THEN 0 ELSE corpus]]
    BY <1>3, Zenon DEF Compose
  <2>2. PICK p \in Provable(s) :
          session' = [session EXCEPT !.said =
            [status |-> s, proves |-> p, read |-> IF session.found = {} THEN 0 ELSE corpus]]
    BY <2>0
  <2> DEFINE n == IF session.found = {} THEN 0 ELSE corpus
             d == [status |-> s, proves |-> p, read |-> n]
  <2>3. n \in Nat /\ n \in {0, corpus} /\ p \in SUBSET Kinds
    <3>1. p \in {{}, {"fact"}, Kinds}
      BY DEF Provable
    <3> QED BY <3>1, EvaluationAssumption DEF Types
  <2>4. session' = [session EXCEPT !.said = d]
    BY <2>2
  <2> HIDE DEF n
  <2>5. d \in Said /\ d.read = n
    BY <2>3 DEF Said
  <2>6. d # Nothing
    BY DEF Nothing
  <2> HIDE DEF d
  <2>7. session' \in Sessions /\ session'.said = d /\ session'.found = session.found
        /\ session'.arm = session.arm
    BY <2>1, <2>4, <2>5 DEF Sessions
  <2> QED BY <1>0, <2>1, <2>3, <2>5, <2>6, <2>7
<1> QED BY <1>1, <1>2, <1>3 DEF Sits

LEMMA OnwardCases ==
  ASSUME Types, NEW a \in Arms, Turn(a), Onward(a)
  PROVE  /\ phase \in Asking /\ a \in left
         /\ \/ left # {a} /\ left' = left \ {a} /\ phase' = phase /\ cell' = cell
            \/ left = {a} /\ cell < Cells /\ left' = Group(phase) /\ cell' = cell + 1 /\ phase' = phase
            \/ left = {a} /\ cell = Cells /\ left' = {} /\ cell' = 1
               /\ phase' = IF phase = "independent" THEN "seed" ELSE "persist"
<1>1. phase \in Asking /\ a \in left
  BY DEF Turn, Asking
<1>2. cell \in 1..Cells /\ Cells \in Nat
  BY EvaluationAssumption DEF Types, Cells
<1>3. left = {a} /\ ~(cell < Cells) => cell = Cells
  BY <1>2
<1> QED BY <1>1, <1>3, Zenon DEF Onward

LEMMA CellsPositive == Cells \in Nat \ {0}
<1>1. Questions \in Nat \ {0} /\ Repetitions \in Nat \ {0}
  BY EvaluationAssumption
<1>2. Questions * Repetitions \in Nat
  BY <1>1
<1>3. Questions * 0 + Questions <= Questions * Repetitions
  BY <1>1, Products
<1> QED BY <1>1, <1>2, <1>3 DEF Cells

(* Every variable keeps its type. *)
LEMMA TypeInv == Types /\ Progress /\ Seated /\ [Next]_vars => Types'
<1> SUFFICES ASSUME Types, Progress, Seated, [Next]_vars PROVE Types'
  OBVIOUS
<1> USE DEF Types, Working
<1>0. \A p : Group(p) \in SUBSET Arms
  BY DEF Group
<1>1. CASE Start
  <2>1. \A k \in Keys : Resumed(k) \in Rows \cup {Nothing}
    BY ReusableFacts DEF Resumed
  <2>2. Moved \in SUBSET {"memory", "corpus"}
    BY DEF Moved
  <2>3. Enter("independent") \in {"independent", "seed"}
    BY DEF Enter
  <2>4. 1 \in 1..Cells
    BY CellsPositive
  <2> QED BY <1>0, <1>1, <2>1, <2>2, <2>3, <2>4 DEF Start, region
<1>2. CASE Seed
  <2>1. Proven \in SUBSET Records
    <3> SUFFICES ASSUME NEW x \in (Learned \ Forbidden) \X Kinds, "P0" \in Arms,
                        x[2] \in answers[<<"P0", x[1], 1>>].proves
                 PROVE  <<x[1], x[2], answers[<<"P0", x[1], 1>>].take>> \in Records
      BY DEF Proven
    <3> DEFINE k == <<"P0", x[1], 1>>
    <3>1. x[1] \in Asked /\ x[2] \in Kinds /\ 1 \in 1..Repetitions
      BY EvaluationAssumption
    <3>2. k \in Keys /\ k[1] \in First1
      BY <3>1 DEF Keys, First1, Group
    <3>3. answers[k] \in Rows
      BY <1>2, <3>2 DEF Progress, Seed
    <3>4. answers[k].take \in Nat
      BY <3>3 DEF Rows
    <3> QED BY <3>1, <3>4 DEF Records
  <2> QED BY <1>2, <2>1 DEF Seed, disk, region, bounds, history
<1>3. CASE Write
  <2>1. PICK m \in toSeed :
          /\ toSeed' = toSeed \ {m}
          /\ \/ Store(m) /\ written' = written \cup {m} /\ UNCHANGED faults
                /\ queued' = (queued \/ (Fleet /\ m \notin memory))
             \/ /\ faults' = faults + 1 /\ (Store(m) \/ UNCHANGED <<memory, unindexed>>)
                /\ UNCHANGED <<written, queued>>
    BY <1>3, Zenon DEF Write
  <2>2. Store(m) => memory' \in SUBSET Records /\ unindexed' \in SUBSET Records
    BY DEF Store
  <2>3. memory' \in SUBSET Records /\ unindexed' \in SUBSET Records /\ toSeed' \in SUBSET Records
    BY <2>1, <2>2
  <2>4. written' \in SUBSET Records /\ faults' \in Nat
    BY <2>1
  <2>5. queued' \in BOOLEAN
    <3>1. queued' = (queued \/ (Fleet /\ m \notin memory)) \/ queued' = queued
      BY <2>1
    <3> QED BY <3>1
  <2> QED BY <1>3, <2>3, <2>4, <2>5 DEF Write, disk, history
<1>4. CASE Wait
  <2>1. Outcomes \subseteq {"none", "unknown", "indexed", "timed_out", "failed"}
    BY Zenon DEF Outcomes
  <2>2. Enter("dependent") \in {"dependent", "persist"}
    BY DEF Enter
  <2>3. 1 \in 1..Cells /\ Group("dependent") \in SUBSET Arms
    BY <1>0, CellsPositive
  <2> QED BY <1>4, <2>1, <2>2, <2>3 DEF Wait, disk, region, history
<1>5. CASE Persist \/ Complete \/ Finish
  <2>1. phase' \in {"mark", "finish", "exited"} /\ stage' \in {stage, "completed"}
        /\ ended' \in {ended, ended + 1}
    BY <1>5 DEF Persist, Complete, Finish, bounds, history, disk
  <2>2. /\ lost' \in SUBSET Keys
        /\ UNCHANGED <<cell, left, session, recorded, answers, drifted, toSeed, written, queued,
                       confirmed, raw, memory, unindexed, corpus, resumed, faults, moves, deaths>>
    BY <1>5 DEF Persist, Complete, Finish, region, bounds, history, disk
  <2> QED BY <2>1, <2>2
<1>6. ASSUME NEW a \in Arms, Reuse(a) \/ File(a) \/ Raise(a) PROVE Types'
  <2>1. KeyOf(a) \in Keys
    BY <1>6, AnswerCases
  <2>2. PICK ans \in Rows : Gives(a, ans)
    BY <1>6, AnswerCases
  <2>3. phase' \in {"down", "exited", "finish"} \cup Working /\ cell' \in 1..Cells
        /\ left' \in SUBSET Arms
    BY <1>0, <2>2, OnwardCases, CellsPositive DEF Gives, Given
  <2>4. raw' \in [Keys -> Seq(Rows)]
    BY <2>1, <2>2, Appended DEF Gives, Taken, Reused, Missed
  <2>5. faults' \in Nat /\ answers' \in [Keys -> Rows \cup {Nothing}]
    BY <2>1, <2>2 DEF Gives, Given
  <2>6. lost' \in SUBSET Keys /\ session' = Nothing
    BY <2>2 DEF Gives, Given
  <2> QED BY <2>2, <2>3, <2>4, <2>5, <2>6 DEF Gives, Given
<1>10. CASE Sits
  <2>1. session' \in Sessions
    BY <1>10, SessionCases
  <2>2. faults' \in Nat
    BY <1>10, SitsStand
  <2>3. UNCHANGED <<phase, cell, left, recorded, answers, drifted, toSeed, written, queued,
                    confirmed, raw, stage, memory, unindexed, corpus, ended, resumed, lost, moves,
                    deaths>>
    BY <1>10, SitsStand
  <2> QED BY <2>1, <2>2, <2>3
<1>7. CASE Index \/ Move
  <2>1. /\ unindexed' \in {unindexed, {}} /\ corpus' \in {corpus, corpus + 1}
        /\ moves' \in {moves, moves + 1}
    BY <1>7 DEF Index, Move, bounds
  <2>2. UNCHANGED <<process, raw, stage, memory, history, faults, deaths>>
    BY <1>7 DEF Index, Move, bounds, disk
  <2> QED BY <2>1, <2>2 DEF process, history
<1>8. CASE Kill
  <2>1. NoAnswers \in [Keys -> Rows \cup {Nothing}] /\ 1 \in 1..Cells
    BY CellsPositive DEF NoAnswers
  <2>2. /\ phase' = "down" /\ cell' = 1 /\ left' = {} /\ drifted' = {} /\ toSeed' = {}
        /\ written' = {} /\ recorded' = NoAnswers /\ answers' = NoAnswers /\ confirmed' = "none"
        /\ deaths' = deaths + 1
    BY <1>8 DEF Kill
  <2>3. queued' \in BOOLEAN
    BY <1>8 DEF Kill
  <2>4. UNCHANGED <<raw, stage, memory, unindexed, corpus, ended, resumed, faults, moves>>
    BY <1>8 DEF Kill, disk, region
  <2>5. session' = Nothing /\ lost' \in SUBSET Keys
    <3>1. CASE Paid
      <4>1. session \in Sessions
        BY <3>1 DEF Paid
      <4>2. session.arm \in Arms
        BY <4>1 DEF Sessions
      <4>3. KeyOf(session.arm) \in Keys
        BY <4>2, CellsAreKeys
      <4> QED BY <1>8, <3>1, <4>3 DEF Kill
    <3> QED BY <1>8, <3>1 DEF Kill
  <2> QED BY <2>1, <2>2, <2>3, <2>4, <2>5
<1>9. CASE UNCHANGED vars
  BY <1>9 DEF vars, process, disk, region, bounds, history
<1> QED BY <1>1, <1>2, <1>3, <1>4, <1>5, <1>6, <1>7, <1>8, <1>9, <1>10 DEF Next, Step, Sits

LEMMA TwoGroups ==
  /\ First1 \cup Group("dependent") = Arms /\ First1 \cap Group("dependent") = {}
  /\ Group("independent") = First1
BY EvaluationAssumption DEF First1, Group

(* An arm is not asked at a key that has an answer. *)
LEMMA TurnIsOpen ==
  ASSUME Types, Progress, NEW a \in Arms, Turn(a)
  PROVE  KeyOf(a) \in Keys /\ answers[KeyOf(a)] = Nothing
<1>1. KeyOf(a) \in Keys /\ KeyOf(a)[1] = a /\ Place(KeyOf(a)) = cell
  BY CellsAreKeys DEF Types
<1>2. a \in left /\ phase \in Asking
  BY DEF Turn, Asking
<1>3. ~Passed(KeyOf(a)) /\ (phase = "dependent" => a \notin First1)
  <2>1. cell \in Nat
    BY DEF Types
  <2> QED BY <1>1, <1>2, <2>1, TwoGroups DEF Passed, Progress
<1> QED BY <1>1, <1>2, <1>3 DEF Progress, Asking

(* The loops go over every key once. *)
LEMMA ProgressInv == Types /\ Progress /\ Seated /\ [Next]_vars => Progress'
<1> SUFFICES ASSUME Types, Progress, Seated, [Next]_vars PROVE Progress'
  OBVIOUS
<1> USE TwoGroups
<1>1. CASE Start
  <2>1. \A k \in Keys : answers'[k] = Nothing
    BY <1>1 DEF Start, Progress, NoAnswers
  <2>2. CASE First1 = {}
    BY <1>1, <2>1, <2>2 DEF Start, Enter, Progress, Asking
  <2>3. CASE First1 # {}
    <3>1. phase' = "independent" /\ cell' = 1 /\ left' = First1
      BY <1>1, <2>3 DEF Start, Enter
    <3>2. \A k \in Keys : ~(k[1] \in First1 /\ Passed(k)')
      BY <3>1, PlacesAreCells DEF Passed
    <3> QED BY <2>1, <2>3, <3>1, <3>2 DEF Progress, Asking
  <2> QED BY <2>2, <2>3
<1>2. CASE Seed
  BY <1>2 DEF Seed, Progress, Asking
<1>3. CASE Write
  BY <1>3 DEF Write, Progress, Asking
<1>4. CASE Wait
  <2>1. \A k \in Keys : answers'[k] # Nothing <=> k[1] \in First1
    BY <1>4 DEF Wait, Progress
  <2>2. \A k \in Keys : k[1] \in Arms
    BY DEF Keys
  <2>3. CASE Group("dependent") = {}
    BY <1>4, <2>1, <2>2, <2>3 DEF Wait, Enter, Progress, Asking
  <2>4. CASE Group("dependent") # {}
    <3>1. phase' = "dependent" /\ cell' = 1 /\ left' = Group("dependent")
      BY <1>4, <2>4 DEF Wait, Enter
    <3>2. \A k \in Keys : Passed(k)' => k[1] \in First1
      BY <2>2, <3>1, PlacesAreCells DEF Passed
    <3> QED BY <2>1, <2>4, <3>1, <3>2 DEF Progress, Asking
  <2> QED BY <2>3, <2>4
<1>5. CASE Persist \/ Complete \/ Finish
  BY <1>5 DEF Persist, Complete, Finish, Progress, Asking
<1>6. ASSUME NEW a \in Arms, Reuse(a) \/ File(a) \/ Raise(a) PROVE Progress'
  <2>1. PICK ans \in Rows : Gives(a, ans)
    BY <1>6, AnswerCases
  <2>2. Turn(a) /\ Onward(a)
    BY <2>1 DEF Gives, Given
  <2>3. /\ KeyOf(a) \in Keys /\ KeyOf(a)[1] = a /\ Place(KeyOf(a)) = cell
        /\ \A k \in Keys : k[1] = a /\ Place(k) = cell => k = KeyOf(a)
    BY CellsAreKeys DEF Types
  <2>4. ans # Nothing
    BY DEF Rows, Statuses, Nothing
  <2>5. \A k \in Keys : answers'[k] # Nothing <=> answers[k] # Nothing \/ k = KeyOf(a)
    BY <2>1, <2>3, <2>4 DEF Gives, Given, Types
  <2>6. cell \in Nat /\ a \in left /\ left \subseteq Group(phase) /\ phase \in Asking
    BY <2>2, OnwardCases DEF Types, Progress
  <2>7. \A k \in Keys : Place(k) \in Nat /\ Place(k) <= Cells /\ Place(k) >= 1
    BY PlacesAreCells, CellsPositive
  <2>8. CASE left # {a} /\ left' = left \ {a} /\ phase' = phase /\ cell' = cell
    <3>1. \A k \in Keys : Passed(k)' <=> Passed(k) \/ k = KeyOf(a)
      BY <2>3, <2>6, <2>8 DEF Passed
    <3>2. \A k \in Keys : k = KeyOf(a) => k[1] = a
      BY <2>3
    <3> QED BY <2>5, <2>6, <2>8, <3>1, <3>2 DEF Progress, Asking
  <2>9. CASE left = {a} /\ cell < Cells /\ left' = Group(phase) /\ cell' = cell + 1 /\ phase' = phase
    <3>1. \A k \in Keys : k[1] \in Group(phase) => (Passed(k)' <=> Passed(k) \/ k = KeyOf(a))
      BY <2>3, <2>6, <2>7, <2>9 DEF Passed
    <3>2. Group(phase) # {} /\ KeyOf(a)[1] \in Group(phase)
      BY <2>3, <2>6
    <3>3. \A k \in Keys : k[1] \in First1 \/ k[1] \in Group("dependent")
      BY DEF Keys
    <3> QED BY <2>5, <2>6, <2>9, <3>1, <3>2, <3>3 DEF Progress, Asking
  <2>10. CASE left = {a} /\ cell = Cells /\ left' = {} /\ cell' = 1
               /\ phase' = IF phase = "independent" THEN "seed" ELSE "persist"
    <3>2. \A k \in Keys : Passed(k) \/ k = KeyOf(a)
      BY <2>3, <2>7, <2>10 DEF Passed
    <3>3. \A k \in Keys : k[1] \in First1 \/ k[1] \in Group("dependent")
      BY DEF Keys
    <3>4. KeyOf(a)[1] \in Group(phase)
      BY <2>3, <2>6
    <3> QED BY <2>5, <2>6, <2>10, <3>2, <3>3, <3>4 DEF Progress, Asking
  <2> QED BY <2>2, <2>8, <2>9, <2>10, OnwardCases
<1>7. CASE Index \/ Move \/ UNCHANGED vars
  BY <1>7 DEF Index, Move, vars, process, Progress, Passed
<1>8. CASE Kill
  BY <1>8 DEF Kill, Progress, Asking, NoAnswers
<1>9. CASE Sits
  BY <1>9, SitsStand DEF Progress, Passed
<1> QED BY <1>1, <1>2, <1>3, <1>4, <1>5, <1>6, <1>7, <1>8, <1>9 DEF Next, Step, Sits

(* What a step that is not an arm's turn does to the answers and their file:
   nothing, but for a death. *)
LEMMA FileStands ==
  ASSUME [Next]_vars, ~\E a \in Arms : Reuse(a) \/ File(a) \/ Raise(a)
  PROVE  raw' = raw /\ (answers' = answers \/ (phase' = "down" /\ answers' = NoAnswers))
BY SitsStand DEF Sits, Next, Step, Start, Seed, Write, Wait, Persist, Complete, Finish, Index, Move, Kill, vars, disk, process

(* The steps of the process that end or open an evaluation; any other leaves
   the era, and where it stands in it. *)
LEMMA PhaseCases ==
  ASSUME Types, Seated, [Next]_vars
  PROVE  \/ Start /\ phase' \in Working /\ stage' = "running" /\ ended' = ended
            /\ resumed' = (stage = "running")
         \/ Complete /\ phase' = "finish" /\ stage' = "completed" /\ ended' = ended + 1
            /\ phase = "mark" /\ UNCHANGED <<resumed, recorded, answers, raw, result>>
         \/ /\ UNCHANGED <<stage, ended, resumed>>
            /\ \/ phase' = "down" /\ recorded' = NoAnswers /\ answers' = NoAnswers
                  /\ UNCHANGED <<raw, result>>
               \/ phase = "finish" /\ phase' = "exited" /\ UNCHANGED <<answers, recorded, raw, result>>
               \/ phase \in Working /\ phase' \in Working /\ UNCHANGED recorded
                  /\ (result' = result \/ phase = "persist")
               \/ phase' = phase /\ UNCHANGED <<recorded, answers, raw, result>>
<1> USE DEF Working
<1>1. CASE Start
  BY <1>1 DEF Start, Enter
<1>2. CASE Complete
  BY <1>2 DEF Complete
<1>3. CASE Seed \/ Write \/ Wait \/ Persist
  BY <1>3 DEF Seed, Write, Wait, Persist, Enter, disk, bounds, history
<1>4. CASE Finish
  BY <1>4 DEF Finish, disk, bounds, history
<1>5. ASSUME NEW a \in Arms, Reuse(a) \/ File(a) \/ Raise(a)
      PROVE  /\ UNCHANGED <<stage, ended, resumed, recorded, result>>
             /\ phase \in Working /\ phase' \in Working
  <2>1. PICK ans \in Rows : Gives(a, ans)
    BY <1>5, AnswerCases
  <2>2. phase \in Asking /\ phase' \in {phase, "seed", "persist"}
    BY <2>1, OnwardCases DEF Gives, Given
  <2> QED BY <2>1, <2>2 DEF Gives, Given, Asking
<1>6. CASE Index \/ Move \/ UNCHANGED vars
  BY <1>6 DEF Index, Move, vars, process, disk, bounds, history
<1>7. CASE Kill
  BY <1>7 DEF Kill, disk
<1>8. CASE Sits
  BY <1>8, SitsStand
<1> QED BY <1>1, <1>2, <1>3, <1>4, <1>5, <1>6, <1>7, <1>8 DEF Next, Step, Sits

LEMMA ErasInv == Types /\ Progress /\ Seated /\ Eras /\ [Next]_vars => Eras'
<1> SUFFICES ASSUME Types, Progress, Seated, Eras, [Next]_vars PROVE Eras'
  OBVIOUS
<1>1. /\ phase' \in Working => stage' = "running"
      /\ phase' \in Closed => stage' = "completed"
  BY PhaseCases DEF Eras, Working, Closed
<1>2. ended \in Nat /\ ended' \in {ended, ended + 1}
  BY PhaseCases DEF Types
<1>3. CASE \E a \in Arms : Reuse(a) \/ File(a) \/ Raise(a)
  <2>1. PICK a \in Arms : Reuse(a) \/ File(a) \/ Raise(a)
    BY <1>3
  <2>2. PICK ans \in Rows : Gives(a, ans)
    BY <2>1, AnswerCases
  <2>3. phase \in Working /\ stage = "running" /\ stage' = stage /\ ended' = ended
    BY <2>2, OnwardCases DEF Gives, Given, Asking, Working, Eras
  <2>4. \A k \in Keys : \A i \in DOMAIN raw'[k] : raw'[k][i].take = i /\ raw'[k][i].era <= ended
    <3>1. CASE raw' = raw
      BY <3>1 DEF Eras
    <3>2. CASE Taken(a, ans)
      <4>1. KeyOf(a) \in Keys /\ raw' = [raw EXCEPT ![KeyOf(a)] = Append(@, ans)]
        BY <2>1, <3>2, AnswerCases DEF Taken
      <4>2. SUFFICES ASSUME NEW k \in Keys, NEW i \in DOMAIN raw'[k]
                     PROVE  raw'[k][i].take = i /\ raw'[k][i].era <= ended
        OBVIOUS
      <4>3. CASE k # KeyOf(a)
        BY <4>1, <4>3 DEF Eras, Types
      <4>4. CASE k = KeyOf(a)
        <5>1. /\ Len(raw'[k]) = Len(raw[k]) + 1 /\ raw'[k][Len(raw[k]) + 1] = ans
              /\ \A j \in 1..Len(raw[k]) : raw'[k][j] = raw[k][j]
              /\ raw' \in [Keys -> Seq(Rows)] /\ raw \in [Keys -> Seq(Rows)]
          BY <4>1, <4>4, Appended DEF Types
        <5>2. CASE i \in 1..Len(raw[k])
          BY <5>1, <5>2 DEF Eras
        <5>3. CASE i = Len(raw[k]) + 1
          BY <1>2, <3>2, <4>4, <5>1, <5>3 DEF Taken
        <5> QED BY <5>1, <5>2, <5>3
      <4> QED BY <4>3, <4>4
    <3> QED BY <2>2, <3>1, <3>2 DEF Gives, Reused, Missed
  <2> QED BY <1>1, <2>3, <2>4 DEF Eras
<1>4. CASE raw' = raw
  <2>1. SUFFICES ASSUME NEW k \in Keys, NEW i \in DOMAIN raw[k]
                 PROVE  /\ raw[k][i].take = i /\ raw[k][i].era <= ended'
                        /\ stage' # "running" => raw[k][i].era < ended'
    BY <1>1, <1>4 DEF Eras
  <2>2. raw[k][i].era \in Nat
    <3>1. raw[k] \in Seq(Rows) /\ i \in 1..Len(raw[k])
      BY DEF Types
    <3>2. raw[k][i] \in Rows
      BY <3>1
    <3> QED BY <3>2 DEF Rows
  <2>3. raw[k][i].take = i /\ raw[k][i].era <= ended /\ (stage # "running" => raw[k][i].era < ended)
    BY DEF Eras
  <2>4. stage' # "running" => (stage # "running" /\ ended' = ended) \/ ended' = ended + 1
    BY PhaseCases
  <2> QED BY <1>2, <2>2, <2>3, <2>4
<1> QED BY <1>3, <1>4, FileStands

LEMMA OnceInv == Types /\ Progress /\ Seated /\ Eras /\ Once /\ [Next]_vars => Once'
<1> SUFFICES ASSUME Types, Progress, Seated, Eras, Once, [Next]_vars, StoreText, NEW k \in Keys
             PROVE  /\ \A i, j \in Usable(k)' : raw'[k][i].era = raw'[k][j].era => i = j
                    /\ phase' \in Working /\ answers'[k] = Nothing /\ recorded'[k] = Nothing
                         => \A i \in Usable(k)' : raw'[k][i].era < ended'
  BY DEF Once
<1>0. /\ \A i, j \in Usable(k) : raw[k][i].era = raw[k][j].era => i = j
      /\ phase \in Working /\ answers[k] = Nothing /\ recorded[k] = Nothing
           => \A i \in Usable(k) : raw[k][i].era < ended
  BY DEF Once
<1>1. CASE \E a \in Arms : Reuse(a) \/ File(a) \/ Raise(a)
  <2>1. PICK a \in Arms : Reuse(a) \/ File(a) \/ Raise(a)
    BY <1>1
  <2>2. PICK ans \in Rows : Gives(a, ans)
    BY <2>1, AnswerCases
  <2>3. /\ phase \in Working /\ ended' = ended /\ recorded' = recorded
        /\ KeyOf(a) \in Keys /\ answers[KeyOf(a)] = Nothing
        /\ answers' = [answers EXCEPT ![KeyOf(a)] = ans] /\ ans # Nothing
    BY <2>2, TurnIsOpen, OnwardCases DEF Gives, Given, Asking, Working, Rows, Statuses, Nothing
  <2>4. answers'[k] = Nothing => answers[k] = Nothing /\ k # KeyOf(a)
    BY <2>3 DEF Types
  <2>5. CASE raw' = raw
    <3>1. Usable(k)' = Usable(k)
      BY <2>5 DEF Usable
    <3> QED BY <1>0, <2>3, <2>4, <2>5, <3>1
  <2>6. CASE Taken(a, ans)
    <3>1. raw' = [raw EXCEPT ![KeyOf(a)] = Append(@, ans)] /\ recorded[KeyOf(a)] = Nothing
          /\ ans.era = ended
      BY <2>6 DEF Taken
    <3>2. CASE k # KeyOf(a)
      <4>1. Usable(k)' = Usable(k) /\ raw'[k] = raw[k]
        BY <2>3, <3>1, <3>2, Appended DEF Types
      <4> QED BY <1>0, <2>3, <2>4, <4>1
    <3>3. CASE k = KeyOf(a)
      <4>1. \A i \in Usable(k) : i \in 1..Len(raw[k]) /\ raw[k][i].era < ended
        BY <1>0, <2>3, <3>1, <3>3, ReusableFacts DEF Types
      <4>2. /\ Usable(k)' = Usable(k) \/ Usable(k)' = Usable(k) \cup {Len(raw[k]) + 1}
            /\ raw'[k][Len(raw[k]) + 1] = ans
            /\ \A i \in 1..Len(raw[k]) : raw'[k][i] = raw[k][i]
        BY <2>3, <3>1, <3>3, Appended DEF Types
      <4>3. ended \in Nat /\ Len(raw[k]) \in Nat
        BY DEF Types
      <4>4. \A i \in Usable(k)' : \/ i \in Usable(k) /\ raw'[k][i].era = raw[k][i].era
                                     /\ raw'[k][i].era < ended
                                  \/ i = Len(raw[k]) + 1 /\ raw'[k][i].era = ended
        BY <3>1, <4>1, <4>2
      <4>5. \A i, j \in Usable(k)' : raw'[k][i].era = raw'[k][j].era => i = j
        BY <1>0, <4>3, <4>4
      <4> QED BY <2>4, <3>3, <4>5
    <3> QED BY <3>2, <3>3
  <2> QED BY <2>2, <2>5, <2>6 DEF Gives, Reused, Missed
<1>2. CASE ~\E a \in Arms : Reuse(a) \/ File(a) \/ Raise(a)
  <2>1. raw' = raw /\ Usable(k)' = Usable(k)
    BY <1>2, FileStands DEF Usable
  <2>2. CASE Start
    <3>1. stage # "running" => \A i \in Usable(k) : raw[k][i].era < ended
      BY DEF Eras, Usable
    <3>2. stage = "running" /\ recorded'[k] = Nothing => Usable(k) = {}
      <4>1. stage = "running" => recorded'[k] = Reusable(k)
        BY <2>2 DEF Start, Resumed
      <4> QED BY <4>1, ReusableFacts DEF Types
    <3>3. ended' = ended
      BY <2>2 DEF Start
    <3> QED BY <1>0, <2>1, <3>1, <3>2, <3>3
  <2>3. CASE phase' \in Working /\ ~Start
    <3>1. phase \in Working /\ recorded' = recorded /\ ended' = ended
      BY <2>3, PhaseCases DEF Working
    <3>2. answers' = answers
      BY <1>2, <2>3, FileStands DEF Working
    <3> QED BY <1>0, <2>1, <3>1, <3>2
  <2>4. CASE phase' \notin Working
    BY <1>0, <2>1, <2>4
  <2> QED BY <2>2, <2>3, <2>4
<1> QED BY <1>1, <1>2

LEMMA FiledInv == Types /\ Progress /\ Seated /\ Eras /\ Filed /\ [Next]_vars => Filed'
<1> SUFFICES ASSUME Types, Progress, Seated, Eras, Filed, [Next]_vars PROVE Filed'
  OBVIOUS
<1>0. /\ \A k \in Keys : answers[k] # Nothing => OnFile(answers[k], k) /\ (resumed \/ answers[k].era = Era)
      /\ \A k \in Keys : recorded[k] # Nothing => StoreText /\ resumed /\ recorded[k] = Reusable(k)
  BY DEF Filed
<1>1. CASE \E a \in Arms : Reuse(a) \/ File(a) \/ Raise(a)
  <2>1. PICK a \in Arms : Reuse(a) \/ File(a) \/ Raise(a)
    BY <1>1
  <2>2. PICK ans \in Rows : Gives(a, ans)
    BY <2>1, AnswerCases
  <2>0. PICK K \in Keys : K = KeyOf(a)
    BY <2>1, AnswerCases
  <2>3. /\ phase \in Working \ {"mark"} /\ phase' \in Working \ {"mark"}
        /\ UNCHANGED <<ended, resumed, recorded, result>>
        /\ answers' = [answers EXCEPT ![K] = ans]
    BY <2>0, <2>2, OnwardCases DEF Gives, Given, Asking, Working
  <2>4. Era = ended /\ Era' = ended
    BY <2>3 DEF Era, Working, Closed
  <2>5. ASSUME NEW k \in Keys, k # K \/ recorded[K] # Nothing
        PROVE  raw'[k] = raw[k] /\ Reusable(k)' = Reusable(k)
    <3>1. CASE raw' = raw
      BY <3>1 DEF Reusable, Usable
    <3>2. CASE Taken(a, ans)
      BY <2>0, <2>5, <3>2, Appended DEF Taken, Types
    <3> QED BY <2>2, <3>1, <3>2 DEF Gives, Reused, Missed
  <2>6. OnFile(ans, K)' /\ (resumed \/ ans.era = ended)
    <3>1. CASE Reused(a, ans)
      <4>1. ans = recorded[K] /\ ans # Nothing
        BY <2>0, <3>1 DEF Reused
      <4>2. StoreText /\ resumed /\ ans = Reusable(K)
        BY <1>0, <4>1
      <4>3. Reusable(K)' = Reusable(K)
        BY <2>5, <4>1
      <4> QED BY <4>2, <4>3 DEF OnFile
    <3>2. CASE Taken(a, ans)
      <4>1. raw' = [raw EXCEPT ![K] = Append(@, ans)] /\ ans.era = ended
        BY <2>0, <3>2 DEF Taken
      <4>2. /\ raw'[K][Len(raw'[K])] = ans
            /\ ans.status # "failed" => Reusable(K)' = ans
        <5>1. /\ Len(raw'[K]) = Len(raw[K]) + 1 /\ raw'[K][Len(raw[K]) + 1] = ans
              /\ ans.status # "failed" => Reusable(K)' = ans
          BY <2>2, <4>1, Appended DEF Types
        <5> QED BY <5>1
      <4> QED BY <4>1, <4>2 DEF OnFile
    <3>3. CASE Missed(a, ans)
      BY <3>3 DEF Missed, OnFile
    <3> QED BY <2>2, <3>1, <3>2, <3>3 DEF Gives
  <2>7. ASSUME NEW k \in Keys, answers'[k] # Nothing
        PROVE  OnFile(answers[k], k)' /\ (resumed' \/ answers'[k].era = Era')
    <3>1. CASE k = K
      <4>1. answers'[k] = ans
        BY <2>3, <3>1 DEF Types
      <4>2. OnFile(answers[k], k)' <=> OnFile(ans, K)'
        BY <3>1, <4>1 DEF OnFile
      <4> QED BY <2>3, <2>4, <2>6, <4>1, <4>2
    <3>2. CASE k # K
      <4>1. answers'[k] = answers[k]
        BY <2>3, <3>2 DEF Types
      <4>2. OnFile(answers[k], k) /\ (resumed \/ answers[k].era = ended)
        BY <1>0, <2>4, <2>7, <4>1
      <4> QED BY <2>3, <2>4, <2>5, <3>2, <4>1, <4>2 DEF OnFile
    <3> QED BY <3>1, <3>2
  <2>8. \A k \in Keys : recorded'[k] # Nothing => StoreText /\ resumed' /\ recorded'[k] = Reusable(k)'
    <3> SUFFICES ASSUME NEW k \in Keys, recorded[k] # Nothing
                 PROVE  StoreText /\ resumed /\ recorded[k] = Reusable(k)'
      BY <2>3
    <3>1. k # K \/ recorded[K] # Nothing
      OBVIOUS
    <3> QED BY <1>0, <2>5, <3>1
  <2> QED BY <2>3, <2>7, <2>8 DEF Filed, Working, Closed
<1>2. CASE ~\E a \in Arms : Reuse(a) \/ File(a) \/ Raise(a)
  <2>1. raw' = raw /\ (answers' = answers \/ answers' = NoAnswers)
    BY <1>2, FileStands
  <2>2. \A k \in Keys : Reusable(k)' = Reusable(k)
    BY <2>1 DEF Reusable, Usable
  <2>3. ASSUME NEW k \in Keys, answers'[k] # Nothing
        PROVE  OnFile(answers[k], k)' /\ (resumed' \/ answers'[k].era = Era')
    <3>1. answers'[k] = answers[k]
      BY <2>1, <2>3 DEF NoAnswers
    <3>2. OnFile(answers[k], k)'
      BY <1>0, <2>1, <2>2, <2>3, <3>1 DEF OnFile
    <3>3. resumed \/ answers[k].era = Era
      BY <1>0, <2>3, <3>1
    <3>4. phase # "down"
      BY <2>3, <3>1 DEF Progress, NoAnswers
    <3>5. ended \in Nat /\ (phase \in Working \/ phase \in Closed)
      BY <3>4 DEF Types, Working, Closed
    <3>6. resumed' = resumed /\ Era' = Era
      <4>1. CASE phase' = "down"
        BY <2>3, <3>4, <4>1, PhaseCases DEF NoAnswers, Working
      <4>2. CASE phase' # "down"
        BY <3>4, <3>5, <4>2, PhaseCases DEF Era, Working, Closed, Start
      <4> QED BY <4>1, <4>2
    <3> QED BY <3>1, <3>2, <3>3, <3>6
  <2>4. ASSUME NEW k \in Keys, recorded'[k] # Nothing
        PROVE  StoreText /\ resumed' /\ recorded'[k] = Reusable(k)'
    <3>1. CASE Start
      BY <2>2, <2>4, <3>1 DEF Start, Resumed
    <3>2. CASE ~Start
      <4>1. recorded'[k] = recorded[k] /\ resumed' = resumed
        BY <2>4, <3>2, PhaseCases DEF NoAnswers
      <4> QED BY <1>0, <2>2, <2>4, <4>1
    <3> QED BY <3>1, <3>2
  <2>5. phase' \in {"mark"} \cup Closed => result' # Nothing /\ result'.answers = answers'
    <3>1. CASE Persist
      <4>1. result' = [answers |-> answers, gate |-> drifted \subseteq {"memory"},
                       seeded |-> written, stated |-> confirmed \notin {"none", "indexed"},
                       reused |-> {k \in Keys : recorded[k] # Nothing}]
            /\ answers' = answers
        BY <3>1 DEF Persist
      <4> QED BY <4>1 DEF Nothing
    <3>2. CASE ~Persist /\ phase' \in {"mark"} \cup Closed
      <4>1. phase \in {"mark"} \cup Closed /\ UNCHANGED <<result, answers>>
        BY <1>2, <3>2, SitsStand DEF Sits, Next, Step, Start, Seed, Write, Wait, Complete, Finish, Index, Move, Kill,
              vars, disk, process, Closed, Enter
      <4> QED BY <4>1 DEF Filed
    <3> QED BY <3>1, <3>2
  <2> QED BY <2>3, <2>4, <2>5 DEF Filed
<1> QED BY <1>1, <1>2

(* What a completed evaluation says stands until the next is started. *)
LEMMA ResultInv ==
  Types /\ Progress /\ Seated /\ Eras /\ Filed /\ ResultOnFile /\ [Next]_vars => ResultOnFile'
<1> SUFFICES ASSUME Types, Progress, Seated, Eras, Filed, ResultOnFile, [Next]_vars, stage' = "completed",
                    NEW k \in Keys
             PROVE  /\ result'.answers[k] # Nothing
                    /\ resumed' \/ result'.answers[k].era = ended' - 1
                    /\ \/ result'.answers[k].status = "failed"
                       \/ StoreText /\ result'.answers[k] = Reusable(k)'
                       \/ ~StoreText /\ result'.answers[k] = raw'[k][Len(raw'[k])]
  BY DEF ResultOnFile
<1>1. CASE phase = "mark"
  <2>1. /\ ended' = ended + 1 /\ UNCHANGED <<resumed, answers, raw, result>>
    BY <1>1, PhaseCases DEF Start, Eras, Working
  <2>2. result.answers = answers /\ answers[k] # Nothing /\ OnFile(answers[k], k)
        /\ (resumed \/ answers[k].era = ended)
    BY <1>1 DEF Progress, Filed, Era, Closed
  <2>3. Reusable(k)' = Reusable(k) /\ ended \in Nat
    BY <2>1 DEF Reusable, Usable, Types
  <2> QED BY <2>1, <2>2, <2>3 DEF OnFile
<1>2. CASE phase # "mark"
  <2>1. stage = "completed" /\ UNCHANGED <<ended, resumed, raw, result>>
    BY <1>2, PhaseCases DEF Eras, Working
  <2>2. Reusable(k)' = Reusable(k)
    BY <2>1 DEF Reusable, Usable
  <2> QED BY <2>1, <2>2 DEF ResultOnFile
<1> QED BY <1>1, <1>2

(* A row that is on file stays where it is. *)
LEMMA FileGrows ==
  ASSUME Types, Seated, [Next]_vars, NEW k \in Keys, NEW i \in DOMAIN raw[k]
  PROVE  i \in DOMAIN raw'[k] /\ raw'[k][i] = raw[k][i]
<1>1. CASE raw' = raw
  BY <1>1
<1>2. CASE \E a \in Arms, ans \in Rows : KeyOf(a) \in Keys /\ Taken(a, ans)
  <2>1. PICK a \in Arms, ans \in Rows : KeyOf(a) \in Keys /\ Taken(a, ans)
    BY <1>2
  <2>2. PICK K \in Keys : K = KeyOf(a)
    BY <2>1
  <2>3. raw' = [raw EXCEPT ![K] = Append(@, ans)]
    BY <2>1, <2>2 DEF Taken
  <2>4. CASE k # K
    BY <2>3, <2>4 DEF Types
  <2>5. CASE k = K
    <3>1. raw[k] \in Seq(Rows) /\ raw'[k] = Append(raw[k], ans) /\ ans \in Rows
      BY <2>1, <2>3, <2>5 DEF Types
    <3> QED BY <3>1
  <2> QED BY <2>4, <2>5
<1>3. CASE \E a \in Arms : Reuse(a) \/ File(a) \/ Raise(a)
  BY <1>1, <1>2, <1>3, AnswerCases DEF Gives, Reused, Missed
<1> QED BY <1>1, <1>3, FileStands

(* An answer whose proofs are taught is on file with them. *)
LEMMA SourcedInv == Types /\ Progress /\ Seated /\ Eras /\ Filed /\ Sourced /\ [Next]_vars => Sourced'
<1> SUFFICES ASSUME Types, Progress, Seated, Eras, Filed, Sourced, [Next]_vars PROVE Sourced'
  OBVIOUS
<1>1. ASSUME NEW k \in Keys, answers'[k] # Nothing, answers'[k].proves # {}
      PROVE  /\ answers'[k].take \in DOMAIN raw'[k]
             /\ raw'[k][answers'[k].take].proves = answers'[k].proves
  <2>1. CASE answers'[k] = answers[k]
    <3>1. /\ answers[k].take \in DOMAIN raw[k]
          /\ raw[k][answers[k].take].proves = answers[k].proves
      BY <1>1, <2>1 DEF Sourced
    <3> QED BY <2>1, <3>1, FileGrows
  <2>2. CASE answers'[k] # answers[k]
    <3>1. PICK a \in Arms : Reuse(a) \/ File(a) \/ Raise(a)
      BY <1>1, <2>2, FileStands DEF NoAnswers
    <3>2. PICK ans \in Rows : Gives(a, ans)
      BY <3>1, AnswerCases
    <3>3. k = KeyOf(a) /\ answers'[k] = ans
      BY <2>2, <3>1, <3>2, AnswerCases DEF Gives, Given, Types
    <3>4. CASE Reused(a, ans)
      <4>1. ans = recorded[k] /\ ans # Nothing /\ raw' = raw
        BY <3>3, <3>4 DEF Reused
      <4>2. ans = Reusable(k)
        BY <4>1 DEF Filed
      <4>3. PICK i \in Usable(k) : ans = raw[k][i]
        BY <4>1, <4>2, ReusableFacts DEF Types
      <4>4. i \in DOMAIN raw[k] /\ raw[k][i].take = i
        BY <4>3 DEF Eras, Usable
      <4> QED BY <3>3, <4>1, <4>3, <4>4
    <3>5. CASE Taken(a, ans)
      <4>1. raw' = [raw EXCEPT ![k] = Append(@, ans)] /\ ans.take = Len(raw[k]) + 1
        BY <3>3, <3>5 DEF Taken
      <4>2. /\ raw' \in [Keys -> Seq(Rows)] /\ Len(raw'[k]) = Len(raw[k]) + 1
            /\ raw'[k][Len(raw[k]) + 1] = ans
        BY <3>2, <4>1, Appended DEF Types
      <4>3. Len(raw[k]) + 1 \in DOMAIN raw'[k]
        BY <4>2 DEF Types
      <4> QED BY <3>3, <4>1, <4>2, <4>3
    <3>6. CASE Missed(a, ans)
      BY <1>1, <3>3, <3>6 DEF Missed
    <3> QED BY <3>2, <3>4, <3>5, <3>6 DEF Gives
  <2> QED BY <2>1, <2>2
<1>2. ASSUME NEW m \in memory \cup toSeed PROVE Rests(m)'
  <2>1. Rests(m)
    BY <1>2 DEF Sourced
  <2>2. <<"P0", m[1], 1>> \in Keys
    <3>1. m[1] \in Asked /\ "P0" \in Arms /\ 1 \in 1..Repetitions
      BY <2>1, EvaluationAssumption DEF Rests
    <3> QED BY <3>1 DEF Keys
  <2> QED BY <2>1, <2>2, FileGrows DEF Rests
<1>3. CASE Seed
  <2>1. ASSUME NEW m \in Proven PROVE Rests(m)'
    <3>1. PICK p \in (Learned \ Forbidden) \X Kinds :
             /\ m = <<p[1], p[2], answers[<<"P0", p[1], 1>>].take>>
             /\ "P0" \in Arms /\ p[2] \in answers[<<"P0", p[1], 1>>].proves
      BY DEF Proven
    <3> DEFINE k == <<"P0", p[1], 1>>
    <3>2. k \in Keys /\ k[1] \in First1
      <4>1. p[1] \in Asked /\ 1 \in 1..Repetitions
        BY EvaluationAssumption
      <4> QED BY <3>1, <4>1 DEF Keys, First1, Group
    <3>3. answers[k] # Nothing
      BY <1>3, <3>2 DEF Progress, Seed
    <3>4. answers[k].take \in DOMAIN raw[k] /\ raw[k][answers[k].take].proves = answers[k].proves
      BY <3>1, <3>2, <3>3 DEF Sourced
    <3>5. UNCHANGED raw
      BY <1>3 DEF Seed, disk
    <3>6. m[1] = p[1] /\ m[2] = p[2] /\ m[3] = answers[k].take
      BY <3>1
    <3> QED BY <3>1, <3>4, <3>5, <3>6 DEF Rests
  <2>2. memory' \cup toSeed' \subseteq memory \cup Proven
    BY <1>3 DEF Seed, region
  <2> QED BY <1>1, <1>2, <2>1, <2>2 DEF Sourced
<1>4. CASE ~Seed
  <2>1. memory' \cup toSeed' \subseteq memory \cup toSeed
    <3>1. CASE Write
      BY <3>1 DEF Write, Store
    <3>2. CASE \E a \in Arms : Reuse(a) \/ File(a) \/ Raise(a)
      BY <3>2, AnswerCases DEF Gives, Given
    <3>3. CASE Start \/ Wait \/ Persist \/ Complete \/ Finish \/ Index \/ Move \/ Kill \/ UNCHANGED vars
      BY <3>3 DEF Start, Wait, Persist, Complete, Finish, Index, Move, Kill, vars, process, region
    <3>4. CASE Sits
      BY <3>4, SitsStand
    <3> QED BY <1>4, <3>1, <3>2, <3>3, <3>4 DEF Next, Step, Sits
  <2> QED BY <1>1, <1>2, <2>1 DEF Sourced
<1> QED BY <1>3, <1>4

(* Only a sitting arm keeps its session. *)
LEMMA SeatedInv == Types /\ Seated /\ [Next]_vars => Seated'
<1> SUFFICES ASSUME Types, Seated, [Next]_vars, session' # Nothing, NEW a, session'.arm = a
             PROVE  /\ Turn(a)' /\ recorded'[KeyOf(a)'] = Nothing
                    /\ Pinning /\ a = "P0" => \A v \in session'.found : Pure(v)
  BY DEF Seated
<1>1. CASE Sits
  <2>1. UNCHANGED <<phase, cell, left, recorded>>
    BY <1>1, SitsStand
  <2>2. Turn(a) /\ recorded[KeyOf(a)] = Nothing
    BY <1>1, SessionCases DEF Seated
  <2>3. Turn(a)' /\ KeyOf(a)' = KeyOf(a)
    BY <2>1, <2>2 DEF Turn, KeyOf
  <2>5. ASSUME Pinning, a = "P0", NEW v \in session'.found PROVE Pure(v)
    <3>1. CASE session # Nothing /\ v \in session.found
      <4>1. session.arm = "P0"
        BY <1>1, <2>5, <3>1, SessionCases
      <4> QED BY <2>5, <3>1, <4>1 DEF Seated
    <3>2. CASE v = View("P0") /\ ~Refused("P0")
      BY <2>5, <3>2 DEF Pure, View, Refused, Moved
    <3> QED BY <1>1, <2>5, <3>1, <3>2, SessionCases
  <2> QED BY <2>1, <2>2, <2>3, <2>5
<1>2. CASE UNCHANGED <<phase, cell, left, session, recorded>>
  <2>1. Turn(a) /\ recorded[KeyOf(a)] = Nothing
    BY <1>2 DEF Seated
  <2>2. Turn(a)' /\ KeyOf(a)' = KeyOf(a)
    BY <1>2, <2>1 DEF Turn, KeyOf
  <2> QED BY <1>2, <2>1, <2>2 DEF Seated
<1>3. CASE phase \notin Asking
  <2>1. session = Nothing
    BY <1>3 DEF Seated, Turn, Asking
  <2>2. session' = session \/ Sits
    <3>1. CASE \E b \in Arms : Reuse(b) \/ File(b) \/ Raise(b)
      BY <2>1, <3>1 DEF Reuse, File, Raise, InHand
    <3>2. CASE Start \/ Seed \/ Write \/ Wait \/ Persist \/ Complete \/ Finish \/ Index \/ Move \/ Kill
               \/ UNCHANGED vars
      BY <2>1, <3>2 DEF Start, Seed, Write, Wait, Persist, Complete, Finish, Index, Move, Kill, vars, process
    <3> QED BY <3>1, <3>2 DEF Next, Step, Sits
  <2> QED BY <1>1, <2>1, <2>2
<1>4. CASE phase \in Asking /\ ~Sits
  <2>1. \/ session' = Nothing
        \/ UNCHANGED <<phase, cell, left, session, recorded>>
    <3>1. CASE \E b \in Arms : Reuse(b) \/ File(b) \/ Raise(b)
      BY <3>1, AnswerCases DEF Gives, Given
    <3>2. CASE Kill \/ Index \/ Move \/ UNCHANGED vars
      BY <3>2 DEF Kill, Index, Move, vars, process
    <3>3. ~(Start \/ Seed \/ Write \/ Wait \/ Persist \/ Complete \/ Finish)
      BY <1>4 DEF Start, Seed, Write, Wait, Persist, Complete, Finish, Asking
    <3> QED BY <1>4, <3>1, <3>2, <3>3 DEF Next, Step, Sits
  <2> QED BY <1>2, <2>1
<1> QED BY <1>1, <1>3, <1>4

(* The region's corpus only moves on, and keeps its memory. *)
LEMMA RegionGrows ==
  ASSUME Types, Seated, [Next]_vars
  PROVE  corpus \in Nat /\ corpus' \in Nat /\ corpus <= corpus' /\ memory \subseteq memory'
<1>1. CASE Write
  BY <1>1 DEF Write, Store, Types
<1>2. CASE Move
  BY <1>2 DEF Move, Types
<1>3. CASE \E a \in Arms : Reuse(a) \/ File(a) \/ Raise(a)
  BY <1>3, AnswerCases DEF Gives, Given, Types
<1>4. CASE Sits
  BY <1>4, SitsStand DEF Types
<1>5. CASE Start \/ Seed \/ Wait \/ Persist \/ Complete \/ Finish \/ Index \/ Kill \/ UNCHANGED vars
  BY <1>5 DEF Start, Seed, Wait, Persist, Complete, Finish, Index, Kill, vars, region, Types
<1> QED BY <1>1, <1>2, <1>3, <1>4, <1>5 DEF Next, Step, Sits

(* What was no later than the region is not later than what comes of it. *)
LEMMA DatedStays ==
  ASSUME Types, Seated, [Next]_vars, NEW v \in Views, Dated(v)
  PROVE  v.corpus <= corpus' /\ (v.taught => memory' # {})
<1>1. v.corpus \in Nat
  BY DEF Views
<1> QED BY <1>1, RegionGrows DEF Dated

(* What is on file is no later than the region, nor is what is in hand. *)
LEMMA TimelyInv == Types /\ Seated /\ Timely /\ [Next]_vars => Timely'
<1> SUFFICES ASSUME Types, Seated, Timely, [Next]_vars PROVE Timely'
  OBVIOUS
<1>0. corpus \in Nat /\ corpus' \in Nat /\ corpus <= corpus' /\ memory \subseteq memory'
  BY RegionGrows
<1>1. ASSUME NEW r \in Rows, Behind(r) PROVE Behind(r)'
  <2>1. r.read \in Nat /\ r.found \in SUBSET Views
    BY DEF Rows
  <2>2. \A v \in r.found : v.corpus <= corpus' /\ (v.taught => memory' # {})
    BY <1>1, <2>1, DatedStays DEF Behind
  <2>3. r.read <= corpus'
    BY <1>0, <1>1, <2>1 DEF Behind
  <2> QED BY <2>2, <2>3 DEF Behind, Dated
<1>2. ASSUME NEW k \in Keys, NEW i \in DOMAIN raw'[k] PROVE Behind(raw[k][i])'
  <2>1. CASE i \in DOMAIN raw[k]
    <3>1. raw'[k][i] = raw[k][i] /\ Behind(raw[k][i])
      BY <2>1, FileGrows DEF Timely
    <3>2. raw[k][i] \in Rows
      BY <2>1 DEF Types
    <3> DEFINE r == raw[k][i]
    <3>3. Behind(r)'
      BY <1>1, <3>1, <3>2
    <3> QED BY <3>1, <3>3 DEF Behind, Dated
  <2>2. CASE i \notin DOMAIN raw[k]
    <3>1. PICK a \in Arms : Reuse(a) \/ File(a) \/ Raise(a)
      BY <2>2, FileStands
    <3>2. PICK ans \in Rows : Gives(a, ans)
      BY <3>1, AnswerCases
    <3>3. Taken(a, ans)
      BY <2>2, <3>2 DEF Gives, Reused, Missed
    <3>4. PICK K \in Keys : K = KeyOf(a)
      BY <3>1, AnswerCases
    <3>5. raw' = [raw EXCEPT ![K] = Append(@, ans)]
      BY <3>3, <3>4 DEF Taken
    <3>6. k = K
      BY <2>2, <3>5 DEF Types
    <3>7. raw'[k][i] = ans
      <4>1. raw[k] \in Seq(Rows) /\ raw'[k] = Append(raw[k], ans)
        BY <3>2, <3>5, <3>6 DEF Types
      <4> QED BY <2>2, <3>2, <4>1
    <3>8. Behind(ans)
      BY <3>3 DEF Taken, Timely, Behind
    <3>9. Behind(ans)'
      BY <1>1, <3>8
    <3> QED BY <3>7, <3>9 DEF Behind, Dated
  <2> QED BY <2>1, <2>2
<1>3. ASSUME session' # Nothing
      PROVE  /\ \A v \in session'.found : v.corpus <= corpus' /\ (v.taught => memory' # {})
             /\ session'.said # Nothing => session'.said.read <= corpus'
  <2>1. CASE Sits
    <3>1. UNCHANGED <<corpus, memory>>
      BY <2>1, SitsStand
    <3>2. \A a \in Arms : Dated(View(a))
      <4> SUFFICES ASSUME NEW a \in Arms PROVE View(a).corpus <= corpus /\ (View(a).taught => memory # {})
        BY DEF Dated
      <4>1. View(a).corpus = corpus
        BY DEF View
      <4>2. (memory # {}) \in BOOLEAN
        OBVIOUS
      <4>3. View(a).taught = (memory # {})
        BY Zenon DEF View
      <4>4. View(a).corpus <= corpus
        BY <1>0, <4>1
      <4> QED BY ONLY <4>3, <4>4, Zenon
    <3>3. session # Nothing => session.arm \in Arms
      BY DEF Types, Sessions
    <3>4. \A v \in session'.found : Dated(v)
      BY <2>1, <3>2, <3>3, SessionCases DEF Timely
    <3>5. session'.said # Nothing => session'.said.read <= corpus
      BY <1>0, <2>1, SessionCases DEF Timely
    <3> QED BY <3>1, <3>4, <3>5 DEF Dated
  <2>2. CASE ~Sits
    <3>1. session' = session
      <4>1. CASE \E a \in Arms : Reuse(a) \/ File(a) \/ Raise(a)
        BY <1>3, <4>1, AnswerCases DEF Gives, Given
      <4>2. CASE Start \/ Seed \/ Write \/ Wait \/ Persist \/ Complete \/ Finish \/ Index \/ Move \/ Kill
                 \/ UNCHANGED vars
        BY <1>3, <4>2 DEF Start, Seed, Write, Wait, Persist, Complete, Finish, Index, Move, Kill, vars, process
      <4> QED BY <2>2, <4>1, <4>2 DEF Next, Step, Sits
    <3>2. session \in Sessions
      BY <1>3, <3>1 DEF Types
    <3>3. session.found \in SUBSET Views
      BY <3>2 DEF Sessions
    <3>4. session.said # Nothing => session.said.read \in Nat /\ session.said.read <= corpus
      <4>1. session.said \in Said \cup {Nothing}
        BY <3>2 DEF Sessions
      <4> QED BY <1>3, <3>1, <4>1 DEF Timely, Said
    <3>5. \A v \in session.found : Dated(v)
      BY <1>3, <3>1 DEF Timely
    <3>6. \A v \in session.found : v.corpus <= corpus' /\ (v.taught => memory' # {})
      BY <3>3, <3>5, DatedStays
    <3> QED BY <1>0, <3>1, <3>4, <3>6
  <2> QED BY <2>1, <2>2
<1> QED BY <1>2, <1>3 DEF Timely, Dated

(* What a resumed evaluation took over was asked of the sealed region, if the
   region had not moved when it was started. *)
LEMMA GuardedInv == Types /\ Seated /\ Progress /\ Timely /\ Guarded /\ [Next]_vars => Guarded'
<1> SUFFICES ASSUME Types, Seated, Progress, Timely, Guarded, [Next]_vars PROVE Guarded'
  OBVIOUS
<1>1. CASE Start
  <2>1. answers' = NoAnswers
    BY <1>1 DEF Start, Progress
  <2>2. ASSUME drifted' \subseteq {"memory"}, NEW k \in Keys, recorded'[k] # Nothing
        PROVE  Sealed(recorded'[k])
    <3>1. memory = {} /\ corpus = 0
      BY <1>1, <2>2 DEF Start, Moved
    <3>2. recorded'[k] = Reusable(k) /\ Reusable(k) # Nothing
      BY <1>1, <2>2 DEF Start, Resumed
    <3>3. PICK i \in Usable(k) : Reusable(k) = raw[k][i]
      BY <3>2, ReusableFacts DEF Types
    <3>4. Behind(raw[k][i]) /\ raw[k][i] \in Rows
      BY <3>3, ReusableFacts DEF Timely, Usable, Types
    <3> DEFINE r == raw[k][i]
    <3>5. r.read \in Nat /\ r.found \in SUBSET Views
      BY <3>4 DEF Rows
    <3>6. r.read = 0
      BY <3>1, <3>4, <3>5 DEF Behind
    <3>7. \A v \in r.found : v.corpus = 0 /\ ~v.taught
      <4> SUFFICES ASSUME NEW v \in r.found PROVE v.corpus = 0 /\ ~v.taught
        OBVIOUS
      <4>1. v.corpus \in Nat
        BY <3>5 DEF Views
      <4> QED BY <3>1, <3>4, <4>1 DEF Behind, Dated
    <3> QED BY <3>2, <3>3, <3>6, <3>7 DEF Sealed
  <2> QED BY <2>1, <2>2 DEF Guarded, NoAnswers
<1>2. CASE \E a \in Arms : Reuse(a) \/ File(a) \/ Raise(a)
  <2>1. PICK a \in Arms : Reuse(a) \/ File(a) \/ Raise(a)
    BY <1>2
  <2>2. PICK ans \in Rows : Gives(a, ans)
    BY <2>1, AnswerCases
  <2>3. PICK K \in Keys : K = KeyOf(a)
    BY <2>1, AnswerCases
  <2>4. UNCHANGED <<recorded, drifted>> /\ answers' = [answers EXCEPT ![K] = ans] /\ phase # "down"
    BY <2>2, <2>3, OnwardCases DEF Gives, Given, Asking
  <2>5. recorded[K] # Nothing => ans = recorded[K]
    BY <2>2, <2>3 DEF Gives, Reused, Taken, Missed
  <2>6. \A k \in Keys : recorded[k] # Nothing /\ answers'[k] # Nothing => answers'[k] = recorded[k]
    BY <2>4, <2>5 DEF Guarded, Types
  <2> QED BY <2>4, <2>6 DEF Guarded
<1>3. CASE Kill
  BY <1>3 DEF Kill, Guarded, NoAnswers
<1>4. CASE Sits
  BY <1>4, SitsStand DEF Guarded
<1>5. CASE Seed \/ Write \/ Wait \/ Persist \/ Complete \/ Finish \/ Index \/ Move \/ UNCHANGED vars
  <2>1. UNCHANGED <<recorded, answers, drifted>> /\ (phase' # "down" => phase # "down")
    BY <1>5 DEF Seed, Write, Wait, Persist, Complete, Finish, Index, Move, vars, process
  <2> QED BY <2>1 DEF Guarded
<1> QED BY <1>1, <1>2, <1>3, <1>4, <1>5 DEF Next, Step, Sits

(* P0's searches are of the sealed region, and what is scored under a gate
   that passed, and was taken over, is too. *)
LEMMA BaselineInv ==
  Types /\ Seated /\ Progress /\ Guarded /\ BaselineSealed /\ [Next]_vars => BaselineSealed'
<1> SUFFICES ASSUME Types, Seated, Progress, Guarded, BaselineSealed, [Next]_vars PROVE BaselineSealed'
  OBVIOUS
<1>1. ASSUME Pinning, NEW k \in Keys, k[1] = "P0", NEW i \in DOMAIN raw'[k], NEW v \in raw'[k][i].found
      PROVE  v.corpus = 0 /\ ~v.taught
  <2>1. CASE i \in DOMAIN raw[k]
    BY <1>1, <2>1, FileGrows DEF BaselineSealed
  <2>2. CASE i \notin DOMAIN raw[k]
    <3>1. PICK a \in Arms : Reuse(a) \/ File(a) \/ Raise(a)
      BY <2>2, FileStands
    <3>2. PICK ans \in Rows : Gives(a, ans)
      BY <3>1, AnswerCases
    <3>3. Taken(a, ans)
      BY <2>2, <3>2 DEF Gives, Reused, Missed
    <3>4. PICK K \in Keys : K = KeyOf(a) /\ K[1] = a
      BY CellsAreKeys DEF Types
    <3>5. raw' = [raw EXCEPT ![K] = Append(@, ans)]
      BY <3>3, <3>4 DEF Taken
    <3>6. k = K
      BY <2>2, <3>5 DEF Types
    <3>7. raw'[k][i] = ans
      <4>1. raw[k] \in Seq(Rows) /\ raw'[k] = Append(raw[k], ans)
        BY <3>2, <3>5, <3>6 DEF Types
      <4> QED BY <2>2, <3>2, <4>1
    <3>8. ans.found = session.found /\ session # Nothing /\ session.arm = "P0"
      BY <1>1, <3>3, <3>4, <3>6 DEF Taken
    <3> QED BY <1>1, <3>7, <3>8 DEF Seated, Pure
  <2> QED BY <2>1, <2>2
<1>2. ASSUME result' # Nothing, result'.gate, NEW k \in result'.reused
      PROVE  Sealed(result'.answers[k])
  <2>1. CASE Persist
    <3>1. result' = [answers |-> answers, gate |-> drifted \subseteq {"memory"},
                     seeded |-> written, stated |-> confirmed \notin {"none", "indexed"},
                     reused |-> {l \in Keys : recorded[l] # Nothing}] /\ phase = "persist"
      BY <2>1 DEF Persist
    <3>2. k \in Keys /\ recorded[k] # Nothing /\ drifted \subseteq {"memory"} /\ result'.answers = answers
      BY <1>2, <3>1
    <3>3. answers[k] # Nothing
      BY <3>1, <3>2 DEF Progress
    <3>4. answers[k] = recorded[k] /\ Sealed(recorded[k])
      BY <3>1, <3>2, <3>3 DEF Guarded
    <3> QED BY <3>2, <3>4
  <2>2. CASE ~Persist
    <3>1. result' = result
      <4>1. CASE \E a \in Arms : Reuse(a) \/ File(a) \/ Raise(a)
        BY <4>1, AnswerCases DEF Gives, Given
      <4>2. CASE Sits
        BY <4>2, SitsStand
      <4>3. CASE Start \/ Seed \/ Write \/ Wait \/ Complete \/ Finish \/ Index \/ Move \/ Kill \/ UNCHANGED vars
        BY <4>3 DEF Start, Seed, Write, Wait, Complete, Finish, Index, Move, Kill, vars, disk
      <4> QED BY <2>2, <4>1, <4>2, <4>3 DEF Next, Step, Sits
    <3> QED BY <1>2, <3>1 DEF BaselineSealed
  <2> QED BY <2>1, <2>2
<1>3. \A k \in Keys : k[1] = "P0" => (Pinning =>
        \A i \in DOMAIN raw'[k] : \A v \in raw'[k][i].found : v.corpus = 0 /\ ~v.taught)
  BY <1>1
<1>4. result' # Nothing /\ result'.gate => \A k \in result'.reused : Sealed(result'.answers[k])
  BY <1>2
<1> QED BY <1>3, <1>4 DEF BaselineSealed, Sealed

(* What a write of the seeder does. *)
LEMMA WriteCases ==
  ASSUME Write
  PROVE  \E m \in toSeed :
           /\ toSeed' = toSeed \ {m} /\ phase = "writing"
           /\ \/ Store(m) /\ written' = written \cup {m}
                 /\ queued' = (queued \/ (Fleet /\ m \notin memory))
              \/ (Store(m) \/ UNCHANGED <<memory, unindexed>>) /\ UNCHANGED <<written, queued>>
           /\ UNCHANGED <<phase, recorded, answers, confirmed, raw, stage, result, deaths>>
BY Zenon DEF Write, disk

(* A write leaves in the region what the seeder believes it wrote. *)
LEMMA Stored ==
  ASSUME Treating, NEW m, Store(m) \/ UNCHANGED <<memory, unindexed>>
  PROVE  /\ memory \subseteq memory' /\ memory' \subseteq memory \cup {m}
         /\ unindexed \subseteq unindexed' /\ unindexed' \subseteq unindexed \cup {m}
         /\ unindexed' \subseteq memory' /\ (~Fleet => unindexed' = {})
         /\ Store(m) => m \in memory'
BY DEF Store, Treating

LEMMA TreatingInv == Types /\ Progress /\ Seated /\ Treating /\ [Next]_vars => Treating'
<1> SUFFICES ASSUME Types, Progress, Seated, Treating, [Next]_vars PROVE Treating'
  OBVIOUS
<1>1. CASE Write
  <2>1. PICK m \in toSeed :
           /\ toSeed' = toSeed \ {m} /\ phase = "writing" /\ phase' = "writing"
           /\ \/ Store(m) /\ written' = written \cup {m}
              \/ (Store(m) \/ UNCHANGED <<memory, unindexed>>) /\ written' = written
    BY <1>1, WriteCases
  <2>2. written' \subseteq memory'
    BY <2>1, Stored DEF Treating
  <2> QED BY <2>1, <2>2, Stored DEF Treating
<1>2. CASE Seed \/ Wait
  BY <1>2 DEF Seed, Wait, Treating, region, Enter
<1>3. CASE \E a \in Arms : Reuse(a) \/ File(a) \/ Raise(a)
  <2>1. PICK a \in Arms, ans \in Rows : Gives(a, ans)
    BY <1>3, AnswerCases
  <2>2. UNCHANGED <<toSeed, written, memory, unindexed, queued>>
    BY <2>1 DEF Gives, Given
  <2>3. \/ phase' = phase /\ phase \in Asking
        \/ phase = "independent" /\ phase' = "seed"
        \/ phase = "dependent" /\ phase' = "persist"
    BY <2>1, OnwardCases DEF Gives, Given, Asking
  <2> QED BY <2>2, <2>3 DEF Treating, Asking
<1>4. CASE Start \/ Persist \/ Complete \/ Finish \/ Index \/ Move \/ Kill \/ UNCHANGED vars
  BY <1>4 DEF Start, Persist, Complete, Finish, Index, Move, Kill, vars, process, region, Treating, Enter
<1>5. CASE Sits
  BY <1>5, SitsStand DEF Treating
<1> QED BY <1>1, <1>2, <1>3, <1>4, <1>5 DEF Next, Step, Sits

(* Until the process dies there is one evaluation, and it is measured with what
   it wrote. *)
LEMMA UnbrokenInv == Types /\ Progress /\ Seated /\ Treating /\ Unbroken /\ [Next]_vars => Unbroken'
<1> SUFFICES ASSUME Types, Progress, Seated, Treating, Unbroken, [Next]_vars, deaths' = 0 PROVE Unbroken'
  BY DEF Unbroken
<1>0. deaths = 0 /\ ~Kill
  <2>1. ~Kill
    BY DEF Kill, Types
  <2>2. deaths' = deaths
    <3>1. CASE \E a \in Arms : Reuse(a) \/ File(a) \/ Raise(a)
      BY <3>1, AnswerCases DEF Gives, Given
    <3>2. CASE Start \/ Seed \/ Write \/ Wait \/ Persist \/ Complete \/ Finish \/ Index \/ Move
               \/ UNCHANGED vars
      BY <3>2 DEF Start, Seed, Write, Wait, Persist, Complete, Finish, Index, Move, vars, bounds
    <3>3. CASE Sits
      BY <3>3, SitsStand
    <3> QED BY <2>1, <3>1, <3>2, <3>3 DEF Next, Step, Sits
  <2> QED BY <2>1, <2>2
<1> USE <1>0
<1>1. CASE Start
  <2>1. /\ raw = [k \in Keys |-> <<>>] /\ stage = "none" /\ memory = {} /\ result = Nothing
    BY <1>1 DEF Start, Unbroken
  <2>2. \A k \in Keys : recorded'[k] = Nothing
    BY <1>1, <2>1 DEF Start, Resumed
  <2>3. phase' \in {"independent", "seed"} /\ UNCHANGED <<memory, result>>
    BY <1>1 DEF Start, Enter, region
  <2> QED BY <2>1, <2>2, <2>3 DEF Unbroken, Working, Closed
<1>2. CASE Seed
  <2>1. written = {} /\ memory = {} /\ result = Nothing /\ \A k \in Keys : recorded[k] = Nothing
    BY <1>2 DEF Seed, Treating, Unbroken, Working
  <2>2. phase' = "writing" /\ UNCHANGED <<written, memory, recorded, result>>
    BY <1>2 DEF Seed, region, disk
  <2> QED BY <2>1, <2>2 DEF Unbroken, Whole, Working, Closed
<1>3. CASE Write
  <2>1. PICK m \in toSeed :
           /\ toSeed' = toSeed \ {m} /\ phase = "writing"
           /\ \/ Store(m) /\ written' = written \cup {m}
                 /\ queued' = (queued \/ (Fleet /\ m \notin memory))
              \/ (Store(m) \/ UNCHANGED <<memory, unindexed>>) /\ UNCHANGED <<written, queued>>
           /\ UNCHANGED <<phase, recorded, answers, confirmed, raw, stage, result, deaths>>
    BY <1>3, WriteCases
  <2>2. /\ memory \cap toSeed = {} /\ (~queued => Whole) /\ result = Nothing
        /\ \A k \in Keys : recorded[k] = Nothing
    BY <2>1 DEF Unbroken, Working
  <2>3. memory' \subseteq memory \cup {m} /\ unindexed' \subseteq unindexed \cup {m}
        /\ (~Fleet => unindexed' = {})
    BY <2>1, Stored
  <2>4. memory' \cap toSeed' = {}
    BY <2>1, <2>2, <2>3
  <2>5. ASSUME ~queued' PROVE Whole'
    <3>1. CASE ~Fleet
      BY <2>3, <3>1 DEF Whole
    <3>2. CASE Fleet
      <4>1. ~queued /\ written' = written /\ m \notin written
        <5>1. m \notin memory
          BY <2>1, <2>2
        <5>2. ~(queued' = (queued \/ (Fleet /\ m \notin memory)))
          BY <2>5, <3>2, <5>1, Zenon
        <5>3. UNCHANGED <<written, queued>>
          BY <2>1, <5>2, Zenon
        <5> QED BY <2>5, <5>1, <5>3 DEF Treating
      <4> QED BY <2>2, <2>3, <4>1 DEF Whole
    <3> QED BY <3>1, <3>2
  <2> QED BY <2>1, <2>2, <2>4, <2>5 DEF Unbroken, Working, Closed
<1>4. CASE Wait
  <2>1. /\ phase = "writing" /\ phase' \in {"dependent", "persist"} /\ confirmed' \in Outcomes
        /\ UNCHANGED <<written, unindexed, memory, queued, answers, recorded, result>>
    BY <1>4 DEF Wait, Enter, region, disk
  <2>2. (~queued => Whole) /\ result = Nothing /\ \A k \in Keys : recorded[k] = Nothing
    BY <2>1 DEF Unbroken, Working
  <2>3. confirmed' \in {"none", "indexed"} => Whole
    <3>1. confirmed' \in {"none", "indexed"} => ~queued \/ unindexed = {}
      BY <2>1, Zenon DEF Outcomes
    <3> QED BY <2>2, <3>1 DEF Whole
  <2>4. \A k \in Keys : k[1] = "P1" => answers[k] = Nothing
    BY <2>1 DEF Progress, First1, Group
  <2>5. session' = Nothing
    BY <1>4 DEF Wait, Seated, Turn
  <2> QED BY <2>1, <2>2, <2>3, <2>4, <2>5 DEF Unbroken, Whole, Working, Closed
<1>5. CASE Persist
  <2>1. /\ phase = "persist" /\ phase' = "mark" /\ result'.answers = answers
        /\ result'.seeded = written
        /\ UNCHANGED <<confirmed, written, unindexed, answers, recorded, session>>
    BY <1>5 DEF Persist, region
  <2>2. result'.stated = (confirmed \notin {"none", "indexed"})
    BY <1>5 DEF Persist
  <2> QED BY <2>1, <2>2 DEF Unbroken, Whole, Working, Closed
<1>6. CASE Complete \/ Finish
  <2>1. /\ phase \in {"mark", "finish"} /\ phase' \in {"finish", "exited"}
        /\ UNCHANGED <<confirmed, written, unindexed, answers, recorded, result, session>>
    BY <1>6 DEF Complete, Finish, region, disk
  <2> QED BY <2>1 DEF Unbroken, Whole, Working, Closed
<1>7. ASSUME NEW a \in Arms, Reuse(a) \/ File(a) \/ Raise(a) PROVE Unbroken'
  <2>1. PICK ans \in Rows : Gives(a, ans)
    BY <1>7, AnswerCases
  <2>2. /\ UNCHANGED <<recorded, confirmed, written, unindexed, memory, result>> /\ session' = Nothing
        /\ \/ phase' = phase /\ phase \in Asking
           \/ phase = "independent" /\ phase' = "seed"
           \/ phase = "dependent" /\ phase' = "persist"
    BY <2>1, OnwardCases DEF Gives, Given, Asking
  <2>3. \A k \in Keys : recorded[k] = Nothing
    BY <2>2 DEF Unbroken, Asking
  <2>4. result = Nothing
    BY <2>2 DEF Unbroken, Asking, Working
  <2>5. CASE phase = "independent"
    BY <2>2, <2>3, <2>4, <2>5 DEF Unbroken, Working, Closed
  <2>6. CASE phase = "dependent"
    <3>1. ASSUME confirmed \in {"none", "indexed"}
          PROVE  /\ Whole
                 /\ \A k \in Keys : k[1] = "P1" /\ answers'[k] # Nothing /\ answers'[k].status # "failed"
                      => \A v \in answers'[k].found : written \subseteq v.memory
      <4>1. /\ Whole
            /\ \A k \in Keys : k[1] = "P1" /\ answers[k] # Nothing /\ answers[k].status # "failed"
                      => \A v \in answers[k].found : written \subseteq v.memory
        BY <2>6, <3>1 DEF Unbroken
      <4>2. PICK K \in Keys : K = KeyOf(a) /\ K[1] = a
        BY CellsAreKeys DEF Types
      <4>3. answers' = [answers EXCEPT ![K] = ans]
        BY <2>1, <4>2 DEF Gives, Given
      <4>4. a = "P1" /\ ans.status # "failed" =>
              session # Nothing /\ session.arm = "P1" /\ ans.found = session.found
        BY <2>1, <2>3, <4>2 DEF Gives, Reused, Taken, Missed
      <4>5. session # Nothing /\ session.arm = "P1" => \A v \in session.found : written \subseteq v.memory
        BY <2>6, <3>1 DEF Unbroken
      <4> QED BY <4>1, <4>2, <4>3, <4>4, <4>5 DEF Types
    <3> QED BY <2>2, <2>3, <2>4, <2>6, <3>1 DEF Unbroken, Whole, Working, Closed
  <2> QED BY <2>2, <2>5, <2>6 DEF Asking
<1>8. CASE Index
  BY <1>8 DEF Index, process, disk, bounds, Unbroken, Whole
<1>9. CASE Move \/ UNCHANGED vars
  BY <1>9 DEF Move, vars, process, disk, region, bounds, Unbroken, Whole
<1>10. CASE Sits
  <2>1. UNCHANGED <<phase, recorded, answers, confirmed, written, queued, toSeed, memory, unindexed,
                    raw, stage, result, deaths>>
    BY <1>10, SitsStand
  <2>2. phase \in Asking
    <3>1. \E a : Turn(a)
      BY <1>10, SessionCases DEF Seated
    <3> QED BY <3>1 DEF Turn, Asking
  <2>3. ASSUME Whole, session'.arm = "P1",
               session # Nothing /\ session.arm = "P1" => \A v \in session.found : written \subseteq v.memory,
               NEW v \in session'.found
        PROVE  written \subseteq v.memory
    <3>1. written \subseteq View("P1").memory
      BY <2>3 DEF View, Whole, Treating
    <3> QED BY <1>10, <2>3, <3>1, SessionCases
  <2> QED BY <2>1, <2>2, <2>3 DEF Unbroken, Whole, Working, Closed, Asking
<1> QED BY <1>0, <1>1, <1>2, <1>3, <1>4, <1>5, <1>6, <1>7, <1>8, <1>9, <1>10 DEF Next, Step, Sits

-----------------------------------------------------------------------------
LEMMA InitInv == Init => IInv
<1> SUFFICES ASSUME Init PROVE IInv
  OBVIOUS
<1>1. Types
  <2>1. /\ NoAnswers \in [Keys -> Rows \cup {Nothing}] /\ 1 \in 1..Cells
        /\ [k \in Keys |-> <<>>] \in [Keys -> Seq(Rows)]
    BY CellsPositive DEF NoAnswers
  <2>2. queued \in BOOLEAN /\ resumed \in BOOLEAN
    BY DEF Init
  <2> QED BY <2>1, <2>2 DEF Init, Types
<1>2. Progress
  BY DEF Init, Progress, NoAnswers, Asking
<1>3. \A k \in Keys : raw[k] = <<>> /\ answers[k] = Nothing /\ recorded[k] = Nothing
  BY DEF Init, NoAnswers
<1>4. \A k \in Keys : DOMAIN raw[k] = {} /\ Usable(k) = {}
  BY <1>3 DEF Usable
<1>5. Eras /\ Once
  BY <1>4 DEF Init, Eras, Once, Working, Closed
<1>9. Seated /\ Timely /\ Guarded
  BY <1>3, <1>4 DEF Init, Seated, Timely, Guarded, Nothing
<1>6. Filed /\ ResultOnFile /\ Sourced /\ BaselineSealed
  <2>1. Filed /\ ResultOnFile /\ Sourced
    BY <1>3 DEF Init, Filed, ResultOnFile, Sourced, Closed
  <2>2. BaselineSealed
    BY <1>4 DEF Init, BaselineSealed
  <2> QED BY <2>1, <2>2
<1>7. Treating
  BY DEF Init, Treating
<1>8. Unbroken
  BY <1>3 DEF Init, Unbroken, Working, Closed
<1> QED BY <1>1, <1>2, <1>5, <1>6, <1>7, <1>8, <1>9 DEF IInv

LEMMA NextInv == IInv /\ [Next]_vars => IInv'
<1> SUFFICES ASSUME IInv, [Next]_vars PROVE IInv'
  OBVIOUS
<1>1. Types /\ Progress /\ Eras /\ Once /\ Filed /\ ResultOnFile /\ Sourced /\ BaselineSealed
      /\ Treating /\ Unbroken /\ Seated /\ Timely /\ Guarded
  BY DEF IInv
<1>2. Types' /\ Progress' /\ Eras' /\ Once'
  BY <1>1, TypeInv, ProgressInv, ErasInv, OnceInv
<1>3. Filed' /\ ResultOnFile' /\ Sourced'
  BY <1>1, FiledInv, ResultInv, SourcedInv
<1>4. BaselineSealed' /\ Treating' /\ Unbroken'
  BY <1>1, BaselineInv, TreatingInv, UnbrokenInv
<1>5. Seated' /\ Timely' /\ Guarded'
  BY <1>1, SeatedInv, TimelyInv, GuardedInv
<1> QED BY <1>2, <1>3, <1>4, <1>5 DEF IInv

LEMMA Invariance == Spec => []IInv
BY InitInv, NextInv, PTL DEF Spec

(* Every variable of the evaluation, of its files and of the region has its
   type, for any number of questions, repetitions, failures and deaths. *)
THEOREM EvaluationTypeOK == Spec => []TypeOK
<1>1. IInv => TypeOK
  BY TypesAreTypeOK DEF IInv
<1> QED BY <1>1, Invariance, PTL

(* One evaluation has at most one usable answer of an arm to a question and
   repetition on file, and never asks an arm what it has a usable answer to,
   however often it dies. *)
THEOREM EvaluationAskedOnce == Spec => []AskedOnce
<1>1. ASSUME IInv, StoreText, session # Nothing
      PROVE  \A i \in Usable(KeyOf(session.arm)) : raw[KeyOf(session.arm)][i].era < ended
  <2>1. session.arm \in Arms /\ Turn(session.arm) /\ recorded[KeyOf(session.arm)] = Nothing
    <3>1. session \in Sessions
      BY <1>1 DEF IInv, Types
    <3> QED BY <1>1, <3>1 DEF IInv, Seated, Sessions
  <2>2. KeyOf(session.arm) \in Keys /\ answers[KeyOf(session.arm)] = Nothing
    BY <1>1, <2>1, TurnIsOpen DEF IInv
  <2>3. phase \in Working
    BY <2>1 DEF Turn, Working
  <2> QED BY <1>1, <2>1, <2>2, <2>3 DEF IInv, Once
<1>2. IInv => AskedOnce
  BY <1>1 DEF IInv, Once, AskedOnce
<1> QED BY <1>2, Invariance, PTL

(* A completed evaluation scored every answer that was due: each is a failure
   or the last on file, and of an earlier evaluation only when this one was
   itself interrupted. *)
THEOREM EvaluationResultOnFile == Spec => []ResultOnFile
<1>1. IInv => ResultOnFile
  BY DEF IInv
<1> QED BY <1>1, Invariance, PTL

(* The region is only taught what a first-pass answer on file proves, of a
   learned question that is in no cohort it is tested on. *)
THEOREM EvaluationLearnedOnly == Spec => []LearnedOnly
<1>1. IInv => LearnedOnly
  BY DEF IInv, Sourced, Rests, LearnedOnly
<1> QED BY <1>1, Invariance, PTL

(* Where the region takes a pin, every search P0 ever made, in any process, was
   of the sealed corpus without memory; and under a gate that passed, every
   answer taken over from a process that died was searched and read in the
   sealed corpus. *)
THEOREM EvaluationBaselineSealed == Spec => []BaselineSealed
<1>1. IInv => BaselineSealed
  BY DEF IInv
<1> QED BY <1>1, Invariance, PTL

(* An evaluation no death interrupted measured P1 with all the memory it says
   it wrote, or says that it did not wait for it. *)
THEOREM EvaluationTreated == Spec => []TreatedUnlessKilled
<1>1. IInv => TreatedUnlessKilled
  <2> SUFFICES ASSUME IInv, deaths = 0, result # Nothing, "P1" \in Arms, ~result.stated,
                      NEW q \in Asked, NEW n \in 1..Repetitions,
                      result.answers[<<"P1", q, n>>].status # "failed"
               PROVE  \A v \in result.answers[<<"P1", q, n>>].found : result.seeded \subseteq v.memory
    BY DEF TreatedUnlessKilled, Treated
  <2> DEFINE k == <<"P1", q, n>>
  <2>1. k \in Keys /\ k[1] = "P1"
    BY DEF Keys
  <2>2. phase \in {"mark"} \cup Closed
    BY DEF IInv, Unbroken, Types, Working, Closed
  <2>3. result.answers = answers /\ result.seeded = written
        /\ result.stated = (confirmed \notin {"none", "indexed"})
    BY <2>2 DEF IInv, Unbroken
  <2>4. confirmed \in {"none", "indexed"} /\ answers[k] # Nothing
    BY <2>1, <2>2, <2>3 DEF IInv, Progress, Closed
  <2> QED BY <2>1, <2>2, <2>3, <2>4 DEF IInv, Unbroken
<1> QED BY <1>1, Invariance, PTL
=============================================================================
