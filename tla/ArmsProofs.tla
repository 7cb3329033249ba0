----------------------------- MODULE ArmsProofs -----------------------------
(***************************************************************************)
(* What stands behind an arm, for any requests, listings, searches, plans, *)
(* rows and bounds: how often the region runs a call and whose answer the  *)
(* caller gets, what an answer of an arm says of its searches and of the   *)
(* text it read, what a record of memory rests on, and what a retried      *)
(* model call reserves.  And what the arms are asked, for any claims and   *)
(* compositions: the questions of a package and the cohorts they are in.   *)
(***************************************************************************)
EXTENDS Answering, Benchmark, FiniteSetTheorems, SequenceTheorems, NaturalsInduction, WellFoundedInduction, TLAPS

-----------------------------------------------------------------------------
(* The calls of the planner and the drafter.                               *)

Counts ==
  /\ purse \in [reserved : Int, committed : Int]
  /\ calls \in Int /\ asked \in Int /\ retried \in Int

(* Only a plan has rounds.                                                 *)
PlansHaveRounds == act = "round" => task # "draft"

PlanningInv == Counts /\ PlansHaveRounds /\ RetriesInOne

LEMMA PlanningInit == P!Init => PlanningInv
BY DEF P!Init, PlanningInv, Counts, PlansHaveRounds, RetriesInOne, P!RetriesInOne

LEMMA BillsAreWhole == ASSUME NEW bill \in P!Bills \cup (Input..(P!Estimate + Thinking)) PROVE bill \in Int
BY PriceAssumption DEF P!Bills

LEMMA PlanningStep == PlanningInv /\ P!Next => PlanningInv'
<1> SUFFICES ASSUME PlanningInv, P!Next PROVE PlanningInv'
  OBVIOUS
<1> USE DEF PlanningInv, Counts, PlansHaveRounds, RetriesInOne, P!RetriesInOne, P!callVars, P!planVars
<1>1. P!Estimate \in Int
  BY PriceAssumption DEF P!Estimate
<1>2. CASE P!Begin
  <2>1. CASE P!Affordable
    BY <1>1, <1>2, <2>1 DEF P!Begin
  <2>2. CASE ~P!Affordable
    BY <1>2, <2>2 DEF P!Begin
  <2> QED BY <2>1, <2>2
<1>3. CASE P!Retry
  BY <1>3 DEF P!Retry, P!Asked, P!Again
<1>4. CASE P!Raise
  <2>1. Input \in Int
    BY PriceAssumption
  <2> QED BY <1>1, <1>4, <2>1 DEF P!Raise, P!Asked, P!Settle
<1>5. CASE P!Reply
  <2>1. PICK bill \in Input..(P!Estimate + Thinking) : P!Asked(bill) /\ P!Settle(bill)
    BY <1>5 DEF P!Reply
  <2>2. bill \in Int
    BY BillsAreWhole
  <2>3. /\ UNCHANGED <<task, calls, retried>>
        /\ act' = "over" \/ (act' = "round" /\ task # "draft")
    BY <1>5 DEF P!Reply
  <2> QED BY <1>1, <2>1, <2>2, <2>3 DEF P!Asked, P!Settle
<1>6. CASE P!Round
  BY <1>6 DEF P!Round
<1> QED BY <1>2, <1>3, <1>4, <1>5, <1>6 DEF P!Next

(* Another part's step leaves the planner where it is.                     *)
LEMMA PlanningStutter == PlanningInv /\ UNCHANGED planningVars => PlanningInv'
BY DEF PlanningInv, Counts, PlansHaveRounds, RetriesInOne, P!RetriesInOne, planningVars, P!Estimate

(* The retries of a model call happen inside the one reservation its       *)
(* caller holds, and outside a draft each of them has a row of errors.jsonl*)
(* (models/retry.py, models/cost.py).                                      *)
THEOREM PlanningRetriesInOne == PartsSpec => []RetriesInOne
<1>1. Start => PlanningInv
  BY PlanningInit DEF Start
<1>2. PlanningInv /\ [Move]_allVars => PlanningInv'
  BY PlanningStep, PlanningStutter DEF Move, Calling, InSession, Teaching, Preparing, allVars
<1>3. PlanningInv => RetriesInOne
  BY DEF PlanningInv
<1> QED BY <1>1, <1>2, <1>3, PTL DEF PartsSpec

-----------------------------------------------------------------------------
(* The client.                                                             *)

CallKinds == {"whole", "partial", "refusal", "internal", "invalid"}
Ended == {"whole", "partial", "refusal", "raised"}

CallTypes ==
  /\ transport \in {"http", "stdio"} /\ doing \in {"idle", "send", "wait"}
  /\ made \in Seq(Requests) /\ effects \in Seq(Nat) /\ Len(effects) = Len(made)
  /\ id \in Nat /\ owner \in Seq(Nat) /\ Len(owner) = id
  /\ inbox \in Seq(Nat) /\ pipe \in Seq(Nat \X (CallKinds \cup {"notification"}))
  /\ given \in Seq([by : Nat, is : Ended])

(* One call at a time, and each message is of a call that was begun.       *)
OneByOne ==
  /\ Len(given) = IF doing = "idle" THEN Len(made) ELSE Len(made) - 1
  /\ \A i \in 1..id : owner[i] \in 1..Len(made)
  /\ doing = "wait" => id # 0 /\ owner[id] = Len(made)
  /\ transport = "http" => inbox = <<>>

(* What the child has not read is there once, and is a message.            *)
Queued ==
  /\ \A i \in 1..Len(inbox) : inbox[i] \in 1..id
  /\ \A i, j \in 1..Len(inbox) : inbox[i] = inbox[j] => i = j

(* An answer in the pipe is to a message, and says truly that it was run.  *)
Answered ==
  \A i \in 1..Len(pipe) :
    LET m == pipe[i][1]
    IN IF pipe[i][2] = "notification" THEN m = 0
       ELSE m \in 1..id /\ (pipe[i][2] \in {"whole", "partial"} => effects[owner[m]] > 0)

(* A message the region may still run.                                     *)
Unrun(m) == (\E i \in 1..Len(inbox) : inbox[i] = m) \/ (transport = "http" /\ doing = "wait" /\ m = id)

(* A call that is not safe to repeat has one message, and none before it   *)
(* is first sent; it has been run at most once, and not yet while that     *)
(* message is unread.                                                      *)
Once(n) ==
  /\ \A i, j \in 1..id : owner[i] = n /\ owner[j] = n => i = j
  /\ doing = "send" /\ n = Len(made) => \A i \in 1..id : owner[i] # n
  /\ effects[n] <= 1
  /\ (\A i \in 1..id : owner[i] # n) => effects[n] = 0
  /\ \A i \in 1..id : owner[i] = n /\ Unrun(i) => effects[n] = 0

SentOnce == \A n \in 1..Len(made) : C!Unsafe(made[n]) => Once(n)

(* What a call ended with is the answer to a message of its own, and says  *)
(* truly that it was run.                                                  *)
Own ==
  \A n \in 1..Len(given) : given[n].is # "raised" =>
    /\ given[n].by \in 1..id /\ owner[given[n].by] = n
    /\ given[n].is # "refusal" => effects[n] > 0

ClientInv == CallTypes /\ OneByOne /\ Queued /\ Answered /\ SentOnce /\ Own

LEMMA ClientInit == C!Init => ClientInv
BY DEF C!Init, ClientInv, CallTypes, OneByOne, Queued, Answered, SentOnce, Once, Own

(* What is not safe to repeat is not asked for again.                      *)
LEMMA UnsafeIsFinal == ASSUME NEW c, C!Unsafe(c) PROVE ~C!Retryable(c)
BY DEF C!Unsafe, C!Retryable

(* An attempt that failed is followed by another one, or by an exception.  *)
Again  == doing' = "send" /\ given' = given /\ ~C!Unsafe(made[Len(made)])
Raised == doing' = "idle" /\ given' = Append(given, [by |-> 0, is |-> "raised"])

LEMMA AttemptFailed == ASSUME NEW kind, NEW n, C!Fail(kind, n) PROVE Again \/ Raised
<1>1. CASE C!Retryable(made[C!Now]) /\ C!Passing(kind) /\ n < MaxRetries
  BY <1>1, UnsafeIsFinal DEF C!Fail, C!Now, Again
<1>2. CASE ~(C!Retryable(made[C!Now]) /\ C!Passing(kind) /\ n < MaxRetries)
  BY <1>2 DEF C!Fail, C!End, Raised
<1> QED BY <1>1, <1>2

(* One that was answered ends the call with that answer, or an exception.  *)
Returned(kind) ==
  doing' = "idle" /\ \E w \in {kind, "raised"} : given' = Append(given, [by |-> id, is |-> w])

LEMMA AttemptAnswered ==
  ASSUME NEW by, NEW kind, C!Take(by, kind)
  PROVE  \/ Again \/ Raised
         \/ by = id /\ kind \in {"whole", "partial", "refusal"} /\ Returned(kind)
<1>1. CASE by # id \/ kind \notin CallKinds
  <2>1. C!Fail("unreadable", attempts)
    BY <1>1 DEF C!Take, CallKinds
  <2> QED BY <2>1, AttemptFailed
<1>2. CASE by = id /\ kind \in {"internal", "invalid"}
  <2>1. C!Fail(kind, attempts)
    BY <1>2 DEF C!Take
  <2> QED BY <2>1, AttemptFailed
<1>3. CASE by = id /\ kind \in {"whole", "partial", "refusal"}
  <2>1. C!End(by, IF kind = "refusal" /\ ~made[C!Now].allow THEN "raised" ELSE kind)
    BY <1>3 DEF C!Take
  <2>2. PICK w \in {kind, "raised"} : C!End(by, w)
    BY <2>1
  <2>3. doing' = "idle" /\ given' = Append(given, [by |-> id, is |-> w])
    BY <1>3, <2>2 DEF C!End
  <2> QED BY <1>3, <2>3 DEF Returned
<1> QED BY <1>1, <1>2, <1>3 DEF CallKinds

(* A step that is not the client's leaves it as it is.                     *)
LEMMA ClientStutter == ClientInv /\ UNCHANGED clientVars => ClientInv'
<1> SUFFICES ASSUME ClientInv, UNCHANGED clientVars PROVE ClientInv'
  OBVIOUS
<1> USE DEF clientVars
<1>1. CallTypes' /\ OneByOne'
  BY DEF ClientInv, CallTypes, OneByOne
<1>2. Queued' /\ Answered'
  BY DEF ClientInv, Queued, Answered
<1>3. SentOnce'
  BY DEF ClientInv, SentOnce, Once, Unrun, C!Unsafe
<1>4. Own'
  BY DEF ClientInv, Own
<1> QED BY <1>1, <1>2, <1>3, <1>4 DEF ClientInv

(* A call is begun.                                                        *)
LEMMA BeginKeeps == ASSUME ClientInv, NEW c \in Requests, C!Begin(c) PROVE ClientInv'
<1>0. CallTypes /\ OneByOne /\ Queued /\ Answered /\ SentOnce /\ Own
  BY DEF ClientInv
<1> DEFINE n == Len(made) + 1
<1>1. /\ n \in Nat /\ Len(made') = n /\ Len(effects') = n /\ effects'[n] = 0
      /\ \A k \in 1..Len(made) : made'[k] = made[k] /\ effects'[k] = effects[k]
  <2>1. made' = Append(made, c) /\ effects' = Append(effects, 0)
    BY DEF C!Begin
  <2>2. made \in Seq(Requests) /\ effects \in Seq(Nat) /\ Len(effects) = Len(made)
    BY <1>0 DEF CallTypes
  <2> QED BY <2>1, <2>2
<1>2. CallTypes'
  BY <1>0, <1>1 DEF CallTypes, C!Begin, C!connection
<1>3. OneByOne'
  BY <1>0, <1>1 DEF CallTypes, OneByOne, C!Begin, C!connection
<1>4. Queued'
  BY <1>0 DEF Queued, C!Begin
<1>5. Answered'
  BY <1>0, <1>1 DEF CallTypes, OneByOne, Answered, C!Begin
<1>6. SentOnce'
  <2>1. SUFFICES ASSUME NEW k \in 1..n, C!Unsafe(made'[k]) PROVE Once(k)'
    BY <1>1 DEF SentOnce
  <2>2. CASE k = n
    BY <1>0, <1>1, <2>2 DEF OneByOne, Once, C!Begin
  <2>3. CASE k # n
    <3>1. k \in 1..Len(made) /\ C!Unsafe(made[k])
      <4>1. made \in Seq(Requests) /\ Len(made) \in Nat
        BY <1>0 DEF CallTypes
      <4>2. k \in 1..Len(made)
        BY <2>1, <2>3, <4>1
      <4>3. made'[k] = made[k]
        BY <1>1, <4>2
      <4> QED BY <2>1, <4>2, <4>3, Zenon
    <3>2. Once(k)
      BY <1>0, <3>1 DEF SentOnce
    <3> QED BY <1>0, <1>1, <2>3, <3>1, <3>2 DEF CallTypes, Once, Unrun, C!Begin
  <2> QED BY <2>2, <2>3
<1>7. Own'
  BY <1>0, <1>1 DEF CallTypes, OneByOne, Own, C!Begin
<1> QED BY <1>2, <1>3, <1>4, <1>5, <1>6, <1>7 DEF ClientInv

(* The attempt that is made is over: the region may have run it just now   *)
(* (over http), and a result of its own is never empty-handed.             *)
LEMMA AttemptEnds ==
  ASSUME ClientInv, doing = "wait", UNCHANGED <<transport, made, id, owner, inbox>>,
         \/ effects' = effects
         \/ transport = "http" /\ effects' = [effects EXCEPT ![Len(made)] = @ + 1],
         pipe' = pipe \/ (pipe # <<>> /\ pipe' = Tail(pipe)),
         \/ Again \/ Raised
         \/ \E kind \in {"whole", "partial", "refusal"} :
              Returned(kind) /\ (kind # "refusal" => effects'[Len(made)] > 0)
  PROVE  ClientInv'
<1> DEFINE n == Len(made)
<1>1. CallTypes /\ OneByOne /\ Queued /\ Answered /\ SentOnce /\ Own
  BY DEF ClientInv
<1>2. /\ n \in Nat /\ n \in 1..n /\ id \in Nat /\ id \in 1..id /\ owner[id] = n
      /\ Len(given) = n - 1 /\ Len(effects) = n /\ effects \in Seq(Nat)
  BY <1>1 DEF CallTypes, OneByOne
<1>3. /\ effects' \in Seq(Nat) /\ Len(effects') = n
      /\ \A k \in 1..n : effects'[k] \in Nat /\ effects'[k] >= effects[k] /\ (k # n => effects'[k] = effects[k])
  BY <1>2
<1>4. \/ doing' = "send" /\ given' = given
      \/ doing' = "idle" /\ \E r \in [by : Nat, is : Ended] : given' = Append(given, r)
  BY <1>2 DEF Again, Raised, Returned, Ended
<1>5. CallTypes'
  <2>1. given' \in Seq([by : Nat, is : Ended])
    <3>1. given \in Seq([by : Nat, is : Ended])
      BY <1>1 DEF CallTypes
    <3> DEFINE R == [by : Nat, is : Ended]
    <3>2. given' = given \/ \E r \in R : given' = Append(given, r)
      BY <1>4
    <3>3. given \in Seq(R)
      BY <3>1
    <3> HIDE DEF R
    <3>4. given' \in Seq(R)
      BY <3>2, <3>3
    <3> QED BY <3>4 DEF R
  <2>2. pipe' \in Seq(Nat \X (CallKinds \cup {"notification"}))
    <3>1. pipe \in Seq(Nat \X (CallKinds \cup {"notification"}))
      BY <1>1 DEF CallTypes
    <3> DEFINE R == Nat \X (CallKinds \cup {"notification"})
    <3>2. pipe \in Seq(R)
      BY <3>1
    <3> HIDE DEF R
    <3>3. pipe' \in Seq(R)
      BY <3>2
    <3> QED BY <3>3 DEF R
  <2>3. doing' \in {"idle", "send"}
    BY <1>4
  <2> QED BY <1>1, <1>3, <2>1, <2>2, <2>3 DEF CallTypes
<1>6. OneByOne'
  BY <1>1, <1>2, <1>4 DEF CallTypes, OneByOne
<1>7. Queued'
  BY <1>1 DEF Queued
<1>8. Answered'
  <2>1. ASSUME NEW i \in 1..Len(pipe') PROVE \E j \in 1..Len(pipe) : pipe'[i] = pipe[j]
    <3>1. CASE pipe' = pipe
      BY <2>1, <3>1
    <3>2. CASE pipe # <<>> /\ pipe' = Tail(pipe)
      <4>1. pipe \in Seq(Nat \X (CallKinds \cup {"notification"}))
        BY <1>1 DEF CallTypes
      <4>2. i + 1 \in 1..Len(pipe) /\ pipe'[i] = pipe[i + 1]
        BY <2>1, <3>2, <4>1
      <4> QED BY <4>2
    <3> QED BY <3>1, <3>2
  <2>2. ASSUME NEW m \in 1..id PROVE effects[owner[m]] > 0 => effects'[owner[m]] > 0
    <3>1. owner[m] \in 1..n
      BY <1>1 DEF OneByOne
    <3> QED BY <1>2, <1>3, <3>1
  <2> QED BY <1>1, <2>1, <2>2 DEF Answered
<1>9. SentOnce'
  <2>1. SUFFICES ASSUME NEW k \in 1..n, C!Unsafe(made[k]) PROVE Once(k)'
    BY <1>2 DEF SentOnce, C!Unsafe
  <2>2. Once(k)
    BY <1>1, <2>1 DEF SentOnce
  <2>3. \A i \in 1..id : Unrun(i)' => Unrun(i) /\ transport = "stdio"
    <3>1. transport = "http" => Len(inbox) = 0
      BY <1>1 DEF OneByOne
    <3>2. transport \in {"http", "stdio"} /\ doing' # "wait"
      BY <1>1, <1>4 DEF CallTypes
    <3> QED BY <3>1, <3>2 DEF Unrun
  <2>4. CASE k # n
    BY <1>1, <1>2, <1>3, <2>2, <2>3, <2>4 DEF Once
  <2>5. CASE k = n
    <3>1. doing' # "send"
      BY <2>1, <2>5 DEF Again, Raised, Returned
    <3>2. transport = "http" => effects[n] = 0
      BY <1>2, <2>2, <2>5 DEF Once, Unrun
    <3>3. effects'[n] <= 1 /\ (transport = "stdio" => effects' = effects)
      BY <1>1, <1>2, <2>2, <2>5, <3>2 DEF Once
    <3> QED BY <1>1, <1>2, <2>2, <2>3, <2>5, <3>1, <3>3 DEF Once
  <2> QED BY <2>4, <2>5
<1>10. Own'
  <2>1. SUFFICES ASSUME NEW k \in 1..Len(given'), given'[k].is # "raised"
                 PROVE  /\ given'[k].by \in 1..id /\ owner[given'[k].by] = k
                        /\ given'[k].is # "refusal" => effects'[k] > 0
    BY DEF Own
  <2>2. CASE k \in 1..(n - 1)
    <3>1. given'[k] = given[k] /\ k \in 1..Len(given) /\ k \in 1..n /\ k # n
      <4>1. given \in Seq([by : Nat, is : Ended]) /\ k \in 1..Len(given) /\ k \in 1..n /\ k # n
        BY <1>1, <1>2, <2>2 DEF CallTypes
      <4> QED BY <1>4, <4>1
    <3> QED BY <1>1, <1>3, <2>1, <3>1 DEF Own
  <2>3. CASE k = n
    <3>1. PICK kind \in {"whole", "partial", "refusal"} :
             Returned(kind) /\ (kind # "refusal" => effects'[Len(made)] > 0)
      <4>1. ~Again
        BY <1>2, <2>1, <2>3 DEF Again
      <4>2. ~Raised
        <5>1. CASE Raised
          BY <1>1, <1>2, <2>1, <2>3, <5>1 DEF Raised, CallTypes
        <5> QED BY <5>1
      <4> QED BY <4>1, <4>2
    <3>2. PICK w \in {kind, "raised"} : given' = Append(given, [by |-> id, is |-> w])
      BY <3>1 DEF Returned
    <3>3. given'[n] = [by |-> id, is |-> w]
      BY <1>1, <1>2, <3>2 DEF CallTypes
    <3> QED BY <1>2, <2>1, <2>3, <3>1, <3>3
  <2> QED BY <1>1, <1>2, <1>4, <2>1, <2>2, <2>3 DEF CallTypes
<1> QED BY <1>5, <1>6, <1>7, <1>8, <1>9, <1>10 DEF ClientInv

(* An attempt is a message with an id of its own; nobody reads what is     *)
(* written to a child that has died.                                       *)
LEMMA SendKeeps == ASSUME ClientInv, C!Send PROVE ClientInv'
<1> DEFINE n == Len(made)
           m == id + 1
<1>1. CallTypes /\ OneByOne /\ Queued /\ Answered /\ SentOnce /\ Own
  BY DEF ClientInv
<1>2. /\ doing = "send" /\ id' = m /\ owner' = Append(owner, n)
      /\ UNCHANGED <<transport, made, pipe, effects>>
  BY DEF C!Send, C!Now, C!connection
<1>3. \/ (Again \/ Raised) /\ inbox' = inbox
      \/ /\ doing' = "wait" /\ given' = given
         /\ inbox' = IF transport = "stdio" THEN Append(inbox, m) ELSE inbox
  <2>1. CASE transport = "stdio" /\ ~alive
    BY <2>1, AttemptFailed DEF C!Send
  <2>2. CASE ~(transport = "stdio" /\ ~alive)
    BY <2>2 DEF C!Send
  <2> QED BY <2>1, <2>2
<1>4. /\ n \in Nat /\ n \in 1..n /\ id \in Nat /\ m \in Nat /\ Len(given) = n - 1 /\ Len(owner) = id
      /\ Len(owner') = m /\ owner'[m] = n /\ \A i \in 1..id : owner'[i] = owner[i]
  <2>1. n \in Nat /\ id \in Nat /\ owner \in Seq(Nat) /\ Len(owner) = id /\ Len(given) = n - 1
    BY <1>1, <1>2 DEF CallTypes, OneByOne
  <2>2. given \in Seq([by : Nat, is : Ended])
    BY <1>1 DEF CallTypes
  <2>3. n \in 1..n
    BY <2>1, <2>2
  <2> QED BY <1>2, <2>1, <2>3
<1>5. /\ inbox' \in Seq(Nat)
      /\ \A i \in 1..Len(inbox') : inbox'[i] = m \/ (i \in 1..Len(inbox) /\ inbox'[i] = inbox[i])
      /\ \A i, j \in 1..Len(inbox') : inbox'[i] = inbox'[j] => i = j
      /\ transport = "http" => inbox' = <<>>
  <2>1. /\ inbox \in Seq(Nat) /\ (transport = "http" => inbox = <<>>)
        /\ \A i \in 1..Len(inbox) : inbox[i] \in 1..id
        /\ \A i, j \in 1..Len(inbox) : inbox[i] = inbox[j] => i = j
    BY <1>1 DEF CallTypes, OneByOne, Queued
  <2>2. CASE inbox' = inbox
    BY <2>1, <2>2, <1>1 DEF CallTypes, OneByOne
  <2>3. CASE transport # "http" /\ inbox' = Append(inbox, m)
    <3>1. /\ inbox' \in Seq(Nat) /\ Len(inbox') = Len(inbox) + 1 /\ Len(inbox) \in Nat
          /\ inbox'[Len(inbox) + 1] = m /\ \A i \in 1..Len(inbox) : inbox'[i] = inbox[i]
      BY <1>4, <2>1, <2>3
    <3>2. \A i \in 1..Len(inbox) : inbox[i] # m
      BY <1>4, <2>1
    <3> QED BY <2>1, <2>3, <3>1, <3>2
  <2> QED BY <1>1, <1>3, <2>2, <2>3 DEF CallTypes
<1>6. \/ Again /\ inbox' = inbox
      \/ Raised /\ inbox' = inbox
      \/ doing' = "wait" /\ given' = given
  BY <1>3
<1>7. CallTypes'
  <2>1. given' = given \/ given' = Append(given, [by |-> 0, is |-> "raised"])
    BY <1>6 DEF Again, Raised
  <2>2. given' \in Seq([by : Nat, is : Ended])
    <3> DEFINE R == [by : Nat, is : Ended]
    <3>1. given \in Seq(R) /\ [by |-> 0, is |-> "raised"] \in R
      BY <1>1 DEF CallTypes, Ended
    <3> HIDE DEF R
    <3>2. given' \in Seq(R)
      BY <2>1, <3>1
    <3> QED BY <3>2 DEF R
  <2>3. doing' \in {"idle", "send", "wait"}
    BY <1>6 DEF Again, Raised
  <2>4. owner' \in Seq(Nat)
    BY <1>1, <1>2, <1>4 DEF CallTypes
  <2> QED BY <1>1, <1>2, <1>4, <1>5, <2>2, <2>3, <2>4 DEF CallTypes
<1>8. OneByOne'
  <2>1. Len(given') = IF doing' = "idle" THEN n ELSE n - 1
    BY <1>1, <1>4, <1>6 DEF CallTypes, Again, Raised
  <2>2. \A i \in 1..m : owner'[i] \in 1..n
    BY <1>1, <1>4 DEF OneByOne
  <2> QED BY <1>2, <1>4, <1>5, <2>1, <2>2 DEF OneByOne
<1>9. Queued'
  BY SMTT(60), <1>1, <1>2, <1>4, <1>5 DEF Queued
<1>10. Answered'
  BY <1>1, <1>2, <1>4 DEF Answered
<1>11. SentOnce'
  <2>1. SUFFICES ASSUME NEW k \in 1..n, C!Unsafe(made[k]) PROVE Once(k)'
    BY <1>2 DEF SentOnce, C!Unsafe
  <2>2. Once(k)
    BY <1>1, <2>1 DEF SentOnce
  <2>3. doing' = "send" => k # n
    BY <1>6, <2>1 DEF Again, Raised
  <2>4. \A i \in 1..m : Unrun(i)' => i = m \/ Unrun(i)
    BY <1>1, <1>2, <1>5 DEF Unrun
  <2>5. CASE k # n
    <3>1. owner'[m] # k
      BY <1>4, <2>5
    <3> QED BY <1>2, <1>4, <2>2, <2>4, <2>5, <3>1 DEF Once
  <2>6. CASE k = n
    <3>1. (\A i \in 1..id : owner[i] # n) /\ effects[n] = 0
      BY <1>2, <2>2, <2>6 DEF Once
    <3> QED BY <1>2, <1>4, <2>3, <2>6, <3>1 DEF Once
  <2> QED BY <2>5, <2>6
<1>12. Own'
  <2>1. \A k \in 1..Len(given') :
          given'[k].is # "raised" => k \in 1..Len(given) /\ given'[k] = given[k]
    BY <1>1, <1>6 DEF CallTypes, Again, Raised
  <2> QED BY <1>1, <1>2, <1>4, <2>1 DEF Own
<1> QED BY <1>7, <1>8, <1>9, <1>10, <1>11, <1>12 DEF ClientInv

(* One exchange over http.                                                 *)
LEMMA ExchangeKeeps == ASSUME ClientInv, C!Exchange PROVE ClientInv'
<1> DEFINE n == Len(made)
           Runs == effects' = [effects EXCEPT ![n] = @ + 1]
<1>1. /\ transport = "http" /\ doing = "wait"
      /\ UNCHANGED <<transport, made, id, owner, inbox, pipe>>
  BY DEF C!Exchange, C!connection
<1>2. /\ n \in 1..n /\ effects \in Seq(Nat) /\ Len(effects) = n /\ id # 0
  BY <1>1 DEF ClientInv, CallTypes, OneByOne
<1>3. Runs => effects'[n] > 0
  BY <1>2
<1>4. Runs \/ effects' = effects
  BY DEF C!Exchange, C!Ran, C!Now
<1>5. \/ Again \/ Raised
      \/ \E kind \in {"whole", "partial", "refusal"} :
           Returned(kind) /\ (kind # "refusal" => effects'[n] > 0)
  <2>1. CASE (\E kind \in {"whole", "partial"} : C!Take(id, kind)) /\ C!Ran(C!Now)
    BY <1>3, <2>1, AttemptAnswered DEF C!Ran, C!Now
  <2>2. CASE \E kind \in {"refusal", "invalid"} : C!Take(id, kind)
    <3>1. PICK kind \in {"refusal", "invalid"} : C!Take(id, kind)
      BY <2>2
    <3> QED BY <3>1, AttemptAnswered
  <2>3. CASE C!Take(id, "internal")
    BY <2>3, AttemptAnswered
  <2>4. CASE C!Take(0, "whole")
    BY <1>2, <2>4, AttemptAnswered
  <2>5. CASE \E kind \in {"denied", "limited", "dropped"} : C!Fail(kind, attempts)
    BY <2>5, AttemptFailed
  <2> QED BY <2>1, <2>2, <2>3, <2>4, <2>5 DEF C!Exchange
<1> QED BY <1>1, <1>4, <1>5, AttemptEnds

(* A line of the pipe that answers the message is the end of the attempt;  *)
(* one that does not is passed over, unless the deadline has passed.       *)
LEMMA ReadLineKeeps == ASSUME ClientInv, C!ReadLine PROVE ClientInv'
<1> DEFINE n == Len(made)
           line == pipe[1]
<1>1. /\ doing = "wait" /\ pipe # <<>> /\ pipe' = Tail(pipe)
      /\ UNCHANGED <<transport, made, id, owner, inbox, effects>>
  BY DEF C!ReadLine, C!connection
<1>2. CallTypes /\ OneByOne /\ Queued /\ Answered /\ SentOnce /\ Own
  BY DEF ClientInv
<1>3. /\ Head(pipe) = line /\ line[1] \in Nat /\ line[2] \in CallKinds \cup {"notification"}
      /\ 1 \in 1..Len(pipe)
  <2>1. pipe \in Seq(Nat \X (CallKinds \cup {"notification"}))
    BY <1>2 DEF CallTypes
  <2>2. 1 \in 1..Len(pipe) /\ Head(pipe) = line /\ line \in Nat \X (CallKinds \cup {"notification"})
    BY <1>1, <2>1
  <2> QED BY <2>2
<1>4. CASE line[1] = id
  <2>1. C!Take(id, line[2])
    BY <1>3, <1>4 DEF C!ReadLine
  <2>2. owner[id] = n /\ id # 0
    BY <1>1, <1>2 DEF OneByOne
  <2>3. line[2] \in {"whole", "partial"} => effects'[n] > 0
    BY <1>1, <1>2, <1>3, <1>4, <2>2 DEF Answered
  <2>4. \/ Again \/ Raised
        \/ line[2] \in {"whole", "partial", "refusal"} /\ Returned(line[2])
    BY <2>1, AttemptAnswered
  <2> QED BY <1>1, <2>3, <2>4, AttemptEnds
<1>5. CASE line[1] # id /\ C!Fail("timeout", attempts)
  BY <1>1, <1>5, AttemptFailed, AttemptEnds
<1>6. CASE line[1] # id /\ UNCHANGED <<doing, given>>
  <2>1. CallTypes'
    <3> DEFINE R == Nat \X (CallKinds \cup {"notification"})
    <3>1. pipe \in Seq(R)
      BY <1>2 DEF CallTypes
    <3> HIDE DEF R
    <3>2. pipe' \in Seq(R)
      BY <1>1, <3>1
    <3> QED BY <1>1, <1>2, <1>6, <3>2 DEF CallTypes, R
  <2>2. OneByOne' /\ Queued' /\ Own'
    BY <1>1, <1>2, <1>6 DEF OneByOne, Queued, Own
  <2>3. Answered'
    <3>1. ASSUME NEW i \in 1..Len(pipe') PROVE i + 1 \in 1..Len(pipe) /\ pipe'[i] = pipe[i + 1]
      BY <1>1, <1>2, <3>1 DEF CallTypes
    <3> QED BY <1>1, <1>2, <3>1 DEF Answered
  <2>4. SentOnce'
    BY <1>1, <1>2, <1>6 DEF SentOnce, Once, Unrun, C!Unsafe
  <2> QED BY <2>1, <2>2, <2>3, <2>4 DEF ClientInv
<1> QED BY <1>3, <1>4, <1>5, <1>6 DEF C!ReadLine

(* At the end of the child's output the reader raises.                     *)
LEMMA ReadEndKeeps == ASSUME ClientInv, C!ReadEnd PROVE ClientInv'
<1>1. /\ doing = "wait" /\ C!Fail("closed", attempts)
      /\ UNCHANGED <<transport, made, id, owner, inbox, pipe, effects>>
  BY DEF C!ReadEnd, C!connection
<1> QED BY <1>1, AttemptFailed, AttemptEnds

(* The child reads a message, runs the call or refuses it, and answers or  *)
(* never will.                                                             *)
LEMMA ServeKeeps == ASSUME ClientInv, C!Serve PROVE ClientInv'
<1> DEFINE it == inbox[1]
           n == owner[it]
           R == Nat \X (CallKinds \cup {"notification"})
<1>1. CallTypes /\ OneByOne /\ Queued /\ Answered /\ SentOnce /\ Own
  BY DEF ClientInv
<1>2. /\ transport = "stdio" /\ inbox # <<>> /\ inbox' = Tail(inbox)
      /\ UNCHANGED <<transport, made, doing, id, owner, given>>
  BY DEF C!Serve, C!connection
<1>3. /\ 1 \in 1..Len(inbox) /\ Head(inbox) = it /\ it \in 1..id
      /\ inbox' \in Seq(Nat) /\ Len(inbox') = Len(inbox) - 1
      /\ \A i \in 1..Len(inbox') : i + 1 \in 2..Len(inbox) /\ inbox'[i] = inbox[i + 1]
  <2>1. inbox \in Seq(Nat)
    BY <1>1 DEF CallTypes
  <2>2. 1 \in 1..Len(inbox) /\ Head(inbox) = it
    BY <1>2, <2>1
  <2> QED BY <1>1, <1>2, <2>1, <2>2 DEF Queued
<1>4. n \in 1..Len(made) /\ n \in 1..Len(effects) /\ effects \in Seq(Nat)
  BY <1>1, <1>3 DEF CallTypes, OneByOne
<1>5. effects' = effects \/ effects' = [effects EXCEPT ![n] = @ + 1]
  BY <1>3 DEF C!Serve, C!Ran
<1>6. /\ effects' \in Seq(Nat) /\ Len(effects') = Len(effects)
      /\ \A k \in 1..Len(effects) : effects'[k] \in Nat /\ effects'[k] >= effects[k]
                                     /\ effects'[k] <= effects[k] + 1 /\ (k # n => effects'[k] = effects[k])
  <2> HIDE DEF n
  <2>1. Len(effects) \in Nat /\ \A k \in 1..Len(effects) : effects[k] \in Nat
    BY <1>4
  <2>2. CASE effects' = effects
    BY ONLY <1>4, <2>1, <2>2
  <2>3. CASE effects' = [effects EXCEPT ![n] = @ + 1]
    <3>1. effects' \in Seq(Nat) /\ Len(effects') = Len(effects) /\ effects'[n] = effects[n] + 1
          /\ \A k \in 1..Len(effects) : k # n => effects'[k] = effects[k]
      BY ONLY <1>4, <2>1, <2>3
    <3> QED BY ONLY <1>4, <2>1, <3>1
  <2> QED BY <1>5, <2>2, <2>3
<1>7. \/ pipe' = pipe
      \/ \E kind \in CallKinds : /\ pipe' = Append(pipe, <<it, kind>>)
                                 /\ kind \in {"whole", "partial"} => effects'[n] > 0
  <2>1. CASE \E kind \in {"whole", "partial", "internal"} :
               pipe' = Append(pipe, <<it, kind>>) /\ C!Ran(n)
    <3>1. effects'[n] > 0
      BY <1>4, <2>1 DEF C!Ran
    <3> QED BY <2>1, <3>1 DEF CallKinds
  <2>2. CASE \E kind \in {"refusal", "invalid"} : pipe' = Append(pipe, <<it, kind>>)
    BY <2>2 DEF CallKinds
  <2> QED BY <1>3, <2>1, <2>2 DEF C!Serve
<1>8. pipe' \in Seq(R)
  <2>1. \A kind \in CallKinds : <<it, kind>> \in R
    BY <1>1, <1>3 DEF CallTypes
  <2>2. pipe \in Seq(R)
    BY <1>1 DEF CallTypes
  <2>3. pipe' = pipe \/ \E r \in R : pipe' = Append(pipe, r)
    BY <1>7, <2>1
  <2> HIDE DEF R
  <2> QED BY <2>2, <2>3
<1>9. CallTypes'
  BY <1>1, <1>2, <1>3, <1>6, <1>8 DEF CallTypes
<1>10. OneByOne'
  BY <1>1, <1>2, <1>3 DEF OneByOne
<1>11. Queued'
  <2>1. \A i \in 1..Len(inbox') : inbox'[i] \in 1..id
    <3>1. \A i \in 1..Len(inbox) : inbox[i] \in 1..id
      BY <1>1 DEF Queued
    <3>2. \A i \in 2..Len(inbox) : i \in 1..Len(inbox)
      BY <1>1 DEF CallTypes
    <3> QED BY <1>3, <3>1, <3>2
  <2>2. ASSUME NEW i \in 1..Len(inbox'), NEW j \in 1..Len(inbox'), inbox'[i] = inbox'[j] PROVE i = j
    <3>1. \A a, b \in 1..Len(inbox) : inbox[a] = inbox[b] => a = b
      BY <1>1 DEF Queued
    <3>2. Len(inbox) \in Nat
      BY <1>1 DEF CallTypes
    <3>3. /\ i + 1 \in 1..Len(inbox) /\ j + 1 \in 1..Len(inbox)
          /\ inbox[i + 1] = inbox[j + 1] /\ i \in Int /\ j \in Int
      BY <1>3, <2>2, <3>2
    <3>4. i + 1 = j + 1
      BY ONLY <3>1, <3>3
    <3> QED BY ONLY <3>3, <3>4
  <2> QED BY <1>2, <2>1, <2>2 DEF Queued
<1>12. Answered'
  <2>1. ASSUME NEW m \in 1..id PROVE effects[owner[m]] > 0 => effects'[owner[m]] > 0
    <3>1. owner[m] \in 1..Len(effects)
      BY <1>1 DEF CallTypes, OneByOne
    <3> QED BY <1>4, <1>6, <3>1
  <2>2. CASE pipe' = pipe
    BY <1>1, <1>2, <2>1, <2>2 DEF Answered
  <2>3. ASSUME NEW kind \in CallKinds, pipe' = Append(pipe, <<it, kind>>),
               kind \in {"whole", "partial"} => effects'[n] > 0
        PROVE  Answered'
    <3>1. pipe \in Seq(R) /\ Len(pipe) \in Nat
      BY <1>1 DEF CallTypes
    <3>2. /\ Len(pipe') = Len(pipe) + 1 /\ pipe'[Len(pipe) + 1] = <<it, kind>>
          /\ \A i \in 1..Len(pipe) : pipe'[i] = pipe[i]
      <4> HIDE DEF R
      <4> QED BY <2>3, <3>1
    <3>3. SUFFICES ASSUME NEW i \in 1..Len(pipe')
                   PROVE  IF pipe'[i][2] = "notification" THEN pipe'[i][1] = 0
                          ELSE /\ pipe'[i][1] \in 1..id
                               /\ pipe'[i][2] \in {"whole", "partial"} => effects'[owner[pipe'[i][1]]] > 0
      BY <1>2 DEF Answered
    <3>4. CASE i = Len(pipe) + 1
      BY <1>3, <2>3, <3>2, <3>4 DEF CallKinds
    <3>5. CASE i \in 1..Len(pipe)
      BY <1>1, <2>1, <3>2, <3>5 DEF Answered
    <3> QED BY <3>1, <3>2, <3>4, <3>5
  <2> QED BY <1>7, <2>2, <2>3
<1>13. SentOnce'
  <2>1. SUFFICES ASSUME NEW k \in 1..Len(made), C!Unsafe(made[k]) PROVE Once(k)'
    BY <1>2 DEF SentOnce, C!Unsafe
  <2>2. Once(k) /\ k \in 1..Len(effects)
    BY <1>1, <2>1 DEF SentOnce, CallTypes
  <2>3. ASSUME NEW i, Unrun(i)' PROVE Unrun(i) /\ i # it
    BY <1>1, <1>2, <1>3, <2>3 DEF Unrun, Queued
  <2>4. CASE k # n
    <3>1. effects'[k] = effects[k]
      BY <1>6, <2>2, <2>4
    <3> QED BY <1>2, <2>2, <2>3, <2>4, <3>1 DEF Once
  <2>5. CASE k = n
    <3>1. Unrun(it)
      BY <1>3 DEF Unrun
    <3>2. effects[n] = 0
      BY <1>3, <2>2, <2>5, <3>1 DEF Once
    <3>3. \A i \in 1..id : owner[i] = n => i = it
      BY <1>3, <2>2, <2>5 DEF Once
    <3>4. effects'[n] <= 1
      BY <1>4, <1>6, <3>2
    <3> QED BY <1>2, <1>3, <2>2, <2>3, <2>5, <3>3, <3>4 DEF Once
  <2> QED BY <2>4, <2>5
<1>14. Own'
  <2>1. ASSUME NEW k \in 1..Len(given) PROVE effects[k] > 0 => effects'[k] > 0
    <3>1. k \in 1..Len(effects)
      BY <1>1 DEF CallTypes, OneByOne
    <3> QED BY <1>4, <1>6, <3>1
  <2> QED BY <1>1, <1>2, <2>1 DEF Own
<1> QED BY <1>9, <1>10, <1>11, <1>12, <1>13, <1>14 DEF ClientInv

(* The child may die, or write a line that answers nothing.                *)
LEMMA DieKeeps == ASSUME ClientInv, C!Die PROVE ClientInv'
<1>1. CallTypes /\ OneByOne /\ Queued /\ Answered /\ SentOnce /\ Own
  BY DEF ClientInv
<1>2. /\ transport = "stdio" /\ inbox' = <<>>
      /\ UNCHANGED <<transport, made, doing, id, owner, pipe, effects, given>>
  BY DEF C!Die, C!connection
<1>3. CallTypes' /\ OneByOne' /\ Queued' /\ Answered' /\ Own'
  BY SMTT(60), <1>1, <1>2 DEF CallTypes, OneByOne, Queued, Answered, Own
<1>4. SentOnce'
  BY <1>1, <1>2 DEF SentOnce, Once, Unrun, C!Unsafe
<1> QED BY <1>3, <1>4 DEF ClientInv

LEMMA ChatterKeeps == ASSUME ClientInv, C!Chatter PROVE ClientInv'
<1> DEFINE line == <<0, "notification">>
           R == Nat \X (CallKinds \cup {"notification"})
<1>1. CallTypes /\ OneByOne /\ Queued /\ Answered /\ SentOnce /\ Own
  BY DEF ClientInv
<1>2. /\ pipe' = Append(pipe, line)
      /\ UNCHANGED <<transport, made, doing, id, owner, inbox, effects, given>>
  BY DEF C!Chatter, C!connection
<1>3. /\ pipe' \in Seq(R) /\ Len(pipe') = Len(pipe) + 1 /\ Len(pipe) \in Nat
      /\ pipe'[Len(pipe) + 1] = line /\ \A i \in 1..Len(pipe) : pipe'[i] = pipe[i]
  <2>1. pipe \in Seq(R) /\ line \in R
    BY <1>1 DEF CallTypes
  <2> HIDE DEF R, line
  <2> QED BY <1>2, <2>1
<1>4. CallTypes' /\ OneByOne' /\ Queued' /\ Own'
  <2>1. CallTypes'
    BY <1>1, <1>2, <1>3 DEF CallTypes
  <2>2. OneByOne' /\ Queued' /\ Own'
    BY <1>1, <1>2 DEF OneByOne, Queued, Own
  <2> QED BY <2>1, <2>2
<1>5. Answered'
  <2>1. \A i \in 1..Len(pipe') : i = Len(pipe) + 1 \/ i \in 1..Len(pipe)
    BY <1>3
  <2> QED BY <1>1, <1>2, <1>3, <2>1 DEF Answered
<1>6. SentOnce'
  BY <1>1, <1>2 DEF SentOnce, Once, Unrun, C!Unsafe
<1> QED BY <1>4, <1>5, <1>6 DEF ClientInv

LEMMA ClientStep == ASSUME ClientInv, C!Next PROVE ClientInv'
<1>1. CASE C!Open \/ C!List
  <2>1. UNCHANGED <<transport, made, doing, id, owner, inbox, pipe, effects, given>>
    BY <1>1 DEF C!Open, C!List
  <2>2. CallTypes' /\ OneByOne' /\ Queued'
    BY <2>1 DEF ClientInv, CallTypes, OneByOne, Queued
  <2>3. Answered' /\ Own'
    BY <2>1 DEF ClientInv, Answered, Own
  <2>4. SentOnce'
    BY <2>1 DEF ClientInv, SentOnce, Once, Unrun, C!Unsafe
  <2> QED BY <2>2, <2>3, <2>4 DEF ClientInv
<1> QED BY <1>1, BeginKeeps, SendKeeps, ExchangeKeeps, ServeKeeps, DieKeeps, ChatterKeeps,
           ReadLineKeeps, ReadEndKeeps DEF C!Next

LEMMA ClientInvariance == PartsSpec => []ClientInv
<1>1. Start => ClientInv
  BY ClientInit DEF Start
<1>2. ClientInv /\ [Move]_allVars => ClientInv'
  BY ClientStep, ClientStutter DEF Move, Calling, InSession, Teaching, Preparing, allVars
<1> QED BY <1>1, <1>2, PTL DEF PartsSpec

(* For any tools, requests and retries, and whatever the region answers,   *)
(* late, truncated or not at all: a call that is not safe to repeat is run *)
(* by the region once at most (client.py, _is_retryable and call).         *)
THEOREM ClientAtMostOnce == PartsSpec => []AtMostOnce
<1>1. ClientInv => AtMostOnce
  BY DEF ClientInv, SentOnce, Once, CallTypes, AtMostOnce, C!AtMostOnce
<1> QED BY <1>1, ClientInvariance, PTL

(* What a call returns is the answer to a message it sent itself, though   *)
(* answers to attempts that were given up come late; and a result means    *)
(* that the region ran it (client.py, protocol.py, unwrap).                *)
THEOREM ClientOwnAnswer == PartsSpec => []OwnAnswer
<1>1. ClientInv => /\ DOMAIN given = 1..Len(given) /\ DOMAIN owner = 1..id
  BY DEF ClientInv, CallTypes
<1>2. ClientInv => OwnAnswer
  BY <1>1 DEF ClientInv, Own, OwnAnswer, C!OwnAnswer
<1> QED BY <1>2, ClientInvariance, PTL

-----------------------------------------------------------------------------
(* The sessions of the arms.                                               *)

Hits == [id : DOMAIN SourceIn, located : BOOLEAN]
Statuses == {"succeeded", "partial", "failed"}

(* One arm answers at a time, and one that searches when there are hits.   *)
AtWork ==
  /\ todo \subseteq Arms /\ arm \subseteq Arms /\ \A a, b \in arm : a = b
  /\ stage \in {"ask", "search", "read"} => arm \subseteq S!Searching
  /\ hits \in Seq(Hits)
  /\ answer \in [status : Statuses, error : BOOLEAN, calls : Seq(BOOLEAN)]

(* What is called succeeded has no failed search and none cut short.       *)
Whole(record) ==
  record.status = "succeeded" =>
    ~record.error /\ \A i \in DOMAIN record.calls : ~record.calls[i]

SaidWhole == Whole(answer) /\ \A a \in DOMAIN answers : Whole(answers[a])

(* A passage whose text is settled, and that holds it.                     *)
Settled(p) == \A key \in S!Pick(p) : key \in DOMAIN documents
Gets(p) == \E key \in S!Pick(p) : documents[key]
AsFetched(p) == Settled(p) /\ p.whole = Gets(p)

(* The passages of an arm that searches are hydrated in their order.       *)
InOrder ==
  /\ stage \in {"start", "ask", "search"} => reading = 0
  /\ stage \in {"read", "compose"} /\ arm \subseteq S!Searching =>
       /\ Len(passages) \in Nat /\ DOMAIN passages = 1..Len(passages) /\ reading \in 0..Len(passages)
       /\ \A i \in 1..Len(passages) :
            LET p == passages[i] IN p = [id |-> p.id, located |-> p.located, whole |-> p.whole]
       /\ \A p \in {passages[i] : i \in 1..reading} : AsFetched(p)
       /\ stage = "compose" => reading = Len(passages)

(* And so are those of the answers of this process; the answers of one     *)
(* before it were read alike.                                              *)
ReadBy(a) == {answers[a].read[i] : i \in DOMAIN answers[a].read}
ReadAsFetched ==
  /\ lives \in Nat /\ \A a \in DOMAIN answers : answers[a].by \in 0..lives
  /\ \A a \in DOMAIN answers \cap S!Searching : answers[a].by = lives =>
       \A p \in ReadBy(a) : AsFetched(p)
  /\ S!ReadAlike

SessionInv == AtWork /\ SaidWhole /\ InOrder /\ ReadAsFetched

(* The key that hydrate comes to.                                          *)
Comes(p) ==
  LET lab == <<"lab", p.id>>
      region == <<"region", p.id>>
  IN S!Pick(p) = IF ~fetches THEN {}
                 ELSE IF p.id \in Submitted
                 THEN IF p.located /\ lab \in DOMAIN documents /\ ~documents[lab] THEN {region} ELSE {lab}
                 ELSE IF p.located THEN {region} ELSE {}

LEMMA PickOf ==
  ASSUME NEW p
  PROVE  Comes(p)
<1> DEFINE lab == <<"lab", p.id>>
           region == <<"region", p.id>>
           keys == S!Keys(p)
           open == {i \in DOMAIN keys : \A j \in 1..(i - 1) : keys[j] \in DOMAIN documents /\ ~documents[keys[j]]}
           last == CHOOSE i \in open : \A j \in open : j <= i
<1>1. S!Pick(p) = IF ~fetches \/ open = {} THEN {} ELSE {keys[last]}
  BY DEF S!Pick
<1>2. keys = (IF p.id \in Submitted THEN <<lab>> ELSE <<>>) \o (IF p.located THEN <<region>> ELSE <<>>)
  BY DEF S!Keys
<1> HIDE DEF keys, lab, region
<1>3. CASE p.id \notin Submitted /\ ~p.located
  <2>1. keys = <<>> /\ open = {}
    BY <1>2, <1>3
  <2> QED BY <1>1, <1>3, <2>1 DEF lab, region, Comes
<1>4. CASE p.id \notin Submitted /\ p.located
  <2>1. Len(keys) = 1 /\ keys \in Seq({region}) /\ keys[1] = region
    BY <1>2, <1>4
  <2>2. open = {1}
    BY <2>1
  <2>3. last = 1
    BY <2>2
  <2> QED BY <1>1, <1>4, <2>1, <2>2, <2>3 DEF lab, region, Comes
<1>5. CASE p.id \in Submitted /\ ~p.located
  <2>1. Len(keys) = 1 /\ keys \in Seq({lab}) /\ keys[1] = lab
    BY <1>2, <1>5
  <2>2. open = {1}
    BY <2>1
  <2>3. last = 1
    BY <2>2
  <2> QED BY <1>1, <1>5, <2>1, <2>2, <2>3 DEF lab, region, Comes
<1>6. CASE p.id \in Submitted /\ p.located
  <2>1. Len(keys) = 2 /\ keys \in Seq({lab, region}) /\ keys[1] = lab /\ keys[2] = region
    BY <1>2, <1>6
  <2>2. CASE lab \in DOMAIN documents /\ ~documents[lab]
    <3>1. open = {1, 2}
      BY <2>1, <2>2
    <3>2. last = 2
      BY <3>1
    <3> QED BY <1>1, <1>6, <2>1, <2>2, <3>1, <3>2 DEF lab, region, Comes
  <2>3. CASE ~(lab \in DOMAIN documents /\ ~documents[lab])
    <3>1. open = {1}
      BY <2>1, <2>3
    <3>2. last = 1
      BY <3>1
    <3> QED BY <1>1, <1>6, <2>1, <2>3, <3>1, <3>2 DEF lab, region, Comes
  <2> QED BY <2>2, <2>3
<1> QED BY <1>3, <1>4, <1>5, <1>6

LEMMA PicksOf == (\A q : Comes(q))'
<1>1. \A q : Comes(q)
  BY PickOf
<1> QED BY <1>1, PTL

(* What is settled stays as it is when another document is fetched.        *)
LEMMA Remembers ==
  ASSUME NEW p, AsFetched(p), NEW key, NEW text, key \notin DOMAIN documents,
         documents' = S!With(documents, key, text), UNCHANGED fetches
  PROVE  AsFetched(p)'
<1> DEFINE lab == <<"lab", p.id>>
           region == <<"region", p.id>>
<1>1. /\ \A k \in DOMAIN documents : k \in DOMAIN documents' /\ documents'[k] = documents[k]
      /\ S!Pick(p) \subseteq DOMAIN documents
  BY DEF S!With, AsFetched, Settled
<1>2. S!Pick(p)' = S!Pick(p)
  <2>1. S!Pick(p) = IF ~fetches THEN {}
                    ELSE IF p.id \in Submitted
                    THEN IF p.located /\ lab \in DOMAIN documents /\ ~documents[lab] THEN {region} ELSE {lab}
                    ELSE IF p.located THEN {region} ELSE {}
    BY PickOf DEF Comes
  <2>2. S!Pick(p)' = IF ~fetches THEN {}
                     ELSE IF p.id \in Submitted
                     THEN IF p.located /\ lab \in DOMAIN documents' /\ ~documents'[lab] THEN {region} ELSE {lab}
                     ELSE IF p.located THEN {region} ELSE {}
    <3>1. Comes(p)'
      BY PicksOf
    <3> QED BY <3>1 DEF Comes
  <2>3. CASE fetches /\ p.id \in Submitted /\ p.located
    <3>1. lab \in DOMAIN documents
      BY <1>1, <2>1, <2>3
    <3>2. lab \in DOMAIN documents' /\ documents'[lab] = documents[lab]
      BY <1>1, <3>1
    <3> QED BY <2>1, <2>2, <2>3, <3>1, <3>2
  <2>4. CASE ~(fetches /\ p.id \in Submitted /\ p.located)
    BY <2>1, <2>2, <2>4
  <2> QED BY <2>3, <2>4
<1>3. Gets(p)' = Gets(p)
  BY <1>1, <1>2 DEF Gets
<1> QED BY <1>1, <1>2, <1>3 DEF AsFetched, Settled

LEMMA StillFetched ==
  ASSUME NEW p, AsFetched(p), UNCHANGED <<documents, fetches>>
  PROVE  AsFetched(p)'
BY DEF AsFetched, Settled, Gets, S!Pick

LEMMA SessionInit == S!Init => SessionInv
<1> SUFFICES ASSUME S!Init PROVE SessionInv
  OBVIOUS
<1> USE DEF S!Init, S!Blank
<1>1. AtWork
  BY DEF AtWork, Statuses
<1>2. SaidWhole
  BY DEF SaidWhole, Whole
<1>3. InOrder
  BY DEF InOrder
<1>4. ReadAsFetched
  BY DEF ReadAsFetched, S!ReadAlike
<1> QED BY <1>1, <1>2, <1>3, <1>4 DEF SessionInv

(* The answers of before stay as they are.                                 *)
LEMMA AnswersStand ==
  ASSUME ReadAsFetched, UNCHANGED <<documents, fetches, lives, answers>>
  PROVE  ReadAsFetched'
<1>1. ASSUME NEW p, AsFetched(p) PROVE AsFetched(p)'
  BY <1>1, StillFetched
<1> QED BY <1>1 DEF ReadAsFetched, ReadBy, S!ReadAlike

LEMMA SessionStutter == SessionInv /\ UNCHANGED sessionVars => SessionInv'
<1> SUFFICES ASSUME SessionInv, UNCHANGED sessionVars PROVE SessionInv'
  OBVIOUS
<1>1. AtWork /\ SaidWhole /\ InOrder /\ ReadAsFetched
  BY DEF SessionInv
<1>2. UNCHANGED <<todo, arm, stage, hits, answer, passages, reading, documents, fetches, lives, answers>>
  BY DEF sessionVars
<1>3. AtWork'
  BY <1>1, <1>2 DEF AtWork
<1>4. SaidWhole'
  BY <1>1, <1>2 DEF SaidWhole, Whole
<1>5. InOrder'
  <2>1. ASSUME NEW p, AsFetched(p) PROVE AsFetched(p)'
    BY <1>2, <2>1, StillFetched
  <2> QED BY <1>1, <1>2, <2>1 DEF InOrder
<1>6. ReadAsFetched'
  BY <1>1, <1>2, AnswersStand
<1> QED BY <1>3, <1>4, <1>5, <1>6 DEF SessionInv

(* What is put on file is whole, and read as fetched.                      *)
LEMMA RecordKeeps ==
  ASSUME SessionInv, NEW record, S!Record(record), Whole(record),
         record.by = lives,
         arm \subseteq S!Searching => \A i \in DOMAIN record.read : AsFetched(record.read[i])
  PROVE  SessionInv'
<1>1. AtWork /\ SaidWhole /\ InOrder /\ ReadAsFetched
  BY DEF SessionInv
<1>2. PICK a \in arm : answers' = S!With(answers, a, record)
  BY DEF S!Record
<1>3. /\ arm' = {} /\ stage' = "start" /\ answer' = S!Blank /\ hits' = <<>> /\ reading' = 0
      /\ UNCHANGED <<todo, documents, fetches, lives>>
  BY DEF S!Record, S!Over, S!shared
<1>4. /\ DOMAIN answers' = DOMAIN answers \cup {a} /\ answers'[a] = record
      /\ \A b \in DOMAIN answers : b # a => answers'[b] = answers[b]
  BY <1>2 DEF S!With
<1>5. AtWork'
  BY <1>1, <1>3 DEF AtWork, S!Blank, Statuses
<1>6. SaidWhole'
  <2>1. Whole(answer)'
    BY <1>3 DEF Whole, S!Blank
  <2>2. ASSUME NEW b \in DOMAIN answers' PROVE Whole(answers'[b])
    BY <1>1, <1>4, <2>2 DEF SaidWhole
  <2> QED BY <2>1, <2>2 DEF SaidWhole
<1>7. InOrder'
  BY <1>3 DEF InOrder
<1>8. /\ lives' \in Nat
      /\ \A b \in DOMAIN answers' : answers'[b].by \in 0..lives'
  BY <1>1, <1>3, <1>4 DEF ReadAsFetched
<1>9. ASSUME NEW b \in DOMAIN answers' \cap S!Searching, answers'[b].by = lives, NEW p \in ReadBy(b)'
      PROVE  AsFetched(p)
  <2>1. CASE b = a
    <3>1. arm \subseteq S!Searching
      BY <1>1, <1>2, <1>9, <2>1 DEF AtWork
    <3> QED BY <1>4, <1>9, <2>1, <3>1 DEF ReadBy
  <2>2. CASE b # a
    <3>1. b \in DOMAIN answers /\ answers'[b] = answers[b]
      BY <1>4, <1>9, <2>2
    <3> QED BY <1>1, <1>9, <3>1 DEF ReadAsFetched, ReadBy
  <2> QED BY <2>1, <2>2
<1>10. S!ReadAlike'
  <2> SUFFICES ASSUME NEW b \in DOMAIN answers' \cap S!Searching, NEW c \in DOMAIN answers' \cap S!Searching,
                      answers'[b].by = answers'[c].by,
                      NEW i \in DOMAIN answers'[b].read, NEW j \in DOMAIN answers'[c].read,
                      answers'[b].read[i].id = answers'[c].read[j].id,
                      answers'[b].read[i].located = answers'[c].read[j].located
               PROVE  answers'[b].read[i].whole = answers'[c].read[j].whole
    BY DEF S!ReadAlike
  <2>1. CASE b # a /\ c # a
    <3>1. /\ b \in DOMAIN answers /\ answers'[b] = answers[b]
          /\ c \in DOMAIN answers /\ answers'[c] = answers[c]
      BY <1>4, <2>1
    <3> QED BY <1>1, <3>1 DEF ReadAsFetched, S!ReadAlike
  <2>2. CASE b = a \/ c = a
    <3>1. answers'[b].by = lives /\ answers'[c].by = lives
      BY <1>4, <2>2
    <3>2. PICK p, q : p = answers'[b].read[i] /\ q = answers'[c].read[j]
      OBVIOUS
    <3>3. AsFetched(p) /\ AsFetched(q)
      BY <1>9, <3>1, <3>2 DEF ReadBy
    <3>4. S!Pick(p) = S!Pick(q)
      BY <3>2, PickOf DEF Comes
    <3> QED BY <3>2, <3>3, <3>4 DEF AsFetched, Gets
  <2> QED BY <2>1, <2>2
<1>11. ReadAsFetched'
  <2>1. ASSUME NEW p, AsFetched(p) PROVE AsFetched(p)'
    BY <1>3, <2>1, StillFetched
  <2> QED BY <1>3, <1>8, <1>9, <1>10, <2>1 DEF ReadAsFetched
<1> QED BY <1>5, <1>6, <1>7, <1>11 DEF SessionInv

LEMMA EscapeKeeps == ASSUME SessionInv, S!Escape PROVE SessionInv'
BY RecordKeeps DEF S!Escape, Whole

(* The passages are as many as there are places, and none is hydrated.     *)
LEMMA PassagesListed ==
  ASSUME NEW hs \in Seq(Hits), NEW ps, ps = S!PassagesFrom(hs)
  PROVE  /\ Len(ps) \in Nat /\ DOMAIN ps = 1..Len(ps)
         /\ \A i \in 1..Len(ps) : ps[i] = [id |-> ps[i].id, located |-> ps[i].located, whole |-> ps[i].whole]
<1> DEFINE new == {i \in DOMAIN hs : \A j \in 1..(i - 1) : hs[j].id # hs[i].id}
           place(i) == S!Cardinality({j \in new : j <= i})
           kept == {i \in new : place(i) <= Limit}
           hit(n) == hs[CHOOSE i \in kept : place(i) = n]
<1>1. ps = [n \in 1..S!Cardinality(kept) |-> [id |-> hit(n).id, located |-> hit(n).located, whole |-> FALSE]]
  BY DEF S!PassagesFrom
<1>2. S!Cardinality(kept) \in Nat
  <2>1. IsFiniteSet(1..Len(hs)) /\ kept \subseteq 1..Len(hs)
    BY FS_Interval
  <2>2. IsFiniteSet(kept)
    BY <2>1, FS_Subset
  <2> QED BY <2>2, FS_CardinalityType DEF S!Cardinality, Cardinality
<1> HIDE DEF hit, kept
<1>3. PICK m \in Nat : m = S!Cardinality(kept)
  BY <1>2
<1>4. DOMAIN ps = 1..m /\ Len(ps) = m
  BY <1>1, <1>3
<1>5. ASSUME NEW i \in 1..m
      PROVE  ps[i] = [id |-> ps[i].id, located |-> ps[i].located, whole |-> ps[i].whole]
  <2>1. ps[i] = [id |-> hit(i).id, located |-> hit(i).located, whole |-> FALSE]
    BY <1>1, <1>3, <1>5
  <2> QED BY <2>1
<1> QED BY <1>3, <1>4, <1>5

LEMMA StartKeeps == ASSUME SessionInv, S!Start PROVE SessionInv'
<1>1. AtWork /\ SaidWhole /\ InOrder /\ ReadAsFetched
  BY DEF SessionInv
<1>2. PICK a \in todo : /\ todo' = todo \ {a} /\ arm' = {a}
                        /\ stage' = IF a \in S!Searching THEN "ask" ELSE "compose"
  BY DEF S!Start
<1>3. stage = "start" /\ UNCHANGED <<answer, hits, reading, documents, fetches, lives, answers>>
  BY DEF S!Start, S!Carried
<1>4. AtWork'
  BY <1>1, <1>2, <1>3 DEF AtWork, S!Searching
<1>5. SaidWhole'
  BY <1>1, <1>3 DEF SaidWhole, Whole
<1>6. InOrder'
  <2>1. reading' = 0
    BY <1>1, <1>3 DEF InOrder
  <2>2. stage' # "read" /\ (stage' = "compose" => ~(arm' \subseteq S!Searching))
    BY <1>2
  <2> QED BY <2>1, <2>2 DEF InOrder, S!Searching
<1>7. ReadAsFetched'
  BY <1>1, <1>3, AnswersStand
<1> QED BY <1>4, <1>5, <1>6, <1>7 DEF SessionInv

(* The end of a retrieval: the passages are there, and none is hydrated.   *)
LEMMA EndRetrievalKeeps ==
  ASSUME InOrder, stage \in {"ask", "search"}, NEW hs \in Seq(Hits), S!EndRetrieval(hs), reading' = reading
  PROVE  InOrder'
<1>1. reading' = 0 /\ stage' = "read" /\ passages' = S!PassagesFrom(hs)
  BY DEF InOrder, S!EndRetrieval
<1>2. /\ Len(passages') \in Nat /\ DOMAIN passages' = 1..Len(passages')
      /\ \A i \in 1..Len(passages') :
           LET p == passages'[i] IN p = [id |-> p.id, located |-> p.located, whole |-> p.whole]
  BY <1>1, PassagesListed
<1>3. reading' \in 0..Len(passages') /\ 1..reading' = {}
  BY <1>1, <1>2
<1>4. {passages'[i] : i \in 1..reading'} = {}
  BY <1>3
<1> QED BY <1>1, <1>2, <1>3, <1>4 DEF InOrder

LEMMA QueriesKeeps == ASSUME SessionInv, S!Queries PROVE SessionInv'
<1>1. AtWork /\ SaidWhole /\ InOrder /\ ReadAsFetched
  BY DEF SessionInv
<1>2. CASE S!Escape
  BY <1>2, EscapeKeeps
<1>3. CASE ~S!Escape
  <2>1. /\ stage = "ask" /\ (S!EndRetrieval(hits) \/ stage' = "search")
        /\ UNCHANGED <<todo, arm, answer, hits, reading, documents, fetches, lives, answers>>
    BY <1>3 DEF S!Queries, S!shared
  <2>2. stage' \in {"read", "search"}
    BY <2>1 DEF S!EndRetrieval
  <2>3. AtWork'
    BY <1>1, <2>1, <2>2 DEF AtWork
  <2>4. SaidWhole'
    BY <1>1, <2>1 DEF SaidWhole, Whole
  <2>5. InOrder'
    <3>1. CASE S!EndRetrieval(hits)
      BY <1>1, <2>1, <3>1, EndRetrievalKeeps DEF AtWork
    <3>2. CASE stage' = "search"
      BY <1>1, <2>1, <3>2 DEF InOrder
    <3> QED BY <2>1, <3>1, <3>2
  <2>6. ReadAsFetched'
    BY <1>1, <2>1, AnswersStand
  <2> QED BY <2>3, <2>4, <2>5, <2>6 DEF SessionInv
<1> QED BY <1>2, <1>3

LEMMA SearchKeeps == ASSUME SessionInv, S!Search PROVE SessionInv'
<1>1. AtWork /\ SaidWhole /\ InOrder /\ ReadAsFetched
  BY DEF SessionInv
<1>2. stage = "search" /\ UNCHANGED <<todo, arm, reading, documents, fetches, lives, answers>>
  BY DEF S!Search, S!shared
<1>3. PICK a \in arm :
         \/ \E response \in S!Responses(a) :
              /\ hits' = hits \o response[1]
              /\ answer' = [answer EXCEPT !.status = S!Searched(response[2]), !.calls = Append(@, response[2])]
              /\ stage' = stage \/ stage' = "ask" \/ S!EndRetrieval(hits')
         \/ /\ answer' = [answer EXCEPT !.status = "failed", !.error = TRUE]
            /\ S!EndRetrieval(hits) /\ UNCHANGED hits
  BY DEF S!Search
<1>4. hits' \in Seq(Hits)
  <2>1. CASE hits' = hits
    BY <1>1, <2>1 DEF AtWork
  <2>2. CASE \E response \in S!Responses(a) : hits' = hits \o response[1]
    <3>1. a \in Arms \cap S!Searching
      BY <1>1, <1>2, <1>3 DEF AtWork
    <3>2. PICK response \in S!Responses(a) : hits' = hits \o response[1]
      BY <2>2
    <3>3. response[1] \in Seq(Hits)
      BY <3>1, <3>2, SearchAssumption DEF S!Responses, Hits
    <3> HIDE DEF Hits
    <3> QED BY <1>1, <3>2, <3>3 DEF AtWork
  <2> QED BY <1>3, <2>1, <2>2
<1>5. /\ answer' \in [status : Statuses, error : BOOLEAN, calls : Seq(BOOLEAN)]
      /\ Whole(answer')
  <2>1. /\ answer \in [status : Statuses, error : BOOLEAN, calls : Seq(BOOLEAN)]
        /\ Whole(answer)
    BY <1>1 DEF AtWork, SaidWhole
  <2>2. CASE answer' = [answer EXCEPT !.status = "failed", !.error = TRUE]
    BY <2>1, <2>2 DEF Statuses, Whole
  <2>3. CASE \E response \in S!Responses(a) :
               answer' = [answer EXCEPT !.status = S!Searched(response[2]), !.calls = Append(@, response[2])]
    <3>1. PICK partial \in BOOLEAN :
             answer' = [answer EXCEPT !.status = S!Searched(partial), !.calls = Append(@, partial)]
      BY <2>3 DEF S!Responses
    <3>2. /\ answer'.status = (IF partial THEN "partial" ELSE answer.status)
          /\ answer'.error = answer.error /\ answer'.calls = Append(answer.calls, partial)
          /\ answer' = [status |-> answer'.status, error |-> answer'.error, calls |-> answer'.calls]
      BY <2>1, <3>1 DEF S!Searched
    <3>3. answer'.calls \in Seq(BOOLEAN) /\ answer'.status \in Statuses
      BY <2>1, <3>2 DEF Statuses
    <3>4. ASSUME answer'.status = "succeeded" PROVE ~answer'.error /\ \A i \in DOMAIN answer'.calls : ~answer'.calls[i]
      <4>1. ~partial /\ answer.status = "succeeded"
        BY <3>2, <3>4
      <4>2. ~answer.error /\ \A j \in DOMAIN answer.calls : ~answer.calls[j]
        BY <2>1, <4>1 DEF Whole
      <4>3. ASSUME NEW i \in DOMAIN answer'.calls PROVE ~answer'.calls[i]
        <5>1. i \in DOMAIN answer.calls \/ answer'.calls[i] = partial
          BY <2>1, <3>2, <4>3
        <5>2. i \in DOMAIN answer.calls => answer'.calls[i] = answer.calls[i]
          BY <2>1, <3>2
        <5> QED BY <4>1, <4>2, <5>1, <5>2
      <4> QED BY <3>2, <4>2, <4>3
    <3>5. Whole(answer')
      BY <3>4 DEF Whole
    <3> QED BY <2>1, <3>2, <3>3, <3>5
  <2> QED BY <1>3, <2>2, <2>3
<1>6. stage' \in {"search", "ask", "read"}
  BY <1>2, <1>3 DEF S!EndRetrieval
<1>7. AtWork'
  BY <1>1, <1>2, <1>4, <1>5, <1>6 DEF AtWork
<1>8. SaidWhole'
  BY <1>1, <1>2, <1>5 DEF SaidWhole, Whole
<1>9. InOrder'
  <2>1. CASE stage' \in {"search", "ask"}
    BY <1>1, <1>2, <2>1 DEF InOrder
  <2>2. CASE stage' = "read"
    <3>1. S!EndRetrieval(hits')
      BY <1>2, <1>3, <2>2
    <3> QED BY <1>1, <1>2, <1>4, <3>1, EndRetrievalKeeps
  <2> QED BY <1>6, <2>1, <2>2
<1>10. ReadAsFetched'
  BY <1>1, <1>2, AnswersStand
<1> QED BY <1>7, <1>8, <1>9, <1>10 DEF SessionInv

(* A document is fetched once: what was settled before stays settled.      *)
LEMMA FetchKeeps == ASSUME SessionInv, S!Fetch PROVE SessionInv'
<1>1. AtWork /\ SaidWhole /\ InOrder /\ ReadAsFetched
  BY DEF SessionInv
<1>2. CASE S!Escape
  BY <1>2, EscapeKeeps
<1>3. CASE ~S!Escape
  <2>1. PICK key \in S!Pick(passages[reading + 1]) : /\ key \notin DOMAIN documents
                                                     /\ \E text \in BOOLEAN : documents' = S!With(documents, key, text)
    BY <1>3 DEF S!Fetch
  <2>2. PICK text \in BOOLEAN : documents' = S!With(documents, key, text)
    BY <2>1
  <2>3. stage = "read" /\ UNCHANGED <<todo, arm, stage, answer, hits, passages, reading, fetches, lives, answers>>
    BY <1>3 DEF S!Fetch
  <2>4. ASSUME NEW p, AsFetched(p) PROVE AsFetched(p)'
    BY <2>1, <2>2, <2>3, <2>4, Remembers
  <2>5. AtWork'
    BY <1>1, <2>3 DEF AtWork
  <2>6. SaidWhole'
    BY <1>1, <2>3 DEF SaidWhole, Whole
  <2>7. InOrder'
    BY <1>1, <2>3, <2>4 DEF InOrder
  <2>8. ReadAsFetched'
    BY <1>1, <2>3, <2>4 DEF ReadAsFetched, ReadBy, S!ReadAlike
  <2> QED BY <2>5, <2>6, <2>7, <2>8 DEF SessionInv
<1> QED BY <1>2, <1>3

LEMMA HydrateKeeps == ASSUME SessionInv, S!Hydrate PROVE SessionInv'
<1>1. AtWork /\ SaidWhole /\ InOrder /\ ReadAsFetched
  BY DEF SessionInv
<1>2. /\ stage = "read" /\ reading < Len(passages) /\ reading' = reading + 1
      /\ Settled(passages[reading + 1])
      /\ passages' = [passages EXCEPT ![reading'].whole = \E key \in S!Pick(passages[reading']) : documents[key]]
      /\ UNCHANGED <<todo, arm, stage, answer, hits, documents, fetches, lives, answers>>
  BY DEF S!Hydrate, S!shared, Settled
<1>3. AtWork'
  BY <1>1, <1>2 DEF AtWork
<1>4. SaidWhole'
  BY <1>1, <1>2 DEF SaidWhole, Whole
<1>5. InOrder'
  <2>1. /\ Len(passages) \in Nat /\ DOMAIN passages = 1..Len(passages) /\ reading \in 0..Len(passages)
        /\ \A i \in 1..Len(passages) :
             LET p == passages[i] IN p = [id |-> p.id, located |-> p.located, whole |-> p.whole]
        /\ \A p \in {passages[i] : i \in 1..reading} : AsFetched(p)
    BY <1>1, <1>2 DEF InOrder, AtWork
  <2>2. PICK n \in 1..Len(passages) : n = reading' /\ n = reading + 1
    BY <1>2, <2>1
  <2>3. PICK old : old = passages[n]
    OBVIOUS
  <2>4. PICK new : new = [id |-> old.id, located |-> old.located, whole |-> Gets(old)]
    OBVIOUS
  <2>5. passages' = [passages EXCEPT ![n] = new]
    <3>1. old = [id |-> old.id, located |-> old.located, whole |-> old.whole]
      BY <2>1, <2>3
    <3>2. passages' = [passages EXCEPT ![n] = [old EXCEPT !.whole = Gets(old)]]
      BY <1>2, <2>2, <2>3 DEF Gets
    <3>3. [old EXCEPT !.whole = Gets(old)] = new
      BY <2>4, <3>1
    <3> QED BY <3>2, <3>3
  <2>6. /\ DOMAIN passages' = 1..Len(passages) /\ passages'[n] = new
        /\ \A i \in 1..Len(passages) : i # n => passages'[i] = passages[i]
    BY <2>1, <2>5
  <2>7. Len(passages') = Len(passages)
    BY <2>1, <2>6
  <2>8. AsFetched(new)
    <3>1. S!Pick(new) = S!Pick(old)
      BY <2>4, PickOf DEF Comes
    <3>2. Settled(old) /\ Settled(new) = Settled(old) /\ Gets(new) = Gets(old)
      BY <1>2, <2>2, <2>3, <3>1 DEF Settled, Gets
    <3> QED BY <2>4, <3>2 DEF AsFetched
  <2>9. ASSUME NEW p, AsFetched(p) PROVE AsFetched(p)'
    BY <1>2, <2>9, StillFetched
  <2>10. ASSUME NEW i \in 1..reading' PROVE AsFetched(passages'[i])
    BY <2>1, <2>2, <2>6, <2>8, <2>10
  <2>11. \A p \in {passages'[i] : i \in 1..reading'} : AsFetched(p)'
    BY <2>9, <2>10
  <2>12. \A i \in 1..Len(passages) :
           LET p == passages'[i] IN p = [id |-> p.id, located |-> p.located, whole |-> p.whole]
    BY <2>1, <2>4, <2>6
  <2>13. reading' \in 0..Len(passages)
    BY <2>2
  <2> QED BY <1>2, <2>1, <2>6, <2>7, <2>11, <2>12, <2>13 DEF InOrder
<1>6. ReadAsFetched'
  BY <1>1, <1>2, AnswersStand
<1> QED BY <1>3, <1>4, <1>5, <1>6 DEF SessionInv

LEMMA HydratedKeeps == ASSUME SessionInv, S!Hydrated PROVE SessionInv'
<1>1. AtWork /\ SaidWhole /\ InOrder /\ ReadAsFetched
  BY DEF SessionInv
<1>2. /\ stage = "read" /\ stage' = "compose" /\ reading = Len(passages)
      /\ UNCHANGED <<todo, arm, answer, hits, passages, reading, documents, fetches, lives, answers>>
  BY DEF S!Hydrated, S!shared
<1>3. AtWork'
  BY <1>1, <1>2 DEF AtWork
<1>4. SaidWhole'
  BY <1>1, <1>2 DEF SaidWhole, Whole
<1>5. InOrder'
  <2>1. ASSUME NEW p, AsFetched(p) PROVE AsFetched(p)'
    BY <1>2, <2>1, StillFetched
  <2> QED BY <1>1, <1>2, <2>1 DEF InOrder
<1>6. ReadAsFetched'
  BY <1>1, <1>2, AnswersStand
<1> QED BY <1>3, <1>4, <1>5, <1>6 DEF SessionInv

LEMMA ComposeKeeps == ASSUME SessionInv, S!Compose PROVE SessionInv'
<1>1. AtWork /\ SaidWhole /\ InOrder /\ ReadAsFetched
  BY DEF SessionInv
<1>2. CASE S!Escape
  BY <1>2, EscapeKeeps
<1>3. CASE ~S!Escape
  <2> DEFINE record == [status |-> IF S!Claims(passages) = <<>> THEN "abstained" ELSE answer.status,
                        error |-> answer.error, calls |-> answer.calls, read |-> passages,
                        claims |-> S!Claims(passages), by |-> lives]
  <2>1. stage = "compose" /\ S!Record(record)
    BY <1>3 DEF S!Compose
  <2>2. Whole(record)
    BY <1>1 DEF SaidWhole, Whole
  <2>3. arm \subseteq S!Searching => \A i \in DOMAIN record.read : AsFetched(record.read[i])
    BY <1>1, <2>1 DEF InOrder
  <2>4. record.by = lives
    OBVIOUS
  <2> HIDE DEF record
  <2> QED BY <2>1, <2>2, <2>3, <2>4, RecordKeeps
<1> QED BY <1>2, <1>3

(* A process that begins has read nothing yet.                             *)
LEMMA DeathKeeps == ASSUME SessionInv, S!Die PROVE SessionInv'
<1>1. AtWork /\ SaidWhole /\ InOrder /\ ReadAsFetched
  BY DEF SessionInv
<1>2. /\ lives' = lives + 1
      /\ arm' = {} /\ stage' = "start" /\ answer' = S!Blank /\ hits' = <<>> /\ reading' = 0
  BY DEF S!Die, S!Over
<1>3. PICK kept \in {{}, {a \in DOMAIN answers : answers[a].status # "failed"}} :
         answers' = [a \in kept |-> answers[a]] /\ todo' = Arms \ kept
  BY DEF S!Die
<1>4. DOMAIN answers' \subseteq DOMAIN answers /\ \A a \in DOMAIN answers' : answers'[a] = answers[a]
  BY <1>3
<1>5. AtWork'
  BY <1>2, <1>3 DEF AtWork, S!Blank, Statuses
<1>6. SaidWhole'
  BY <1>1, <1>2, <1>4 DEF SaidWhole, Whole, S!Blank
<1>7. InOrder'
  BY <1>2 DEF InOrder
<1>8. ReadAsFetched'
  <2>1. lives \in Nat /\ \A a \in DOMAIN answers : answers[a].by \in 0..lives
    BY <1>1 DEF ReadAsFetched
  <2>2. lives' \in Nat /\ \A a \in DOMAIN answers' : answers'[a].by \in 0..lives' /\ answers'[a].by # lives'
    BY <1>2, <1>4, <2>1
  <2>3. S!ReadAlike'
    BY <1>1, <1>4 DEF ReadAsFetched, S!ReadAlike
  <2> QED BY <2>2, <2>3 DEF ReadAsFetched
<1> QED BY <1>5, <1>6, <1>7, <1>8 DEF SessionInv

LEMMA SessionStep == SessionInv /\ S!Next => SessionInv'
BY StartKeeps, QueriesKeeps, SearchKeeps, FetchKeeps, HydrateKeeps, HydratedKeeps, ComposeKeeps, DeathKeeps DEF S!Next

LEMMA SessionInvariance == PartsSpec => []SessionInv
<1>1. Start => SessionInv
  BY SessionInit DEF Start
<1>2. SessionInv /\ [Move]_allVars => SessionInv'
  BY SessionStep, SessionStutter DEF Move, Calling, InSession, Teaching, Preparing, allVars
<1> QED BY <1>1, <1>2, PTL DEF PartsSpec

(* Whatever the searches of a session return, and in however many rounds:  *)
(* an answer called succeeded has no search that failed or that the region *)
(* cut short (pheasant_corpus.py, _retrieve, and base.py, _compose).       *)
THEOREM SessionSucceededIsWhole == PartsSpec => []SucceededIsWhole
<1>1. SessionInv => SucceededIsWhole
  BY DEF SessionInv, SaidWhole, Whole, SucceededIsWhole, S!SucceededIsWhole
<1> QED BY <1>1, SessionInvariance, PTL

(* Whatever was fetched before a session and by whom, whatever the region  *)
(* refuses and whenever a process dies: two arms that one process shows    *)
(* the same hit read the same text of it (retrieval.py, Retriever.fetch    *)
(* and hydrate).                                                           *)
THEOREM SessionReadAlike == PartsSpec => []ReadAlike
<1>1. SessionInv => ReadAlike
  BY DEF SessionInv, ReadAsFetched, ReadAlike
<1> QED BY <1>1, SessionInvariance, PTL

-----------------------------------------------------------------------------
(* A nonempty set of naturals has a least element.                         *)
LEMMA LeastNatural ==
  ASSUME NEW T \in SUBSET Nat, T # {}
  PROVE  \E m \in T : \A k \in T : m <= k
<1> DEFINE Less == {ss \in Nat \X Nat : ss[1] < ss[2]}
<1>1. IsWellFoundedOn(Less, Nat)
  BY NatLessThanWellFounded DEF OpToRel
<1>2. PICK m \in T : \A k \in T : <<k, m>> \notin Less
  <2> HIDE DEF Less
  <2> QED BY <1>1, WFMin
<1>3. ASSUME NEW k \in T, k < m PROVE FALSE
  <2>1. <<k, m>> \in Nat \X Nat /\ <<k, m>>[1] < <<k, m>>[2]
    BY <1>3
  <2>2. <<k, m>> \in Less
    BY <2>1, Zenon
  <2> QED BY <2>2, <1>2
<1> QED BY <1>3

(* Induction over 0..n, for a set instead of a predicate.                  *)
LEMMA UpTo ==
  ASSUME NEW n \in Nat, NEW G, 0 \in G, \A i \in 1..n : i - 1 \in G => i \in G
  PROVE  0..n \subseteq G
<1> DEFINE Bad == {i \in 0..n : i \notin G}
<1>1. SUFFICES ASSUME Bad # {} PROVE FALSE
  OBVIOUS
<1>2. PICK m \in Bad : \A k \in Bad : m <= k
  <2>1. Bad \in SUBSET Nat
    OBVIOUS
  <2> HIDE DEF Bad
  <2> QED BY <1>1, <2>1, LeastNatural
<1>3. m \in 1..n /\ m - 1 \in 0..n
  OBVIOUS
<1> QED BY <1>2, <1>3

-----------------------------------------------------------------------------
(* What is learned from the first pass.                                    *)

OnceEach(s) == \A i, j \in DOMAIN s : s[i] = s[j] => i = j

(* The three recursive functions of Learning, as functions that exist.     *)
OneAmong(T, c, x) == IF x \in T THEN Append(c, x) ELSE c
OneListed(c, x) == IF x \notin L!ToSet(c) /\ Len(c) < L!Room THEN Append(c, x) ELSE c

LEMMA AmongSteps ==
  ASSUME NEW s, NEW T, Len(s) \in Nat
  PROVE  \E d : /\ d = [i \in 0..Len(s) |-> IF i = 0 THEN <<>> ELSE OneAmong(T, d[i - 1], s[i])]
                /\ L!Among(s, T) = d[Len(s)]
<1> DEFINE n == Len(s)
           At(d, i) == IF i = 0 THEN <<>> ELSE OneAmong(T, d[i - 1], s[i])
           IsD(m, d) == d = [i \in 0..m |-> At(d, i)]
           G == {m \in 0..n : \E d : IsD(m, d)}
<1>1. 0 \in G
  <2> DEFINE z == [i \in 0..0 |-> <<>>]
  <2>1. \A i \in 0..0 : i = 0
    OBVIOUS
  <2>2. IsD(0, z)
    BY <2>1
  <2> HIDE DEF IsD, z
  <2> QED BY <2>2
<1>2. ASSUME NEW m \in 1..n, m - 1 \in G PROVE m \in G
  <2>1. PICK p : IsD(m - 1, p)
    BY <1>2
  <2> DEFINE q == [i \in 0..m |-> IF i = m THEN At(p, m) ELSE p[i]]
  <2>2. ASSUME NEW i \in 0..m PROVE q[i] = At(q, i)
    <3>1. i = 0 \/ (i - 1 \in 0..m /\ i - 1 # m /\ i - 1 \in 0..(m - 1))
      OBVIOUS
    <3>2. i # 0 => q[i - 1] = p[i - 1]
      BY <3>1
    <3>3. At(q, i) = At(p, i)
      BY <3>2
    <3>4. CASE i = m
      BY <3>3, <3>4
    <3>5. CASE i # m
      <4>1. i \in 0..(m - 1) /\ q[i] = p[i]
        BY <3>5
      <4>2. p[i] = At(p, i)
        <5> HIDE DEF At
        <5> QED BY <2>1, <4>1
      <4> QED BY <4>1, <4>2, <3>3
    <3> QED BY <3>4, <3>5
  <2>3. IsD(m, q)
    <3> HIDE DEF At
    <3>1. q = [i \in 0..m |-> q[i]]
      OBVIOUS
    <3> QED BY <2>2, <3>1
  <2> HIDE DEF IsD, q
  <2> QED BY <2>3
<1>3. n \in G
  <2> HIDE DEF G
  <2>1. 0..n \subseteq G
    BY <1>1, <1>2, UpTo
  <2> QED BY <2>1
<1>4. \E d : IsD(n, d)
  <2> HIDE DEF IsD
  <2> QED BY <1>3
<1>5. \E d : IsD(n, d) /\ L!Among(s, T) = d[n]
  <2> DEFINE c == CHOOSE d : IsD(n, d)
  <2>1. IsD(n, c)
    <3> HIDE DEF IsD
    <3> QED BY <1>4
  <2>2. L!Among(s, T) = c[n]
    BY DEF L!Among, OneAmong
  <2> HIDE DEF c
  <2> QED BY <2>1, <2>2
<1> QED BY <1>5

LEMMA ListedSteps ==
  ASSUME NEW evidence, NEW more, Len(more) \in Nat
  PROVE  \E d : /\ d = [i \in 0..Len(more) |-> IF i = 0 THEN evidence ELSE OneListed(d[i - 1], more[i])]
                /\ L!Listed(evidence, more) = d[Len(more)]
<1> DEFINE n == Len(more)
           At(d, i) == IF i = 0 THEN evidence ELSE OneListed(d[i - 1], more[i])
           IsD(m, d) == d = [i \in 0..m |-> At(d, i)]
           G == {m \in 0..n : \E d : IsD(m, d)}
<1>1. 0 \in G
  <2> DEFINE z == [i \in 0..0 |-> evidence]
  <2>1. \A i \in 0..0 : i = 0
    OBVIOUS
  <2>2. IsD(0, z)
    BY <2>1
  <2> HIDE DEF IsD, z
  <2> QED BY <2>2
<1>2. ASSUME NEW m \in 1..n, m - 1 \in G PROVE m \in G
  <2>1. PICK p : IsD(m - 1, p)
    BY <1>2
  <2> DEFINE q == [i \in 0..m |-> IF i = m THEN At(p, m) ELSE p[i]]
  <2>2. ASSUME NEW i \in 0..m PROVE q[i] = At(q, i)
    <3>1. i = 0 \/ (i - 1 \in 0..m /\ i - 1 # m /\ i - 1 \in 0..(m - 1))
      OBVIOUS
    <3>2. i # 0 => q[i - 1] = p[i - 1]
      BY <3>1
    <3>3. At(q, i) = At(p, i)
      BY <3>2
    <3>4. CASE i = m
      BY <3>3, <3>4
    <3>5. CASE i # m
      <4>1. i \in 0..(m - 1) /\ q[i] = p[i]
        BY <3>5
      <4>2. p[i] = At(p, i)
        <5> HIDE DEF At
        <5> QED BY <2>1, <4>1
      <4> QED BY <4>1, <4>2, <3>3
    <3> QED BY <3>4, <3>5
  <2>3. IsD(m, q)
    <3> HIDE DEF At
    <3>1. q = [i \in 0..m |-> q[i]]
      OBVIOUS
    <3> QED BY <2>2, <3>1
  <2> HIDE DEF IsD, q
  <2> QED BY <2>3
<1>3. n \in G
  <2> HIDE DEF G
  <2>1. 0..n \subseteq G
    BY <1>1, <1>2, UpTo
  <2> QED BY <2>1
<1>4. \E d : IsD(n, d)
  <2> HIDE DEF IsD
  <2> QED BY <1>3
<1>5. \E d : IsD(n, d) /\ L!Listed(evidence, more) = d[n]
  <2> DEFINE c == CHOOSE d : IsD(n, d)
  <2>1. IsD(n, c)
    <3> HIDE DEF IsD
    <3> QED BY <1>4
  <2>2. L!Listed(evidence, more) = c[n]
    BY DEF L!Listed, OneListed
  <2> HIDE DEF c
  <2> QED BY <2>1, <2>2
<1> QED BY <1>5

LEMMA ProvedSteps ==
  ASSUME NEW e, Len(e.claims) \in Nat
  PROVE  \E d : /\ d = [i \in 0..Len(e.claims) |-> IF i = 0 THEN [claims |-> <<>>, evidence |-> <<>>] ELSE L!Prove(e, d[i - 1], e.claims[i])]
                /\ L!Proved(e) = d[Len(e.claims)]
<1> DEFINE n == Len(e.claims)
           At(d, i) == IF i = 0 THEN [claims |-> <<>>, evidence |-> <<>>] ELSE L!Prove(e, d[i - 1], e.claims[i])
           IsD(m, d) == d = [i \in 0..m |-> At(d, i)]
           G == {m \in 0..n : \E d : IsD(m, d)}
<1>1. 0 \in G
  <2> DEFINE z == [i \in 0..0 |-> [claims |-> <<>>, evidence |-> <<>>]]
  <2>1. \A i \in 0..0 : i = 0
    OBVIOUS
  <2>2. IsD(0, z)
    BY <2>1
  <2> HIDE DEF IsD, z
  <2> QED BY <2>2
<1>2. ASSUME NEW m \in 1..n, m - 1 \in G PROVE m \in G
  <2>1. PICK p : IsD(m - 1, p)
    BY <1>2
  <2> DEFINE q == [i \in 0..m |-> IF i = m THEN At(p, m) ELSE p[i]]
  <2>2. ASSUME NEW i \in 0..m PROVE q[i] = At(q, i)
    <3>1. i = 0 \/ (i - 1 \in 0..m /\ i - 1 # m /\ i - 1 \in 0..(m - 1))
      OBVIOUS
    <3>2. i # 0 => q[i - 1] = p[i - 1]
      BY <3>1
    <3>3. At(q, i) = At(p, i)
      BY <3>2
    <3>4. CASE i = m
      BY <3>3, <3>4
    <3>5. CASE i # m
      <4>1. i \in 0..(m - 1) /\ q[i] = p[i]
        BY <3>5
      <4>2. p[i] = At(p, i)
        <5> HIDE DEF At
        <5> QED BY <2>1, <4>1
      <4> QED BY <4>1, <4>2, <3>3
    <3> QED BY <3>4, <3>5
  <2>3. IsD(m, q)
    <3> HIDE DEF At
    <3>1. q = [i \in 0..m |-> q[i]]
      OBVIOUS
    <3> QED BY <2>2, <3>1
  <2> HIDE DEF IsD, q
  <2> QED BY <2>3
<1>3. n \in G
  <2> HIDE DEF G
  <2>1. 0..n \subseteq G
    BY <1>1, <1>2, UpTo
  <2> QED BY <2>1
<1>4. \E d : IsD(n, d)
  <2> HIDE DEF IsD
  <2> QED BY <1>3
<1>5. \E d : IsD(n, d) /\ L!Proved(e) = d[n]
  <2> DEFINE c == CHOOSE d : IsD(n, d)
  <2>1. IsD(n, c)
    <3> HIDE DEF IsD
    <3> QED BY <1>4
  <2>2. L!Proved(e) = c[n]
    BY DEF L!Proved
  <2> HIDE DEF c
  <2> QED BY <2>1, <2>2
<1> QED BY <1>5

(* What is taken of a sequence are its members that are in the set, and    *)
(* none more often than before.                                            *)
LEMMA AmongOf ==
  ASSUME NEW X, NEW s \in Seq(X), NEW T
  PROVE  /\ L!Among(s, T) \in Seq(X)
         /\ L!ToSet(L!Among(s, T)) = L!ToSet(s) \cap T
         /\ OnceEach(s) => OnceEach(L!Among(s, T))
<1> DEFINE n == Len(s)
           Seen(i) == {s[j] : j \in 1..i}
           Fit(c, i) == /\ c \in Seq(X)
                        /\ L!ToSet(c) = Seen(i) \cap T
                        /\ OnceEach(s) => OnceEach(c)
<1>1. PICK d : /\ d = [i \in 0..n |-> IF i = 0 THEN <<>> ELSE OneAmong(T, d[i - 1], s[i])]
               /\ L!Among(s, T) = d[n]
  <2> Len(s) \in Nat
    OBVIOUS
  <2> QED BY AmongSteps, Zenon
<1>2. n \in Nat /\ DOMAIN s = 1..n
  OBVIOUS
<1> HIDE DEF n
<1> DEFINE G == {i \in 0..n : Fit(d[i], i)}
<1>3. 0 \in G
  <2>1. d[0] = <<>>
    BY <1>1, <1>2
  <2>2. Fit(<<>>, 0)
    BY DEF L!ToSet, OnceEach
  <2> HIDE DEF Fit
  <2> QED BY <1>2, <2>1, <2>2
<1>4. ASSUME NEW i \in 1..n, i - 1 \in G PROVE i \in G
  <2> DEFINE c == d[i - 1]
  <2>1. Fit(c, i - 1) /\ i - 1 \in 0..n
    BY <1>4
  <2>2. Seen(i) = Seen(i - 1) \cup {s[i]} /\ s[i] \in X
    BY <1>2
  <2>3. d[i] = OneAmong(T, c, s[i])
    BY <1>1, <1>2
  <2> HIDE DEF c
  <2>4. CASE s[i] \notin T
    <3>1. d[i] = c /\ Seen(i) \cap T = Seen(i - 1) \cap T
      <4> HIDE DEF Seen
      <4> QED BY <2>2, <2>3, <2>4 DEF OneAmong
    <3> QED BY <2>1, <3>1
  <2>5. CASE s[i] \in T
    <3>1. /\ Append(c, s[i]) \in Seq(X)
          /\ DOMAIN Append(c, s[i]) = 1..(Len(c) + 1) /\ Len(c) \in Nat /\ DOMAIN c = 1..Len(c)
          /\ Append(c, s[i])[Len(c) + 1] = s[i] /\ \A j \in 1..Len(c) : Append(c, s[i])[j] = c[j]
      BY <2>1, <2>2
    <3>2. L!ToSet(Append(c, s[i])) = L!ToSet(c) \cup {s[i]}
      BY <3>1 DEF L!ToSet
    <3>3. L!ToSet(Append(c, s[i])) = Seen(i) \cap T
      <4> HIDE DEF Seen
      <4> QED BY <2>1, <2>2, <2>5, <3>2
    <3>4. ASSUME OnceEach(s) PROVE OnceEach(Append(c, s[i]))
      <4>1. s[i] \notin Seen(i - 1)
        BY <1>2, <3>4 DEF OnceEach
      <4>2. s[i] \notin L!ToSet(c)
        <5> HIDE DEF Seen
        <5> QED BY <2>1, <4>1
      <4>3. OnceEach(c)
        BY <2>1, <3>4
      <4> QED BY <3>1, <4>2, <4>3 DEF OnceEach, L!ToSet
    <3>5. d[i] = Append(c, s[i])
      BY <2>3, <2>5 DEF OneAmong
    <3>6. Fit(d[i], i)
      BY <3>1, <3>3, <3>4, <3>5
    <3> QED BY <3>6
  <2> QED BY <2>4, <2>5
<1>5. n \in G
  <2> HIDE DEF G
  <2>1. 0..n \subseteq G
    BY <1>2, <1>3, <1>4, UpTo
  <2> QED BY <1>2, <2>1
<1>6. Seen(n) = L!ToSet(s)
  BY <1>2 DEF L!ToSet
<1> HIDE DEF Seen
<1> QED BY <1>1, <1>5, <1>6

(* What is listed stays listed, and is listed once.                        *)
LEMMA ListedOf ==
  ASSUME NEW X, NEW s \in Seq(X), NEW more \in Seq(X), OnceEach(s)
  PROVE  /\ L!Listed(s, more) \in Seq(X)
         /\ L!ToSet(s) \subseteq L!ToSet(L!Listed(s, more))
         /\ OnceEach(L!Listed(s, more))
<1> DEFINE n == Len(more)
           Fit(c) == c \in Seq(X) /\ L!ToSet(s) \subseteq L!ToSet(c) /\ OnceEach(c)
<1>1. PICK d : /\ d = [i \in 0..n |-> IF i = 0 THEN s ELSE OneListed(d[i - 1], more[i])]
               /\ L!Listed(s, more) = d[n]
  <2> Len(more) \in Nat
    OBVIOUS
  <2> QED BY ListedSteps, Zenon
<1>2. n \in Nat /\ DOMAIN more = 1..n
  OBVIOUS
<1> HIDE DEF n
<1> DEFINE G == {i \in 0..n : Fit(d[i])}
<1>3. 0 \in G
  BY <1>1, <1>2
<1>4. ASSUME NEW i \in 1..n, i - 1 \in G PROVE i \in G
  <2> DEFINE c == d[i - 1]
  <2>1. Fit(c) /\ more[i] \in X
    BY <1>2, <1>4
  <2>2. d[i] = OneListed(c, more[i])
    BY <1>1, <1>2
  <2> HIDE DEF c
  <2>3. CASE more[i] \notin L!ToSet(c)
    <3>1. /\ Append(c, more[i]) \in Seq(X)
          /\ DOMAIN Append(c, more[i]) = 1..(Len(c) + 1) /\ Len(c) \in Nat /\ DOMAIN c = 1..Len(c)
          /\ Append(c, more[i])[Len(c) + 1] = more[i] /\ \A j \in 1..Len(c) : Append(c, more[i])[j] = c[j]
      BY <2>1
    <3>2. L!ToSet(c) \subseteq L!ToSet(Append(c, more[i]))
      BY <3>1 DEF L!ToSet
    <3>3. OnceEach(Append(c, more[i]))
      BY <2>1, <2>3, <3>1 DEF OnceEach, L!ToSet
    <3>4. Fit(Append(c, more[i]))
      BY <2>1, <3>1, <3>2, <3>3
    <3> HIDE DEF Fit
    <3> QED BY <2>1, <2>2, <3>4 DEF OneListed
  <2>4. CASE more[i] \in L!ToSet(c)
    BY <2>1, <2>2, <2>4 DEF OneListed
  <2> QED BY <2>3, <2>4
<1>5. n \in G
  <2> HIDE DEF G
  <2>1. 0..n \subseteq G
    BY <1>2, <1>3, <1>4, UpTo
  <2> QED BY <1>2, <2>1
<1> QED BY <1>1, <1>5

(* The claims of a proof, each with the passages it rests on: they carry   *)
(* it, the session read them, and the proof lists them.                    *)
Passage == DOMAIN Words
ProvenClaim == [claim : L!ClaimType(Passage), on : SUBSET Passage]
Proper(e, c, listed) == c.on # {} /\ c.on \subseteq c.claim.within \cap L!Passages(e) /\ c.on \subseteq L!ToSet(listed)
Proves(e, p) ==
  /\ p.claims \in Seq(ProvenClaim) /\ p.evidence \in Seq(Passage) /\ OnceEach(p.evidence)
  /\ \A i \in DOMAIN p.claims : Proper(e, p.claims[i], p.evidence)

LEMMA ProveKeeps ==
  ASSUME NEW e, NEW p, NEW c \in L!ClaimType(Passage), Proves(e, p)
  PROVE  Proves(e, L!Prove(e, p, c))
<1> DEFINE more == L!Supporting(e, c)
           listed == L!Listed(p.evidence, more)
           on == L!ToSet(more) \cap L!ToSet(listed)
           said == [claim |-> c, on |-> on]
<1>1. more \in Seq(Passage) /\ L!ToSet(more) \subseteq L!Passages(e) \cap c.within
  <2>1. c.cites \in Seq(Passage)
    BY DEF L!ClaimType
  <2>2. L!ToSet(<<>>) = {} /\ <<>> \in Seq(Passage)
    BY DEF L!ToSet
  <2> QED BY <2>1, <2>2, AmongOf DEF L!Supporting
<1>2. listed \in Seq(Passage) /\ L!ToSet(p.evidence) \subseteq L!ToSet(listed) /\ OnceEach(listed)
  BY <1>1, ListedOf DEF Proves
<1>3. \A i \in DOMAIN p.claims : Proper(e, p.claims[i], listed)
  BY <1>2 DEF Proves, Proper
<1>4. L!Prove(e, p, c) = IF on = {} \/ Len(p.claims) >= MaxProved THEN [p EXCEPT !.evidence = listed]
                         ELSE [claims |-> Append(p.claims, said), evidence |-> listed]
  BY DEF L!Prove
<1>5. on \subseteq L!ToSet(listed) /\ on \subseteq c.within \cap L!Passages(e) /\ on \subseteq Passage
  <2>1. L!ToSet(more) \subseteq Passage
    BY <1>1 DEF L!ToSet
  <2> QED BY <1>1, <2>1
<1> HIDE DEF more, listed, on
<1>6. CASE on = {} \/ Len(p.claims) >= MaxProved
  <2> DEFINE r == [p EXCEPT !.evidence = listed]
  <2>1. r.evidence = listed /\ r.claims = p.claims
    OBVIOUS
  <2> HIDE DEF r
  <2>2. Proves(e, r)
    BY <1>2, <1>3, <2>1 DEF Proves
  <2>3. L!Prove(e, p, c) = r
    BY <1>4, <1>6 DEF r
  <2> QED BY <2>2, <2>3
<1>7. CASE ~(on = {} \/ Len(p.claims) >= MaxProved)
  <2>1. said \in ProvenClaim
    BY <1>5 DEF ProvenClaim
  <2>2. Proper(e, said, listed)
    BY <1>5, <1>7 DEF Proper
  <2> HIDE DEF said
  <2>3. p.claims \in Seq(ProvenClaim)
    BY DEF Proves
  <2>4. /\ Append(p.claims, said) \in Seq(ProvenClaim)
        /\ \A i \in DOMAIN Append(p.claims, said) :
             Append(p.claims, said)[i] = said \/ (i \in DOMAIN p.claims /\ Append(p.claims, said)[i] = p.claims[i])
    BY <2>1, <2>3
  <2>5. \A i \in DOMAIN Append(p.claims, said) : Proper(e, Append(p.claims, said)[i], listed)
    BY <1>3, <2>2, <2>4
  <2> DEFINE r == [claims |-> Append(p.claims, said), evidence |-> listed]
  <2>6. Proves(e, r)
    BY <1>2, <2>4, <2>5 DEF Proves
  <2>7. L!Prove(e, p, c) = r
    BY <1>4, <1>7
  <2> QED BY <2>6, <2>7
<1> QED BY <1>6, <1>7

LEMMA ProvedProves ==
  ASSUME NEW e, e.claims \in Seq(L!ClaimType(Passage))
  PROVE  Proves(e, L!Proved(e))
<1> DEFINE n == Len(e.claims)
<1>1. PICK d : /\ d = [i \in 0..n |-> IF i = 0 THEN [claims |-> <<>>, evidence |-> <<>>]
                                      ELSE L!Prove(e, d[i - 1], e.claims[i])]
               /\ L!Proved(e) = d[n]
  BY ProvedSteps
<1>2. n \in Nat /\ \A i \in 1..n : e.claims[i] \in L!ClaimType(Passage)
  OBVIOUS
<1> HIDE DEF n
<1> DEFINE G == {i \in 0..n : Proves(e, d[i])}
<1>3. 0 \in G
  <2>1. d[0] = [claims |-> <<>>, evidence |-> <<>>]
    BY <1>1, <1>2
  <2>2. Proves(e, [claims |-> <<>>, evidence |-> <<>>])
    BY DEF Proves, OnceEach
  <2> QED BY <1>2, <2>1, <2>2
<1>4. ASSUME NEW i \in 1..n, i - 1 \in G PROVE i \in G
  <2>1. d[i] = L!Prove(e, d[i - 1], e.claims[i])
    BY <1>1, <1>2
  <2> QED BY <1>2, <1>4, <2>1, ProveKeeps
<1>5. 0..n \subseteq G
  <2> HIDE DEF G
  <2> QED BY <1>2, <1>3, <1>4, UpTo
<1> QED BY <1>1, <1>2, <1>5

LEMMA LearnedTake ==
  ASSUME NEW X, NEW s \in Seq(X), NEW n \in Nat, n > 0
  PROVE  /\ L!Take(s, n) \in Seq(X)
         /\ s # <<>> => L!Take(s, n) # <<>>
         /\ L!ToSet(L!Take(s, n)) \subseteq L!ToSet(s)
         /\ Len(L!Take(s, n)) < n => L!Take(s, n) = s
<1> DEFINE k == Len(s)
           m == IF k < n THEN k ELSE n
           c == SubSeq(s, 1, m)
<1>1. k \in Nat /\ DOMAIN s = 1..k /\ \A i \in 1..k : s[i] \in X
  OBVIOUS
<1>2. L!Take(s, n) = c
  BY DEF L!Take
<1>3. s # <<>> => k > 0
  OBVIOUS
<1> HIDE DEF k
<1>4. m \in Nat /\ m <= k /\ (k > 0 => m > 0) /\ (m < n => m = k)
  BY <1>1
<1> HIDE DEF m
<1>5. \A i \in 1..m : i \in 1..k
  BY <1>1, <1>4
<1>6. c \in Seq(X) /\ Len(c) = m
  <2>1. 1 \in Int /\ m \in Int /\ \A i \in 1..m : s[i] \in X
    BY <1>1, <1>4, <1>5
  <2>2. c \in Seq(X) /\ Len(c) = IF 1 <= m THEN m - 1 + 1 ELSE 0
    BY <2>1, SubSeqProperties
  <2> HIDE DEF c
  <2> QED BY <1>4, <2>2
<1>7. \A i \in 1..m : c[i] = s[i]
  BY <1>1, <1>4
<1> HIDE DEF c
<1>8. DOMAIN c = 1..m
  BY <1>6
<1>9. ASSUME s # <<>> PROVE c # <<>>
  BY <1>3, <1>4, <1>6, <1>9
<1>10. L!ToSet(c) \subseteq L!ToSet(s)
  BY <1>1, <1>5, <1>7, <1>8 DEF L!ToSet
<1>11. ASSUME Len(c) < n PROVE c = s
  <2>1. m = k
    BY <1>4, <1>6, <1>11
  <2>2. k = Len(s)
    BY DEF k
  <2> QED BY <1>1, <1>6, <1>7, <2>1, <2>2
<1> QED BY <1>2, <1>6, <1>9, <1>10, <1>11

(* As many members as places, when nothing is there twice.                 *)
LEMMA OnceEachCounts ==
  ASSUME NEW X, NEW s \in Seq(X), OnceEach(s)
  PROVE  IsFiniteSet(L!ToSet(s)) /\ Cardinality(L!ToSet(s)) = Len(s)
<1>1. Len(s) \in Nat /\ DOMAIN s = 1..Len(s)
  OBVIOUS
<1>2. s \in Surjection(1..Len(s), L!ToSet(s)) /\ s \in Injection(1..Len(s), L!ToSet(s))
  <2>1. s \in [1..Len(s) -> L!ToSet(s)]
    BY <1>1 DEF L!ToSet
  <2>2. \A y \in L!ToSet(s) : \E i \in 1..Len(s) : s[i] = y
    BY <1>1 DEF L!ToSet
  <2>3. \A i, j \in 1..Len(s) : s[i] = s[j] => i = j
    BY <1>1 DEF OnceEach
  <2> QED BY <2>1, <2>2, <2>3, Zenon DEF Surjection, Injection, IsInjective
<1>3. IsFiniteSet(1..Len(s)) /\ Cardinality(1..Len(s)) = Len(s)
  <2>1. 1 \in Int /\ Len(s) \in Int
    BY <1>1
  <2>2. IsFiniteSet(1..Len(s)) /\ Cardinality(1..Len(s)) = IF 1 > Len(s) THEN 0 ELSE Len(s) - 1 + 1
    BY <2>1, FS_Interval
  <2> QED BY <1>1, <2>2
<1> QED BY <1>2, <1>3, FS_Surjection

LEMMA MemoryBounds == MinEvidence \in Nat /\ MinEvidence > 0 /\ MaxEvidence \in Nat /\ MaxProved \in Nat /\ RecordRoom \in Nat
<1>1. MinEvidence \in Nat \ {0} /\ MaxEvidence \in Nat /\ MaxProved \in Nat /\ RecordRoom \in Nat
  BY MemoryAssumption, Zenon
<1> QED BY <1>1

(* An answer that a memory is made of; and that its record rests on it.    *)
Worth(e) == e.claims \in Seq(L!ClaimType(Passage)) /\ L!Reason(e) = ""

LEMMA RenderedRests ==
  ASSUME NEW e, Worth(e)
  PROVE  L!Rests(e, L!Rendered(L!Proof(e)))
<1> DEFINE p == L!Proved(e)
           kept == L!Kept(p)
           m == IF RecordRoom < 1 THEN 1 ELSE RecordRoom
           said == L!Take(p.claims, m)
           shown == L!Among(kept, L!RestOn(said))
<1>1. Proves(e, p)
  BY ProvedProves DEF Worth
<1>2. L!Proof(e) = [claims |-> p.claims, evidence |-> kept]
  BY DEF L!Proof
<1>3. L!Rendered(L!Proof(e)) = [claims |-> said, evidence |-> shown]
  <2> HIDE DEF p, kept
  <2>1. L!Proof(e).claims = p.claims /\ L!Proof(e).evidence = kept
    BY <1>2
  <2> QED BY <2>1 DEF L!Rendered
<1>4. Len(kept) >= MinEvidence
  <2>1. L!Proof(e).evidence = kept
    <3> HIDE DEF kept
    <3> QED BY <1>2
  <2> HIDE DEF kept
  <2> QED BY <2>1 DEF Worth, L!Reason
<1> HIDE DEF p
<1>5. /\ kept \in Seq(Passage) /\ OnceEach(kept)
      /\ L!ToSet(kept) = L!ToSet(p.evidence) \cap L!RestOn(p.claims)
  BY <1>1, AmongOf DEF Proves, L!Kept
<1>6. L!ToSet(kept) = L!RestOn(p.claims)
  <2>1. L!RestOn(p.claims) \subseteq L!ToSet(p.evidence)
    BY <1>1 DEF Proves, Proper, L!RestOn
  <2> QED BY <1>5, <2>1
<1>7. p.claims \in Seq(ProvenClaim) /\ \A c \in L!ToSet(p.claims) : Proper(e, c, p.evidence)
  BY <1>1 DEF Proves, L!ToSet
<1> HIDE DEF kept
<1>8. p.claims # <<>>
  <2>1. ASSUME p.claims = <<>> PROVE FALSE
    <3>1. L!ToSet(kept) = {}
      BY <1>6, <2>1 DEF L!RestOn
    <3>2. Len(kept) > 0 /\ Len(kept) \in Nat /\ DOMAIN kept = 1..Len(kept)
      BY <1>4, <1>5, MemoryBounds
    <3>3. 1 \in DOMAIN kept
      BY <3>2
    <3> QED BY <3>1, <3>3 DEF L!ToSet
  <2> QED BY <2>1
<1>9. m \in Nat /\ m > 0
  BY MemoryBounds
<1>10. /\ said \in Seq(ProvenClaim) /\ said # <<>> /\ L!ToSet(said) \subseteq L!ToSet(p.claims)
       /\ Len(said) < m => said = p.claims
  <2> HIDE DEF m
  <2> QED BY <1>7, <1>8, <1>9, LearnedTake
<1> HIDE DEF said
<1>11. \A c \in L!ToSet(said) : c.on # {} /\ c.on \subseteq c.claim.within \cap L!Passages(e)
  BY <1>7, <1>10 DEF Proper
<1>12. L!ToSet(shown) = L!RestOn(said)
  <2>1. L!ToSet(shown) = L!ToSet(kept) \cap L!RestOn(said)
    BY <1>5, AmongOf
  <2>2. \A s : L!RestOn(s) = UNION {c.on : c \in L!ToSet(s)}
    BY DEF L!RestOn, L!ToSet
  <2>3. L!RestOn(said) \subseteq L!RestOn(p.claims)
    BY <1>10, <2>2
  <2> QED BY <1>6, <2>1, <2>3
<1>13. Len(said) < RecordRoom => Cardinality(L!RestOn(said)) >= MinEvidence
  <2>1. ASSUME Len(said) < RecordRoom PROVE said = p.claims
    <3>1. Len(said) \in Nat
      BY <1>10
    <3> QED BY <1>10, <2>1, <3>1, MemoryBounds
  <2>2. Cardinality(L!RestOn(p.claims)) = Len(kept)
    BY <1>5, <1>6, OnceEachCounts
  <2> QED BY <1>4, <2>1, <2>2
<1> HIDE DEF shown
<1> DEFINE r == L!Rendered(L!Proof(e))
<1>14. r.claims = said /\ r.evidence = shown
  BY ONLY <1>3
<1> HIDE DEF r
<1>15. L!Rests(e, r)
  <2>1. /\ r.claims # <<>>
        /\ \A c \in L!ToSet(r.claims) : c.on # {} /\ c.on \subseteq c.claim.within \cap L!Passages(e)
        /\ L!ToSet(r.evidence) = L!RestOn(r.claims)
        /\ Len(r.claims) < RecordRoom => Cardinality(L!RestOn(r.claims)) >= MinEvidence
    BY <1>10, <1>11, <1>12, <1>13, <1>14
  <2>2. Cardinality(L!RestOn(r.claims)) = L!Cardinality(L!RestOn(r.claims))
    BY Zenon DEF Cardinality, L!Cardinality
  <2> QED BY ONLY <2>1, <2>2 DEF L!Rests
<1> QED BY <1>15 DEF r

(* The records that may be written: of a row that may be learned from and  *)
(* that gave no reason to write none.                                      *)
Fruitful(rows) == {e \in L!ToSet(rows) : e.learned /\ L!Reason(e) = ""}
Records(rows) == UNION {L!ToSet(L!Candidates(e)) : e \in Fruitful(rows)}

LearningInv ==
  /\ entries \in Entries /\ at \in 0..Len(entries)
  /\ pending \in Seq(Records(entries)) /\ stored \in Seq(Records(entries))

LEMMA LearningInit == L!Init => LearningInv
<1> SUFFICES ASSUME L!Init PROVE LearningInv
  OBVIOUS
<1>1. entries \in Entries /\ at = 0 /\ pending = <<>> /\ stored = <<>>
  BY DEF L!Init
<1>2. Len(entries) \in Nat
  BY <1>1, MemoryAssumption
<1>3. at \in 0..Len(entries)
  BY <1>1, <1>2
<1> QED BY <1>1, <1>3 DEF LearningInv

LEMMA LearningStutter == LearningInv /\ UNCHANGED learningVars => LearningInv'
BY DEF LearningInv, learningVars

(* The record of a proof, and at most one of each kind of rule.            *)
LEMMA CandidatesOf ==
  ASSUME NEW e
  PROVE  /\ L!Candidates(e) \in Seq(L!ToSet(L!Candidates(e)))
         /\ \A r \in L!ToSet(L!Candidates(e)) :
              r.of = e.question /\ (r.kind = "fact" => r.rule = L!Rendered(L!Proof(e)))
<1> DEFINE p == L!Proof(e)
           fact == [kind |-> "fact", of |-> e.question, rule |-> L!Rendered(p)]
           Fits(r) == r.of = e.question /\ (r.kind = "fact" => r.rule = L!Rendered(p))
           Few(s) == s = <<>> \/ \E r : Fits(r) /\ s = <<r>>
           all == L!Candidates(e)
<1>1. PICK alias : alias = L!Alias(e, p) /\ Few(alias)
  <2>1. PICK rule : L!Alias(e, p) \in {<<>>, <<[kind |-> "alias", of |-> e.question, rule |-> rule]>>}
    BY Zenon DEF L!Alias
  <2> DEFINE r == [kind |-> "alias", of |-> e.question, rule |-> rule]
  <2>2. Fits(r)
    OBVIOUS
  <2> HIDE DEF Fits, r, p
  <2> QED BY <2>1, <2>2 DEF r
<1>2. PICK preference : preference = L!Preference(e, p) /\ Few(preference)
  <2>1. PICK rule : L!Preference(e, p) \in {<<>>, <<[kind |-> "preference", of |-> e.question, rule |-> rule]>>}
    BY Zenon DEF L!Preference
  <2> DEFINE r == [kind |-> "preference", of |-> e.question, rule |-> rule]
  <2>2. Fits(r)
    OBVIOUS
  <2> HIDE DEF Fits, r, p
  <2> QED BY <2>1, <2>2 DEF r
<1>3. Few(<<fact>>)
  OBVIOUS
<1>4. all = <<fact>> \o alias \o preference
  <2> HIDE DEF p
  <2> QED BY <1>1, <1>2 DEF L!Candidates, p
<1> HIDE DEF fact, all
<1>5. \A i \in DOMAIN all : Fits(all[i])
  <2> HIDE DEF Fits
  <2> QED BY <1>1, <1>2, <1>3, <1>4
<1>6. all \in Seq(L!ToSet(all))
  <2> HIDE DEF Fits
  <2>1. PICK A, B : alias \in Seq(A) /\ preference \in Seq(B)
    <3>1. \A s : Few(s) => \E A : s \in Seq(A)
      <4> SUFFICES ASSUME NEW s, Few(s) PROVE \E A : s \in Seq(A)
        OBVIOUS
      <4>1. CASE s = <<>>
        <5>1. s \in Seq({})
          BY <4>1
        <5> QED BY <5>1
      <4>2. ASSUME NEW r, s = <<r>> PROVE \E A : s \in Seq(A)
        <5>1. s \in Seq({r})
          BY <4>2
        <5> QED BY <5>1
      <4> QED BY <4>1, <4>2
    <3> HIDE DEF Few
    <3> QED BY <1>1, <1>2, <3>1
  <2> DEFINE All == {fact} \cup A \cup B
  <2>2. <<fact>> \in Seq(All) /\ alias \in Seq(All) /\ preference \in Seq(All)
    BY <2>1
  <2> HIDE DEF All
  <2>3. all \in Seq(All)
    BY <1>4, <2>2
  <2>4. Len(all) \in Nat /\ all \in [1..Len(all) -> L!ToSet(all)]
    BY <2>3 DEF L!ToSet
  <2> QED BY <2>4
<1> HIDE DEF Fits
<1>7. \A r \in L!ToSet(all) : Fits(r)
  BY <1>5 DEF L!ToSet
<1> QED BY <1>6, <1>7 DEF Fits, all

LEMMA ConsiderKeeps == ASSUME LearningInv, L!Consider PROVE LearningInv'
<1> DEFINE e == entries[at + 1]
<1>1. entries' = entries /\ stored' = stored /\ at' = at + 1 /\ at < Len(entries)
  BY DEF L!Consider
<1>2. entries \in Entries /\ at \in 0..Len(entries) /\ DOMAIN entries = 1..Len(entries) /\ Len(entries) \in Nat
  BY MemoryAssumption DEF LearningInv
<1>3. at + 1 \in 1..Len(entries) /\ e \in L!ToSet(entries) /\ at' \in 0..Len(entries)
  BY <1>1, <1>2 DEF L!ToSet
<1>4. e.learned \in BOOLEAN
  BY <1>2, <1>3, MemoryAssumption
<1>5. pending' = pending \/ (pending' = L!Candidates(e) /\ e.learned /\ L!Reason(e) = "")
  BY <1>1, <1>4 DEF L!Consider
<1> HIDE DEF e
<1>6. CASE pending' = pending
  BY <1>1, <1>3, <1>6 DEF LearningInv
<1>7. CASE pending' = L!Candidates(e) /\ e.learned /\ L!Reason(e) = ""
  <2>1. L!ToSet(L!Candidates(e)) \subseteq Records(entries)
    BY <1>3, <1>7 DEF Records, Fruitful
  <2>2. L!Candidates(e) \in Seq(Records(entries))
    BY <2>1, CandidatesOf
  <2> QED BY <1>1, <1>3, <1>7, <2>2 DEF LearningInv
<1> QED BY <1>5, <1>6, <1>7

LEMMA WriteKeeps == ASSUME LearningInv, L!Write PROVE LearningInv'
<1>1. pending # <<>> /\ pending' = Tail(pending) /\ entries' = entries /\ at' = at
  BY DEF L!Write
<1>2. stored' = stored \/ stored' = Append(stored, Head(pending))
  BY DEF L!Write
<1>3. pending \in Seq(Records(entries)) /\ stored \in Seq(Records(entries))
  BY DEF LearningInv
<1>4. Tail(pending) \in Seq(Records(entries)) /\ Append(stored, Head(pending)) \in Seq(Records(entries))
  BY <1>1, <1>3
<1> QED BY <1>1, <1>2, <1>3, <1>4 DEF LearningInv

LEMMA LearningStep == LearningInv /\ L!Next => LearningInv'
<1> SUFFICES ASSUME LearningInv, L!Next PROVE LearningInv'
  OBVIOUS
<1>1. CASE L!Consider
  BY <1>1, ConsiderKeeps
<1>2. CASE L!Write
  BY <1>2, WriteKeeps
<1>3. CASE L!Seeded \/ L!Indexer \/ L!Poll \/ L!Tune \/ L!Replay
  <2>1. UNCHANGED <<entries, at, pending, stored>>
    BY <1>3 DEF L!Seeded, L!Indexer, L!Poll, L!Tune, L!Replay
  <2> QED BY <2>1 DEF LearningInv
<1> QED BY <1>1, <1>2, <1>3 DEF L!Next

(* Whatever the first pass answered and cited, whatever the region loses,  *)
(* and whatever the bounds of a record: what the region was given to       *)
(* remember rests on passages the session read, and is of a question that  *)
(* may be learned from (pheasant_memory.py, seed and _candidates, and      *)
(* memory_proof.py, build_proof and render_proof).                         *)
THEOREM LearningRecordsHold == PartsSpec => []RecordsHold
<1>1. ASSUME LearningInv PROVE RecordsHold
  <2> SUFFICES ASSUME NEW i \in DOMAIN stored
               PROVE  \E e \in L!ToSet(entries) :
                        /\ e.question = stored[i].of /\ e.learned
                        /\ stored[i].kind = "fact" => L!Rests(e, stored[i].rule)
    BY DEF RecordsHold, L!RecordsHold
  <2>1. stored[i] \in Records(entries)
    BY <1>1 DEF LearningInv
  <2>2. PICK e \in Fruitful(entries) : stored[i] \in L!ToSet(L!Candidates(e))
    BY <2>1 DEF Records
  <2>3. e \in L!ToSet(entries) /\ e.learned /\ L!Reason(e) = ""
    BY <2>2 DEF Fruitful
  <2>4. e.claims \in Seq(L!ClaimType(Passage))
    BY <1>1, <2>3, MemoryAssumption DEF LearningInv, L!ToSet, Passage
  <2>5. L!Rests(e, L!Rendered(L!Proof(e)))
    BY <2>3, <2>4, RenderedRests DEF Worth
  <2> QED BY <2>2, <2>3, <2>5, CandidatesOf
<1>2. Start => LearningInv
  BY LearningInit DEF Start
<1>3. LearningInv /\ [Move]_allVars => LearningInv'
  BY LearningStep, LearningStutter DEF Move, Calling, InSession, Teaching, Preparing, allVars
<1> QED BY <1>1, <1>2, <1>3, PTL DEF PartsSpec

-----------------------------------------------------------------------------
(* The questions of a build.                                               *)

(* What a builder has taken of its material, step by step.                 *)
LEMMA TakeSteps ==
  ASSUME NEW kind, NEW wanted, NEW b, NEW material, Len(material) \in Nat
  PROVE  \E d : /\ d = [i \in 0..Len(material) |->
                          IF i = 0 THEN b ELSE Ask(kind, wanted, d[i - 1], material[i])]
                /\ Take(kind, wanted, b, material) = d[Len(material)]
<1> DEFINE n == Len(material)
           At(d, i) == IF i = 0 THEN b ELSE Ask(kind, wanted, d[i - 1], material[i])
           IsD(m, d) == d = [i \in 0..m |-> At(d, i)]
           G == {m \in 0..n : \E d : IsD(m, d)}
<1>1. 0 \in G
  <2> DEFINE z == [i \in 0..0 |-> b]
  <2>1. \A i \in 0..0 : i = 0
    OBVIOUS
  <2>2. IsD(0, z)
    BY <2>1
  <2> HIDE DEF IsD, z
  <2> QED BY <2>2
<1>2. ASSUME NEW m \in 1..n, m - 1 \in G PROVE m \in G
  <2>1. PICK p : IsD(m - 1, p)
    BY <1>2
  <2> DEFINE q == [i \in 0..m |-> IF i = m THEN At(p, m) ELSE p[i]]
  <2>2. ASSUME NEW i \in 0..m PROVE q[i] = At(q, i)
    <3>1. i = 0 \/ (i - 1 \in 0..m /\ i - 1 # m /\ i - 1 \in 0..(m - 1))
      OBVIOUS
    <3>2. i # 0 => q[i - 1] = p[i - 1]
      BY <3>1
    <3>3. At(q, i) = At(p, i)
      BY <3>2
    <3>4. CASE i = m
      BY <3>3, <3>4
    <3>5. CASE i # m
      <4>1. i \in 0..(m - 1) /\ q[i] = p[i]
        BY <3>5
      <4>2. p[i] = At(p, i)
        <5> HIDE DEF At
        <5> QED BY <2>1, <4>1
      <4> QED BY <4>1, <4>2, <3>3
    <3> QED BY <3>4, <3>5
  <2>3. IsD(m, q)
    <3> HIDE DEF At
    <3>1. q = [i \in 0..m |-> q[i]]
      OBVIOUS
    <3> QED BY <2>2, <3>1
  <2> HIDE DEF IsD, q
  <2> QED BY <2>3
<1>3. n \in G
  <2> HIDE DEF G
  <2>1. 0..n \subseteq G
    BY <1>1, <1>2, UpTo
  <2> QED BY <2>1
<1>4. \E d : IsD(n, d)
  <2> HIDE DEF IsD
  <2> QED BY <1>3
<1>5. \E d : IsD(n, d) /\ Take(kind, wanted, b, material) = d[n]
  <2> DEFINE c == CHOOSE d : IsD(n, d)
  <2>1. IsD(n, c)
    <3> HIDE DEF IsD
    <3> QED BY <1>4
  <2>2. Take(kind, wanted, b, material) = c[n]
    BY DEF Take
  <2> HIDE DEF c
  <2> QED BY <2>1, <2>2
<1> QED BY <1>5
(* And what of the pairs of a facet.                                       *)
LEMMA PairSteps ==
  ASSUME NEW wanted, NEW b, NEW f, Len(SourcePairs(f, b.used)) \in Nat
  PROVE  \E d : /\ d = [i \in 0..Len(SourcePairs(f, b.used)) |->
                          IF i = 0 THEN b ELSE AskIfShort(wanted, d[i - 1], SourcePairs(f, b.used)[i])]
                /\ AskPairs(wanted, b, f) = d[Len(SourcePairs(f, b.used))]
<1> DEFINE pairs == SourcePairs(f, b.used)
           n == Len(pairs)
           At(d, i) == IF i = 0 THEN b ELSE AskIfShort(wanted, d[i - 1], pairs[i])
           IsD(m, d) == d = [i \in 0..m |-> At(d, i)]
           G == {m \in 0..n : \E d : IsD(m, d)}
<1>1. 0 \in G
  <2> DEFINE z == [i \in 0..0 |-> b]
  <2>1. \A i \in 0..0 : i = 0
    OBVIOUS
  <2>2. IsD(0, z)
    BY <2>1
  <2> HIDE DEF IsD, z
  <2> QED BY <2>2
<1>2. ASSUME NEW m \in 1..n, m - 1 \in G PROVE m \in G
  <2>1. PICK p : IsD(m - 1, p)
    BY <1>2
  <2> DEFINE q == [i \in 0..m |-> IF i = m THEN At(p, m) ELSE p[i]]
  <2>2. ASSUME NEW i \in 0..m PROVE q[i] = At(q, i)
    <3>1. i = 0 \/ (i - 1 \in 0..m /\ i - 1 # m /\ i - 1 \in 0..(m - 1))
      OBVIOUS
    <3>2. i # 0 => q[i - 1] = p[i - 1]
      BY <3>1
    <3>3. At(q, i) = At(p, i)
      BY <3>2
    <3>4. CASE i = m
      BY <3>3, <3>4
    <3>5. CASE i # m
      <4>1. i \in 0..(m - 1) /\ q[i] = p[i]
        BY <3>5
      <4>2. p[i] = At(p, i)
        <5> HIDE DEF At
        <5> QED BY <2>1, <4>1
      <4> QED BY <4>1, <4>2, <3>3
    <3> QED BY <3>4, <3>5
  <2>3. IsD(m, q)
    <3> HIDE DEF At
    <3>1. q = [i \in 0..m |-> q[i]]
      OBVIOUS
    <3> QED BY <2>2, <3>1
  <2> HIDE DEF IsD, q
  <2> QED BY <2>3
<1>3. n \in G
  <2> HIDE DEF G
  <2>1. 0..n \subseteq G
    BY <1>1, <1>2, UpTo
  <2> QED BY <2>1
<1>4. \E d : IsD(n, d)
  <2> HIDE DEF IsD
  <2> QED BY <1>3
<1>5. \E d : IsD(n, d) /\ AskPairs(wanted, b, f) = d[n]
  <2> DEFINE c == CHOOSE d : IsD(n, d)
  <2>1. IsD(n, c)
    <3> HIDE DEF IsD
    <3> QED BY <1>4
  <2>2. AskPairs(wanted, b, f) = c[n]
    BY DEF AskPairs
  <2> HIDE DEF c
  <2> QED BY <2>1, <2>2
<1> QED BY <1>5

(* No fact of a question is given away by it, as the builder judges.       *)
Honest(q) == \A f \in q.facts : ~Matches(f.matcher, q.id, 2)

(* A builder under way has only such questions.                            *)
Sound(b) ==
  /\ b = [out |-> b.out, used |-> b.used, gaps |-> b.gaps]
  /\ \E Qs : b.out \in Seq(Qs) /\ \A q \in Qs : Honest(q)

(* A matcher that is kept, or built again, is not satisfied.                *)
LEMMA GradingHides == ASSUME NEW m, NEW key, NEW n \in Grading(m, key) PROVE ~Matches(n, key, 2)
<1>1. CASE m.kind = "abstain" /\ n = m
  BY <1>1 DEF Matches
<1>2. CASE ~Matches(m, key, 2) /\ n = m
  BY <1>2
<1>3. CASE n \in Hardened(m, key)
  <2> HIDE DEF Matches
  <2> QED BY <1>3 DEF Hardened
<1> HIDE DEF Matches, Hardened
<1> QED BY <1>1, <1>2, <1>3 DEF Grading

(* Only a number can be missed by the builder and seen by the scorer.       *)
LEMMA OnlyNumbers ==
  ASSUME NEW m, NEW key, NEW percent, Matches(m, key, percent), ~Matches(m, key, 2)
  PROVE  m.kind = "numeric" /\ \A x \in Numerals(key) : ~Near(x, m.value, 2)
<1> DEFINE all == \A g \in m.groups : g \cap Contained(key) # {}
<1>1. m.kind = "numeric" /\ \E x \in Numerals(key) : Near(x, m.value, percent)
  BY DEF Matches
<1>2. ~(m.kind = "numeric" /\ \E x \in Numerals(key) : Near(x, m.value, 2))
  BY DEF Matches
<1> QED BY <1>1, <1>2

LEMMA AttachKeeps ==
  ASSUME NEW b, Sound(b), NEW key, NEW cs, NEW facts PROVE Sound(Attach(b, key, cs, facts))
<1> DEFINE kept == UNION {{[from |-> f.from, matcher |-> m] : m \in Grading(f.matcher, key)} : f \in facts}
           q == [id |-> key, facts |-> kept]
<1>1. PICK Qs : b.out \in Seq(Qs) /\ \A x \in Qs : Honest(x)
  BY DEF Sound
<1>2. Honest(q)
  <2>1. ASSUME NEW g \in kept PROVE ~Matches(g.matcher, key, 2)
    <3>1. PICK f \in facts : g \in {[from |-> f.from, matcher |-> m] : m \in Grading(f.matcher, key)}
      OBVIOUS
    <3>2. PICK m \in Grading(f.matcher, key) : g = [from |-> f.from, matcher |-> m]
      BY <3>1
    <3> QED BY <3>2, GradingHides
  <2> HIDE DEF kept
  <2> QED BY <2>1 DEF Honest
<1>3. Append(b.out, q) \in Seq(Qs \cup {q})
  <2> HIDE DEF q
  <2>1. b.out \in Seq(Qs \cup {q})
    BY <1>1
  <2> QED BY <2>1
<1>4. \A x \in Qs \cup {q} : Honest(x)
  BY <1>1, <1>2
<1>5. Attach(b, key, cs, facts).out = Append(b.out, q)
  BY DEF Attach
<1>6. Attach(b, key, cs, facts) =
        [out |-> Attach(b, key, cs, facts).out, used |-> Attach(b, key, cs, facts).used,
         gaps |-> Attach(b, key, cs, facts).gaps]
  BY DEF Attach
<1> QED
  <2> HIDE DEF q
  <2> QED BY <1>3, <1>4, <1>5, <1>6 DEF Sound

(* A question of nothing is honest, and so is one more gap.                *)
LEMMA NothingKeeps == ASSUME NEW b, Sound(b), NEW about PROVE Sound([b EXCEPT !.out = Append(@, Absent(about))])
<1>1. PICK Qs : b.out \in Seq(Qs) /\ \A x \in Qs : Honest(x)
  BY DEF Sound
<1>2. Honest(Absent(about))
  BY DEF Honest, Absent, Matcher, Matches
<1> DEFINE q == Absent(about)
<1> HIDE DEF q
<1>3. b.out \in Seq(Qs \cup {q})
  BY <1>1
<1>4. Append(b.out, q) \in Seq(Qs \cup {q}) /\ \A x \in Qs \cup {q} : Honest(x)
  BY <1>1, <1>2, <1>3 DEF q
<1>5. [b EXCEPT !.out = Append(@, q)] = [out |-> Append(b.out, q), used |-> b.used, gaps |-> b.gaps]
  <2>1. PICK o, u, g : b = [out |-> o, used |-> u, gaps |-> g]
    BY DEF Sound
  <2> QED BY <2>1
<1> QED BY <1>4, <1>5 DEF Sound, q

LEMMA GapsKeep == ASSUME NEW b, Sound(b), NEW more PROVE Sound([b EXCEPT !.gaps = @ \cup more])
<1> DEFINE g == b.gaps \cup more
<1>1. [b EXCEPT !.gaps = g] = [out |-> b.out, used |-> b.used, gaps |-> g]
  <2> HIDE DEF g
  <2>1. PICK o, u, h : b = [out |-> o, used |-> u, gaps |-> h]
    BY DEF Sound
  <2> QED BY <2>1
<1> QED BY <1>1 DEF Sound

(* Whatever a builder makes of its material.                               *)
LEMMA PairKeeps == ASSUME NEW b, Sound(b), NEW wanted, NEW pair PROVE Sound(AskIfShort(wanted, b, pair))
BY AttachKeeps DEF AskIfShort, AskPair

LEMMA SourcePairsCount ==
  ASSUME NEW f, NEW used PROVE Len(SourcePairs(f, used)) \in Nat
<1> DEFINE free == ToSet(Bucket(f)) \ used
           held == {s \in 1..Sources : \E c \in free : claims[c].source = s}
<1>1. Sources \in Nat
  BY BenchmarkAssumption
<1>2. Cardinality(held) \in Nat
  <2>1. IsFiniteSet(1..Sources)
    BY <1>1, FS_Interval
  <2>2. held \subseteq 1..Sources
    OBVIOUS
  <2> HIDE DEF held
  <2> QED BY <2>1, <2>2, FS_Subset, FS_CardinalityType
<1>3. Cardinality(held) \div 2 \in Nat
  <2> HIDE DEF held
  <2> QED BY <1>2
<1> HIDE DEF held, free
<1> QED BY <1>3 DEF SourcePairs, held, free

LEMMA PairsKeep == ASSUME NEW b, Sound(b), NEW wanted, NEW f PROVE Sound(AskPairs(wanted, b, f))
<1> DEFINE pairs == SourcePairs(f, b.used)
           n == Len(pairs)
<1>1. n \in Nat
  BY SourcePairsCount
<1>2. PICK d : /\ d = [i \in 0..n |-> IF i = 0 THEN b ELSE AskIfShort(wanted, d[i - 1], pairs[i])]
               /\ AskPairs(wanted, b, f) = d[n]
  BY <1>1, PairSteps
<1> HIDE DEF n, pairs
<1> DEFINE G == {i \in 0..n : Sound(d[i])}
<1>3. 0 \in G
  BY <1>1, <1>2
<1>4. ASSUME NEW i \in 1..n, i - 1 \in G PROVE i \in G
  <2>1. d[i] = AskIfShort(wanted, d[i - 1], pairs[i])
    BY <1>1, <1>2
  <2> QED BY <1>4, <2>1, PairKeeps
<1>5. 0..n \subseteq G
  <2> HIDE DEF G
  <2> QED BY <1>1, <1>3, <1>4, UpTo
<1> QED BY <1>1, <1>2, <1>5

LEMMA AskKeeps ==
  ASSUME NEW b, Sound(b), NEW kind \in Kinds, NEW wanted, NEW m PROVE Sound(Ask(kind, wanted, b, m))
<1>1. Sound(AskFact(b, m))
  BY AttachKeeps, GapsKeep DEF AskFact
<1>2. Sound(AskMechanism(b, m))
  BY AttachKeeps DEF AskMechanism
<1>3. Sound(AskSource(b, m))
  BY AttachKeeps DEF AskSource
<1>4. Sound(AskBoth(b, m))
  BY AttachKeeps, GapsKeep DEF AskBoth
<1>5. Sound(AskThen(b, m))
  BY AttachKeeps DEF AskThen
<1>6. Sound(AskPairs(wanted, b, m))
  BY PairsKeep
<1>7. Sound(AskNothing(b, m))
  BY NothingKeeps, GapsKeep DEF AskNothing
<1> QED BY <1>1, <1>2, <1>3, <1>4, <1>5, <1>6, <1>7 DEF Ask, Kinds, Single

LEMMA TakeKeeps ==
  ASSUME NEW b, Sound(b), NEW kind \in Kinds, NEW wanted, NEW material, Len(material) \in Nat
  PROVE  Sound(Take(kind, wanted, b, material))
<1> DEFINE n == Len(material)
<1>1. PICK d : /\ d = [i \in 0..n |-> IF i = 0 THEN b ELSE Ask(kind, wanted, d[i - 1], material[i])]
               /\ Take(kind, wanted, b, material) = d[n]
  BY TakeSteps
<1>2. n \in Nat
  OBVIOUS
<1> HIDE DEF n
<1> DEFINE G == {i \in 0..n : Sound(d[i])}
<1>3. 0 \in G
  BY <1>1, <1>2
<1>4. ASSUME NEW i \in 1..n, i - 1 \in G PROVE i \in G
  <2>1. d[i] = Ask(kind, wanted, d[i - 1], material[i])
    BY <1>1, <1>2
  <2> QED BY <1>4, <2>1, AskKeeps
<1>5. 0..n \subseteq G
  <2> HIDE DEF G
  <2> QED BY <1>2, <1>3, <1>4, UpTo
<1> QED BY <1>1, <1>2, <1>5

(* And what the builders of a composition have built.                      *)
LEMMA BuildSteps ==
  ASSUME Len(composition) \in Nat
  PROVE  \E d : /\ d = [i \in 0..Len(composition) |->
                          IF i = 0 THEN [out |-> <<>>, used |-> {}, gaps |-> {}]
                          ELSE Built(d[i - 1], composition[i][1], composition[i][2])]
                /\ Questions = d[Len(composition)]
<1> DEFINE n == Len(composition)
           b == [out |-> <<>>, used |-> {}, gaps |-> {}]
           At(d, i) == IF i = 0 THEN b ELSE Built(d[i - 1], composition[i][1], composition[i][2])
           IsD(m, d) == d = [i \in 0..m |-> At(d, i)]
           G == {m \in 0..n : \E d : IsD(m, d)}
<1>1. 0 \in G
  <2> DEFINE z == [i \in 0..0 |-> b]
  <2>1. \A i \in 0..0 : i = 0
    OBVIOUS
  <2>2. IsD(0, z)
    BY <2>1
  <2> HIDE DEF IsD, z
  <2> QED BY <2>2
<1>2. ASSUME NEW m \in 1..n, m - 1 \in G PROVE m \in G
  <2>1. PICK p : IsD(m - 1, p)
    BY <1>2
  <2> DEFINE q == [i \in 0..m |-> IF i = m THEN At(p, m) ELSE p[i]]
  <2>2. ASSUME NEW i \in 0..m PROVE q[i] = At(q, i)
    <3>1. i = 0 \/ (i - 1 \in 0..m /\ i - 1 # m /\ i - 1 \in 0..(m - 1))
      OBVIOUS
    <3>2. i # 0 => q[i - 1] = p[i - 1]
      BY <3>1
    <3>3. At(q, i) = At(p, i)
      BY <3>2
    <3>4. CASE i = m
      BY <3>3, <3>4
    <3>5. CASE i # m
      <4>1. i \in 0..(m - 1) /\ q[i] = p[i]
        BY <3>5
      <4>2. p[i] = At(p, i)
        <5> HIDE DEF At
        <5> QED BY <2>1, <4>1
      <4> QED BY <4>1, <4>2, <3>3
    <3> QED BY <3>4, <3>5
  <2>3. IsD(m, q)
    <3> HIDE DEF At
    <3>1. q = [i \in 0..m |-> q[i]]
      OBVIOUS
    <3> QED BY <2>2, <3>1
  <2> HIDE DEF IsD, q
  <2> QED BY <2>3
<1>3. n \in G
  <2> HIDE DEF G
  <2>1. 0..n \subseteq G
    BY <1>1, <1>2, UpTo
  <2> QED BY <2>1
<1>4. \E d : IsD(n, d)
  <2> HIDE DEF IsD
  <2> QED BY <1>3
<1>5. \E d : IsD(n, d) /\ Questions = d[n]
  <2> DEFINE c == CHOOSE d : IsD(n, d)
  <2>1. IsD(n, c)
    <3> HIDE DEF IsD
    <3> QED BY <1>4
  <2>2. Questions = c[n]
    BY DEF Questions
  <2> HIDE DEF c
  <2> QED BY <2>1, <2>2
<1> QED BY <1>5

LEMMA MaterialCount ==
  ASSUME claims \in Seq(Shapes), NEW kind \in Kinds, NEW used PROVE Len(Material(kind, used)) \in Nat
<1>1. Len(claims) \in Nat /\ Facets \in Nat /\ Len(Disputes) \in Nat
  BY BenchmarkAssumption
<1>2. Len(claims) * (Facets + 1) \in Nat
  BY <1>1
<1>3. Len(Ordered(used)) \in Nat
  <2> DEFINE n == Len(claims) * (Facets + 1)
  <2> HIDE DEF n
  <2>1. \A g : Len([k \in 1..n |-> g[k]]) = n
    BY <1>2 DEF n
  <2> QED BY <1>2 DEF Ordered, n
<1>4. \A n \in Nat : Len(Naturals(n)) = n
  BY DEF Naturals
<1>5. Len([f \in 1..(Facets + 1) |-> f - 1]) \in Nat
  BY <1>1
<1> QED BY <1>1, <1>3, <1>4, <1>5 DEF Material, Kinds, Single

LEMMA ProducedSound ==
  ASSUME claims \in Seq(Shapes), NEW kind \in Kinds, NEW wanted \in Nat, NEW used
  PROVE  Sound(Produced(kind, wanted, used))
<1> DEFINE b    == [out |-> <<>>, used |-> used, gaps |-> {}]
           some == Take(kind, wanted, b, Material(kind, used))
           n    == Len(some.out)
           more == [i \in 1..(wanted - n) |-> Absent(Facets + n + i)]
<1>1. Sound(b)
  <2>1. b.out \in Seq({}) /\ b = [out |-> b.out, used |-> b.used, gaps |-> b.gaps]
    OBVIOUS
  <2> HIDE DEF b
  <2> QED BY <2>1 DEF Sound
<1>2. Sound(some)
  <2> HIDE DEF b
  <2> QED BY <1>1, MaterialCount, TakeKeeps
<1>3. PICK Qs : some.out \in Seq(Qs) /\ \A x \in Qs : Honest(x)
  <2> HIDE DEF some
  <2> QED BY <1>2 DEF Sound
<1>4. n \in Nat
  <2> HIDE DEF some
  <2> QED BY <1>3
<1>5. CASE kind # "abstention" \/ n >= wanted
  <2>1. Produced(kind, wanted, used) = some
    BY <1>5 DEF Produced, MadeUp
  <2> QED BY <1>2, <2>1
<1>6. CASE ~(kind # "abstention" \/ n >= wanted)
  <2> DEFINE T == {Absent(Facets + n + i) : i \in 1..(wanted - n)}
  <2>1. more \in Seq(T)
    <3> HIDE DEF n
    <3>1. wanted - n \in Nat
      BY <1>4, <1>6
    <3> QED BY <3>1
  <2>2. \A x \in T : Honest(x)
    <3>1. \A about : Honest(Absent(about))
      BY DEF Honest, Absent, Matcher, Matches
    <3> QED BY <3>1, Zenon
  <2>3. Produced(kind, wanted, used) = [some EXCEPT !.out = @ \o more]
    BY <1>6 DEF Produced, MadeUp
  <2> HIDE DEF some, n, more, T
  <2>4. some.out \o more \in Seq(Qs \cup T)
    <3>1. some.out \in Seq(Qs \cup T) /\ more \in Seq(Qs \cup T)
      BY <1>3, <2>1
    <3> QED BY <3>1
  <2>5. [some EXCEPT !.out = @ \o more] = [out |-> some.out \o more, used |-> some.used, gaps |-> some.gaps]
    <3> DEFINE all == some.out \o more
    <3>1. PICK o, u, g : some = [out |-> o, used |-> u, gaps |-> g]
      BY <1>2 DEF Sound
    <3> HIDE DEF all
    <3>2. [some EXCEPT !.out = all] = [out |-> all, used |-> some.used, gaps |-> some.gaps]
      BY <3>1
    <3> QED BY <3>2 DEF all
  <2> QED BY <1>3, <2>2, <2>3, <2>4, <2>5 DEF Sound
<1> QED BY <1>5, <1>6

LEMMA BuiltKeeps ==
  ASSUME claims \in Seq(Shapes), NEW b, Sound(b), NEW kind, NEW wanted \in Nat
  PROVE  Sound(Built(b, kind, wanted))
<1>1. CASE kind \notin Kinds
  BY <1>1, GapsKeep DEF Built
<1>2. CASE kind \in Kinds
  <2> DEFINE p == Produced(kind, wanted, b.used)
  <2>1. Sound(p)
    BY <1>2, ProducedSound
  <2>2. Built(b, kind, wanted).out = b.out \o p.out
    BY <1>2 DEF Built, Joined
  <2>3. Built(b, kind, wanted) =
          [out |-> Built(b, kind, wanted).out, used |-> Built(b, kind, wanted).used,
           gaps |-> Built(b, kind, wanted).gaps]
    BY <1>2 DEF Built, Joined
  <2> HIDE DEF p
  <2>4. PICK Qs : b.out \in Seq(Qs) /\ \A x \in Qs : Honest(x)
    BY DEF Sound
  <2>5. PICK T : p.out \in Seq(T) /\ \A x \in T : Honest(x)
    BY <2>1 DEF Sound
  <2>6. b.out \o p.out \in Seq(Qs \cup T)
    <3>1. b.out \in Seq(Qs \cup T) /\ p.out \in Seq(Qs \cup T)
      BY <2>4, <2>5
    <3> QED BY <3>1
  <2> QED BY <2>2, <2>3, <2>4, <2>5, <2>6 DEF Sound
<1> QED BY <1>1, <1>2

LEMMA QuestionsSound ==
  ASSUME claims \in Seq(Shapes), composition \in Compositions PROVE Sound(Questions)
<1> DEFINE n == Len(composition)
           b == [out |-> <<>>, used |-> {}, gaps |-> {}]
<1>1. composition \in Seq(STRING \X Nat)
  BY BenchmarkAssumption
<1>2. n \in Nat /\ \A i \in 1..n : composition[i][2] \in Nat
  <2> DEFINE T == STRING \X Nat
  <2>1. \A t \in T : t[2] \in Nat
    OBVIOUS
  <2> HIDE DEF T
  <2>2. \A i \in 1..n : composition[i] \in T
    BY <1>1 DEF T
  <2> QED BY <1>1, <2>1, <2>2
<1>3. PICK d : /\ d = [i \in 0..n |-> IF i = 0 THEN b ELSE Built(d[i - 1], composition[i][1], composition[i][2])]
               /\ Questions = d[n]
  BY <1>2, BuildSteps
<1>4. Sound(b)
  <2>1. b.out \in Seq({})
    OBVIOUS
  <2> QED BY <2>1 DEF Sound
<1> HIDE DEF n, b
<1> DEFINE G == {i \in 0..n : Sound(d[i])}
<1>5. 0 \in G
  BY <1>2, <1>3, <1>4
<1>6. ASSUME NEW i \in 1..n, i - 1 \in G PROVE i \in G
  <2>1. d[i] = Built(d[i - 1], composition[i][1], composition[i][2])
    BY <1>2, <1>3
  <2> QED BY <1>2, <1>6, <2>1, BuiltKeeps
<1>7. 0..n \subseteq G
  <2> HIDE DEF G
  <2> QED BY <1>2, <1>5, <1>6, UpTo
<1> QED BY <1>2, <1>3, <1>7

(* So the check at the door has nothing to find but abstentions that some  *)
(* document answers, and the scorer nothing but a number.                  *)
LEMMA LeaksAbstain ==
  ASSUME claims \in Seq(Shapes), composition \in Compositions
  PROVE  /\ \A key \in Leaks(Questions.out) : key.kind = "abstention"
         /\ \A x \in FactsOf(Questions.out) : ~Matches(x[2].matcher, x[1], 2)
<1> DEFINE qs == Questions.out
<1>1. PICK Qs : qs \in Seq(Qs) /\ \A x \in Qs : Honest(x)
  BY QuestionsSound DEF Sound
<1>2. \A q \in ToSet(qs) : Honest(q)
  BY <1>1 DEF ToSet
<1> HIDE DEF qs
<1>3. ASSUME NEW x \in FactsOf(qs) PROVE ~Matches(x[2].matcher, x[1], 2)
  <2>1. PICK q \in ToSet(qs) : x \in {<<q.id, f>> : f \in q.facts}
    BY DEF FactsOf
  <2>2. PICK f \in q.facts : x = <<q.id, f>>
    BY <2>1
  <2>3. x[1] = q.id /\ x[2] = f
    BY <2>2
  <2> QED BY <1>2, <2>3 DEF Honest
<1>4. \A key \in Leaks(qs) : key.kind = "abstention"
  BY <1>3 DEF Leaks
<1> QED BY <1>3, <1>4 DEF qs

-----------------------------------------------------------------------------
(* The cohorts.                                                            *)

(* Whom take() has dealt to a cohort, question by question.                *)
LEMMA DealSteps ==
  ASSUME NEW b, NEW cohort, NEW pool, NEW ids, NEW number, Len(pool) \in Nat
  PROVE  \E d : /\ d = [i \in 0..Len(pool) |->
                          IF i = 0 THEN b ELSE DealOne(d[i - 1], cohort, pool[i], ids, number)]
                /\ Deal(b, cohort, pool, ids, number) = d[Len(pool)]
<1> DEFINE n == Len(pool)
           At(d, i) == IF i = 0 THEN b ELSE DealOne(d[i - 1], cohort, pool[i], ids, number)
           IsD(m, d) == d = [i \in 0..m |-> At(d, i)]
           G == {m \in 0..n : \E d : IsD(m, d)}
<1>1. 0 \in G
  <2> DEFINE z == [i \in 0..0 |-> b]
  <2>1. \A i \in 0..0 : i = 0
    OBVIOUS
  <2>2. IsD(0, z)
    BY <2>1
  <2> HIDE DEF IsD, z
  <2> QED BY <2>2
<1>2. ASSUME NEW m \in 1..n, m - 1 \in G PROVE m \in G
  <2>1. PICK p : IsD(m - 1, p)
    BY <1>2
  <2> DEFINE q == [i \in 0..m |-> IF i = m THEN At(p, m) ELSE p[i]]
  <2>2. ASSUME NEW i \in 0..m PROVE q[i] = At(q, i)
    <3>1. i = 0 \/ (i - 1 \in 0..m /\ i - 1 # m /\ i - 1 \in 0..(m - 1))
      OBVIOUS
    <3>2. i # 0 => q[i - 1] = p[i - 1]
      BY <3>1
    <3>3. At(q, i) = At(p, i)
      BY <3>2
    <3>4. CASE i = m
      BY <3>3, <3>4
    <3>5. CASE i # m
      <4>1. i \in 0..(m - 1) /\ q[i] = p[i]
        BY <3>5
      <4>2. p[i] = At(p, i)
        <5> HIDE DEF At
        <5> QED BY <2>1, <4>1
      <4> QED BY <4>1, <4>2, <3>3
    <3> QED BY <3>4, <3>5
  <2>3. IsD(m, q)
    <3> HIDE DEF At
    <3>1. q = [i \in 0..m |-> q[i]]
      OBVIOUS
    <3> QED BY <2>2, <3>1
  <2> HIDE DEF IsD, q
  <2> QED BY <2>3
<1>3. n \in G
  <2> HIDE DEF G
  <2>1. 0..n \subseteq G
    BY <1>1, <1>2, UpTo
  <2> QED BY <2>1
<1>4. \E d : IsD(n, d)
  <2> HIDE DEF IsD
  <2> QED BY <1>3
<1>5. \E d : IsD(n, d) /\ Deal(b, cohort, pool, ids, number) = d[n]
  <2> DEFINE c == CHOOSE d : IsD(n, d)
  <2>1. IsD(n, c)
    <3> HIDE DEF IsD
    <3> QED BY <1>4
  <2>2. Deal(b, cohort, pool, ids, number) = c[n]
    BY DEF Deal
  <2> HIDE DEF c
  <2> QED BY <2>1, <2>2
<1> QED BY <1>5

(* What a deal promises: one cohort each, and no abstention is learned.    *)
Apart(members, pool) ==
  /\ members \subseteq IdsIn(pool) \X Cohorts
  /\ \A p, q \in members : p[1] = q[1] => p = q
  /\ \A p \in members : p[2] = "learned" => p[1].kind # "abstention"

Fair(d, pool) == d = [dealt |-> d.dealt, taken |-> d.taken] /\ Apart(d.dealt, pool)

LEMMA OneMore ==
  ASSUME NEW members, NEW pool, Apart(members, pool), NEW key \in IdsIn(pool), NEW cohort \in Cohorts,
         \A p \in members : p[1] # key, cohort = "learned" => key.kind # "abstention"
  PROVE  Apart(members \cup {<<key, cohort>>}, pool)
<1> DEFINE new == <<key, cohort>>
           all == members \cup {new}
<1>1. new \in IdsIn(pool) \X Cohorts /\ new[1] = key /\ new[2] = cohort
  OBVIOUS
<1> HIDE DEF new
<1>2. all \subseteq IdsIn(pool) \X Cohorts
  BY <1>1 DEF Apart
<1>3. ASSUME NEW p \in all, NEW q \in all, p[1] = q[1] PROVE p = q
  BY <1>1, <1>3 DEF Apart
<1>4. ASSUME NEW p \in all, p[2] = "learned" PROVE p[1].kind # "abstention"
  BY <1>1, <1>4 DEF Apart
<1> QED BY <1>2, <1>3, <1>4 DEF Apart, new

LEMMA DealOneKeeps ==
  ASSUME NEW d, NEW pool, Fair(d, pool), NEW cohort \in Cohorts, NEW key \in IdsIn(pool), NEW ids, NEW number,
         cohort = "learned" => \A x \in ids : x.kind # "abstention"
  PROVE  Fair(DealOne(d, cohort, key, ids, number), pool)
<1>1. CASE d.taken >= number \/ key \notin ids \/ \E p \in d.dealt : p[1] = key
  BY <1>1 DEF DealOne
<1>2. CASE ~(d.taken >= number \/ key \notin ids \/ \E p \in d.dealt : p[1] = key)
  <2>1. Apart(d.dealt \cup {<<key, cohort>>}, pool)
    BY <1>2, OneMore DEF Fair
  <2>2. DealOne(d, cohort, key, ids, number) = [dealt |-> d.dealt \cup {<<key, cohort>>}, taken |-> d.taken + 1]
    BY <1>2 DEF DealOne
  <2> QED BY <2>1, <2>2 DEF Fair
<1> QED BY <1>1, <1>2

LEMMA DealKeeps ==
  ASSUME NEW b, NEW pool, Fair(b, pool), Len(pool) \in Nat, DOMAIN pool = 1..Len(pool),
         NEW cohort \in Cohorts, NEW ids, NEW number,
         cohort = "learned" => \A x \in ids : x.kind # "abstention"
  PROVE  Fair(Deal(b, cohort, pool, ids, number), pool)
<1> DEFINE n == Len(pool)
<1>1. PICK d : /\ d = [i \in 0..n |-> IF i = 0 THEN b ELSE DealOne(d[i - 1], cohort, pool[i], ids, number)]
               /\ Deal(b, cohort, pool, ids, number) = d[n]
  <2>1. n \in Nat
    OBVIOUS
  <2> QED BY ONLY <2>1, DealSteps
<1>2. n \in Nat /\ \A i \in 1..n : pool[i] \in IdsIn(pool)
  BY DEF IdsIn
<1> HIDE DEF n
<1> DEFINE G == {i \in 0..n : Fair(d[i], pool)}
<1>3. 0 \in G
  BY <1>1, <1>2
<1>4. ASSUME NEW i \in 1..n, i - 1 \in G PROVE i \in G
  <2>1. d[i] = DealOne(d[i - 1], cohort, pool[i], ids, number)
    BY <1>1, <1>2
  <2> QED BY <1>2, <1>4, <2>1, DealOneKeeps
<1>5. 0..n \subseteq G
  <2> HIDE DEF G
  <2> QED BY <1>2, <1>3, <1>4, UpTo
<1> QED BY <1>1, <1>2, <1>5

LEMMA AnewKeeps == ASSUME NEW d, NEW pool, Fair(d, pool) PROVE Fair([d EXCEPT !.taken = 0], pool)
<1>1. PICK x, t : d = [dealt |-> x, taken |-> t]
  BY DEF Fair
<1>2. [d EXCEPT !.taken = 0] = [dealt |-> d.dealt, taken |-> 0]
  BY <1>1
<1> QED BY <1>2 DEF Fair

(* Every question is dealt, by whom nobody took at the last.               *)
LEMMA MembershipApart ==
  ASSUME NEW pool, Len(pool) \in Nat, DOMAIN pool = 1..Len(pool)
  PROVE  /\ Apart(Membership(pool), pool)
         /\ {p[1] : p \in Membership(pool)} = IdsIn(pool)
<1> DEFINE total     == Len(pool)
           count     == [c \in DOMAIN Fractions |-> Share(total, Fractions[c])]
           rounded   == count["anchor"] + count["learned"] + count["temporal_holdout"] + count["control"]
           spare     == IF rounded < total THEN total - rounded ELSE 0
           all       == IdsIn(pool)
           rest      == {key \in all : key.kind = "abstention"}
           Anew(d)   == [d EXCEPT !.taken = 0]
           learned   == Deal([dealt |-> {}, taken |-> 0], "learned", pool, all \ rest, count["learned"])
           holdout   == Deal(Anew(learned), "temporal_holdout", pool, all \ rest, count["temporal_holdout"])
           anchor    == Deal(Anew(holdout), "anchor", pool, all \ rest, count["anchor"])
           first     == Deal(Anew(anchor), "control", pool, rest, count["control"])
           control   == Deal(first, "control", pool, all \ rest, count["control"])
           second    == Deal(Anew(control), "invariant", pool, rest, spare)
           invariant == Deal(second, "invariant", pool, all, spare)
           left      == {key \in all : \A p \in invariant.dealt : p[1] # key}
<1>1. Membership(pool) = invariant.dealt \cup {<<key, "anchor">> : key \in left}
  BY DEF Membership
<1>2. \A x \in all \ rest : x.kind # "abstention"
  OBVIOUS
<1> HIDE DEF count, spare, all, rest
<1>3. Fair([dealt |-> {}, taken |-> 0], pool)
  BY DEF Fair, Apart
<1> USE DEF Cohorts
<1>4. Fair(learned, pool)
  BY <1>2, <1>3, DealKeeps
<1> HIDE DEF learned
<1>5. Fair(holdout, pool)
  BY <1>4, DealKeeps, AnewKeeps
<1> HIDE DEF holdout
<1>6. Fair(anchor, pool)
  BY <1>5, DealKeeps, AnewKeeps
<1> HIDE DEF anchor
<1>7. Fair(first, pool)
  BY <1>6, DealKeeps, AnewKeeps
<1> HIDE DEF first
<1>8. Fair(control, pool)
  BY <1>7, DealKeeps
<1> HIDE DEF control
<1>9. Fair(second, pool)
  BY <1>8, DealKeeps, AnewKeeps
<1> HIDE DEF second
<1>10. Fair(invariant, pool)
  BY <1>9, DealKeeps
<1> HIDE DEF invariant
<1> DEFINE D == invariant.dealt
           A == {<<key, "anchor">> : key \in left}
<1>11. Apart(D, pool)
  BY <1>10 DEF Fair
<1> HIDE DEF D
<1>12. \A p \in A : p[1] \in left /\ p[2] = "anchor" /\ p = <<p[1], p[2]>>
  OBVIOUS
<1>13. \A key \in left : key \in all /\ \A p \in D : p[1] # key
  BY DEF D
<1>14. \A key \in all : key \in left \/ \E p \in D : p[1] = key
  BY DEF D
<1>15. \A key \in left : \E p \in A : p[1] = key
  <2> TAKE key \in left
  <2>1. <<key, "anchor">> \in A /\ <<key, "anchor">>[1] = key
    OBVIOUS
  <2> HIDE DEF A
  <2> QED BY <2>1
<1> HIDE DEF left, A
<1>16. D \cup A \subseteq all \X Cohorts
  BY <1>11, <1>12, <1>13 DEF Apart, all
<1>17. ASSUME NEW p \in D \cup A, NEW q \in D \cup A, p[1] = q[1] PROVE p = q
  BY <1>11, <1>12, <1>13, <1>17 DEF Apart
<1>18. ASSUME NEW p \in D \cup A, p[2] = "learned" PROVE p[1].kind # "abstention"
  BY <1>11, <1>12, <1>18 DEF Apart
<1>19. {p[1] : p \in D \cup A} = all
  <2>1. \A p \in D \cup A : p[1] \in all
    BY <1>16
  <2>2. \A key \in all : \E p \in D \cup A : p[1] = key
    BY <1>14, <1>15
  <2> QED BY <2>1, <2>2
<1>20. Membership(pool) = D \cup A
  BY <1>1 DEF D, A
<1> QED BY <1>16, <1>17, <1>18, <1>19, <1>20 DEF Apart, all

-----------------------------------------------------------------------------
(* The package.                                                            *)

(* What is left out is what leaked when the package in use was frozen, but *)
(* between the manifest and state.json, or if the process died there.      *)
Reports ==
  /\ step = 8 => manifest = Len(builds)
  /\ manifest > 0 => manifest \in cut \/ leakage = manifest \/ step = 8

(* A manifest is of a build that was begun, or torn, or not there.         *)
BenchmarkInv == TypeOK /\ (\E Qs : builds \in Seq(Qs)) /\ CohortsApart /\ NoAnswerInQuestion /\ Reports

LEMMA BenchmarkInit == Init => BenchmarkInv
<1> SUFFICES ASSUME Init PROVE BenchmarkInv
  OBVIOUS
<1>1. builds = <<>> /\ builds \in Seq({}) /\ DOMAIN builds = {}
  BY DEF Init
<1>2. TypeOK
  BY <1>1 DEF Init, TypeOK
<1>3. Reports
  BY DEF Init, Reports
<1> QED BY <1>1, <1>2, <1>3 DEF BenchmarkInv, CohortsApart, NoAnswerInQuestion

(* A build in any order deals its own questions.                           *)
LEMMA QuestionsDealt ==
  ASSUME NEW qs, NEW Qs, qs \in Seq(Qs), Len(qs) \in DOMAIN Shuffles, NEW order \in Shuffles[Len(qs)]
  PROVE  LET members == Membership([i \in DOMAIN qs |-> qs[order[i]].id])
         IN /\ \A p, q \in members : p[1] = q[1] => p = q
            /\ IdsOf(qs) = {p[1] : p \in members}
            /\ \A p \in members : p[2] = "learned" => p[1].kind # "abstention"
<1> DEFINE n == Len(qs)
           pool == [i \in DOMAIN qs |-> qs[order[i]].id]
           members == Membership(pool)
<1>1. n \in Nat /\ DOMAIN qs = 1..n
  OBVIOUS
<1>2. order \in [1..n -> 1..n] /\ \A k \in 1..n : \E i \in 1..n : order[i] = k
  BY BenchmarkAssumption
<1>3. Len(pool) = n /\ DOMAIN pool = 1..n
  BY <1>1
<1>4. IdsIn(pool) = IdsOf(qs)
  <2>1. \A i \in 1..n : pool[i] = qs[order[i]].id
    BY <1>1
  <2>2. IdsIn(pool) = {qs[order[i]].id : i \in 1..n}
    BY <1>3, <2>1 DEF IdsIn
  <2>3. IdsOf(qs) = {qs[k].id : k \in 1..n}
    BY <1>1 DEF IdsOf, ToSet
  <2> HIDE DEF pool, n
  <2>4. ASSUME NEW i \in 1..n PROVE qs[order[i]].id \in {qs[k].id : k \in 1..n}
    BY <1>2
  <2>5. ASSUME NEW k \in 1..n PROVE qs[k].id \in {qs[order[i]].id : i \in 1..n}
    <3>1. PICK i \in 1..n : order[i] = k
      BY <1>2
    <3> QED BY <3>1
  <2> QED BY <2>2, <2>3, <2>4, <2>5
<1> HIDE DEF pool
<1>5. Apart(members, pool) /\ {p[1] : p \in members} = IdsIn(pool)
  BY <1>1, <1>3, MembershipApart
<1> HIDE DEF members
<1>6. /\ \A p, q \in members : p[1] = q[1] => p = q
      /\ IdsOf(qs) = {p[1] : p \in members}
      /\ \A p \in members : p[2] = "learned" => p[1].kind # "abstention"
  BY <1>4, <1>5 DEF Apart
<1> QED BY <1>6 DEF members, pool

(* What NoAnswerInQuestion says of one build.                              *)
Hidden(build) ==
  /\ \A key \in build.leaks : key.kind = "abstention"
  /\ \A x \in build.facts : Matches(x[2].matcher, x[1], Tolerance) =>
       x[2].matcher.kind = "numeric" /\ \A k \in Numerals(x[1]) : ~Near(k, x[2].matcher.value, 2)

LEMMA HiddenAll == NoAnswerInQuestion <=> \A n \in DOMAIN builds : Hidden(builds[n])
BY DEF NoAnswerInQuestion, Hidden

LEMMA BuildKeeps == ASSUME BenchmarkInv, Build PROVE BenchmarkInv'
<1> DEFINE q == Questions
<1>1. PICK order \in Shuffles[Len(q.out)] :
        builds' = Append(builds, [questions |-> q.out, facts |-> FactsOf(q.out), gaps |-> q.gaps, order |-> order,
                                  cohorts |-> Membership([i \in DOMAIN q.out |-> q.out[order[i]].id]),
                                  leaks |-> Leaks(q.out)])
  BY DEF Build
<1>2. Len(q.out) \in DOMAIN Shuffles /\ step' = 1
      /\ step = 0 /\ UNCHANGED <<claims, composition, files, manifest, leakage, answered, cut, deaths>>
  BY DEF Build
<1>3. claims \in Seq(Shapes) /\ composition \in Compositions
  BY DEF BenchmarkInv, TypeOK
<1>4. /\ \A key \in Leaks(q.out) : key.kind = "abstention"
      /\ \A x \in FactsOf(q.out) : ~Matches(x[2].matcher, x[1], 2)
  BY <1>3, LeaksAbstain
<1>5. PICK T : q.out \in Seq(T)
  BY <1>3, QuestionsSound DEF Sound
<1> HIDE DEF q
<1> DEFINE members == Membership([i \in DOMAIN q.out |-> q.out[order[i]].id])
           new == [questions |-> q.out, facts |-> FactsOf(q.out), gaps |-> q.gaps, order |-> order,
                   cohorts |-> members, leaks |-> Leaks(q.out)]
<1>6. /\ \A p, r \in members : p[1] = r[1] => p = r
      /\ IdsOf(q.out) = {p[1] : p \in members}
      /\ \A p \in members : p[2] = "learned" => p[1].kind # "abstention"
  BY <1>2, <1>5, QuestionsDealt
<1>7. builds' = Append(builds, new)
  BY <1>1
<1>8. new.questions = q.out /\ new.cohorts = members /\ new.leaks = Leaks(q.out) /\ new.facts = FactsOf(q.out)
  OBVIOUS
<1> HIDE DEF new, members
<1>9. PICK Qs : builds \in Seq(Qs)
  BY DEF BenchmarkInv
<1>10. builds' \in Seq(Qs \cup {new})
  <2>1. builds \in Seq(Qs \cup {new})
    BY <1>9
  <2> QED BY <1>7, <2>1
<1>11. /\ Len(builds) \in Nat /\ Len(builds') = Len(builds) + 1 /\ DOMAIN builds' = 1..(Len(builds) + 1)
       /\ DOMAIN builds = 1..Len(builds)
       /\ \A n \in DOMAIN builds' : (n \in DOMAIN builds /\ builds'[n] = builds[n]) \/ builds'[n] = new
  BY <1>7, <1>9
<1>12. TypeOK'
  <2>1. -1..Len(builds) \subseteq -1..Len(builds') /\ 0..Len(builds) \subseteq 0..Len(builds')
    BY <1>11
  <2>2. files \in [1..6 -> -1..Len(builds)] /\ manifest \in -1..Len(builds) /\ leakage \in 0..Len(builds)
    BY DEF BenchmarkInv, TypeOK
  <2>3. files \in [1..6 -> -1..Len(builds')] /\ manifest \in -1..Len(builds') /\ leakage \in 0..Len(builds')
    BY <2>1, <2>2
  <2>4. answered' \in SUBSET Answerable /\ cut' \in SUBSET Int
    BY <1>2 DEF BenchmarkInv, TypeOK
  <2> QED BY <1>2, <1>3, <2>3, <2>4 DEF TypeOK
<1>13. CohortsApart'
  <2> SUFFICES ASSUME NEW n \in DOMAIN builds'
               PROVE  /\ \A p, r \in builds'[n].cohorts : p[1] = r[1] => p = r
                      /\ IdsOf(builds'[n].questions) = {p[1] : p \in builds'[n].cohorts}
                      /\ \A p \in builds'[n].cohorts : p[2] = "learned" => p[1].kind # "abstention"
    BY DEF CohortsApart, IdsOf
  <2> QED BY <1>6, <1>8, <1>11 DEF BenchmarkInv, CohortsApart
<1>14. NoAnswerInQuestion'
  <2>1. Hidden(new)
    BY <1>4, <1>8, OnlyNumbers DEF Hidden
  <2>2. \A n \in DOMAIN builds : Hidden(builds[n])
    BY HiddenAll DEF BenchmarkInv
  <2>3. \A n \in DOMAIN builds' : Hidden(builds'[n])
    BY <1>11, <2>1, <2>2
  <2> QED BY <2>3 DEF NoAnswerInQuestion, Hidden, Matches, Near, Contained, Said, Numerals
<1>15. Reports'
  BY <1>2 DEF BenchmarkInv, Reports
<1> QED BY <1>10, <1>12, <1>13, <1>14, <1>15 DEF BenchmarkInv

LEMMA BenchmarkStep == BenchmarkInv /\ [Next]_vars => BenchmarkInv'
<1> SUFFICES ASSUME BenchmarkInv, [Next]_vars PROVE BenchmarkInv'
  OBVIOUS
<1>1. CASE Build
  BY <1>1, BuildKeeps
<1>2. ASSUME UNCHANGED builds, TypeOK', Reports' PROVE BenchmarkInv'
  <2>1. NoAnswerInQuestion'
    BY <1>2 DEF BenchmarkInv, NoAnswerInQuestion, Matches, Near, Contained, Said, Numerals
  <2>2. CohortsApart' /\ \E Qs : builds' \in Seq(Qs)
    BY <1>2 DEF BenchmarkInv, CohortsApart, IdsOf
  <2> QED BY <1>2, <2>1, <2>2 DEF BenchmarkInv
<1>3. Len(builds) \in Nat
  BY DEF BenchmarkInv
<1>4. ASSUME NEW shape \in Shapes, Collect(shape) PROVE BenchmarkInv'
  <2>1. TypeOK' /\ UNCHANGED builds
    BY <1>4 DEF Collect, BenchmarkInv, TypeOK
  <2>2. Reports'
    BY <1>4 DEF Collect, BenchmarkInv, Reports
  <2> QED BY <1>2, <2>1, <2>2
<1>8. ASSUME NEW text \in Answerable, Discover(text) PROVE BenchmarkInv'
  <2>1. TypeOK' /\ UNCHANGED builds
    BY <1>8 DEF Discover, BenchmarkInv, TypeOK
  <2>2. Reports'
    BY <1>8 DEF Discover, BenchmarkInv, Reports
  <2> QED BY <1>2, <2>1, <2>2
<1>5. CASE Freeze
  <2>1. UNCHANGED <<claims, composition, builds, answered, cut>> /\ step \in 1..8 /\ step' = (step + 1) % 9
    BY <1>5 DEF Freeze
  <2>2. step' \in 0..8
    BY <2>1
  <2>3. files' \in [1..6 -> -1..Len(builds)]
    <3>1. Len(builds) \in -1..Len(builds) /\ files \in [1..6 -> -1..Len(builds)]
      BY <1>3 DEF BenchmarkInv, TypeOK
    <3>2. files' = files \/ (step \in 1..6 /\ files' = [files EXCEPT ![step] = Len(builds)])
      BY <1>5, <2>1 DEF Freeze
    <3> QED BY <3>1, <3>2
  <2>4. manifest' \in -1..Len(builds) /\ leakage' \in 0..Len(builds)
    BY <1>3, <1>5 DEF Freeze, Reported, BenchmarkInv, TypeOK
  <2>5. TypeOK'
    BY <2>1, <2>2, <2>3, <2>4 DEF BenchmarkInv, TypeOK
  <2>6. manifest' = (IF step = 7 THEN Len(builds) ELSE manifest) /\ leakage' = (IF step = 8 THEN Len(builds) ELSE leakage)
    BY <1>5 DEF Freeze, Reported
  <2>7. (step' = 8 <=> step = 7) /\ Len(builds') = Len(builds)
    BY <2>1
  <2>8. Reports'
    BY <2>1, <2>6, <2>7 DEF BenchmarkInv, Reports
  <2> QED BY <1>2, <2>1, <2>5, <2>8
<1>6. CASE Die
  <2>1. /\ UNCHANGED <<claims, composition, builds, leakage, answered>> /\ step' = 0 /\ step \in 1..8
        /\ cut' = IF step = 8 THEN cut \cup {manifest} ELSE cut
    BY <1>6 DEF Die, BenchmarkInv, TypeOK
  <2>2. files \in [1..6 -> -1..Len(builds)] /\ manifest \in -1..Len(builds) /\ -1 \in -1..Len(builds)
    BY <1>3 DEF BenchmarkInv, TypeOK
  <2>3. \/ UNCHANGED <<files, manifest>>
        \/ step \in 1..6 /\ files' = [files EXCEPT ![step] = -1] /\ UNCHANGED manifest
        \/ manifest' = -1 /\ UNCHANGED files
    BY <1>6, <2>1 DEF Die
  <2>4. files' \in [1..6 -> -1..Len(builds)] /\ manifest' \in -1..Len(builds)
    BY <2>2, <2>3
  <2>5. TypeOK'
    BY <2>1, <2>2, <2>4 DEF BenchmarkInv, TypeOK
  <2>6. Reports'
    BY <2>1, <2>3 DEF BenchmarkInv, Reports
  <2> QED BY <1>2, <2>1, <2>5, <2>6
<1>7. CASE UNCHANGED vars
  <2>1. TypeOK' /\ UNCHANGED builds
    BY <1>7 DEF vars, BenchmarkInv, TypeOK
  <2>2. Reports'
    BY <1>7 DEF vars, BenchmarkInv, Reports
  <2> QED BY <1>2, <2>1, <2>2
<1> QED BY <1>1, <1>4, <1>5, <1>6, <1>7, <1>8 DEF Next

LEMMA BenchmarkInvariance == Spec => []BenchmarkInv
BY BenchmarkInit, BenchmarkStep, PTL DEF Spec

(* Every variable of a freeze has its type, and the files of the package   *)
(* are of builds that were begun.                                          *)
THEOREM BenchmarkTypeOK == Spec => []TypeOK
<1>1. BenchmarkInv => TypeOK
  BY DEF BenchmarkInv
<1> QED BY <1>1, BenchmarkInvariance, PTL

(* No question is in two cohorts, every question is in one, and none that  *)
(* is learned from is an abstention, for every composition, shuffle and    *)
(* share (builder._assign_cohorts).                                        *)
THEOREM BenchmarkCohortsApart == Spec => []CohortsApart
<1>1. BenchmarkInv => CohortsApart
  BY DEF BenchmarkInv
<1> QED BY <1>1, BenchmarkInvariance, PTL

(* The leakage check finds no fact its question gives away, rebuilt        *)
(* matchers included, for every collection of claims, words and numbers,   *)
(* and the scorer none but a number that is off by more than the builder's *)
(* tolerance (builder._attach and _harden, leakage.check_leakage,          *)
(* FactMatcher.matches).                                                   *)
THEOREM BenchmarkNoAnswerInQuestion == Spec => []NoAnswerInQuestion
<1>1. BenchmarkInv => NoAnswerInQuestion
  BY DEF BenchmarkInv
<1> QED BY <1>1, BenchmarkInvariance, PTL

(* An evaluation that is accepted leaves out whatever leaked when its       *)
(* package was frozen, however many freezes were cut short in between, but  *)
(* after a death between the manifest and state.json (cli.cmd_freeze_       *)
(* benchmark).                                                              *)
THEOREM BenchmarkLeaksLeftOut == Spec => []LeaksLeftOut
<1>1. BenchmarkInv => LeaksLeftOut
  <2> SUFFICES ASSUME BenchmarkInv, Accepted, manifest \notin cut, NEW q \in ToSet(builds[files[1]].questions),
                      q.id \in builds[manifest].leaks
               PROVE  Invalidated(q.id)
    BY DEF LeaksLeftOut
  <2>1. step = 0 /\ manifest > 0
    BY DEF Accepted
  <2>2. leakage = manifest
    BY <2>1 DEF BenchmarkInv, Reports
  <2> QED BY <2>1, <2>2 DEF Invalidated
<1> QED BY <1>1, BenchmarkInvariance, PTL
=============================================================================
