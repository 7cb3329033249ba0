-------------------------- MODULE CostLedgerProofs --------------------------
(***************************************************************************)
(* What rests on lemmas about sums: the cost ledger, for any number of     *)
(* branches, any budget and any prices; then the analysis of an evaluation *)
(* and its reports, for any questions, answers and configuration.          *)
(* The lemmas about Sum come first: it is an integer, changing one summand *)
(* changes it by the difference, and bounds on the summands bound it.      *)
(***************************************************************************)
EXTENDS CostLedger, Reports, FiniteSetTheorems, WellFoundedInduction, TLAPS

(* A nonempty set of naturals has a least element. *)
LEMMA LeastNatural ==
  ASSUME NEW T \in SUBSET Nat, T # {}
  PROVE  \E m \in T : \A k \in T : m <= k
<1> DEFINE R == {ss \in Nat \X Nat : ss[1] < ss[2]}
<1>1. IsWellFoundedOn(R, Nat)
  BY NatLessThanWellFounded DEF OpToRel
<1>2. PICK m \in T : \A k \in T : <<k, m>> \notin R
  <2> HIDE DEF R
  <2> QED BY <1>1, WFMin
<1>3. ASSUME NEW k \in T, k < m PROVE FALSE
  <2>1. <<k, m>> \in Nat \X Nat /\ <<k, m>>[1] < <<k, m>>[2]
    BY <1>3
  <2>2. <<k, m>> \in R
    BY <2>1, Zenon
  <2> QED BY <2>2, <1>2
<1> QED BY <1>3

(* Induction over 0..N, for a set instead of a predicate. *)
LEMMA RangeInduction ==
  ASSUME NEW N \in Nat, NEW G, 0 \in G,
         \A i \in 1..N : i - 1 \in G => i \in G
  PROVE  0..N \subseteq G
<1> DEFINE Bad == {n \in 0..N : n \notin G}
<1>1. SUFFICES ASSUME Bad # {} PROVE FALSE
  OBVIOUS
<1>2. PICK m \in Bad : \A k \in Bad : m <= k
  <2>1. Bad \in SUBSET Nat
    OBVIOUS
  <2> HIDE DEF Bad
  <2> QED BY <1>1, <2>1, LeastNatural
<1>3. m \in 1..N /\ m - 1 \in 0..N
  OBVIOUS
<1>4. m - 1 \in G
  BY <1>2, <1>3
<1> QED BY <1>3, <1>4

(* A function with the recursion of Partials exists. *)
LEMMA PartialsExist ==
  ASSUME NEW N \in Nat, NEW f \in [1..N -> Int]
  PROVE  \E p \in [0..N -> Int] :
            \A i \in 0..N : p[i] = IF i = 0 THEN 0 ELSE p[i-1] + f[i]
<1> DEFINE IsP(n, p) == \A i \in 0..n : p[i] = IF i = 0 THEN 0 ELSE p[i-1] + f[i]
           G == {n \in 0..N : \E p \in [0..n -> Int] : IsP(n, p)}
<1>1. 0 \in G
  <2> DEFINE z == [i \in 0..0 |-> 0]
  <2>1. z \in [0..0 -> Int] /\ IsP(0, z)
    OBVIOUS
  <2> HIDE DEF z, IsP
  <2> QED BY <2>1
<1>2. ASSUME NEW m \in 1..N, m - 1 \in G PROVE m \in G
  <2>1. PICK p \in [0..(m-1) -> Int] : IsP(m-1, p)
    BY <1>2
  <2> DEFINE q == [i \in 0..m |-> IF i = m THEN p[m-1] + f[m] ELSE p[i]]
  <2>2. q \in [0..m -> Int]
    OBVIOUS
  <2>3. ASSUME NEW i \in 0..m PROVE q[i] = IF i = 0 THEN 0 ELSE q[i-1] + f[i]
    <3>1. CASE i = m
      BY <3>1
    <3>2. CASE i # m
      BY <3>2, <2>1
    <3> QED BY <3>1, <3>2
  <2>4. IsP(m, q)
    BY <2>3
  <2> HIDE DEF q, IsP
  <2> QED BY <2>2, <2>4
<1>3. 0..N \subseteq G
  <2> HIDE DEF G
  <2> QED BY <1>1, <1>2, RangeInduction
<1>4. N \in G
  <2> HIDE DEF G
  <2> QED BY <1>3
<1>5. \E p \in [0..N -> Int] : IsP(N, p)
  <2> HIDE DEF IsP
  <2> QED BY <1>4
<1> QED BY <1>5

(* Partials has the values its recursion says. *)
LEMMA PartialsDef ==
  ASSUME NEW N \in Nat, NEW f \in [1..N -> Int]
  PROVE  /\ Partials(f, N) \in [0..N -> Int]
         /\ Partials(f, N)[0] = 0
         /\ \A i \in 1..N : Partials(f, N)[i] = Partials(f, N)[i-1] + f[i]
<1>1. PICK p \in [0..N -> Int] :
            \A i \in 0..N : p[i] = IF i = 0 THEN 0 ELSE p[i-1] + f[i]
  BY PartialsExist
<1>2. p = [i \in 0..N |-> IF i = 0 THEN 0 ELSE p[i-1] + f[i]]
  BY <1>1
<1>3. Partials(f, N) = [i \in 0..N |-> IF i = 0 THEN 0 ELSE Partials(f, N)[i-1] + f[i]]
  BY <1>2 DEF Partials
<1> DEFINE P == Partials(f, N)
<1> HIDE DEF P
<1>4. P = [i \in 0..N |-> IF i = 0 THEN 0 ELSE P[i-1] + f[i]]
  BY <1>3 DEF P
<1>5. P[0] = 0 /\ \A i \in 1..N : P[i] = P[i-1] + f[i]
  BY <1>4
<1> DEFINE G == {i \in 0..N : P[i] \in Int}
<1>6. 0..N \subseteq G
  <2>1. 0 \in G /\ \A i \in 1..N : i - 1 \in G => i \in G
    <3>1. 0 \in 0..N /\ \A i \in 1..N : i - 1 \in 0..N /\ i \in 0..N /\ f[i] \in Int
      OBVIOUS
    <3>2. 0 \in G
      BY <1>5, <3>1
    <3>3. ASSUME NEW i \in 1..N, i - 1 \in G PROVE i \in G
      <4>1. i \in 0..N /\ P[i-1] \in Int /\ f[i] \in Int
        BY <3>1, <3>3
      <4>2. P[i] = P[i-1] + f[i]
        BY <1>5
      <4>3. P[i] \in Int
        BY <4>1, <4>2
      <4> QED BY <4>1, <4>3
    <3> QED BY <3>2, <3>3
  <2> HIDE DEF G
  <2> QED BY <2>1, RangeInduction
<1>7. P \in [0..N -> Int]
  BY <1>4, <1>6
<1> QED BY <1>5, <1>7 DEF P

(* A sum of integers is an integer. *)
LEMMA SumType ==
  ASSUME NEW N \in Nat, NEW f \in [1..N -> Int]
  PROVE  Sum(f, N) \in Int
BY PartialsDef DEF Sum

(* Changing one term changes the sum by the difference. *)
LEMMA SumUpdate ==
  ASSUME NEW N \in Nat, NEW f \in [1..N -> Int], NEW b \in 1..N, NEW v \in Int
  PROVE  Sum([f EXCEPT ![b] = v], N) = Sum(f, N) - f[b] + v
<1> DEFINE g == [f EXCEPT ![b] = v]
           P == Partials(f, N)
           Q == Partials(g, N)
           G == {i \in 0..N : Q[i] = P[i] + (IF i < b THEN 0 ELSE v - f[b])}
<1>1. g \in [1..N -> Int]
  OBVIOUS
<1>2. /\ P \in [0..N -> Int] /\ Q \in [0..N -> Int]
      /\ P[0] = 0 /\ Q[0] = 0
      /\ \A i \in 1..N : P[i] = P[i-1] + f[i] /\ Q[i] = Q[i-1] + g[i]
  <2> HIDE DEF g
  <2> QED BY <1>1, PartialsDef
<1> HIDE DEF P, Q
<1>3. 0 \in G
  BY <1>2
<1>4. ASSUME NEW i \in 1..N, i - 1 \in G PROVE i \in G
  <2>1. Q[i-1] = P[i-1] + (IF i - 1 < b THEN 0 ELSE v - f[b])
    BY <1>4
  <2>2. Q[i] = Q[i-1] + g[i] /\ P[i] = P[i-1] + f[i] /\ P[i-1] \in Int
    BY <1>2
  <2>3. g[i] = IF i = b THEN v ELSE f[i]
    OBVIOUS
  <2> HIDE DEF g
  <2> QED BY <2>1, <2>2, <2>3
<1>5. N \in G
  <2> HIDE DEF G
  <2>1. 0..N \subseteq G
    BY <1>3, <1>4, RangeInduction
  <2> QED BY <2>1
<1>6. Q[N] = P[N] + (v - f[b])
  BY <1>5
<1>7. Sum(f, N) = P[N] /\ Sum([f EXCEPT ![b] = v], N) = Q[N]
  BY DEF Sum, P, Q
<1> QED BY <1>2, <1>6, <1>7

(* A sum of n terms between 0 and M is between 0 and M * n. *)
LEMMA SumBounds ==
  ASSUME NEW N \in Nat, NEW f \in [1..N -> Int], NEW M \in Nat,
         \A i \in 1..N : 0 <= f[i] /\ f[i] <= M
  PROVE  0 <= Sum(f, N) /\ Sum(f, N) <= M * N
<1> DEFINE P == Partials(f, N)
           G == {i \in 0..N : 0 <= P[i] /\ P[i] <= M * i}
<1>1. /\ P \in [0..N -> Int]
      /\ P[0] = 0
      /\ \A i \in 1..N : P[i] = P[i-1] + f[i]
  BY PartialsDef
<1> HIDE DEF P
<1>2. 0 \in G
  BY <1>1
<1>3. ASSUME NEW i \in 1..N, i - 1 \in G PROVE i \in G
  <2>1. M * i = M * (i - 1) + M
    OBVIOUS
  <2>2. /\ i \in 0..N /\ M * (i - 1) \in Int /\ 0 <= P[i-1] /\ P[i-1] <= M * (i - 1)
    BY <1>3
  <2>3. P[i] = P[i-1] + f[i] /\ P[i-1] \in Int /\ f[i] \in Int /\ 0 <= f[i] /\ f[i] <= M
    BY <1>1, <2>2
  <2> DEFINE before == M * (i - 1)
             now    == M * i
  <2>4. now = before + M /\ before \in Int /\ P[i-1] <= before
    BY <2>1, <2>2
  <2> HIDE DEF before, now
  <2>5. 0 <= P[i] /\ P[i] <= now
    BY <2>2, <2>3, <2>4
  <2> QED BY <2>2, <2>5 DEF now
<1>4. N \in G
  <2> HIDE DEF G
  <2>1. 0..N \subseteq G
    BY <1>2, <1>3, RangeInduction
  <2> QED BY <2>1
<1> QED BY <1>4 DEF Sum, P

(* A sum of zeros is zero. *)
LEMMA SumZero ==
  ASSUME NEW N \in Nat, NEW f \in [1..N -> Int], \A i \in 1..N : f[i] = 0
  PROVE  Sum(f, N) = 0
<1>1. \A i \in 1..N : 0 <= f[i] /\ f[i] <= 0
  OBVIOUS
<1>2. 0 <= Sum(f, N) /\ Sum(f, N) <= 0 * N
  BY <1>1, SumBounds
<1> QED BY <1>2, SumType

(* A sum of naturals is at least each of its terms. *)
LEMMA SumAtLeastTerm ==
  ASSUME NEW N \in Nat, NEW f \in [1..N -> Nat], NEW b \in 1..N
  PROVE  f[b] <= Sum(f, N)
<1> DEFINE g == [f EXCEPT ![b] = 0]
<1>1. f \in [1..N -> Int] /\ g \in [1..N -> Nat] /\ g \in [1..N -> Int]
  OBVIOUS
<1>2. Sum(g, N) = Sum(f, N) - f[b] + 0
  BY <1>1, SumUpdate
<1>3. 0 <= Sum(g, N)
  <2> DEFINE P == Partials(g, N)
             G == {i \in 0..N : 0 <= P[i]}
  <2>1. /\ P \in [0..N -> Int]
        /\ P[0] = 0
        /\ \A i \in 1..N : P[i] = P[i-1] + g[i]
    <3> HIDE DEF g
    <3> QED BY <1>1, PartialsDef
  <2> HIDE DEF P
  <2>2. 0 \in G /\ \A i \in 1..N : i - 1 \in G => i \in G
    <3>1. ASSUME NEW i \in 1..N, i - 1 \in G PROVE i \in G
      <4>1. g[i] \in Nat
        BY <1>1
      <4>2. P[i] = P[i-1] + g[i] /\ 0 <= P[i-1] /\ P[i-1] \in Int
        BY <2>1, <3>1
      <4> HIDE DEF g
      <4> QED BY <4>1, <4>2
    <3>2. 0 \in G
      BY <2>1
    <3> QED BY <3>1, <3>2
  <2>3. N \in G
    <3>1. 0..N \subseteq G
      <4> HIDE DEF G
      <4> QED BY <2>2, RangeInduction
    <3> HIDE DEF G
    <3> QED BY <3>1
  <2> QED BY <2>3 DEF Sum, P
<1> QED BY <1>1, <1>2, <1>3, SumType

-----------------------------------------------------------------------------

IInv ==
  /\ TypeOK
  /\ Handover
  /\ ReservedIsInFlight
  /\ ExposureBounded
  /\ SpendAccounted
  /\ TraceNeverAhead

(* A process that starts holds, releases and owes nothing (budget.py:112-131). *)
LEMMA QuietSum == Quiet \in [Branch -> Int] /\ Sum(Quiet, Branches) = 0
<1>1. Quiet \in [Branch -> Int] /\ \A b \in Branch : Quiet[b] = 0
  BY DEF Quiet
<1> QED BY <1>1, SumZero, LedgerAssumption DEF Branch

(* The bound on the overshoot is a number. *)
LEMMA OvershootIsNat == Overshoot \in Nat
<1>1. Branches - 1 \in Nat /\ MaxCall + Overrun \in Nat /\ Overrun \in Nat
  BY LedgerAssumption
<1>2. (Branches - 1) * (MaxCall + Overrun) \in Nat
  BY <1>1
<1> QED BY <1>1, <1>2 DEF Overshoot

(* A ledger that has just been built satisfies the inductive invariant. *)
LEMMA InitInv == Init => IInv
<1> SUFFICES ASSUME Init PROVE IInv
  OBVIOUS
<1>1. hold = Quiet /\ due = Quiet /\ owed = Quiet
  BY DEF Init
<1>2. TypeOK
  BY LedgerAssumption DEF Init, TypeOK, Quiet, PC
<1>3. Handover
  BY DEF Init, Handover, Quiet
<1>4. Slack = Quiet
  BY DEF Init, Slack, Quiet
<1>5. ReservedIsInFlight /\ SpendAccounted /\ TraceNeverAhead
  BY <1>1, QuietSum DEF Init, ReservedIsInFlight, SpendAccounted, TraceNeverAhead
<1>6. ExposureBounded
  BY <1>4, QuietSum, OvershootIsNat, LedgerAssumption DEF Init, ExposureBounded
<1> QED BY <1>2, <1>3, <1>5, <1>6 DEF IInv

(* A sum over the branches has a type, and changes by what one branch does. *)
LEMMA BranchSum ==
  ASSUME NEW f \in [Branch -> Nat]
  PROVE  /\ Sum(f, Branches) \in Nat
         /\ \A b \in Branch : f[b] <= Sum(f, Branches)
<1>1. /\ Branches \in Nat /\ Branch = 1..Branches /\ 1 \in Branch
      /\ f \in [1..Branches -> Nat] /\ f \in [1..Branches -> Int]
  BY LedgerAssumption DEF Branch
<1>2. Sum(f, Branches) \in Int /\ \A b \in Branch : f[b] <= Sum(f, Branches)
  BY <1>1, SumType, SumAtLeastTerm
<1>3. f[1] \in Nat /\ f[1] <= Sum(f, Branches)
  BY <1>1, <1>2
<1> QED BY <1>2, <1>3

(* A step of branch b moves a sum by the change of its own term. *)
LEMMA BranchStepSum ==
  ASSUME NEW f \in [Branch -> Nat], NEW g \in [Branch -> Nat], NEW b \in Branch,
         \A i \in Branch : i # b => g[i] = f[i]
  PROVE  Sum(g, Branches) = Sum(f, Branches) - f[b] + g[b]
<1> DEFINE v == g[b]
<1>1. v \in Int /\ Branches \in Nat /\ b \in 1..Branches /\ f \in [1..Branches -> Int]
  BY LedgerAssumption DEF Branch
<1>2. g = [f EXCEPT ![b] = v]
  OBVIOUS
<1>3. Sum([f EXCEPT ![b] = v], Branches) = Sum(f, Branches) - f[b] + v
  <2> HIDE DEF v
  <2> QED BY <1>1, SumUpdate
<1> QED BY <1>2, <1>3

(* The amounts the branches hold, and their sums, are never negative. *)
LEMMA StateTypes ==
  ASSUME TypeOK
  PROVE  /\ hold \in [Branch -> Nat] /\ due \in [Branch -> Nat]
         /\ owed \in [Branch -> Nat] /\ Slack \in [Branch -> Nat]
         /\ Sum(hold, Branches) \in Nat /\ Sum(due, Branches) \in Nat
         /\ Sum(owed, Branches) \in Nat /\ Sum(Slack, Branches) \in Nat
<1>1. /\ hold \in [Branch -> Nat] /\ due \in [Branch -> Nat]
      /\ owed \in [Branch -> Nat]
  BY DEF TypeOK
<1>2. Slack \in [Branch -> Nat]
  BY LedgerAssumption DEF TypeOK, Slack
<1> QED BY <1>1, <1>2, BranchSum

(* A branch that reserves is the only one that is not at the far end of its
   call: the others have released at most one call each. *)
LEMMA SlackAtReserve ==
  ASSUME NEW f \in [Branch -> Nat], NEW b \in Branch,
         f[b] <= Overrun,
         \A i \in Branch : f[i] <= MaxCall + Overrun
  PROVE  Sum(f, Branches) <= Overshoot
<1> DEFINE M == MaxCall + Overrun
           g == [f EXCEPT ![b] = M]
           A == (Branches - 1) * M
<1>1. M \in Nat /\ Branches \in Nat \ {0} /\ Overrun \in Nat
  BY LedgerAssumption
<1> HIDE DEF M
<1>2. g \in [Branch -> Nat] /\ \A i \in Branch : 0 <= g[i] /\ g[i] <= M
  BY <1>1 DEF M
<1>3. Sum(g, Branches) <= M * Branches
  <2> HIDE DEF g
  <2>1. g \in [1..Branches -> Int] /\ \A i \in 1..Branches : 0 <= g[i] /\ g[i] <= M
    BY <1>2 DEF Branch
  <2> QED BY <1>1, <2>1, SumBounds
<1>4. Sum(g, Branches) = Sum(f, Branches) - f[b] + M /\ Sum(f, Branches) \in Int
  <2>1. g[b] = M /\ \A i \in Branch : i # b => g[i] = f[i]
    OBVIOUS
  <2> HIDE DEF g
  <2> QED BY <1>2, <2>1, BranchSum, BranchStepSum
<1>5. M * Branches = A + M /\ A \in Int
  BY <1>1
<1> HIDE DEF A, g
<1>6. Sum(f, Branches) <= A + Overrun
  BY <1>1, <1>3, <1>4, <1>5
<1> QED BY <1>6 DEF Overshoot, A, M

(* reserve() preserves the invariant: its guard is what bounds the exposure. *)
LEMMA ReserveInv ==
  ASSUME IInv, NEW b \in Branch, NEW amount \in 1..MaxCall,
         NEW call \in {"calling", "paying"}, Reserve(b, amount, call)
  PROVE  IInv'
<1>1. TypeOK /\ pc[b] = "idle" /\ hold[b] = 0 /\ due[b] = 0
  BY DEF IInv, Handover, Reserve
<1>2. amount \in Nat /\ amount <= MaxCall /\ MaxCall \in Nat
  BY LedgerAssumption
<1>3. TypeOK'
  <2>1. pc' \in [Branch -> PC]
    BY <1>1 DEF TypeOK, PC, Reserve
  <2>2. hold' \in [Branch -> 0..MaxCall]
    BY <1>1, <1>2 DEF TypeOK, Reserve
  <2>3. reserved' \in Nat
    BY <1>1, <1>2 DEF TypeOK, Reserve
  <2> QED BY <1>1, <2>1, <2>2, <2>3 DEF TypeOK, Reserve
<1>4. Handover'
  BY <1>1 DEF IInv, Handover, TypeOK, Reserve
<1>5. Sum(hold', Branches) = Sum(hold, Branches) + amount
  <2>1. hold' \in [Branch -> Nat] /\ hold'[b] = amount
        /\ \A i \in Branch : i # b => hold'[i] = hold[i]
    BY <1>1, <1>2, <1>3 DEF TypeOK, Reserve
  <2> QED BY <2>1, <1>1, <1>2, StateTypes, BranchStepSum
<1>6. ReservedIsInFlight'
  BY <1>5 DEF IInv, ReservedIsInFlight, Reserve
<1>7. ExposureBounded'
  <2>1. /\ Slack' \in [Branch -> Nat]
        /\ \A i \in Branch : Slack'[i] <= MaxCall + Overrun
    BY <1>3, LedgerAssumption DEF TypeOK, Slack
  <2>2. Slack'[b] <= Overrun
    BY <1>1, LedgerAssumption DEF TypeOK, Slack, Reserve
  <2>3. Sum(Slack', Branches) <= Overshoot /\ Sum(Slack', Branches) \in Nat
    BY <2>1, <2>2, SlackAtReserve, BranchSum, <1>2, Zenon
  <2> QED BY <2>3, <1>1, <1>2, <1>3, OvershootIsNat, LedgerAssumption
          DEF ExposureBounded, TypeOK, Reserve, Fits
<1>8. SpendAccounted' /\ TraceNeverAhead'
  BY DEF IInv, SpendAccounted, TraceNeverAhead, Reserve
<1> QED BY <1>3, <1>4, <1>6, <1>7, <1>8 DEF IInv

(* release() preserves it: the money moves from the reservation to what is due. *)
LEMMA ReleaseInv ==
  ASSUME IInv, NEW b \in Branch, NEW actual \in Nat,
         NEW next \in {"settling", "untraced"},
         actual <= hold[b] + Slack[b], pc[b] \in {"calling", "paying"},
         Release(b, actual, next)
  PROVE  IInv'
<1>1. TypeOK /\ due[b] = 0
  BY DEF IInv, Handover
<1>2. /\ MaxCall \in Nat /\ Overrun \in Nat /\ reserved \in Nat
      /\ hold[b] \in 0..MaxCall /\ Slack[b] \in 0..Overrun
  BY <1>1, LedgerAssumption DEF TypeOK, Slack
<1>3. reserved' = reserved - hold[b] /\ reserved - hold[b] \in Nat
  <2>1. hold[b] <= reserved
    BY <1>1, StateTypes, BranchSum DEF IInv, ReservedIsInFlight
  <2>2. Released(hold[b]) = reserved - hold[b]
    BY <2>1, <1>2 DEF Released
  <2> QED BY <2>1, <2>2, <1>2 DEF Release
<1>4. TypeOK'
  <2>1. pc' \in [Branch -> PC]
    BY <1>1 DEF TypeOK, PC, Release
  <2>2. hold' \in [Branch -> 0..MaxCall]
    BY <1>1, <1>2 DEF TypeOK, Release
  <2>3. due' \in [Branch -> 0..(MaxCall + Overrun)]
    <3>1. actual \in 0..(MaxCall + Overrun)
      BY <1>2
    <3> QED BY <3>1, <1>1 DEF TypeOK, Release
  <2>4. spent' \in Nat
    BY <1>1 DEF TypeOK, Release
  <2> QED BY <1>1, <1>3, <2>1, <2>2, <2>3, <2>4 DEF TypeOK, Release
<1>5. Handover'
  BY <1>1 DEF IInv, Handover, TypeOK, Release
<1>6. Sum(hold', Branches) = Sum(hold, Branches) - hold[b]
  <2>1. hold' \in [Branch -> Nat] /\ hold'[b] = 0
        /\ \A i \in Branch : i # b => hold'[i] = hold[i]
    BY <1>1, <1>2, <1>4 DEF TypeOK, Release
  <2>2. Sum(hold', Branches) = Sum(hold, Branches) - hold[b] + hold'[b]
    <3>1. hold \in [Branch -> Nat]
      BY <1>1, StateTypes
    <3> QED BY <2>1, <1>1, <3>1, BranchStepSum, Zenon
  <2> QED BY <2>1, <2>2, <1>1, <1>2, StateTypes
<1>7. ReservedIsInFlight'
  BY <1>3, <1>6 DEF IInv, ReservedIsInFlight
<1>8. Sum(due', Branches) = Sum(due, Branches) + actual
  <2>1. due' \in [Branch -> Nat] /\ due'[b] = actual
        /\ \A i \in Branch : i # b => due'[i] = due[i]
    BY <1>1, <1>2, <1>4 DEF TypeOK, Release
  <2> QED BY <2>1, <1>1, StateTypes, BranchStepSum
<1>9. SpendAccounted' /\ TraceNeverAhead'
  BY <1>8, <1>1, StateTypes DEF IInv, SpendAccounted, TraceNeverAhead, TypeOK, Release
<1>10. ExposureBounded'
  <2>1. /\ Slack' \in [Branch -> Nat] /\ Slack'[b] = actual
        /\ \A i \in Branch : i # b => Slack'[i] = Slack[i]
    <3>1. due' \in [Branch -> Nat]
      BY <1>4, <1>2 DEF TypeOK
    <3>2. Slack' \in [Branch -> Nat]
      BY <3>1, <1>2 DEF Slack
    <3> QED BY <3>2, <1>1 DEF TypeOK, Slack, Release
  <2>2. Sum(Slack', Branches) = Sum(Slack, Branches) - Slack[b] + actual
    BY <2>1, <1>1, StateTypes, BranchStepSum
  <2>4. committed' = committed /\ committed \in Nat /\ reserved \in Nat
    BY <1>1 DEF TypeOK, Release
  <2>3. Budget + Overshoot \in Nat
    BY OvershootIsNat, LedgerAssumption
  <2> QED BY <1>1, <1>3, <2>2, <2>3, <2>4, StateTypes DEF IInv, ExposureBounded
<1> QED BY <1>4, <1>5, <1>7, <1>9, <1>10 DEF IInv

(* commit() preserves it: what was due is committed, and may be owed to the trace. *)
LEMMA CommitInv ==
  ASSUME IInv, NEW b \in Branch, Commit(b)
  PROVE  IInv'
<1>1. TypeOK /\ hold[b] = 0 /\ owed[b] = 0
      /\ pc[b] \in {"settling", "untraced"}
  BY DEF IInv, Handover, Commit
<1>2. /\ MaxCall \in Nat /\ Overrun \in Nat /\ 0 \in 0..(MaxCall + Overrun)
      /\ due[b] \in 0..(MaxCall + Overrun) /\ committed \in Nat
  BY <1>1, LedgerAssumption DEF TypeOK
<1>3. committed' = committed + due[b] /\ committed + due[b] \in Nat
  <2>1. Charged(b) = committed + due[b]
    BY DEF Charged
  <2> QED BY <2>1, <1>2 DEF Commit
<1>4. TypeOK'
  <2>1. pc' \in [Branch -> PC]
    BY <1>1 DEF TypeOK, PC, Commit
  <2>2. due' \in [Branch -> 0..(MaxCall + Overrun)]
    BY <1>1, <1>2 DEF TypeOK, Commit
  <2>3. owed' \in [Branch -> 0..(MaxCall + Overrun)]
    BY <1>1, <1>2 DEF TypeOK, Commit
  <2> QED BY <1>1, <1>3, <2>1, <2>2, <2>3 DEF TypeOK, Commit
<1>5. Handover'
  BY <1>1 DEF IInv, Handover, TypeOK, Commit
<1>6. ReservedIsInFlight'
  BY DEF IInv, ReservedIsInFlight, Commit
<1>7. Sum(due', Branches) = Sum(due, Branches) - due[b]
  <2>1. due' \in [Branch -> Nat] /\ due'[b] = 0
        /\ \A i \in Branch : i # b => due'[i] = due[i]
    BY <1>1, <1>2, <1>4 DEF TypeOK, Commit
  <2>2. Sum(due', Branches) = Sum(due, Branches) - due[b] + due'[b]
    <3>1. due \in [Branch -> Nat]
      BY <1>1, StateTypes
    <3> QED BY <2>1, <1>1, <3>1, BranchStepSum, Zenon
  <2> QED BY <2>1, <2>2, <1>1, <1>2, StateTypes
<1>8. SpendAccounted'
  BY <1>1, <1>2, <1>3, <1>7, StateTypes DEF IInv, SpendAccounted, TypeOK, Commit
<1>9. TraceNeverAhead'
  <2>1. owed' \in [Branch -> Nat] /\ owed'[b] \in 0..due[b]
        /\ \A i \in Branch : i # b => owed'[i] = owed[i]
    BY <1>1, <1>2, <1>4 DEF TypeOK, Commit
  <2>2. Sum(owed', Branches) = Sum(owed, Branches) + owed'[b]
    BY <2>1, <1>1, StateTypes, BranchStepSum
  <2>3. traced' = traced
    BY DEF Commit
  <2> QED BY <2>1, <2>2, <2>3, <1>1, <1>3, StateTypes DEF IInv, TraceNeverAhead, TypeOK
<1>10. ExposureBounded'
  <2>1. /\ Slack' \in [Branch -> Nat] /\ Slack'[b] = 0 /\ Slack[b] = due[b]
        /\ \A i \in Branch : i # b => Slack'[i] = Slack[i]
    <3>1. due' \in [Branch -> Nat]
      BY <1>4, <1>2 DEF TypeOK
    <3>2. Slack' \in [Branch -> Nat]
      BY <3>1, <1>2 DEF Slack
    <3> QED BY <3>2, <1>1 DEF TypeOK, Slack, Commit
  <2>2. Sum(Slack', Branches) = Sum(Slack, Branches) - due[b]
    <3>1. Sum(Slack', Branches) = Sum(Slack, Branches) - Slack[b] + Slack'[b]
      <4>1. Slack \in [Branch -> Nat]
        BY <1>1, StateTypes
      <4> QED BY <2>1, <1>1, <4>1, BranchStepSum, Zenon
    <3> QED BY <2>1, <3>1, <1>1, <1>2, StateTypes
  <2>3. reserved' = reserved /\ reserved \in Nat
    BY <1>1 DEF TypeOK, Commit
  <2>4. Budget + Overshoot \in Nat
    BY OvershootIsNat, LedgerAssumption
  <2> QED BY <1>1, <1>2, <1>3, <2>2, <2>3, <2>4, StateTypes DEF IInv, ExposureBounded
<1> QED BY <1>4, <1>5, <1>6, <1>8, <1>9, <1>10 DEF IInv

(* The cost event preserves it: what was owed to the trace is traced. *)
LEMMA EmitCostInv ==
  ASSUME IInv, NEW b \in Branch, EmitCost(b)
  PROVE  IInv'
<1>1. TypeOK /\ pc[b] = "tracing" /\ due[b] = 0
  BY DEF IInv, Handover, EmitCost
<1>2. /\ MaxCall \in Nat /\ Overrun \in Nat /\ 0 \in 0..(MaxCall + Overrun)
      /\ owed[b] \in Nat
  BY <1>1, LedgerAssumption DEF TypeOK
<1>3. TypeOK'
  <2>1. pc' \in [Branch -> PC]
    BY <1>1 DEF TypeOK, PC, EmitCost
  <2>2. owed' \in [Branch -> 0..(MaxCall + Overrun)]
    BY <1>1, <1>2 DEF TypeOK, EmitCost
  <2>3. traced' \in Nat
    BY <1>1, <1>2 DEF TypeOK, EmitCost
  <2> QED BY <1>1, <2>1, <2>2, <2>3 DEF TypeOK, EmitCost
<1>4. Handover'
  BY <1>1 DEF IInv, Handover, TypeOK, EmitCost
<1>5. ReservedIsInFlight' /\ SpendAccounted'
  BY DEF IInv, ReservedIsInFlight, SpendAccounted, EmitCost
<1>6. Sum(owed', Branches) = Sum(owed, Branches) - owed[b]
  <2>1. owed' \in [Branch -> Nat] /\ owed'[b] = 0
        /\ \A i \in Branch : i # b => owed'[i] = owed[i]
    BY <1>1, <1>2, <1>3 DEF TypeOK, EmitCost
  <2>2. Sum(owed', Branches) = Sum(owed, Branches) - owed[b] + owed'[b]
    <3>1. owed \in [Branch -> Nat]
      BY <1>1, StateTypes
    <3> QED BY <2>1, <1>1, <3>1, BranchStepSum, Zenon
  <2> QED BY <2>1, <2>2, <1>1, <1>2, StateTypes
<1>7. TraceNeverAhead'
  BY <1>1, <1>2, <1>6, StateTypes DEF IInv, TraceNeverAhead, TypeOK, EmitCost
<1>8. ExposureBounded'
  <2>1. Slack' = Slack
    BY <1>1 DEF TypeOK, Slack, EmitCost
  <2> QED BY <2>1 DEF IInv, ExposureBounded, EmitCost
<1> QED BY <1>3, <1>4, <1>5, <1>7, <1>8 DEF IInv

(* A new process starts within the budget's reach because the trace it
   restores from was never ahead of the old ledger. *)
LEMMA RestoreInv ==
  ASSUME IInv, NEW late \in Nat, RestoreSpend(late)
  PROVE  IInv'
<1>1. TypeOK /\ TraceNeverAhead /\ ExposureBounded /\ SpendAccounted
  BY DEF IInv
<1>2. /\ hold' = Quiet /\ due' = Quiet /\ owed' = Quiet /\ Slack' = Quiet
      /\ committed' = traced /\ reserved' = 0 /\ traced' = traced
  BY DEF RestoreSpend, Restored, Slack, Quiet
<1>3. TypeOK'
  <2>1. /\ pc' \in [Branch -> PC] /\ hold' \in [Branch -> 0..MaxCall]
        /\ due' \in [Branch -> 0..(MaxCall + Overrun)]
        /\ owed' \in [Branch -> 0..(MaxCall + Overrun)]
    BY <1>2, LedgerAssumption DEF RestoreSpend, Quiet, PC
  <2>2. restarts' \in 0..MaxRestarts /\ spent' \in Nat /\ forgotten' \in Int
    BY <1>1, StateTypes, LedgerAssumption DEF TypeOK, RestoreSpend, Restored
  <2> QED BY <1>1, <1>2, <2>1, <2>2 DEF TypeOK
<1>4. Handover'
  BY <1>2, LedgerAssumption DEF Handover, RestoreSpend, Quiet
<1>5. ReservedIsInFlight' /\ TraceNeverAhead'
  BY <1>1, <1>2, QuietSum DEF ReservedIsInFlight, TraceNeverAhead, TypeOK
<1>6. SpendAccounted'
  <2>1. Sum(due', Branches) = 0 /\ Sum(due, Branches) \in Int
    BY <1>1, <1>2, QuietSum, StateTypes
  <2> QED BY <1>1, <2>1 DEF SpendAccounted, TypeOK, RestoreSpend, Restored
<1>7. ExposureBounded'
  <2>3. Sum(owed, Branches) \in Nat /\ Sum(Slack, Branches) \in Nat
    BY <1>1, StateTypes
  <2>4. traced <= Budget + Overshoot
    BY <1>1, <2>3, OvershootIsNat, LedgerAssumption
       DEF TypeOK, TraceNeverAhead, ExposureBounded
  <2>5. Sum(Slack', Branches) = 0
    BY <1>2, QuietSum
  <2> QED BY <1>1, <1>2, <2>4, <2>5, OvershootIsNat, LedgerAssumption
          DEF ExposureBounded, TypeOK
<1> QED BY <1>3, <1>4, <1>5, <1>6, <1>7 DEF IInv

(* No step of one branch breaks the invariant. *)
LEMMA BranchInv ==
  ASSUME IInv, NEW b \in Branch, BranchStep(b)
  PROVE  IInv'
<1>1. TypeOK /\ hold[b] \in Nat /\ Slack[b] \in Nat /\ MaxCall \in Nat /\ Overrun \in Nat
  BY StateTypes, LedgerAssumption DEF IInv
<1>2. CASE ModelCall(b)
  BY <1>2, ReserveInv, Zenon DEF ModelCall
<1>3. CASE ExternalCall(b)
  <2>1. PICK amount \in Fees : Reserve(b, amount, "paying")
    BY <1>3 DEF ExternalCall
  <2>2. amount \in 1..MaxCall
    BY LedgerAssumption
  <2> QED BY <2>1, <2>2, ReserveInv, Zenon
<1>4. CASE Refused(b)
  BY <1>4 DEF Refused, Refuse, vars, IInv, TypeOK, Handover, ReservedIsInFlight,
              ExposureBounded, Slack, SpendAccounted, TraceNeverAhead
<1>5. CASE Return(b)
  <2>1. PICK actual \in 0..(hold[b] + Overrun) : Release(b, actual, "settling")
    BY <1>5 DEF Return
  <2>2. pc[b] = "calling" /\ Slack[b] = Overrun
    BY <1>5 DEF Return, Slack
  <2>3. actual \in Nat /\ actual <= hold[b] + Slack[b]
    BY <1>1, <2>2
  <2> QED BY <2>1, <2>2, <2>3, ReleaseInv, Zenon
<1>6. CASE Raise(b)
  <2>1. PICK actual \in 0..hold[b] : Release(b, actual, "untraced")
    BY <1>6 DEF Raise
  <2>2. pc[b] = "calling"
    BY <1>6 DEF Raise
  <2>3. actual \in Nat /\ actual <= hold[b] + Slack[b]
    BY <1>1
  <2> QED BY <2>1, <2>2, <2>3, ReleaseInv, Zenon
<1>7. CASE PayFee(b)
  <2>1. pc[b] = "paying" /\ Release(b, hold[b], "untraced")
    BY <1>7 DEF PayFee
  <2>2. hold[b] <= hold[b] + Slack[b]
    BY <1>1
  <2> QED BY <1>1, <2>1, <2>2, ReleaseInv, Zenon
<1>8. CASE Commit(b)
  BY <1>8, CommitInv
<1>9. CASE EmitCost(b)
  BY <1>9, EmitCostInv
<1> QED BY <1>2, <1>3, <1>4, <1>5, <1>6, <1>7, <1>8, <1>9 DEF BranchStep

(* The invariant is inductive. *)
LEMMA NextInv == IInv /\ [Next]_vars => IInv'
<1> SUFFICES ASSUME IInv, [Next]_vars PROVE IInv'
  OBVIOUS
<1>1. CASE \E b \in Branch : BranchStep(b)
  BY <1>1, BranchInv
<1>2. CASE NextStage
  <2>1. RestoreSpend(0)
    BY <1>2 DEF NextStage
  <2> QED BY <2>1, RestoreInv
<1>3. CASE Crash
  <2>1. PICK late \in 0..reserved : RestoreSpend(late)
    BY <1>3 DEF Crash
  <2>2. late \in Nat
    BY DEF IInv, TypeOK
  <2> QED BY <2>1, <2>2, RestoreInv
<1>4. CASE UNCHANGED vars
  BY <1>4 DEF vars, IInv, TypeOK, Handover, ReservedIsInFlight,
              ExposureBounded, Slack, SpendAccounted, TraceNeverAhead
<1> QED BY <1>1, <1>2, <1>3, <1>4 DEF Next

(* It holds in every reachable state. *)
LEMMA Invariance == Spec => []IInv
BY InitInv, NextInv, PTL DEF Spec

(* Every variable of the ledger keeps its type: in particular the reserved
   and committed totals of budget.py:187-202 never turn negative. *)
THEOREM LedgerTypeOK == Spec => []TypeOK
<1>1. IInv => TypeOK
  BY DEF IInv
<1> QED BY <1>1, Invariance, PTL

(* With any number of branches, what the ledger holds reserved is what the
   calls in flight reserved (budget.py:231-250, 293-301): nothing leaks. *)
THEOREM LedgerReservedIsInFlight == Spec => []ReservedIsInFlight
<1>1. IInv => ReservedIsInFlight
  BY DEF IInv
<1> QED BY <1>1, Invariance, PTL

(* With any number of branches and any provider overrun, a process spends at
   most one call per other branch and one overrun beyond the hard budget of
   budget.py:231-246. *)
THEOREM LedgerExposureBounded == Spec => []ExposureBounded
<1>1. IInv => ExposureBounded
  BY DEF IInv
<1> QED BY <1>1, Invariance, PTL

(* Every charge is committed once, pending, or was dropped by a restart
   (budget.py:252-254, cli.py:245-257). *)
THEOREM LedgerSpendAccounted == Spec => []SpendAccounted
<1>1. IInv => SpendAccounted
  BY DEF IInv
<1> QED BY <1>1, Invariance, PTL

(* raw/events.jsonl never bills more than the ledger has committed, so what
   _restore_spend re-commits was spent (cli.py:252-257). *)
THEOREM LedgerTraceNeverAhead == Spec => []TraceNeverAhead
<1>1. IInv => TraceNeverAhead
  BY DEF IInv
<1> QED BY <1>1, Invariance, PTL

(* One branch whose provider never bills more than it reserved stays within
   the hard budget: the claim of budget.py:6-7 fails only through a second
   branch or an overrun. *)
THEOREM SequentialHardBudget ==
  ASSUME Branches = 1, Overrun = 0
  PROVE  Spec => []HardBudget
<1>1. IInv => HardBudget
  <2> SUFFICES ASSUME IInv PROVE HardBudget
    OBVIOUS
  <2>1. Overshoot = 0
    <3>1. Branches - 1 = 0 /\ MaxCall + Overrun \in Nat
      BY LedgerAssumption
    <3>2. (Branches - 1) * (MaxCall + Overrun) = 0
      BY <3>1
    <3> QED BY <3>2 DEF Overshoot
  <2>2. TypeOK /\ ExposureBounded /\ Sum(Slack, Branches) \in Nat
    BY StateTypes DEF IInv
  <2> QED BY <2>1, <2>2, LedgerAssumption DEF TypeOK, ExposureBounded, HardBudget
<1> QED BY <1>1, Invariance, PTL

-----------------------------------------------------------------------------
(* Analysis and Reports.  Each result of an evaluation is what the operators*)
(* say of its answers; everything else is about those operators.            *)
Phases == {"score", "aggregate", "compare", "gates", "decide", "done"}

AnalysisInv ==
  /\ answers \in [Asked -> Cases] /\ phase \in Phases
  /\ phase # "score" => rows = Rows(answers)
  /\ phase \in {"gates", "decide", "done"} =>
       /\ medians = MediansOf(rows) /\ comparisons = Comparisons(medians, tight)
       /\ survivors = Corrected(comparisons)
  /\ phase \in {"decide", "done"} => gates = Outcomes(specs, Observed(rows, answers, world))
  /\ phase # "done" => decision = <<>>
  /\ \A a \in DOMAIN decision : decision[a] = "pass" => Rivals(a)

LEMMA AnalysisInit == AInit => AnalysisInv
BY DEF AInit, AnalysisInv, Phases

LEMMA AnalysisStep == AnalysisInv /\ ANext => AnalysisInv'
<1> SUFFICES ASSUME AnalysisInv, ANext PROVE AnalysisInv'
  OBVIOUS
<1> USE DEF AnalysisInv, Phases
<1>1. CASE ScoreAll
  BY <1>1 DEF ScoreAll
<1>2. CASE Aggregate
  BY <1>2 DEF Aggregate
<1>3. CASE Compare
  BY <1>3 DEF Compare
<1>4. CASE EvaluateGates
  BY <1>4 DEF EvaluateGates
<1>5. CASE Decide
  <2>1. /\ decision' = [a \in Arms \cap {"P1", "P2"} |->
                         IF DOMAIN Margin = {} \/ "S0" \notin Arms THEN "insufficient_evidence"
                         ELSE IF Rivals(a) THEN "pass" ELSE "fail"]
        /\ phase = "decide" /\ phase' = "done"
        /\ UNCHANGED <<answers, specs, world, tight, rows, means, medians, comparisons, survivors, gates>>
    BY <1>5 DEF Decide
  <2>2. ASSUME NEW a \in DOMAIN decision', decision'[a] = "pass" PROVE Rivals(a)'
    <3>1. Rivals(a)
      BY <2>1, <2>2
    <3> QED BY <2>1, <3>1 DEF Rivals, OverBudget
  <2> QED BY <2>1, <2>2
<1> QED BY <1>1, <1>2, <1>3, <1>4, <1>5 DEF ANext

LEMMA AnalysisStutter == AnalysisInv /\ UNCHANGED analysisVars => AnalysisInv'
BY DEF AnalysisInv, Phases, analysisVars, Rivals, OverBudget

LEMMA AnalysisInvariance == RSpec => []AnalysisInv
<1>1. RInit => AnalysisInv
  BY AnalysisInit DEF RInit
<1>2. AnalysisInv /\ [RNext]_<<analysisVars, reportVars>> => AnalysisInv'
  BY AnalysisStep, AnalysisStutter DEF RNext, Prove, Evaluate, Report
<1> QED BY <1>1, <1>2, PTL DEF RSpec

-----------------------------------------------------------------------------
(* A finite set has a size, and so has its image.                           *)
LEMMA ImageIsFinite ==
  ASSUME NEW f, IsFiniteSet(DOMAIN f) PROVE IsFiniteSet({f[x] : x \in DOMAIN f})
<1> DEFINE T == {f[x] : x \in DOMAIN f}
           g == [x \in DOMAIN f |-> f[x]]
<1>1. g \in Surjection(DOMAIN f, T)
  BY DEF Surjection
<1> QED BY <1>1, FS_Surjection

(* A finite set of integers that is not empty has ends.                     *)
LEMMA HasEnds ==
  ASSUME NEW S \in SUBSET Int, IsFiniteSet(S), S # {}
  PROVE  (\E x \in S : \A y \in S : x <= y) /\ (\E x \in S : \A y \in S : y <= x)
<1> DEFINE Ends(T) == (\E x \in T : \A y \in T : x <= y) /\ (\E x \in T : \A y \in T : y <= x)
           N == Cardinality(S)
           G == {n \in 0..N : \A T \in SUBSET S : Cardinality(T) = n /\ T # {} => Ends(T)}
<1>1. N \in Nat
  BY FS_CardinalityType
<1>2. 0 \in G
  <2>1. ASSUME NEW T \in SUBSET S, Cardinality(T) = 0, T # {} PROVE FALSE
    BY <2>1, FS_Subset, FS_EmptySet
  <2> HIDE DEF Ends
  <2> QED BY <1>1, <2>1
<1>3. ASSUME NEW n \in 1..N, n - 1 \in G PROVE n \in G
  <2>1. ASSUME NEW T \in SUBSET S, Cardinality(T) = n, T # {} PROVE Ends(T)
    <3>1. PICK z \in T : TRUE
      BY <2>1
    <3>2. IsFiniteSet(T) /\ Cardinality(T \ {z}) = n - 1
      BY <2>1, <3>1, FS_Subset, FS_RemoveElement
    <3>3. T \ {z} # {} => Ends(T \ {z})
      <4> HIDE DEF Ends
      <4> QED BY <1>3, <3>2
    <3>4. CASE T \ {z} = {}
      <4>1. T = {z} /\ z \in Int
        BY <3>1, <3>4
      <4> QED BY <4>1
    <3>5. CASE T \ {z} # {}
      <4>1. PICK lo \in T \ {z} : \A y \in T \ {z} : lo <= y
        BY <3>3, <3>5
      <4>2. PICK hi \in T \ {z} : \A y \in T \ {z} : y <= hi
        BY <3>3, <3>5
      <4>3. \A x, y \in T : x \in Int /\ y \in Int /\ (x <= y \/ y <= x)
        OBVIOUS
      <4>4. \E x \in T : \A y \in T : x <= y
        <5>1. CASE z <= lo
          BY <4>1, <4>3, <3>1, <5>1
        <5>2. CASE lo <= z
          BY <4>1, <4>3, <3>1, <5>2
        <5> QED BY <5>1, <5>2, <3>1, <4>3
      <4>5. \E x \in T : \A y \in T : y <= x
        <5>1. CASE hi <= z
          BY <4>2, <4>3, <3>1, <5>1
        <5>2. CASE z <= hi
          BY <4>2, <4>3, <3>1, <5>2
        <5> QED BY <5>1, <5>2, <3>1, <4>3
      <4> QED BY <4>4, <4>5
    <3> QED BY <3>4, <3>5
  <2> HIDE DEF Ends
  <2> QED BY <2>1, <1>3
<1>4. N \in G
  <2> HIDE DEF G
  <2> QED BY <1>1, <1>2, <1>3, RangeInduction
<1>5. Ends(S)
  <2> HIDE DEF Ends
  <2> QED BY <1>4
<1> QED BY <1>5

LEMMA MinMax ==
  ASSUME NEW S \in SUBSET Int, IsFiniteSet(S), S # {}
  PROVE  /\ Min(S) \in S /\ \A y \in S : Min(S) <= y
         /\ Max(S) \in S /\ \A y \in S : y <= Max(S)
BY HasEnds DEF Min, Max

LEMMA AskedIsFinite == Asked = 1..Len(Questions) /\ Len(Questions) \in Nat /\ IsFiniteSet(Asked)
<1>1. Questions \in Seq(QuestionType)
  BY AnalysisAssumption
<1>2. Len(Questions) \in Nat /\ DOMAIN Questions = 1..Len(Questions)
  BY <1>1
<1> QED BY <1>2, FS_Interval DEF Asked

(* A pairing is of some of the questions asked.                             *)
LEMMA PairedAreAsked ==
  ASSUME NEW b, NEW t, NEW c
  PROVE  LET p == Pair(b, t, InCohort(c))
         IN /\ DOMAIN p.samples = InCohort(c) \cap DOMAIN b \cap DOMAIN t
            /\ DOMAIN p.samples \in SUBSET Asked /\ IsFiniteSet(DOMAIN p.samples)
<1> DEFINE p == Pair(b, t, InCohort(c))
<1>1. DOMAIN p.samples = InCohort(c) \cap DOMAIN b \cap DOMAIN t
  BY DEF Pair
<1>2. InCohort(c) \subseteq Asked
  BY DEF InCohort
<1> HIDE DEF p
<1>3. DOMAIN p.samples \in SUBSET Asked
  BY <1>1, <1>2
<1>4. IsFiniteSet(DOMAIN p.samples)
  BY <1>3, AskedIsFinite, FS_Subset
<1> QED BY <1>1, <1>3, <1>4 DEF p

LEMMA WhatIsCompared ==
  ASSUME AnalysisInv, phase \in {"gates", "decide", "done"}, NEW k \in DOMAIN comparisons
  PROVE  LET p == Pair(medians[<<k[2], k[3]>>], medians[<<k[1], k[3]>>], InCohort(k[4]))
         IN comparisons[k] = [pairing |-> p, is |-> Classify(p, k[3], tight, Scale, Attribute)]
BY DEF AnalysisInv, Comparisons

LEMMA RegressionShows ==
  ASSUME NEW p, NEW metric, NEW close, NEW key \in Protected, NEW v, IsFiniteSet(DOMAIN p.samples),
         NEW qs, qs = {q \in DOMAIN p.samples : Attribute[key][q] = v}, qs # {},
         Cardinality(qs) >= 3, Better(metric, SumOver(p, qs)) <= -Threshold * Cardinality(qs)
  PROVE  Classify(p, metric, close, Scale, Attribute).status \in {"regressed", "mixed", "insufficient_evidence"}
<1> DEFINE groups == Subgroups(p, metric, Attribute)
           g == Subgroup(p, metric, key, v, qs)
<1>1. Cardinality(qs) \in Nat
  BY FS_Subset, FS_CardinalityType
<1>2. g.status = "regressed"
  BY <1>1 DEF Subgroup
<1>3. g \in groups
  <2>1. v \in {Attribute[key][q] : q \in DOMAIN p.samples}
    OBVIOUS
  <2> QED BY <2>1 DEF Subgroups
<1> DEFINE n == Cardinality(DOMAIN p.samples)
           enough == n >= MinimumPaired /\ n * 100 >= Coverage * p.eligible
           interval == IF enough /\ n >= MinimumN THEN Bootstrap(p, close) ELSE {}
           directed == Better(metric, SumOver(p, DOMAIN p.samples))
           found == \E x \in (IF enough THEN groups ELSE {}) : x.status = "regressed"
<1>4. Classify(p, metric, close, Scale, Attribute).status
        = IF ~enough THEN "insufficient_evidence" ELSE Status(directed, n, interval, found)
  BY DEF Classify
<1>5. enough => found
  BY <1>2, <1>3
<1> HIDE DEF enough, found, interval, directed, n, groups, g
<1>6. found => Status(directed, n, interval, found) \in {"regressed", "mixed"}
  BY DEF Status
<1> QED BY <1>4, <1>5, <1>6

LEMMA HiddenNothing == AnalysisInv => NothingHidden
<1> SUFFICES ASSUME AnalysisInv, phase = "gates", NEW k \in DOMAIN comparisons,
                    NEW key \in Protected, NEW q0 \in DOMAIN comparisons[k].pairing.samples,
                    LET p == comparisons[k].pairing
                        qs == {q \in DOMAIN p.samples : Attribute[key][q] = Attribute[key][q0]}
                    IN Cardinality(qs) >= 3 /\ Better(k[3], SumOver(p, qs)) <= -Threshold * Cardinality(qs)
             PROVE  comparisons[k].is.status \in {"regressed", "mixed", "insufficient_evidence"}
  BY DEF NothingHidden
<1> DEFINE p == Pair(medians[<<k[2], k[3]>>], medians[<<k[1], k[3]>>], InCohort(k[4]))
           qs == {q \in DOMAIN p.samples : Attribute[key][q] = Attribute[key][q0]}
<1>1. comparisons[k] = [pairing |-> p, is |-> Classify(p, k[3], tight, Scale, Attribute)]
  BY WhatIsCompared
<1>2. IsFiniteSet(DOMAIN p.samples)
  BY PairedAreAsked
<1>3. comparisons[k].pairing = p /\ comparisons[k].is = Classify(p, k[3], tight, Scale, Attribute)
  <2> HIDE DEF p
  <2> QED BY <1>1
<1> HIDE DEF p
<1>4. q0 \in qs /\ Cardinality(qs) >= 3 /\ Better(k[3], SumOver(p, qs)) <= -Threshold * Cardinality(qs)
  BY <1>3
<1> DEFINE v == Attribute[key][q0]
<1> HIDE DEF v
<1>5. qs = {q \in DOMAIN p.samples : Attribute[key][q] = v}
  BY DEF v
<1> HIDE DEF qs
<1> QED BY <1>2, <1>3, <1>4, <1>5, RegressionShows

-----------------------------------------------------------------------------
LEMMA Monotone ==
  ASSUME NEW a \in Int, NEW b \in Int, NEW d \in Nat, a <= b PROVE a * d <= b * d
<1>1. (b - a) * d >= 0
  OBVIOUS
<1>2. (b - a) * d = b * d - a * d
  OBVIOUS
<1> QED BY <1>1, <1>2

LEMMA PowerIsNat ==
  ASSUME NEW n \in Int PROVE Power(n) \in Nat /\ IsFiniteSet(SUBSET (1..n))
<1>1. IsFiniteSet(1..n)
  BY FS_Interval
<1>2. IsFiniteSet(SUBSET (1..n))
  BY <1>1, FS_SUBSET
<1> DEFINE S == SUBSET (1..n)
<1>3. IsFiniteSet(S)
  BY <1>2
<1> HIDE DEF S
<1>4. Cardinality(S) \in Nat
  BY <1>3, FS_CardinalityType
<1> QED BY <1>2, <1>4 DEF Power, S

(* The ranks decide what the numbers of the p-values below would: which of  *)
(* two that are equal is ranked first makes no difference.                  *)
ByValue(T, P) ==
  {i \in T : \E t \in T : P[i] <= P[t] /\
     P[t] * (Cardinality(T) * 100) <= Cardinality({j \in T : P[j] <= P[t]}) * (Discovery * Power(Cells))}

LEMMA SurvivorsByValue ==
  ASSUME NEW ps, NEW N \in Nat, DOMAIN ps = 1..N,
         NEW P \in [Tested(ps) -> Int], \A i \in Tested(ps) : ps[i] = {P[i]}
  PROVE  Survivors(ps) = ByValue(Tested(ps), P)
<1> DEFINE T == Tested(ps)
           m == Cardinality(T) * 100
           d == Discovery * Power(Cells)
           Before(i) == {j \in T : P[j] < P[i] \/ (P[j] = P[i] /\ j <= i)}
           Below(t) == {j \in T : P[j] <= P[t]}
<1>1. T \subseteq 1..N /\ IsFiniteSet(T) /\ Cardinality(T) \in Nat /\ m \in Nat
  <2>1. T \in SUBSET (1..N)
    BY DEF Tested
  <2> HIDE DEF T
  <2>2. IsFiniteSet(1..N)
    BY FS_Interval
  <2>3. IsFiniteSet(T)
    BY <2>1, <2>2, FS_Subset
  <2>4. Cardinality(T) \in Nat
    BY <2>3, FS_CardinalityType
  <2> QED BY <2>1, <2>3, <2>4
<1>2. d \in Nat
  <2>1. Cells \in Int /\ Discovery \in Nat
    BY ComparisonAssumption
  <2>2. Power(Cells) \in Nat
    BY <2>1, PowerIsNat
  <2> QED BY <2>1, <2>2
<1> HIDE DEF m, d
<1>3. \A i \in T : /\ Before(i) \in SUBSET T /\ Below(i) \in SUBSET T /\ Before(i) \in SUBSET Below(i)
                   /\ IsFiniteSet(Before(i)) /\ IsFiniteSet(Below(i))
                   /\ Cardinality(Before(i)) \in Nat /\ Cardinality(Below(i)) \in Nat
                   /\ Cardinality(Before(i)) <= Cardinality(Below(i))
  <2> SUFFICES ASSUME NEW i \in T PROVE
                   /\ Before(i) \in SUBSET T /\ Below(i) \in SUBSET T /\ Before(i) \in SUBSET Below(i)
                   /\ IsFiniteSet(Before(i)) /\ IsFiniteSet(Below(i))
                   /\ Cardinality(Before(i)) \in Nat /\ Cardinality(Below(i)) \in Nat
                   /\ Cardinality(Before(i)) <= Cardinality(Below(i))
    OBVIOUS
  <2>1. Before(i) \in SUBSET T /\ Below(i) \in SUBSET T /\ Before(i) \in SUBSET Below(i)
    OBVIOUS
  <2> HIDE DEF Before, Below, T
  <2> QED BY <1>1, <2>1, FS_Subset, FS_CardinalityType
<1>4. ASSUME NEW i \in T PROVE Rank(ps, i) = Cardinality(Before(i))
  <2>1. {j \in T : \E x \in ps[j], y \in ps[i] : x < y \/ (x = y /\ j <= i)} = Before(i)
    <3>1. \A j \in T : ps[j] = {P[j]}
      OBVIOUS
    <3> HIDE DEF T
    <3>2. ps[i] = {P[i]}
      BY <3>1
    <3>3. ASSUME NEW j \in T
          PROVE (\E x \in ps[j], y \in ps[i] : x < y \/ (x = y /\ j <= i)) <=> (P[j] < P[i] \/ (P[j] = P[i] /\ j <= i))
      <4>1. ps[j] = {P[j]}
        BY <3>1
      <4> DEFINE u == P[j]
                 v == P[i]
      <4>2. ps[j] = {u} /\ ps[i] = {v}
        BY <4>1, <3>2
      <4> HIDE DEF u, v
      <4>3. (\E x \in ps[j], y \in ps[i] : x < y \/ (x = y /\ j <= i)) <=> (u < v \/ (u = v /\ j <= i))
        BY <4>2
      <4> QED BY <4>3 DEF u, v
    <3> QED BY <3>3
  <2> HIDE DEF Before
  <2> QED BY <2>1 DEF Rank
<1>5. ASSUME NEW i \in T PROVE Within(ps, i) <=> P[i] * m <= Cardinality(Before(i)) * d
  <2>1. ps[i] = {P[i]}
    OBVIOUS
  <2>2. Within(ps, i) <=> \A x \in ps[i] : x * m <= Rank(ps, i) * d
    BY DEF Within, m, d
  <2> HIDE DEF Before, T
  <2> QED BY <1>4, <1>5, <2>1, <2>2
<1> DEFINE Kept(t) == P[t] * m <= Cardinality(Below(t)) * d
<1>6. ASSUME NEW i \in T, NEW j \in T, Rank(ps, i) <= Rank(ps, j), Within(ps, j)
      PROVE  P[i] <= P[j] /\ Kept(j)
  <2>1. Cardinality(Before(i)) <= Cardinality(Before(j))
    <3> HIDE DEF Before, T
    <3> QED BY <1>4, <1>6
  <2>2. ASSUME P[j] < P[i] PROVE FALSE
    <3>1. Before(j) \in SUBSET Before(i) /\ i \in Before(i) /\ i \notin Before(j)
      <4>1. \A x \in T : P[x] \in Int /\ x \in Int
        BY <1>1
      <4> HIDE DEF T
      <4>2. i \in T /\ j \in T /\ ~(P[i] <= P[j]) /\ ~(P[i] < P[j]) /\ P[i] # P[j]
        BY <4>1, <2>2
      <4>3. i \in Before(i) /\ i \notin Before(j)
        BY <4>1, <4>2
      <4>4. ASSUME NEW x \in T, P[x] < P[j] \/ (P[x] = P[j] /\ x <= j) PROVE P[x] < P[i]
        BY <4>1, <4>4, <2>2
      <4> QED BY <4>3, <4>4
    <3> HIDE DEF Before, Below, T
    <3>2. Cardinality(Before(j)) <= Cardinality(Before(i))
          /\ (Cardinality(Before(i)) = Cardinality(Before(j)) => Before(i) = Before(j))
      BY <3>1, <1>3, FS_Subset
    <3> QED BY <3>1, <3>2, <2>1, <1>3
  <2>3. P[j] * m <= Cardinality(Before(j)) * d
    <3> HIDE DEF Before, T
    <3> QED BY <1>5, <1>6
  <2>4. Cardinality(Before(j)) * d <= Cardinality(Below(j)) * d
    <3> HIDE DEF Before, Below, T
    <3> QED BY <1>3, <1>2, Monotone
  <2>5. P[i] \in Int /\ P[j] \in Int
    OBVIOUS
  <2>6. Kept(j)
    <3> DEFINE u == P[j] * m
               v == Cardinality(Before(j)) * d
               w == Cardinality(Below(j)) * d
    <3>1. u \in Int /\ v \in Int /\ w \in Int
      <4> HIDE DEF Before, Below, T
      <4> QED BY <1>1, <1>2, <1>3, <2>5
    <3>2. u <= v /\ v <= w
      BY <2>3, <2>4
    <3>3. u <= w
      <4> HIDE DEF u, v, w
      <4> QED BY <3>1, <3>2
    <3> QED BY <3>3
  <2> QED BY <2>2, <2>5, <2>6
<1>7. ASSUME NEW i \in T, NEW t \in T, P[i] <= P[t], Kept(t)
      PROVE  \E j \in T : Rank(ps, i) <= Rank(ps, j) /\ Within(ps, j)
  <2> DEFINE Tie == {j \in T : P[j] = P[t]}
  <2>1. PICK j \in Tie : \A x \in Tie : x <= j
    <3>1. Tie \in SUBSET T /\ Tie # {}
      OBVIOUS
    <3>2. Tie \in SUBSET Int
      BY <1>1
    <3> HIDE DEF Tie, T
    <3> QED BY <1>1, <3>1, <3>2, FS_Subset, HasEnds
  <2>2. Before(j) = Below(t) /\ P[j] = P[t] /\ j \in T /\ Before(i) \in SUBSET Before(j)
    <3>1. \A x \in T : P[x] \in Int /\ x \in Int
      BY <1>1
    <3>2. Before(j) = Below(t) /\ P[j] = P[t] /\ j \in T
      <4> HIDE DEF T
      <4> QED BY <3>1, <2>1, <1>7
    <3>3. Before(i) \in SUBSET Below(t)
      <4> HIDE DEF T
      <4> QED BY <3>1, <1>7
    <3> QED BY <3>2, <3>3
  <2> HIDE DEF Before, Below, T, Tie
  <2>3. Cardinality(Before(i)) <= Cardinality(Before(j))
    BY <2>2, <1>3, FS_Subset
  <2>4. Rank(ps, i) <= Rank(ps, j)
    BY <2>2, <2>3, <1>4
  <2>5. P[j] * m <= Cardinality(Before(j)) * d
    BY <2>2, <1>7
  <2> QED BY <2>2, <2>4, <2>5, <1>5
<1>8. Survivors(ps) = {i \in T : \E t \in T : P[i] <= P[t] /\ Kept(t)}
  <2>1. Survivors(ps) = {i \in T : \E j \in T : Rank(ps, i) <= Rank(ps, j) /\ Within(ps, j)}
    BY DEF Survivors
  <2> HIDE DEF T, Kept
  <2> QED BY <2>1, <1>6, <1>7
<1> QED BY <1>8 DEF m, d, ByValue

(* A test comes to one whole number.                                        *)
LEMMA TestIsNat ==
  ASSUME NEW p, NEW one, IsFiniteSet(DOMAIN p.samples), Tests(p, one) # {}
  PROVE  \E x \in Int : Tests(p, one) = {x}
<1> DEFINE qs == DOMAIN p.samples
           b == Cardinality({q \in qs : p.samples[q] = <<one, 0>>})
           c == Cardinality({q \in qs : p.samples[q] = <<0, one>>})
           n == b + c
           low == IF b < c THEN b ELSE c
           few == Cardinality({s \in SUBSET (1..n) : Cardinality(s) <= low})
           tail == few * Power(Cells - n)
           x == IF 2 * tail > Power(Cells) THEN Power(Cells) ELSE 2 * tail
<1>1. Tests(p, one) = {x}
  BY DEF Tests
<1>2. b \in Nat /\ c \in Nat
  BY FS_Subset, FS_CardinalityType
<1> HIDE DEF b, c
<1>3. n \in Nat
  BY <1>2
<1> HIDE DEF n
<1>4. few \in Nat
  <2> DEFINE S == SUBSET (1..n)
             R == {s \in S : Cardinality(s) <= low}
  <2>1. IsFiniteSet(S) /\ R \in SUBSET S
    BY <1>3, PowerIsNat
  <2> HIDE DEF S, R
  <2>2. Cardinality(R) \in Nat
    BY <2>1, FS_Subset, FS_CardinalityType
  <2> QED BY <2>2 DEF R, S
<1> HIDE DEF few, low
<1>5. Power(Cells - n) \in Nat /\ Power(Cells) \in Nat
  <2>1. Cells \in Int /\ Cells - n \in Int
    BY <1>3, ComparisonAssumption
  <2> QED BY <2>1, PowerIsNat
<1>6. tail \in Nat
  BY <1>4, <1>5
<1> HIDE DEF tail
<1>7. x \in Int
  BY <1>5, <1>6
<1> QED BY <1>1, <1>7

LEMMA RateKept == AnalysisInv => SurvivorsKeepTheRate
<1> SUFFICES ASSUME AnalysisInv, phase = "gates" PROVE SurvivorsKeepTheRate
  BY DEF SurvivorsKeepTheRate
<1> DEFINE ps == [i \in DOMAIN Family |-> TestOf(i, comparisons)]
           N == Len(Compared) * (Len(Primary) * Len(Listed))
           P == [i \in Tested(ps) |-> Value(ps[i])]
<1>1. DOMAIN ps = 1..N /\ N \in Nat
  <2>1. Len(Compared) \in Nat /\ Len(Listed) \in Nat /\ Len(Primary) \in Nat
    BY AnalysisAssumption DEF Compared, Listed
  <2>2. DOMAIN Family = 1..N
    BY DEF Family
  <2> HIDE DEF N
  <2>3. N \in Nat
    BY <2>1 DEF N
  <2> QED BY <2>2, <2>3
<1>2. ASSUME NEW i \in Tested(ps) PROVE ps[i] = {P[i]} /\ P[i] \in Int
  <2> DEFINE k == Family[i]
             p == Pair(medians[<<k[2], k[3]>>], medians[<<k[1], k[3]>>], InCohort(k[4]))
  <2>1. i \in DOMAIN Family /\ ps[i] = TestOf(i, comparisons) /\ TestOf(i, comparisons) # {}
    BY DEF Tested
  <2>2. k \in DOMAIN comparisons /\ ps[i] = comparisons[k].is.p
    BY <2>1 DEF TestOf
  <2>3. comparisons[k] = [pairing |-> p, is |-> Classify(p, k[3], tight, Scale, Attribute)]
    <3> HIDE DEF k
    <3> QED BY <2>2, WhatIsCompared
  <2>4. IsFiniteSet(DOMAIN p.samples)
    BY PairedAreAsked
  <2>5. comparisons[k].is = Classify(p, k[3], tight, Scale, Attribute)
    <3> HIDE DEF p, k
    <3> QED BY <2>3
  <2> HIDE DEF p, k
  <2>6. ps[i] = {} \/ ps[i] = Tests(p, Scale)
    BY <2>2, <2>5 DEF Classify
  <2>7. \E x \in Int : ps[i] = {x}
    BY <2>1, <2>4, <2>6, TestIsNat
  <2>8. P[i] = Value(ps[i])
    OBVIOUS
  <2> HIDE DEF ps, P
  <2> QED BY <2>7, <2>8 DEF Value
<1>3. P \in [Tested(ps) -> Int] /\ \A i \in Tested(ps) : ps[i] = {P[i]}
  <2> DEFINE T == Tested(ps)
  <2>1. P = [i \in T |-> P[i]]
    OBVIOUS
  <2>2. \A i \in T : P[i] \in Int /\ ps[i] = {P[i]}
    BY <1>2
  <2> HIDE DEF ps, P, T
  <2>3. P \in [T -> Int]
    BY <2>1, <2>2
  <2> QED BY <2>2, <2>3 DEF T
<1> DEFINE T == Tested(ps)
           Below(t) == {j \in T : P[j] <= P[t]}
           Kept(t) == P[t] * (Cardinality(T) * 100) <= Cardinality(Below(t)) * (Discovery * Power(Cells))
           left == {i \in T : \E t \in T : P[i] <= P[t] /\ Kept(t)}
<1>4. Survivors(ps) = left
  <2> HIDE DEF ps, P, N
  <2>1. Survivors(ps) = ByValue(Tested(ps), P)
    BY <1>1, <1>3, SurvivorsByValue
  <2> QED BY <2>1 DEF ByValue
<1>5. survivors = {Family[i] : i \in Survivors(ps)}
  BY DEF AnalysisInv, Corrected
<1>6. survivors = {Family[i] : i \in left}
  BY <1>4, <1>5
<1> DEFINE tested == {i \in DOMAIN Family : TestOf(i, comparisons) # {}}
           V(i) == Value(TestOf(i, comparisons))
           Under(t) == {j \in tested : V(j) <= V(t)}
           Held(t) == V(t) * (Cardinality(tested) * 100) <= Cardinality(Under(t)) * (Discovery * Power(Cells))
<1>7. tested = T /\ \A i \in T : V(i) = P[i]
  BY DEF Tested
<1>8. \A t \in T : Under(t) = Below(t)
  <2> HIDE DEF T, P, V, tested
  <2> QED BY <1>7
<1>9. {i \in tested : \E t \in tested : V(i) <= V(t) /\ Held(t)} = left
  <2> HIDE DEF T, P, V, tested, Under, Below
  <2> QED BY <1>7, <1>8
<1> QED BY <1>6, <1>9 DEF SurvivorsKeepTheRate

-----------------------------------------------------------------------------
(* A score is a whole number, or none.                                      *)
IsScore(x) == x = {} \/ \E v \in Int : x = {v}

LEMMA RatioIsScore == ASSUME NEW n \in Int, NEW d \in Int PROVE IsScore(Ratio(n, d))
<1>1. Scale \in Nat
  BY ScoringAssumption
<1> DEFINE u == n * Scale
<1>2. u \in Int
  BY <1>1
<1> HIDE DEF u
<1>3. d >= 1 => u \div d \in Int
  BY <1>2
<1>4. Ratio(n, d) = IF d < 1 THEN {} ELSE {u \div d}
  BY DEF Ratio, Insufficient, u
<1> QED BY <1>3, <1>4 DEF IsScore

LEMMA FlagIsScore == ASSUME NEW b PROVE IsScore(Flag(b))
<1> DEFINE n == IF b THEN 1 ELSE 0
<1>1. n \in Int
  OBVIOUS
<1> HIDE DEF n
<1>2. IsScore(Ratio(n, 1))
  BY <1>1, RatioIsScore
<1> QED BY <1>2 DEF Flag, n

LEMMA SeqFacts ==
  ASSUME NEW S, NEW s \in Seq(S)
  PROVE  /\ Len(s) \in Nat /\ DOMAIN s = 1..Len(s) /\ IsFiniteSet(DOMAIN s)
         /\ \A R \in SUBSET DOMAIN s : IsFiniteSet(R) /\ Cardinality(R) \in Nat
<1>1. Len(s) \in Nat /\ DOMAIN s = 1..Len(s)
  OBVIOUS
<1>2. IsFiniteSet(1..Len(s))
  BY <1>1, FS_Interval
<1>3. ASSUME NEW R \in SUBSET DOMAIN s PROVE IsFiniteSet(R) /\ Cardinality(R) \in Nat
  BY <1>1, <1>2, FS_Subset, FS_CardinalityType
<1> QED BY <1>1, <1>2, <1>3

IsQuestion(q) == q \in QuestionType /\ IsFiniteSet(q.facts) /\ IsFiniteSet(q.positives)
IsAnswer(a) == a \in AnswerType(DOMAIN SourceOf)

(* What the counts of an answer are.                                        *)
LEMMA Counts ==
  ASSUME NEW q, IsQuestion(q), NEW a, IsAnswer(a)
  PROVE  /\ Len(a.claims) \in Int /\ \A kind : Claims(a, kind) \in Int
         /\ Cardinality(q.facts) \in Int /\ Cardinality(Matched(q, a)) \in Int
         /\ Cardinality(Matched(q, a) \cap q.faceted) \in Int /\ Cardinality(q.facts \cap q.faceted) \in Int
<1>1. a.claims \in Seq(ClaimType(DOMAIN SourceOf))
  BY DEF IsAnswer, AnswerType
<1>2. Len(a.claims) \in Int
  BY <1>1, SeqFacts
<1>3. ASSUME NEW kind PROVE Claims(a, kind) \in Int
  <2> DEFINE R == {i \in DOMAIN a.claims : IsOf(kind, a, a.claims[i])}
  <2>1. R \in SUBSET DOMAIN a.claims
    OBVIOUS
  <2> HIDE DEF R
  <2>2. Cardinality(R) \in Nat
    BY <1>1, <2>1, SeqFacts
  <2> QED BY <2>2 DEF Claims, R
<1>4. \A R \in SUBSET q.facts : Cardinality(R) \in Int
  BY FS_Subset, FS_CardinalityType DEF IsQuestion
<1>5. Matched(q, a) \in SUBSET q.facts /\ Matched(q, a) \cap q.faceted \in SUBSET q.facts
      /\ q.facts \cap q.faceted \in SUBSET q.facts
  BY DEF Matched
<1> QED BY <1>2, <1>3, <1>4, <1>5

LEMMA AnswerScored ==
  ASSUME NEW q, IsQuestion(q), NEW a, IsAnswer(a), NEW m \in AnswerMetrics
  PROVE  IsScore(AnswerScore(q, a, m))
<1> USE Counts
<1>1. CASE m = "fact_recall"
  BY <1>1, RatioIsScore DEF AnswerScore, Recall
<1>2. CASE m = "fact_precision"
  BY <1>2, RatioIsScore DEF AnswerScore, Precision
<1>3. CASE m = "fact_f1"
  <2> DEFINE tp == Cardinality(Matched(q, a))
             fn == Cardinality(q.facts) - tp
             fp == Len(a.claims) - Claims(a, "correct")
  <2>1. 2 * tp \in Int /\ 2 * tp + fp + fn \in Int
    <3> DEFINE u == Cardinality(Matched(q, a))
               v == Cardinality(q.facts)
               w == Len(a.claims)
               x == Claims(a, "correct")
    <3>1. u \in Int /\ v \in Int /\ w \in Int /\ x \in Int
      BY Counts
    <3> HIDE DEF u, v, w, x
    <3>2. 2 * u \in Int /\ 2 * u + (w - x) + (v - u) \in Int
      BY ONLY <3>1
    <3> QED BY <3>2 DEF u, v, w, x
  <2>2. F1(q, a) = Ratio(2 * tp, 2 * tp + fp + fn)
    BY DEF F1
  <2> HIDE DEF tp, fn, fp
  <2> QED BY <1>3, <2>1, <2>2, RatioIsScore DEF AnswerScore
<1>4. CASE m = "evidence_support_rate"
  BY <1>4, RatioIsScore DEF AnswerScore, SupportRate, Supports
<1>5. CASE m = "unsupported_claim_rate"
  <2> DEFINE w == Len(a.claims)
             x == Claims(a, "supported")
  <2>2. w \in Int /\ x \in Int
    BY Counts
  <2> HIDE DEF w, x
  <2>3. w - x \in Int /\ w \in Int
    BY ONLY <2>2
  <2>1. Len(a.claims) - Supports(a) \in Int /\ Len(a.claims) \in Int
    BY <2>3 DEF Supports, w, x
  <2> QED BY <1>5, <2>1, RatioIsScore DEF AnswerScore, Unsupported
<1>6. CASE m = "citation_validity"
  BY <1>6, RatioIsScore DEF AnswerScore, ValidCitations
<1>7. CASE m = "abstention_accuracy"
  BY <1>7, FlagIsScore DEF AnswerScore, AbstainsRight
<1>8. CASE m = "contradiction_handling_accuracy"
  BY <1>8, FlagIsScore DEF AnswerScore, Reconciles, IsScore
<1>9. CASE m = "temporal_validity"
  BY <1>9, FlagIsScore DEF AnswerScore, HoldsThen, IsScore
<1>10. CASE m = "answer_completeness_by_facet"
  BY <1>10, RatioIsScore DEF AnswerScore, Complete
<1> QED BY <1>1, <1>2, <1>3, <1>4, <1>5, <1>6, <1>7, <1>8, <1>9, <1>10 DEF AnswerMetrics

LEMMA RetrievalScored ==
  ASSUME NEW q, IsQuestion(q), NEW a, IsAnswer(a), NEW m \in RetrievalMetrics
  PROVE  IsScore(RetrievalScore(q, a, m))
<1>1. a.results \in Seq(DOMAIN SourceOf)
  BY DEF IsAnswer, AnswerType
<1>2. Ranks(a) \in SUBSET DOMAIN a.results
  BY DEF Ranks
<1>3. Hits(q, a) \in SUBSET DOMAIN a.results /\ Exposed(q, a) \in SUBSET DOMAIN a.results
  BY <1>2 DEF Hits, Exposed
<1>4. /\ Cardinality(Ranks(a)) \in Int /\ Cardinality(Exposed(q, a)) \in Int
      /\ Cardinality(Hits(q, a) \cup Exposed(q, a)) \in Int /\ IsFiniteSet(Hits(q, a))
  <2>1. Hits(q, a) \cup Exposed(q, a) \in SUBSET DOMAIN a.results
    BY <1>3
  <2> QED BY <1>1, <1>2, <1>3, <2>1, SeqFacts
<1>5. Cardinality(q.positives) \in Int
  BY FS_CardinalityType DEF IsQuestion
<1>6. Cardinality({Source(a, i) : i \in Hits(q, a)}) \in Int
  <2> DEFINE f == [i \in Hits(q, a) |-> Source(a, i)]
  <2>1. {Source(a, i) : i \in Hits(q, a)} = {f[i] : i \in DOMAIN f} /\ DOMAIN f = Hits(q, a)
    OBVIOUS
  <2> HIDE DEF f
  <2>2. IsFiniteSet({f[i] : i \in DOMAIN f})
    BY <1>4, <2>1, ImageIsFinite
  <2> DEFINE T == {f[i] : i \in DOMAIN f}
  <2>3. Cardinality(T) \in Nat
    BY <2>2, FS_CardinalityType
  <2>4. {Source(a, i) : i \in Hits(q, a)} = T
    BY <2>1
  <2> HIDE DEF T
  <2> QED BY <2>3, <2>4
<1>7. Hits(q, a) # {} => (CHOOSE i \in Hits(q, a) : \A j \in Hits(q, a) : i <= j) \in Int
  <2>1. Hits(q, a) \in SUBSET Int
    BY <1>1, <1>3, SeqFacts
  <2>2. Hits(q, a) # {} => \E i \in Hits(q, a) : \A j \in Hits(q, a) : i <= j
    BY <1>4, <2>1, HasEnds
  <2> DEFINE H == Hits(q, a)
  <2> HIDE DEF H
  <2>3. (\E i \in H : \A j \in H : i <= j) => (CHOOSE i \in H : \A j \in H : i <= j) \in H
    OBVIOUS
  <2> QED BY <2>1, <2>2, <2>3 DEF H
<1>8. IsScore(Reciprocal(q, a))
  <2>1. CASE Hits(q, a) = {}
    BY <2>1 DEF Reciprocal, IsScore
  <2>2. CASE Hits(q, a) # {}
    <3> DEFINE d == CHOOSE i \in Hits(q, a) : \A j \in Hits(q, a) : i <= j
    <3>1. d \in Int
      BY <2>2, <1>7
    <3>2. Reciprocal(q, a) = Ratio(1, d)
      BY <2>2 DEF Reciprocal
    <3> HIDE DEF d
    <3> QED BY <3>1, <3>2, RatioIsScore
  <2> QED BY <2>1, <2>2
<1>9. IsScore(Judged(q, a)) /\ IsScore(Reached(q, a)) /\ IsScore(Exposure(q, a))
  BY <1>4, <1>5, <1>6, RatioIsScore DEF Judged, Reached, Exposure
<1>10. IsScore(Insufficient)
  BY DEF IsScore, Insufficient
<1>11. IsScore(Flag(q.positives # {})) /\ IsScore(Flag(Hits(q, a) # {}))
  BY FlagIsScore
<1> QED BY <1>8, <1>9, <1>10, <1>11 DEF RetrievalMetrics, RetrievalScore

(* A median of whole numbers is one.                                        *)
LEMMA MedianIsInt ==
  ASSUME NEW f, IsFiniteSet(DOMAIN f), DOMAIN f # {}, \A i \in DOMAIN f : f[i] \in Int
  PROVE  Median(f) \in Int
<1> DEFINE D == DOMAIN f
           scores == {f[i] : i \in D}
           UpTo(v) == 2 * Cardinality({i \in D : f[i] <= v})
           low == {v \in scores : UpTo(v) >= Cardinality(D)}
           high == {v \in scores : UpTo(v) > Cardinality(D)}
<1>1. IsFiniteSet(scores) /\ scores \in SUBSET Int /\ scores # {}
  <2>1. scores \in SUBSET Int /\ scores # {}
    OBVIOUS
  <2>2. IsFiniteSet(scores)
    BY ImageIsFinite
  <2> QED BY <2>1, <2>2
<1>2. Cardinality(D) \in Nat /\ Cardinality(D) > 0
  <2> HIDE DEF D
  <2>1. IsFiniteSet(D) /\ D # {}
    BY DEF D
  <2> QED BY <2>1, FS_CardinalityType, FS_EmptySet
<1>3. Max(scores) \in scores /\ UpTo(Max(scores)) = 2 * Cardinality(D)
  <2> DEFINE x == Max(scores)
             R == {i \in D : f[i] <= x}
  <2>1. x \in scores /\ \A y \in scores : y <= x
    <3> HIDE DEF scores
    <3> QED BY <1>1, MinMax
  <2> HIDE DEF x
  <2>2. \A i \in D : f[i] <= x
    BY <2>1
  <2>3. R = D
    BY <2>2
  <2>4. UpTo(x) = 2 * Cardinality(R)
    OBVIOUS
  <2> HIDE DEF D, R, scores
  <2> QED BY <2>1, <2>3, <2>4 DEF x
<1>4. Max(scores) \in low /\ Max(scores) \in high
  <2> HIDE DEF scores, UpTo, D
  <2> QED BY <1>2, <1>3
<1>5. IsFiniteSet(low) /\ IsFiniteSet(high) /\ low \in SUBSET Int /\ high \in SUBSET Int
  <2>1. low \in SUBSET scores /\ high \in SUBSET scores
    OBVIOUS
  <2> HIDE DEF scores, low, high
  <2> QED BY <2>1, <1>1, FS_Subset
<1>6. Min(low) \in Int /\ Min(high) \in Int
  <2> HIDE DEF scores, low, high
  <2> QED BY <1>4, <1>5, MinMax
<1>7. Median(f) = (Min(low) + Min(high)) \div 2
  BY DEF Median
<1> HIDE DEF low, high
<1> QED BY <1>6, <1>7

(* A sum over questions lies between as many times the least and the        *)
(* greatest of its terms.                                                   *)
LEMMA SumBetween ==
  ASSUME NEW p, NEW qs \in SUBSET Asked, NEW lo \in Int, NEW hi \in Int,
         \A q \in qs : Delta(p, q) \in Int /\ lo <= Delta(p, q) /\ Delta(p, q) <= hi
  PROVE  /\ SumOver(p, qs) \in Int /\ Cardinality(qs) \in Nat
         /\ Cardinality(qs) * lo <= SumOver(p, qs) /\ SumOver(p, qs) <= Cardinality(qs) * hi
<1> DEFINE last == Max(qs \cup {0})
           f == [q \in 1..last |-> IF q \in qs THEN Delta(p, q) ELSE 0]
           S == Partials(f, last)
           Upto(i) == qs \cap (1..i)
           G == {i \in 0..last : /\ Cardinality(Upto(i)) \in Nat /\ S[i] \in Int
                                 /\ Cardinality(Upto(i)) * lo <= S[i] /\ S[i] <= Cardinality(Upto(i)) * hi}
<1>1. IsFiniteSet(qs) /\ qs \in SUBSET Int /\ \A q \in qs : q >= 1
  <2>1. Asked = 1..Len(Questions) /\ Len(Questions) \in Nat /\ IsFiniteSet(Asked)
    BY AskedIsFinite
  <2>2. IsFiniteSet(qs)
    BY <2>1, FS_Subset
  <2>3. \A q \in qs : q \in 1..Len(Questions)
    BY <2>1
  <2> HIDE DEF last, f, S, Upto, G
  <2> QED BY <2>1, <2>2, <2>3
<1>2. last \in Nat /\ qs \in SUBSET (1..last)
  <2>1. IsFiniteSet(qs \cup {0})
    BY <1>1, FS_AddElement
  <2> DEFINE T == qs \cup {0}
  <2>2. T \in SUBSET Int /\ T # {}
    BY <1>1
  <2>3. last \in T /\ \A y \in T : y <= last
    <3> HIDE DEF T, last
    <3>1. last = Max(T)
      BY DEF T, last
    <3> QED BY <2>1, <2>2, <3>1, MinMax DEF T
  <2> HIDE DEF last
  <2>4. last \in Int /\ 0 <= last /\ \A q \in qs : q <= last
    BY <2>2, <2>3
  <2> QED BY <2>4, <1>1
<1> HIDE DEF last
<1>3. f \in [1..last -> Int]
  OBVIOUS
<1>4. /\ S \in [0..last -> Int] /\ S[0] = 0
      /\ \A i \in 1..last : S[i] = S[i-1] + f[i]
  <2> HIDE DEF f
  <2> QED BY <1>2, <1>3, PartialsDef
<1>5. \A i \in 0..last : IsFiniteSet(Upto(i)) /\ Cardinality(Upto(i)) \in Nat
  <2>1. ASSUME NEW i \in 0..last PROVE Upto(i) \in SUBSET qs
    OBVIOUS
  <2> HIDE DEF Upto
  <2> QED BY <2>1, <1>1, FS_Subset, FS_CardinalityType
<1>6. 0 \in G
  <2>1. Upto(0) = {}
    OBVIOUS
  <2>2. Cardinality(Upto(0)) = 0
    BY <2>1, FS_EmptySet
  <2> HIDE DEF S, f, Upto
  <2> QED BY <1>2, <1>4, <2>2
<1>7. ASSUME NEW i \in 1..last, i - 1 \in G PROVE i \in G
  <2> DEFINE n == Cardinality(Upto(i - 1))
             u == S[i - 1]
  <2>1. /\ i \in 1..last /\ i - 1 \in 0..last /\ i \in 0..last
    BY <1>2
  <2>2. n \in Nat /\ u \in Int /\ n * lo <= u /\ u <= n * hi
    <3> HIDE DEF S, Upto
    <3> QED BY <1>7
  <2>3. S[i] = u + f[i]
    BY <1>4, <2>1
  <2>4. CASE i \in qs
    <3>1. f[i] = Delta(p, i)
      BY <2>1, <2>4
    <3>2. Upto(i) = Upto(i - 1) \cup {i} /\ i \notin Upto(i - 1)
      BY <2>1, <2>4
    <3>3. Cardinality(Upto(i)) = n + 1
      <4> HIDE DEF Upto
      <4> QED BY <3>2, <2>1, <1>5, FS_AddElement
    <3> DEFINE d == Delta(p, i)
    <3>4. d \in Int /\ lo <= d /\ d <= hi
      BY <2>4
    <3>5. (n + 1) * lo = n * lo + lo /\ (n + 1) * hi = n * hi + hi
      <4> HIDE DEF n
      <4> QED BY <2>2
    <3>6. S[i] = u + d
      BY <2>3, <3>1
    <3> HIDE DEF n, u, d
    <3> DEFINE x == n * lo
               y == n * hi
    <3>7. x \in Int /\ y \in Int
      BY <2>2
    <3>8. x <= u /\ u <= y /\ (n + 1) * lo = x + lo /\ (n + 1) * hi = y + hi
      BY <2>2, <3>5
    <3> HIDE DEF x, y
    <3>9. x + lo <= u + d /\ u + d <= y + hi /\ u + d \in Int
      BY <2>2, <3>4, <3>7, <3>8
    <3>10. Cardinality(Upto(i)) * lo <= S[i] /\ S[i] <= Cardinality(Upto(i)) * hi /\ S[i] \in Int
      <4> HIDE DEF Upto, S
      <4> QED BY <3>3, <3>6, <3>8, <3>9
    <3> HIDE DEF Upto, S
    <3> QED BY <2>1, <1>5, <3>10
  <2>5. CASE i \notin qs
    <3>1. f[i] = 0
      BY <2>1, <2>5
    <3>2. Upto(i) = Upto(i - 1)
      BY <2>1, <2>5
    <3>3. S[i] = u
      BY <2>2, <2>3, <3>1
    <3> HIDE DEF S, Upto, f
    <3> QED BY <2>1, <2>2, <3>2, <3>3
  <2> QED BY <2>4, <2>5
<1>8. last \in G
  <2> HIDE DEF G
  <2> QED BY <1>2, <1>6, <1>7, RangeInduction
<1>9. Upto(last) = qs
  BY <1>2
<1>10. SumOver(p, qs) = S[last]
  BY DEF SumOver, Sum, last
<1> HIDE DEF S, f, Upto
<1> QED BY <1>8, <1>9, <1>10

(* What pairing sees of an arm are whole numbers.                           *)
LEMMA MediansAreInts ==
  ASSUME AnalysisInv, phase # "score", NEW a \in Arms, NEW m \in Range(Primary)
  PROVE  \A q \in DOMAIN Medians(rows, a, m) : q \in Asked /\ Medians(rows, a, m)[q] \in Int
<1> SUFFICES ASSUME NEW q \in DOMAIN Medians(rows, a, m)
             PROVE  q \in Asked /\ Medians(rows, a, m)[q] \in Int
  OBVIOUS
<1> DEFINE r == <<a, q, m>>
           D == Scored(rows, r)
           f == [i \in D |-> Value(rows[r][i])]
<1>1. q \in Asked /\ r \in DOMAIN rows /\ D # {} /\ Medians(rows, a, m)[q] = Median(f)
  BY DEF Medians
<1>2. rows = Rows(answers) /\ answers \in [Asked -> Cases]
  BY DEF AnalysisInv
<1>3. /\ m \in Metrics(a) /\ m \in AnswerMetrics \cup RetrievalMetrics
      /\ rows[r] = [i \in DOMAIN answers[q][a] |-> Score(Questions[q], answers[q][a][i], m)]
  <2>1. r \in DOMAIN Rows(answers) /\ rows[r] = Rows(answers)[r]
    BY <1>1, <1>2
  <2>2. r[1] = a /\ r[2] = q /\ r[3] = m
    OBVIOUS
  <2> QED BY <2>1, <2>2 DEF Rows
<1>4. answers[q][a] \in Seq(AnswerType(DOMAIN SourceOf))
  <2>1. answers[q] \in [Arms -> Seq(AnswerType(DOMAIN SourceOf))]
    BY <1>1, <1>2, AnalysisAssumption
  <2> QED BY <2>1
<1>5. IsQuestion(Questions[q])
  <2>1. Questions \in Seq(QuestionType) /\ q \in DOMAIN Questions
    BY <1>1, AnalysisAssumption DEF Asked
  <2>2. Questions[q] \in QuestionType
    BY <2>1
  <2> QED BY <2>2, <1>1, AnalysisAssumption DEF IsQuestion
<1> DEFINE t == answers[q][a]
<1>6. ASSUME NEW i \in DOMAIN t PROVE IsScore(Score(Questions[q], t[i], m))
  <2>1. t[i] \in AnswerType(DOMAIN SourceOf)
    <3> HIDE DEF t
    <3>1. t \in Seq(AnswerType(DOMAIN SourceOf))
      BY <1>4 DEF t
    <3> QED BY <3>1
  <2>2. IsAnswer(t[i])
    BY <2>1 DEF IsAnswer
  <2> HIDE DEF t
  <2> QED BY <1>3, <1>5, <2>2, AnswerScored, RetrievalScored DEF Score
<1>7. D \in SUBSET DOMAIN t /\ \A i \in D : rows[r][i] # {} /\ IsScore(rows[r][i])
  <2>1. DOMAIN rows[r] = DOMAIN t /\ \A i \in DOMAIN t : rows[r][i] = Score(Questions[q], t[i], m)
    BY <1>3
  <2> HIDE DEF t, r
  <2> QED BY <2>1, <1>6 DEF Scored
<1> HIDE DEF D, r, t
<1>8. IsFiniteSet(D)
  BY <1>4, <1>7, SeqFacts DEF t
<1>9. \A i \in D : Value(rows[r][i]) \in Int
  <2> SUFFICES ASSUME NEW i \in D PROVE Value(rows[r][i]) \in Int
    OBVIOUS
  <2> DEFINE x == rows[r][i]
  <2>1. \E v \in Int : x = {v}
    BY <1>7 DEF IsScore
  <2> HIDE DEF x
  <2>2. Value(x) \in Int
    BY <2>1 DEF Value
  <2> QED BY <2>2 DEF x
<1>10. DOMAIN f = D /\ \A i \in DOMAIN f : f[i] \in Int
  BY <1>9
<1>11. Medians(rows, a, m)[q] = Median(f)
  BY <1>1
<1> HIDE DEF f
<1>12. Median(f) \in Int
  BY <1>1, <1>8, <1>10, MedianIsInt
<1> QED BY <1>1, <1>11, <1>12

(* What the interval of a pairing allows bounds what was measured.          *)
LEMMA IntervalHolds ==
  ASSUME NEW p, NEW m, NEW close, NEW margin \in Int, DOMAIN p.samples \in SUBSET Asked,
         \A q \in DOMAIN p.samples : Delta(p, q) \in Int,
         NonInferior(Classify(p, m, close, Scale, Attribute), m, margin) = {TRUE}
  PROVE  /\ DOMAIN p.samples # {}
         /\ Better(m, SumOver(p, DOMAIN p.samples)) >= -margin * Cardinality(DOMAIN p.samples)
<1> DEFINE qs == DOMAIN p.samples
           n == Cardinality(qs)
           c == Classify(p, m, close, Scale, Attribute)
           sum == SumOver(p, qs)
           deltas == {Delta(p, q) : q \in qs}
<1>1. c.n = n /\ (c.interval = {} \/ c.interval = Bootstrap(p, close))
  BY DEF Classify
<1>2. \A i \in c.interval : ((IF m \in LowerIsBetter THEN -i.upper ELSE i.lower) >= -margin * n) = TRUE
  <2> HIDE DEF c, n
  <2> QED BY <1>1 DEF NonInferior, c
<1>3. c.interval # {}
  <2> HIDE DEF c
  <2> QED BY DEF NonInferior, c
<1>4. c.interval = Bootstrap(p, close) /\ Bootstrap(p, close) # {}
  BY <1>1, <1>3
<1>5. IsFiniteSet(qs) /\ n \in Nat
  BY AskedIsFinite, FS_Subset, FS_CardinalityType
<1> DEFINE drawn == IF close THEN {[lower |-> sum, upper |-> sum]}
                    ELSE {[lower |-> n * Min(deltas), upper |-> n * Max(deltas)]}
<1>10. Bootstrap(p, close) = IF n < 2 THEN {} ELSE drawn
  BY DEF Bootstrap
<1>6. n >= 2 /\ Bootstrap(p, close) = drawn
  <2> HIDE DEF n, drawn
  <2> QED BY <1>4, <1>5, <1>10
<1>7. qs # {}
  <2> HIDE DEF qs
  <2> QED BY <1>6, FS_EmptySet
<1>8. CASE close
  <2>1. Bootstrap(p, close) = {[lower |-> sum, upper |-> sum]}
    BY <1>8, <1>6
  <2> HIDE DEF sum, n, c, qs
  <2>2. (IF m \in LowerIsBetter THEN -sum ELSE sum) >= -margin * n
    BY <1>2, <1>4, <2>1
  <2> QED BY <1>7, <2>2 DEF Better, sum, n, qs
<1>9. CASE ~close
  <2> DEFINE lo == Min(deltas)
             hi == Max(deltas)
  <2>1. Bootstrap(p, close) = {[lower |-> n * lo, upper |-> n * hi]}
    BY <1>9, <1>6
  <2>2. IsFiniteSet(deltas) /\ deltas \in SUBSET Int /\ deltas # {}
    <3> DEFINE f == [q \in qs |-> Delta(p, q)]
    <3>1. deltas = {f[q] : q \in DOMAIN f} /\ DOMAIN f = qs
      OBVIOUS
    <3>2. deltas \in SUBSET Int /\ deltas # {}
      BY <1>7
    <3> HIDE DEF f, deltas, qs
    <3> QED BY <3>1, <3>2, <1>5, ImageIsFinite
  <2>3. lo \in Int /\ hi \in Int /\ \A d \in deltas : lo <= d /\ d <= hi
    <3> HIDE DEF deltas
    <3> QED BY <2>2, MinMax
  <2> HIDE DEF lo, hi
  <2>4. \A q \in qs : Delta(p, q) \in Int /\ lo <= Delta(p, q) /\ Delta(p, q) <= hi
    BY <2>3
  <2>5. sum \in Int /\ n * lo <= sum /\ sum <= n * hi
    BY <2>3, <2>4, SumBetween
  <2>6. (IF m \in LowerIsBetter THEN -(n * hi) ELSE n * lo) >= -margin * n
    <3> HIDE DEF c, n, qs, deltas, sum
    <3> QED BY <1>2, <1>4, <2>1
  <2> DEFINE x == n * lo
             y == n * hi
             z == -margin * n
  <2>7. x \in Int /\ y \in Int /\ z \in Int
    <3> HIDE DEF n
    <3> QED BY <1>5, <2>3
  <2>8. sum \in Int /\ x <= sum /\ sum <= y /\ (IF m \in LowerIsBetter THEN -y ELSE x) >= z
    BY <2>5, <2>6
  <2> HIDE DEF sum, x, y, z
  <2>9. (IF m \in LowerIsBetter THEN -sum ELSE sum) >= z
    BY <2>7, <2>8
  <2> QED BY <1>7, <2>9 DEF Better, sum, z
<1> QED BY <1>8, <1>9

LEMMA FoundAs ==
  ASSUME NEW x, NEW y, NEW z, x = [pairing |-> y, is |-> z]
  PROVE  x.pairing = y /\ x.is = z
OBVIOUS

LEMMA DeltaIsInt ==
  ASSUME NEW p, NEW q, NEW u \in Int, NEW v \in Int, p.samples[q] = <<u, v>>
  PROVE  Delta(p, q) \in Int
BY DEF Delta

LEMMA RivalsMeasured == AnalysisInv => RivalsIsMeasured
<1> SUFFICES ASSUME AnalysisInv, NEW a \in DOMAIN decision, decision[a] = "pass"
             PROVE  /\ \A g \in DOMAIN gates : specs[g].enabled /\ g \in DOMAIN Observed(rows, answers, world)
                          /\ Observed(rows, answers, world)[g] # {}
                    /\ \A m \in DOMAIN Margin, c \in {"", "temporal_holdout"} :
                         LET p  == Pair(Medians(rows, "S0", m), Medians(rows, a, m), InCohort(c))
                             qs == InCohort(c) \cap DOMAIN Medians(rows, a, m) \cap DOMAIN Medians(rows, "S0", m)
                         IN qs # {} /\ Better(m, SumOver(p, qs)) >= -Margin[m] * Cardinality(qs)
  BY DEF RivalsIsMeasured
<1>1. phase = "done" /\ Rivals(a)
  <2>1. DOMAIN <<>> = {}
    OBVIOUS
  <2> QED BY <2>1 DEF AnalysisInv, Phases
<1>2. ASSUME NEW g \in DOMAIN gates
      PROVE  specs[g].enabled /\ g \in DOMAIN Observed(rows, answers, world)
               /\ Observed(rows, answers, world)[g] # {}
  <2> DEFINE seen == Observed(rows, answers, world)
             o == IF g \in DOMAIN seen THEN seen[g] ELSE {}
  <2>1. gates = Outcomes(specs, seen)
    BY <1>1 DEF AnalysisInv
  <2> HIDE DEF seen
  <2>2. gates[g] = Outcome(specs[g], o)
    BY <2>1 DEF Outcomes
  <2>3. gates[g] \notin {"failed", "skipped"}
    BY <1>1 DEF Rivals, Verdict
  <2>4. specs[g].enabled /\ o # {}
    <3> HIDE DEF o
    <3> QED BY <2>2, <2>3 DEF Outcome
  <2> QED BY <2>4 DEF seen
<1>3. ASSUME NEW m \in DOMAIN Margin, NEW c \in {"", "temporal_holdout"}
      PROVE  LET p  == Pair(Medians(rows, "S0", m), Medians(rows, a, m), InCohort(c))
                 qs == InCohort(c) \cap DOMAIN Medians(rows, a, m) \cap DOMAIN Medians(rows, "S0", m)
             IN qs # {} /\ Better(m, SumOver(p, qs)) >= -Margin[m] * Cardinality(qs)
  <2> DEFINE k == <<a, "S0", m, c>>
             b == Medians(rows, "S0", m)
             t == Medians(rows, a, m)
             p == Pair(b, t, InCohort(c))
             qs == InCohort(c) \cap DOMAIN t \cap DOMAIN b
  <2>1. /\ k \in DOMAIN comparisons
        /\ NonInferior(comparisons[k].is, m, Margin[m]) = {TRUE}
    BY <1>1 DEF Rivals
  <2>2. m \in Range(Primary) /\ Margin[m] \in Int
    <3>1. Margin \in [DOMAIN Margin -> Int] /\ DOMAIN Margin \subseteq Range(Primary)
      BY AnalysisAssumption
    <3> QED BY <3>1
  <2>3. a \in Arms /\ "S0" \in Arms
    <3>1. k \in Keys(medians)
      BY <1>1, <2>1 DEF AnalysisInv, Comparisons
    <3>2. k[1] = a /\ k[2] = "S0"
      OBVIOUS
    <3> HIDE DEF k
    <3> QED BY <3>1, <3>2 DEF Keys
  <2>4. medians[<<"S0", m>>] = b /\ medians[<<a, m>>] = t
    BY <1>1, <2>2, <2>3 DEF AnalysisInv, MediansOf
  <2>5. k[1] = a /\ k[2] = "S0" /\ k[3] = m /\ k[4] = c
    OBVIOUS
  <2>6. comparisons[k] = [pairing |-> p, is |-> Classify(p, m, tight, Scale, Attribute)]
    <3> HIDE DEF k, b, t
    <3> QED BY <1>1, <2>1, <2>4, <2>5, WhatIsCompared
  <2>7. \A q \in DOMAIN t : t[q] \in Int
    BY <1>1, <2>2, <2>3, MediansAreInts
  <2>8. \A q \in DOMAIN b : b[q] \in Int
    BY <1>1, <2>2, <2>3, MediansAreInts
  <2> HIDE DEF b, t
  <2>9. /\ DOMAIN p.samples = qs /\ DOMAIN p.samples \in SUBSET Asked
        /\ \A q \in qs : p.samples[q] = <<b[q], t[q]>>
    <3>1. DOMAIN p.samples = InCohort(c) \cap DOMAIN b \cap DOMAIN t /\ DOMAIN p.samples \in SUBSET Asked
      BY PairedAreAsked
    <3>2. p.samples = [q \in InCohort(c) \cap DOMAIN b \cap DOMAIN t |-> <<b[q], t[q]>>]
      BY DEF Pair
    <3> HIDE DEF p
    <3> QED BY <3>1, <3>2
  <2>10. comparisons[k].is = Classify(p, m, tight, Scale, Attribute)
    <3> HIDE DEF p, k
    <3> QED BY <2>6, FoundAs
  <2> HIDE DEF p, k
  <2>11. \A q \in DOMAIN p.samples : Delta(p, q) \in Int
    <3> SUFFICES ASSUME NEW q \in DOMAIN p.samples PROVE Delta(p, q) \in Int
      OBVIOUS
    <3>1. p.samples[q] = <<b[q], t[q]>> /\ b[q] \in Int /\ t[q] \in Int
      BY <2>7, <2>8, <2>9
    <3> QED BY <3>1, DeltaIsInt
  <2>12. qs # {} /\ Better(m, SumOver(p, qs)) >= -Margin[m] * Cardinality(qs)
    <3> HIDE DEF qs
    <3>1. /\ DOMAIN p.samples # {}
          /\ Better(m, SumOver(p, DOMAIN p.samples)) >= -Margin[m] * Cardinality(DOMAIN p.samples)
      BY <2>1, <2>2, <2>9, <2>10, <2>11, IntervalHolds
    <3> QED BY <3>1, <2>9
  <2> QED BY <2>12 DEF p, b, t
<1> QED BY <1>2, <1>3

-----------------------------------------------------------------------------
(* An artifact on file is of one document with its source, and a document   *)
(* with either is of one document with the other.                           *)
LEMMA OneDocument ==
  ASSUME NEW x \in DOMAIN SourceOf, x \in Receipted, NEW y, SameDocument(x, y)
  PROVE  SameDocument(y, SourceOf[x])
<1>1. SourceOf[x] \in {SourceOf[z] : z \in DOMAIN SourceOf}
  OBVIOUS
<1>2. SourceOf[x] \notin DOMAIN SourceOf
  BY <1>1, ScoringAssumption
<1>3. OnFile(x) /\ OnFile(SourceOf[x]) /\ Record(x) = SourceOf[x] /\ Record(SourceOf[x]) = SourceOf[x]
  BY <1>2 DEF OnFile, Record
<1>4. CASE OnFile(y)
  BY <1>3, <1>4 DEF SameDocument
<1>5. CASE ~OnFile(y)
  BY <1>3, <1>5 DEF SameDocument
<1> QED BY <1>4, <1>5

(* The loop over the results has the values its recursion says.             *)
LEMMA RetrievedSteps ==
  ASSUME NEW a, Len(a.results) \in Nat
  PROVE  \E d : /\ d = [i \in 0..Len(a.results) |->
                          IF i = 0 THEN <<>> ELSE RetrieveOne(d[i - 1], a.results[i])]
                /\ Retrieved(a) = d[Len(a.results)]
<1> DEFINE n == Len(a.results)
           At(d, i) == IF i = 0 THEN <<>> ELSE RetrieveOne(d[i - 1], a.results[i])
           IsD(m, d) == d = [i \in 0..m |-> At(d, i)]
           G == {m \in 0..n : \E d : IsD(m, d)}
<1>1. 0 \in G
  <2> DEFINE z == [i \in 0..0 |-> <<>>]
  <2>1. \A i \in 0..0 : i = 0
    OBVIOUS
  <2>2. IsD(0, z)
    BY <2>1
  <2> HIDE DEF IsD, z
  <2> QED BY <2>2
<1>2. ASSUME NEW m \in 1..n, m - 1 \in G PROVE m \in G
  <2>1. PICK p : IsD(m - 1, p)
    BY <1>2
  <2> DEFINE q == [i \in 0..m |-> IF i = m THEN At(p, m) ELSE p[i]]
  <2>2. ASSUME NEW i \in 0..m PROVE q[i] = At(q, i)
    <3>1. i = 0 \/ (i - 1 \in 0..m /\ i - 1 # m /\ i - 1 \in 0..(m - 1))
      OBVIOUS
    <3>2. i # 0 => q[i - 1] = p[i - 1]
      BY <3>1
    <3>3. At(q, i) = At(p, i)
      BY <3>2
    <3>4. CASE i = m
      BY <3>3, <3>4
    <3>5. CASE i # m
      <4>1. i \in 0..(m - 1) /\ q[i] = p[i]
        BY <3>5
      <4>2. p[i] = At(p, i)
        <5> HIDE DEF At
        <5> QED BY <2>1, <4>1
      <4> QED BY <4>1, <4>2, <3>3
    <3> QED BY <3>4, <3>5
  <2>3. IsD(m, q)
    <3> HIDE DEF At
    <3>1. q = [i \in 0..m |-> q[i]]
      OBVIOUS
    <3> QED BY <2>2, <3>1
  <2> HIDE DEF IsD, q
  <2> QED BY <2>3
<1>3. n \in G
  <2> HIDE DEF G
  <2>1. 0..n \subseteq G
    BY <1>1, <1>2, RangeInduction
  <2> QED BY <2>1
<1>4. \E d : IsD(n, d)
  <2> HIDE DEF IsD
  <2> QED BY <1>3
<1>5. DEFINE e == CHOOSE d : IsD(n, d)
<1>6. IsD(n, e)
  <2> HIDE DEF IsD
  <2> QED BY <1>4
<1>7. Retrieved(a) = e[n]
  BY DEF Retrieved
<1> QED BY <1>6, <1>7

(* Every result is among what was retrieved, as itself or as its source.    *)
LEMMA RetrievedCovers ==
  ASSUME NEW a, a.results \in Seq(DOMAIN SourceOf), NEW j \in DOMAIN a.results
  PROVE  \E y \in Range(Retrieved(a)) : SameDocument(a.results[j], y)
<1> DEFINE n == Len(a.results)
           S == DOMAIN SourceOf \cup {SourceOf[x] : x \in DOMAIN SourceOf}
           Has(s, x) == \E k \in DOMAIN s : SameDocument(x, s[k])
           Fine(i, s) == s \in Seq(S) /\ \A l \in 1..i : Has(s, a.results[l])
<1>1. n \in Nat /\ DOMAIN a.results = 1..n /\ \A l \in 1..n : a.results[l] \in DOMAIN SourceOf
  OBVIOUS
<1>2. PICK d : /\ d = [i \in 0..n |-> IF i = 0 THEN <<>> ELSE RetrieveOne(d[i - 1], a.results[i])]
               /\ Retrieved(a) = d[n]
  BY <1>1, RetrievedSteps
<1>3. d[0] = <<>> /\ \A i \in 1..n : d[i] = RetrieveOne(d[i - 1], a.results[i])
  <2> HIDE DEF n
  <2> QED BY <1>1, <1>2
<1> DEFINE G == {i \in 0..n : Fine(i, d[i])}
<1>4. 0 \in G
  <2> HIDE DEF n, S, Has
  <2>1. <<>> \in Seq(S) /\ \A l \in 1..0 : FALSE
    OBVIOUS
  <2>2. Fine(0, <<>>)
    BY <2>1
  <2> HIDE DEF Fine
  <2> QED BY <1>1, <1>3, <2>2
<1>5. ASSUME NEW i \in 1..n, i - 1 \in G PROVE i \in G
  <2> DEFINE s == d[i - 1]
             x == a.results[i]
  <2>1. s \in Seq(S) /\ \A l \in 1..(i - 1) : Has(s, a.results[l])
    <3> HIDE DEF Has, S, n
    <3> QED BY <1>5
  <2>2. x \in DOMAIN SourceOf /\ x \in S /\ SourceOf[x] \in S
    <3>1. x \in DOMAIN SourceOf
      BY <1>1
    <3> HIDE DEF x
    <3> QED BY <3>1
  <2>3. d[i] = RetrieveOne(s, x)
    BY <1>3
  <2>4. Unseen(s, x) \/ Has(s, x)
    BY DEF Unseen
  <2>5. ASSUME NEW y \in S
        PROVE  /\ Append(s, y) \in Seq(S) /\ Has(Append(s, y), y)
               /\ \A z : Has(s, z) => Has(Append(s, y), z)
    <3> HIDE DEF S, s
    <3>1. /\ Append(s, y) \in Seq(S) /\ Len(s) \in Nat /\ DOMAIN s = 1..Len(s)
          /\ DOMAIN Append(s, y) = 1..(Len(s) + 1)
          /\ Append(s, y)[Len(s) + 1] = y /\ \A k \in 1..Len(s) : Append(s, y)[k] = s[k]
      BY <2>1
    <3> DEFINE t == Append(s, y)
               m == Len(s)
    <3>2. m \in Nat /\ DOMAIN s = 1..m /\ DOMAIN t = 1..(m + 1) /\ t[m + 1] = y /\ \A k \in 1..m : t[k] = s[k]
      BY <3>1
    <3> HIDE DEF t, m
    <3>3. m + 1 \in DOMAIN t /\ \A k \in DOMAIN s : k \in DOMAIN t /\ t[k] = s[k]
      BY <3>2
    <3>4. Has(t, y) /\ \A z : Has(s, z) => Has(t, z)
      <4>1. SameDocument(y, y)
        BY DEF SameDocument
      <4> QED BY <4>1, <3>2, <3>3
    <3> HIDE DEF Has
    <3> QED BY <3>1, <3>4 DEF t
  <2>6. ASSUME NEW t \in Seq(S), Has(t, x), \A z : Has(s, z) => Has(t, z), d[i] = t PROVE Fine(i, d[i])
    <3>1. \A l \in 1..i : l = i \/ l \in 1..(i - 1)
      OBVIOUS
    <3> HIDE DEF Has, S, s
    <3>2. \A l \in 1..(i - 1) : Has(t, a.results[l])
      BY <2>1, <2>6
    <3> QED BY <3>1, <3>2, <2>6
  <2>7. Fine(i, d[i])
    <3> HIDE DEF Has, Fine, S, s, x
    <3>1. CASE Unseen(s, x)
      BY <3>1, <2>2, <2>3, <2>5, <2>6 DEF RetrieveOne
    <3>2. CASE ~Unseen(s, x) /\ Unseen(s, SourceOf[x])
      BY <3>2, <2>2, <2>3, <2>4, <2>5, <2>6 DEF RetrieveOne
    <3>3. CASE ~Unseen(s, x) /\ ~Unseen(s, SourceOf[x])
      BY <3>3, <2>1, <2>3, <2>4, <2>6 DEF RetrieveOne
    <3> QED BY <3>1, <3>2, <3>3
  <2> HIDE DEF Fine, n
  <2>8. i \in 0..n
    BY <1>1
  <2> QED BY <2>7, <2>8
<1>6. n \in G
  <2> HIDE DEF G
  <2>1. 0..n \subseteq G
    BY <1>1, <1>4, <1>5, RangeInduction
  <2> QED BY <2>1, <1>1
<1>7. Fine(n, Retrieved(a))
  <2> HIDE DEF Fine
  <2> QED BY <1>2, <1>6
<1>8. Has(Retrieved(a), a.results[j])
  <2> HIDE DEF Has, S
  <2> QED BY <1>1, <1>7
<1> QED BY <1>8 DEF Range

Hit == "known_positive_hit_at_k"

LEMMA FlagOfNone == Flag(FALSE) = {0}
<1>1. Scale \in Nat
  BY ScoringAssumption
<1>2. 0 * Scale = 0
  BY <1>1
<1>3. 0 \div 1 = 0
  OBVIOUS
<1>4. Flag(FALSE) = Ratio(0, 1)
  BY DEF Flag
<1>5. Ratio(0, 1) = {(0 * Scale) \div 1}
  BY DEF Ratio
<1>6. {(0 * Scale) \div 1} = {0}
  BY <1>2, <1>3
<1> QED BY <1>4, <1>5, <1>6

LEMMA ElementOf == ASSUME NEW S, NEW s \in Seq(S), NEW i \in DOMAIN s PROVE s[i] \in S
OBVIOUS

(* A regression whose cause is a miss: no hit of the metrics is on file, so  *)
(* the metric of hits is zero where all the hits would be.                  *)
LEMMA MissHasNoHit ==
  ASSUME NEW t, NEW b, NEW q, ~Unfiled(q, answers[q][t][1]), Diagnose(t, b, q) = "retrieval miss",
         answers[q][t][1].results \in Seq(DOMAIN SourceOf)
  PROVE  Score(Questions[q], answers[q][t][1], Hit) = {0}
<1> DEFINE a == answers[q][t][1]
           qn == Questions[q]
           expected == Expected(qn)
           found == {x \in Range(Retrieved(a)) : \E e \in expected : SameDocument(x, e)}
<1>1. expected # {} /\ found = {}
  <2>1. FromMetrics(t, b, q) # "retrieval miss"
    BY DEF FromMetrics
  <2> QED BY <2>1 DEF Diagnose
<1>2. qn.positives # {}
  BY <1>1 DEF Expected
<1>3. ASSUME NEW i \in Hits(qn, a) PROVE FALSE
  <2>1. i \in DOMAIN a.results /\ SourceOf[a.results[i]] \in qn.positives
    BY DEF Hits, Ranks, Source
  <2> DEFINE x == a.results[i]
             e == SourceOf[x]
  <2>2. x \in DOMAIN SourceOf
    BY <2>1, ElementOf
  <2>3. e \in expected
    BY <2>1 DEF Expected
  <2>4. PICK y \in Range(Retrieved(a)) : SameDocument(x, y)
    <3> HIDE DEF a
    <3>1. a.results \in Seq(DOMAIN SourceOf)
      BY DEF a
    <3> QED BY <2>1, <3>1, RetrievedCovers
  <2>5. x \in Receipted
    <3>1. x \in Range(a.results)
      BY <2>1 DEF Range
    <3>2. ~Unfiled(q, a)
      OBVIOUS
    <3> HIDE DEF a, x
    <3> QED BY <2>1, <3>1, <3>2 DEF Unfiled, x
  <2>6. SameDocument(y, e)
    <3> HIDE DEF x
    <3> QED BY <2>2, <2>4, <2>5, OneDocument
  <2> HIDE DEF expected
  <2> QED BY <1>1, <2>3, <2>4, <2>6
<1>4. Score(qn, a, Hit) = Flag(FALSE)
  <2>1. Hits(qn, a) = {}
    BY <1>3
  <2> HIDE DEF a, qn
  <2> QED BY <1>2, <2>1 DEF Score, RetrievalScore, RetrievalMetrics, Hit
<1>5. Flag(FALSE) = {0}
  BY FlagOfNone
<1> QED BY <1>4, <1>5

LEMMA RowOfHit ==
  ASSUME AnalysisInv, phase # "score", NEW t \in {"P1", "P2"}, t \in Arms,
         NEW q \in DOMAIN Medians(rows, t, "fact_f1")
  PROVE  LET r == <<t, q, Hit>>
             a == answers[q][t]
         IN /\ r \in DOMAIN rows /\ a \in Seq(AnswerType(DOMAIN SourceOf)) /\ 1 \in DOMAIN a
            /\ DOMAIN rows[r] = DOMAIN a /\ rows[r][1] = Score(Questions[q], a[1], Hit)
            /\ a[1].results \in Seq(DOMAIN SourceOf)
<1> DEFINE r == <<t, q, Hit>>
           f == <<t, q, "fact_f1">>
           a == answers[q][t]
<1>1. rows = Rows(answers) /\ answers \in [Asked -> Cases]
  BY DEF AnalysisInv
<1>2. q \in Asked /\ f \in DOMAIN rows /\ DOMAIN rows[f] # {}
  BY DEF Medians, Scored
<1>3. \A m \in AnswerMetrics \cup RetrievalMetrics :
        m \in Metrics(t) =>
          /\ <<t, q, m>> \in DOMAIN Rows(answers)
          /\ Rows(answers)[<<t, q, m>>] = [i \in DOMAIN a |-> Score(Questions[q], a[i], m)]
  BY <1>2 DEF Rows
<1>4. "fact_f1" \in AnswerMetrics /\ Hit \in RetrievalMetrics /\ Metrics(t) = AnswerMetrics \cup RetrievalMetrics
  BY DEF AnswerMetrics, RetrievalMetrics, Metrics, Hit
<1>5. /\ r \in DOMAIN rows /\ rows[r] = [i \in DOMAIN a |-> Score(Questions[q], a[i], Hit)]
      /\ rows[f] = [i \in DOMAIN a |-> Score(Questions[q], a[i], "fact_f1")]
  BY <1>1, <1>3, <1>4
<1>6. a \in Seq(AnswerType(DOMAIN SourceOf))
  <2>1. answers[q] \in [Arms -> Seq(AnswerType(DOMAIN SourceOf))]
    BY <1>1, <1>2, AnalysisAssumption
  <2> QED BY <2>1
<1>7. DOMAIN a # {}
  BY <1>2, <1>5
<1> HIDE DEF a
<1>8. 1 \in DOMAIN a
  <2>1. Len(a) \in Nat /\ DOMAIN a = 1..Len(a)
    BY <1>6, SeqFacts
  <2> QED BY <1>7, <2>1
<1>9. a[1] \in AnswerType(DOMAIN SourceOf)
  BY <1>6, <1>8
<1>10. a[1].results \in Seq(DOMAIN SourceOf)
  BY <1>9 DEF AnswerType
<1> HIDE DEF r
<1>11. DOMAIN rows[r] = DOMAIN a /\ rows[r][1] = Score(Questions[q], a[1], Hit)
  BY <1>5, <1>8
<1> QED BY <1>5, <1>6, <1>8, <1>10, <1>11 DEF r, a

(* The candidate for the misses of an arm is of all of them.                *)
LEMMA CandidateOfMisses ==
  ASSUME NEW trace, NEW k \in Candidates(trace), k.trigger = "retrieval_miss"
  PROVE  k \in Often("retrieval_miss", k.of, RowsWith({k.of}, Hit, {0}))
<1>1. ASSUME NEW trigger, NEW of, NEW found, k \in Often(trigger, of, found)
      PROVE  k.trigger = trigger /\ k.of = of
  BY <1>1 DEF Often, Candidate
<1>2. ASSUME NEW trigger, NEW of, NEW n, NEW qs, k = Candidate(trigger, of, n, qs) PROVE k.trigger = trigger
  BY <1>2 DEF Candidate
<1>3. PICK a \in Arms : k \in Often("retrieval_miss", a, RowsWith({a}, "known_positive_hit_at_k", {0}))
  <2> DEFINE kinds == {trace.errors[i].kind : i \in DOMAIN trace.errors}
             Errors(x) == {<<"", i>> : i \in {i \in DOMAIN trace.errors : trace.errors[i].kind = x}}
             exposed == <<"P1", "P0", "negative_exposure_at_k", "">>
             lost == {<<"", i>> : i \in {i \in DOMAIN trace.receipts :
                                           trace.receipts[i] \notin {"accepted", "indexed", "verified"}}}
             raised == exposed \in DOMAIN comparisons
                         /\ SumOver(comparisons[exposed].pairing, DOMAIN comparisons[exposed].pairing.samples) > 0
             bare == RowsWith(Arms, "unsupported_claim_rate", (Scale \div 2 + 1)..Scale)
  <2>1. \/ \E x \in kinds : k \in Often("repeated_error", x, Errors(x))
        \/ \E a \in Arms : k \in Often("retrieval_miss", a, RowsWith({a}, "known_positive_hit_at_k", {0}))
        \/ k \in Often("unsupported_claim", "", bare)
        \/ raised /\ k = Candidate("negative_exposure", "", comparisons[exposed].is.n, {})
        \/ k \in Often("repeated_error", "ingestion", lost)
        \/ \E d \in trace.duplicates : k = Candidate("duplication", "", d, {})
    <3> DEFINE errors == UNION {Often("repeated_error", x, Errors(x)) : x \in kinds}
               misses == UNION {Often("retrieval_miss", a, RowsWith({a}, "known_positive_hit_at_k", {0})) : a \in Arms}
               seen   == IF raised THEN {Candidate("negative_exposure", "", comparisons[exposed].is.n, {})} ELSE {}
               copies == {Candidate("duplication", "", d, {}) : d \in {d \in trace.duplicates : d > 25}}
    <3>1. k \in errors \cup misses \cup Often("unsupported_claim", "", bare) \cup seen
               \cup Often("repeated_error", "ingestion", lost) \cup copies
      BY DEF Candidates
    <3> HIDE DEF kinds, Errors, exposed, lost, raised, bare
    <3>2. k \in errors => \E x \in kinds : k \in Often("repeated_error", x, Errors(x))
      OBVIOUS
    <3>3. k \in misses => \E a \in Arms : k \in Often("retrieval_miss", a, RowsWith({a}, "known_positive_hit_at_k", {0}))
      OBVIOUS
    <3>4. k \in seen => raised /\ k = Candidate("negative_exposure", "", comparisons[exposed].is.n, {})
      OBVIOUS
    <3>5. k \in copies => \E d \in trace.duplicates : k = Candidate("duplication", "", d, {})
      OBVIOUS
    <3> HIDE DEF errors, misses, seen, copies
    <3> QED BY <3>1, <3>2, <3>3, <3>4, <3>5
  <2> HIDE DEF kinds, Errors, exposed, lost, raised, bare
  <2> QED BY <2>1, <1>1, <1>2
<1> QED BY <1>1, <1>3 DEF Hit

LEMMA MissInCandidate ==
  ASSUME NEW r \in DOMAIN rows, r[3] = Hit, 1 \in DOMAIN rows[r], rows[r][1] = {0},
         NEW k \in Often("retrieval_miss", r[1], RowsWith({r[1]}, Hit, {0}))
  PROVE  r[2] \in k.questions
<1> DEFINE found == RowsWith({r[1]}, Hit, {0})
           x == <<r[1], r[2], 1>>
<1>1. r \in RowsOf(rows, {r[1]}, Hit)
  BY DEF RowsOf
<1>2. x \in {<<r[1], r[2], i>> : i \in {i \in DOMAIN rows[r] : rows[r][i] \cap {0} # {}}}
  <2>1. rows[r][1] \cap {0} # {}
    OBVIOUS
  <2> QED BY <2>1
<1>3. x \in found
  BY <1>1, <1>2 DEF RowsWith
<1>4. k.questions = {y[2] : y \in found}
  <2> HIDE DEF found
  <2>1. k = Candidate("retrieval_miss", r[1], Cardinality(found), {y[2] : y \in found})
    BY DEF Often, found
  <2> QED BY <2>1 DEF Candidate
<1>5. x[2] = r[2]
  OBVIOUS
<1> HIDE DEF found, x
<1> QED BY <1>3, <1>4, <1>5

LEMMA RegressionOf ==
  ASSUME NEW c \in DOMAIN Regressions, NEW x \in Regressions[c]
  PROVE  /\ c[1] \in {"P1", "P2"} /\ c[1] \in Arms
         /\ x.question \in DOMAIN Medians(rows, c[1], "fact_f1")
         /\ x.cause = Diagnose(c[1], c[2], x.question)
<1> DEFINE p == Contest(c[1], c[2])
           worse == {q \in Worsened(p) : Place(p, q) <= Listing /\ Place(p, q) <= Diagnosed}
<1>1. c \in Contests /\ {c[1], c[2]} \subseteq Arms
  BY DEF Regressions
<1>2. Regressions[c] = {[question |-> q, place |-> Place(p, q), cause |-> Diagnose(c[1], c[2], q)] : q \in worse}
  BY DEF Regressions
<1>3. \A q \in worse : q \in DOMAIN Medians(rows, c[1], "fact_f1")
  <2>1. \A q \in worse : q \in DOMAIN p.samples
    BY DEF Worsened
  <2>2. DOMAIN p.samples = Asked \cap DOMAIN Medians(rows, c[2], "fact_f1") \cap DOMAIN Medians(rows, c[1], "fact_f1")
    BY DEF Contest, Pair
  <2> HIDE DEF worse, p
  <2> QED BY <2>1, <2>2
<1> HIDE DEF worse, p
<1>4. PICK q \in worse : x = [question |-> q, place |-> Place(p, q), cause |-> Diagnose(c[1], c[2], q)]
  BY <1>2
<1>5. x.question = q /\ x.cause = Diagnose(c[1], c[2], q)
  BY <1>4
<1>6. c[1] \in {"P1", "P2"}
  BY <1>1 DEF Contests
<1> QED BY <1>1, <1>3, <1>5, <1>6

ReportInv == reports # {} => phase = "done" /\ MissIsMissed

LEMMA ReportStep == AnalysisInv /\ Report => ReportInv'
<1> SUFFICES ASSUME AnalysisInv, Report PROVE MissIsMissed' /\ phase' = "done"
  BY DEF ReportInv
<1>1. phase = "done" /\ phase' = "done" /\ rows' = rows /\ answers' = answers
  BY DEF Report, analysisVars
<1>2. PICK trace \in Traces :
        reports' = {[regressions |-> Regressions, candidates |-> Candidates(trace), proof |-> Summary,
                     errors |-> ErrorsReport(trace.errors), vector |-> Vector(trace)]}
  BY DEF Report
<1> DEFINE r == [regressions |-> Regressions, candidates |-> Candidates(trace), proof |-> Summary,
                 errors |-> ErrorsReport(trace.errors), vector |-> Vector(trace)]
<1>3. r.regressions = Regressions /\ r.candidates = Candidates(trace)
  OBVIOUS
<1>4. reports' = {r}
  BY <1>2
<1> HIDE DEF r
<1>5. ASSUME NEW c \in DOMAIN Regressions, NEW x \in Regressions[c], x.cause = "retrieval miss",
             ~Unfiled(x.question, answers[x.question][c[1]][1])
      PROVE  /\ rows[<<c[1], x.question, Hit>>][1] = {0}
             /\ \A k \in Candidates(trace) : k.trigger = "retrieval_miss" /\ k.of = c[1] => x.question \in k.questions
  <2> DEFINE q == x.question
             t == c[1]
             row == <<t, q, Hit>>
  <2>1. /\ t \in {"P1", "P2"} /\ t \in Arms /\ q \in DOMAIN Medians(rows, t, "fact_f1")
        /\ Diagnose(t, c[2], q) = "retrieval miss" /\ ~Unfiled(q, answers[q][t][1])
    BY <1>5, RegressionOf
  <2> HIDE DEF q, t
  <2>2. /\ row \in DOMAIN rows /\ 1 \in DOMAIN answers[q][t] /\ DOMAIN rows[row] = DOMAIN answers[q][t]
        /\ rows[row][1] = Score(Questions[q], answers[q][t][1], Hit)
        /\ answers[q][t][1].results \in Seq(DOMAIN SourceOf)
    BY <1>1, <2>1, RowOfHit
  <2>3. rows[row][1] = {0}
    BY <2>1, <2>2, MissHasNoHit
  <2>4. row[1] = t /\ row[2] = q /\ row[3] = Hit
    OBVIOUS
  <2> HIDE DEF row
  <2>5. ASSUME NEW k \in Candidates(trace), k.trigger = "retrieval_miss", k.of = t PROVE q \in k.questions
    <3>1. k \in Often("retrieval_miss", t, RowsWith({t}, Hit, {0}))
      BY <2>5, CandidateOfMisses
    <3> QED BY <2>2, <2>3, <2>4, <3>1, MissInCandidate
  <2> QED BY <2>3, <2>5 DEF q, t, row
<1>6. MissIsMissed'
  <2> SUFFICES ASSUME NEW rr \in reports', NEW c \in DOMAIN rr.regressions, NEW x \in rr.regressions[c],
                      x.cause = "retrieval miss", ~Unfiled(x.question, answers'[x.question][c[1]][1])
               PROVE  /\ rows'[<<c[1], x.question, "known_positive_hit_at_k">>][1] = {0}
                      /\ \A k \in rr.candidates :
                           k.trigger = "retrieval_miss" /\ k.of = c[1] => x.question \in k.questions
    BY DEF MissIsMissed, Missed, Unfiled
  <2>1. rr = r /\ c \in DOMAIN Regressions /\ x \in Regressions[c]
    BY <1>3, <1>4
  <2> QED BY <1>1, <1>3, <1>5, <2>1 DEF Hit
<1> QED BY <1>1, <1>6

LEMMA ReportInvariance == RSpec => []ReportInv
<1>1. RInit => ReportInv
  BY DEF RInit, ReportInv
<1>2. AnalysisInv /\ ReportInv /\ [RNext]_<<analysisVars, reportVars>> => ReportInv'
  <2> SUFFICES ASSUME AnalysisInv, ReportInv, [RNext]_<<analysisVars, reportVars>> PROVE ReportInv'
    OBVIOUS
  <2>1. CASE Prove
    BY <2>1 DEF Prove, ReportInv
  <2>2. CASE Evaluate
    <3>1. phase # "done" /\ reports' = reports
      BY <2>2 DEF Evaluate, reportVars, ANext, ScoreAll, Aggregate, Compare, EvaluateGates, Decide
    <3> QED BY <3>1 DEF ReportInv
  <2>3. CASE Report
    BY <2>3, ReportStep
  <2>4. CASE UNCHANGED <<analysisVars, reportVars>>
    BY <2>4 DEF ReportInv, MissIsMissed, Missed, Unfiled, analysisVars, reportVars
  <2> QED BY <2>1, <2>2, <2>3, <2>4 DEF RNext
<1> QED BY <1>1, <1>2, AnalysisInvariance, PTL DEF RSpec

-----------------------------------------------------------------------------
(* _subgroups and classify: whatever the aggregate did, a comparison that   *)
(* hurt a protected subgroup by the practical threshold does not read as a  *)
(* gain or as no change.                                                    *)
THEOREM AnalysisNothingHidden == RSpec => []NothingHidden
BY AnalysisInvariance, HiddenNothing, PTL

(* benjamini_hochberg: the comparisons that survive are those the rate of   *)
(* false discoveries allows, whatever the order of those that are equal.    *)
THEOREM AnalysisSurvivorsKeepTheRate == RSpec => []SurvivorsKeepTheRate
BY AnalysisInvariance, RateKept, PTL

(* _decide_non_inferiority: an arm passes for rivalling the specialist only *)
(* if every gate held what was observed and it was measured, within the     *)
(* margin, on all questions and on the holdout.                             *)
THEOREM AnalysisRivalsIsMeasured == RSpec => []RivalsIsMeasured
BY AnalysisInvariance, RivalsMeasured, PTL

(* write_regressions and build_candidates: an answer the report blames on   *)
(* the searches has no hit in the metrics and is in the candidate, or it did *)
(* return a known positive, by an artifact that is on no file.              *)
THEOREM ReportsMissIsMissed == RSpec => []MissIsMissed
<1>1. ReportInv => MissIsMissed
  BY DEF ReportInv, MissIsMissed
<1>2. RSpec => []ReportInv
  BY ReportInvariance
<1> QED BY <1>1, <1>2, PTL
=============================================================================
