----------------------------- MODULE CostLedger -----------------------------
(***************************************************************************)
(* budget.py: the one budget authority of a run, shared by the concurrent  *)
(* collection branches of a process, and cli.py's _restore_spend, which    *)
(* rebuilds it from raw/events.jsonl in the next process.                  *)
(*                                                                         *)
(* Amounts are whole units of money.  The buckets are not modelled: the    *)
(* guard adds them up, and a call reserves, releases and commits in one.   *)
(* Each lock acquisition of the code is one action, so that between        *)
(* release() and commit() another branch may reserve.                      *)
(***************************************************************************)
EXTENDS Sums

CONSTANTS
  Branches,     \* number of concurrent branches of a process
  Budget,       \* total_budget_usd
  MaxCall,      \* the largest amount one call reserves
  Overrun,      \* the most a provider's reported usage exceeds the estimate by
  Fees,         \* per-request prices of the search providers in use
  MayRaise,     \* TRUE when a model call may fail after it was sent
  MayCrash,     \* TRUE when the process may die between two steps
  MaxRestarts   \* bound: processes after the first

ASSUME LedgerAssumption ==
  /\ Branches \in Nat \ {0}
  /\ Budget \in Nat /\ MaxCall \in Nat /\ Overrun \in Nat /\ MaxRestarts \in Nat
  /\ Fees \in SUBSET (1..MaxCall)
  /\ MayRaise \in BOOLEAN /\ MayCrash \in BOOLEAN

Branch == 1..Branches
Quiet  == [b \in Branch |-> 0]

VARIABLES
  pc,         \* where each branch is in spend() or record_external()
  hold,       \* the reservation a branch has not released
  due,        \* the actual cost it has released but not committed
  owed,       \* the committed cost whose cost.model_call event is not written
  committed,  \* _committed, summed over the buckets
  reserved,   \* _reserved, summed over the buckets
  traced,     \* sum of the cost.model_call events of raw/events.jsonl
  spent,      \* history: what the providers have charged
  forgotten,  \* history: charges that a restart left out of the new ledger
  restarts

vars == <<pc, hold, due, owed, committed, reserved, traced,
          spent, forgotten, restarts>>

Init ==
  /\ pc = [b \in Branch |-> "idle"]
  /\ hold = Quiet /\ due = Quiet /\ owed = Quiet
  /\ committed = 0 /\ reserved = 0 /\ traced = 0
  /\ spent = 0 /\ forgotten = 0 /\ restarts = 0

(* Mutant of Fits: the guard compares the balance before the call. *)
MutantFits(amount) == committed + reserved <= Budget

(* reserve(): the guard, under the lock. *)
Fits(amount) == committed + reserved + amount <= Budget

Reserve(b, amount, call) ==
  /\ pc[b] = "idle"
  /\ Fits(amount)
  /\ reserved' = reserved + amount
  /\ hold' = [hold EXCEPT ![b] = amount]
  /\ pc' = [pc EXCEPT ![b] = call]
  /\ UNCHANGED <<due, owed, committed, traced, spent, forgotten, restarts>>

(* reserve() raises BudgetExceeded: nothing was reserved and nothing runs. *)
Refuse(b, amount) ==
  /\ pc[b] = "idle"
  /\ ~Fits(amount)
  /\ UNCHANGED vars

(* release(): max(0, reserved - amount). *)
Released(amount) == IF reserved >= amount THEN reserved - amount ELSE 0

Release(b, actual, next) ==
  /\ reserved' = Released(hold[b])
  /\ hold' = [hold EXCEPT ![b] = 0]
  /\ due' = [due EXCEPT ![b] = actual]
  /\ spent' = spent + actual
  /\ pc' = [pc EXCEPT ![b] = next]
  /\ UNCHANGED <<owed, committed, traced, forgotten, restarts>>

(* The call returned: it costs what the provider reports. *)
Return(b) ==
  /\ pc[b] = "calling"
  /\ \E actual \in 0..(hold[b] + Overrun) : Release(b, actual, "settling")

(* The call raised: the estimated input is billed, and the exception skips
   the caller's cost event. *)
Raise(b) ==
  /\ MayRaise
  /\ pc[b] = "calling"
  /\ \E actual \in 0..hold[b] : Release(b, actual, "untraced")

(* record_external() releases and commits the fee at once; it has no event. *)
PayFee(b) ==
  /\ pc[b] = "paying"
  /\ Release(b, hold[b], "untraced")

(* Mutant of Charged: a call that raised commits nothing. *)
MutantCharged(b) == IF pc[b] = "settling" THEN committed + due[b] ELSE committed

Charged(b) == committed + due[b]

(* commit(): only a model call that returned goes on to emit its event. *)
Commit(b) ==
  /\ pc[b] \in {"settling", "untraced"}
  /\ committed' = Charged(b)
  /\ due' = [due EXCEPT ![b] = 0]
  /\ IF pc[b] = "settling"
     THEN /\ pc' = [pc EXCEPT ![b] = "tracing"]
          /\ owed' = [owed EXCEPT ![b] = due[b]]
     ELSE /\ pc' = [pc EXCEPT ![b] = "idle"]
          /\ UNCHANGED owed
  /\ UNCHANGED <<hold, reserved, traced, spent, forgotten, restarts>>

(* tracer.emit("cost.model_call") after the with-block. *)
EmitCost(b) ==
  /\ pc[b] = "tracing"
  /\ traced' = traced + owed[b]
  /\ owed' = [owed EXCEPT ![b] = 0]
  /\ pc' = [pc EXCEPT ![b] = "idle"]
  /\ UNCHANGED <<hold, due, committed, reserved, spent, forgotten, restarts>>

(* Mutant of Restored: a resumed run starts its budget at zero. *)
MutantRestored == 0

(* _restore_spend(): the cost.model_call events of raw/events.jsonl. *)
Restored == traced

(* A new process: _restore_spend commits the cost.model_call events and
   nothing else.  "late" is what providers charged for calls in flight. *)
RestoreSpend(late) ==
  /\ restarts < MaxRestarts
  /\ restarts' = restarts + 1
  /\ committed' = Restored
  /\ reserved' = 0
  /\ pc' = [b \in Branch |-> "idle"]
  /\ hold' = Quiet /\ due' = Quiet /\ owed' = Quiet
  /\ spent' = spent + late
  /\ forgotten' = forgotten + late + committed + Sum(due, Branches) - Restored
  /\ UNCHANGED traced

(* The stage ended and the next stage is another process. *)
NextStage ==
  /\ \A b \in Branch : pc[b] = "idle"
  /\ RestoreSpend(0)

(* The process died, and the run is resumed. *)
Crash ==
  /\ MayCrash
  /\ \E late \in 0..reserved : RestoreSpend(late)

ModelCall(b) == \E amount \in 1..MaxCall : Reserve(b, amount, "calling")
ExternalCall(b) == \E amount \in Fees : Reserve(b, amount, "paying")
Refused(b) == \E amount \in 1..MaxCall : Refuse(b, amount)

BranchStep(b) ==
  \/ ModelCall(b) \/ ExternalCall(b) \/ Refused(b)
  \/ Return(b) \/ Raise(b) \/ PayFee(b)
  \/ Commit(b) \/ EmitCost(b)

Next ==
  \/ \E b \in Branch : BranchStep(b)
  \/ NextStage
  \/ Crash

Spec == Init /\ [][Next]_vars

-----------------------------------------------------------------------------
(* The places of a branch. *)
PC == {"idle", "calling", "paying", "settling", "untraced", "tracing"}

(* Every variable has its type. *)
TypeOK ==
  /\ pc \in [Branch -> PC]
  /\ hold \in [Branch -> 0..MaxCall]
  /\ due \in [Branch -> 0..(MaxCall + Overrun)]
  /\ owed \in [Branch -> 0..(MaxCall + Overrun)]
  /\ committed \in Nat /\ reserved \in Nat /\ traced \in Nat
  /\ spent \in Nat /\ forgotten \in Int /\ restarts \in 0..MaxRestarts

(* The ledger's reserved total is exactly what the calls in flight reserved:
   no path out of a call leaks a reservation, releases it twice or is cut by
   release()'s max(0, .) (budget.py:248-250, 293-301). *)
ReservedIsInFlight == reserved = Sum(hold, Branches)

(* Where a branch is decides which of its amounts are pending. *)
Handover ==
  \A b \in Branch :
    /\ pc[b] \notin {"calling", "paying"} => hold[b] = 0
    /\ pc[b] \notin {"settling", "untraced"} => due[b] = 0
    /\ pc[b] # "tracing" => owed[b] = 0

(* What each branch can still add beyond its reservation. *)
Slack == [b \in Branch |-> IF pc[b] = "calling" THEN Overrun ELSE due[b]]

Overshoot == (Branches - 1) * (MaxCall + Overrun) + Overrun

(* The committed spend of a process, with everything in flight, exceeds the
   hard budget by at most one call per other branch (the window between
   release and commit, budget.py:300-301) and one provider overrun. *)
ExposureBounded == committed + reserved + Sum(Slack, Branches) <= Budget + Overshoot

(* Every unit the providers charged is committed, about to be committed, or
   was dropped by a restart: no interleaving of branches loses or doubles a
   charge inside a process (budget.py:252-254, 293-303). *)
SpendAccounted == spent = committed + Sum(due, Branches) + forgotten

(* The trace never bills more than the ledger has committed, so what a new
   process restores was really spent (cli.py:252-257, researcher.py:441-453). *)
TraceNeverAhead == traced + Sum(owed, Branches) <= committed

(* The claim of budget.py:6-7 and 107-109: a call that would take committed
   plus reserved over the hard budget is refused, also between branches that
   race, so what is committed stays within it. *)
HardBudget == committed <= Budget
=============================================================================
