----------------------------- MODULE DriverLock -----------------------------
(***************************************************************************)
(* What supervisor/lock promises (supervisor.py:25-26, 73): at any time at *)
(* most one supervisor is the driver of a run.  It stays the driver until  *)
(* it leaves, and a lock it left behind is cleared before the next driver. *)
(***************************************************************************)
CONSTANTS Procs, NoProc

VARIABLES driver, gone

Init == driver = NoProc /\ gone = {}

Take(p) ==
  /\ driver = NoProc
  /\ p \notin gone
  /\ driver' = p
  /\ UNCHANGED gone

GiveBack(p) ==
  /\ driver = p
  /\ driver' = NoProc
  /\ gone' = gone \cup {p}

Leave(p) ==
  /\ gone' = gone \cup {p}
  /\ UNCHANGED driver

Clear ==
  /\ driver \in gone
  /\ driver' = NoProc
  /\ UNCHANGED gone

Next ==
  \/ \E p \in Procs : Take(p) \/ GiveBack(p) \/ Leave(p)
  \/ Clear

Spec == Init /\ [][Next]_<<driver, gone>>
=============================================================================
