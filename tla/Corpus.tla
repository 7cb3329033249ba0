------------------------------- MODULE Corpus -------------------------------
(***************************************************************************)
(* What a collection promises to its reader, the writer of the report, of  *)
(* the two files it leaves: a corpus that only grows, one listing of each  *)
(* work in it, and the claims of a source complete before the source is    *)
(* listed.  Branches, rounds, deaths and resumptions do not exist here:    *)
(* Collection implements this module.                                      *)
(***************************************************************************)
CONSTANTS
  Sources,  \* the candidates there are
  Alike,    \* pairs of them that share an identifier or a title
  Valid,    \* those that may be listed
  Claims    \* <<source, n>>: claim n of that source

VARIABLES
  corpus,   \* the sources that are listed
  notes,    \* the claims that are
  closed    \* TRUE once the collection is completed

vars == <<corpus, notes, closed>>

Init == corpus = {} /\ notes = {} /\ closed = FALSE

(* A source is listed once, and no other listing of the work is there. *)
List(s) ==
  /\ ~closed /\ s \in Valid \ corpus
  /\ \A t \in corpus : {s, t} \notin Alike
  /\ corpus' = corpus \cup {s}
  /\ UNCHANGED <<notes, closed>>

(* A claim is listed once, before its source is. *)
Note(c) ==
  /\ ~closed /\ c \notin notes
  /\ c[1] \in Valid \ corpus
  /\ notes' = notes \cup {c}
  /\ UNCHANGED <<corpus, closed>>

Close ==
  /\ ~closed /\ closed' = TRUE
  /\ UNCHANGED <<corpus, notes>>

Next == (\E s \in Sources : List(s)) \/ (\E c \in Claims : Note(c)) \/ Close

Spec == Init /\ [][Next]_vars
=============================================================================
