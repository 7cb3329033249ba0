---------------------------- MODULE MCCollection ----------------------------
(* Small topics for TLC. *)
EXTENDS Collection

(* Two branches find the same work at different places; "paper" and
   "preprint" are listings of one work; "note" is refused. *)
SharedSources == {"paper", "preprint", "note", "survey"}
SharedAlike   == {{"paper", "preprint"}}
SharedValid   == {"paper", "preprint", "survey"}
SharedClaims  == {<<"paper", 1>>}
SharedHits    == [b \in 1..2 |-> IF b = 1 THEN <<"survey", "paper">>
                                          ELSE <<"note", "paper", "preprint">>]

(* A provider may leave any of them out. *)
SharedListings == [b \in 1..2 |->
  {SelectSeq(SharedHits[b], LAMBDA s : s \in told) : told \in SUBSET SharedSources}]
=============================================================================
