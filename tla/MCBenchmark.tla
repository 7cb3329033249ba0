----------------------------- MODULE MCBenchmark -----------------------------
(* Values of the constants of Benchmark.                                    *)
EXTENDS Benchmark

(* Claims of two facets, of one, of none, one with too little in it, and    *)
(* one the researcher inferred.  The question of the second states a number *)
(* that is off by two to five in a hundred, 7 spelling 2000; that of the    *)
(* third its very number, in words that leave it two groups or one.  The    *)
(* first and the third name their sources.                                  *)
Claim(fs, source, terms, value) ==
  [facets |-> fs, source |-> source, terms |-> terms, value |-> value, mechanism |-> TRUE, eligible |-> TRUE]

MCShapes ==
  { Claim({1, 2}, 1, 1..6, -1), Claim({1}, 2, {3, 4} \cup (7..10), 1960), Claim({}, 2, 7..12, 2000),
    Claim({2}, 3, {1, 7}, -1), [Claim({2}, 3, 1..3, -1) EXCEPT !.eligible = FALSE] }

MCWithin == {<<13, 5>>}
MCNumber == [t \in 1..13 |-> IF t = 7 THEN 2000 ELSE -1]
MCFrame  == [kind \in Kinds |-> IF kind = "atomic_fact" THEN {10} ELSE IF kind = "mechanism" THEN {10, 11} ELSE {}]
MCIdentifiers == [s \in {1, 2, 3} |-> IF s = 1 THEN {13} ELSE {11}]

MCPublished == [s \in {1, 2, 3} |-> IF s = 3 THEN 0 ELSE 2022 - s]
MCCovers    == [s \in {1, 2, 3} |-> IF s = 3 THEN {1} ELSE {1, 2}]
MCDisputes  == <<[claims |-> <<1, 2>>, sources |-> {1, 2}, about |-> {1, 3}],
                 [claims |-> <<>>, sources |-> {1, 3}, about |-> {2}]>>
MCCompositions ==
  { << <<"atomic_fact", 2>>, <<"mechanism", 1>>, <<"source_id", 1>> >>,
    << <<"synthesis", 1>>, <<"temporal", 1>>, <<"abstention", 2>> >>,
    << <<"contradiction", 2>>, <<"riddle", 1>>, <<"abstention", 1>> >> }
(* One order of each length: the seed is fixed. *)
MCShuffles == [n \in 0..5 |-> {[i \in 1..n |-> IF n = 4 THEN 5 - i ELSE i]}]

MCFractions == [learned |-> 40, temporal_holdout |-> 20, anchor |-> 10, control |-> 20]
=============================================================================
