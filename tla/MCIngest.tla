------------------------------ MODULE MCIngest ------------------------------
(* Small corpora for TLC. *)
EXTENDS Ingest

(* Two sources of one readable name, each found with two texts. *)
TwinKeys   == {"a1", "a2", "b1", "b2"}
TwinSource == [k \in TwinKeys |-> IF k \in {"a1", "a2"} THEN "a" ELSE "b"]
TwinName   == [k \in TwinKeys |-> "name"]
=============================================================================
