---------------------------- MODULE MCCloudSpool ----------------------------
(* An instance of CloudSpool: the second signal is a large one. *)
EXTENDS CloudSpool

MCSize == [F \in SUBSET Frames |-> Cardinality(F) + IF 2 \in F THEN 1 ELSE 0]
=============================================================================
