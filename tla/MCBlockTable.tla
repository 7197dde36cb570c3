---------------------------- MODULE MCBlockTable ----------------------------
(* Instances of BlockTable for TLC: at which heights the rounds are, the   *)
(* ratifications first and then a checkpoint at every height.              *)
EXTENDS BlockTable

Heights == [r \in Rounds |-> IF r \in Ratifications THEN 0 ELSE r - Cardinality(Ratifications)]
=============================================================================
