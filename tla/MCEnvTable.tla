----------------------------- MODULE MCEnvTable -----------------------------
(* Three names: the first two have the same hash in every table, the third *)
(* one falls on index 0, which is moved to 1.                              *)
EXTENDS EnvTable, TLC

MCHash == 1 :> 38 @@ 2 :> 3 @@ 3 :> 35
MCDefault == <<[key |-> 1, data |-> "a"], [key |-> 2, data |-> "a"]>>
=============================================================================
