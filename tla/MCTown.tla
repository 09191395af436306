------------------------------- MODULE MCTown -------------------------------
(* Town on small instances: an auction with every kind of seller, an event *)
(* with two objectives whose shares do not divide evenly.                  *)
EXTENDS Town, TLC

CONSTANTS goods, extra

Weights  == (goods :> 2) @@ (extra :> 1)
Ceilings == (goods :> 1) @@ (extra :> 1)

(* A delivery under contract that is worth a level, and a bonus.           *)
Pays == {[base |-> 1, contract |-> 1, subsidy |-> 0],
         [base |-> 0, contract |-> 0, subsidy |-> 1]}
=============================================================================
