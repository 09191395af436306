----------------------------- MODULE MCTreasury -----------------------------
(* Treasury on a small instance: books that balance at the start, with one *)
(* account's worth of money in each place the operations draw on.          *)
EXTENDS Treasury, TLC

MCOpening ==
  [a \in Account |->
     CASE a = TreasuryFund          -> 3
       [] a = FundInBank            -> 1
       [] a = Reserves              -> 2
       [] a = TreasuryRevenue       -> 4
       [] a[1] = "Checking Account" -> 1
       [] a[1] = "Loan"             -> 1
       [] a = BankEquity            -> 1
       [] a = BankVault             -> 1
       [] OTHER                     -> 0]

(* The characters, and the coroutines, are interchangeable.                *)
Symmetry == Permutations(Character) \cup Permutations(Task)
=============================================================================
