------------------------------ MODULE Ministry ------------------------------
(***************************************************************************)
(* The money of the Ministry of Commerce (amc_finance/services.py): its    *)
(* budget, escrow and expense accounts, and the budget that the term       *)
(* records.  Each operator is the journal of one operation; create_journal_*)
(* entry posts it in one transaction, and never rejects it (the theorem    *)
(* TransferNeverRejected of TreasuryProofs).  The journals with three lines *)
(* are balanced because what is not refunded is burned.                    *)
(***************************************************************************)
EXTENDS Integers

CONSTANT Allocation   \* the budget of a term

ASSUME AllocationAssumption == Allocation \in Nat

VARIABLES inOffice,    \* there is an active MinistryTerm
          budget,      \* account "Ministry of Commerce Budget"
          escrow,      \* account "Ministry of Commerce Escrow"
          expenses,    \* account "Ministry of Commerce Expenses"
          termBudget   \* MinistryTerm.current_budget

accounts == <<budget, escrow, expenses>>
ministry == <<inOffice, budget, escrow, expenses, termBudget>>

MinistryType ==
  /\ inOffice \in BOOLEAN
  /\ budget \in Int /\ escrow \in Int /\ expenses \in Int /\ termBudget \in Int

MinistryInit ==
  /\ inOffice = FALSE
  /\ budget = 0 /\ escrow = 0 /\ expenses = 0 /\ termBudget = 0

(* int(escrowed * 0.20) and int(escrowed * 0.50).                          *)
Rebate(n) == n \div 5
Refund(n) == n \div 2

TakeOffice ==
  /\ ~inOffice
  /\ inOffice' = TRUE
  /\ termBudget' = Allocation
  /\ UNCHANGED accounts

AllocateBudget ==
  /\ budget' = budget + Allocation
  /\ UNCHANGED <<inOffice, escrow, expenses, termBudget>>

MoveToEscrow(n) ==
  /\ budget' = budget - n
  /\ escrow' = escrow + n
  /\ UNCHANGED <<inOffice, expenses, termBudget>>

SpendEscrow(n) ==
  /\ escrow' = escrow - n
  /\ expenses' = expenses + n
  /\ UNCHANGED <<inOffice, budget, termBudget>>

ReceiveRebate(n) ==
  /\ budget' = budget + Rebate(n)
  /\ UNCHANGED <<inOffice, escrow, expenses, termBudget>>

RefundEscrow(n) ==
  /\ escrow' = escrow - n
  /\ budget' = budget + Refund(n)
  /\ expenses' = expenses + n - Refund(n)
  /\ UNCHANGED <<inOffice, termBudget>>

SpendSubsidy(n) ==
  /\ budget' = budget - n
  /\ expenses' = expenses + n
  /\ UNCHANGED <<inOffice, escrow, termBudget>>

(* term.current_budget = ministry_budget.balance, as read before the save. *)
RecordBudget(n) ==
  /\ termBudget' = n
  /\ UNCHANGED <<inOffice, accounts>>
=============================================================================
