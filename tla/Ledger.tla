------------------------------- MODULE Ledger -------------------------------
(***************************************************************************)
(* The double-entry ledger of src/src/amc_finance: the accounts, what a    *)
(* journal entry must satisfy to be accepted, and what posting it does to  *)
(* the stored balances.  No state: Treasury and Ministry keep the balances *)
(* and post to them with these operators.                                  *)
(*                                                                         *)
(* An account is <<name, owner>>; the internal accounts of the bank and of *)
(* the government (character = NULL) belong to Internal.                   *)
(***************************************************************************)
EXTENDS Integers

CONSTANTS Character,   \* the characters that hold bank accounts
          Internal     \* the owner of the accounts without a character

ASSUME InternalAssumption == Internal \notin Character

Holder == Character \cup {Internal}

BankInternal == {"Bank Vault", "Bank Revenue", "Bank Expense", "Bank Equity"}

GovernmentInternal ==
  {"Treasury Fund", "Treasury Fund (in Bank)", "Sovereign Reserves",
   "Treasury Revenue", "Treasury Expenses", "Confiscation Revenue",
   "Rent Revenue", "Tax Revenue", "Ministry of Commerce Budget",
   "Ministry of Commerce Escrow", "Ministry of Commerce Expenses"}

Account == ({"Checking Account", "Loan"} \X Character)
             \cup ((BankInternal \cup GovernmentInternal) \X {Internal})

Checking(c)      == <<"Checking Account", c>>
Loan(c)          == <<"Loan", c>>
BankVault        == <<"Bank Vault", Internal>>
BankRevenue      == <<"Bank Revenue", Internal>>
BankExpense      == <<"Bank Expense", Internal>>
BankEquity       == <<"Bank Equity", Internal>>
TreasuryFund     == <<"Treasury Fund", Internal>>
FundInBank       == <<"Treasury Fund (in Bank)", Internal>>
Reserves         == <<"Sovereign Reserves", Internal>>
TreasuryRevenue  == <<"Treasury Revenue", Internal>>
TreasuryExpenses == <<"Treasury Expenses", Internal>>
ConfiscationRevenue == <<"Confiscation Revenue", Internal>>
RentRevenue      == <<"Rent Revenue", Internal>>
TaxRevenue       == <<"Tax Revenue", Internal>>
MinistryBudget   == <<"Ministry of Commerce Budget", Internal>>
MinistryEscrow   == <<"Ministry of Commerce Escrow", Internal>>
MinistryExpenses == <<"Ministry of Commerce Expenses", Internal>>

Book == {"BANK", "GOVERNMENT"}

BookOf(a) == IF a[1] \in GovernmentInternal THEN "GOVERNMENT" ELSE "BANK"

(* Account.AccountType: ASSET and EXPENSE accounts grow with a debit, the  *)
(* LIABILITY, EQUITY and REVENUE ones with a credit.                       *)
DebitNormal(a) ==
  a[1] \notin {"Checking Account", "Bank Revenue", "Bank Equity",
               "Treasury Revenue", "Confiscation Revenue", "Rent Revenue",
               "Tax Revenue"}

BalanceChange(a, debit, credit) ==
  IF DebitNormal(a) THEN debit - credit ELSE credit - debit

-----------------------------------------------------------------------------
(* A line of entries_data.  Every journal of the code has two or three     *)
(* lines, so a journal is a triple of lines: Transfer pads with NoLine,    *)
(* which the filter drops like any entry without a positive amount.        *)
DebitLine(a, n)  == [account |-> a, debit |-> n, credit |-> 0]
CreditLine(a, n) == [account |-> a, debit |-> 0, credit |-> n]
NoLine           == DebitLine(BankVault, 0)

(* A move of n that debits one account and credits another one.            *)
Transfer(debited, credited, n) ==
  <<DebitLine(debited, n), CreditLine(credited, n), NoLine>>

Kept(l) == l.debit > 0 \/ l.credit > 0

Debit(l)  == IF Kept(l) THEN l.debit ELSE 0
Credit(l) == IF Kept(l) THEN l.credit ELSE 0

TotalDebit(j)  == Debit(j[1]) + Debit(j[2]) + Debit(j[3])
TotalCredit(j) == Credit(j[1]) + Credit(j[2]) + Credit(j[3])

(* The entries are all filtered away: create_journal_entry returns None.   *)
Empty(j) == TotalDebit(j) = 0 /\ TotalCredit(j) = 0

(* create_journal_entry raises ValueError and writes nothing.              *)
Rejected(j) ==
  /\ ~Empty(j)
  /\ \/ TotalDebit(j) # TotalCredit(j)
     \/ \E i \in 1..3 : Debit(j[i]) > 0 /\ Credit(j[i]) > 0

Accepted(j) == ~Empty(j) /\ ~Rejected(j)

(* What the kept lines put into account a: its rows, debits minus credits, *)
(* and the change of its stored balance.                                   *)
LineRows(l, a) == IF l.account = a THEN Debit(l) - Credit(l) ELSE 0
Rows(j, a)     == LineRows(j[1], a) + LineRows(j[2], a) + LineRows(j[3], a)

LineChange(l, a) ==
  IF l.account = a THEN BalanceChange(a, Debit(l), Credit(l)) ELSE 0
Change(j, a) == LineChange(j[1], a) + LineChange(j[2], a) + LineChange(j[3], a)

(* What the kept lines put into a book.                                    *)
LineInBook(l, b) == IF BookOf(l.account) = b THEN Debit(l) - Credit(l) ELSE 0
InBook(j, b) == LineInBook(j[1], b) + LineInBook(j[2], b) + LineInBook(j[3], b)
=============================================================================
