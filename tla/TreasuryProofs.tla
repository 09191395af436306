--------------------------- MODULE TreasuryProofs ---------------------------
(***************************************************************************)
(* Theorems about Ledger and Treasury, for every set of characters and     *)
(* coroutines, every bound and every amount: first what                    *)
(* create_journal_entry does to the accounts and the books, then the types *)
(* and the books, the overshoot of the guarded accounts, and where the     *)
(* cash is.                                                                *)
(***************************************************************************)
EXTENDS Treasury, SumProofs

(* ----- The journal -----                                                 *)
Line    == [account : Account, debit : Int, credit : Int]
Journal == Line \X Line \X Line

Signed(a, n) == IF DebitNormal(a) THEN n ELSE -n

(* The accounts the code names are accounts of the chart.                  *)
LEMMA ChartOfAccounts ==
  /\ \A c \in Character : Checking(c) \in Account /\ Loan(c) \in Account
  /\ {BankVault, BankRevenue, BankExpense, BankEquity} \subseteq Account
  /\ {TreasuryFund, FundInBank, Reserves, TreasuryRevenue, TreasuryExpenses,
      ConfiscationRevenue, RentRevenue, TaxRevenue, MinistryBudget,
      MinistryEscrow, MinistryExpenses} \subseteq Account
<1>1. \A c \in Character : Checking(c) \in Account /\ Loan(c) \in Account
  BY DEF Account, Checking, Loan
<1>2. ASSUME NEW n \in BankInternal \cup GovernmentInternal
      PROVE  <<n, Internal>> \in Account
  BY DEF Account
<1>3. {BankVault, BankRevenue, BankExpense, BankEquity} \subseteq Account
  BY <1>2 DEF BankVault, BankRevenue, BankExpense, BankEquity, BankInternal
<1>4. {TreasuryFund, FundInBank, Reserves, TreasuryRevenue, TreasuryExpenses,
       ConfiscationRevenue, RentRevenue, TaxRevenue, MinistryBudget,
       MinistryEscrow, MinistryExpenses} \subseteq Account
  BY <1>2 DEF TreasuryFund, FundInBank, Reserves, TreasuryRevenue,
       TreasuryExpenses, ConfiscationRevenue, RentRevenue, TaxRevenue,
       MinistryBudget, MinistryEscrow, MinistryExpenses, GovernmentInternal
<1> QED BY <1>1, <1>3, <1>4

(* Which book each account belongs to.                                     *)
LEMMA Books ==
  /\ \A c \in Character :
       BookOf(Checking(c)) = "BANK" /\ BookOf(Loan(c)) = "BANK"
  /\ \A a \in {BankVault, BankRevenue, BankExpense, BankEquity} :
       BookOf(a) = "BANK"
  /\ \A a \in {TreasuryFund, FundInBank, Reserves, TreasuryRevenue,
               TreasuryExpenses, ConfiscationRevenue, RentRevenue, TaxRevenue,
               MinistryBudget, MinistryEscrow, MinistryExpenses} :
       BookOf(a) = "GOVERNMENT"
BY DEF BookOf, Checking, Loan, BankVault, BankRevenue, BankExpense,
       BankEquity, TreasuryFund, FundInBank, Reserves, TreasuryRevenue,
       TreasuryExpenses, ConfiscationRevenue, RentRevenue, TaxRevenue,
       MinistryBudget, MinistryEscrow, MinistryExpenses, GovernmentInternal

LEMMA LineAmounts ==
  ASSUME NEW l \in Line
  PROVE  /\ Debit(l) \in Int /\ Credit(l) \in Int
         /\ \A a \in Account :
              /\ LineRows(l, a) \in Int
              /\ LineChange(l, a) = Signed(a, LineRows(l, a))
         /\ \A b \in Book : LineInBook(l, b) \in Int
<1>1. l.debit \in Int /\ l.credit \in Int
  BY DEF Line
<1>2. Debit(l) \in Int /\ Credit(l) \in Int
  BY <1>1 DEF Debit, Credit
<1>3. ASSUME NEW a \in Account
      PROVE  LineRows(l, a) \in Int /\ LineChange(l, a) = Signed(a, LineRows(l, a))
  BY <1>2 DEF LineRows, LineChange, BalanceChange, Signed
<1>4. ASSUME NEW b \in Book PROVE LineInBook(l, b) \in Int
  BY <1>2 DEF LineInBook
<1> QED BY <1>2, <1>3, <1>4

(* The balance of an account moves by exactly the rows written for it, with*)
(* the sign of its type (services.py:448-461).                             *)
LEMMA ChangeIsSignedRows ==
  ASSUME NEW j \in Journal, NEW a \in Account
  PROVE  Rows(j, a) \in Int /\ Change(j, a) = Signed(a, Rows(j, a))
<1>1. j[1] \in Line /\ j[2] \in Line /\ j[3] \in Line
  BY DEF Journal
<1>2. \A i \in {1, 2, 3} : /\ LineRows(j[i], a) \in Int
                           /\ LineChange(j[i], a) = Signed(a, LineRows(j[i], a))
  BY <1>1, LineAmounts
<1> QED BY <1>2 DEF Rows, Change, Signed

LEMMA InBookType ==
  ASSUME NEW j \in Journal, NEW b \in Book
  PROVE  InBook(j, b) \in Int
<1>1. j[1] \in Line /\ j[2] \in Line /\ j[3] \in Line
  BY DEF Journal
<1> QED BY <1>1, LineAmounts DEF InBook

LEMMA NoLineIsLine == NoLine \in Line
BY ChartOfAccounts DEF NoLine, DebitLine, Line

LEMMA TransferIsJournal ==
  ASSUME NEW x \in Account, NEW y \in Account, NEW n \in Int
  PROVE  Transfer(x, y, n) \in Journal
BY NoLineIsLine DEF Transfer, Journal, DebitLine, CreditLine, Line

(* What one line adds to a book, whatever the sign of the amount.          *)
LEMMA LinesInBook ==
  ASSUME NEW x \in Account, NEW n \in Int, NEW b \in Book
  PROVE  /\ LineInBook(NoLine, b) = 0
         /\ LineInBook(DebitLine(x, n), b)
              = IF BookOf(x) = b /\ n > 0 THEN n ELSE 0
         /\ LineInBook(CreditLine(x, n), b)
              = IF BookOf(x) = b /\ n > 0 THEN -n ELSE 0
BY DEF LineInBook, NoLine, DebitLine, CreditLine, Debit, Credit, Kept

(* A transfer inside one book leaves that book, and the other, balanced.   *)
LEMMA TransferInOneBook ==
  ASSUME NEW x \in Account, NEW y \in Account, NEW n \in Int,
         BookOf(x) = BookOf(y), NEW b \in Book
  PROVE  InBook(Transfer(x, y, n), b) = 0
<1>1. InBook(Transfer(x, y, n), b)
        = LineInBook(DebitLine(x, n), b) + LineInBook(CreditLine(y, n), b)
            + LineInBook(NoLine, b)
  BY DEF InBook, Transfer
<1> QED BY <1>1, LinesInBook

(* The ValueError of create_journal_entry is out of reach of a transfer.   *)
THEOREM TransferNeverRejected ==
  ASSUME NEW x \in Account, NEW y \in Account, NEW n \in Int
  PROVE  ~Rejected(Transfer(x, y, n))
<1>1. /\ Debit(NoLine) = 0 /\ Credit(NoLine) = 0
      /\ Credit(DebitLine(x, n)) = 0 /\ Debit(CreditLine(y, n)) = 0
      /\ Debit(DebitLine(x, n)) = Credit(CreditLine(y, n))
      /\ Debit(DebitLine(x, n)) \in Int
  BY DEF Debit, Credit, Kept, NoLine, DebitLine, CreditLine
<1> DEFINE j == Transfer(x, y, n)
<1>2. j[1] = DebitLine(x, n) /\ j[2] = CreditLine(y, n) /\ j[3] = NoLine
  BY DEF Transfer
<1>3. TotalDebit(j) = TotalCredit(j)
  BY <1>1, <1>2 DEF TotalDebit, TotalCredit
<1>4. \A i \in 1 .. 3 : ~(Debit(j[i]) > 0 /\ Credit(j[i]) > 0)
  <2> TAKE i \in 1 .. 3
  <2>1. i = 1 \/ i = 2 \/ i = 3
    OBVIOUS
  <2> QED BY <1>1, <1>2, <2>1
<1> QED BY <1>3, <1>4 DEF Rejected

-----------------------------------------------------------------------------
(* What one step may do to the ledger: nothing, a transfer inside one book,*)
(* the journal of a loan, a row pair of interest, or one of wealth tax.    *)
PostsTransfer ==
  \E x \in Account, y \in Account, n \in Int :
    BookOf(x) = BookOf(y) /\ CreateJournalEntry(Transfer(x, y, n))

PostsLoan ==
  \E c \in Character, n \in Int, fee \in Nat :
    (fee = 0 \/ n > 0) /\ CreateJournalEntry(LoanEntries(c, n, fee))

PostsInterest ==
  \E c \in Character, n \in Int :
    n > 0 /\ BulkCreate(InterestEntries(c, n), InterestChange(c, n))

PostsWealthTax ==
  \E c \in Character, n \in Int :
    /\ n > 0
    /\ BulkCreate(WealthTaxEntries(c, n), WealthTaxChange(c, n))
    /\ Lose("wealthTax", -n)

KeepsTax == leak'["wealthTax"] = leak["wealthTax"]

LedgerStep ==
  \/ (UNCHANGED ledger \/ PostsTransfer \/ PostsLoan \/ PostsInterest) /\ KeepsTax
  \/ PostsWealthTax

(* A coroutine past its first step runs for a character wherever the step  *)
(* is about one.                                                           *)
Impersonal == {"idle", "laundering", "nirc", "bankDeposit", "bankWithdrawal",
               "bankEquityOut"}

Owned == \A t \in Task :
           task[t].at \notin Impersonal => task[t].who \in Character

-----------------------------------------------------------------------------
LEMMA AmountIsInt == \A n \in Amount : n \in Int /\ n >= 1 /\ n <= MaxAmount
BY TreasuryAssumption DEF Amount

LEMMA InitTypeOK == Init => TypeOK
BY TreasuryAssumption DEF Init, TypeOK, Idle, At, Holder, MayBeNegative

(* CreateJournalEntry keeps the ledger well typed.                         *)
LEMMA PostType ==
  ASSUME TypeOK, NEW j \in Journal, CreateJournalEntry(j)
  PROVE  /\ balance' \in [Account -> Int] /\ entered' \in [Account -> Int]
         /\ trial' \in [Book -> Int]
<1>1. \A a \in Account : Change(j, a) \in Int /\ Rows(j, a) \in Int
  BY ChangeIsSignedRows DEF Signed
<1>2. \A b \in Book : InBook(j, b) \in Int
  BY InBookType
<1>3. CASE Accepted(j)
  BY <1>1, <1>2, <1>3 DEF CreateJournalEntry, TypeOK
<1>4. CASE ~Accepted(j)
  BY <1>4 DEF CreateJournalEntry, TypeOK, ledger
<1> QED BY <1>3, <1>4

LEMMA LoanIsJournal ==
  ASSUME NEW c \in Character, NEW n \in Int, NEW fee \in Nat
  PROVE  LoanEntries(c, n, fee) \in Journal
<1>1. Loan(c) \in Account /\ BankRevenue \in Account /\ BankVault \in Account
  BY ChartOfAccounts
<1> QED BY <1>1 DEF LoanEntries, Journal, Line, DebitLine, CreditLine

LEMMA WealthTaxIsJournal ==
  ASSUME NEW c \in Character, NEW n \in Int
  PROVE  WealthTaxEntries(c, n) \in Journal
<1>1. Checking(c) \in Account /\ Reserves \in Account
  BY ChartOfAccounts
<1> QED BY <1>1, NoLineIsLine DEF WealthTaxEntries, Journal, Line, DebitLine

LEMMA InterestIsJournal ==
  ASSUME NEW c \in Character, NEW n \in Int
  PROVE  InterestEntries(c, n) \in Journal
BY ChartOfAccounts, TransferIsJournal DEF InterestEntries

(* The journal of a loan is accepted with any fee, and balanced.           *)
LEMMA LoanInBook ==
  ASSUME NEW c \in Character, NEW n \in Int, NEW fee \in Nat,
         fee = 0 \/ n > 0, NEW b \in Book
  PROVE  InBook(LoanEntries(c, n, fee), b) = 0
<1>1. /\ Loan(c) \in Account /\ BankRevenue \in Account /\ BankVault \in Account
      /\ BookOf(Loan(c)) = "BANK" /\ BookOf(BankRevenue) = "BANK"
      /\ BookOf(BankVault) = "BANK"
  BY ChartOfAccounts, Books
<1>2. InBook(LoanEntries(c, n, fee), b)
        = LineInBook(DebitLine(Loan(c), n + fee), b)
            + LineInBook(CreditLine(BankRevenue, fee), b)
            + LineInBook(CreditLine(BankVault, n), b)
  BY DEF InBook, LoanEntries
<1>3. n + fee \in Int /\ fee \in Int
  OBVIOUS
<1>4. /\ LineInBook(DebitLine(Loan(c), n + fee), b)
           = IF "BANK" = b /\ n + fee > 0 THEN n + fee ELSE 0
      /\ LineInBook(CreditLine(BankRevenue, fee), b)
           = IF "BANK" = b /\ fee > 0 THEN -fee ELSE 0
      /\ LineInBook(CreditLine(BankVault, n), b)
           = IF "BANK" = b /\ n > 0 THEN -n ELSE 0
  BY <1>1, <1>3, LinesInBook
<1> QED BY <1>2, <1>4

LEMMA WealthTaxInBook ==
  ASSUME NEW c \in Character, NEW n \in Int, n > 0, NEW b \in Book
  PROVE  InBook(WealthTaxEntries(c, n), b) = n
<1>1. /\ Checking(c) \in Account /\ Reserves \in Account
      /\ BookOf(Checking(c)) = "BANK" /\ BookOf(Reserves) = "GOVERNMENT"
  BY ChartOfAccounts, Books
<1>2. InBook(WealthTaxEntries(c, n), b)
        = LineInBook(DebitLine(Checking(c), n), b)
            + LineInBook(DebitLine(Reserves, n), b) + LineInBook(NoLine, b)
  BY DEF InBook, WealthTaxEntries
<1>3. /\ LineInBook(DebitLine(Checking(c), n), b)
           = IF "BANK" = b /\ n > 0 THEN n ELSE 0
      /\ LineInBook(DebitLine(Reserves, n), b)
           = IF "GOVERNMENT" = b /\ n > 0 THEN n ELSE 0
      /\ LineInBook(NoLine, b) = 0
  BY <1>1, LinesInBook
<1> QED BY <1>2, <1>3 DEF Book

(* The balances that the bulk writers compute agree with their rows.       *)
LEMMA InterestChangeAgrees ==
  ASSUME NEW c \in Character, NEW n \in Int, n > 0, NEW a \in Account
  PROVE  InterestChange(c, n)[a] = Change(InterestEntries(c, n), a)
<1>1. Checking(c) # BankExpense /\ DebitNormal(BankExpense) /\ ~DebitNormal(Checking(c))
  BY DEF Checking, BankExpense, DebitNormal
<1>2. /\ LineChange(DebitLine(BankExpense, n), a) = IF a = BankExpense THEN n ELSE 0
      /\ LineChange(CreditLine(Checking(c), n), a) = IF a = Checking(c) THEN n ELSE 0
      /\ LineChange(NoLine, a) = 0
  BY <1>1 DEF LineChange, BalanceChange, DebitLine, CreditLine, NoLine, Debit,
              Credit, Kept
<1>3. Change(InterestEntries(c, n), a)
        = LineChange(DebitLine(BankExpense, n), a)
            + LineChange(CreditLine(Checking(c), n), a) + LineChange(NoLine, a)
  BY DEF Change, InterestEntries, Transfer
<1> QED BY <1>1, <1>2, <1>3 DEF InterestChange

LEMMA WealthTaxChangeAgrees ==
  ASSUME NEW c \in Character, NEW n \in Int, n > 0, NEW a \in Account
  PROVE  WealthTaxChange(c, n)[a] = Change(WealthTaxEntries(c, n), a)
<1>1. Checking(c) # Reserves /\ DebitNormal(Reserves) /\ ~DebitNormal(Checking(c))
  BY DEF Checking, Reserves, DebitNormal
<1>2. /\ LineChange(DebitLine(Checking(c), n), a) = IF a = Checking(c) THEN -n ELSE 0
      /\ LineChange(DebitLine(Reserves, n), a) = IF a = Reserves THEN n ELSE 0
      /\ LineChange(NoLine, a) = 0
  BY <1>1 DEF LineChange, BalanceChange, DebitLine, NoLine, Debit, Credit, Kept
<1>3. Change(WealthTaxEntries(c, n), a)
        = LineChange(DebitLine(Checking(c), n), a)
            + LineChange(DebitLine(Reserves, n), a) + LineChange(NoLine, a)
  BY DEF Change, WealthTaxEntries
<1> QED BY <1>1, <1>2, <1>3 DEF WealthTaxChange

-----------------------------------------------------------------------------
(* The parts of the invariant, so that each step can say which it touches. *)
LedgerType == /\ balance \in [Account -> Int] /\ entered \in [Account -> Int]
              /\ trial \in [Book -> Int]

TaskType == /\ task \in [Task -> [at : At, who : Holder, amt : Int]]
            /\ \A t \in Task : /\ task[t].amt <= MaxAmount
                               /\ task[t].at \notin MayBeNegative => task[t].amt >= 1
            /\ Owned

PurseType == /\ wallet \in [Character -> Int] /\ donations \in [Character -> Nat]
             /\ leak \in [Cause -> Int] /\ unchecked \in Nat /\ starts \in Nat
             /\ crashes \in Nat

LEMMA TypeParts == (TypeOK /\ Owned) <=> (LedgerType /\ TaskType /\ PurseType)
BY DEF TypeOK, LedgerType, TaskType, PurseType

LEMMA GotoKeeps ==
  ASSUME TaskType, NEW t \in Task, NEW at \in At, NEW c \in Holder, NEW n \in Int,
         n <= MaxAmount, at \notin MayBeNegative => n >= 1,
         at \notin Impersonal => c \in Character,
         Goto(t, at, c, n)
  PROVE  TaskType'
BY DEF TaskType, Owned, Goto

LEMMA DoneKeeps ==
  ASSUME TaskType, NEW t \in Task, Done(t)
  PROVE  TaskType'
<1>1. task' = [task EXCEPT ![t] = [at |-> "idle", who |-> Internal, amt |-> 0]]
  BY DEF Done, Idle
<1>2. /\ "idle" \in At /\ "idle" \in MayBeNegative /\ "idle" \in Impersonal
      /\ Internal \in Holder
  BY DEF At, MayBeNegative, Impersonal, Holder
<1>3. 0 <= MaxAmount
  BY TreasuryAssumption
<1> QED BY <1>1, <1>2, <1>3 DEF TaskType, Owned

LEMMA PayKeeps ==
  ASSUME PurseType, NEW c \in Character, NEW n \in Int, Pay(c, n)
  PROVE  wallet' \in [Character -> Int]
BY DEF PurseType, Pay

LEMMA LoseKeeps ==
  ASSUME PurseType, NEW cause \in Cause, NEW n \in Int, Lose(cause, n)
  PROVE  /\ leak' \in [Cause -> Int]
         /\ cause # "wealthTax" => KeepsTax
BY DEF PurseType, Lose, KeepsTax, Cause

(* Every journal of the bank and the treasury but the loan's is a transfer *)
(* between two accounts of one book.                                       *)
LEMMA OwnTransfers ==
  ASSUME NEW n \in Int
  PROVE  /\ \A c \in Character :
              /\ CreateJournalEntry(DepositEntries(c, n)) => PostsTransfer
              /\ CreateJournalEntry(WithdrawalEntries(c, n)) => PostsTransfer
              /\ CreateJournalEntry(RepaymentEntries(c, n)) => PostsTransfer
         /\ CreateJournalEntry(DonationEntries(n)) => PostsTransfer
         /\ CreateJournalEntry(ExpenseEntries(n)) => PostsTransfer
         /\ CreateJournalEntry(ConfiscationEntries(n)) => PostsTransfer
         /\ CreateJournalEntry(RentEntries(n)) => PostsTransfer
         /\ CreateJournalEntry(TaxEntries(n)) => PostsTransfer
         /\ CreateJournalEntry(NircEntries(n)) => PostsTransfer
         /\ CreateJournalEntry(FundToBankEntries(n)) => PostsTransfer
         /\ CreateJournalEntry(BankToFundEntries(n)) => PostsTransfer
         /\ CreateJournalEntry(EquityInEntries(n)) => PostsTransfer
         /\ CreateJournalEntry(EquityOutEntries(n)) => PostsTransfer
<1>1. ASSUME NEW x \in Account, NEW y \in Account, BookOf(x) = BookOf(y),
             CreateJournalEntry(Transfer(x, y, n))
      PROVE  PostsTransfer
  BY <1>1 DEF PostsTransfer
<1>2. ASSUME NEW c \in Character
      PROVE  /\ CreateJournalEntry(DepositEntries(c, n)) => PostsTransfer
             /\ CreateJournalEntry(WithdrawalEntries(c, n)) => PostsTransfer
             /\ CreateJournalEntry(RepaymentEntries(c, n)) => PostsTransfer
  <2>1. /\ BookOf(BankVault) = BookOf(Checking(c)) /\ BookOf(BankVault) = BookOf(Loan(c))
        /\ BankVault \in Account /\ Checking(c) \in Account /\ Loan(c) \in Account
    BY Books, ChartOfAccounts
  <2> QED BY <1>1, <2>1 DEF DepositEntries, WithdrawalEntries, RepaymentEntries
<1>3. /\ CreateJournalEntry(DonationEntries(n)) => PostsTransfer
      /\ CreateJournalEntry(ExpenseEntries(n)) => PostsTransfer
      /\ CreateJournalEntry(ConfiscationEntries(n)) => PostsTransfer
      /\ CreateJournalEntry(RentEntries(n)) => PostsTransfer
      /\ CreateJournalEntry(TaxEntries(n)) => PostsTransfer
      /\ CreateJournalEntry(NircEntries(n)) => PostsTransfer
      /\ CreateJournalEntry(FundToBankEntries(n)) => PostsTransfer
      /\ CreateJournalEntry(BankToFundEntries(n)) => PostsTransfer
  BY <1>1, Books, ChartOfAccounts
     DEF DonationEntries, ExpenseEntries, ConfiscationEntries, RentEntries,
         TaxEntries, NircEntries, FundToBankEntries, BankToFundEntries
<1>4. /\ CreateJournalEntry(EquityInEntries(n)) => PostsTransfer
      /\ CreateJournalEntry(EquityOutEntries(n)) => PostsTransfer
  BY <1>1, Books, ChartOfAccounts DEF EquityInEntries, EquityOutEntries
<1> QED BY <1>2, <1>3, <1>4

(* A ledger step keeps the ledger well typed.                              *)
LEMMA LedgerStepType ==
  ASSUME TypeOK, LedgerStep
  PROVE  LedgerType'
<1>1. CASE UNCHANGED ledger
  BY <1>1 DEF ledger, LedgerType, TypeOK
<1>2. CASE PostsTransfer
  BY <1>2, PostType, TransferIsJournal DEF PostsTransfer, LedgerType
<1>3. CASE PostsLoan
  BY <1>3, PostType, LoanIsJournal DEF PostsLoan, LedgerType
<1>4. ASSUME NEW j \in Journal, NEW change, BulkCreate(j, change),
             \A a \in Account : change[a] \in Int
      PROVE  LedgerType'
  <2>1. \A a \in Account : Rows(j, a) \in Int
    BY ChangeIsSignedRows
  <2>2. \A b \in Book : InBook(j, b) \in Int
    BY InBookType
  <2> QED BY <1>4, <2>1, <2>2 DEF BulkCreate, LedgerType, TypeOK
<1>5. CASE PostsInterest
  <2>1. PICK c \in Character, n \in Int :
          n > 0 /\ BulkCreate(InterestEntries(c, n), InterestChange(c, n))
    BY <1>5 DEF PostsInterest
  <2>2. \A a \in Account : InterestChange(c, n)[a] \in Int
    BY DEF InterestChange
  <2> QED BY <1>4, <2>1, <2>2, InterestIsJournal
<1>6. CASE PostsWealthTax
  <2>1. PICK c \in Character, n \in Int :
          n > 0 /\ BulkCreate(WealthTaxEntries(c, n), WealthTaxChange(c, n))
    BY <1>6 DEF PostsWealthTax
  <2>2. \A a \in Account : WealthTaxChange(c, n)[a] \in Int
    BY DEF WealthTaxChange
  <2> QED BY <1>4, <2>1, <2>2, WealthTaxIsJournal
<1> QED BY <1>1, <1>2, <1>3, <1>5, <1>6 DEF LedgerStep

-----------------------------------------------------------------------------
(* Where a coroutine is, unfolded.                                         *)
LEMMA TaskFacts ==
  ASSUME TypeOK, Owned, NEW t \in Task
  PROVE  /\ LedgerType /\ TaskType /\ PurseType
         /\ task[t].at \in At /\ task[t].who \in Holder /\ task[t].amt \in Int
         /\ task[t].amt <= MaxAmount
         /\ task[t].at \notin MayBeNegative => task[t].amt >= 1
         /\ task[t].at \notin Impersonal => task[t].who \in Character
BY TypeParts DEF TaskType, Owned

(* The first steps of the operations that a character asks for.            *)
LEMMA PlayerStartKeeps ==
  ASSUME TypeOK, Owned, NEW t \in Task, NEW c \in Character, NEW n \in Amount,
         PlayerStart(t, c, n)
  PROVE  LedgerStep /\ TaskType' /\ PurseType'
<1>0. /\ LedgerType /\ TaskType /\ PurseType
      /\ n \in Int /\ -n \in Int /\ n >= 1 /\ n <= MaxAmount /\ c \in Holder
      /\ starts \in Nat /\ starts + 1 \in Nat
  BY TaskFacts, AmountIsInt DEF Holder, PurseType
<1>1. CASE SaveFromWallet(t, c, n)
  <2>1. LedgerStep /\ Goto(t, "savings", c, n) /\ Pay(c, -n)
    BY <1>1 DEF SaveFromWallet, LedgerStep, KeepsTax
  <2>2. TaskType'
    BY <1>0, <2>1, GotoKeeps DEF At
  <2>3. PurseType'
    BY <1>0, <1>1, <2>1, PayKeeps DEF SaveFromWallet, Begin, PurseType
  <2> QED BY <2>1, <2>2, <2>3
<1>2. CASE CheckWithdrawal(t, c, n, "withdraw")
  <2>1. LedgerStep /\ Goto(t, "withdraw", c, n)
    BY <1>2 DEF CheckWithdrawal, LedgerStep, KeepsTax
  <2>2. TaskType'
    BY <1>0, <2>1, GotoKeeps DEF At
  <2>3. PurseType'
    BY <1>0, <1>2 DEF CheckWithdrawal, Begin, PurseType
  <2> QED BY <2>1, <2>2, <2>3
<1>3. CASE CheckWithdrawal(t, c, n, "donate")
  <2>1. LedgerStep /\ Goto(t, "donate", c, n)
    BY <1>3 DEF CheckWithdrawal, LedgerStep, KeepsTax
  <2>2. TaskType'
    BY <1>0, <2>1, GotoKeeps DEF At
  <2>3. PurseType'
    BY <1>0, <1>3 DEF CheckWithdrawal, Begin, PurseType
  <2> QED BY <2>1, <2>2, <2>3
<1>4. CASE ChargeForTreasury(t, c, n)
  <2>1. LedgerStep /\ Goto(t, "donation", c, n) /\ Pay(c, -n)
    BY <1>4 DEF ChargeForTreasury, LedgerStep, KeepsTax
  <2>2. TaskType'
    BY <1>0, <2>1, GotoKeeps DEF At
  <2>3. PurseType'
    BY <1>0, <1>4, <2>1, PayKeeps DEF ChargeForTreasury, Begin, PurseType
  <2> QED BY <2>1, <2>2, <2>3
<1>5. CASE BeginTax(t, c, n)
  <2>1. LedgerStep /\ Goto(t, "tax", c, n) /\ Pay(c, -n)
    BY <1>5 DEF BeginTax, LedgerStep, KeepsTax
  <2>2. TaskType'
    BY <1>0, <2>1, GotoKeeps DEF At
  <2>3. PurseType'
    BY <1>0, <1>5, <2>1, PayKeeps DEF BeginTax, Begin, PurseType
  <2> QED BY <2>1, <2>2, <2>3
<1>6. CASE BeginGrant(t, c, n)
  <2>1. LedgerStep /\ Goto(t, "grant", c, n)
    BY <1>6 DEF BeginGrant, LedgerStep, KeepsTax
  <2>2. TaskType'
    BY <1>0, <2>1, GotoKeeps DEF At
  <2>3. PurseType'
    BY <1>0, <1>6 DEF BeginGrant, Begin, PurseType
  <2> QED BY <2>1, <2>2, <2>3
<1>7. CASE BeginInterest(t, c, n)
  <2>1. LedgerStep /\ Goto(t, "interest", c, n)
    BY <1>7 DEF BeginInterest, LedgerStep, KeepsTax
  <2>2. TaskType'
    BY <1>0, <2>1, GotoKeeps DEF At
  <2>3. PurseType'
    BY <1>0, <1>7 DEF BeginInterest, Begin, PurseType
  <2> QED BY <2>1, <2>2, <2>3
<1>8. CASE BeginWealthTax(t, c, n)
  <2>1. LedgerStep /\ Goto(t, "wealthTax", c, n)
    BY <1>8 DEF BeginWealthTax, LedgerStep, KeepsTax
  <2>2. TaskType'
    BY <1>0, <2>1, GotoKeeps DEF At
  <2>3. PurseType'
    BY <1>0, <1>8 DEF BeginWealthTax, Begin, PurseType
  <2> QED BY <2>1, <2>2, <2>3
<1>9. CASE BeginSalary(t, c, n)
  <2>1. LedgerStep /\ leak' \in [Cause -> Int]
    BY <1>0, <1>9, LoseKeeps DEF BeginSalary, LedgerStep, KeepsTax, Cause, PurseType
  <2>2. Goto(t, "salary", c, n) \/ Goto(t, "payout", c, n)
    BY <1>9 DEF BeginSalary
  <2>3. TaskType'
    BY <1>0, <2>2, GotoKeeps DEF At
  <2>4. PurseType'
    BY <1>0, <1>9, <2>1 DEF BeginSalary, Begin, PurseType
  <2> QED BY <2>1, <2>3, <2>4
<1>10. CASE BeginSubsidy(t, c, n)
  <2> DEFINE m == IF n <= balance[TreasuryFund] THEN n ELSE balance[TreasuryFund]
  <2>1. LedgerStep /\ Goto(t, "subsidy", c, m)
    BY <1>10 DEF BeginSubsidy, LedgerStep, KeepsTax
  <2>2. balance[TreasuryFund] \in Int
    BY <1>0, ChartOfAccounts DEF LedgerType
  <2>3. m \in Int /\ m >= 1 /\ m <= MaxAmount
    BY <1>0, <1>10, <2>2, TreasuryAssumption DEF BeginSubsidy
  <2>4. TaskType'
    BY <1>0, <2>1, <2>3, GotoKeeps DEF At
  <2>5. PurseType'
    BY <1>0, <1>10 DEF BeginSubsidy, Begin, PurseType
  <2> QED BY <2>1, <2>4, <2>5
<1>11. ASSUME NEW victim \in Holder, BeginConfiscation(t, victim, c, n)
       PROVE  LedgerStep /\ TaskType' /\ PurseType'
  <2>1. LedgerStep /\ leak' \in [Cause -> Int]
    BY <1>0, <1>11, LoseKeeps
       DEF BeginConfiscation, LedgerStep, KeepsTax, Cause, PurseType
  <2>2. wallet' \in [Character -> Int]
    BY <1>0, <1>11, PayKeeps DEF BeginConfiscation, Holder, PurseType
  <2>3. Goto(t, "confiscate", c, n)
    BY <1>11 DEF BeginConfiscation
  <2>4. TaskType'
    BY <1>0, <2>3, GotoKeeps DEF At
  <2>5. PurseType'
    BY <1>0, <1>11, <2>1, <2>2 DEF BeginConfiscation, Begin, PurseType
  <2> QED BY <2>1, <2>4, <2>5
<1>12. ASSUME NEW rebate \in 0 .. MaxAmount, ReceiveRent(t, c, n, rebate)
       PROVE  LedgerStep /\ TaskType' /\ PurseType'
  <2>1. LedgerStep
    BY <1>0, <1>12, OwnTransfers DEF ReceiveRent, LedgerStep, KeepsTax
  <2>2. rebate \in Int /\ rebate <= MaxAmount
    BY TreasuryAssumption
  <2>3. (rebate >= 1 /\ Goto(t, "subsidy", c, rebate)) \/ Done(t)
    BY <1>12, <2>2 DEF ReceiveRent
  <2>4. TaskType'
    BY <1>0, <2>2, <2>3, GotoKeeps, DoneKeeps DEF At
  <2>5. Pay(c, -n)
    BY <1>12 DEF ReceiveRent
  <2>6. PurseType'
    BY <1>0, <1>12, <2>5, PayKeeps DEF ReceiveRent, Begin, PurseType
  <2> QED BY <2>1, <2>4, <2>6
<1>13. CASE BeginLoan(t, c, n)
  <2>1. LedgerStep /\ Goto(t, "loan", c, LoanAmount(c, n))
    BY <1>13 DEF BeginLoan, LedgerStep, KeepsTax
  <2>2. balance[Loan(c)] \in Int
    BY <1>0, ChartOfAccounts DEF LedgerType
  <2>3. LoanAmount(c, n) \in Int /\ LoanAmount(c, n) <= MaxAmount
    BY <1>0, <2>2, TreasuryAssumption DEF LoanAmount
  <2>4. TaskType'
    BY <1>0, <2>1, <2>3, GotoKeeps DEF At, MayBeNegative
  <2>5. PurseType'
    BY <1>0, <1>13 DEF BeginLoan, Begin, PurseType
  <2> QED BY <2>1, <2>4, <2>5
<1>14. CASE BeginRepayment(t, c, n)
  <2> DEFINE m == IF n <= balance[Loan(c)] THEN n ELSE balance[Loan(c)]
  <2>1. LedgerStep /\ Goto(t, "repayCheck", c, m) /\ Pay(c, -m)
    BY <1>14 DEF BeginRepayment, LedgerStep, KeepsTax
  <2>2. balance[Loan(c)] \in Int
    BY <1>0, ChartOfAccounts DEF LedgerType
  <2>3. m \in Int /\ -m \in Int /\ m <= MaxAmount
    BY <1>0, <2>2, TreasuryAssumption
  <2> HIDE DEF m
  <2>4. TaskType'
    BY <1>0, <2>1, <2>3, GotoKeeps DEF At, MayBeNegative
  <2>5. PurseType'
    BY <1>0, <1>14, <2>1, <2>3, PayKeeps DEF BeginRepayment, Begin, PurseType
  <2> QED BY <2>1, <2>4, <2>5
<1> QED
  BY <1>1, <1>2, <1>3, <1>4, <1>5, <1>6, <1>7, <1>8, <1>9, <1>10, <1>11, <1>12,
     <1>13, <1>14 DEF PlayerStart

(* The first steps of the treasury's own operations.                       *)
LEMMA TreasuryStartKeeps ==
  ASSUME TypeOK, Owned, NEW t \in Task, NEW n \in Amount, TreasuryStart(t, n)
  PROVE  LedgerStep /\ TaskType' /\ PurseType'
<1>0. /\ LedgerType /\ TaskType /\ PurseType
      /\ n \in Int /\ n >= 1 /\ n <= MaxAmount /\ Internal \in Holder
      /\ starts \in Nat /\ starts + 1 \in Nat /\ unchecked + n \in Nat
  BY TaskFacts, AmountIsInt DEF Holder, PurseType
<1>1. CASE BeginLaundering(t, n)
  <2>1. LedgerStep /\ Goto(t, "laundering", Internal, n)
    BY <1>0, <1>1 DEF BeginLaundering, LedgerStep, KeepsTax
  <2>2. TaskType'
    BY <1>0, <2>1, GotoKeeps DEF At, Impersonal
  <2>3. PurseType'
    BY <1>0, <1>1 DEF BeginLaundering, Begin, PurseType
  <2> QED BY <2>1, <2>2, <2>3
<1>2. CASE BeginNirc(t, n)
  <2>1. LedgerStep /\ Goto(t, "nirc", Internal, n)
    BY <1>0, <1>2 DEF BeginNirc, LedgerStep, KeepsTax
  <2>2. TaskType'
    BY <1>0, <2>1, GotoKeeps DEF At, Impersonal
  <2>3. PurseType'
    BY <1>0, <1>2 DEF BeginNirc, Begin, PurseType
  <2> QED BY <2>1, <2>2, <2>3
<1>3. CASE DepositTreasuryFund(t, n)
  <2>1. LedgerStep /\ Goto(t, "bankDeposit", Internal, n)
    BY <1>0, <1>3, OwnTransfers DEF DepositTreasuryFund, LedgerStep, KeepsTax
  <2>2. TaskType'
    BY <1>0, <2>1, GotoKeeps DEF At, Impersonal
  <2>3. PurseType'
    BY <1>0, <1>3 DEF DepositTreasuryFund, Begin, PurseType
  <2> QED BY <2>1, <2>2, <2>3
<1>4. CASE CheckBankWithdrawal(t, n)
  <2>1. LedgerStep /\ Goto(t, "bankWithdrawal", Internal, n)
    BY <1>0, <1>4 DEF CheckBankWithdrawal, LedgerStep, KeepsTax
  <2>2. TaskType'
    BY <1>0, <2>1, GotoKeeps DEF At, Impersonal
  <2>3. PurseType'
    BY <1>0, <1>4 DEF CheckBankWithdrawal, Begin, PurseType
  <2> QED BY <2>1, <2>2, <2>3
<1> QED BY <1>1, <1>2, <1>3, <1>4 DEF TreasuryStart

(* The later steps of the player's operations.                             *)
LEMMA PlayerStepKeeps ==
  ASSUME TypeOK, Owned, NEW t \in Task, PlayerStep(t)
  PROVE  LedgerStep /\ TaskType' /\ PurseType'
<1> DEFINE c == task[t].who
           n == task[t].amt
<1>0. /\ LedgerType /\ TaskType /\ PurseType
      /\ c \in Holder /\ n \in Int /\ -n \in Int /\ n <= MaxAmount
      /\ task[t].at \notin MayBeNegative => n >= 1
      /\ task[t].at \notin Impersonal => c \in Character
      /\ Internal \in Holder
  BY TaskFacts DEF Holder
<1>1. CASE RegisterDeposit(t)
  <2>1. LedgerStep
    BY <1>0, <1>1, OwnTransfers DEF RegisterDeposit, Resume, Impersonal, LedgerStep, KeepsTax
  <2>2. Done(t)
    BY <1>1 DEF RegisterDeposit
  <2>3. TaskType'
    BY <1>0, <1>1, <2>2, DoneKeeps
  <2>4. PurseType'
    BY <1>0, <1>1 DEF RegisterDeposit, Resume, Impersonal, PurseType
  <2> QED BY <2>1, <2>3, <2>4
<1>2. CASE RegisterWithdrawal(t)
  <2>1. LedgerStep
    BY <1>0, <1>2, OwnTransfers DEF RegisterWithdrawal, Resume, Impersonal, LedgerStep, KeepsTax
  <2>2. Goto(t, "payout", c, n)
    BY <1>2 DEF RegisterWithdrawal
  <2>3. TaskType'
    BY <1>0, <1>2, <2>2, GotoKeeps DEF RegisterWithdrawal, Resume, At, MayBeNegative, Impersonal
  <2>4. PurseType'
    BY <1>0, <1>2 DEF RegisterWithdrawal, Resume, Impersonal, PurseType
  <2> QED BY <2>1, <2>3, <2>4
<1>3. CASE RegisterDonationWithdrawal(t)
  <2>1. LedgerStep
    BY <1>0, <1>3, OwnTransfers DEF RegisterDonationWithdrawal, Resume, Impersonal, LedgerStep, KeepsTax
  <2>2. Goto(t, "donation", c, n)
    BY <1>3 DEF RegisterDonationWithdrawal
  <2>3. TaskType'
    BY <1>0, <1>3, <2>2, GotoKeeps DEF RegisterDonationWithdrawal, Resume, At, MayBeNegative, Impersonal
  <2>4. PurseType'
    BY <1>0, <1>3 DEF RegisterDonationWithdrawal, Resume, Impersonal, PurseType
  <2> QED BY <2>1, <2>3, <2>4
<1>4. CASE PayWallet(t)
  <2>1. LedgerStep
    BY <1>0, <1>4 DEF PayWallet, Resume, Impersonal, LedgerStep, KeepsTax
  <2>2. Done(t)
    BY <1>4 DEF PayWallet
  <2>3. TaskType'
    BY <1>0, <1>4, <2>2, DoneKeeps
  <2>4. PurseType'
    BY <1>0, <1>4, PayKeeps DEF PayWallet, Resume, Impersonal, PurseType
  <2> QED BY <2>1, <2>3, <2>4
<1>5. CASE PayWalletFails(t)
  <2>1. LedgerStep
    BY <1>0, <1>5, LoseKeeps DEF PayWalletFails, Resume, Impersonal, LedgerStep, KeepsTax, Cause
  <2>2. Done(t)
    BY <1>5 DEF PayWalletFails
  <2>3. TaskType'
    BY <1>0, <1>5, <2>2, DoneKeeps
  <2>4. PurseType'
    BY <1>0, <1>5, LoseKeeps DEF PayWalletFails, Resume, Impersonal, PurseType, Cause
  <2> QED BY <2>1, <2>3, <2>4
<1>6. CASE RegisterDonation(t)
  <2>1. LedgerStep
    BY <1>0, <1>6, OwnTransfers DEF RegisterDonation, Resume, Impersonal, LedgerStep, KeepsTax
  <2>2. Goto(t, "donated", c, n)
    BY <1>6 DEF RegisterDonation
  <2>3. TaskType'
    BY <1>0, <1>6, <2>2, GotoKeeps DEF RegisterDonation, Resume, At, MayBeNegative, Impersonal
  <2>4. PurseType'
    BY <1>0, <1>6 DEF RegisterDonation, Resume, Impersonal, PurseType
  <2> QED BY <2>1, <2>3, <2>4
<1>7. CASE AddTotalDonations(t)
  <2>1. LedgerStep
    BY <1>0, <1>7 DEF AddTotalDonations, Resume, Impersonal, LedgerStep, KeepsTax
  <2>2. Done(t)
    BY <1>7 DEF AddTotalDonations
  <2>3. TaskType'
    BY <1>0, <1>7, <2>2, DoneKeeps
  <2>4. PurseType'
    BY <1>0, <1>7 DEF AddTotalDonations, Resume, Impersonal, PurseType, MayBeNegative
  <2> QED BY <2>1, <2>3, <2>4
<1>8. CASE CheckRepayment(t)
  <2>1. LedgerStep
    BY <1>0, <1>8, LoseKeeps DEF CheckRepayment, Resume, Impersonal, LedgerStep, KeepsTax, Cause
  <2>2. Goto(t, "repay", c, n) \/ Done(t)
    BY <1>8 DEF CheckRepayment
  <2>3. TaskType'
    BY <1>0, <1>8, <2>2, GotoKeeps, DoneKeeps DEF CheckRepayment, Resume, At, MayBeNegative, Impersonal
  <2>4. PurseType'
    BY <1>0, <1>8, LoseKeeps DEF CheckRepayment, Resume, Impersonal, PurseType, Cause
  <2> QED BY <2>1, <2>3, <2>4
<1>9. CASE RegisterRepayment(t)
  <2>1. LedgerStep
    BY <1>0, <1>9, OwnTransfers, LoseKeeps DEF RegisterRepayment, Resume, Impersonal, LedgerStep, KeepsTax, Cause
  <2>2. Done(t)
    BY <1>9 DEF RegisterRepayment
  <2>3. TaskType'
    BY <1>0, <1>9, <2>2, DoneKeeps
  <2>4. PurseType'
    BY <1>0, <1>9, LoseKeeps DEF RegisterRepayment, Resume, Impersonal, PurseType, Cause
  <2> QED BY <2>1, <2>3, <2>4
<1>10. ASSUME NEW fee \in Fees \cup {0}, RegisterLoan(t, fee)
       PROVE  LedgerStep /\ TaskType' /\ PurseType'
  <2>1. c \in Character /\ fee \in Nat
    <3>1. task[t].at = "loan"
      BY <1>10 DEF RegisterLoan, Resume
    <3>2. fee \in Nat
      BY TreasuryAssumption
    <3> QED BY <1>0, <3>1, <3>2 DEF Impersonal
  <2>2. PostsLoan
    BY <1>0, <1>10, <2>1 DEF RegisterLoan, PostsLoan
  <2>3. KeepsTax /\ leak' \in [Cause -> Int]
    BY <1>0, <1>10, LoseKeeps DEF RegisterLoan, KeepsTax, Cause, PurseType
  <2>4. TaskType'
    BY <1>0, <1>10, <2>1, GotoKeeps DEF RegisterLoan, At, MayBeNegative
  <2>5. PurseType'
    BY <1>0, <1>10, <2>3 DEF RegisterLoan, Resume, PurseType
  <2> QED BY <2>2, <2>3, <2>4, <2>5 DEF LedgerStep
<1>11. CASE BulkCreateInterest(t)
  <2>1. c \in Character /\ n >= 1
    BY <1>0, <1>11 DEF BulkCreateInterest, Resume, Impersonal, MayBeNegative
  <2>2. PostsInterest /\ KeepsTax
    BY <1>0, <1>11, <2>1 DEF BulkCreateInterest, PostsInterest, KeepsTax
  <2>3. TaskType'
    BY <1>0, <1>11, DoneKeeps DEF BulkCreateInterest
  <2>4. PurseType'
    BY <1>0, <1>11 DEF BulkCreateInterest, Resume, PurseType
  <2> QED BY <2>2, <2>3, <2>4 DEF LedgerStep
<1>12. CASE BulkCreateWealthTax(t)
  <2>1. c \in Character /\ n >= 1
    BY <1>0, <1>12 DEF BulkCreateWealthTax, Resume, Impersonal, MayBeNegative
  <2>2. PostsWealthTax
    BY <1>0, <1>12, <2>1 DEF BulkCreateWealthTax, PostsWealthTax
  <2>3. TaskType'
    BY <1>0, <1>12, DoneKeeps DEF BulkCreateWealthTax
  <2>4. PurseType'
    BY <1>0, <1>12, LoseKeeps DEF BulkCreateWealthTax, Resume, PurseType, Cause
  <2> QED BY <2>2, <2>3, <2>4 DEF LedgerStep
<1> QED
  BY <1>1, <1>2, <1>3, <1>4, <1>5, <1>6, <1>7, <1>8, <1>9, <1>10, <1>11, <1>12
     DEF PlayerStep

(* The later steps of the treasury's operations.                           *)
LEMMA TreasuryStepKeeps ==
  ASSUME TypeOK, Owned, NEW t \in Task, TreasuryStep(t)
  PROVE  LedgerStep /\ TaskType' /\ PurseType'
<1> DEFINE c == task[t].who
           n == task[t].amt
<1>0. /\ LedgerType /\ TaskType /\ PurseType
      /\ c \in Holder /\ n \in Int /\ -n \in Int /\ n <= MaxAmount
      /\ task[t].at \notin MayBeNegative => n >= 1
      /\ task[t].at \notin Impersonal => c \in Character
      /\ Internal \in Holder
  BY TaskFacts DEF Holder
<1>1. CASE RegisterSalary(t)
  <2>1. LedgerStep
    BY <1>0, <1>1, OwnTransfers DEF RegisterSalary, Resume, Impersonal, LedgerStep, KeepsTax
  <2>2. Goto(t, "payout", c, n)
    BY <1>1 DEF RegisterSalary
  <2>3. TaskType'
    BY <1>0, <1>1, <2>2, GotoKeeps DEF RegisterSalary, Resume, At, MayBeNegative, Impersonal
  <2>4. PurseType'
    BY <1>0, <1>1 DEF RegisterSalary, Resume, Impersonal, PurseType
  <2> QED BY <2>1, <2>3, <2>4
<1>2. CASE PaySubsidy(t)
  <2>1. LedgerStep
    BY <1>0, <1>2 DEF PaySubsidy, Resume, Impersonal, LedgerStep, KeepsTax
  <2>2. Goto(t, "subsidyPaid", c, n)
    BY <1>2 DEF PaySubsidy
  <2>3. TaskType'
    BY <1>0, <1>2, <2>2, GotoKeeps DEF PaySubsidy, Resume, At, MayBeNegative, Impersonal
  <2>4. PurseType'
    BY <1>0, <1>2, PayKeeps DEF PaySubsidy, Resume, Impersonal, PurseType
  <2> QED BY <2>1, <2>3, <2>4
<1>3. CASE PaySubsidyFails(t)
  <2>1. LedgerStep
    BY <1>0, <1>3 DEF PaySubsidyFails, Resume, Impersonal, LedgerStep, KeepsTax
  <2>2. Done(t)
    BY <1>3 DEF PaySubsidyFails
  <2>3. TaskType'
    BY <1>0, <1>3, <2>2, DoneKeeps
  <2>4. PurseType'
    BY <1>0, <1>3 DEF PaySubsidyFails, Resume, Impersonal, PurseType
  <2> QED BY <2>1, <2>3, <2>4
<1>4. CASE CheckSubsidyFloor(t)
  <2>1. LedgerStep
    BY <1>0, <1>4, LoseKeeps DEF CheckSubsidyFloor, Resume, Impersonal, LedgerStep, KeepsTax, Cause
  <2>2. Goto(t, "subsidyExpense", c, n) \/ Done(t)
    BY <1>4 DEF CheckSubsidyFloor
  <2>3. TaskType'
    BY <1>0, <1>4, <2>2, GotoKeeps, DoneKeeps DEF CheckSubsidyFloor, Resume, At, MayBeNegative, Impersonal
  <2>4. PurseType'
    BY <1>0, <1>4, LoseKeeps DEF CheckSubsidyFloor, Resume, Impersonal, PurseType, Cause
  <2> QED BY <2>1, <2>3, <2>4
<1>5. CASE RegisterSubsidy(t)
  <2>1. LedgerStep
    BY <1>0, <1>5, OwnTransfers DEF RegisterSubsidy, Resume, Impersonal, LedgerStep, KeepsTax
  <2>2. Done(t)
    BY <1>5 DEF RegisterSubsidy
  <2>3. TaskType'
    BY <1>0, <1>5, <2>2, DoneKeeps
  <2>4. PurseType'
    BY <1>0, <1>5 DEF RegisterSubsidy, Resume, Impersonal, PurseType
  <2> QED BY <2>1, <2>3, <2>4
<1>6. CASE RegisterLaundering(t)
  <2>1. LedgerStep
    BY <1>0, <1>6, OwnTransfers, LoseKeeps DEF RegisterLaundering, Resume, Impersonal, LedgerStep, KeepsTax, Cause
  <2>2. Done(t)
    BY <1>6 DEF RegisterLaundering
  <2>3. TaskType'
    BY <1>0, <1>6, <2>2, DoneKeeps
  <2>4. PurseType'
    BY <1>0, <1>6, LoseKeeps DEF RegisterLaundering, Resume, Impersonal, PurseType, Cause
  <2> QED BY <2>1, <2>3, <2>4
<1>7. CASE RegisterGrant(t)
  <2>1. LedgerStep
    BY <1>0, <1>7, OwnTransfers DEF RegisterGrant, Resume, Impersonal, LedgerStep, KeepsTax
  <2>2. Goto(t, "grantBank", c, n)
    BY <1>7 DEF RegisterGrant
  <2>3. TaskType'
    BY <1>0, <1>7, <2>2, GotoKeeps DEF RegisterGrant, Resume, At, MayBeNegative, Impersonal
  <2>4. PurseType'
    BY <1>0, <1>7 DEF RegisterGrant, Resume, Impersonal, PurseType
  <2> QED BY <2>1, <2>3, <2>4
<1>8. CASE DepositGrant(t)
  <2>1. LedgerStep
    BY <1>0, <1>8, OwnTransfers DEF DepositGrant, Resume, Impersonal, LedgerStep, KeepsTax
  <2>2. Done(t)
    BY <1>8 DEF DepositGrant
  <2>3. TaskType'
    BY <1>0, <1>8, <2>2, DoneKeeps
  <2>4. PurseType'
    BY <1>0, <1>8 DEF DepositGrant, Resume, Impersonal, PurseType
  <2> QED BY <2>1, <2>3, <2>4
<1>9. CASE RegisterTax(t)
  <2>1. LedgerStep
    BY <1>0, <1>9, OwnTransfers DEF RegisterTax, Resume, Impersonal, LedgerStep, KeepsTax
  <2>2. Done(t)
    BY <1>9 DEF RegisterTax
  <2>3. TaskType'
    BY <1>0, <1>9, <2>2, DoneKeeps
  <2>4. PurseType'
    BY <1>0, <1>9 DEF RegisterTax, Resume, Impersonal, PurseType
  <2> QED BY <2>1, <2>3, <2>4
<1>10. CASE RegisterTaxRaises(t)
  <2>1. LedgerStep
    BY <1>0, <1>10 DEF RegisterTaxRaises, Resume, Impersonal, LedgerStep, KeepsTax
  <2>2. Goto(t, "taxRefund", c, n)
    BY <1>10 DEF RegisterTaxRaises
  <2>3. TaskType'
    BY <1>0, <1>10, <2>2, GotoKeeps DEF RegisterTaxRaises, Resume, At, MayBeNegative, Impersonal
  <2>4. PurseType'
    BY <1>0, <1>10 DEF RegisterTaxRaises, Resume, Impersonal, PurseType
  <2> QED BY <2>1, <2>3, <2>4
<1>11. CASE RefundTax(t)
  <2>1. LedgerStep
    BY <1>0, <1>11, LoseKeeps DEF RefundTax, Resume, Impersonal, LedgerStep, KeepsTax, Cause
  <2>2. Done(t)
    BY <1>11 DEF RefundTax
  <2>3. TaskType'
    BY <1>0, <1>11, <2>2, DoneKeeps
  <2>4. PurseType'
    BY <1>0, <1>11, PayKeeps, LoseKeeps DEF RefundTax, Resume, Impersonal, PurseType, Cause
  <2> QED BY <2>1, <2>3, <2>4
<1>12. CASE RegisterConfiscation(t)
  <2>1. LedgerStep
    BY <1>0, <1>12, OwnTransfers DEF RegisterConfiscation, Resume, Impersonal, LedgerStep, KeepsTax
  <2>2. Goto(t, "subsidy", c, n)
    BY <1>12 DEF RegisterConfiscation
  <2>3. TaskType'
    BY <1>0, <1>12, <2>2, GotoKeeps DEF RegisterConfiscation, Resume, At, MayBeNegative, Impersonal
  <2>4. PurseType'
    BY <1>0, <1>12 DEF RegisterConfiscation, Resume, Impersonal, PurseType
  <2> QED BY <2>1, <2>3, <2>4
<1>13. CASE RegisterNirc(t)
  <2>1. LedgerStep
    BY <1>0, <1>13, OwnTransfers DEF RegisterNirc, Resume, Impersonal, LedgerStep, KeepsTax
  <2>2. Done(t)
    BY <1>13 DEF RegisterNirc
  <2>3. TaskType'
    BY <1>0, <1>13, <2>2, DoneKeeps
  <2>4. PurseType'
    BY <1>0, <1>13 DEF RegisterNirc, Resume, Impersonal, PurseType
  <2> QED BY <2>1, <2>3, <2>4
<1>14. CASE DepositBankEquity(t)
  <2>1. LedgerStep
    BY <1>0, <1>14, OwnTransfers DEF DepositBankEquity, Resume, Impersonal, LedgerStep, KeepsTax
  <2>2. Done(t)
    BY <1>14 DEF DepositBankEquity
  <2>3. TaskType'
    BY <1>0, <1>14, <2>2, DoneKeeps
  <2>4. PurseType'
    BY <1>0, <1>14 DEF DepositBankEquity, Resume, Impersonal, PurseType
  <2> QED BY <2>1, <2>3, <2>4
<1>15. CASE WithdrawTreasuryFund(t)
  <2>1. LedgerStep
    BY <1>0, <1>15, OwnTransfers DEF WithdrawTreasuryFund, Resume, Impersonal, LedgerStep, KeepsTax
  <2>2. Goto(t, "bankEquityOut", Internal, n)
    BY <1>15 DEF WithdrawTreasuryFund
  <2>3. TaskType'
    BY <1>0, <1>15, <2>2, GotoKeeps DEF WithdrawTreasuryFund, Resume, At, MayBeNegative, Impersonal
  <2>4. PurseType'
    BY <1>0, <1>15 DEF WithdrawTreasuryFund, Resume, Impersonal, PurseType
  <2> QED BY <2>1, <2>3, <2>4
<1>16. CASE WithdrawBankEquity(t)
  <2>1. LedgerStep
    BY <1>0, <1>16, OwnTransfers DEF WithdrawBankEquity, Resume, Impersonal, LedgerStep, KeepsTax
  <2>2. Done(t)
    BY <1>16 DEF WithdrawBankEquity
  <2>3. TaskType'
    BY <1>0, <1>16, <2>2, DoneKeeps
  <2>4. PurseType'
    BY <1>0, <1>16 DEF WithdrawBankEquity, Resume, Impersonal, PurseType
  <2> QED BY <2>1, <2>3, <2>4
<1> QED
  BY <1>1, <1>2, <1>3, <1>4, <1>5, <1>6, <1>7, <1>8, <1>9, <1>10, <1>11, <1>12,
     <1>13, <1>14, <1>15, <1>16 DEF TreasuryStep

LEMMA CrashKeeps ==
  ASSUME TypeOK, Owned, NEW t \in Task, Crash(t)
  PROVE  LedgerStep /\ TaskType' /\ PurseType'
<1>0. /\ LedgerType /\ TaskType /\ PurseType /\ task[t].amt \in Int
      /\ -task[t].amt \in Int
  BY TaskFacts
<1>1. InTransit(task[t]) \in Int
  BY <1>0 DEF InTransit
<1>2. LedgerStep
  BY <1>0, <1>1, LoseKeeps DEF Crash, LedgerStep, Cause
<1>3. TaskType'
  BY <1>0, DoneKeeps DEF Crash
<1>4. PurseType'
  BY <1>0, <1>1, LoseKeeps DEF Crash, PurseType, Cause
<1> QED BY <1>2, <1>3, <1>4

(* Every step of the system is a ledger step that keeps the types.         *)
LEMMA NextKeeps ==
  ASSUME TypeOK, Owned, Next
  PROVE  LedgerStep /\ TypeOK' /\ Owned'
<1>1. LedgerStep /\ TaskType' /\ PurseType'
  BY PlayerStartKeeps, TreasuryStartKeeps, PlayerStepKeeps, TreasuryStepKeeps,
     CrashKeeps DEF Next
<1>2. LedgerType'
  BY <1>1, LedgerStepType
<1> QED BY <1>1, <1>2, TypeParts, PTL DEF TypeOK, LedgerType, TaskType, PurseType

-----------------------------------------------------------------------------
(* What a ledger step does to the balances and to the books.               *)
LEMMA LedgerStepMatches ==
  ASSUME TypeOK, BalanceMatchesRows, LedgerStep
  PROVE  BalanceMatchesRows'
<1> USE DEF Signed
<1>1. CASE UNCHANGED ledger
  BY <1>1 DEF ledger, BalanceMatchesRows
<1>2. ASSUME NEW j \in Journal, CreateJournalEntry(j)
      PROVE  BalanceMatchesRows'
  <2>1. CASE Accepted(j)
    <3> SUFFICES ASSUME NEW a \in Account
                 PROVE  balance'[a] = IF DebitNormal(a) THEN entered'[a]
                                      ELSE -entered'[a]
      BY DEF BalanceMatchesRows
    <3>1. balance'[a] = balance[a] + Change(j, a) /\ entered'[a] = entered[a] + Rows(j, a)
      BY <1>2, <2>1 DEF CreateJournalEntry
    <3>2. Rows(j, a) \in Int /\ Change(j, a) = Signed(a, Rows(j, a))
      BY ChangeIsSignedRows
    <3> QED BY <3>1, <3>2 DEF BalanceMatchesRows, TypeOK
  <2>2. CASE ~Accepted(j)
    BY <1>1, <1>2, <2>2 DEF CreateJournalEntry
  <2> QED BY <2>1, <2>2
<1>3. CASE PostsTransfer
  BY <1>2, <1>3, TransferIsJournal DEF PostsTransfer
<1>4. CASE PostsLoan
  BY <1>2, <1>4, LoanIsJournal DEF PostsLoan
<1>5. ASSUME NEW j \in Journal, NEW change, BulkCreate(j, change),
             \A a \in Account : change[a] = Change(j, a)
      PROVE  BalanceMatchesRows'
  <2> SUFFICES ASSUME NEW a \in Account
               PROVE  balance'[a] = IF DebitNormal(a) THEN entered'[a]
                                    ELSE -entered'[a]
    BY DEF BalanceMatchesRows
  <2>1. balance'[a] = balance[a] + Change(j, a) /\ entered'[a] = entered[a] + Rows(j, a)
    BY <1>5 DEF BulkCreate
  <2>2. Rows(j, a) \in Int /\ Change(j, a) = Signed(a, Rows(j, a))
    BY ChangeIsSignedRows
  <2> QED BY <2>1, <2>2 DEF BalanceMatchesRows, TypeOK
<1>6. CASE PostsInterest
  BY <1>5, <1>6, InterestIsJournal, InterestChangeAgrees DEF PostsInterest
<1>7. CASE PostsWealthTax
  BY <1>5, <1>7, WealthTaxIsJournal, WealthTaxChangeAgrees DEF PostsWealthTax
<1> QED BY <1>1, <1>3, <1>4, <1>6, <1>7 DEF LedgerStep

LEMMA LedgerStepTilts ==
  ASSUME TypeOK, BooksTiltByWealthTaxOnly, LedgerStep
  PROVE  BooksTiltByWealthTaxOnly'
<1>1. CASE UNCHANGED ledger /\ KeepsTax
  BY <1>1 DEF ledger, BooksTiltByWealthTaxOnly, KeepsTax
<1>2. ASSUME NEW j \in Journal, KeepsTax, \A b \in Book : InBook(j, b) = 0,
             \/ CreateJournalEntry(j)
             \/ \E change : BulkCreate(j, change)
      PROVE  BooksTiltByWealthTaxOnly'
  <2>1. \A b \in Book : trial'[b] = trial[b]
    BY <1>2 DEF CreateJournalEntry, BulkCreate, TypeOK, ledger
  <2> QED BY <1>2, <2>1 DEF BooksTiltByWealthTaxOnly, KeepsTax
<1>3. CASE PostsTransfer /\ KeepsTax
  BY <1>2, <1>3, TransferIsJournal, TransferInOneBook DEF PostsTransfer
<1>4. CASE PostsLoan /\ KeepsTax
  BY <1>2, <1>4, LoanIsJournal, LoanInBook DEF PostsLoan
<1>5. CASE PostsInterest /\ KeepsTax
  <2>1. PICK c \in Character, n \in Int :
          n > 0 /\ BulkCreate(InterestEntries(c, n), InterestChange(c, n))
    BY <1>5 DEF PostsInterest
  <2>2. \A b \in Book : InBook(InterestEntries(c, n), b) = 0
    BY TransferInOneBook, Books, ChartOfAccounts DEF InterestEntries
  <2> QED BY <1>2, <1>5, <2>1, <2>2, InterestIsJournal
<1>6. CASE PostsWealthTax
  <2>1. PICK c \in Character, n \in Int :
          /\ n > 0
          /\ BulkCreate(WealthTaxEntries(c, n), WealthTaxChange(c, n))
          /\ Lose("wealthTax", -n)
    BY <1>6 DEF PostsWealthTax
  <2>2. \A b \in Book : trial'[b] = trial[b] + n
    BY <2>1, WealthTaxInBook DEF BulkCreate
  <2>3. leak'["wealthTax"] = leak["wealthTax"] - n /\ leak["wealthTax"] \in Int
    BY <2>1 DEF Lose, TypeOK, Cause
  <2> QED BY <2>1, <2>2, <2>3 DEF BooksTiltByWealthTaxOnly
<1> QED BY <1>1, <1>3, <1>4, <1>5, <1>6 DEF LedgerStep

-----------------------------------------------------------------------------
(* Types, the balances and the books, together: one inductive invariant.   *)
BooksInv == TypeOK /\ Owned /\ BalanceMatchesRows /\ BooksTiltByWealthTaxOnly

LEMMA BooksInit == Init => BooksInv
<1> SUFFICES ASSUME Init PROVE BooksInv
  OBVIOUS
<1>1. TypeOK
  BY InitTypeOK
<1>2. Owned
  BY DEF Init, Owned, Idle, Impersonal
<1>3. BalanceMatchesRows
  BY TreasuryAssumption DEF Init, BalanceMatchesRows
<1>4. BooksTiltByWealthTaxOnly
  <2>1. leak["wealthTax"] = 0 /\ \A b \in Book : trial[b] = 0
    BY DEF Init, Cause
  <2> QED BY <2>1 DEF BooksTiltByWealthTaxOnly
<1> QED BY <1>1, <1>2, <1>3, <1>4 DEF BooksInv

LEMMA BooksNext == BooksInv /\ [Next]_vars => BooksInv'
<1> SUFFICES ASSUME BooksInv, [Next]_vars PROVE BooksInv'
  OBVIOUS
<1>1. CASE Next
  BY <1>1, NextKeeps, LedgerStepMatches, LedgerStepTilts DEF BooksInv
<1>2. CASE UNCHANGED vars
  BY <1>2 DEF vars, BooksInv, TypeOK, Owned, BalanceMatchesRows,
              BooksTiltByWealthTaxOnly
<1> QED BY <1>1, <1>2

LEMMA BooksInvariant == Spec => []BooksInv
BY BooksInit, BooksNext, PTL DEF Spec

(* The state stays well typed, and no coroutine ever carries an amount its *)
(* caller could not have asked for, however the operations interleave.     *)
THEOREM TypeCorrect == Spec => []TypeOK
BY BooksInvariant, PTL DEF BooksInv

(* Every stored balance is at all times the signed sum of its rows.        *)
THEOREM BalancesMatchRows == Spec => []BalanceMatchesRows
BY BooksInvariant, PTL DEF BooksInv

(* Both books are balanced except for the wealth tax collected.            *)
THEOREM BooksTilt == Spec => []BooksTiltByWealthTaxOnly
BY BooksInvariant, PTL DEF BooksInv

-----------------------------------------------------------------------------
(* The overshoot: how far the race between a check and its journal can     *)
(* carry an account below its limit.                                       *)
Level(a) == balance[a] + Exempted(a)

Bounded(a) ==
  Level(a) >= Limit(a) - MaxAmount * (Cardinality(Task) - Cardinality(Drawing(a)))

LEMMA Monotone ==
  ASSUME NEW m \in Nat, NEW x \in Int, NEW y \in Int, x <= y
  PROVE  m * x <= m * y
OBVIOUS

LEMMA OneMore ==
  ASSUME NEW m \in Nat, NEW x \in Int
  PROVE  m * (x + 1) = m * x + m
OBVIOUS

LEMMA GuardedIsAccount == \A a \in Guarded : a \in Account
BY ChartOfAccounts DEF Guarded

LEMMA LevelType ==
  ASSUME TypeOK, NEW a \in Guarded
  PROVE  Level(a) \in Int /\ Limit(a) \in Int
BY GuardedIsAccount, TreasuryAssumption DEF TypeOK, Level, Exempted, Limit

LEMMA DrawingFinite ==
  \A a : /\ Drawing(a) \subseteq Task /\ IsFiniteSet(Drawing(a))
        /\ Cardinality(Drawing(a)) \in Nat /\ Cardinality(Task) \in Nat
        /\ Cardinality(Drawing(a)) <= Cardinality(Task)
<1> TAKE a
<1>1. Drawing(a) \subseteq Task
  BY DEF Drawing
<1> QED BY <1>1, TreasuryAssumption, FS_Subset, FS_CardinalityType

(* Three ways in which a step keeps the bound of an account: it lowers     *)
(* nothing and no coroutine joins those about to draw; it lowers the       *)
(* account by one amount and a drawing coroutine is done; or it leaves the *)
(* account at or above its limit.                                          *)
Eases(a)   == Level(a)' >= Level(a) /\ Drawing(a)' \subseteq Drawing(a)
Draws(t, a) == /\ Level(a)' >= Level(a) - MaxAmount
               /\ t \in Drawing(a) /\ Drawing(a)' \subseteq Drawing(a) \ {t}
Covers(a)  == Level(a)' >= Limit(a)

LEMMA BoundKept ==
  ASSUME TypeOK, TypeOK', NEW a \in Guarded, Bounded(a), NEW t \in Task,
         Eases(a) \/ Draws(t, a) \/ Covers(a)
  PROVE  Bounded(a)'
<1> DEFINE p == Cardinality(Drawing(a))
           q == Cardinality(Drawing(a)')
           k == Cardinality(Task)
<1>1. /\ p \in Nat /\ q \in Nat /\ k \in Nat /\ p <= k /\ q <= k
      /\ IsFiniteSet(Drawing(a)) /\ IsFiniteSet(Drawing(a)')
  <2>1. /\ p \in Nat /\ k \in Nat /\ p <= k /\ IsFiniteSet(Drawing(a))
    BY DrawingFinite
  <2>2. Drawing(a)' \subseteq Task
    BY DEF Drawing
  <2>3. IsFiniteSet(Drawing(a)') /\ q \in Nat /\ q <= k
    BY <2>2, TreasuryAssumption, FS_Subset, FS_CardinalityType
  <2> QED BY <2>1, <2>3
<1>2. /\ Level(a) \in Int /\ Limit(a) \in Int /\ Level(a)' \in Int
      /\ MaxAmount \in Nat
  <2>1. Level(a)' \in Int
    BY GuardedIsAccount, TreasuryAssumption DEF TypeOK, Level, Exempted
  <2> QED BY <2>1, LevelType, TreasuryAssumption
<1>3. Level(a) >= Limit(a) - MaxAmount * (k - p)
  BY DEF Bounded
<1>4. SUFFICES Level(a)' >= Limit(a) - MaxAmount * (k - q)
  BY DEF Bounded, Limit
<1> HIDE DEF p, q, k
<1>5. CASE Eases(a)
  <2>1. q <= p
    BY <1>1, <1>5, FS_Subset DEF Eases, p, q
  <2>2. MaxAmount * (k - p) <= MaxAmount * (k - q)
    BY <1>1, <1>2, <2>1, Monotone
  <2>3. MaxAmount * (k - p) \in Int /\ MaxAmount * (k - q) \in Int
    BY <1>1, <1>2
  <2> QED BY <1>2, <1>3, <1>5, <2>2, <2>3 DEF Eases
<1>6. CASE Draws(t, a)
  <2>1. q <= p - 1
    <3>1. /\ IsFiniteSet(Drawing(a) \ {t})
          /\ Cardinality(Drawing(a) \ {t}) = p - 1
      BY <1>1, <1>6, FS_RemoveElement DEF Draws, p
    <3> QED BY <1>6, <3>1, FS_Subset DEF Draws, q
  <2>2. MaxAmount * (k - p + 1) <= MaxAmount * (k - q)
    BY <1>1, <1>2, <2>1, Monotone
  <2>3. MaxAmount * (k - p + 1) = MaxAmount * (k - p) + MaxAmount
    BY <1>1, <1>2, OneMore
  <2>4. MaxAmount * (k - p) \in Int /\ MaxAmount * (k - q) \in Int
    BY <1>1, <1>2
  <2> QED BY <1>2, <1>3, <1>6, <2>2, <2>3, <2>4 DEF Draws
<1>7. CASE Covers(a)
  <2>1. MaxAmount * 0 <= MaxAmount * (k - q)
    BY <1>1, <1>2, Monotone
  <2>2. MaxAmount * (k - q) \in Int
    BY <1>1, <1>2
  <2> QED BY <1>2, <1>7, <2>1, <2>2 DEF Covers
<1> QED BY <1>5, <1>6, <1>7

-----------------------------------------------------------------------------
(* What a transfer does to the balance of an account.                      *)
LEMMA TransferBalance ==
  ASSUME TypeOK, NEW x \in Account, NEW y \in Account, x # y, NEW n \in Int,
         CreateJournalEntry(Transfer(x, y, n)), NEW a \in Account
  PROVE  balance'[a] =
           balance[a] + (IF n > 0 /\ a = x
                         THEN IF DebitNormal(a) THEN n ELSE -n
                         ELSE IF n > 0 /\ a = y
                         THEN IF DebitNormal(a) THEN -n ELSE n
                         ELSE 0)
<1> DEFINE j == Transfer(x, y, n)
           m == IF n > 0 THEN n ELSE 0
<1>1. /\ Debit(j[1]) = m /\ Credit(j[1]) = 0
      /\ Debit(j[2]) = 0 /\ Credit(j[2]) = m
      /\ Debit(j[3]) = 0 /\ Credit(j[3]) = 0
  BY DEF Transfer, DebitLine, CreditLine, NoLine, Debit, Credit, Kept
<1>2. j[1].account = x /\ j[2].account = y
  BY DEF Transfer, DebitLine, CreditLine
<1>3. m \in Int
  OBVIOUS
<1>4. Change(j, a) = (IF a = x THEN IF DebitNormal(a) THEN m ELSE -m ELSE 0)
                       + (IF a = y THEN IF DebitNormal(a) THEN -m ELSE m ELSE 0)
  <2>1. LineChange(j[1], a) = IF a = x THEN IF DebitNormal(a) THEN m ELSE -m ELSE 0
    BY <1>1, <1>2, <1>3 DEF LineChange, BalanceChange
  <2>2. LineChange(j[2], a) = IF a = y THEN IF DebitNormal(a) THEN -m ELSE m ELSE 0
    BY <1>1, <1>2, <1>3 DEF LineChange, BalanceChange
  <2>3. LineChange(j[3], a) = 0
    BY <1>1 DEF LineChange, BalanceChange
  <2> QED BY <1>3, <2>1, <2>2, <2>3 DEF Change
<1>5. ~Rejected(j)
  BY TransferNeverRejected
<1>6. Empty(j) <=> m = 0
  BY <1>1, <1>3 DEF Empty, TotalDebit, TotalCredit
<1>7. balance[a] \in Int
  BY DEF TypeOK
<1>8. CASE m = 0
  <2>1. balance'[a] = balance[a]
    BY <1>6, <1>8 DEF CreateJournalEntry, Accepted, ledger
  <2> QED BY <1>7, <1>8, <2>1
<1>9. CASE m # 0
  <2>1. balance'[a] = balance[a] + Change(j, a)
    BY <1>5, <1>6, <1>9 DEF CreateJournalEntry, Accepted
  <2> QED BY <1>4, <1>7, <1>9, <2>1
<1> QED BY <1>8, <1>9

(* The sides of the accounts that the journals move money between.         *)
LEMMA NamedNormal ==
  /\ \A c \in Character : ~DebitNormal(Checking(c)) /\ DebitNormal(Loan(c))
  /\ DebitNormal(BankVault) /\ DebitNormal(TreasuryFund)
  /\ DebitNormal(TreasuryExpenses) /\ DebitNormal(Reserves)
  /\ DebitNormal(FundInBank)
  /\ ~DebitNormal(BankEquity) /\ ~DebitNormal(TreasuryRevenue)
  /\ ~DebitNormal(ConfiscationRevenue) /\ ~DebitNormal(RentRevenue)
  /\ ~DebitNormal(TaxRevenue)
BY DEF DebitNormal, Checking, Loan, BankVault, TreasuryFund, TreasuryExpenses,
       Reserves, FundInBank, BankEquity, TreasuryRevenue, ConfiscationRevenue,
       RentRevenue, TaxRevenue

LEMMA Distinct ==
  /\ BankVault \notin Guarded /\ BankEquity \notin Guarded
  /\ \A c \in Character : Checking(c) # BankVault /\ Loan(c) # BankVault
  /\ BankVault # BankEquity /\ TreasuryFund # TreasuryRevenue
  /\ TreasuryFund # TreasuryExpenses /\ TreasuryFund # ConfiscationRevenue
  /\ TreasuryFund # RentRevenue /\ TreasuryFund # TaxRevenue
  /\ TreasuryFund # Reserves /\ TreasuryFund # FundInBank
BY DEF Guarded, Checking, Loan, BankVault, TreasuryFund, TreasuryExpenses,
       Reserves, FundInBank, BankEquity, TreasuryRevenue, ConfiscationRevenue,
       RentRevenue, TaxRevenue

(* A transfer lowers an account only when it credits a debit-normal one or *)
(* debits a credit-normal one, and by no more than its amount.             *)
LEMMA TransferLowers ==
  ASSUME TypeOK, NEW x \in Account, NEW y \in Account, x # y, NEW n \in Int,
         CreateJournalEntry(Transfer(x, y, n)), NEW a \in Guarded
  PROVE  \/ balance'[a] >= balance[a]
         \/ /\ n > 0 /\ balance'[a] = balance[a] - n
            /\ (a = y /\ DebitNormal(y)) \/ (a = x /\ ~DebitNormal(x))
<1>1. a \in Account /\ balance[a] \in Int
  BY GuardedIsAccount DEF TypeOK
<1>2. balance'[a] =
        balance[a] + (IF n > 0 /\ a = x
                      THEN IF DebitNormal(a) THEN n ELSE -n
                      ELSE IF n > 0 /\ a = y
                      THEN IF DebitNormal(a) THEN -n ELSE n
                      ELSE 0)
  BY <1>1, TransferBalance
<1>3. CASE n > 0 /\ a = x
  BY <1>1, <1>2, <1>3
<1>4. CASE n > 0 /\ a = y /\ a # x
  BY <1>1, <1>2, <1>4
<1>5. CASE ~(n > 0 /\ a \in {x, y})
  BY <1>1, <1>2, <1>5
<1> QED BY <1>3, <1>4, <1>5

(* The journals that lower no guarded account.                             *)
LEMMA RaisingJournals ==
  ASSUME TypeOK, NEW n \in Int, NEW a \in Guarded,
         \/ \E c \in Character : CreateJournalEntry(DepositEntries(c, n))
         \/ CreateJournalEntry(DonationEntries(n))
         \/ CreateJournalEntry(ConfiscationEntries(n))
         \/ CreateJournalEntry(RentEntries(n))
         \/ CreateJournalEntry(TaxEntries(n))
         \/ CreateJournalEntry(EquityInEntries(n))
         \/ CreateJournalEntry(EquityOutEntries(n))
  PROVE  balance'[a] >= balance[a]
<1>1. ASSUME NEW x \in Account, NEW y \in Account, x # y,
             CreateJournalEntry(Transfer(x, y, n)),
             ~DebitNormal(y) \/ y \notin Guarded,
             DebitNormal(x) \/ x \notin Guarded
      PROVE  balance'[a] >= balance[a]
  BY <1>1, TransferLowers
<1>2. /\ BankVault \in Account /\ BankEquity \in Account
      /\ \A c \in Character : Checking(c) \in Account
      /\ TreasuryFund \in Account /\ TreasuryRevenue \in Account
      /\ ConfiscationRevenue \in Account /\ RentRevenue \in Account
      /\ TaxRevenue \in Account
  BY ChartOfAccounts
<1> QED
  BY <1>1, <1>2, NamedNormal, Distinct
     DEF DepositEntries, DonationEntries, ConfiscationEntries, RentEntries,
         TaxEntries, EquityInEntries, EquityOutEntries

(* The journals that lower one guarded account, and which one.             *)
LEMMA LoweringJournals ==
  ASSUME TypeOK, NEW n \in Int, NEW a \in Guarded
  PROVE  /\ \A c \in Character :
              CreateJournalEntry(WithdrawalEntries(c, n))
                => balance'[a] >= balance[a]
                   \/ (a = Checking(c) /\ n > 0 /\ balance'[a] = balance[a] - n)
         /\ CreateJournalEntry(ExpenseEntries(n))
              => balance'[a] >= balance[a]
                 \/ (a = TreasuryFund /\ n > 0 /\ balance'[a] = balance[a] - n)
         /\ \A c \in Character :
              CreateJournalEntry(RepaymentEntries(c, n))
                => balance'[a] >= balance[a]
                   \/ (a = Loan(c) /\ n > 0 /\ balance'[a] = balance[a] - n)
         /\ CreateJournalEntry(NircEntries(n))
              => balance'[a] >= balance[a]
                 \/ (a = Reserves /\ n > 0 /\ balance'[a] = balance[a] - n)
         /\ CreateJournalEntry(FundToBankEntries(n))
              => balance'[a] >= balance[a]
                 \/ (a = TreasuryFund /\ n > 0 /\ balance'[a] = balance[a] - n)
         /\ CreateJournalEntry(BankToFundEntries(n))
              => balance'[a] >= balance[a]
                 \/ (a = FundInBank /\ n > 0 /\ balance'[a] = balance[a] - n)
<1>1. ASSUME NEW x \in Account, NEW y \in Account, x # y,
             CreateJournalEntry(Transfer(x, y, n))
      PROVE  \/ balance'[a] >= balance[a]
             \/ /\ n > 0 /\ balance'[a] = balance[a] - n
                /\ (a = y /\ DebitNormal(y)) \/ (a = x /\ ~DebitNormal(x))
  BY <1>1, TransferLowers
<1>2. /\ BankVault \in Account
      /\ \A c \in Character : Checking(c) \in Account /\ Loan(c) \in Account
      /\ TreasuryFund \in Account /\ TreasuryExpenses \in Account
      /\ Reserves \in Account /\ FundInBank \in Account
  BY ChartOfAccounts
<1>3. /\ BankVault \notin Guarded
      /\ \A c \in Character : /\ Checking(c) # BankVault /\ Loan(c) # BankVault
                              /\ ~DebitNormal(Checking(c))
      /\ TreasuryFund # TreasuryExpenses
      /\ TreasuryFund # Reserves /\ TreasuryFund # FundInBank
      /\ DebitNormal(BankVault)
      /\ DebitNormal(TreasuryFund) /\ DebitNormal(TreasuryExpenses)
      /\ DebitNormal(FundInBank)
  BY Distinct, NamedNormal
<1>4. \A c \in Character : CreateJournalEntry(WithdrawalEntries(c, n))
        => balance'[a] >= balance[a]
           \/ (a = Checking(c) /\ n > 0 /\ balance'[a] = balance[a] - n)
  BY <1>1, <1>2, <1>3 DEF WithdrawalEntries
<1>5. CreateJournalEntry(ExpenseEntries(n))
        => balance'[a] >= balance[a]
           \/ (a = TreasuryFund /\ n > 0 /\ balance'[a] = balance[a] - n)
  BY <1>1, <1>2, <1>3 DEF ExpenseEntries
<1>6. \A c \in Character : CreateJournalEntry(RepaymentEntries(c, n))
        => balance'[a] >= balance[a]
           \/ (a = Loan(c) /\ n > 0 /\ balance'[a] = balance[a] - n)
  BY <1>1, <1>2, <1>3 DEF RepaymentEntries
<1>7. CreateJournalEntry(NircEntries(n))
        => balance'[a] >= balance[a]
           \/ (a = Reserves /\ n > 0 /\ balance'[a] = balance[a] - n)
  BY <1>1, <1>2, <1>3 DEF NircEntries
<1>8. CreateJournalEntry(FundToBankEntries(n))
        => balance'[a] >= balance[a]
           \/ (a = TreasuryFund /\ n > 0 /\ balance'[a] = balance[a] - n)
  BY <1>1, <1>2, <1>3 DEF FundToBankEntries
<1>9. CreateJournalEntry(BankToFundEntries(n))
        => balance'[a] >= balance[a]
           \/ (a = FundInBank /\ n > 0 /\ balance'[a] = balance[a] - n)
  BY <1>1, <1>2, <1>3 DEF BankToFundEntries
<1> QED BY <1>4, <1>5, <1>6, <1>7, <1>8, <1>9

-----------------------------------------------------------------------------
(* Which coroutines are about to draw, after one of them has moved.        *)
DrawingAt == {"salary", "subsidyExpense", "laundering", "grant", "withdraw",
              "donate", "wealthTax", "repay", "bankWithdrawal", "nirc"}

Quiet(t) == Done(t) \/ \E at \in At, c \in Holder, n \in Int :
                          at \notin DrawingAt /\ Goto(t, at, c, n)

LEMMA GotoDrawing ==
  ASSUME TypeOK, NEW t \in Task, NEW at, NEW c, NEW n, Goto(t, at, c, n), NEW a,
         ~DrawsOn([at |-> at, who |-> c, amt |-> n], a)
  PROVE  Drawing(a)' \subseteq Drawing(a) \ {t}
<1>1. /\ task'[t] = [at |-> at, who |-> c, amt |-> n]
      /\ \A u \in Task \ {t} : task'[u] = task[u]
  BY DEF Goto, TypeOK
<1>2. ~DrawsOn(task'[t], a)
  BY <1>1
<1> QED BY <1>1, <1>2 DEF Drawing

LEMMA QuietDrawing ==
  ASSUME TypeOK, NEW t \in Task, Quiet(t), NEW a
  PROVE  Drawing(a)' \subseteq Drawing(a) \ {t}
<1>1. PICK at, c, n : Goto(t, at, c, n) /\ at \notin DrawingAt
  BY DEF Quiet, Done, Idle, Goto, DrawingAt
<1>2. ~DrawsOn([at |-> at, who |-> c, amt |-> n], a)
  BY <1>1 DEF DrawsOn, DrawingAt
<1> QED BY <1>1, <1>2, GotoDrawing

LEMMA LevelMoves ==
  ASSUME UNCHANGED unchecked, NEW a
  PROVE  Level(a)' = balance'[a] + Exempted(a)
BY DEF Level, Exempted

LEMMA LevelParts ==
  ASSUME TypeOK, TypeOK', NEW a \in Guarded
  PROVE  balance[a] \in Int /\ balance'[a] \in Int /\ Exempted(a) \in Int
         /\ Limit(a) \in Int
BY GuardedIsAccount, LevelType DEF TypeOK, Exempted

(* A step that draws on nothing new and lowers nothing.                    *)
LEMMA RaisingEases ==
  ASSUME TypeOK, TypeOK', NEW t \in Task, Quiet(t), UNCHANGED unchecked,
         NEW a \in Guarded, balance'[a] >= balance[a]
  PROVE  Eases(a)
BY QuietDrawing, LevelMoves, LevelParts DEF Eases, Level

LEMMA QuietEases ==
  ASSUME TypeOK, TypeOK', NEW t \in Task, Quiet(t), UNCHANGED unchecked,
         UNCHANGED ledger, NEW a \in Guarded
  PROVE  Eases(a)
<1>1. balance'[a] >= balance[a]
  BY LevelParts DEF ledger
<1> QED BY <1>1, RaisingEases

(* A step that posts what its check has allowed.                           *)
LEMMA LoweringDraws ==
  ASSUME TypeOK, TypeOK', NEW t \in Task, Quiet(t), UNCHANGED unchecked,
         NEW a \in Guarded,
         \/ balance'[a] >= balance[a]
         \/ balance'[a] = balance[a] - task[t].amt /\ DrawsOn(task[t], a)
  PROVE  Eases(a) \/ Draws(t, a)
<1>1. task[t].amt \in Int /\ task[t].amt <= MaxAmount /\ MaxAmount \in Int
  BY TreasuryAssumption DEF TypeOK
<1>2. CASE balance'[a] >= balance[a]
  BY <1>2, RaisingEases
<1>3. CASE balance'[a] = balance[a] - task[t].amt /\ DrawsOn(task[t], a)
  <2>1. t \in Drawing(a)
    BY <1>3 DEF Drawing
  <2>2. Level(a)' >= Level(a) - MaxAmount
    BY <1>1, <1>3, LevelMoves, LevelParts DEF Level
  <2> QED BY <2>1, <2>2, QuietDrawing DEF Draws
<1> QED BY <1>2, <1>3

(* A step that checks an account before it will be drawn on.               *)
LEMMA CheckCovers ==
  ASSUME TypeOK, TypeOK', NEW t \in Task, NEW at \in At, NEW c \in Holder,
         NEW n \in Int, Goto(t, at, c, n),
         UNCHANGED unchecked, UNCHANGED ledger, NEW a \in Guarded,
         DrawsOn([at |-> at, who |-> c, amt |-> n], a) => balance[a] >= Limit(a)
  PROVE  Eases(a) \/ Covers(a)
<1>0. balance' = balance
  BY DEF ledger
<1>1. CASE DrawsOn([at |-> at, who |-> c, amt |-> n], a)
  <2>1. Exempted(a) >= 0
    BY DEF TypeOK, Exempted
  <2> QED BY <1>0, <1>1, <2>1, LevelMoves, LevelParts DEF Covers
<1>2. CASE ~DrawsOn([at |-> at, who |-> c, amt |-> n], a)
  BY <1>0, <1>2, GotoDrawing, LevelMoves, LevelParts DEF Eases, Level
<1> QED BY <1>1, <1>2

(* No limit is above what the checks compare with.                         *)
LEMMA LimitBelow ==
  /\ \A a \in Guarded : Limit(a) \in Int /\ (a # TreasuryFund => Limit(a) <= 0)
  /\ Limit(TreasuryFund) <= Floor
<1>1. TreasuryFund \in Account /\ \A a \in Guarded : Opening[a] \in Int
  BY GuardedIsAccount, ChartOfAccounts, TreasuryAssumption
<1> QED BY <1>1, TreasuryAssumption DEF Limit, Guarded

(* The steps that post nothing and are about to draw on nothing.           *)
LEMMA QuietPlayerStart ==
  ASSUME TypeOK, NEW t \in Task, NEW c \in Character, NEW n \in Amount,
         \/ SaveFromWallet(t, c, n) \/ ChargeForTreasury(t, c, n)
         \/ BeginSubsidy(t, c, n) \/ BeginTax(t, c, n)
         \/ (\E victim \in Holder : BeginConfiscation(t, victim, c, n))
         \/ BeginLoan(t, c, n) \/ BeginRepayment(t, c, n)
         \/ BeginInterest(t, c, n)
  PROVE  Quiet(t) /\ UNCHANGED ledger /\ UNCHANGED unchecked
<1>0. /\ c \in Holder /\ n \in Int /\ balance[TreasuryFund] \in Int
      /\ balance[Loan(c)] \in Int /\ MaxLoan \in Int
  BY AmountIsInt, ChartOfAccounts, TreasuryAssumption DEF Holder, TypeOK
<1>1. ASSUME NEW at \in At \ DrawingAt, NEW h \in Holder, NEW m \in Int,
             Goto(t, at, h, m)
      PROVE  Quiet(t)
  BY <1>1 DEF Quiet
<1>2. CASE SaveFromWallet(t, c, n)
  BY <1>0, <1>1, <1>2 DEF SaveFromWallet, At, DrawingAt
<1>3. CASE ChargeForTreasury(t, c, n)
  BY <1>0, <1>1, <1>3 DEF ChargeForTreasury, At, DrawingAt
<1>4. CASE BeginSubsidy(t, c, n)
  BY <1>0, <1>1, <1>4 DEF BeginSubsidy, At, DrawingAt
<1>5. CASE BeginTax(t, c, n)
  BY <1>0, <1>1, <1>5 DEF BeginTax, At, DrawingAt
<1>6. CASE \E victim \in Holder : BeginConfiscation(t, victim, c, n)
  BY <1>0, <1>1, <1>6 DEF BeginConfiscation, At, DrawingAt
<1>7. CASE BeginLoan(t, c, n)
  <2>1. LoanAmount(c, n) \in Int
    BY <1>0 DEF LoanAmount
  <2> QED BY <1>0, <1>1, <1>7, <2>1 DEF BeginLoan, At, DrawingAt
<1>8. CASE BeginRepayment(t, c, n)
  BY <1>0, <1>1, <1>8 DEF BeginRepayment, At, DrawingAt
<1>9. CASE BeginInterest(t, c, n)
  BY <1>0, <1>1, <1>9 DEF BeginInterest, At, DrawingAt
<1> QED BY <1>2, <1>3, <1>4, <1>5, <1>6, <1>7, <1>8, <1>9

LEMMA QuietStep ==
  ASSUME TypeOK, NEW t \in Task,
         \/ PayWallet(t) \/ PayWalletFails(t) \/ AddTotalDonations(t)
         \/ PaySubsidy(t) \/ PaySubsidyFails(t) \/ RegisterTaxRaises(t)
         \/ RefundTax(t) \/ Crash(t)
  PROVE  Quiet(t) /\ UNCHANGED ledger /\ UNCHANGED unchecked
<1>1. task[t].who \in Holder /\ task[t].amt \in Int
  BY DEF TypeOK
<1>2. CASE PayWallet(t) \/ PayWalletFails(t) \/ AddTotalDonations(t)
           \/ PaySubsidyFails(t) \/ RefundTax(t) \/ Crash(t)
  BY <1>2 DEF PayWallet, PayWalletFails, AddTotalDonations, PaySubsidyFails,
              RefundTax, Crash, Quiet
<1>3. CASE PaySubsidy(t)
  BY <1>1, <1>3 DEF PaySubsidy, Quiet, At, DrawingAt
<1>4. CASE RegisterTaxRaises(t)
  BY <1>1, <1>4 DEF RegisterTaxRaises, Quiet, At, DrawingAt
<1> QED BY <1>2, <1>3, <1>4

(* A loan raises the debt and lowers only the vault, which has no limit.   *)
LEMMA LoanRaises ==
  ASSUME TypeOK, NEW c \in Character, NEW n \in Int, NEW fee \in Nat,
         fee = 0 \/ n > 0, CreateJournalEntry(LoanEntries(c, n, fee)),
         NEW a \in Guarded
  PROVE  balance'[a] >= balance[a]
<1> DEFINE j == LoanEntries(c, n, fee)
<1>1. balance[a] \in Int /\ a \in Account
  BY GuardedIsAccount DEF TypeOK
<1>2. a # BankRevenue /\ a # BankVault /\ DebitNormal(Loan(c))
  <2>1. \A d \in Character : Checking(d) # BankRevenue /\ Loan(d) # BankRevenue
    BY DEF Checking, Loan, BankRevenue
  <2>2. /\ TreasuryFund # BankRevenue /\ FundInBank # BankRevenue
        /\ Reserves # BankRevenue
    BY DEF TreasuryFund, FundInBank, Reserves, BankRevenue
  <2> QED BY <2>1, <2>2, NamedNormal, Distinct DEF Guarded
<1>3. LineChange(j[1], a) >= 0 /\ LineChange(j[1], a) \in Int
  BY <1>2 DEF LoanEntries, LineChange, DebitLine, BalanceChange, Debit, Credit, Kept
<1>4. LineChange(j[2], a) = 0 /\ LineChange(j[3], a) = 0
  BY <1>2 DEF LoanEntries, LineChange, CreditLine, BalanceChange, Debit, Credit
<1>5. Change(j, a) >= 0 /\ Change(j, a) \in Int
  BY <1>3, <1>4 DEF Change
<1>6. CASE Accepted(j)
  BY <1>1, <1>5, <1>6 DEF CreateJournalEntry
<1>7. CASE ~Accepted(j)
  BY <1>1, <1>7 DEF CreateJournalEntry, ledger
<1> QED BY <1>6, <1>7

(* The account that a coroutine at each check is about to draw on.         *)
LEMMA DrawnAccount ==
  ASSUME NEW c, NEW n, NEW a
  PROVE  /\ DrawsOn([at |-> "withdraw", who |-> c, amt |-> n], a) => a = Checking(c)
         /\ DrawsOn([at |-> "donate", who |-> c, amt |-> n], a) => a = Checking(c)
         /\ DrawsOn([at |-> "wealthTax", who |-> c, amt |-> n], a) => a = Checking(c)
         /\ DrawsOn([at |-> "repay", who |-> c, amt |-> n], a)
              => a = Loan(c) /\ n > 0
         /\ DrawsOn([at |-> "nirc", who |-> c, amt |-> n], a) => a = Reserves
         /\ DrawsOn([at |-> "bankWithdrawal", who |-> c, amt |-> n], a)
              => a = FundInBank
BY DEF DrawsOn

LEMMA NotTheFund ==
  /\ \A c \in Character : Checking(c) # TreasuryFund /\ Loan(c) # TreasuryFund
  /\ Reserves # TreasuryFund /\ FundInBank # TreasuryFund
BY DEF Checking, Loan, Reserves, FundInBank, TreasuryFund

(* The steps that check an account, or that begin by posting.              *)
LEMMA PlayerStartBounded ==
  ASSUME TypeOK, TypeOK', NEW t \in Task, NEW c \in Character, NEW n \in Amount,
         PlayerStart(t, c, n), NEW a \in Guarded
  PROVE  Eases(a) \/ Draws(t, a) \/ Covers(a)
<1>0. /\ c \in Holder /\ n \in Int /\ n >= 1 /\ n <= MaxAmount /\ MaxAmount \in Nat
      /\ balance[TreasuryFund] \in Int /\ balance[Checking(c)] \in Int
      /\ Floor \in Int /\ Exempt \in Nat
  BY AmountIsInt, ChartOfAccounts, TreasuryAssumption DEF Holder, TypeOK
<1>1. /\ Limit(a) \in Int /\ (a # TreasuryFund => Limit(a) <= 0)
      /\ Limit(TreasuryFund) <= Floor /\ Limit(TreasuryFund) \in Int
  BY LimitBelow DEF Guarded
<1>2. CASE CheckWithdrawal(t, c, n, "withdraw")
  <2>1. DrawsOn([at |-> "withdraw", who |-> c, amt |-> n], a)
          => a = Checking(c) /\ a # TreasuryFund
    BY DrawnAccount, NotTheFund
  <2>2. balance[Checking(c)] >= 0
    BY <1>0, <1>2 DEF CheckWithdrawal
  <2> QED BY <1>0, <1>1, <1>2, <2>1, <2>2, CheckCovers DEF CheckWithdrawal, At
<1>3. CASE CheckWithdrawal(t, c, n, "donate")
  <2>1. DrawsOn([at |-> "donate", who |-> c, amt |-> n], a)
          => a = Checking(c) /\ a # TreasuryFund
    BY DrawnAccount, NotTheFund
  <2>2. balance[Checking(c)] >= 0
    BY <1>0, <1>3 DEF CheckWithdrawal
  <2> QED BY <1>0, <1>1, <1>3, <2>1, <2>2, CheckCovers DEF CheckWithdrawal, At
<1>4. CASE BeginSalary(t, c, n)
  <2>1. CASE check_treasury_floor(n)
    <3>1. DrawsOn([at |-> "salary", who |-> c, amt |-> n], a) => a = TreasuryFund
      BY DEF DrawsOn
    <3>2. balance[TreasuryFund] >= Floor
      BY <1>0, <2>1 DEF check_treasury_floor
    <3> QED BY <1>0, <1>1, <1>4, <2>1, <3>1, <3>2, CheckCovers DEF BeginSalary, At
  <2>2. CASE ~check_treasury_floor(n)
    BY <1>0, <1>4, <2>2, QuietEases DEF BeginSalary, Quiet, At, DrawingAt
  <2> QED BY <2>1, <2>2
<1>5. CASE BeginGrant(t, c, n)
  <2>1. DrawsOn([at |-> "grant", who |-> c, amt |-> n], a) => a = TreasuryFund
    BY DEF DrawsOn
  <2>2. balance[TreasuryFund] >= Floor
    BY <1>0, <1>5 DEF BeginGrant, check_treasury_floor
  <2> QED BY <1>0, <1>1, <1>5, <2>1, <2>2, CheckCovers DEF BeginGrant, At
<1>6. CASE \E rebate \in 0 .. MaxAmount : ReceiveRent(t, c, n, rebate)
  <2>1. PICK rebate \in 0 .. MaxAmount : ReceiveRent(t, c, n, rebate)
    BY <1>6
  <2>2. balance'[a] >= balance[a]
    BY <1>0, <2>1, RaisingJournals DEF ReceiveRent
  <2>3. Quiet(t) /\ UNCHANGED unchecked
    BY <1>0, <2>1 DEF ReceiveRent, Quiet, At, DrawingAt
  <2> QED BY <2>2, <2>3, RaisingEases
<1>7. CASE BeginWealthTax(t, c, n)
  <2>1. DrawsOn([at |-> "wealthTax", who |-> c, amt |-> n], a)
          => a = Checking(c) /\ a # TreasuryFund
    BY DrawnAccount, NotTheFund
  <2>2. balance[Checking(c)] >= 0
    BY <1>0, <1>7 DEF BeginWealthTax
  <2> QED BY <1>0, <1>1, <1>7, <2>1, <2>2, CheckCovers DEF BeginWealthTax, At
<1> QED
  BY <1>2, <1>3, <1>4, <1>5, <1>6, <1>7, QuietPlayerStart, QuietEases DEF PlayerStart

LEMMA TreasuryStartBounded ==
  ASSUME TypeOK, TypeOK', NEW t \in Task, NEW n \in Amount,
         TreasuryStart(t, n), NEW a \in Guarded
  PROVE  Eases(a) \/ Draws(t, a) \/ Covers(a)
<1>0. /\ Internal \in Holder /\ n \in Int /\ n >= 1
      /\ balance[TreasuryFund] \in Int /\ balance[FundInBank] \in Int
      /\ balance[Reserves] \in Int /\ Floor \in Int
  BY AmountIsInt, ChartOfAccounts, TreasuryAssumption DEF Holder, TypeOK
<1>1. /\ Limit(a) \in Int /\ (a # TreasuryFund => Limit(a) <= 0)
      /\ Limit(TreasuryFund) <= Floor /\ Limit(TreasuryFund) \in Int
  BY LimitBelow DEF Guarded
<1>2. CASE BeginLaundering(t, n)
  <2>1. DrawsOn([at |-> "laundering", who |-> Internal, amt |-> n], a)
          => a = TreasuryFund
    BY DEF DrawsOn
  <2>2. balance[TreasuryFund] >= Floor
    BY <1>0, <1>2 DEF BeginLaundering, check_treasury_floor
  <2> QED BY <1>0, <1>1, <1>2, <2>1, <2>2, CheckCovers DEF BeginLaundering, At
<1>3. CASE BeginNirc(t, n)
  <2>1. DrawsOn([at |-> "nirc", who |-> Internal, amt |-> n], a)
          => a = Reserves /\ a # TreasuryFund
    BY DrawnAccount, NotTheFund
  <2>2. n * NircDivisor >= 0
    <3>1. NircDivisor \in Nat /\ n \in Nat
      BY <1>0, TreasuryAssumption
    <3>2. n * 0 <= n * NircDivisor
      BY <3>1, Monotone
    <3> QED BY <3>1, <3>2
  <2>3. n * NircDivisor \in Int
    BY <1>0, TreasuryAssumption
  <2>4. balance[Reserves] >= 0
    BY <1>0, <1>3, <2>2, <2>3 DEF BeginNirc
  <2> QED BY <1>0, <1>1, <1>3, <2>1, <2>4, CheckCovers DEF BeginNirc, At
<1>4. CASE CheckBankWithdrawal(t, n)
  <2>1. DrawsOn([at |-> "bankWithdrawal", who |-> Internal, amt |-> n], a)
          => a = FundInBank /\ a # TreasuryFund
    BY DrawnAccount, NotTheFund
  <2>2. balance[FundInBank] >= 0
    BY <1>0, <1>4 DEF CheckBankWithdrawal
  <2> QED BY <1>0, <1>1, <1>4, <2>1, <2>2, CheckCovers DEF CheckBankWithdrawal, At
<1>5. CASE DepositTreasuryFund(t, n)
  <2>1. /\ CreateJournalEntry(FundToBankEntries(n)) /\ unchecked' = unchecked + n
        /\ Quiet(t)
    BY <1>0, <1>5 DEF DepositTreasuryFund, Quiet, At, DrawingAt
  <2>2. \/ balance'[a] >= balance[a]
        \/ a = TreasuryFund /\ balance'[a] = balance[a] - n
    BY <1>0, <2>1, LoweringJournals
  <2>3. Level(a)' = balance'[a] + (IF a = TreasuryFund THEN unchecked + n ELSE 0)
    BY <2>1 DEF Level, Exempted
  <2>4. Level(a) = balance[a] + (IF a = TreasuryFund THEN unchecked ELSE 0)
    BY DEF Level, Exempted
  <2>5. balance[a] \in Int /\ balance'[a] \in Int /\ unchecked \in Int
    BY LevelParts DEF TypeOK
  <2>6. Level(a)' >= Level(a)
    BY <1>0, <2>2, <2>3, <2>4, <2>5
  <2> QED BY <2>1, <2>6, QuietDrawing DEF Eases
<1> QED BY <1>2, <1>3, <1>4, <1>5 DEF TreasuryStart

(* Interest adds to every account it touches; the wealth tax takes from    *)
(* the checking account it was computed for and adds to the reserves.      *)
LEMMA BulkMoves ==
  ASSUME TypeOK, NEW c \in Character, NEW n \in Int, n >= 1, NEW a \in Guarded
  PROVE  /\ BulkCreate(InterestEntries(c, n), InterestChange(c, n))
              => balance'[a] >= balance[a]
         /\ BulkCreate(WealthTaxEntries(c, n), WealthTaxChange(c, n))
              => \/ balance'[a] >= balance[a]
                 \/ a = Checking(c) /\ balance'[a] = balance[a] - n
<1>1. a \in Account /\ balance[a] \in Int
  BY GuardedIsAccount DEF TypeOK
<1>2. ASSUME BulkCreate(InterestEntries(c, n), InterestChange(c, n))
      PROVE  balance'[a] >= balance[a]
  <2>1. balance'[a] = balance[a] + InterestChange(c, n)[a]
    BY <1>1, <1>2 DEF BulkCreate
  <2>2. InterestChange(c, n)[a] \in {0, n}
    BY <1>1 DEF InterestChange
  <2> QED BY <1>1, <2>1, <2>2
<1>3. ASSUME BulkCreate(WealthTaxEntries(c, n), WealthTaxChange(c, n))
      PROVE  \/ balance'[a] >= balance[a]
             \/ a = Checking(c) /\ balance'[a] = balance[a] - n
  <2>1. balance'[a] = balance[a] + WealthTaxChange(c, n)[a]
    BY <1>1, <1>3 DEF BulkCreate
  <2>2. WealthTaxChange(c, n)[a] = IF a = Checking(c) THEN -n
                                   ELSE IF a = Reserves THEN n ELSE 0
    BY <1>1 DEF WealthTaxChange
  <2> QED BY <1>1, <2>1, <2>2
<1> QED BY <1>2, <1>3

LEMMA PlayerStepBounded ==
  ASSUME TypeOK, TypeOK', Owned, NEW t \in Task, PlayerStep(t), NEW a \in Guarded
  PROVE  Eases(a) \/ Draws(t, a) \/ Covers(a)
<1> DEFINE c == task[t].who
           n == task[t].amt
<1>0. /\ c \in Holder /\ n \in Int /\ n <= MaxAmount
      /\ task[t].at \notin MayBeNegative => n >= 1
      /\ task[t].at \notin Impersonal => c \in Character
  BY TaskFacts
<1>1. CASE RegisterDeposit(t)
  <2>1. c \in Character
    BY <1>0, <1>1 DEF RegisterDeposit, Resume, Impersonal
  <2> QED BY <1>0, <1>1, <2>1, RaisingJournals, RaisingEases DEF RegisterDeposit, Quiet
<1>2. CASE RegisterWithdrawal(t)
  <2>1. c \in Character /\ task[t].at = "withdraw"
    BY <1>0, <1>2 DEF RegisterWithdrawal, Resume, Impersonal
  <2>2. \/ balance'[a] >= balance[a]
        \/ balance'[a] = balance[a] - n /\ DrawsOn(task[t], a)
    BY <1>0, <1>2, <2>1, LoweringJournals DEF RegisterWithdrawal, DrawsOn
  <2>3. Quiet(t) /\ UNCHANGED unchecked
    BY <1>0, <1>2 DEF RegisterWithdrawal, Quiet, At, DrawingAt
  <2> QED BY <2>2, <2>3, LoweringDraws
<1>3. CASE RegisterDonationWithdrawal(t)
  <2>1. c \in Character /\ task[t].at = "donate"
    BY <1>0, <1>3 DEF RegisterDonationWithdrawal, Resume, Impersonal
  <2>2. \/ balance'[a] >= balance[a]
        \/ balance'[a] = balance[a] - n /\ DrawsOn(task[t], a)
    BY <1>0, <1>3, <2>1, LoweringJournals DEF RegisterDonationWithdrawal, DrawsOn
  <2>3. Quiet(t) /\ UNCHANGED unchecked
    BY <1>0, <1>3 DEF RegisterDonationWithdrawal, Quiet, At, DrawingAt
  <2> QED BY <2>2, <2>3, LoweringDraws
<1>4. CASE RegisterDonation(t)
  <2>1. balance'[a] >= balance[a]
    BY <1>0, <1>4, RaisingJournals DEF RegisterDonation
  <2>2. Quiet(t) /\ UNCHANGED unchecked
    BY <1>0, <1>4 DEF RegisterDonation, Quiet, At, DrawingAt
  <2> QED BY <2>1, <2>2, RaisingEases
<1>5. CASE \E fee \in Fees \cup {0} : RegisterLoan(t, fee)
  <2>1. PICK fee \in Fees \cup {0} : RegisterLoan(t, fee)
    BY <1>5
  <2>2. c \in Character /\ fee \in Nat
    <3>1. fee \in Nat
      BY TreasuryAssumption
    <3> QED BY <1>0, <2>1, <3>1 DEF RegisterLoan, Resume, Impersonal
  <2>3. balance'[a] >= balance[a]
    BY <1>0, <2>1, <2>2, LoanRaises DEF RegisterLoan
  <2>4. Quiet(t) /\ UNCHANGED unchecked
    BY <1>0, <2>1 DEF RegisterLoan, Quiet, At, DrawingAt
  <2> QED BY <2>3, <2>4, RaisingEases
<1>6. CASE CheckRepayment(t)
  <2>1. c \in Character
    BY <1>0, <1>6 DEF CheckRepayment, Resume, Impersonal
  <2>2. Loan(c) \in Account /\ balance[Loan(c)] \in Int
    BY <2>1, ChartOfAccounts DEF TypeOK
  <2>3. CASE balance[Loan(c)] < n
    BY <1>6, <2>3, QuietEases DEF CheckRepayment, Quiet
  <2>4. CASE ~(balance[Loan(c)] < n)
    <3>1. /\ Goto(t, "repay", c, n) /\ UNCHANGED ledger /\ UNCHANGED unchecked
      BY <1>6, <2>4 DEF CheckRepayment
    <3>2. DrawsOn([at |-> "repay", who |-> c, amt |-> n], a)
            => a = Loan(c) /\ n > 0 /\ a # TreasuryFund
      BY <2>1, DrawnAccount, NotTheFund
    <3>3. DrawsOn([at |-> "repay", who |-> c, amt |-> n], a)
            => balance[a] >= Limit(a)
      BY <1>0, <2>2, <2>4, <3>2, LimitBelow
    <3> QED BY <1>0, <3>1, <3>3, CheckCovers DEF At
  <2> QED BY <2>3, <2>4
<1>7. CASE RegisterRepayment(t)
  <2>1. c \in Character /\ task[t].at = "repay"
    BY <1>0, <1>7 DEF RegisterRepayment, Resume, Impersonal
  <2>2. \/ balance'[a] >= balance[a]
        \/ balance'[a] = balance[a] - n /\ DrawsOn(task[t], a)
    BY <1>0, <1>7, <2>1, LoweringJournals DEF RegisterRepayment, DrawsOn
  <2> QED BY <1>7, <2>2, LoweringDraws DEF RegisterRepayment, Quiet
<1>8. CASE BulkCreateInterest(t)
  <2>1. c \in Character /\ n >= 1
    BY <1>0, <1>8 DEF BulkCreateInterest, Resume, Impersonal, MayBeNegative
  <2>2. balance'[a] >= balance[a]
    BY <1>0, <1>8, <2>1, BulkMoves DEF BulkCreateInterest
  <2> QED BY <1>8, <2>2, RaisingEases DEF BulkCreateInterest, Quiet
<1>9. CASE BulkCreateWealthTax(t)
  <2>1. c \in Character /\ n >= 1 /\ task[t].at = "wealthTax"
    BY <1>0, <1>9 DEF BulkCreateWealthTax, Resume, Impersonal, MayBeNegative
  <2>2. \/ balance'[a] >= balance[a]
        \/ balance'[a] = balance[a] - n /\ DrawsOn(task[t], a)
    BY <1>0, <1>9, <2>1, BulkMoves DEF BulkCreateWealthTax, DrawsOn
  <2> QED BY <1>9, <2>2, LoweringDraws DEF BulkCreateWealthTax, Quiet
<1> QED
  BY <1>1, <1>2, <1>3, <1>4, <1>5, <1>6, <1>7, <1>8, <1>9, QuietStep, QuietEases
     DEF PlayerStep

LEMMA TreasuryStepBounded ==
  ASSUME TypeOK, TypeOK', Owned, NEW t \in Task, TreasuryStep(t), NEW a \in Guarded
  PROVE  Eases(a) \/ Draws(t, a) \/ Covers(a)
<1> DEFINE c == task[t].who
           n == task[t].amt
<1>0. /\ c \in Holder /\ n \in Int /\ Internal \in Holder
      /\ task[t].at \notin Impersonal => c \in Character
  BY TaskFacts DEF Holder
<1>1. ASSUME DrawsOn(task[t], TreasuryFund), CreateJournalEntry(ExpenseEntries(n))
      PROVE  \/ balance'[a] >= balance[a]
             \/ balance'[a] = balance[a] - n /\ DrawsOn(task[t], a)
  BY <1>0, <1>1, LoweringJournals
<1>2. CASE RegisterSalary(t)
  <2>1. DrawsOn(task[t], TreasuryFund)
    BY <1>2 DEF RegisterSalary, Resume, DrawsOn
  <2>2. Quiet(t) /\ UNCHANGED unchecked
    BY <1>0, <1>2 DEF RegisterSalary, Quiet, At, DrawingAt
  <2> QED BY <1>1, <1>2, <2>1, <2>2, LoweringDraws DEF RegisterSalary
<1>3. CASE CheckSubsidyFloor(t)
  <2>1. CASE check_treasury_floor(n)
    <3>1. Goto(t, "subsidyExpense", c, n) /\ UNCHANGED ledger /\ UNCHANGED unchecked
      BY <1>3, <2>1 DEF CheckSubsidyFloor
    <3>2. DrawsOn([at |-> "subsidyExpense", who |-> c, amt |-> n], a)
            => a = TreasuryFund
      BY DEF DrawsOn
    <3>3. balance[TreasuryFund] >= Limit(TreasuryFund)
      <4>1. /\ n >= 1 /\ balance[TreasuryFund] \in Int /\ Floor \in Int
            /\ Limit(TreasuryFund) \in Int /\ Limit(TreasuryFund) <= Floor
        BY <1>3, TaskFacts, LimitBelow, ChartOfAccounts, TreasuryAssumption
           DEF CheckSubsidyFloor, Resume, MayBeNegative, Guarded, TypeOK
      <4> QED BY <1>0, <2>1, <4>1 DEF check_treasury_floor
    <3> QED BY <1>0, <3>1, <3>2, <3>3, CheckCovers DEF At
  <2>2. CASE ~check_treasury_floor(n)
    BY <1>3, <2>2, QuietEases DEF CheckSubsidyFloor, Quiet
  <2> QED BY <2>1, <2>2
<1>4. CASE RegisterSubsidy(t)
  <2>1. DrawsOn(task[t], TreasuryFund)
    BY <1>4 DEF RegisterSubsidy, Resume, DrawsOn
  <2> QED BY <1>1, <1>4, <2>1, LoweringDraws DEF RegisterSubsidy, Quiet
<1>5. CASE RegisterLaundering(t)
  <2>1. DrawsOn(task[t], TreasuryFund)
    BY <1>5 DEF RegisterLaundering, Resume, DrawsOn
  <2> QED BY <1>1, <1>5, <2>1, LoweringDraws DEF RegisterLaundering, Quiet
<1>6. CASE RegisterGrant(t)
  <2>1. DrawsOn(task[t], TreasuryFund)
    BY <1>6 DEF RegisterGrant, Resume, DrawsOn
  <2>2. Quiet(t) /\ UNCHANGED unchecked
    BY <1>0, <1>6 DEF RegisterGrant, Quiet, At, DrawingAt
  <2> QED BY <1>1, <1>6, <2>1, <2>2, LoweringDraws DEF RegisterGrant
<1>7. CASE DepositGrant(t)
  <2>1. c \in Character
    BY <1>0, <1>7 DEF DepositGrant, Resume, Impersonal
  <2> QED BY <1>0, <1>7, <2>1, RaisingJournals, RaisingEases DEF DepositGrant, Quiet
<1>8. CASE RegisterTax(t)
  BY <1>0, <1>8, RaisingJournals, RaisingEases DEF RegisterTax, Quiet
<1>9. CASE RegisterConfiscation(t)
  <2>1. balance'[a] >= balance[a]
    BY <1>0, <1>9, RaisingJournals DEF RegisterConfiscation
  <2>2. Quiet(t) /\ UNCHANGED unchecked
    BY <1>0, <1>9 DEF RegisterConfiscation, Quiet, At, DrawingAt
  <2> QED BY <2>1, <2>2, RaisingEases
<1>10. CASE RegisterNirc(t)
  <2>1. DrawsOn(task[t], Reserves)
    BY <1>10 DEF RegisterNirc, Resume, DrawsOn
  <2>2. \/ balance'[a] >= balance[a]
        \/ balance'[a] = balance[a] - n /\ DrawsOn(task[t], a)
    BY <1>0, <1>10, <2>1, LoweringJournals DEF RegisterNirc
  <2> QED BY <1>10, <2>2, LoweringDraws DEF RegisterNirc, Quiet
<1>11. CASE DepositBankEquity(t)
  BY <1>0, <1>11, RaisingJournals, RaisingEases DEF DepositBankEquity, Quiet
<1>12. CASE WithdrawTreasuryFund(t)
  <2>1. DrawsOn(task[t], FundInBank)
    BY <1>12 DEF WithdrawTreasuryFund, Resume, DrawsOn
  <2>2. \/ balance'[a] >= balance[a]
        \/ balance'[a] = balance[a] - n /\ DrawsOn(task[t], a)
    BY <1>0, <1>12, <2>1, LoweringJournals DEF WithdrawTreasuryFund
  <2>3. Quiet(t) /\ UNCHANGED unchecked
    BY <1>0, <1>12 DEF WithdrawTreasuryFund, Quiet, At, DrawingAt
  <2> QED BY <2>2, <2>3, LoweringDraws
<1>13. CASE WithdrawBankEquity(t)
  BY <1>0, <1>13, RaisingJournals, RaisingEases DEF WithdrawBankEquity, Quiet
<1> QED
  BY <1>2, <1>3, <1>4, <1>5, <1>6, <1>7, <1>8, <1>9, <1>10, <1>11, <1>12, <1>13,
     QuietStep, QuietEases DEF TreasuryStep

-----------------------------------------------------------------------------
OvershootInv == TypeOK /\ Owned /\ \A a \in Guarded : Bounded(a)

LEMMA OvershootInit == Init => \A a \in Guarded : Bounded(a)
<1> SUFFICES ASSUME Init, NEW a \in Guarded PROVE Bounded(a)
  OBVIOUS
<1>1. Drawing(a) = {}
  BY DEF Init, Idle, Drawing, DrawsOn
<1>2. /\ Opening[a] \in Int /\ Limit(a) \in Int /\ Limit(a) <= Opening[a]
      /\ Exempted(a) = 0 /\ Level(a) = Opening[a]
  BY GuardedIsAccount, TreasuryAssumption DEF Init, Limit, Exempted, Level
<1>3. MaxAmount * (Cardinality(Task) - Cardinality(Drawing(a))) >= 0
      /\ MaxAmount * (Cardinality(Task) - Cardinality(Drawing(a))) \in Int
  <2>1. Cardinality(Task) \in Nat /\ Cardinality(Drawing(a)) = 0 /\ MaxAmount \in Nat
    BY <1>1, DrawingFinite, FS_EmptySet, TreasuryAssumption
  <2>2. MaxAmount * 0 <= MaxAmount * Cardinality(Task)
    BY <2>1, Monotone
  <2> QED BY <2>1, <2>2
<1> QED BY <1>2, <1>3 DEF Bounded

LEMMA OvershootNext == OvershootInv /\ [Next]_vars => OvershootInv'
<1> SUFFICES ASSUME OvershootInv, [Next]_vars PROVE OvershootInv'
  OBVIOUS
<1>1. CASE Next
  <2>1. TypeOK' /\ Owned'
    BY <1>1, NextKeeps DEF OvershootInv
  <2>2. ASSUME NEW a \in Guarded PROVE Bounded(a)'
    <3>1. PICK t \in Task :
            \/ \E c \in Character, n \in Amount : PlayerStart(t, c, n)
            \/ \E n \in Amount : TreasuryStart(t, n)
            \/ PlayerStep(t) \/ TreasuryStep(t) \/ Crash(t)
      BY <1>1 DEF Next
    <3>2. Eases(a) \/ Draws(t, a) \/ Covers(a)
      BY <2>1, <3>1, PlayerStartBounded, TreasuryStartBounded, PlayerStepBounded,
         TreasuryStepBounded, QuietStep, QuietEases DEF OvershootInv
    <3> QED BY <2>1, <3>2, BoundKept DEF OvershootInv
  <2> QED BY <2>1, <2>2 DEF OvershootInv, Guarded
<1>2. CASE UNCHANGED vars
  <2>1. TypeOK' /\ Owned'
    BY <1>2 DEF OvershootInv, vars, TypeOK, Owned
  <2>2. ASSUME NEW a \in Guarded PROVE Bounded(a)'
    BY <1>2 DEF OvershootInv, vars, Bounded, Level, Exempted, Drawing
  <2> QED BY <2>1, <2>2 DEF OvershootInv, Guarded
<1> QED BY <1>1, <1>2

(* However the checks and the journals of concurrent operations interleave,*)
(* an account ends below its limit by at most one amount for each         *)
(* coroutine that is not still about to draw on it.                        *)
THEOREM Overshoot == Spec => []OvershootBounded
<1>1. Init => OvershootInv
  BY BooksInit, OvershootInit DEF OvershootInv, BooksInv
<1>2. OvershootInv => OvershootBounded
  BY DEF OvershootInv, OvershootBounded, Bounded, Level
<1> QED BY <1>1, <1>2, OvershootNext, PTL DEF Spec

-----------------------------------------------------------------------------
(* Where the cash is: the sums that CashAccountedFor and                   *)
(* DepositMirrorsEquity take over the coroutines, and how much a step      *)
(* moves: b into the cash of the bank and the treasury, h into the         *)
(* treasury's deposit over the bank's equity, w into a wallet, l out of    *)
(* the system.                                                             *)
Carried  == [t \in Task |-> InTransit(task[t])]
Mirrored == [t \in Task |-> Mirroring(task[t])]
Ahead(bal) == bal[FundInBank] - bal[BankEquity]

Posts(b, h) == Cash(balance') = Cash(balance) + b /\ Ahead(balance') = Ahead(balance) + h
Pays(w)  == (w = 0 /\ UNCHANGED wallet) \/ \E c \in Character : Pay(c, w)
Loses(l) == (l = 0 /\ UNCHANGED leak) \/ \E k \in Cause : Lose(k, l)

MoneyInv == CashAccountedFor /\ DepositMirrorsEquity

(* What a coroutine at a step carries, by the step and the amount.         *)
Transit(at, n) ==
  IF at \in {"savings", "payout", "donation", "tax", "taxRefund", "confiscate",
             "grantBank", "repayCheck", "repay", "bankDeposit"} THEN n
  ELSE IF at \in {"subsidyPaid", "subsidyExpense", "bankEquityOut"} THEN -n ELSE 0
Mirror(at, n) ==
  IF at = "bankDeposit" THEN n ELSE IF at = "bankEquityOut" THEN -n ELSE 0

Frame == [at : At, who : Holder, amt : Int]

LEMMA CauseFinite == IsFiniteSet(Cause)
<1>1. \A x, y, z : IsFiniteSet({x, y, z})
  <2> TAKE x, y, z
  <2>1. IsFiniteSet({x}) /\ IsFiniteSet({y}) /\ IsFiniteSet({z})
    BY FS_Singleton
  <2>2. IsFiniteSet(({x} \cup {y}) \cup {z}) /\ ({x} \cup {y}) \cup {z} = {x, y, z}
    BY <2>1, FS_Union
  <2> QED BY <2>2
<1>2. Cause = ({"floorSkip", "payoutFailed", "refundFailed"}
                 \cup {"repayRejected", "filtered", "unowned"})
                \cup {"wealthTax", "laundering", "crash"}
  BY DEF Cause
<1> QED BY <1>1, <1>2, FS_Union

LEMMA FrameCarries ==
  ASSUME NEW s \in Frame
  PROVE  /\ InTransit(s) = Transit(s.at, s.amt) /\ InTransit(s) \in Int
         /\ Mirroring(s) = Mirror(s.at, s.amt) /\ Mirroring(s) \in Int
BY DEF Frame, InTransit, Transit, Mirroring, Mirror

LEMMA CarriedMoves ==
  ASSUME TypeOK, TypeOK', NEW t \in Task, NEW s, task' = [task EXCEPT ![t] = s]
  PROVE  /\ SumFunction(Carried') = SumFunction(Carried) + InTransit(s) - InTransit(task[t])
         /\ SumFunction(Mirrored') = SumFunction(Mirrored) + Mirroring(s) - Mirroring(task[t])
         /\ SumFunction(Carried) \in Int /\ SumFunction(Mirrored) \in Int
         /\ s \in Frame /\ task[t] \in Frame
<1>1. s \in Frame /\ \A u \in Task : task[u] \in Frame
  BY DEF TypeOK, Frame
<1>2. /\ Carried \in [Task -> Int] /\ InTransit(s) \in Int
      /\ Mirrored \in [Task -> Int] /\ Mirroring(s) \in Int /\ IsFiniteSet(Task)
  BY <1>1, FrameCarries, TreasuryAssumption DEF Carried, Mirrored
<1>3. /\ Carried' = [Carried EXCEPT ![t] = InTransit(s)]
      /\ Mirrored' = [Mirrored EXCEPT ![t] = Mirroring(s)]
  BY DEF Carried, Mirrored, TypeOK
<1>4. Carried[t] = InTransit(task[t]) /\ Mirrored[t] = Mirroring(task[t])
  BY DEF Carried, Mirrored
<1> QED BY <1>1, <1>2, <1>3, <1>4, TotalChanged, TotalInt

LEMMA WalletMoves ==
  ASSUME TypeOK, NEW w \in Int, Pays(w)
  PROVE  SumFunction(wallet') = SumFunction(wallet) + w /\ SumFunction(wallet) \in Int
<1>1. wallet \in [Character -> Int] /\ IsFiniteSet(Character)
  BY TreasuryAssumption DEF TypeOK
<1>2. SumFunction(wallet) \in Int
  BY <1>1, TotalInt
<1>3. CASE \E c \in Character : Pay(c, w)
  <2>1. PICK c \in Character : wallet' = [wallet EXCEPT ![c] = wallet[c] + w]
    BY <1>3 DEF Pay
  <2>2. wallet[c] \in Int /\ wallet[c] + w \in Int
    BY <1>1
  <2>3. SumFunction(wallet') = SumFunction(wallet) + (wallet[c] + w) - wallet[c]
    BY <1>1, <2>1, <2>2, TotalChanged
  <2> QED BY <1>2, <2>2, <2>3
<1> QED BY <1>2, <1>3 DEF Pays

LEMMA LeakMoves ==
  ASSUME TypeOK, NEW l \in Int, Loses(l)
  PROVE  SumFunction(leak') = SumFunction(leak) + l /\ SumFunction(leak) \in Int
<1>1. leak \in [Cause -> Int] /\ IsFiniteSet(Cause)
  BY CauseFinite DEF TypeOK
<1>2. SumFunction(leak) \in Int
  BY <1>1, TotalInt
<1>3. CASE \E k \in Cause : Lose(k, l)
  <2>1. PICK k \in Cause : leak' = [leak EXCEPT ![k] = leak[k] + l]
    BY <1>3 DEF Lose
  <2>2. leak[k] \in Int /\ leak[k] + l \in Int
    BY <1>1
  <2>3. SumFunction(leak') = SumFunction(leak) + (leak[k] + l) - leak[k]
    BY <1>1, <2>1, <2>2, TotalChanged
  <2> QED BY <1>2, <2>2, <2>3
<1> QED BY <1>2, <1>3 DEF Loses

(* A step whose movements cancel out keeps both invariants.                *)
LEMMA MoneyKept ==
  ASSUME TypeOK, TypeOK', MoneyInv, NEW t \in Task, NEW s,
         task' = [task EXCEPT ![t] = s],
         NEW b \in Int, NEW h \in Int, NEW w \in Int, NEW l \in Int,
         Posts(b, h), Pays(w), Loses(l),
         b + w + l + Transit(s.at, s.amt) = Transit(task[t].at, task[t].amt),
         crashes' = 0 => crashes = 0
                         /\ h + Mirror(task[t].at, task[t].amt) = Mirror(s.at, s.amt)
  PROVE  MoneyInv'
<1>1. /\ Cash(balance) \in Int /\ Cash(balance') \in Int /\ Cash(Opening) \in Int
      /\ \A a \in {FundInBank, BankEquity} :
           balance[a] \in Int /\ balance'[a] \in Int /\ Opening[a] \in Int
  BY ChartOfAccounts, TreasuryAssumption DEF TypeOK, Cash
<1>2. /\ SumFunction(wallet') = SumFunction(wallet) + w /\ SumFunction(wallet) \in Int
      /\ SumFunction(leak') = SumFunction(leak) + l /\ SumFunction(leak) \in Int
  BY WalletMoves, LeakMoves
<1>3. /\ SumFunction(Carried') = SumFunction(Carried) + InTransit(s) - InTransit(task[t])
      /\ SumFunction(Mirrored') = SumFunction(Mirrored) + Mirroring(s) - Mirroring(task[t])
      /\ SumFunction(Carried) \in Int /\ SumFunction(Mirrored) \in Int
      /\ s \in Frame /\ task[t] \in Frame
  BY CarriedMoves
<1>4. /\ InTransit(s) = Transit(s.at, s.amt) /\ InTransit(s) \in Int
      /\ InTransit(task[t]) = Transit(task[t].at, task[t].amt)
      /\ InTransit(task[t]) \in Int
      /\ Mirroring(s) = Mirror(s.at, s.amt) /\ Mirroring(s) \in Int
      /\ Mirroring(task[t]) = Mirror(task[t].at, task[t].amt)
      /\ Mirroring(task[t]) \in Int
  BY <1>3, FrameCarries
<1>5. CashAccountedFor'
  <2>1. Cash(balance) + SumFunction(wallet) + SumFunction(Carried) + SumFunction(leak)
          = Cash(Opening)
    BY DEF MoneyInv, CashAccountedFor, Carried
  <2>2. Cash(balance') = Cash(balance) + b
    BY DEF Posts
  <2>3. Cash(balance') + SumFunction(wallet') + SumFunction(Carried') + SumFunction(leak')
          = Cash(Opening)
    BY <1>1, <1>2, <1>3, <1>4, <2>1, <2>2
  <2> QED BY <2>3 DEF CashAccountedFor, Carried
<1>6. DepositMirrorsEquity'
  <2> SUFFICES ASSUME crashes' = 0
               PROVE  balance'[FundInBank] - Opening[FundInBank]
                        = balance'[BankEquity] - Opening[BankEquity]
                            + SumFunction(Mirrored')
    BY DEF DepositMirrorsEquity, Mirrored
  <2>1. balance[FundInBank] - Opening[FundInBank]
          = balance[BankEquity] - Opening[BankEquity] + SumFunction(Mirrored)
    BY DEF MoneyInv, DepositMirrorsEquity, Mirrored
  <2>2. balance'[FundInBank] - balance'[BankEquity]
          = balance[FundInBank] - balance[BankEquity] + h
    BY DEF Posts, Ahead
  <2>3. h + Mirroring(task[t]) = Mirroring(s)
    BY <1>4
  <2>4. /\ balance[FundInBank] \in Int /\ balance'[FundInBank] \in Int
        /\ balance[BankEquity] \in Int /\ balance'[BankEquity] \in Int
        /\ Opening[FundInBank] \in Int /\ Opening[BankEquity] \in Int
    BY <1>1
  <2>5. SumFunction(Mirrored') = SumFunction(Mirrored) + h
    BY <1>3, <1>4, <2>3
  <2>6. SumFunction(Mirrored) \in Int
    BY <1>3
  <2>7. \A f, e, f1, e1, f0, e0, m \in Int :
          (f - f0 = e - e0 + m /\ f1 - e1 = f - e + h) => f1 - f0 = e1 - e0 + (m + h)
    OBVIOUS
  <2>8. balance'[FundInBank] - Opening[FundInBank]
           = balance'[BankEquity] - Opening[BankEquity] + (SumFunction(Mirrored) + h)
    BY <2>1, <2>2, <2>4, <2>6, <2>7
  <2> QED BY <2>5, <2>8
<1> QED BY <1>5, <1>6 DEF MoneyInv

-----------------------------------------------------------------------------
(* What each journal posts.                                                *)
InCash(a, n) == IF a \in {BankVault, TreasuryFund, Reserves} THEN n ELSE 0
InAhead(a, n) == IF a = FundInBank THEN n ELSE IF a = BankEquity THEN n ELSE 0

LEMMA MoneyAccounts ==
  /\ BankVault \in Account /\ TreasuryFund \in Account /\ Reserves \in Account
  /\ FundInBank \in Account /\ BankEquity \in Account
  /\ DebitNormal(BankVault) /\ DebitNormal(TreasuryFund) /\ DebitNormal(Reserves)
  /\ DebitNormal(FundInBank) /\ ~DebitNormal(BankEquity)
  /\ BankVault # TreasuryFund /\ BankVault # Reserves /\ BankVault # FundInBank
  /\ BankVault # BankEquity /\ TreasuryFund # Reserves /\ TreasuryFund # FundInBank
  /\ TreasuryFund # BankEquity /\ Reserves # FundInBank /\ Reserves # BankEquity
  /\ FundInBank # BankEquity
<1>1. /\ BankVault # TreasuryFund /\ BankVault # Reserves /\ BankVault # FundInBank
      /\ BankVault # BankEquity /\ TreasuryFund # Reserves /\ TreasuryFund # FundInBank
      /\ TreasuryFund # BankEquity /\ Reserves # FundInBank /\ Reserves # BankEquity
      /\ FundInBank # BankEquity
  BY DEF BankVault, TreasuryFund, Reserves, FundInBank, BankEquity
<1> QED BY <1>1, ChartOfAccounts, NamedNormal

(* A debit and a credit of n, seen from the cash accounts and from the two *)
(* accounts that mirror each other: each is debited n by the first account *)
(* and credited n by the second.                                           *)
LEMMA TransferPosts ==
  ASSUME TypeOK, NEW x \in Account, NEW y \in Account, x # y, NEW n \in Int,
         CreateJournalEntry(Transfer(x, y, n))
  PROVE  LET p == IF n > 0 THEN n ELSE 0
         IN  Posts(InCash(x, p) - InCash(y, p), InAhead(x, p) - InAhead(y, p))
<1> DEFINE p == IF n > 0 THEN n ELSE 0
           In(a) == (IF a = x THEN p ELSE 0) - (IF a = y THEN p ELSE 0)
<1>1. p \in Int
  OBVIOUS
<1>2. \A a \in Account : /\ balance[a] \in Int
                         /\ DebitNormal(a) => balance'[a] = balance[a] + In(a)
                         /\ ~DebitNormal(a) => balance'[a] = balance[a] - In(a)
  <2> TAKE a \in Account
  <2>1. balance[a] \in Int
    BY DEF TypeOK
  <2>2. balance'[a] =
          balance[a] + (IF n > 0 /\ a = x
                        THEN IF DebitNormal(a) THEN n ELSE -n
                        ELSE IF n > 0 /\ a = y
                        THEN IF DebitNormal(a) THEN -n ELSE n
                        ELSE 0)
    BY TransferBalance
  <2>3. CASE DebitNormal(a)
    BY <2>1, <2>2, <2>3
  <2>4. CASE ~DebitNormal(a)
    BY <2>1, <2>2, <2>4
  <2> QED BY <2>1, <2>3, <2>4
<1> HIDE DEF p
<1>3. Cash(balance') = Cash(balance) + (InCash(x, p) - InCash(y, p))
  BY <1>1, <1>2, MoneyAccounts DEF Cash, InCash
<1>4. Ahead(balance') = Ahead(balance) + (InAhead(x, p) - InAhead(y, p))
  <2>1. /\ balance'[FundInBank] = balance[FundInBank] + In(FundInBank)
        /\ balance'[BankEquity] = balance[BankEquity] - In(BankEquity)
        /\ balance[FundInBank] \in Int /\ balance[BankEquity] \in Int
        /\ In(FundInBank) \in Int /\ In(BankEquity) \in Int
    BY <1>1, <1>2, MoneyAccounts
  <2>2. InAhead(x, p) - InAhead(y, p) = In(FundInBank) + In(BankEquity)
    BY <1>1, MoneyAccounts DEF InAhead
  <2> HIDE DEF In
  <2> QED BY <1>1, <2>1, <2>2 DEF Ahead
<1> QED BY <1>3, <1>4 DEF Posts, p

LEMMA Names ==
  /\ BankVault[1] = "Bank Vault" /\ TreasuryFund[1] = "Treasury Fund"
  /\ Reserves[1] = "Sovereign Reserves" /\ FundInBank[1] = "Treasury Fund (in Bank)"
  /\ BankEquity[1] = "Bank Equity" /\ BankExpense[1] = "Bank Expense"
  /\ BankRevenue[1] = "Bank Revenue" /\ TreasuryRevenue[1] = "Treasury Revenue"
  /\ TreasuryExpenses[1] = "Treasury Expenses"
  /\ ConfiscationRevenue[1] = "Confiscation Revenue"
  /\ RentRevenue[1] = "Rent Revenue" /\ TaxRevenue[1] = "Tax Revenue"
  /\ \A c \in Character : Checking(c)[1] = "Checking Account" /\ Loan(c)[1] = "Loan"
BY DEF BankVault, TreasuryFund, Reserves, FundInBank, BankEquity, BankExpense,
       BankRevenue, TreasuryRevenue, TreasuryExpenses, ConfiscationRevenue, RentRevenue,
       TaxRevenue, Checking, Loan

LEMMA JournalPosts ==
  ASSUME TypeOK, NEW n \in Int
  PROVE  LET p == IF n > 0 THEN n ELSE 0
         IN  /\ \A c \in Character :
                  /\ CreateJournalEntry(DepositEntries(c, n)) => Posts(p, 0)
                  /\ CreateJournalEntry(WithdrawalEntries(c, n)) => Posts(-p, 0)
                  /\ CreateJournalEntry(RepaymentEntries(c, n)) => Posts(p, 0)
             /\ CreateJournalEntry(DonationEntries(n)) => Posts(p, 0)
             /\ CreateJournalEntry(ExpenseEntries(n)) => Posts(-p, 0)
             /\ CreateJournalEntry(ConfiscationEntries(n)) => Posts(p, 0)
             /\ CreateJournalEntry(RentEntries(n)) => Posts(p, 0)
             /\ CreateJournalEntry(TaxEntries(n)) => Posts(p, 0)
             /\ CreateJournalEntry(NircEntries(n)) => Posts(0, 0)
             /\ CreateJournalEntry(FundToBankEntries(n)) => Posts(-p, p)
             /\ CreateJournalEntry(BankToFundEntries(n)) => Posts(p, -p)
             /\ CreateJournalEntry(EquityInEntries(n)) => Posts(p, -p)
             /\ CreateJournalEntry(EquityOutEntries(n)) => Posts(-p, p)
<1> DEFINE p == IF n > 0 THEN n ELSE 0
<1>1. p \in Int /\ -p \in Int /\ 0 - p = -p /\ p - 0 = p /\ p - p = 0 /\ 0 - 0 = 0
  OBVIOUS
<1>2. ASSUME NEW x \in Account, NEW y \in Account, x # y, CreateJournalEntry(Transfer(x, y, n))
      PROVE  Posts(InCash(x, p) - InCash(y, p), InAhead(x, p) - InAhead(y, p))
  BY <1>2, TransferPosts
<1> HIDE DEF p
<1>3. /\ InCash(BankVault, p) = p /\ InCash(TreasuryFund, p) = p /\ InCash(Reserves, p) = p
      /\ InCash(FundInBank, p) = 0 /\ InCash(BankEquity, p) = 0
      /\ InAhead(FundInBank, p) = p /\ InAhead(BankEquity, p) = p
      /\ InAhead(BankVault, p) = 0 /\ InAhead(TreasuryFund, p) = 0 /\ InAhead(Reserves, p) = 0
  BY MoneyAccounts DEF InCash, InAhead
<1>4. \A a \in {TreasuryRevenue, TreasuryExpenses, ConfiscationRevenue, RentRevenue, TaxRevenue} :
        /\ a \in Account /\ a # TreasuryFund
        /\ InCash(a, p) = 0 /\ InAhead(a, p) = 0
  <2>1. \A a \in {TreasuryRevenue, TreasuryExpenses, ConfiscationRevenue, RentRevenue, TaxRevenue} :
          a \notin {BankVault, TreasuryFund, Reserves, FundInBank, BankEquity}
    BY Names
  <2> QED BY <2>1, ChartOfAccounts DEF InCash, InAhead
<1>5. \A c \in Character : \A a \in {Checking(c), Loan(c)} :
        a \in Account /\ a # BankVault /\ InCash(a, p) = 0 /\ InAhead(a, p) = 0
  <2>1. \A c \in Character : \A a \in {Checking(c), Loan(c)} :
          a \notin {BankVault, TreasuryFund, Reserves, FundInBank, BankEquity}
    BY Names
  <2> QED BY <2>1, ChartOfAccounts DEF InCash, InAhead
<1>6. ASSUME NEW c \in Character
      PROVE  /\ CreateJournalEntry(DepositEntries(c, n)) => Posts(p, 0)
             /\ CreateJournalEntry(WithdrawalEntries(c, n)) => Posts(-p, 0)
             /\ CreateJournalEntry(RepaymentEntries(c, n)) => Posts(p, 0)
  BY <1>1, <1>2, <1>3, <1>5, MoneyAccounts
     DEF DepositEntries, WithdrawalEntries, RepaymentEntries
<1>7. /\ CreateJournalEntry(DonationEntries(n)) => Posts(p, 0)
      /\ CreateJournalEntry(ConfiscationEntries(n)) => Posts(p, 0)
      /\ CreateJournalEntry(RentEntries(n)) => Posts(p, 0)
      /\ CreateJournalEntry(TaxEntries(n)) => Posts(p, 0)
      /\ CreateJournalEntry(ExpenseEntries(n)) => Posts(-p, 0)
  BY <1>1, <1>2, <1>3, <1>4, MoneyAccounts
     DEF DonationEntries, ConfiscationEntries, RentEntries, TaxEntries, ExpenseEntries
<1>8. /\ CreateJournalEntry(NircEntries(n)) => Posts(0, 0)
      /\ CreateJournalEntry(FundToBankEntries(n)) => Posts(-p, p)
      /\ CreateJournalEntry(BankToFundEntries(n)) => Posts(p, -p)
      /\ CreateJournalEntry(EquityInEntries(n)) => Posts(p, -p)
      /\ CreateJournalEntry(EquityOutEntries(n)) => Posts(-p, p)
  BY <1>1, <1>2, <1>3, MoneyAccounts
     DEF NircEntries, FundToBankEntries, BankToFundEntries, EquityInEntries, EquityOutEntries
<1> QED BY <1>6, <1>7, <1>8 DEF p

(* Of the lines of a loan only the cash counts here.                       *)
LEMMA LoanPosts ==
  ASSUME TypeOK, NEW c \in Character, NEW n \in Int, NEW fee \in Nat,
         fee = 0 \/ n > 0, CreateJournalEntry(LoanEntries(c, n, fee))
  PROVE  Posts(IF n > 0 THEN -n ELSE 0, 0)
<1> DEFINE j == LoanEntries(c, n, fee)
           p == IF n > 0 THEN n ELSE 0
<1>1. \A a \in {TreasuryFund, Reserves, FundInBank, BankEquity, BankVault} :
        Change(j, a) = IF a = BankVault THEN -p ELSE 0
  <2> TAKE a \in {TreasuryFund, Reserves, FundInBank, BankEquity, BankVault}
  <2>1. a # Loan(c) /\ a # BankRevenue
    BY Names
  <2>2. LineChange(j[1], a) = 0 /\ LineChange(j[2], a) = 0
    BY <2>1 DEF LoanEntries, LineChange, DebitLine, CreditLine
  <2>3. LineChange(j[3], a) = IF a = BankVault THEN -p ELSE 0
    BY MoneyAccounts DEF LoanEntries, LineChange, CreditLine, BalanceChange, Debit, Credit, Kept
  <2> QED BY <2>2, <2>3 DEF Change
<1>2. n <= 0 => ~Accepted(j)
  <2> SUFFICES ASSUME n <= 0, fee = 0 PROVE Empty(j)
    BY DEF Accepted
  <2>1. Debit(j[1]) = 0 /\ Debit(j[2]) = 0 /\ Debit(j[3]) = 0
    BY DEF LoanEntries, DebitLine, CreditLine, Debit, Kept
  <2>2. Credit(j[1]) = 0 /\ Credit(j[2]) = 0 /\ Credit(j[3]) = 0
    BY DEF LoanEntries, DebitLine, CreditLine, Credit, Kept
  <2> QED BY <2>1, <2>2 DEF Empty, TotalDebit, TotalCredit
<1>3. n > 0 => Accepted(j)
  <2> SUFFICES ASSUME n > 0 PROVE Accepted(j)
    OBVIOUS
  <2>1. n + fee > 0 /\ n + fee \in Int
    OBVIOUS
  <2>2. Debit(j[1]) = n + fee /\ Debit(j[2]) = 0 /\ Debit(j[3]) = 0
    BY <2>1 DEF LoanEntries, DebitLine, CreditLine, Debit, Kept
  <2>3. Credit(j[1]) = 0 /\ Credit(j[2]) = fee /\ Credit(j[3]) = n
    BY <2>1 DEF LoanEntries, DebitLine, CreditLine, Credit, Kept
  <2>4. TotalDebit(j) = n + fee /\ TotalCredit(j) = n + fee
    BY <2>2, <2>3 DEF TotalDebit, TotalCredit
  <2>5. \A i \in 1 .. 3 : ~(Debit(j[i]) > 0 /\ Credit(j[i]) > 0)
    <3> TAKE i \in 1 .. 3
    <3>1. i = 1 \/ i = 2 \/ i = 3
      OBVIOUS
    <3> QED BY <2>2, <2>3, <3>1
  <2> HIDE DEF j
  <2> QED BY <2>1, <2>4, <2>5 DEF Accepted, Empty, Rejected
<1>4. \A a \in {TreasuryFund, Reserves, FundInBank, BankEquity, BankVault} :
        a \in Account /\ balance[a] \in Int
  BY MoneyAccounts DEF TypeOK
<1>5. CASE n > 0
  <2>1. \A a \in {TreasuryFund, Reserves, FundInBank, BankEquity, BankVault} :
          balance'[a] = balance[a] + IF a = BankVault THEN -n ELSE 0
    BY <1>1, <1>3, <1>4, <1>5 DEF CreateJournalEntry
  <2> QED BY <1>4, <1>5, <2>1, MoneyAccounts DEF Posts, Cash, Ahead
<1>6. CASE n <= 0
  <2>1. UNCHANGED balance
    BY <1>2, <1>6 DEF CreateJournalEntry, ledger
  <2> QED BY <1>4, <1>6, <2>1 DEF Posts, Cash, Ahead
<1> QED BY <1>5, <1>6

LEMMA BulkPosts ==
  ASSUME TypeOK, NEW c \in Character, NEW n \in Int
  PROVE  /\ BulkCreate(InterestEntries(c, n), InterestChange(c, n)) => Posts(0, 0)
         /\ BulkCreate(WealthTaxEntries(c, n), WealthTaxChange(c, n)) => Posts(n, 0)
<1> DEFINE Mine == {TreasuryFund, Reserves, FundInBank, BankEquity, BankVault}
<1>1. \A a \in Mine : a # Checking(c) /\ a # BankExpense /\ a \in Account /\ balance[a] \in Int
  <2>1. \A a \in Mine : a # Checking(c) /\ a # BankExpense
    BY Names
  <2> QED BY <2>1, MoneyAccounts DEF TypeOK
<1>2. ASSUME BulkCreate(InterestEntries(c, n), InterestChange(c, n)) PROVE Posts(0, 0)
  <2>1. \A a \in Mine : balance'[a] = balance[a]
    BY <1>1, <1>2 DEF BulkCreate, InterestChange
  <2> QED BY <1>1, <2>1 DEF Posts, Cash, Ahead
<1>3. ASSUME BulkCreate(WealthTaxEntries(c, n), WealthTaxChange(c, n)) PROVE Posts(n, 0)
  <2>1. \A a \in Mine : balance'[a] = balance[a] + IF a = Reserves THEN n ELSE 0
    BY <1>1, <1>3 DEF BulkCreate, WealthTaxChange
  <2> QED BY <1>1, <2>1, MoneyAccounts DEF Posts, Cash, Ahead
<1> QED BY <1>2, <1>3

-----------------------------------------------------------------------------
(* The steps.                                                              *)
LEMMA StillPosts ==
  ASSUME TypeOK, UNCHANGED ledger
  PROVE  Posts(0, 0)
<1>1. /\ Cash(balance) \in Int /\ balance[FundInBank] \in Int /\ balance[BankEquity] \in Int
  BY MoneyAccounts DEF TypeOK, Cash
<1> QED BY <1>1 DEF ledger, Posts, Ahead

LEMMA GotoKeepsMoney ==
  ASSUME TypeOK, TypeOK', MoneyInv, NEW t \in Task, NEW at, NEW c, NEW n,
         Goto(t, at, c, n), UNCHANGED crashes,
         NEW b \in Int, NEW h \in Int, NEW w \in Int, NEW l \in Int,
         Posts(b, h), Pays(w), Loses(l),
         b + w + l + Transit(at, n) = Transit(task[t].at, task[t].amt),
         h + Mirror(task[t].at, task[t].amt) = Mirror(at, n)
  PROVE  MoneyInv'
<1> DEFINE s == [at |-> at, who |-> c, amt |-> n]
<1>1. task' = [task EXCEPT ![t] = s] /\ s.at = at /\ s.amt = n
  BY DEF Goto
<1>2. crashes' = 0 => crashes = 0
  OBVIOUS
<1> HIDE DEF s
<1> QED BY <1>1, <1>2, MoneyKept

LEMMA EndKeepsMoney ==
  ASSUME TypeOK, TypeOK', MoneyInv, NEW t \in Task, Done(t),
         NEW b \in Int, NEW h \in Int, NEW w \in Int, NEW l \in Int,
         Posts(b, h), Pays(w), Loses(l),
         b + w + l = Transit(task[t].at, task[t].amt),
         crashes' = 0 => crashes = 0 /\ h + Mirror(task[t].at, task[t].amt) = 0
  PROVE  MoneyInv'
<1>1. task' = [task EXCEPT ![t] = Idle] /\ Idle.at = "idle" /\ Idle.amt = 0
  BY DEF Done, Idle
<1>2. Transit(Idle.at, Idle.amt) = 0 /\ Mirror(Idle.at, Idle.amt) = 0
  BY <1>1 DEF Transit, Mirror
<1>3. b + w + l + 0 = b + w + l
  OBVIOUS
<1> QED BY <1>1, <1>2, <1>3, MoneyKept

LEMMA DoneKeepsMoney ==
  ASSUME TypeOK, TypeOK', MoneyInv, NEW t \in Task, Done(t), UNCHANGED crashes,
         NEW b \in Int, NEW h \in Int, NEW w \in Int, NEW l \in Int,
         Posts(b, h), Pays(w), Loses(l),
         b + w + l = Transit(task[t].at, task[t].amt),
         h + Mirror(task[t].at, task[t].amt) = 0
  PROVE  MoneyInv'
<1>1. crashes' = 0 => crashes = 0 /\ h + Mirror(task[t].at, task[t].amt) = 0
  OBVIOUS
<1> QED BY <1>1, EndKeepsMoney

LEMMA PlayerStartMoney ==
  ASSUME TypeOK, TypeOK', Owned, MoneyInv, NEW t \in Task, NEW c \in Character,
         NEW n \in Amount, PlayerStart(t, c, n)
  PROVE  MoneyInv'
<1>0. /\ n \in Int /\ -n \in Int /\ n >= 1 /\ 0 \in Int /\ 0 + 0 = 0
      /\ UNCHANGED ledger => Posts(0, 0)
  BY StillPosts, AmountIsInt
<1>1. CASE SaveFromWallet(t, c, n)
  <2>1. /\ Goto(t, "savings", c, n) /\ task[t].at = "idle" /\ UNCHANGED crashes
        /\ Posts(0, 0) /\ Pays(-n) /\ Loses(0)
    BY <1>0, <1>1
       DEF SaveFromWallet, Begin, Pays, Loses
  <2>2. /\ 0 + -n + 0 + Transit("savings", n) = Transit(task[t].at, task[t].amt)
        /\ 0 + Mirror(task[t].at, task[t].amt) = Mirror("savings", n)
    BY <1>0, <2>1 DEF Transit, Mirror
  <2> QED BY <1>0, <2>1, <2>2, GotoKeepsMoney
<1>2. CASE CheckWithdrawal(t, c, n, "withdraw")
  <2>1. /\ Goto(t, "withdraw", c, n) /\ task[t].at = "idle" /\ UNCHANGED crashes
        /\ Posts(0, 0) /\ Pays(0) /\ Loses(0)
    BY <1>0, <1>2
       DEF CheckWithdrawal, Begin, Pays, Loses
  <2>2. /\ 0 + 0 + 0 + Transit("withdraw", n) = Transit(task[t].at, task[t].amt)
        /\ 0 + Mirror(task[t].at, task[t].amt) = Mirror("withdraw", n)
    BY <1>0, <2>1 DEF Transit, Mirror
  <2> QED BY <1>0, <2>1, <2>2, GotoKeepsMoney
<1>3. CASE CheckWithdrawal(t, c, n, "donate")
  <2>1. /\ Goto(t, "donate", c, n) /\ task[t].at = "idle" /\ UNCHANGED crashes
        /\ Posts(0, 0) /\ Pays(0) /\ Loses(0)
    BY <1>0, <1>3
       DEF CheckWithdrawal, Begin, Pays, Loses
  <2>2. /\ 0 + 0 + 0 + Transit("donate", n) = Transit(task[t].at, task[t].amt)
        /\ 0 + Mirror(task[t].at, task[t].amt) = Mirror("donate", n)
    BY <1>0, <2>1 DEF Transit, Mirror
  <2> QED BY <1>0, <2>1, <2>2, GotoKeepsMoney
<1>4. CASE ChargeForTreasury(t, c, n)
  <2>1. /\ Goto(t, "donation", c, n) /\ task[t].at = "idle" /\ UNCHANGED crashes
        /\ Posts(0, 0) /\ Pays(-n) /\ Loses(0)
    BY <1>0, <1>4
       DEF ChargeForTreasury, Begin, Pays, Loses
  <2>2. /\ 0 + -n + 0 + Transit("donation", n) = Transit(task[t].at, task[t].amt)
        /\ 0 + Mirror(task[t].at, task[t].amt) = Mirror("donation", n)
    BY <1>0, <2>1 DEF Transit, Mirror
  <2> QED BY <1>0, <2>1, <2>2, GotoKeepsMoney
<1>5. CASE BeginGrant(t, c, n)
  <2>1. /\ Goto(t, "grant", c, n) /\ task[t].at = "idle" /\ UNCHANGED crashes
        /\ Posts(0, 0) /\ Pays(0) /\ Loses(0)
    BY <1>0, <1>5
       DEF BeginGrant, Begin, Pays, Loses
  <2>2. /\ 0 + 0 + 0 + Transit("grant", n) = Transit(task[t].at, task[t].amt)
        /\ 0 + Mirror(task[t].at, task[t].amt) = Mirror("grant", n)
    BY <1>0, <2>1 DEF Transit, Mirror
  <2> QED BY <1>0, <2>1, <2>2, GotoKeepsMoney
<1>6. CASE BeginTax(t, c, n)
  <2>1. /\ Goto(t, "tax", c, n) /\ task[t].at = "idle" /\ UNCHANGED crashes
        /\ Posts(0, 0) /\ Pays(-n) /\ Loses(0)
    BY <1>0, <1>6
       DEF BeginTax, Begin, Pays, Loses
  <2>2. /\ 0 + -n + 0 + Transit("tax", n) = Transit(task[t].at, task[t].amt)
        /\ 0 + Mirror(task[t].at, task[t].amt) = Mirror("tax", n)
    BY <1>0, <2>1 DEF Transit, Mirror
  <2> QED BY <1>0, <2>1, <2>2, GotoKeepsMoney
<1>7. CASE BeginInterest(t, c, n)
  <2>1. /\ Goto(t, "interest", c, n) /\ task[t].at = "idle" /\ UNCHANGED crashes
        /\ Posts(0, 0) /\ Pays(0) /\ Loses(0)
    BY <1>0, <1>7
       DEF BeginInterest, Begin, Pays, Loses
  <2>2. /\ 0 + 0 + 0 + Transit("interest", n) = Transit(task[t].at, task[t].amt)
        /\ 0 + Mirror(task[t].at, task[t].amt) = Mirror("interest", n)
    BY <1>0, <2>1 DEF Transit, Mirror
  <2> QED BY <1>0, <2>1, <2>2, GotoKeepsMoney
<1>8. CASE BeginWealthTax(t, c, n)
  <2>1. /\ Goto(t, "wealthTax", c, n) /\ task[t].at = "idle" /\ UNCHANGED crashes
        /\ Posts(0, 0) /\ Pays(0) /\ Loses(0)
    BY <1>0, <1>8
       DEF BeginWealthTax, Begin, Pays, Loses
  <2>2. /\ 0 + 0 + 0 + Transit("wealthTax", n) = Transit(task[t].at, task[t].amt)
        /\ 0 + Mirror(task[t].at, task[t].amt) = Mirror("wealthTax", n)
    BY <1>0, <2>1 DEF Transit, Mirror
  <2> QED BY <1>0, <2>1, <2>2, GotoKeepsMoney
<1>9. CASE BeginSalary(t, c, n)
  <2>1. /\ task[t].at = "idle" /\ UNCHANGED crashes /\ Posts(0, 0) /\ Pays(0)
        /\ \/ Goto(t, "salary", c, n) /\ Loses(0)
           \/ Goto(t, "payout", c, n) /\ Loses(-n)
    BY <1>0, <1>9 DEF BeginSalary, Begin, Pays, Loses, Cause
  <2>2. /\ 0 + 0 + 0 + Transit("salary", n) = Transit(task[t].at, task[t].amt)
        /\ 0 + 0 + (-n) + Transit("payout", n) = Transit(task[t].at, task[t].amt)
        /\ 0 + Mirror(task[t].at, task[t].amt) = Mirror("salary", n)
        /\ 0 + Mirror(task[t].at, task[t].amt) = Mirror("payout", n)
    BY <1>0, <2>1 DEF Transit, Mirror
  <2>3. CASE Goto(t, "salary", c, n) /\ Loses(0)
    BY <1>0, <2>1, <2>2, <2>3, GotoKeepsMoney
  <2>4. CASE Goto(t, "payout", c, n) /\ Loses(-n)
    BY <1>0, <2>1, <2>2, <2>4, GotoKeepsMoney
  <2> QED BY <2>1, <2>3, <2>4
<1>10. CASE BeginSubsidy(t, c, n)
  <2> DEFINE m == IF n <= balance[TreasuryFund] THEN n ELSE balance[TreasuryFund]
  <2>1. /\ Goto(t, "subsidy", c, m) /\ task[t].at = "idle" /\ UNCHANGED crashes
        /\ Posts(0, 0) /\ Pays(0) /\ Loses(0)
    BY <1>0, <1>10 DEF BeginSubsidy, Begin, Pays, Loses
  <2> HIDE DEF m
  <2>2. /\ 0 + 0 + 0 + Transit("subsidy", m) = Transit(task[t].at, task[t].amt)
        /\ 0 + Mirror(task[t].at, task[t].amt) = Mirror("subsidy", m)
    BY <1>0, <2>1 DEF Transit, Mirror
  <2> QED BY <1>0, <2>1, <2>2, GotoKeepsMoney
<1>11. ASSUME NEW victim \in Holder, BeginConfiscation(t, victim, c, n)
       PROVE  MoneyInv'
  <2>1. /\ Goto(t, "confiscate", c, n) /\ task[t].at = "idle" /\ UNCHANGED crashes
        /\ Posts(0, 0)
        /\ (Pays(0) /\ Loses(-n)) \/ (Pays(-n) /\ Loses(0))
    BY <1>0, <1>11 DEF BeginConfiscation, Begin, Pays, Loses, Cause, Holder
  <2>2. /\ 0 + 0 + (-n) + Transit("confiscate", n) = Transit(task[t].at, task[t].amt)
        /\ 0 + (-n) + 0 + Transit("confiscate", n) = Transit(task[t].at, task[t].amt)
        /\ 0 + Mirror(task[t].at, task[t].amt) = Mirror("confiscate", n)
    BY <1>0, <2>1 DEF Transit, Mirror
  <2>3. CASE Pays(0) /\ Loses(-n)
    BY <1>0, <2>1, <2>2, <2>3, GotoKeepsMoney
  <2>4. CASE Pays(-n) /\ Loses(0)
    BY <1>0, <2>1, <2>2, <2>4, GotoKeepsMoney
  <2> QED BY <2>1, <2>3, <2>4
<1>12. ASSUME NEW rebate \in 0 .. MaxAmount, ReceiveRent(t, c, n, rebate)
       PROVE  MoneyInv'
  <2>1. Posts(n, 0)
    BY <1>0, <1>12, JournalPosts DEF ReceiveRent
  <2>2. /\ task[t].at = "idle" /\ UNCHANGED crashes /\ Pays(-n) /\ Loses(0)
        /\ Goto(t, "subsidy", c, rebate) \/ Done(t)
    BY <1>12 DEF ReceiveRent, Begin, Pays, Loses
  <2>3. 0 + Mirror(task[t].at, task[t].amt) = 0
    BY <2>2 DEF Mirror
  <2>4. n + (-n) + 0 = Transit(task[t].at, task[t].amt)
    BY <1>0, <2>2 DEF Transit
  <2>5. CASE Done(t)
    BY <1>0, <2>1, <2>2, <2>3, <2>4, <2>5, DoneKeepsMoney
  <2>6. CASE Goto(t, "subsidy", c, rebate)
    <3>1. n + (-n) + 0 + Transit("subsidy", rebate) = Transit(task[t].at, task[t].amt)
          /\ 0 + Mirror(task[t].at, task[t].amt) = Mirror("subsidy", rebate)
      BY <1>0, <2>2 DEF Transit, Mirror
    <3> QED BY <1>0, <2>1, <2>2, <2>6, <3>1, GotoKeepsMoney
  <2> QED BY <2>2, <2>5, <2>6
<1>13. CASE BeginLoan(t, c, n)
  <2>1. /\ Goto(t, "loan", c, LoanAmount(c, n)) /\ task[t].at = "idle"
        /\ UNCHANGED crashes /\ Posts(0, 0) /\ Pays(0) /\ Loses(0)
    BY <1>0, <1>13 DEF BeginLoan, Begin, Pays, Loses
  <2>2. /\ 0 + 0 + 0 + Transit("loan", LoanAmount(c, n))
             = Transit(task[t].at, task[t].amt)
        /\ 0 + Mirror(task[t].at, task[t].amt) = Mirror("loan", LoanAmount(c, n))
    BY <1>0, <2>1 DEF Transit, Mirror
  <2> QED BY <1>0, <2>1, <2>2, GotoKeepsMoney
<1>14. CASE BeginRepayment(t, c, n)
  <2> DEFINE m == IF n <= balance[Loan(c)] THEN n ELSE balance[Loan(c)]
  <2>1. /\ Goto(t, "repayCheck", c, m) /\ task[t].at = "idle" /\ UNCHANGED crashes
        /\ Posts(0, 0) /\ Pays(-m) /\ Loses(0)
    BY <1>0, <1>14 DEF BeginRepayment, Begin, Pays, Loses
  <2>2. balance[Loan(c)] \in Int
    BY ChartOfAccounts DEF TypeOK
  <2>3. m \in Int /\ -m \in Int
    BY <1>0, <2>2
  <2> HIDE DEF m
  <2>4. /\ 0 + (-m) + 0 + Transit("repayCheck", m) = Transit(task[t].at, task[t].amt)
        /\ 0 + Mirror(task[t].at, task[t].amt) = Mirror("repayCheck", m)
    BY <1>0, <2>1, <2>3 DEF Transit, Mirror
  <2> QED BY <1>0, <2>1, <2>3, <2>4, GotoKeepsMoney
<1> QED
  BY <1>1, <1>2, <1>3, <1>4, <1>5, <1>6, <1>7, <1>8, <1>9, <1>10, <1>11, <1>12,
     <1>13, <1>14 DEF PlayerStart

LEMMA TreasuryStartMoney ==
  ASSUME TypeOK, TypeOK', Owned, MoneyInv, NEW t \in Task, NEW n \in Amount,
         TreasuryStart(t, n)
  PROVE  MoneyInv'
<1>0. /\ n \in Int /\ -n \in Int /\ n >= 1 /\ 0 \in Int /\ 0 + 0 = 0
      /\ UNCHANGED ledger => Posts(0, 0)
  BY StillPosts, AmountIsInt
<1>1. CASE BeginLaundering(t, n)
  <2>1. /\ Goto(t, "laundering", Internal, n) /\ task[t].at = "idle" /\ UNCHANGED crashes
        /\ Posts(0, 0) /\ Pays(0) /\ Loses(0)
    BY <1>0, <1>1
       DEF BeginLaundering, Begin, Pays, Loses
  <2>2. /\ 0 + 0 + 0 + Transit("laundering", n) = Transit(task[t].at, task[t].amt)
        /\ 0 + Mirror(task[t].at, task[t].amt) = Mirror("laundering", n)
    BY <1>0, <2>1 DEF Transit, Mirror
  <2> QED BY <1>0, <2>1, <2>2, GotoKeepsMoney
<1>2. CASE BeginNirc(t, n)
  <2>1. /\ Goto(t, "nirc", Internal, n) /\ task[t].at = "idle" /\ UNCHANGED crashes
        /\ Posts(0, 0) /\ Pays(0) /\ Loses(0)
    BY <1>0, <1>2
       DEF BeginNirc, Begin, Pays, Loses
  <2>2. /\ 0 + 0 + 0 + Transit("nirc", n) = Transit(task[t].at, task[t].amt)
        /\ 0 + Mirror(task[t].at, task[t].amt) = Mirror("nirc", n)
    BY <1>0, <2>1 DEF Transit, Mirror
  <2> QED BY <1>0, <2>1, <2>2, GotoKeepsMoney
<1>3. CASE DepositTreasuryFund(t, n)
  <2>1. /\ Goto(t, "bankDeposit", Internal, n) /\ task[t].at = "idle" /\ UNCHANGED crashes
        /\ Posts(-n, n) /\ Pays(0) /\ Loses(0)
    BY <1>0, <1>3, JournalPosts
       DEF DepositTreasuryFund, Begin, Pays, Loses
  <2>2. /\ -n + 0 + 0 + Transit("bankDeposit", n) = Transit(task[t].at, task[t].amt)
        /\ n + Mirror(task[t].at, task[t].amt) = Mirror("bankDeposit", n)
    BY <1>0, <2>1 DEF Transit, Mirror
  <2> QED BY <1>0, <2>1, <2>2, GotoKeepsMoney
<1>4. CASE CheckBankWithdrawal(t, n)
  <2>1. /\ Goto(t, "bankWithdrawal", Internal, n) /\ task[t].at = "idle" /\ UNCHANGED crashes
        /\ Posts(0, 0) /\ Pays(0) /\ Loses(0)
    BY <1>0, <1>4
       DEF CheckBankWithdrawal, Begin, Pays, Loses
  <2>2. /\ 0 + 0 + 0 + Transit("bankWithdrawal", n) = Transit(task[t].at, task[t].amt)
        /\ 0 + Mirror(task[t].at, task[t].amt) = Mirror("bankWithdrawal", n)
    BY <1>0, <2>1 DEF Transit, Mirror
  <2> QED BY <1>0, <2>1, <2>2, GotoKeepsMoney
<1> QED BY <1>1, <1>2, <1>3, <1>4 DEF TreasuryStart

LEMMA PlayerStepMoney ==
  ASSUME TypeOK, TypeOK', Owned, MoneyInv, NEW t \in Task, PlayerStep(t)
  PROVE  MoneyInv'
<1> DEFINE c == task[t].who
           n == task[t].amt
<1>0. /\ n \in Int /\ -n \in Int /\ 0 \in Int /\ 0 + 0 = 0 /\ c \in Holder
      /\ task[t].at \notin MayBeNegative => n >= 1
      /\ task[t].at \notin Impersonal => c \in Character
      /\ UNCHANGED ledger => Posts(0, 0)
  BY StillPosts, TaskFacts
<1>1. CASE RegisterDeposit(t)
  <2>1. /\ Done(t) /\ task[t].at = "savings" /\ UNCHANGED crashes
        /\ Posts(n, 0) /\ Pays(0) /\ Loses(0)
    BY <1>0, <1>1, JournalPosts
       DEF RegisterDeposit, Resume, Pays, Loses, Impersonal, MayBeNegative
  <2>2. /\ n + 0 + 0 = Transit(task[t].at, task[t].amt)
        /\ 0 + Mirror(task[t].at, task[t].amt) = 0
    BY <1>0, <2>1 DEF Transit, Mirror
  <2> QED BY <1>0, <2>1, <2>2, DoneKeepsMoney
<1>2. CASE RegisterWithdrawal(t)
  <2>1. /\ Goto(t, "payout", c, n) /\ task[t].at = "withdraw" /\ UNCHANGED crashes
        /\ Posts(-n, 0) /\ Pays(0) /\ Loses(0)
    BY <1>0, <1>2, JournalPosts
       DEF RegisterWithdrawal, Resume, Pays, Loses, Impersonal, MayBeNegative
  <2>2. /\ -n + 0 + 0 + Transit("payout", n) = Transit(task[t].at, task[t].amt)
        /\ 0 + Mirror(task[t].at, task[t].amt) = Mirror("payout", n)
    BY <1>0, <2>1 DEF Transit, Mirror
  <2> QED BY <1>0, <2>1, <2>2, GotoKeepsMoney
<1>3. CASE RegisterDonationWithdrawal(t)
  <2>1. /\ Goto(t, "donation", c, n) /\ task[t].at = "donate" /\ UNCHANGED crashes
        /\ Posts(-n, 0) /\ Pays(0) /\ Loses(0)
    BY <1>0, <1>3, JournalPosts
       DEF RegisterDonationWithdrawal, Resume, Pays, Loses, Impersonal, MayBeNegative
  <2>2. /\ -n + 0 + 0 + Transit("donation", n) = Transit(task[t].at, task[t].amt)
        /\ 0 + Mirror(task[t].at, task[t].amt) = Mirror("donation", n)
    BY <1>0, <2>1 DEF Transit, Mirror
  <2> QED BY <1>0, <2>1, <2>2, GotoKeepsMoney
<1>4. CASE PayWallet(t)
  <2>1. /\ Done(t) /\ task[t].at = "payout" /\ UNCHANGED crashes
        /\ Posts(0, 0) /\ Pays(n) /\ Loses(0)
    BY <1>0, <1>4
       DEF PayWallet, Resume, Pays, Loses, Impersonal, MayBeNegative
  <2>2. /\ 0 + n + 0 = Transit(task[t].at, task[t].amt)
        /\ 0 + Mirror(task[t].at, task[t].amt) = 0
    BY <1>0, <2>1 DEF Transit, Mirror
  <2> QED BY <1>0, <2>1, <2>2, DoneKeepsMoney
<1>5. CASE PayWalletFails(t)
  <2>1. /\ Done(t) /\ task[t].at = "payout" /\ UNCHANGED crashes
        /\ Posts(0, 0) /\ Pays(0) /\ Loses(n)
    BY <1>0, <1>5
       DEF PayWalletFails, Resume, Pays, Loses, Impersonal, MayBeNegative, Cause
  <2>2. /\ 0 + 0 + n = Transit(task[t].at, task[t].amt)
        /\ 0 + Mirror(task[t].at, task[t].amt) = 0
    BY <1>0, <2>1 DEF Transit, Mirror
  <2> QED BY <1>0, <2>1, <2>2, DoneKeepsMoney
<1>6. CASE RegisterDonation(t)
  <2>1. /\ Goto(t, "donated", c, n) /\ task[t].at = "donation" /\ UNCHANGED crashes
        /\ Posts(n, 0) /\ Pays(0) /\ Loses(0)
    BY <1>0, <1>6, JournalPosts
       DEF RegisterDonation, Resume, Pays, Loses, Impersonal, MayBeNegative
  <2>2. /\ n + 0 + 0 + Transit("donated", n) = Transit(task[t].at, task[t].amt)
        /\ 0 + Mirror(task[t].at, task[t].amt) = Mirror("donated", n)
    BY <1>0, <2>1 DEF Transit, Mirror
  <2> QED BY <1>0, <2>1, <2>2, GotoKeepsMoney
<1>7. CASE AddTotalDonations(t)
  <2>1. /\ Done(t) /\ task[t].at = "donated" /\ UNCHANGED crashes
        /\ Posts(0, 0) /\ Pays(0) /\ Loses(0)
    BY <1>0, <1>7
       DEF AddTotalDonations, Resume, Pays, Loses, Impersonal, MayBeNegative
  <2>2. /\ 0 + 0 + 0 = Transit(task[t].at, task[t].amt)
        /\ 0 + Mirror(task[t].at, task[t].amt) = 0
    BY <1>0, <2>1 DEF Transit, Mirror
  <2> QED BY <1>0, <2>1, <2>2, DoneKeepsMoney
<1>8. ASSUME NEW fee \in Fees \cup {0}, RegisterLoan(t, fee)
      PROVE  MoneyInv'
  <2> DEFINE b == IF n > 0 THEN -n ELSE 0
             l == IF n > 0 THEN 0 ELSE -n
  <2>0. task[t].at = "loan"
    BY <1>8 DEF RegisterLoan, Resume
  <2>1. fee \in Nat /\ c \in Character
    <3>1. fee \in Nat
      BY TreasuryAssumption
    <3> QED BY <1>0, <2>0, <3>1 DEF Impersonal
  <2>2. Posts(b, 0)
    BY <1>0, <1>8, <2>1, LoanPosts DEF RegisterLoan
  <2>3. /\ Goto(t, "payout", c, n) /\ task[t].at = "loan" /\ UNCHANGED crashes /\ Pays(0)
        /\ Loses(l)
    BY <1>8 DEF RegisterLoan, Resume, Pays, Loses, Cause
  <2>4. /\ b + 0 + l + Transit("payout", n) = Transit(task[t].at, task[t].amt)
        /\ 0 + Mirror(task[t].at, task[t].amt) = Mirror("payout", n)
        /\ b \in Int /\ l \in Int
    BY <1>0, <2>3 DEF Transit, Mirror
  <2> HIDE DEF b, l
  <2> QED BY <1>0, <2>2, <2>3, <2>4, GotoKeepsMoney
<1>9. CASE CheckRepayment(t)
  <2>1. /\ task[t].at = "repayCheck" /\ UNCHANGED crashes /\ Posts(0, 0) /\ Pays(0)
        /\ (Done(t) /\ Loses(n)) \/ (Goto(t, "repay", c, n) /\ Loses(0))
    BY <1>0, <1>9 DEF CheckRepayment, Resume, Pays, Loses, Cause
  <2>2. /\ 0 + 0 + n = Transit(task[t].at, task[t].amt)
        /\ 0 + 0 + 0 + Transit("repay", n) = Transit(task[t].at, task[t].amt)
        /\ 0 + Mirror(task[t].at, task[t].amt) = 0
        /\ 0 + Mirror(task[t].at, task[t].amt) = Mirror("repay", n)
    BY <1>0, <2>1 DEF Transit, Mirror
  <2>3. CASE Done(t) /\ Loses(n)
    BY <1>0, <2>1, <2>2, <2>3, DoneKeepsMoney
  <2>4. CASE Goto(t, "repay", c, n) /\ Loses(0)
    BY <1>0, <2>1, <2>2, <2>4, GotoKeepsMoney
  <2> QED BY <2>1, <2>3, <2>4
<1>10. CASE RegisterRepayment(t)
  <2> DEFINE b == IF n > 0 THEN n ELSE 0
             l == IF n > 0 THEN 0 ELSE n
  <2>1. Posts(b, 0)
    BY <1>0, <1>10, JournalPosts DEF RegisterRepayment, Resume, Impersonal
  <2>2. /\ Done(t) /\ task[t].at = "repay" /\ UNCHANGED crashes /\ Pays(0)
        /\ Loses(l)
    BY <1>10 DEF RegisterRepayment, Resume, Pays, Loses, Cause
  <2>3. /\ b + 0 + l = Transit(task[t].at, task[t].amt)
        /\ 0 + Mirror(task[t].at, task[t].amt) = 0 /\ b \in Int /\ l \in Int
    BY <1>0, <2>2 DEF Transit, Mirror
  <2> HIDE DEF b, l
  <2> QED BY <1>0, <2>1, <2>2, <2>3, DoneKeepsMoney
<1>11. CASE BulkCreateInterest(t)
  <2>1. /\ Done(t) /\ task[t].at = "interest" /\ UNCHANGED crashes
        /\ Posts(0, 0) /\ Pays(0) /\ Loses(0)
    BY <1>0, <1>11, BulkPosts DEF BulkCreateInterest, Resume, Pays, Loses, Impersonal
  <2>2. /\ 0 + 0 + 0 = Transit(task[t].at, task[t].amt)
        /\ 0 + Mirror(task[t].at, task[t].amt) = 0
    BY <1>0, <2>1 DEF Transit, Mirror
  <2> QED BY <1>0, <2>1, <2>2, DoneKeepsMoney
<1>12. CASE BulkCreateWealthTax(t)
  <2>1. /\ Done(t) /\ task[t].at = "wealthTax" /\ UNCHANGED crashes
        /\ Posts(n, 0) /\ Pays(0) /\ Loses(-n)
    BY <1>0, <1>12, BulkPosts DEF BulkCreateWealthTax, Resume, Pays, Loses, Impersonal, Cause
  <2>2. /\ n + 0 + (-n) = Transit(task[t].at, task[t].amt)
        /\ 0 + Mirror(task[t].at, task[t].amt) = 0
    BY <1>0, <2>1 DEF Transit, Mirror
  <2> QED BY <1>0, <2>1, <2>2, DoneKeepsMoney
<1> QED
  BY <1>1, <1>2, <1>3, <1>4, <1>5, <1>6, <1>7, <1>8, <1>9, <1>10, <1>11, <1>12 DEF PlayerStep

LEMMA TreasuryStepMoney ==
  ASSUME TypeOK, TypeOK', Owned, MoneyInv, NEW t \in Task, TreasuryStep(t)
  PROVE  MoneyInv'
<1> DEFINE c == task[t].who
           n == task[t].amt
<1>0. /\ n \in Int /\ -n \in Int /\ 0 \in Int /\ 0 + 0 = 0 /\ c \in Holder
      /\ task[t].at \notin MayBeNegative => n >= 1
      /\ task[t].at \notin Impersonal => c \in Character
      /\ UNCHANGED ledger => Posts(0, 0)
  BY StillPosts, TaskFacts
<1>1. CASE RegisterSalary(t)
  <2>1. /\ Goto(t, "payout", c, n) /\ task[t].at = "salary" /\ UNCHANGED crashes
        /\ Posts(-n, 0) /\ Pays(0) /\ Loses(0)
    BY <1>0, <1>1, JournalPosts
       DEF RegisterSalary, Resume, Pays, Loses, Impersonal, MayBeNegative
  <2>2. /\ -n + 0 + 0 + Transit("payout", n) = Transit(task[t].at, task[t].amt)
        /\ 0 + Mirror(task[t].at, task[t].amt) = Mirror("payout", n)
    BY <1>0, <2>1 DEF Transit, Mirror
  <2> QED BY <1>0, <2>1, <2>2, GotoKeepsMoney
<1>2. CASE PaySubsidy(t)
  <2>1. /\ Goto(t, "subsidyPaid", c, n) /\ task[t].at = "subsidy" /\ UNCHANGED crashes
        /\ Posts(0, 0) /\ Pays(n) /\ Loses(0)
    BY <1>0, <1>2
       DEF PaySubsidy, Resume, Pays, Loses, Impersonal, MayBeNegative
  <2>2. /\ 0 + n + 0 + Transit("subsidyPaid", n) = Transit(task[t].at, task[t].amt)
        /\ 0 + Mirror(task[t].at, task[t].amt) = Mirror("subsidyPaid", n)
    BY <1>0, <2>1 DEF Transit, Mirror
  <2> QED BY <1>0, <2>1, <2>2, GotoKeepsMoney
<1>3. CASE PaySubsidyFails(t)
  <2>1. /\ Done(t) /\ task[t].at = "subsidy" /\ UNCHANGED crashes
        /\ Posts(0, 0) /\ Pays(0) /\ Loses(0)
    BY <1>0, <1>3
       DEF PaySubsidyFails, Resume, Pays, Loses, Impersonal, MayBeNegative
  <2>2. /\ 0 + 0 + 0 = Transit(task[t].at, task[t].amt)
        /\ 0 + Mirror(task[t].at, task[t].amt) = 0
    BY <1>0, <2>1 DEF Transit, Mirror
  <2> QED BY <1>0, <2>1, <2>2, DoneKeepsMoney
<1>4. CASE RegisterSubsidy(t)
  <2>1. /\ Done(t) /\ task[t].at = "subsidyExpense" /\ UNCHANGED crashes
        /\ Posts(-n, 0) /\ Pays(0) /\ Loses(0)
    BY <1>0, <1>4, JournalPosts
       DEF RegisterSubsidy, Resume, Pays, Loses, Impersonal, MayBeNegative
  <2>2. /\ -n + 0 + 0 = Transit(task[t].at, task[t].amt)
        /\ 0 + Mirror(task[t].at, task[t].amt) = 0
    BY <1>0, <2>1 DEF Transit, Mirror
  <2> QED BY <1>0, <2>1, <2>2, DoneKeepsMoney
<1>5. CASE RegisterLaundering(t)
  <2>1. /\ Done(t) /\ task[t].at = "laundering" /\ UNCHANGED crashes
        /\ Posts(-n, 0) /\ Pays(0) /\ Loses(n)
    BY <1>0, <1>5, JournalPosts
       DEF RegisterLaundering, Resume, Pays, Loses, Impersonal, MayBeNegative, Cause
  <2>2. /\ -n + 0 + n = Transit(task[t].at, task[t].amt)
        /\ 0 + Mirror(task[t].at, task[t].amt) = 0
    BY <1>0, <2>1 DEF Transit, Mirror
  <2> QED BY <1>0, <2>1, <2>2, DoneKeepsMoney
<1>6. CASE RegisterGrant(t)
  <2>1. /\ Goto(t, "grantBank", c, n) /\ task[t].at = "grant" /\ UNCHANGED crashes
        /\ Posts(-n, 0) /\ Pays(0) /\ Loses(0)
    BY <1>0, <1>6, JournalPosts
       DEF RegisterGrant, Resume, Pays, Loses, Impersonal, MayBeNegative
  <2>2. /\ -n + 0 + 0 + Transit("grantBank", n) = Transit(task[t].at, task[t].amt)
        /\ 0 + Mirror(task[t].at, task[t].amt) = Mirror("grantBank", n)
    BY <1>0, <2>1 DEF Transit, Mirror
  <2> QED BY <1>0, <2>1, <2>2, GotoKeepsMoney
<1>7. CASE DepositGrant(t)
  <2>1. /\ Done(t) /\ task[t].at = "grantBank" /\ UNCHANGED crashes
        /\ Posts(n, 0) /\ Pays(0) /\ Loses(0)
    BY <1>0, <1>7, JournalPosts
       DEF DepositGrant, Resume, Pays, Loses, Impersonal, MayBeNegative
  <2>2. /\ n + 0 + 0 = Transit(task[t].at, task[t].amt)
        /\ 0 + Mirror(task[t].at, task[t].amt) = 0
    BY <1>0, <2>1 DEF Transit, Mirror
  <2> QED BY <1>0, <2>1, <2>2, DoneKeepsMoney
<1>8. CASE RegisterTax(t)
  <2>1. /\ Done(t) /\ task[t].at = "tax" /\ UNCHANGED crashes
        /\ Posts(n, 0) /\ Pays(0) /\ Loses(0)
    BY <1>0, <1>8, JournalPosts
       DEF RegisterTax, Resume, Pays, Loses, Impersonal, MayBeNegative
  <2>2. /\ n + 0 + 0 = Transit(task[t].at, task[t].amt)
        /\ 0 + Mirror(task[t].at, task[t].amt) = 0
    BY <1>0, <2>1 DEF Transit, Mirror
  <2> QED BY <1>0, <2>1, <2>2, DoneKeepsMoney
<1>9. CASE RegisterTaxRaises(t)
  <2>1. /\ Goto(t, "taxRefund", c, n) /\ task[t].at = "tax" /\ UNCHANGED crashes
        /\ Posts(0, 0) /\ Pays(0) /\ Loses(0)
    BY <1>0, <1>9
       DEF RegisterTaxRaises, Resume, Pays, Loses, Impersonal, MayBeNegative
  <2>2. /\ 0 + 0 + 0 + Transit("taxRefund", n) = Transit(task[t].at, task[t].amt)
        /\ 0 + Mirror(task[t].at, task[t].amt) = Mirror("taxRefund", n)
    BY <1>0, <2>1 DEF Transit, Mirror
  <2> QED BY <1>0, <2>1, <2>2, GotoKeepsMoney
<1>10. CASE RegisterConfiscation(t)
  <2>1. /\ Goto(t, "subsidy", c, n) /\ task[t].at = "confiscate" /\ UNCHANGED crashes
        /\ Posts(n, 0) /\ Pays(0) /\ Loses(0)
    BY <1>0, <1>10, JournalPosts
       DEF RegisterConfiscation, Resume, Pays, Loses, Impersonal, MayBeNegative
  <2>2. /\ n + 0 + 0 + Transit("subsidy", n) = Transit(task[t].at, task[t].amt)
        /\ 0 + Mirror(task[t].at, task[t].amt) = Mirror("subsidy", n)
    BY <1>0, <2>1 DEF Transit, Mirror
  <2> QED BY <1>0, <2>1, <2>2, GotoKeepsMoney
<1>11. CASE RegisterNirc(t)
  <2>1. /\ Done(t) /\ task[t].at = "nirc" /\ UNCHANGED crashes
        /\ Posts(0, 0) /\ Pays(0) /\ Loses(0)
    BY <1>0, <1>11, JournalPosts
       DEF RegisterNirc, Resume, Pays, Loses, Impersonal, MayBeNegative
  <2>2. /\ 0 + 0 + 0 = Transit(task[t].at, task[t].amt)
        /\ 0 + Mirror(task[t].at, task[t].amt) = 0
    BY <1>0, <2>1 DEF Transit, Mirror
  <2> QED BY <1>0, <2>1, <2>2, DoneKeepsMoney
<1>12. CASE DepositBankEquity(t)
  <2>1. /\ Done(t) /\ task[t].at = "bankDeposit" /\ UNCHANGED crashes
        /\ Posts(n, -n) /\ Pays(0) /\ Loses(0)
    BY <1>0, <1>12, JournalPosts
       DEF DepositBankEquity, Resume, Pays, Loses, Impersonal, MayBeNegative
  <2>2. /\ n + 0 + 0 = Transit(task[t].at, task[t].amt)
        /\ -n + Mirror(task[t].at, task[t].amt) = 0
    BY <1>0, <2>1 DEF Transit, Mirror
  <2> QED BY <1>0, <2>1, <2>2, DoneKeepsMoney
<1>13. CASE WithdrawTreasuryFund(t)
  <2>1. /\ Goto(t, "bankEquityOut", Internal, n) /\ task[t].at = "bankWithdrawal" /\ UNCHANGED crashes
        /\ Posts(n, -n) /\ Pays(0) /\ Loses(0)
    BY <1>0, <1>13, JournalPosts
       DEF WithdrawTreasuryFund, Resume, Pays, Loses, Impersonal, MayBeNegative
  <2>2. /\ n + 0 + 0 + Transit("bankEquityOut", n) = Transit(task[t].at, task[t].amt)
        /\ -n + Mirror(task[t].at, task[t].amt) = Mirror("bankEquityOut", n)
    BY <1>0, <2>1 DEF Transit, Mirror
  <2> QED BY <1>0, <2>1, <2>2, GotoKeepsMoney
<1>14. CASE WithdrawBankEquity(t)
  <2>1. /\ Done(t) /\ task[t].at = "bankEquityOut" /\ UNCHANGED crashes
        /\ Posts(-n, n) /\ Pays(0) /\ Loses(0)
    BY <1>0, <1>14, JournalPosts
       DEF WithdrawBankEquity, Resume, Pays, Loses, Impersonal, MayBeNegative
  <2>2. /\ -n + 0 + 0 = Transit(task[t].at, task[t].amt)
        /\ n + Mirror(task[t].at, task[t].amt) = 0
    BY <1>0, <2>1 DEF Transit, Mirror
  <2> QED BY <1>0, <2>1, <2>2, DoneKeepsMoney
<1>15. CASE CheckSubsidyFloor(t)
  <2>1. /\ task[t].at = "subsidyPaid" /\ UNCHANGED crashes /\ Posts(0, 0) /\ Pays(0)
        /\ (Goto(t, "subsidyExpense", c, n) /\ Loses(0)) \/ (Done(t) /\ Loses(-n))
    BY <1>0, <1>15 DEF CheckSubsidyFloor, Resume, Pays, Loses, Cause
  <2>2. /\ 0 + 0 + (-n) = Transit(task[t].at, task[t].amt)
        /\ 0 + 0 + 0 + Transit("subsidyExpense", n) = Transit(task[t].at, task[t].amt)
        /\ 0 + Mirror(task[t].at, task[t].amt) = 0
        /\ 0 + Mirror(task[t].at, task[t].amt) = Mirror("subsidyExpense", n)
    BY <1>0, <2>1 DEF Transit, Mirror
  <2>3. CASE Done(t) /\ Loses(-n)
    BY <1>0, <2>1, <2>2, <2>3, DoneKeepsMoney
  <2>4. CASE Goto(t, "subsidyExpense", c, n) /\ Loses(0)
    BY <1>0, <2>1, <2>2, <2>4, GotoKeepsMoney
  <2> QED BY <2>1, <2>3, <2>4
<1>16. CASE RefundTax(t)
  <2>1. /\ Done(t) /\ task[t].at = "taxRefund" /\ UNCHANGED crashes /\ Posts(0, 0)
        /\ (Pays(n) /\ Loses(0)) \/ (Pays(0) /\ Loses(n))
    BY <1>0, <1>16 DEF RefundTax, Resume, Pays, Loses, Impersonal, Cause
  <2>2. /\ 0 + n + 0 = Transit(task[t].at, task[t].amt)
        /\ 0 + 0 + n = Transit(task[t].at, task[t].amt)
        /\ 0 + Mirror(task[t].at, task[t].amt) = 0
    BY <1>0, <2>1 DEF Transit, Mirror
  <2>3. CASE Pays(n) /\ Loses(0)
    BY <1>0, <2>1, <2>2, <2>3, DoneKeepsMoney
  <2>4. CASE Pays(0) /\ Loses(n)
    BY <1>0, <2>1, <2>2, <2>4, DoneKeepsMoney
  <2> QED BY <2>1, <2>3, <2>4
<1> QED
  BY <1>1, <1>2, <1>3, <1>4, <1>5, <1>6, <1>7, <1>8, <1>9, <1>10, <1>11, <1>12,
     <1>13, <1>14, <1>15, <1>16 DEF TreasuryStep

LEMMA CrashMoney ==
  ASSUME TypeOK, TypeOK', Owned, MoneyInv, NEW t \in Task, Crash(t)
  PROVE  MoneyInv'
<1>1. task[t] \in Frame
  BY DEF TypeOK, Frame
<1> DEFINE l == InTransit(task[t])
<1>2. l \in Int /\ l = Transit(task[t].at, task[t].amt)
  BY <1>1, FrameCarries
<1>3. Done(t) /\ Posts(0, 0) /\ Pays(0) /\ Loses(l) /\ crashes' # 0
  BY StillPosts DEF Crash, Pays, Loses, Cause, TypeOK
<1> HIDE DEF l
<1>4. 0 + 0 + l = l
  BY <1>2
<1> QED BY <1>2, <1>3, <1>4, EndKeepsMoney

LEMMA MoneyInit == ASSUME Init PROVE MoneyInv
<1>1. SumFunction(wallet) = 0 /\ SumFunction(leak) = 0
  <2>1. /\ wallet = [c \in Character |-> 0] /\ IsFiniteSet(Character)
        /\ leak = [k \in Cause |-> 0] /\ IsFiniteSet(Cause)
    BY TreasuryAssumption, CauseFinite DEF Init
  <2> QED BY <2>1, TotalZero
<1>2. SumFunction(Carried) = 0 /\ SumFunction(Mirrored) = 0
  <2>1. Carried = [t \in Task |-> 0] /\ Mirrored = [t \in Task |-> 0]
    BY DEF Init, Carried, Mirrored, InTransit, Mirroring, Idle
  <2> QED BY <2>1, TreasuryAssumption, TotalZero
<1>3. /\ Cash(Opening) \in Int /\ Opening[BankEquity] \in Int
      /\ Opening[FundInBank] \in Int /\ balance = Opening
  BY ChartOfAccounts, TreasuryAssumption DEF Cash, Init
<1>4. /\ Cash(Opening) + 0 + 0 + 0 = Cash(Opening)
      /\ Opening[FundInBank] - Opening[FundInBank]
           = Opening[BankEquity] - Opening[BankEquity] + 0
  BY <1>3
<1> QED BY <1>1, <1>2, <1>3, <1>4
     DEF MoneyInv, CashAccountedFor, DepositMirrorsEquity, Carried, Mirrored

LEMMA MoneyNext ==
  ASSUME TypeOK, TypeOK', Owned, MoneyInv, [Next]_vars
  PROVE  MoneyInv'
<1>1. CASE Next
  <2>1. PICK t \in Task :
          \/ \E c \in Character, n \in Amount : PlayerStart(t, c, n)
          \/ \E n \in Amount : TreasuryStart(t, n)
          \/ PlayerStep(t)
          \/ TreasuryStep(t)
          \/ Crash(t)
    BY <1>1 DEF Next
  <2> QED BY <2>1, PlayerStartMoney, TreasuryStartMoney, PlayerStepMoney,
             TreasuryStepMoney, CrashMoney
<1>2. CASE UNCHANGED vars
  BY <1>2 DEF vars, MoneyInv, CashAccountedFor, DepositMirrorsEquity, Cash
<1> QED BY <1>1, <1>2

(* All cash is somewhere, whatever interleaves, fails or is killed: what   *)
(* is missing left through a named cause, and through nothing else.        *)
THEOREM CashIsAccounted == Spec => []CashAccountedFor
<1>1. Init => MoneyInv
  BY MoneyInit
<1>2. BooksInv /\ BooksInv' /\ MoneyInv /\ [Next]_vars => MoneyInv'
  BY MoneyNext DEF BooksInv
<1>3. MoneyInv => CashAccountedFor
  BY DEF MoneyInv
<1> QED BY <1>1, <1>2, <1>3, BooksInvariant, PTL DEF Spec

(* Until a task dies between the two journals of a transfer, the deposit   *)
(* of the government and the equity of the bank differ by what the         *)
(* unfinished transfers carry.                                             *)
THEOREM DepositMirrors == Spec => []DepositMirrorsEquity
<1>1. Init => MoneyInv
  BY MoneyInit
<1>2. BooksInv /\ BooksInv' /\ MoneyInv /\ [Next]_vars => MoneyInv'
  BY MoneyNext DEF BooksInv
<1>3. MoneyInv => DepositMirrorsEquity
  BY DEF MoneyInv
<1> QED BY <1>1, <1>2, <1>3, BooksInvariant, PTL DEF Spec

=============================================================================
