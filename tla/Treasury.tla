------------------------------ MODULE Treasury ------------------------------
(***************************************************************************)
(* The Bank of ASEAN and the government treasury: every operation of       *)
(* src/src/amc_finance/services.py and loans.py that moves money, together *)
(* with the callers that pay or charge the in-game wallet around it        *)
(* (commands/finance.py, subsidies.py, tax.py, ubi.py, handlers).          *)
(*                                                                         *)
(* The operations are coroutines of one worker process (plus the Discord   *)
(* bot and the API in other processes): each await is a point where the    *)
(* others run.  A task is the state of one coroutine: the step it has      *)
(* reached, the character and the amount it carries.  A balance that was   *)
(* read before an await lives on in the step the check led to.             *)
(***************************************************************************)
EXTENDS Ledger, FiniteSetsExt

CONSTANTS Task,        \* the coroutines that may run at the same time
          MaxAmount,   \* bound: the largest amount of one operation
          MaxStarts,   \* bound: operations started in a behaviour
          MaxCrashes,  \* bound: tasks killed (job timeout, worker restart)
          Opening,     \* the balances at the start
          Floor,       \* TREASURY_FLOOR
          Exempt,      \* WEALTH_TAX_EXEMPT
          MaxLoan,     \* get_character_max_loan
          Fees,        \* the fees calc_loan_fee may ask
          NircDivisor  \* 1 / the highest daily NIRC rate

ASSUME TreasuryAssumption ==
  /\ IsFiniteSet(Character) /\ IsFiniteSet(Task)
  /\ MaxAmount \in Nat /\ MaxStarts \in Nat /\ MaxCrashes \in Nat
  /\ Opening \in [Account -> Int]
  /\ Floor \in Int /\ Exempt \in Nat /\ MaxLoan \in Nat
  /\ Fees \subseteq Nat
  /\ NircDivisor \in Nat \ {0}

Amount == 1 .. MaxAmount

VARIABLES balance,    \* Account.balance, the stored column
          entered,    \* the LedgerEntry rows of an account: debits - credits
          trial,      \* the rows of a book: debits - credits
          wallet,     \* the in-game wallet, as a difference from the start
          donations,  \* Character.total_donations
          task,       \* the coroutines
          leak,       \* cash that left the system, by cause (ghost)
          unchecked,  \* Treasury Fund outflows without a floor check (ghost)
          starts,     \* operations started
          crashes     \* tasks killed

ledger == <<balance, entered, trial>>
vars   == <<balance, entered, trial, wallet, donations, task, leak,
            unchecked, starts, crashes>>

Cause == {"floorSkip", "payoutFailed", "refundFailed", "repayRejected",
          "filtered", "unowned", "wealthTax", "laundering", "crash"}

(* Where a coroutine is: the name says what it is about to do.             *)
At == {"idle", "savings", "withdraw", "payout", "donate", "donation",
       "donated", "salary", "subsidy", "subsidyPaid", "subsidyExpense",
       "laundering", "tax", "taxRefund", "confiscate", "grant", "grantBank",
       "loan", "repayCheck", "repay", "interest", "wealthTax", "nirc",
       "bankDeposit", "bankWithdrawal", "bankEquityOut"}

Idle == [at |-> "idle", who |-> Internal, amt |-> 0]

(* Only a loan and its repayment can carry an amount that is not positive. *)
MayBeNegative == {"idle", "loan", "payout", "repayCheck", "repay"}

(* The state is well typed, and every coroutine carries an amount its      *)
(* caller could have passed: positive except for loans (finance.py:213,    *)
(* loans.py:579), and never above what was asked for.                      *)
TypeOK ==
  /\ balance \in [Account -> Int]
  /\ entered \in [Account -> Int]
  /\ trial \in [Book -> Int]
  /\ wallet \in [Character -> Int]
  /\ donations \in [Character -> Nat]
  /\ task \in [Task -> [at : At, who : Holder, amt : Int]]
  /\ \A t \in Task : /\ task[t].amt <= MaxAmount
                     /\ task[t].at \notin MayBeNegative => task[t].amt >= 1
  /\ leak \in [Cause -> Int]
  /\ unchecked \in Nat /\ starts \in Nat /\ crashes \in Nat

Init ==
  /\ balance = Opening
  /\ entered = [a \in Account |->
                  IF DebitNormal(a) THEN Opening[a] ELSE -Opening[a]]
  /\ trial = [b \in Book |-> 0]
  /\ wallet = [c \in Character |-> 0]
  /\ donations = [c \in Character |-> 0]
  /\ task = [t \in Task |-> Idle]
  /\ leak = [k \in Cause |-> 0]
  /\ unchecked = 0 /\ starts = 0 /\ crashes = 0

-----------------------------------------------------------------------------
(* Steps of a coroutine.                                                   *)
Goto(t, at, c, n) == task' = [task EXCEPT ![t] = [at |-> at, who |-> c, amt |-> n]]
Done(t)           == task' = [task EXCEPT ![t] = Idle]

Begin(t) == task[t].at = "idle" /\ starts < MaxStarts /\ starts' = starts + 1

Resume(t, at) == task[t].at = at /\ UNCHANGED starts

Pay(c, n)     == wallet' = [wallet EXCEPT ![c] = @ + n]
Lose(cause, n) == leak' = [leak EXCEPT ![cause] = @ + n]

(* create_journal_entry: the rows and the balances of all the kept lines   *)
(* in one transaction, or nothing.                                         *)
CreateJournalEntry(j) ==
  IF Accepted(j)
  THEN /\ balance' = [a \in Account |-> balance[a] + Change(j, a)]
       /\ entered' = [a \in Account |-> entered[a] + Rows(j, a)]
       /\ trial' = [b \in Book |-> trial[b] + InBook(j, b)]
  ELSE UNCHANGED ledger

(* The bulk writers of interest and wealth tax create the rows themselves  *)
(* and add to the balances on their own; the lines of one account of the   *)
(* batch (the other accounts of a batch are other, disjoint, lines).       *)
BulkCreate(j, change) ==
  /\ entered' = [a \in Account |-> entered[a] + Rows(j, a)]
  /\ trial' = [b \in Book |-> trial[b] + InBook(j, b)]
  /\ balance' = [a \in Account |-> balance[a] + change[a]]

check_treasury_floor(n) == balance[TreasuryFund] - n >= Floor

(* Variants with a planted mistake; no action uses them.                   *)
ReversedEquityOutEntries(n)  == Transfer(BankVault, BankEquity, n)
TwoDebitInterestEntries(c, n) ==
  <<DebitLine(Checking(c), n), DebitLine(BankExpense, n), NoLine>>
UnexpensedInterestChange(c, n) ==
  [a \in Account |-> IF a = Checking(c) THEN n ELSE 0]

DepositEntries(c, n)      == Transfer(BankVault, Checking(c), n)
WithdrawalEntries(c, n)   == Transfer(Checking(c), BankVault, n)
DonationEntries(n)        == Transfer(TreasuryFund, TreasuryRevenue, n)
ExpenseEntries(n)         == Transfer(TreasuryExpenses, TreasuryFund, n)
ConfiscationEntries(n)    == Transfer(TreasuryFund, ConfiscationRevenue, n)
RentEntries(n)            == Transfer(TreasuryFund, RentRevenue, n)
TaxEntries(n)             == Transfer(TreasuryFund, TaxRevenue, n)
RepaymentEntries(c, n)    == Transfer(BankVault, Loan(c), n)
NircEntries(n)            == Transfer(TreasuryFund, Reserves, n)
FundToBankEntries(n)      == Transfer(FundInBank, TreasuryFund, n)
BankToFundEntries(n)      == Transfer(TreasuryFund, FundInBank, n)
EquityInEntries(n)        == Transfer(BankVault, BankEquity, n)
EquityOutEntries(n)       == Transfer(BankEquity, BankVault, n)
InterestEntries(c, n)     == Transfer(BankExpense, Checking(c), n)

(* principal = amount + fee: the loan, the fee as revenue, the cash out.   *)
LoanEntries(c, n, fee) ==
  <<DebitLine(Loan(c), n + fee), CreditLine(BankRevenue, fee),
    CreditLine(BankVault, n)>>

(* Both rows of a wealth tax entry are debits.                             *)
WealthTaxEntries(c, n) ==
  <<DebitLine(Checking(c), n), DebitLine(Reserves, n), NoLine>>

InterestChange(c, n) ==
  [a \in Account |-> IF a \in {Checking(c), BankExpense} THEN n ELSE 0]

WealthTaxChange(c, n) ==
  [a \in Account |-> IF a = Checking(c) THEN -n
                     ELSE IF a = Reserves THEN n ELSE 0]

-----------------------------------------------------------------------------
(* set_aside_player_savings: the wallet first, then the deposit.           *)
SaveFromWallet(t, c, n) ==
  /\ Begin(t) /\ Pay(c, -n) /\ Goto(t, "savings", c, n)
  /\ UNCHANGED <<ledger, donations, leak, unchecked, crashes>>

RegisterDeposit(t) ==
  /\ Resume(t, "savings")
  /\ CreateJournalEntry(DepositEntries(task[t].who, task[t].amt))
  /\ Done(t)
  /\ UNCHANGED <<wallet, donations, leak, unchecked, crashes>>

UncheckedWithdrawal(t, c, n, purpose) ==   \* planted mistake: no check
  /\ Begin(t) /\ Goto(t, purpose, c, n)
  /\ UNCHANGED <<ledger, wallet, donations, leak, unchecked, crashes>>

(* register_player_withdrawal reads the account and compares; the journal  *)
(* is a later step.  cmd_withdraw pays the wallet, cmd_donate donates.     *)
CheckWithdrawal(t, c, n, purpose) ==
  /\ Begin(t)
  /\ n <= balance[Checking(c)]
  /\ Goto(t, purpose, c, n)
  /\ UNCHANGED <<ledger, wallet, donations, leak, unchecked, crashes>>

RegisterWithdrawal(t) ==
  /\ Resume(t, "withdraw")
  /\ CreateJournalEntry(WithdrawalEntries(task[t].who, task[t].amt))
  /\ Goto(t, "payout", task[t].who, task[t].amt)
  /\ UNCHANGED <<wallet, donations, leak, unchecked, crashes>>

RegisterDonationWithdrawal(t) ==
  /\ Resume(t, "donate")
  /\ CreateJournalEntry(WithdrawalEntries(task[t].who, task[t].amt))
  /\ Goto(t, "donation", task[t].who, task[t].amt)
  /\ UNCHANGED <<wallet, donations, leak, unchecked, crashes>>

(* The last step of a withdrawal, a loan and a salary; transfer_money      *)
(* raises when the game server answers anything but 200.                   *)
PayWallet(t) ==
  /\ Resume(t, "payout")
  /\ Pay(task[t].who, task[t].amt) /\ Done(t)
  /\ UNCHANGED <<ledger, donations, leak, unchecked, crashes>>

PayWalletFails(t) ==
  /\ Resume(t, "payout")
  /\ Lose("payoutFailed", task[t].amt) /\ Done(t)
  /\ UNCHANGED <<ledger, wallet, donations, unchecked, crashes>>

(* A public service bill or a redirected government income: the wallet is  *)
(* charged, then player_donation is called.                                *)
ChargeForTreasury(t, c, n) ==
  /\ Begin(t) /\ Pay(c, -n) /\ Goto(t, "donation", c, n)
  /\ UNCHANGED <<ledger, donations, leak, unchecked, crashes>>

(* player_donation: the journal, then total_donations in a second write.   *)
RegisterDonation(t) ==
  /\ Resume(t, "donation")
  /\ CreateJournalEntry(DonationEntries(task[t].amt))
  /\ Goto(t, "donated", task[t].who, task[t].amt)
  /\ UNCHANGED <<wallet, donations, leak, unchecked, crashes>>

AddTotalDonations(t) ==
  /\ Resume(t, "donated")
  /\ donations' = [donations EXCEPT ![task[t].who] = @ + task[t].amt]
  /\ Done(t)
  /\ UNCHANGED <<ledger, wallet, leak, unchecked, crashes>>

-----------------------------------------------------------------------------
(* send_fund_to_player_wallet as the UBI tick calls it: expense first (and *)
(* silently none below the floor), the wallet is paid in any case.         *)
BeginSalary(t, c, n) ==
  /\ Begin(t)
  /\ IF check_treasury_floor(n)
     THEN Goto(t, "salary", c, n) /\ UNCHANGED leak
     ELSE Goto(t, "payout", c, n) /\ Lose("floorSkip", -n)
  /\ UNCHANGED <<ledger, wallet, donations, unchecked, crashes>>

RegisterSalary(t) ==
  /\ Resume(t, "salary")
  /\ CreateJournalEntry(ExpenseEntries(task[t].amt))
  /\ Goto(t, "payout", task[t].who, task[t].amt)
  /\ UNCHANGED <<wallet, donations, leak, unchecked, crashes>>

SubsidyFromEmptyFund(t, c, n) ==   \* planted mistake: no early return
  /\ Begin(t)
  /\ Goto(t, "subsidy", c,
          IF n <= balance[TreasuryFund] THEN n ELSE balance[TreasuryFund])
  /\ UNCHANGED <<ledger, wallet, donations, leak, unchecked, crashes>>

(* subsidise_player: the amount is capped by the balance it reads, the     *)
(* wallet is paid, and only then is the floor checked and the expense      *)
(* registered.  The officer's confiscation reward and the rent rebate take *)
(* the same path without the cap.                                          *)
BeginSubsidy(t, c, n) ==
  /\ Begin(t)
  /\ balance[TreasuryFund] > 0
  /\ Goto(t, "subsidy", c,
          IF n <= balance[TreasuryFund] THEN n ELSE balance[TreasuryFund])
  /\ UNCHANGED <<ledger, wallet, donations, leak, unchecked, crashes>>

PaySubsidy(t) ==
  /\ Resume(t, "subsidy")
  /\ Pay(task[t].who, task[t].amt)
  /\ Goto(t, "subsidyPaid", task[t].who, task[t].amt)
  /\ UNCHANGED <<ledger, donations, leak, unchecked, crashes>>

PaySubsidyFails(t) ==
  /\ Resume(t, "subsidy") /\ Done(t)
  /\ UNCHANGED <<ledger, wallet, donations, leak, unchecked, crashes>>

CheckSubsidyFloor(t) ==
  /\ Resume(t, "subsidyPaid")
  /\ IF check_treasury_floor(task[t].amt)
     THEN /\ Goto(t, "subsidyExpense", task[t].who, task[t].amt)
          /\ UNCHANGED leak
     ELSE Done(t) /\ Lose("floorSkip", -task[t].amt)
  /\ UNCHANGED <<ledger, wallet, donations, unchecked, crashes>>

RegisterSubsidy(t) ==
  /\ Resume(t, "subsidyExpense")
  /\ CreateJournalEntry(ExpenseEntries(task[t].amt)) /\ Done(t)
  /\ UNCHANGED <<wallet, donations, leak, unchecked, crashes>>

(* record_treasury_expense: 20% of a money delivery is burned.             *)
BeginLaundering(t, n) ==
  /\ Begin(t)
  /\ check_treasury_floor(n)
  /\ Goto(t, "laundering", Internal, n)
  /\ UNCHANGED <<ledger, wallet, donations, leak, unchecked, crashes>>

RegisterLaundering(t) ==
  /\ Resume(t, "laundering")
  /\ CreateJournalEntry(ExpenseEntries(task[t].amt))
  /\ Lose("laundering", task[t].amt) /\ Done(t)
  /\ UNCHANGED <<wallet, donations, unchecked, crashes>>

(* send_fund_to_player: two journals in two transactions.                  *)
BeginGrant(t, c, n) ==
  /\ Begin(t)
  /\ check_treasury_floor(n)
  /\ Goto(t, "grant", c, n)
  /\ UNCHANGED <<ledger, wallet, donations, leak, unchecked, crashes>>

RegisterGrant(t) ==
  /\ Resume(t, "grant")
  /\ CreateJournalEntry(ExpenseEntries(task[t].amt))
  /\ Goto(t, "grantBank", task[t].who, task[t].amt)
  /\ UNCHANGED <<wallet, donations, leak, unchecked, crashes>>

DepositGrant(t) ==
  /\ Resume(t, "grantBank")
  /\ CreateJournalEntry(DepositEntries(task[t].who, task[t].amt)) /\ Done(t)
  /\ UNCHANGED <<wallet, donations, leak, unchecked, crashes>>

-----------------------------------------------------------------------------
(* tax_player: the wallet, then the ledger; when the ledger raises (a      *)
(* database error) the wallet is refunded, and the refund may fail too.    *)
BeginTax(t, c, n) ==
  /\ Begin(t) /\ Pay(c, -n) /\ Goto(t, "tax", c, n)
  /\ UNCHANGED <<ledger, donations, leak, unchecked, crashes>>

RegisterTax(t) ==
  /\ Resume(t, "tax")
  /\ CreateJournalEntry(TaxEntries(task[t].amt)) /\ Done(t)
  /\ UNCHANGED <<wallet, donations, leak, unchecked, crashes>>

RegisterTaxRaises(t) ==
  /\ Resume(t, "tax")
  /\ Goto(t, "taxRefund", task[t].who, task[t].amt)
  /\ UNCHANGED <<ledger, wallet, donations, leak, unchecked, crashes>>

RefundTax(t) ==
  /\ Resume(t, "taxRefund")
  /\ \/ Pay(task[t].who, task[t].amt) /\ UNCHANGED leak
     \/ Lose("refundFailed", task[t].amt) /\ UNCHANGED wallet
  /\ Done(t)
  /\ UNCHANGED <<ledger, donations, unchecked, crashes>>

(* Police confiscation of a money cargo: charge the previous owner (there  *)
(* may be none), credit the treasury, reward the officer with the amount.  *)
BeginConfiscation(t, victim, officer, n) ==
  /\ Begin(t)
  /\ IF victim = Internal
     THEN Lose("unowned", -n) /\ UNCHANGED wallet
     ELSE Pay(victim, -n) /\ UNCHANGED leak
  /\ Goto(t, "confiscate", officer, n)
  /\ UNCHANGED <<ledger, donations, unchecked, crashes>>

RegisterConfiscation(t) ==
  /\ Resume(t, "confiscate")
  /\ CreateJournalEntry(ConfiscationEntries(task[t].amt))
  /\ Goto(t, "subsidy", task[t].who, task[t].amt)
  /\ UNCHANGED <<wallet, donations, leak, unchecked, crashes>>

(* handle_rent_extend: the game has charged the rent; the treasury gets it *)
(* and pays back a rebate, wallet first.                                   *)
ReceiveRent(t, c, n, rebate) ==
  /\ Begin(t)
  /\ rebate <= n
  /\ Pay(c, -n)
  /\ CreateJournalEntry(RentEntries(n))
  /\ IF rebate > 0 THEN Goto(t, "subsidy", c, rebate) ELSE Done(t)
  /\ UNCHANGED <<donations, leak, unchecked, crashes>>

-----------------------------------------------------------------------------
(* cmd_loan: the amount is cut to max_loan - loan_balance, which is        *)
(* negative once fees have carried the balance over the limit.             *)
LoanAmount(c, n) ==
  IF n <= MaxLoan - balance[Loan(c)] THEN n ELSE MaxLoan - balance[Loan(c)]

BeginLoan(t, c, n) ==
  /\ Begin(t)
  /\ Goto(t, "loan", c, LoanAmount(c, n))
  /\ UNCHANGED <<ledger, wallet, donations, leak, unchecked, crashes>>

(* register_player_take_loan: there is no fee on a non-positive amount, so *)
(* all its lines are filtered away, and cmd_loan still "pays" the wallet.  *)
RegisterLoan(t, fee) ==
  /\ Resume(t, "loan")
  /\ LET n == task[t].amt IN
     /\ fee = 0 \/ n > 0
     /\ CreateJournalEntry(LoanEntries(task[t].who, n, fee))
     /\ IF n > 0 THEN UNCHANGED leak ELSE Lose("filtered", -n)
     /\ Goto(t, "payout", task[t].who, n)
  /\ UNCHANGED <<wallet, donations, unchecked, crashes>>

CreditedRepayment(t, c, n) ==   \* planted mistake: the sign of the transfer
  /\ Begin(t)
  /\ balance[Loan(c)] # 0
  /\ LET repayment == IF n <= balance[Loan(c)] THEN n ELSE balance[Loan(c)]
     IN Pay(c, repayment) /\ Goto(t, "repayCheck", c, repayment)
  /\ UNCHANGED <<ledger, donations, leak, unchecked, crashes>>

(* repay_loan_for_profit reads the balance, charges the wallet, and only   *)
(* then calls register_player_repay_loan, which reads and checks again.    *)
BeginRepayment(t, c, n) ==
  /\ Begin(t)
  /\ balance[Loan(c)] # 0
  /\ LET repayment == IF n <= balance[Loan(c)] THEN n ELSE balance[Loan(c)]
     IN Pay(c, -repayment) /\ Goto(t, "repayCheck", c, repayment)
  /\ UNCHANGED <<ledger, donations, leak, unchecked, crashes>>

CheckRepayment(t) ==
  /\ Resume(t, "repayCheck")
  /\ IF balance[Loan(task[t].who)] < task[t].amt
     THEN Done(t) /\ Lose("repayRejected", task[t].amt)
     ELSE Goto(t, "repay", task[t].who, task[t].amt) /\ UNCHANGED leak
  /\ UNCHANGED <<ledger, wallet, donations, unchecked, crashes>>

RegisterRepayment(t) ==
  /\ Resume(t, "repay")
  /\ CreateJournalEntry(RepaymentEntries(task[t].who, task[t].amt))
  /\ IF task[t].amt > 0 THEN UNCHANGED leak ELSE Lose("filtered", task[t].amt)
  /\ Done(t)
  /\ UNCHANGED <<wallet, donations, unchecked, crashes>>

-----------------------------------------------------------------------------
(* The hourly crons: a snapshot of the accounts, the amounts computed from *)
(* it, one transaction for the whole batch.  A task carries one account of *)
(* the batch.                                                              *)
BeginInterest(t, c, n) ==
  /\ Begin(t)
  /\ balance[Checking(c)] > 0
  /\ Goto(t, "interest", c, n)
  /\ UNCHANGED <<ledger, wallet, donations, leak, unchecked, crashes>>

BulkCreateInterest(t) ==
  /\ Resume(t, "interest")
  /\ LET c == task[t].who  n == task[t].amt IN
       BulkCreate(InterestEntries(c, n), InterestChange(c, n))
  /\ Done(t)
  /\ UNCHANGED <<wallet, donations, leak, unchecked, crashes>>

BeginWealthTax(t, c, n) ==
  /\ Begin(t)
  /\ n <= balance[Checking(c)] - Exempt
  /\ Goto(t, "wealthTax", c, n)
  /\ UNCHANGED <<ledger, wallet, donations, leak, unchecked, crashes>>

BulkCreateWealthTax(t) ==
  /\ Resume(t, "wealthTax")
  /\ LET c == task[t].who  n == task[t].amt IN
     /\ BulkCreate(WealthTaxEntries(c, n), WealthTaxChange(c, n))
     /\ Lose("wealthTax", -n)
  /\ Done(t)
  /\ UNCHANGED <<wallet, donations, unchecked, crashes>>

(* transfer_nirc: a share of the reserves, at most 1 / NircDivisor.        *)
BeginNirc(t, n) ==
  /\ Begin(t)
  /\ n * NircDivisor <= balance[Reserves]
  /\ Goto(t, "nirc", Internal, n)
  /\ UNCHANGED <<ledger, wallet, donations, leak, unchecked, crashes>>

RegisterNirc(t) ==
  /\ Resume(t, "nirc")
  /\ CreateJournalEntry(NircEntries(task[t].amt)) /\ Done(t)
  /\ UNCHANGED <<wallet, donations, leak, unchecked, crashes>>

-----------------------------------------------------------------------------
(* make_treasury_bank_deposit: no check at all, and two journals.          *)
DepositTreasuryFund(t, n) ==
  /\ Begin(t)
  /\ CreateJournalEntry(FundToBankEntries(n))
  /\ unchecked' = unchecked + n
  /\ Goto(t, "bankDeposit", Internal, n)
  /\ UNCHANGED <<wallet, donations, leak, crashes>>

DepositBankEquity(t) ==
  /\ Resume(t, "bankDeposit")
  /\ CreateJournalEntry(EquityInEntries(task[t].amt)) /\ Done(t)
  /\ UNCHANGED <<wallet, donations, leak, unchecked, crashes>>

(* make_treasury_bank_withdrawal: the check, then two journals.            *)
CheckBankWithdrawal(t, n) ==
  /\ Begin(t)
  /\ n <= balance[FundInBank]
  /\ Goto(t, "bankWithdrawal", Internal, n)
  /\ UNCHANGED <<ledger, wallet, donations, leak, unchecked, crashes>>

WithdrawTreasuryFund(t) ==
  /\ Resume(t, "bankWithdrawal")
  /\ CreateJournalEntry(BankToFundEntries(task[t].amt))
  /\ Goto(t, "bankEquityOut", Internal, task[t].amt)
  /\ UNCHANGED <<wallet, donations, leak, unchecked, crashes>>

WithdrawBankEquity(t) ==
  /\ Resume(t, "bankEquityOut")
  /\ CreateJournalEntry(EquityOutEntries(task[t].amt)) /\ Done(t)
  /\ UNCHANGED <<wallet, donations, leak, unchecked, crashes>>

-----------------------------------------------------------------------------
(* Cash that a coroutine has taken from one place and not yet put into     *)
(* another (negative: put there before it was taken).                      *)
InTransit(s) ==
  CASE s.at \in {"savings", "payout", "donation", "tax", "taxRefund",
                 "confiscate", "grantBank", "repayCheck", "repay",
                 "bankDeposit"}                                  -> s.amt
    [] s.at \in {"subsidyPaid", "subsidyExpense", "bankEquityOut"} -> -s.amt
    [] OTHER                                                     -> 0

(* A task is cancelled (arq's job timeout) or dies with the worker.        *)
Crash(t) ==
  /\ task[t].at # "idle"
  /\ crashes < MaxCrashes
  /\ crashes' = crashes + 1
  /\ Lose("crash", InTransit(task[t]))
  /\ Done(t)
  /\ UNCHANGED <<ledger, wallet, donations, unchecked, starts>>

PlayerStart(t, c, n) ==
  \/ SaveFromWallet(t, c, n)
  \/ CheckWithdrawal(t, c, n, "withdraw")
  \/ CheckWithdrawal(t, c, n, "donate")
  \/ ChargeForTreasury(t, c, n)
  \/ BeginSalary(t, c, n)
  \/ BeginSubsidy(t, c, n)
  \/ BeginGrant(t, c, n)
  \/ BeginTax(t, c, n)
  \/ \E victim \in Holder : BeginConfiscation(t, victim, c, n)
  \/ \E rebate \in 0 .. MaxAmount : ReceiveRent(t, c, n, rebate)
  \/ BeginLoan(t, c, n)
  \/ BeginRepayment(t, c, n)
  \/ BeginInterest(t, c, n)
  \/ BeginWealthTax(t, c, n)

TreasuryStart(t, n) ==
  \/ BeginLaundering(t, n)
  \/ BeginNirc(t, n)
  \/ DepositTreasuryFund(t, n)
  \/ CheckBankWithdrawal(t, n)

PlayerStep(t) ==
  \/ RegisterDeposit(t) \/ RegisterWithdrawal(t)
  \/ RegisterDonationWithdrawal(t) \/ PayWallet(t) \/ PayWalletFails(t)
  \/ RegisterDonation(t) \/ AddTotalDonations(t)
  \/ (\E fee \in Fees \cup {0} : RegisterLoan(t, fee))
  \/ CheckRepayment(t) \/ RegisterRepayment(t)
  \/ BulkCreateInterest(t) \/ BulkCreateWealthTax(t)

TreasuryStep(t) ==
  \/ RegisterSalary(t) \/ PaySubsidy(t) \/ PaySubsidyFails(t)
  \/ CheckSubsidyFloor(t) \/ RegisterSubsidy(t) \/ RegisterLaundering(t)
  \/ RegisterGrant(t) \/ DepositGrant(t)
  \/ RegisterTax(t) \/ RegisterTaxRaises(t) \/ RefundTax(t)
  \/ RegisterConfiscation(t) \/ RegisterNirc(t)
  \/ DepositBankEquity(t) \/ WithdrawTreasuryFund(t) \/ WithdrawBankEquity(t)

Next ==
  \E t \in Task :
    \/ \E c \in Character, n \in Amount : PlayerStart(t, c, n)
    \/ \E n \in Amount : TreasuryStart(t, n)
    \/ PlayerStep(t)
    \/ TreasuryStep(t)
    \/ Crash(t)

Spec == Init /\ [][Next]_vars

-----------------------------------------------------------------------------
(* The stored balance of every account is what its rows add up to.  It is  *)
(* updated by F("balance") + change next to the rows, and separately from  *)
(* them by the bulk interest and wealth tax writers                        *)
(* (services.py:448-461, 614-618, 720-727).                                *)
BalanceMatchesRows ==
  \A a \in Account :
    balance[a] = IF DebitNormal(a) THEN entered[a] ELSE -entered[a]

(* Each book stays balanced on its own, whatever runs and dies in between, *)
(* except for the wealth tax, whose two debits (services.py:703-719) tilt  *)
(* both books by the tax collected.                                        *)
BooksTiltByWealthTaxOnly ==
  \A b \in Book : trial[b] = -leak["wealthTax"]

(* No operation debits a guarded account by more than its check allowed,   *)
(* up to the race of the tasks that checked before the others posted: with *)
(* k tasks an account overshoots its limit by at most k amounts.  The      *)
(* limits: a checking account, a loan, the fund in the bank and the        *)
(* reserves at 0, the Treasury Fund at the floor (services.py:37-44, 119,  *)
(* 928; loans.py:514; less what the unchecked bank deposits took out).     *)
DrawsOn(s, a) ==
  \/ a = TreasuryFund /\ s.at \in {"salary", "subsidyExpense", "laundering", "grant"}
  \/ a = Checking(s.who) /\ s.at \in {"withdraw", "donate", "wealthTax"}
  \/ a = Loan(s.who) /\ s.at = "repay" /\ s.amt > 0
  \/ a = FundInBank /\ s.at = "bankWithdrawal"
  \/ a = Reserves /\ s.at = "nirc"

Guarded == {Checking(c) : c \in Character} \cup {Loan(c) : c \in Character}
             \cup {TreasuryFund, FundInBank, Reserves}

Limit(a) ==
  LET limit == IF a = TreasuryFund THEN Floor ELSE 0
  IN IF Opening[a] < limit THEN Opening[a] ELSE limit

Drawing(a) == {t \in Task : DrawsOn(task[t], a)}

Exempted(a) == IF a = TreasuryFund THEN unchecked ELSE 0

OvershootBounded ==
  \A a \in Guarded :
    balance[a] + Exempted(a)
      >= Limit(a) - MaxAmount * (Cardinality(Task) - Cardinality(Drawing(a)))

(* All cash is somewhere: in a wallet, the vault, the fund, the reserves,  *)
(* or carried by a coroutine; what is missing left through one of the      *)
(* causes of leak, and through nothing else.                               *)
Cash(bal) == bal[BankVault] + bal[TreasuryFund] + bal[Reserves]

CashAccountedFor ==
  Cash(balance) + SumFunction(wallet) + SumFunction([t \in Task |-> InTransit(task[t])])
    + SumFunction(leak) = Cash(Opening)

(* The government's deposit and the bank's equity are the same money in    *)
(* two books (services.py:864-897, 937-970): they differ only while the    *)
(* second journal of a transfer is still to come, or after a crash there.  *)
Mirroring(s) == CASE s.at = "bankDeposit"   -> s.amt
                  [] s.at = "bankEquityOut" -> -s.amt
                  [] OTHER                  -> 0

DepositMirrorsEquity ==
  crashes = 0 =>
    balance[FundInBank] - Opening[FundInBank]
      = balance[BankEquity] - Opening[BankEquity]
          + SumFunction([t \in Task |-> Mirroring(task[t])])

=============================================================================
