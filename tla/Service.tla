------------------------------- MODULE Service ------------------------------
(***************************************************************************)
(* Government service of one character: gov_employee.py, /workforgov, the  *)
(* bill of an admin, and the part of on_player_profit that turns an        *)
(* employee's income over to the treasury (pipeline/profit.py).            *)
(*                                                                         *)
(* An income, a command and the expiry pass are coroutines, and each has   *)
(* its own copy of the character, read when it began.                      *)
(***************************************************************************)
EXTENDS Integers, FiniteSets

CONSTANTS Earner,      \* on_player_profit and the bonuses, as many as overlap
          Incomes,     \* what a delivery may bring: base, contract, subsidy
          LevelStep,   \* GOV_LEVEL_STEP
          Boom,        \* treasury scale may raise a subsidy by this much
          Works,       \* bound: incomes
          Terms,       \* bound: terms of service
          Hitches      \* bound: bills, failed calls, stops of the worker

ASSUME ServiceAssumption ==
  /\ IsFiniteSet(Earner)
  /\ Incomes \subseteq [base : Nat, contract : Nat, subsidy : Nat]
  /\ \A pay \in Incomes : pay.base + pay.contract + pay.subsidy > 0
  /\ LevelStep \in Nat \ {0} /\ {Boom, Works, Terms, Hitches} \subseteq Nat

VARIABLES until,       \* gov_employee_until: the number of the term, 0: NULL
          rank,        \* gov_employee_level
          contributed, \* gov_employee_contributions
          wallet,      \* in-game money
          donated,     \* booked in the Treasury Fund
          earn,        \* the income of each coroutine
          clerk,       \* cmd_workforgov
          expiring     \* expire_gov_employees has found the character

VARIABLES issued,      \* terms begun so far
          ended,       \* terms whose time is over
          works, hitches,
          deposited,   \* ghost: money put into the wallet
          unbooked,    \* ghost: subsidies taken back, which nothing books
          caught,      \* ghost: the term began under an expiry pass
          alone        \* ghost: the last coroutine met no other, and no hitch

roleVars == <<until, rank>>
cashVars == <<wallet, donated, deposited, unbooked>>
counts   == <<works, hitches>>
serviceVars == <<roleVars, contributed, cashVars, earn, clerk, expiring, issued,
                 ended, counts, caught, alone>>

NoPay   == [base |-> 0, contract |-> 0, subsidy |-> 0]
NoEarn  == [at |-> "idle", until |-> 0, rank |-> 0, pay |-> NoPay, leg |-> "base",
            due |-> {}, new |-> 0]
NoClerk == [at |-> "idle", contributed |-> 0]

ServiceInit ==
  /\ until = 0 /\ rank = 0 /\ contributed = 0
  /\ wallet = 0 /\ donated = 0 /\ deposited = 0 /\ unbooked = 0
  /\ earn = [e \in Earner |-> NoEarn] /\ clerk = NoClerk /\ expiring = FALSE
  /\ issued = 0 /\ ended = 0 /\ works = 0 /\ hitches = 0
  /\ caught = FALSE /\ alone = TRUE

(* calculate_gov_level and is_gov_employee.                                *)
RankOf(total) == (total \div LevelStep) + 1
Serving(term) == term > ended

AtRest == (\A e \in Earner : earn[e].at = "idle") /\ clerk.at = "idle" /\ ~expiring

StepOf(e, step) == earn' = [earn EXCEPT ![e].at = step]

-----------------------------------------------------------------------------
(* A coroutine that starts takes a free place, no matter which.            *)
Starts(e) == earn[e].at = "idle" /\ e = CHOOSE x \in Earner : earn[x].at = "idle"

(* on_player_profit; the game has paid the income into the wallet.         *)
Earn(e) == \E pay \in Incomes :
  /\ Starts(e) /\ works < Works
  /\ works' = works + 1
  /\ earn' = [earn EXCEPT ![e] = [NoEarn EXCEPT !.at = "route", !.until = until,
                                                !.rank = rank, !.pay = pay]]
  /\ wallet' = wallet + pay.base + pay.contract
  /\ deposited' = deposited + pay.base + pay.contract
  /\ alone' = AtRest
  /\ UNCHANGED <<roleVars, contributed, donated, unbooked, clerk, expiring, issued,
                 ended, hitches, caught>>

(* A bonus of a job or an event is no money: it only counts.               *)
Bonus(e) == \E pay \in Incomes :
  /\ Starts(e) /\ works < Works
  /\ pay.subsidy > 0 /\ Serving(until)
  /\ works' = works + 1
  /\ earn' = [earn EXCEPT ![e] = [NoEarn EXCEPT !.at = "count", !.until = until,
                                                !.rank = rank, !.pay = pay, !.leg = "subsidy"]]
  /\ alone' = AtRest
  /\ UNCHANGED <<roleVars, contributed, cashVars, clerk, expiring, issued, ended,
                 hitches, caught>>

(* Base comes before contract, the subsidy last; what is zero is left out. *)
Take(income, leg, step) == [income EXCEPT !.at = step, !.leg = leg, !.due = @ \ {leg}]

NextLeg(income) ==
  CASE "base" \in income.due       -> Take(income, "base", "donate")
    [] income.due \cap {"base", "contract"} = {"contract"}
                                   -> Take(income, "contract", "donate")
    [] income.due = {"subsidy"}    -> Take(income, "subsidy", "subsidise")
    [] income.due = {}             -> NoEarn

(* Others keep their income: savings and repayment are Treasury's.         *)
Keep(e) ==
  /\ earn[e].at = "route" /\ ~Serving(earn[e].until)
  /\ earn' = [earn EXCEPT ![e] = NoEarn]
  /\ UNCHANGED <<roleVars, contributed, cashVars, clerk, expiring, issued, ended,
                 counts, caught, alone>>

Confiscate(e) ==
  LET pay == earn[e].pay IN
  /\ earn[e].at = "route" /\ Serving(earn[e].until)
  /\ wallet' = wallet - pay.base - pay.contract
  /\ earn' = [earn EXCEPT ![e] = NextLeg([@ EXCEPT !.due = {leg \in DOMAIN pay : pay[leg] > 0}])]
  /\ UNCHANGED <<roleVars, contributed, donated, deposited, unbooked, clerk, expiring,
                 issued, ended, counts, caught, alone>>

(* redirect_income_to_treasury: the donation, the count, and the level.    *)
Donate(e) ==
  /\ earn[e].at = "donate"
  /\ donated' = donated + earn[e].pay[earn[e].leg]
  /\ StepOf(e, "count")
  /\ UNCHANGED <<roleVars, contributed, wallet, deposited, unbooked, clerk, expiring,
                 issued, ended, counts, caught, alone>>

(* F("gov_employee_contributions") + contribution.                         *)
CountIncome(e) ==
  /\ earn[e].at = "count"
  /\ contributed' = contributed + earn[e].pay[earn[e].leg]
  /\ StepOf(e, "refresh")
  /\ UNCHANGED <<roleVars, cashVars, clerk, expiring, issued, ended, counts, caught, alone>>

RefreshCount(e) ==
  /\ earn[e].at = "refresh"
  /\ earn' = [earn EXCEPT ![e] =
       IF RankOf(contributed) = @.rank THEN NextLeg(@)
       ELSE [@ EXCEPT !.at = "promote", !.new = RankOf(contributed)]]
  /\ UNCHANGED <<roleVars, contributed, cashVars, clerk, expiring, issued, ended,
                 counts, caught, alone>>

(* The level of what was counted then, whatever has been counted since.    *)
Promote(e) ==
  /\ earn[e].at = "promote"
  /\ rank' = earn[e].new
  /\ earn' = [earn EXCEPT ![e] = NextLeg([@ EXCEPT !.rank = earn[e].new])]
  /\ UNCHANGED <<until, contributed, cashVars, clerk, expiring, issued, ended,
                 counts, caught, alone>>

(* subsidise_player pays what the treasury's scale makes of the subsidy,   *)
(* or nothing; what is taken back is the subsidy as it was.                *)
Subsidise(e) == \E paid \in 0 .. earn[e].pay.subsidy + Boom :
  /\ earn[e].at = "subsidise"
  /\ wallet' = wallet + paid /\ deposited' = deposited + paid
  /\ StepOf(e, "takeBack")
  /\ UNCHANGED <<roleVars, contributed, donated, unbooked, clerk, expiring, issued,
                 ended, counts, caught, alone>>

TakeBack(e) ==
  /\ earn[e].at = "takeBack"
  /\ wallet' = wallet - earn[e].pay.subsidy
  /\ unbooked' = unbooked + earn[e].pay.subsidy
  /\ StepOf(e, "count")
  /\ UNCHANGED <<roleVars, contributed, donated, deposited, clerk, expiring, issued,
                 ended, counts, caught, alone>>

-----------------------------------------------------------------------------
(* cmd_workforgov and activate_gov_role.                                   *)
Apply ==
  /\ clerk.at = "idle" /\ ~Serving(until) /\ issued < Terms
  /\ clerk' = [at |-> "activate", contributed |-> contributed]
  /\ alone' = AtRest
  /\ UNCHANGED <<roleVars, contributed, cashVars, earn, expiring, issued, ended, counts, caught>>

Activate ==
  /\ clerk.at = "activate"
  /\ issued' = issued + 1
  /\ until' = issued + 1 /\ rank' = RankOf(clerk.contributed)
  /\ caught' = expiring
  /\ clerk' = NoClerk
  /\ UNCHANGED <<contributed, cashVars, earn, expiring, ended, counts, alone>>

(* Its time passes.                                                        *)
TermOver ==
  /\ ended < issued
  /\ ended' = ended + 1
  /\ UNCHANGED <<roleVars, contributed, cashVars, earn, clerk, expiring, issued,
                 counts, caught, alone>>

(* expire_gov_employees: the query, and for each row deactivate_gov_role.  *)
FindAnyTerm ==   \* planted mistake: whoever has a term is found
  /\ ~expiring /\ until > 0
  /\ expiring' = TRUE
  /\ alone' = AtRest
  /\ UNCHANGED <<roleVars, contributed, cashVars, earn, clerk, issued, ended, counts, caught>>

FindExpired ==
  /\ ~expiring /\ until > 0 /\ ~Serving(until)
  /\ expiring' = TRUE
  /\ alone' = AtRest
  /\ UNCHANGED <<roleVars, contributed, cashVars, earn, clerk, issued, ended, counts, caught>>

Deactivate ==
  /\ expiring
  /\ until' = 0 /\ rank' = 0
  /\ expiring' = FALSE
  /\ UNCHANGED <<contributed, cashVars, earn, clerk, issued, ended, counts, caught, alone>>

-----------------------------------------------------------------------------
Hitch == hitches < Hitches /\ hitches' = hitches + 1 /\ alone' = FALSE /\ UNCHANGED works

(* cmd_bill: a donation that counts and leaves the level.  Its three       *)
(* writes only add, so that it may as well be one step.                    *)
BillTarget == \E pay \in Incomes :
  /\ Hitch
  /\ wallet' = wallet - pay.base /\ donated' = donated + pay.base
  /\ contributed' = contributed + pay.base
  /\ UNCHANGED <<roleVars, deposited, unbooked, earn, clerk, expiring, issued, ended, caught>>

(* A call of the mod server raises, and the income ends where it is.       *)
IncomeFails(e) ==
  /\ earn[e].at # "idle" /\ Hitch
  /\ earn' = [earn EXCEPT ![e] = NoEarn]
  /\ UNCHANGED <<roleVars, contributed, cashVars, clerk, expiring, issued, ended, caught>>

StopService ==
  /\ Hitch
  /\ earn' = [e \in Earner |-> NoEarn] /\ clerk' = NoClerk /\ expiring' = FALSE
  /\ UNCHANGED <<roleVars, contributed, cashVars, issued, ended, caught>>

ServiceNext ==
  \/ Apply \/ Activate \/ TermOver \/ FindExpired \/ Deactivate \/ BillTarget \/ StopService
  \/ \E e \in Earner :
       \/ Earn(e) \/ Bonus(e) \/ Keep(e) \/ Confiscate(e) \/ Donate(e) \/ CountIncome(e)
       \/ RefreshCount(e) \/ Promote(e) \/ Subsidise(e) \/ TakeBack(e) \/ IncomeFails(e)

ServiceSpec == ServiceInit /\ [][ServiceNext]_serviceVars

-----------------------------------------------------------------------------
(* The newest term is served out, unless it began while the expiry pass    *)
(* held the row of the one before.                                         *)
TermIsServed == Serving(issued) /\ ~caught => until = issued

(* The level never runs ahead of the contributions, and it is theirs after *)
(* a coroutine that met no other.                                          *)
LevelFollows ==
  /\ rank <= RankOf(contributed)
  /\ AtRest /\ alone /\ Serving(until) => rank = RankOf(contributed)

(* What is taken from an employee's wallet is booked, but for subsidies    *)
(* that are taken back.                                                    *)
WalletIsBooked == AtRest /\ hitches = 0 => wallet + donated + unbooked = deposited

(* The promise of the service, whatever incomes, commands and expiry       *)
(* passes overlap (gov_employee.py:30-109, profit.py:64-109).              *)
ServiceIsHonoured == TermIsServed /\ LevelFollows /\ WalletIsBooked
=============================================================================
