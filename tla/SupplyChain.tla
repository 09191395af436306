----------------------------- MODULE SupplyChain ----------------------------
(***************************************************************************)
(* One supply chain event, supply_chain.py: its objectives are created,    *)
(* deliveries contribute to them, and when it has ended the monitor shares *)
(* a reward pool out.  Deliveries and monitor passes are coroutines; cron  *)
(* starts a pass each minute and does not wait for the last one.           *)
(*                                                                         *)
(* send_fund_to_player, whose own steps Treasury models, is one step here. *)
(***************************************************************************)
EXTENDS Integers, FiniteSetsExt

CONSTANTS Character,
          GovEmployee, \* those whose reward is redirected
          Objective,
          Primary,     \* the is_primary objective
          Weight,      \* reward_weight
          Ceiling,     \* ceiling
          Rate,        \* reward_per_item
          MaxQuantity, \* bound on the quantity of one delivery
          Deliveries,  \* bound: deliveries that contribute
          Task,        \* coroutines that handle deliveries
          Pass,        \* passes of the monitor that may overlap
          Treasure,    \* what the treasury may pay before it is at its floor
          Faults       \* bound: failed payments and restarts

ASSUME SupplyChainAssumption ==
  /\ IsFiniteSet(Character) /\ IsFiniteSet(Objective)
  /\ IsFiniteSet(Task) /\ IsFiniteSet(Pass) /\ Task \cap Pass = {}
  /\ GovEmployee \subseteq Character /\ Primary \in Objective
  /\ Weight \in [Objective -> Nat \ {0}] /\ Ceiling \in [Objective -> Nat]
  /\ {Rate, MaxQuantity, Deliveries, Treasure, Faults} \subseteq Nat

VARIABLES stage,       \* "making" its objectives, "active", "ended"
          objectives,  \* SupplyChainObjective rows
          given,       \* SupplyChainContribution: quantity by objective and character
          fulfilled,   \* quantity_fulfilled
          distributed, \* rewards_distributed
          task,        \* check_and_record_contribution
          pass,        \* distribute_event_rewards
          fund,        \* the Treasury Fund above its floor
          paid,        \* to the checking account of each character
          served       \* gov_employee_contributions

VARIABLES passes, faults, delivered,
          uncounted    \* contributions whose count a restart has lost

chainVars == <<stage, objectives, given, fulfilled, distributed, task, pass,
               fund, paid, served, passes, faults, delivered, uncounted>>
event == <<stage, objectives>>
money == <<fund, paid, served>>

NoTask == [at |-> "idle"]
NoPass == [at |-> "idle"]
None   == [c \in Character |-> 0]
Smaller(x, y) == IF x <= y THEN x ELSE y

ChainInit ==
  /\ stage = "making" /\ objectives = {}
  /\ given = [o \in Objective |-> None]
  /\ fulfilled = [o \in Objective |-> 0]
  /\ distributed = FALSE
  /\ task = [t \in Task |-> NoTask]
  /\ pass = [p \in Pass |-> NoPass]
  /\ fund = Treasure /\ paid = None /\ served = None
  /\ passes = 0 /\ faults = 0 /\ delivered = 0
  /\ uncounted = [o \in Objective |-> 0]

-----------------------------------------------------------------------------
(* create_event_from_template: the event is live before its objectives.    *)

AddObjective(o) ==
  /\ stage = "making" /\ o \notin objectives
  /\ objectives' = objectives \cup {o}
  /\ UNCHANGED <<stage, given, fulfilled, distributed, task, pass, money,
                 passes, faults, delivered, uncounted>>

Made ==
  /\ stage = "making" /\ objectives = Objective
  /\ stage' = "active"
  /\ UNCHANGED <<objectives, given, fulfilled, distributed, task, pass, money,
                 passes, faults, delivered, uncounted>>

(* The creation stopped half way: the event goes on with what it has.      *)
Abandoned ==
  /\ stage = "making" /\ faults < Faults
  /\ stage' = "active" /\ faults' = faults + 1
  /\ UNCHANGED <<objectives, given, fulfilled, distributed, task, pass, money,
                 passes, delivered, uncounted>>

End ==
  /\ stage = "active"
  /\ stage' = "ended"
  /\ UNCHANGED <<objectives, given, fulfilled, distributed, task, pass, money,
                 passes, faults, delivered, uncounted>>

-----------------------------------------------------------------------------
(* check_and_record_contribution.                                          *)

(* A coroutine that starts takes a free place, no matter which.            *)
Free(frames, x) ==
  frames[x].at = "idle" /\ x = CHOOSE y \in DOMAIN frames : frames[y].at = "idle"

(* The objectives are read once; those that match are gone through.        *)
Deliver(t) == \E c \in Character : \E q \in 1..MaxQuantity :
              \E matching \in (SUBSET objectives) \ {{}} :
  /\ stage # "ended" /\ Free(task, t) /\ delivered < Deliveries
  /\ task' = [task EXCEPT ![t] = [at |-> "next", who |-> c, qty |-> q,
                                  seen |-> fulfilled, todo |-> matching]]
  /\ delivered' = delivered + 1
  /\ UNCHANGED <<event, given, fulfilled, distributed, pass, money, passes,
                 faults, uncounted>>

Remaining(t, o) ==
  IF task[t].seen[o] < Ceiling[o] THEN Ceiling[o] - task[t].seen[o] ELSE 0
Rewardable(t, o) == Smaller(task[t].qty, Remaining(t, o))

(* What is left of the loop over the objectives.                           *)
Loop(frame) == IF frame.todo = {} THEN NoTask ELSE frame

Record(t) ==
  /\ task[t].at = "next"
  /\ \E o \in task[t].todo :
       LET r == Rewardable(t, o) rest == [task[t] EXCEPT !.todo = @ \ {o}] IN
       IF r = 0
       THEN task' = [task EXCEPT ![t] = Loop(rest)] /\ UNCHANGED given
       ELSE /\ given' = [given EXCEPT ![o][task[t].who] = @ + r]
            /\ task' = [task EXCEPT ![t] =
                 [at |-> "count", objective |-> o, qty |-> r, then |-> rest]]
  /\ UNCHANGED <<event, fulfilled, distributed, pass, money, passes, faults,
                 delivered, uncounted>>

StaleCount(t) ==   \* planted mistake: the count read with the objective is saved
  /\ task[t].at = "count"
  /\ fulfilled' = [fulfilled EXCEPT ![task[t].objective] =
                     task[t].then.seen[task[t].objective] + task[t].qty]
  /\ task' = [task EXCEPT ![t] = Loop(task[t].then)]
  /\ UNCHANGED <<event, given, distributed, pass, money, passes, faults,
                 delivered, uncounted>>

(* F("quantity_fulfilled") + rewardable_qty: added where it is stored.     *)
Count(t) ==
  /\ task[t].at = "count"
  /\ fulfilled' = [fulfilled EXCEPT ![task[t].objective] = @ + task[t].qty]
  /\ task' = [task EXCEPT ![t] = Loop(task[t].then)]
  /\ UNCHANGED <<event, given, distributed, pass, money, passes, faults,
                 delivered, uncounted>>

-----------------------------------------------------------------------------
(* monitor_supply_chain_events and distribute_event_rewards.               *)

UncappedPool ==   \* planted mistake: what overshot the ceiling is paid too
  IF Primary \in objectives THEN Rate * fulfilled[Primary] ELSE 0

Pool == IF Primary \in objectives
        THEN Rate * Smaller(fulfilled[Primary], Ceiling[Primary]) ELSE 0

ForgetEmpty(p) ==   \* planted mistake: an empty pool returns without the mark
  /\ stage = "ended" /\ ~distributed /\ Free(pass, p)
  /\ passes' = IF Pool = 0 THEN passes ELSE passes + 1
  /\ pass' = [pass EXCEPT ![p] = IF Pool = 0 THEN NoPass
                ELSE [at |-> "group", pool |-> Pool, todo |-> objectives]]
  /\ UNCHANGED <<event, given, fulfilled, distributed, task, money, faults,
                 delivered, uncounted>>

Begin(p) ==
  /\ stage = "ended" /\ ~distributed /\ Free(pass, p)
  /\ passes' = passes + 1
  /\ pass' = [pass EXCEPT ![p] = IF Pool = 0 THEN [at |-> "mark"]
                ELSE [at |-> "group", pool |-> Pool, todo |-> objectives]]
  /\ UNCHANGED <<event, given, fulfilled, distributed, task, money, faults,
                 delivered, uncounted>>

Share(p, o) == (pass[p].pool * Weight[o])
                 \div SumFunctionOnSet(Weight, objectives)

Bill(p, o) ==
  LET total == SumFunction(given[o]) share == Share(p, o) IN
  [c \in Character |-> IF total = 0 THEN 0 ELSE (share * given[o][c]) \div total]

Paying(frame) == IF frame.due = {} THEN frame.then ELSE frame

Group(p) ==
  /\ pass[p].at = "group"
  /\ pass' = [pass EXCEPT ![p] =
       IF pass[p].todo = {} THEN [at |-> "mark"]
       ELSE LET o == CHOOSE x \in pass[p].todo : TRUE
                bill == Bill(p, o) IN
            Paying([at |-> "pay", bill |-> bill,
                    due |-> {c \in Character : bill[c] > 0},
                    then |-> [pass[p] EXCEPT !.todo = @ \ {o}]])]
  /\ UNCHANGED <<event, given, fulfilled, distributed, task, money, passes,
                 faults, delivered, uncounted>>

(* Below the treasury's floor send_fund_to_player returns in silence.      *)
Reward(c, amount) ==
  IF c \in GovEmployee
  THEN served' = [served EXCEPT ![c] = @ + amount] /\ UNCHANGED <<fund, paid>>
  ELSE /\ IF amount <= fund
          THEN fund' = fund - amount /\ paid' = [paid EXCEPT ![c] = @ + amount]
          ELSE UNCHANGED <<fund, paid>>
       /\ UNCHANGED served

Pay(p) ==
  /\ pass[p].at = "pay"
  /\ \E c \in pass[p].due :
       /\ Reward(c, pass[p].bill[c])
       /\ pass' = [pass EXCEPT ![p] = Paying([pass[p] EXCEPT !.due = @ \ {c}])]
  /\ UNCHANGED <<event, given, fulfilled, distributed, task, passes, faults,
                 delivered, uncounted>>

(* The mark comes after the last payment.                                  *)
Mark(p) ==
  /\ pass[p].at = "mark"
  /\ distributed' = TRUE
  /\ pass' = [pass EXCEPT ![p] = NoPass]
  /\ UNCHANGED <<event, given, fulfilled, task, money, passes, faults,
                 delivered, uncounted>>

(* A payment raises: the error is logged and the event is left for the     *)
(* next pass, with those paid already in it again.                         *)
Fail(p) ==
  /\ pass[p].at = "pay" /\ faults < Faults
  /\ faults' = faults + 1
  /\ pass' = [pass EXCEPT ![p] = NoPass]
  /\ UNCHANGED <<event, given, fulfilled, distributed, task, money, passes,
                 delivered, uncounted>>

Counts(frame, o) == frame.at = "count" /\ frame.objective = o
Pending(o) ==
  SumFunction([t \in Task |-> IF Counts(task[t], o) THEN task[t].qty ELSE 0])

Restart ==
  /\ faults < Faults
  /\ faults' = faults + 1
  /\ uncounted' = [o \in Objective |-> uncounted[o] + Pending(o)]
  /\ task' = [t \in Task |-> NoTask] /\ pass' = [p \in Pass |-> NoPass]
  /\ UNCHANGED <<event, given, fulfilled, distributed, money, passes, delivered>>

ChainNext ==
  \/ \E o \in Objective : AddObjective(o)
  \/ Made \/ Abandoned \/ End \/ Restart
  \/ \E t \in Task : Deliver(t) \/ Record(t) \/ Count(t)
  \/ \E p \in Pass : Begin(p) \/ Group(p) \/ Pay(p) \/ Mark(p) \/ Fail(p)

(* Cron starts the passes, and of those that started one goes on.          *)
MonitorRuns ==
  \E p \in Pass : Begin(p) \/ Group(p) \/ Pay(p) \/ Mark(p)

ChainFairness == WF_chainVars(MonitorRuns)

ChainSpec == ChainInit /\ [][ChainNext]_chainVars /\ ChainFairness

-----------------------------------------------------------------------------
(* Each pass gives at most the pool at its ceiling, though contributions   *)
(* that race overshoot the ceiling and objectives divide the pool; so an   *)
(* event that one pass distributes never costs more than was announced.    *)
(* A failed, interrupted or overlapping pass pays all over again.          *)
RewardsWithinPool ==
  SumFunction(paid) + SumFunction(served) <= passes * Rate * Ceiling[Primary]

(* What counts towards the ceiling is what the contributors are paid by:   *)
(* racing deliveries lose no count, only a restart between the two writes. *)
FulfilledCountsContributions == \A o \in Objective :
  SumFunction(given[o]) = fulfilled[o] + Pending(o) + uncounted[o]

(* An event that has ended is marked distributed, whatever its pool.       *)
EventDistributed == (stage = "ended") ~> distributed
=============================================================================
