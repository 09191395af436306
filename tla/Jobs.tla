-------------------------------- MODULE Jobs --------------------------------
(***************************************************************************)
(* Delivery jobs, from posting to settlement: monitor_jobs and its cleanup *)
(* of expired jobs (jobs.py), the post_job and finish_job commands of the  *)
(* Discord bot (amc_cogs/jobs.py), the part of a cargo delivery that works *)
(* on a job (handlers/cargo.py, pipeline/delivery.py), and the ministry's  *)
(* side of all of them (amc_finance/services.py).                          *)
(*                                                                         *)
(* A task is one coroutine.  It carries what it read from the database: a  *)
(* job row read before an await is a copy, and may be stale when used.     *)
(***************************************************************************)
EXTENDS Ministry, Sequences, FiniteSetsExt

CONSTANTS Job, Character, Task,
          Size,           \* bound: sizes of jobs
          Quantity,       \* bound: (weighted) sizes of deliveries
          Bonus,          \* bound: completion bonuses
          PenaltyEnabled, \* config.TREASURY_EXPIRATION_PENALTY_ENABLED
          MaxDeliveries, MaxSpends, MaxForced, MaxCrashes, MaxGrants   \* bounds

ASSUME JobsAssumption ==
  /\ IsFiniteSet(Job) /\ IsFiniteSet(Character) /\ IsFiniteSet(Task)
  /\ Size \subseteq Nat \ {0} /\ Quantity \subseteq Nat \ {0} /\ Bonus \subseteq Nat
  /\ PenaltyEnabled \in BOOLEAN
  /\ MaxDeliveries \in Nat /\ MaxSpends \in Nat /\ MaxForced \in Nat
  /\ MaxCrashes \in Nat /\ MaxGrants \in Nat

VARIABLES job,        \* the DeliveryJob rows
          log,        \* the Delivery rows of a job, by timestamp
          task,       \* the coroutines
          paid,       \* what the contributors of a job received (ghost)
          granted,    \* what they were due in all (ghost)
          late,       \* jobs claimed after they had expired (ghost)
          forced,     \* finish_job commands (ghost)
          deliveries, spends, crashes   \* counted against the bounds

counters == <<deliveries, spends, crashes>>
ghosts   == <<paid, granted, late, forced>>
vars     == <<ministry, job, log, task, ghosts, counters>>

(* What a row holds, and what of it the template counts.                   *)
NoJob == [stage |-> "unposted", requested |-> 0, fulfilled |-> 0,
          claimed |-> FALSE, expired |-> FALSE, bonus |-> 0, promise |-> 0,
          escrowed |-> 0, funded |-> FALSE, completions |-> 0, expirations |-> 0]

Row == [stage : {"unposted", "hidden", "visible"}, requested : Nat,
        fulfilled : Nat, claimed : BOOLEAN, expired : BOOLEAN, bonus : Nat,
        promise : Nat, escrowed : Nat, funded : BOOLEAN, completions : Nat,
        expirations : Nat]

Idle == [at |-> "idle", next |-> "idle", job |-> {}, who |-> {}, amt |-> 0,
         read |-> 0, row |-> NoJob, due |-> [c \in Character |-> 0],
         todo |-> {}, loop |-> FALSE]

At == {"idle", "allocate", "posting", "escrow", "escrowJournal", "readTerm",
       "saveTerm", "saveEscrowed", "publish", "deliver", "claim", "refresh",
       "readLog", "paying", "rebate", "boost",
       "expiredFunded", "zeroEscrow", "decayFunded", "expiredUnfunded",
       "readPartial", "payingPartial", "penalty", "zeroBonus", "decayUnfunded"}

InCleanup == {"expiredFunded", "zeroEscrow", "decayFunded", "expiredUnfunded",
              "readPartial", "payingPartial", "penalty", "zeroBonus",
              "decayUnfunded"}

Init ==
  /\ MinistryInit
  /\ job = [j \in Job |-> NoJob]
  /\ log = [j \in Job |-> <<>>]
  /\ task = [t \in Task |-> Idle]
  /\ paid = [j \in Job |-> 0] /\ granted = [j \in Job |-> 0]
  /\ late = {} /\ forced = {}
  /\ deliveries = 0 /\ spends = 0 /\ crashes = 0

-----------------------------------------------------------------------------
Begins(t)      == task[t].at = "idle"
Resumes(t, at) == task[t].at = at
Becomes(t, s)  == task' = [task EXCEPT ![t] = s]
Goto(t, at)    == Becomes(t, [task[t] EXCEPT !.at = at])
Done(t)        == Becomes(t, Idle)

Mine(t) == CHOOSE j \in Job : task[t].job = {j}

Write(j, row) == job' = [job EXCEPT ![j] = row]

Least(m, n) == IF m <= n THEN m ELSE n

(* filter_active, for a job that can be matched: a full job is not active. *)
Active(j) == /\ job[j].stage = "visible" /\ ~job[j].expired
             /\ job[j].fulfilled < job[j].requested

Quantities(deliv) == [i \in DOMAIN deliv |-> deliv[i].qty]

UncappedShares(deliv, cap, total, amount) ==   \* planted mistake: no cap
  LET share == [i \in DOMAIN deliv |-> (deliv[i].qty * amount) \div total] IN
  [c \in Character |-> SumFunctionOnSet(share, {i \in DOMAIN deliv : deliv[i].who = c})]

(* The first deliveries count until cap is reached; each contributor gets  *)
(* the whole part of every delivery's share of the amount.                 *)
Counted(deliv, cap, i) ==
  LET before == SumFunctionOnSet(Quantities(deliv), 1 .. i - 1)
  IN IF before >= cap THEN 0 ELSE Least(deliv[i].qty, cap - before)

Shares(deliv, cap, total, amount) ==
  LET share == [i \in DOMAIN deliv |-> (Counted(deliv, cap, i) * amount) \div total] IN
  [c \in Character |-> SumFunctionOnSet(share, {i \in DOMAIN deliv : deliv[i].who = c})]

NoShares == [c \in Character |-> 0]

(* A delivery enters the log at the place of its event's timestamp.        *)
Insert(s, i, e) == SubSeq(s, 1, i) \o <<e>> \o SubSeq(s, i + 1, Len(s))

-----------------------------------------------------------------------------
(* An election is finalised: the term is created with its budget, then the *)
(* treasury allocates it.                                                  *)
StartTerm(t) ==
  /\ Begins(t) /\ TakeOffice /\ Goto(t, "allocate")
  /\ UNCHANGED <<job, log, ghosts, counters>>

Allocate(t) ==
  /\ Resumes(t, "allocate") /\ AllocateBudget /\ Goto(t, "readTerm")
  /\ UNCHANGED <<job, log, ghosts, counters>>

(* Every ministry operation ends with the same tail: read the budget       *)
(* account, write it into the term with a save of the row.                 *)
ReadBudget(t) ==
  /\ Resumes(t, "readTerm")
  /\ Becomes(t, [task[t] EXCEPT !.at = "saveTerm", !.read = budget])
  /\ UNCHANGED <<ministry, job, log, ghosts, counters>>

SaveTerm(t) ==
  /\ Resumes(t, "saveTerm")
  /\ RecordBudget(task[t].read)
  /\ IF task[t].next = "idle" THEN Done(t)
     ELSE Becomes(t, [task[t] EXCEPT !.at = task[t].next, !.next = "idle",
                                     !.read = 0])
  /\ UNCHANGED <<job, log, ghosts, counters>>

(* record_ministry_subsidy_spend: no balance check at all.                 *)
SpendOnSubsidy(t, n) ==
  /\ Begins(t) /\ inOffice /\ spends < MaxSpends
  /\ SpendSubsidy(n) /\ Goto(t, "readTerm")
  /\ spends' = spends + 1
  /\ UNCHANGED <<job, log, ghosts, deliveries, crashes>>

-----------------------------------------------------------------------------
(* monitor_jobs reads the active term once, before its loop over the       *)
(* templates; row.funded and amt hold what it saw.                         *)
BeginPosting(t) ==
  /\ Begins(t)
  /\ \E j \in Job : job[j].stage = "unposted"
  /\ Becomes(t, [Idle EXCEPT !.at = "posting", !.loop = TRUE, !.amt = termBudget,
                             !.row = [NoJob EXCEPT !.funded = inOffice]])
  /\ UNCHANGED <<ministry, job, log, ghosts, counters>>

NewJob(q, n, funded) ==
  [NoJob EXCEPT !.stage = "hidden", !.requested = q, !.bonus = n,
                !.promise = n, !.funded = funded]

(* A job is invisible to deliveries until its cargos are added.            *)
PostJob(t, j, q, n) ==
  /\ Resumes(t, "posting") /\ job[j].stage = "unposted"
  /\ LET funded == task[t].row.funded IN
     /\ funded => task[t].amt >= n
     /\ Write(j, NewJob(q, n, funded))
     /\ Becomes(t, [task[t] EXCEPT !.job = {j}, !.row.bonus = n,
                      !.at = IF funded THEN "escrow" ELSE "publish"])
  /\ UNCHANGED <<ministry, log, ghosts, counters>>

(* The post_job command does the same without the check of the term.       *)
PostByCommand(t, j, q, n) ==
  /\ Begins(t) /\ job[j].stage = "unposted"
  /\ Write(j, NewJob(q, n, inOffice))
  /\ Becomes(t, [Idle EXCEPT !.job = {j},
                   !.row = [NoJob EXCEPT !.funded = inOffice, !.bonus = n],
                   !.at = IF inOffice THEN "escrow" ELSE "publish"])
  /\ UNCHANGED <<ministry, log, ghosts, counters>>

(* escrow_ministry_funds: when the account does not hold the bonus the job *)
(* keeps its funding term and nothing is escrowed.                         *)
CheckEscrow(t) ==
  /\ Resumes(t, "escrow")
  /\ Goto(t, IF budget < task[t].row.bonus THEN "publish" ELSE "escrowJournal")
  /\ UNCHANGED <<ministry, job, log, ghosts, counters>>

EscrowJournal(t) ==
  /\ Resumes(t, "escrowJournal")
  /\ MoveToEscrow(task[t].row.bonus)
  /\ Becomes(t, [task[t] EXCEPT !.at = "readTerm", !.next = "saveEscrowed"])
  /\ UNCHANGED <<job, log, ghosts, counters>>

SaveEscrowed(t) ==
  /\ Resumes(t, "saveEscrowed")
  /\ Write(Mine(t), [job[Mine(t)] EXCEPT !.escrowed = task[t].row.bonus])
  /\ Goto(t, "publish")
  /\ UNCHANGED <<ministry, log, ghosts, counters>>

Publish(t) ==
  /\ Resumes(t, "publish")
  /\ Write(Mine(t), [job[Mine(t)] EXCEPT !.stage = "visible"])
  /\ IF task[t].loop
     THEN Becomes(t, [task[t] EXCEPT !.at = "posting", !.job = {}, !.row.bonus = 0])
     ELSE Done(t)
  /\ UNCHANGED <<ministry, log, ghosts, counters>>

EndPosting(t) ==
  /\ Resumes(t, "posting") /\ Done(t)
  /\ UNCHANGED <<ministry, job, log, ghosts, counters>>

Expire(j) ==
  /\ job[j].stage # "unposted" /\ ~job[j].expired
  /\ Write(j, [job[j] EXCEPT !.expired = TRUE])
  /\ UNCHANGED <<ministry, log, task, ghosts, counters>>

-----------------------------------------------------------------------------
(* process_cargo: the active job is looked up, and filled several awaits   *)
(* later, when it may have expired, been filled or been settled.           *)
FindJob(t, j, c, q) ==
  /\ Begins(t) /\ Active(j)
  /\ deliveries < MaxDeliveries /\ deliveries' = deliveries + 1
  /\ Becomes(t, [Idle EXCEPT !.at = "deliver", !.job = {j}, !.who = {c}, !.amt = q,
                             !.row.fulfilled = job[j].fulfilled])
  /\ UNCHANGED <<ministry, job, log, ghosts, spends, crashes>>

StrictLogDelivery(t, i) ==   \* planted mistake: > for >=
  LET j == Mine(t)  c == CHOOSE c \in Character : task[t].who = {c}
  IN /\ log' = [log EXCEPT ![j] = Insert(@, i, [who |-> c, qty |-> task[t].amt])]
     /\ IF job'[j].fulfilled > job'[j].requested
        THEN Becomes(t, [Idle EXCEPT !.at = "claim", !.job = {j}])
        ELSE Done(t)

LogDelivery(t, i) ==
  LET j == Mine(t)  c == CHOOSE c \in Character : task[t].who = {c}
  IN /\ log' = [log EXCEPT ![j] = Insert(@, i, [who |-> c, qty |-> task[t].amt])]
     /\ IF job'[j].fulfilled >= job'[j].requested
        THEN Becomes(t, [Idle EXCEPT !.at = "claim", !.job = {j}])
        ELSE Done(t)

UnlockedProcessDelivery(t, i) ==   \* planted mistake: the row is not locked
  /\ Resumes(t, "deliver")
  /\ LET j == Mine(t)  was == task[t].row.fulfilled IN
     /\ i \in 0 .. Len(log[j])
     /\ Write(j, [job[j] EXCEPT !.fulfilled =
                    was + Least(job[j].requested - was, task[t].amt)])
     /\ LogDelivery(t, i)
  /\ UNCHANGED <<ministry, ghosts, counters>>

OverfillingDelivery(t, i) ==   \* planted mistake: the amount is not cut
  /\ Resumes(t, "deliver")
  /\ LET j == Mine(t) IN
     /\ i \in 0 .. Len(log[j])
     /\ Write(j, [job[j] EXCEPT !.fulfilled = @ + task[t].amt])
     /\ LogDelivery(t, i)
  /\ UNCHANGED <<ministry, ghosts, counters>>

(* atomic_process_delivery: under the row lock the job takes what it still *)
(* needs; the delivery is logged in any case.                              *)
ProcessDelivery(t, i) ==
  /\ Resumes(t, "deliver")
  /\ LET j == Mine(t) IN
     /\ i \in 0 .. Len(log[j])
     /\ Write(j, [job[j] EXCEPT !.fulfilled =
                    @ + Least(job[j].requested - @, task[t].amt)])
     /\ LogDelivery(t, i)
  /\ UNCHANGED <<ministry, ghosts, counters>>

UnconditionalClaim(t) ==   \* planted mistake: not "where fulfilled_at is null"
  /\ Resumes(t, "claim")
  /\ LET j == Mine(t) IN
     /\ Write(j, [job[j] EXCEPT !.claimed = TRUE])
     /\ granted' = [granted EXCEPT ![j] = @ + job[j].promise]
     /\ late' = IF job[j].expired THEN late \cup {j} ELSE late
     /\ Goto(t, "refresh")
  /\ UNCHANGED <<ministry, log, paid, forced, counters>>

(* The conditional update of fulfilled_at: one coroutine wins it.          *)
ClaimJob(t) ==
  /\ Resumes(t, "claim")
  /\ LET j == Mine(t) IN
       IF job[j].claimed
       THEN Done(t) /\ UNCHANGED <<job, granted, late>>
       ELSE /\ Write(j, [job[j] EXCEPT !.claimed = TRUE])
            /\ granted' = [granted EXCEPT ![j] = @ + job[j].promise]
            /\ late' = IF job[j].expired THEN late \cup {j} ELSE late
            /\ Goto(t, "refresh")
  /\ UNCHANGED <<ministry, log, paid, forced, counters>>

RefreshJob(t) ==
  /\ Resumes(t, "refresh")
  /\ LET row == job[Mine(t)] IN
       IF row.bonus = 0 THEN Done(t)
       ELSE Becomes(t, [task[t] EXCEPT !.at = "readLog", !.row = row])
  /\ UNCHANGED <<ministry, job, log, ghosts, counters>>

(* The finish_job command settles whatever it is given.                    *)
FinishJob(t, j) ==
  /\ Begins(t) /\ job[j].stage = "visible" /\ job[j].bonus > 0
  /\ Cardinality(forced) < MaxForced /\ j \notin forced
  /\ forced' = forced \cup {j}
  /\ granted' = [granted EXCEPT ![j] = @ + job[j].promise * job[j].requested]
  /\ Becomes(t, [Idle EXCEPT !.at = "readLog", !.job = {j}, !.row = job[j]])
  /\ UNCHANGED <<ministry, job, log, paid, late, counters>>

(* on_delivery_job_fulfilled, with the row it was given.                   *)
ReadDeliveries(t) ==
  /\ Resumes(t, "readLog")
  /\ LET row == task[t].row  deliv == log[Mine(t)] IN
       IF row.fulfilled = 0 \/ deliv = <<>> THEN Done(t)
       ELSE Becomes(t, [task[t] EXCEPT !.at = "paying",
              !.due = Shares(deliv, row.requested, row.fulfilled, row.bonus)])
  /\ UNCHANGED <<ministry, job, log, ghosts, counters>>

(* send_fund_to_player, which pays nothing below the treasury floor (its   *)
(* check is Treasury's BeginGrant); a government employee only gets the    *)
(* contribution.                                                           *)
PayContributor(t, c) ==
  /\ task[t].at \in {"paying", "payingPartial"} /\ task[t].due[c] > 0
  /\ Becomes(t, [task[t] EXCEPT !.due[c] = 0])
  /\ \/ paid' = [paid EXCEPT ![Mine(t)] = @ + task[t].due[c]]
     \/ UNCHANGED paid
  /\ UNCHANGED <<ministry, job, log, granted, late, forced, counters>>

AllPaid(t, at) == Resumes(t, at) /\ task[t].due = NoShares

(* process_ministry_completion; the job keeps its escrowed_amount.         *)
SpendJobEscrow(t) ==
  /\ AllPaid(t, "paying") /\ task[t].row.funded
  /\ LET n == task[t].row.escrowed IN
     /\ SpendEscrow(n)
     /\ Goto(t, IF Rebate(n) > 0 THEN "rebate" ELSE "boost")
  /\ UNCHANGED <<job, log, ghosts, counters>>

GrantRebate(t) ==
  /\ Resumes(t, "rebate")
  /\ ReceiveRebate(task[t].row.escrowed)
  /\ Becomes(t, [task[t] EXCEPT !.at = "readTerm", !.next = "boost"])
  /\ UNCHANGED <<job, log, ghosts, counters>>

BoostTemplate(t) ==
  /\ Resumes(t, "boost") \/ (AllPaid(t, "paying") /\ ~task[t].row.funded)
  /\ Write(Mine(t), [job[Mine(t)] EXCEPT !.completions = @ + 1])
  /\ Done(t)
  /\ UNCHANGED <<ministry, log, ghosts, counters>>

-----------------------------------------------------------------------------
(* cleanup_expired_jobs, which monitor_jobs awaits first: two queries,     *)
(* each fetched as a whole and then worked on row by row.                  *)
ExpiredOnly(j) == job[j].stage # "unposted" /\ job[j].expired   \* planted mistake

Unsettled(j) == job[j].stage # "unposted" /\ job[j].expired /\ ~job[j].claimed

Rows(S) == {[job |-> {j}, row |-> job[j]] : j \in S}

CleanupOfEmptyJobs(t) ==   \* planted mistake: a partly filled job is left out
  /\ Begins(t)
  /\ \A u \in Task : task[u].at \notin InCleanup /\ task[u].next \notin InCleanup
  /\ \E j \in Job : Unsettled(j)
  /\ Becomes(t, [Idle EXCEPT !.at = "expiredFunded",
       !.todo = Rows({j \in Job : /\ Unsettled(j) /\ job[j].funded
                                  /\ job[j].escrowed > 0 /\ job[j].fulfilled = 0})])
  /\ UNCHANGED <<ministry, job, log, ghosts, counters>>

BeginCleanup(t) ==
  /\ Begins(t)
  /\ \A u \in Task : task[u].at \notin InCleanup /\ task[u].next \notin InCleanup
  /\ \E j \in Job : Unsettled(j)
  /\ Becomes(t, [Idle EXCEPT !.at = "expiredFunded",
       !.todo = Rows({j \in Job : Unsettled(j) /\ job[j].funded /\ job[j].escrowed > 0})])
  /\ UNCHANGED <<ministry, job, log, ghosts, counters>>

(* process_ministry_expiration: half back to the budget, half burned, the  *)
(* term, and the row's escrow zeroed at the end.                           *)
ExpireEscrow(t, r) ==
  /\ Resumes(t, "expiredFunded") /\ r \in task[t].todo
  /\ RefundEscrow(r.row.escrowed)
  /\ Becomes(t, [task[t] EXCEPT !.at = "readTerm", !.next = "zeroEscrow",
                    !.job = r.job, !.row = r.row, !.todo = @ \ {r}])
  /\ UNCHANGED <<job, log, ghosts, counters>>

KeptEscrow(t) ==   \* planted mistake: the row keeps its escrow
  /\ Resumes(t, "zeroEscrow")
  /\ Goto(t, "decayFunded")
  /\ UNCHANGED <<ministry, job, log, ghosts, counters>>

ZeroEscrow(t) ==
  /\ Resumes(t, "zeroEscrow")
  /\ Write(Mine(t), [job[Mine(t)] EXCEPT !.escrowed = 0])
  /\ Goto(t, "decayFunded")
  /\ UNCHANGED <<ministry, log, ghosts, counters>>

DecayTemplate(t) ==
  /\ task[t].at \in {"decayFunded", "decayUnfunded"}
  /\ Write(Mine(t), [job[Mine(t)] EXCEPT !.expirations = @ + 1])
  /\ Becomes(t, [Idle EXCEPT !.todo = task[t].todo,
       !.at = IF task[t].at = "decayFunded" THEN "expiredFunded"
                                            ELSE "expiredUnfunded"])
  /\ UNCHANGED <<ministry, log, ghosts, counters>>

QueryAllExpired(t) ==   \* planted mistake: funded jobs too
  /\ Resumes(t, "expiredFunded") /\ task[t].todo = {}
  /\ Becomes(t, [Idle EXCEPT !.at = "expiredUnfunded",
       !.todo = Rows({j \in Job : /\ Unsettled(j) /\ job[j].bonus > 0
                                  /\ granted[j] < MaxGrants * job[j].promise})])
  /\ UNCHANGED <<ministry, job, log, ghosts, counters>>

QueryUnfunded(t) ==
  /\ Resumes(t, "expiredFunded") /\ task[t].todo = {}
  /\ Becomes(t, [Idle EXCEPT !.at = "expiredUnfunded",
       !.todo = Rows({j \in Job : /\ Unsettled(j) /\ ~job[j].funded /\ job[j].bonus > 0
                                  /\ granted[j] < MaxGrants * job[j].promise})])
  /\ UNCHANGED <<ministry, job, log, ghosts, counters>>

(* payout_partial_contributors, on the row as the query returned it and    *)
(* the deliveries as they are now.                                         *)
ReadPartial(t, r) ==
  /\ Resumes(t, "expiredUnfunded") /\ r \in task[t].todo
  /\ LET row == r.row
         j == CHOOSE j \in Job : r.job = {j}
         partial == (row.bonus * row.fulfilled) \div row.requested
         due == IF partial = 0 THEN NoShares
                ELSE Shares(log[j], row.requested, row.fulfilled, partial)
         payout == due # NoShares
     IN /\ granted' = IF payout THEN [granted EXCEPT ![j] = @ + row.promise]
                                ELSE granted
        /\ Becomes(t, [task[t] EXCEPT !.job = r.job, !.row = row, !.due = due,
             !.at = IF payout THEN "payingPartial" ELSE "penalty",
             !.todo = @ \ {r}])
  /\ UNCHANGED <<ministry, job, log, paid, late, forced, counters>>

BoostPartial(t) ==
  /\ AllPaid(t, "payingPartial")
  /\ Write(Mine(t), [job[Mine(t)] EXCEPT !.completions = @ + 1])
  /\ Goto(t, "penalty")
  /\ UNCHANGED <<ministry, log, ghosts, counters>>

(* process_treasury_expiration_penalty: switched off it returns at once;   *)
(* otherwise an expense of the Treasury Fund, then the bonus zeroed.       *)
Penalize(t) ==
  /\ Resumes(t, "penalty")
  /\ Goto(t, IF PenaltyEnabled THEN "zeroBonus" ELSE "decayUnfunded")
  /\ UNCHANGED <<ministry, job, log, ghosts, counters>>

KeptBonus(t) ==   \* planted mistake: the bonus stays
  /\ Resumes(t, "zeroBonus")
  /\ Goto(t, "decayUnfunded")
  /\ UNCHANGED <<ministry, job, log, ghosts, counters>>

ZeroBonus(t) ==
  /\ Resumes(t, "zeroBonus")
  /\ Write(Mine(t), [job[Mine(t)] EXCEPT !.bonus = 0])
  /\ Goto(t, "decayUnfunded")
  /\ UNCHANGED <<ministry, log, ghosts, counters>>

EndCleanup(t) ==
  /\ Resumes(t, "expiredUnfunded") /\ task[t].todo = {}
  /\ Done(t)
  /\ UNCHANGED <<ministry, job, log, ghosts, counters>>

(* A task is cancelled (arq's job timeout) or dies with its process.       *)
Crash(t) ==
  /\ task[t].at # "idle" /\ crashes < MaxCrashes
  /\ Done(t) /\ crashes' = crashes + 1
  /\ UNCHANGED <<ministry, job, log, ghosts, deliveries, spends>>

Start(t) ==
  \/ StartTerm(t) \/ BeginPosting(t) \/ BeginCleanup(t)
  \/ \E n \in Bonus : SpendOnSubsidy(t, n)
  \/ \E j \in Job :
       \/ \E q \in Size, n \in Bonus : PostByCommand(t, j, q, n)
       \/ \E c \in Character, q \in Quantity : FindJob(t, j, c, q)
       \/ FinishJob(t, j)

PostingStep(t) ==
  \/ Allocate(t) \/ ReadBudget(t) \/ SaveTerm(t)
  \/ \E j \in Job, q \in Size, n \in Bonus : PostJob(t, j, q, n)
  \/ CheckEscrow(t) \/ EscrowJournal(t) \/ SaveEscrowed(t)
  \/ Publish(t) \/ EndPosting(t)

DeliveryStep(t) ==
  \/ \E i \in 0 .. MaxDeliveries : ProcessDelivery(t, i)
  \/ ClaimJob(t) \/ RefreshJob(t) \/ ReadDeliveries(t)
  \/ \E c \in Character : PayContributor(t, c)
  \/ SpendJobEscrow(t) \/ GrantRebate(t) \/ BoostTemplate(t)

CleanupStep(t) ==
  \/ \E r \in task[t].todo : ExpireEscrow(t, r) \/ ReadPartial(t, r)
  \/ ZeroEscrow(t) \/ DecayTemplate(t) \/ QueryUnfunded(t)
  \/ BoostPartial(t) \/ Penalize(t) \/ ZeroBonus(t) \/ EndCleanup(t)

Step(t) == PostingStep(t) \/ DeliveryStep(t) \/ CleanupStep(t)

Next ==
  \/ \E t \in Task : Start(t) \/ Step(t) \/ Crash(t)
  \/ \E j \in Job : Expire(j)

Spec == Init /\ [][Next]_vars

(* The event loop resumes every coroutine.  The cron enqueues the cleanup  *)
(* every five minutes, and the worker has room for a hundred jobs: that    *)
(* all the few tasks of an instance are busy must not starve it, so its    *)
(* fairness is strong.                                                     *)
FairSpec == /\ Spec
            /\ \A t \in Task : WF_vars(Step(t))
            /\ SF_vars(\E t \in Task : BeginCleanup(t))

-----------------------------------------------------------------------------
Delivered(j) == SumFunction(Quantities(log[j]))

(* The state is well typed; a job is never over-filled, only a full one is *)
(* claimed, and every delivery logged is one that a contributor made.      *)
TypeOK ==
  /\ MinistryType
  /\ \A j \in Job :
       /\ job[j] \in Row
       /\ job[j].fulfilled <= job[j].requested
       /\ job[j].claimed => job[j].fulfilled = job[j].requested
       /\ log[j] \in Seq([who : Character, qty : Quantity])
  /\ \A t \in Task : task[t].at \in At /\ task[t].next \in At
  /\ granted \in [Job -> Nat]
  /\ late \subseteq Job /\ forced \subseteq Job
  /\ deliveries \in Nat /\ spends \in Nat /\ crashes \in Nat

(* What a job has taken is what its logged deliveries add up to, cut at    *)
(* its size: no concurrent delivery is lost (pipeline/delivery.py:27-43).  *)
FulfilledIsLogged ==
  \A j \in Job : job[j].fulfilled = Least(job[j].requested, Delivered(j))

(* The contributors of a job never receive more than its settlements were  *)
(* worth, whatever deliveries are logged while it is being settled         *)
(* (jobs.py:550-583, 653-688).                                             *)
PaidWithinGrants == \A j \in Job : paid[j] <= granted[j]

(* A funded job grants its bonus at most once, however its deliveries, its *)
(* expiry, cleanups and crashes interleave (handlers/cargo.py:306-311,     *)
(* jobs.py:91-111).                                                        *)
FundedSettledOnce ==
  \A j \in Job \ forced : job[j].funded => granted[j] <= job[j].promise

(* So does a job without a ministry when the penalty, which zeroes the     *)
(* bonus, is on, no cleanup died and no delivery claimed it after expiry.  *)
UnfundedSettledOnce ==
  PenaltyEnabled /\ crashes = 0 =>
    \A j \in Job \ (late \cup forced) :
      ~job[j].funded => granted[j] <= job[j].promise

(* The escrow account holds exactly the escrows of the jobs still to be    *)
(* settled and of those between two writes of a coroutine: until a task    *)
(* dies, a job is filled after it expired or is finished by hand           *)
(* (services.py:1018-1216).                                                *)
InEscrow(t) ==
  LET s == task[t]  booking == s.at \in {"readTerm", "saveTerm"} IN
  CASE s.at = "saveEscrowed" \/ (booking /\ s.next = "saveEscrowed") -> s.row.bonus
    [] s.at = "refresh"               -> job[Mine(t)].escrowed
    [] s.at \in {"readLog", "paying"}  -> s.row.escrowed
    [] s.at = "zeroEscrow" \/ (booking /\ s.next = "zeroEscrow") -> -s.row.escrowed
    [] OTHER                          -> 0

EscrowBacksJobs ==
  crashes = 0 /\ late = {} /\ forced = {} =>
    escrow = SumFunction([j \in Job |-> IF job[j].claimed THEN 0 ELSE job[j].escrowed])
               + SumFunction([t \in Task |-> InEscrow(t)])

(* A funded job counts for its template as one completion or one           *)
(* expiration, never both, also when coroutines die (jobs.py:33-39,        *)
(* 731-737).                                                               *)
OneOutcome ==
  \A j \in Job \ (late \cup forced) :
    job[j].funded => job[j].completions + job[j].expirations <= 1

(* The jobs implement their contract.                                      *)
Contract == INSTANCE JobContract WITH
  Promise   <- Bonus,
  stage     <- [j \in Job |-> IF job[j].stage = "unposted" THEN "unposted"
                              ELSE IF job[j].claimed THEN "fulfilled" ELSE "open"],
  terms     <- [j \in Job |-> [bonus |-> job[j].promise, funded |-> job[j].funded]],
  remaining <- [j \in Job |-> job[j].requested - job[j].fulfilled],
  allowance <- [j \in Job |-> granted[j] - paid[j]]

ImplementsContract == Contract!Spec

(* A full job is claimed, unless the coroutine that filled it died before  *)
(* the conditional update (handlers/cargo.py:298-308).                     *)
FullJobIsClaimed ==
  \A j \in Job :
    job[j].stage = "visible" /\ job[j].fulfilled = job[j].requested
      ~> job[j].claimed \/ crashes > 0

(* The escrow of an expired job goes back, even when a cleanup dies half   *)
(* way: a later tick finds the row again (jobs.py:90-101).                 *)
ExpiredEscrowReturns ==
  \A j \in Job :
    job[j].expired /\ job[j].escrowed > 0 ~> job[j].escrowed = 0 \/ job[j].claimed

-----------------------------------------------------------------------------
(* What comments and tests say, and the program does not do.               *)

(* "completion_bonus should be zeroed to prevent double processing."       *)
(* (amc/test_job_expiration.py:43)                                         *)
ExpiredJobPaidOnce ==
  crashes = 0 => \A j \in Job \ (late \cup forced) : granted[j] <= job[j].promise

(* "Clear escrow on job to prevent double refund" (services.py:1214): the  *)
(* escrow of a job leaves the escrow account once.                         *)
EscrowClearedOnce == crashes = 0 /\ forced = {} => escrow >= 0
=============================================================================
