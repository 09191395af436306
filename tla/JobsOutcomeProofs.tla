-------------------------- MODULE JobsOutcomeProofs --------------------------
(***************************************************************************)
(* What comes of a delivery job, for all jobs, contributors, coroutines    *)
(* and bounds: Jobs implements JobContract, the outcomes of a job exclude  *)
(* each other, an expired job without a ministry is settled once, and the  *)
(* escrow account holds what the open jobs say is in it.                   *)
(*                                                                         *)
(* Each rests on what coroutines are in the middle of: who still serves a  *)
(* job, how it will come out of the detour through the ministry's term,    *)
(* and what it has booked and not written to the row, or the other way.    *)
(***************************************************************************)
EXTENDS JobsProofs

-----------------------------------------------------------------------------
(* A job as its contract sees it.                                          *)
Stage(j)   == IF job[j].stage = "unposted" THEN "unposted"
              ELSE IF job[j].claimed THEN "fulfilled" ELSE "open"
Terms(j)   == [bonus |-> job[j].promise, funded |-> job[j].funded]
Remains(j) == job[j].requested - job[j].fulfilled
Owed(j)    == granted[j] - paid[j]

(* What a step does to the money granted and paid for jobs.                *)
LEMMA PaySteps ==
  ASSUME [Next]_vars
  PROVE  \/ UNCHANGED <<paid, granted>>
         \/ \E t \in Task : ClaimJob(t) \/ \E c \in Character : PayContributor(t, c)
         \/ \E t \in Task, j \in Job : FinishJob(t, j)
         \/ \E t \in Task : \E r \in task[t].todo : ReadPartial(t, r)
<1> DEFINE Goal == \/ UNCHANGED <<paid, granted>>
                   \/ \E t \in Task : ClaimJob(t) \/ \E c \in Character : PayContributor(t, c)
                   \/ \E t \in Task, j \in Job : FinishJob(t, j)
                   \/ \E t \in Task : \E r \in task[t].todo : ReadPartial(t, r)
<1>1. CASE UNCHANGED vars
  BY <1>1 DEF vars, ghosts
<1>2. ASSUME NEW t \in Task, Start(t) PROVE Goal
  BY <1>2 DEF Start, StartTerm, BeginPosting, BeginCleanup, SpendOnSubsidy, PostByCommand,
              FindJob, ghosts
<1>3. ASSUME NEW t \in Task, PostingStep(t) PROVE Goal
  BY <1>3 DEF PostingStep, Allocate, ReadBudget, SaveTerm, PostJob, CheckEscrow,
              EscrowJournal, SaveEscrowed, Publish, EndPosting, ghosts
<1>4. ASSUME NEW t \in Task, DeliveryStep(t) PROVE Goal
  BY <1>4 DEF DeliveryStep, ProcessDelivery, RefreshJob, ReadDeliveries, SpendJobEscrow,
              GrantRebate, BoostTemplate, ghosts
<1>5. ASSUME NEW t \in Task, CleanupStep(t) PROVE Goal
  BY <1>5 DEF CleanupStep, ExpireEscrow, ZeroEscrow, DecayTemplate, QueryUnfunded,
              BoostPartial, Penalize, ZeroBonus, EndCleanup, ghosts
<1>6. ASSUME NEW t \in Task, Crash(t) PROVE Goal
  BY <1>6 DEF Crash, ghosts
<1>7. ASSUME NEW j \in Job, Expire(j) PROVE Goal
  BY <1>7 DEF Expire, ghosts
<1> QED BY <1>1, <1>2, <1>3, <1>4, <1>5, <1>6, <1>7 DEF Next, Step

(* One job changes for the contract, and the way in which it may.          *)
Steps(j) ==
  \/ /\ Stage(j) = "unposted" /\ Stage(j)' = "open"
     /\ \E q \in Size, n \in Bonus, f \in BOOLEAN :
          Terms(j)' = [bonus |-> n, funded |-> f] /\ Remains(j)' = q
     /\ Owed(j)' = Owed(j)
  \/ /\ Stage(j) = "open" /\ UNCHANGED <<Stage(j), Terms(j), Owed(j)>>
     /\ \E n \in 1 .. Remains(j) : Remains(j)' = Remains(j) - n
  \/ /\ Stage(j) = "open" /\ Remains(j) = 0 /\ Stage(j)' = "fulfilled"
     /\ UNCHANGED <<Terms(j), Remains(j)>> /\ Owed(j)' = Owed(j) + job[j].promise
  \/ /\ Stage(j) # "unposted" /\ ~job[j].funded
     /\ UNCHANGED <<Stage(j), Terms(j), Remains(j)>> /\ Owed(j)' = Owed(j) + job[j].promise
  \/ /\ Stage(j) # "unposted" /\ UNCHANGED <<Stage(j), Terms(j), Remains(j)>>
     /\ \E q \in Size : Owed(j)' = Owed(j) + q * job[j].promise
  \/ /\ UNCHANGED <<Stage(j), Terms(j), Remains(j)>>
     /\ \E n \in 1 .. Owed(j) : Owed(j)' = Owed(j) - n

Looks(j) == <<Stage(j), Terms(j), Remains(j), Owed(j)>>

LEMMA StepIsContract ==
  ASSUME NEW j \in Job, Steps(j), \A k \in Job \ {j} : UNCHANGED Looks(k),
         Remains(j) \in Int, Owed(j) \in Int
  PROVE  Contract!Next
<1>1. \A k \in Job \ {j} : UNCHANGED <<Stage(k), Terms(k), Remains(k), Owed(k)>>
  BY DEF Looks
<1>2. CASE /\ Stage(j) = "unposted" /\ Stage(j)' = "open"
           /\ \E q \in Size, n \in Bonus, f \in BOOLEAN :
                Terms(j)' = [bonus |-> n, funded |-> f] /\ Remains(j)' = q
           /\ Owed(j)' = Owed(j)
  <2>1. PICK q \in Size, n \in Bonus, f \in BOOLEAN :
          Terms(j)' = [bonus |-> n, funded |-> f] /\ Remains(j)' = q
    BY <1>2
  <2>2. Contract!Post(j, q, n, f)
    BY <1>1, <1>2, <2>1 DEF Contract!Post, Stage, Terms, Remains, Owed
  <2> QED BY <2>2 DEF Contract!Next
<1>3. CASE /\ Stage(j) = "open" /\ UNCHANGED <<Stage(j), Terms(j), Owed(j)>>
           /\ \E n \in 1 .. Remains(j) : Remains(j)' = Remains(j) - n
  <2>1. PICK n \in 1 .. Remains(j) : Remains(j)' = Remains(j) - n
    BY <1>3
  <2>2. [k \in Job |-> Remains(k)'] = [[k \in Job |-> Remains(k)] EXCEPT ![j] = Remains(j) - n]
    BY <1>1, <2>1
  <2>3. n <= Remains(j)
    OBVIOUS
  <2>4. Contract!Deliver(j, n)
    BY <1>1, <1>3, <2>2, <2>3 DEF Contract!Deliver, Stage, Terms, Remains, Owed
  <2> QED BY <2>4 DEF Contract!Next, Remains
<1>4. CASE /\ Stage(j) = "open" /\ Remains(j) = 0 /\ Stage(j)' = "fulfilled"
           /\ UNCHANGED <<Terms(j), Remains(j)>> /\ Owed(j)' = Owed(j) + job[j].promise
  <2>1. Contract!Fulfil(j)
    BY <1>1, <1>4 DEF Contract!Fulfil, Stage, Terms, Remains, Owed
  <2> QED BY <2>1 DEF Contract!Next
<1>5. CASE /\ Stage(j) # "unposted" /\ ~job[j].funded
           /\ UNCHANGED <<Stage(j), Terms(j), Remains(j)>>
           /\ Owed(j)' = Owed(j) + job[j].promise
  <2>1. Contract!GrantAtExpiry(j)
    BY <1>1, <1>5 DEF Contract!GrantAtExpiry, Stage, Terms, Remains, Owed
  <2> QED BY <2>1 DEF Contract!Next
<1>6. CASE /\ Stage(j) # "unposted" /\ UNCHANGED <<Stage(j), Terms(j), Remains(j)>>
           /\ \E q \in Size : Owed(j)' = Owed(j) + q * job[j].promise
  <2>1. PICK q \in Size : Owed(j)' = Owed(j) + q * job[j].promise
    BY <1>6
  <2>2. Contract!Override(j, q)
    BY <1>1, <1>6, <2>1 DEF Contract!Override, Stage, Terms, Remains, Owed
  <2> QED BY <2>2 DEF Contract!Next
<1>7. CASE /\ UNCHANGED <<Stage(j), Terms(j), Remains(j)>>
           /\ \E n \in 1 .. Owed(j) : Owed(j)' = Owed(j) - n
  <2>1. PICK n \in 1 .. Owed(j) : Owed(j)' = Owed(j) - n
    BY <1>7
  <2>2. [k \in Job |-> Owed(k)'] = [[k \in Job |-> Owed(k)] EXCEPT ![j] = Owed(j) - n]
    BY <1>1, <2>1
  <2>3. n <= Owed(j)
    OBVIOUS
  <2>4. Contract!Pay(j, n)
    BY <1>1, <1>7, <2>2, <2>3 DEF Contract!Pay, Stage, Terms, Remains, Owed
  <2> QED BY <2>4 DEF Contract!Next, Owed
<1> QED BY <1>2, <1>3, <1>4, <1>5, <1>6, <1>7 DEF Steps

LEMMA RestIsStutter ==
  ASSUME \A k \in Job : UNCHANGED Looks(k)
  PROVE  UNCHANGED Contract!contract
BY DEF Looks, Contract!contract, Stage, Terms, Remains, Owed

LEMMA Amounts ==
  ASSUME JobsInv, MoneyInv
  PROVE  \A j \in Job : Remains(j) \in Nat /\ Owed(j) \in Int /\ granted[j] \in Nat
                        /\ paid[j] \in Nat
<1> TAKE j \in Job
<1>1. job[j] \in Row /\ job[j].fulfilled <= job[j].requested
  BY DEF JobsInv, JobInv
<1>2. paid[j] \in Nat /\ granted[j] \in Nat
  BY DEF MoneyInv, PayInv, JobsInv, GrantInv
<1>3. Remains(j) \in Nat
  BY <1>1 DEF Remains, Row
<1> QED BY <1>2, <1>3 DEF Owed

(* A step that neither claims, grants nor pays: a job is posted, takes what*)
(* was delivered, or nothing happened that the contract knows of.          *)
LEMMA ContractOfRows ==
  ASSUME Base, MoneyInv, [Next]_vars, UNCHANGED <<paid, granted>>,
         ~ \E t \in Task : ClaimJob(t)
  PROVE  [Contract!Next]_(Contract!contract)
<1>0. JobsInv /\ JobsInv'
  BY JobsNext DEF Base
<1>a. \A j \in Job : Owed(j)' = Owed(j) /\ Remains(j) \in Nat /\ Owed(j) \in Int
  <2>1. \A j \in Job : Owed(j)' = Owed(j)
    BY DEF Owed
  <2> QED BY <1>0, <2>1, Amounts
<1>b. \A k \in Job : job'[k] = job[k] => UNCHANGED Looks(k)
  BY <1>a DEF Looks, Stage, Terms, Remains
<1>1. CASE UNCHANGED <<job, log>>
  BY <1>1, <1>b, RestIsStutter
<1>2. CASE Rewrites
  <2>1. PICK j \in Job, f \in Fields \ {"claimed"} : Posted(j) /\ Posted(j)' /\ Only(j, f)
    BY <1>2 DEF Rewrites, Writes
  <2>2. \A k \in Job \ {j} : UNCHANGED Looks(k)
    BY <1>b, <2>1 DEF Only
  <2>3. UNCHANGED <<Stage(j), Terms(j), Remains(j), Owed(j)>>
    BY <1>a, <2>1 DEF Only, Fields, Terms, Remains, Stage, Posted
  <2>4. \A k \in Job : UNCHANGED Looks(k)
    BY <2>2, <2>3 DEF Looks
  <2> QED BY <2>4, RestIsStutter
<1>3. ASSUME NEW t \in Task, NEW j \in Job, NEW q \in Size, NEW n \in Bonus,
             NEW f \in BOOLEAN, Posts(t, j, q, n, f)
      PROVE  Contract!Next
  <2>1. \A k \in Job \ {j} : UNCHANGED Looks(k)
    BY <1>3, <1>b DEF Posts
  <2>2. q \in Nat
    BY JobsAssumption
  <2>3. /\ Stage(j) = "unposted" /\ Stage(j)' = "open"
        /\ Terms(j)' = [bonus |-> n, funded |-> f] /\ Remains(j)' = q
    BY <1>3, <2>2 DEF Posts, NewJob, NoJob, Posted, Stage, Terms, Remains
  <2>4. Steps(j)
    BY <1>a, <2>3 DEF Steps
  <2> QED BY <1>a, <2>1, <2>4, StepIsContract
<1>4. ASSUME NEW t \in Task, NEW i, ProcessDelivery(t, i)
      PROVE  [Contract!Next]_(Contract!contract)
  <2>1. Is(t, Working) /\ Only(Mine(t), "fulfilled") /\ task[t].amt \in Quantity
        /\ job'[Mine(t)].fulfilled = job[Mine(t)].fulfilled
             + Least(job[Mine(t)].requested - job[Mine(t)].fulfilled, task[t].amt)
    BY <1>0, <1>4, ProcessEffects DEF Is, Working
  <2>2. PICK j \in Job : j = Mine(t) /\ Posted(j) /\ job[j] \in Row
    BY <2>1, HeldIsMine
  <2>3. PICK amt \in Nat : amt = task[t].amt
    BY <2>1, JobsAssumption
  <2>4. \A k \in Job \ {j} : UNCHANGED Looks(k)
    BY <1>b, <2>1, <2>2 DEF Only
  <2>5. UNCHANGED <<Stage(j), Terms(j), Owed(j)>>
    BY <1>a, <2>1, <2>2 DEF Only, Terms, Stage
  <2>6. PICK n \in 0 .. Remains(j) : /\ n = Least(Remains(j), amt)
                                     /\ Remains(j)' = Remains(j) - n
    <3>1. Least(Remains(j), amt) \in 0 .. Remains(j)
      BY <1>a DEF Least
    <3>2. /\ job'[j].fulfilled = job[j].fulfilled + Least(Remains(j), amt)
          /\ job'[j].requested = job[j].requested
          /\ job[j].fulfilled \in Nat /\ job[j].requested \in Nat
      BY <2>1, <2>2, <2>3 DEF Only, Remains, Row
    <3> QED BY <3>1, <3>2 DEF Remains
  <2>7. CASE n = 0
    <3>1. \A k \in Job : UNCHANGED Looks(k)
      BY <1>a, <2>4, <2>5, <2>6, <2>7 DEF Looks
    <3> QED BY <3>1, RestIsStutter
  <2>8. CASE n # 0
    <3>1. Remains(j) # 0 /\ n \in 1 .. Remains(j)
      BY <1>a, <2>6, <2>8
    <3>2. ~job[j].claimed
      BY <1>0, <3>1 DEF JobsInv, JobInv, Full, Remains, Row
    <3>3. Steps(j)
      BY <2>2, <2>5, <2>6, <3>1, <3>2 DEF Steps, Stage, Posted
    <3> QED BY <1>a, <2>4, <3>3, StepIsContract
  <2> QED BY <2>7, <2>8
<1> QED BY <1>1, <1>2, <1>3, <1>4, RowSteps

(* The steps that grant or pay, and leave the rows alone.                  *)
LEMMA ContractOfMoney ==
  ASSUME Base, MoneyInv, PaidWithinGrants', UNCHANGED job, NEW j \in Job, Posted(j),
         \A k \in Job \ {j} : UNCHANGED <<paid[k], granted[k]>>,
         \/ paid'[j] = paid[j] /\ ~job[j].funded
            /\ granted'[j] = granted[j] + job[j].promise
         \/ paid'[j] = paid[j]
            /\ \E q \in Size : granted'[j] = granted[j] + q * job[j].promise
         \/ granted'[j] = granted[j] /\ \E n \in Nat \ {0} : paid'[j] = paid[j] + n
  PROVE  Contract!Next
<1>0. JobsInv
  BY DEF Base
<1>1. \A k \in Job \ {j} : UNCHANGED Looks(k)
  BY DEF Looks, Stage, Terms, Remains, Owed
<1>2. UNCHANGED <<Stage(j), Terms(j), Remains(j)>> /\ Stage(j) # "unposted"
  BY DEF Stage, Terms, Remains, Posted
<1>3. /\ Remains(j) \in Nat /\ Owed(j) \in Int /\ granted[j] \in Nat /\ paid[j] \in Nat
      /\ job[j].promise \in Nat
  BY <1>0, Amounts DEF JobsInv, JobInv, Row
<1>4. CASE paid'[j] = paid[j] /\ ~job[j].funded
           /\ granted'[j] = granted[j] + job[j].promise
  <2>1. Owed(j)' = Owed(j) + job[j].promise
    BY <1>3, <1>4 DEF Owed
  <2> QED BY <1>1, <1>2, <1>3, <1>4, <2>1, StepIsContract DEF Steps
<1>5. CASE paid'[j] = paid[j]
           /\ \E q \in Size : granted'[j] = granted[j] + q * job[j].promise
  <2>1. PICK q \in Size : granted'[j] = granted[j] + q * job[j].promise
    BY <1>5
  <2>2. PICK n \in Nat : n = q * job[j].promise
    BY <1>3, JobsAssumption
  <2>3. Owed(j)' = Owed(j) + n
    BY <1>3, <1>5, <2>1, <2>2 DEF Owed
  <2>4. Steps(j)
    BY <1>2, <2>2, <2>3 DEF Steps
  <2> QED BY <1>1, <1>3, <2>4, StepIsContract
<1>6. CASE granted'[j] = granted[j] /\ \E n \in Nat \ {0} : paid'[j] = paid[j] + n
  <2>1. PICK n \in Nat \ {0} : paid'[j] = paid[j] + n
    BY <1>6
  <2>2. paid'[j] <= granted'[j]
    BY DEF PaidWithinGrants
  <2>3. Owed(j)' = Owed(j) - n /\ n \in 1 .. Owed(j)
    BY <1>3, <1>6, <2>1, <2>2 DEF Owed
  <2>4. Steps(j)
    BY <1>2, <2>3 DEF Steps
  <2> QED BY <1>1, <1>3, <2>4, StepIsContract
<1> QED BY <1>4, <1>5, <1>6

LEMMA ContractNext ==
  ASSUME Base, MoneyInv, PaidWithinGrants', [Next]_vars
  PROVE  [Contract!Next]_(Contract!contract)
<1>0. JobsInv /\ JobsInv'
  BY JobsNext DEF Base
<1>1. ASSUME NEW t \in Task, ClaimJob(t) PROVE [Contract!Next]_(Contract!contract)
  <2>1. Is(t, Working) /\ task[t].at = "claim" /\ UNCHANGED paid
    BY <1>0, <1>1, ClaimEffects DEF ClaimJob, Is, Working, Resumes
  <2>2. PICK j \in Job : j = Mine(t) /\ Posted(j) /\ job[j] \in Row
    BY <2>1, HeldIsMine
  <2>3. Full(j)
    BY <1>0, <2>1, <2>2, MineIsPosted DEF JobsInv, Working
  <2>4. CASE job[j].claimed
    <3>1. UNCHANGED <<job, granted>>
      BY <1>0, <1>1, <2>2, <2>4, ClaimEffects
    <3>2. \A k \in Job : UNCHANGED Looks(k)
      BY <2>1, <3>1 DEF Looks, Stage, Terms, Remains, Owed
    <3> QED BY <3>2, RestIsStutter
  <2>5. CASE ~job[j].claimed
    <3>1. /\ Only(j, "claimed") /\ job'[j].claimed
          /\ granted' = [granted EXCEPT ![j] = granted[j] + job[j].promise]
      BY <1>0, <1>1, <2>2, <2>5, ClaimEffects
    <3>2. /\ granted'[j] = granted[j] + job[j].promise /\ granted[j] \in Nat
          /\ \A k \in Job \ {j} : granted'[k] = granted[k]
          /\ paid[j] \in Nat /\ job[j].promise \in Nat
      BY <1>0, <2>2, <3>1, Amounts DEF JobsInv, GrantInv, Row
    <3>3. \A k \in Job \ {j} : UNCHANGED Looks(k)
      BY <2>1, <3>1, <3>2 DEF Only, Looks, Stage, Terms, Remains, Owed
    <3>4. /\ Stage(j) = "open" /\ Remains(j) = 0 /\ Stage(j)' = "fulfilled"
          /\ UNCHANGED <<Terms(j), Remains(j)>>
      BY <2>2, <2>3, <2>5, <3>1 DEF Only, Stage, Terms, Remains, Posted, Full, Row
    <3>5. Owed(j)' = Owed(j) + job[j].promise
      BY <2>1, <3>2 DEF Owed
    <3>6. Steps(j)
      BY <3>4, <3>5 DEF Steps
    <3> QED BY <1>0, <3>3, <3>6, Amounts, StepIsContract
  <2> QED BY <2>4, <2>5
<1>2. CASE UNCHANGED <<paid, granted>> /\ ~ \E t \in Task : ClaimJob(t)
  BY <1>2, ContractOfRows
<1>3. ASSUME NEW t \in Task, NEW c \in Character, PayContributor(t, c)
      PROVE  [Contract!Next]_(Contract!contract)
  <2>1. CASE UNCHANGED paid
    <3>1. UNCHANGED <<job, paid, granted>>
      BY <1>3, <2>1 DEF PayContributor
    <3>2. \A k \in Job : UNCHANGED Looks(k)
      BY <3>1 DEF Looks, Stage, Terms, Remains, Owed
    <3> QED BY <3>2, RestIsStutter
  <2>2. CASE ~ UNCHANGED paid
    <3>1. UNCHANGED <<job, granted>>
      BY <1>3 DEF PayContributor
    <3>2. PICK j \in Job, n \in Nat \ {0} :
            /\ Posted(j) /\ paid'[j] = paid[j] + n
            /\ \A k \in Job \ {j} : paid'[k] = paid[k]
      <4>1. PICK j \in Job : j = Mine(t) /\ Posted(j)
        <5>1. Is(t, Working)
          BY <1>0, <1>3, SettleEffects DEF Is, Working
        <5> QED BY <5>1, HeldIsMine
      <4>2. task[t].due \in [Character -> Nat] /\ task[t].due[c] > 0
        <5>1. Is(t, {"paying", "payingPartial"})
          BY <1>0, <1>3, SettleEffects
        <5> QED BY <1>3, <5>1 DEF MoneyInv, DueInv, PayContributor
      <4>3. PICK n \in Nat \ {0} : n = task[t].due[c]
        BY <4>2
      <4>4. paid' = [paid EXCEPT ![j] = paid[j] + n]
        BY <1>3, <2>2, <4>1, <4>3 DEF PayContributor
      <4>5. DOMAIN paid = Job
        BY DEF MoneyInv, PayInv
      <4> QED BY <4>1, <4>4, <4>5
    <3> QED BY <1>0, <3>1, <3>2, ContractOfMoney
  <2> QED BY <2>1, <2>2
<1>4. ASSUME NEW t \in Task, NEW j \in Job, FinishJob(t, j) PROVE Contract!Next
  <2>1. UNCHANGED <<job, paid>> /\ Posted(j)
        /\ granted' = [granted EXCEPT ![j] = granted[j] + job[j].promise * job[j].requested]
    BY <1>4 DEF FinishJob, Posted
  <2>2. job[j].requested \in Size /\ job[j].promise \in Nat
    BY <1>0, <2>1 DEF Base, BookInv, Sound, JobsInv, JobInv, Row
  <2>3. PICK q \in Size : q = job[j].requested
    BY <2>2
  <2>4. job[j].promise * q = q * job[j].promise
    BY <2>2, JobsAssumption
  <2>5. /\ granted'[j] = granted[j] + q * job[j].promise
        /\ \A k \in Job \ {j} : granted'[k] = granted[k]
    BY <1>0, <2>1, <2>3, <2>4 DEF JobsInv, GrantInv
  <2> QED BY <1>0, <2>1, <2>5, ContractOfMoney
<1>5. ASSUME NEW t \in Task, NEW r \in task[t].todo, ReadPartial(t, r)
      PROVE  [Contract!Next]_(Contract!contract)
  <2>1. PICK j \in Job : r.job = {j} /\ Fits(r.row, j)
    <3>1. Carries(task[t]) /\ CopyOk(t)
      BY <1>0, Shape DEF Base, CopyInv
    <3> QED BY <3>1 DEF Carries, CopyOk
  <2>2. UNCHANGED <<job, paid>> /\ Posted(j) /\ ~job[j].funded
    <3>1. Carries(task[t]) /\ task[t].at \in Unfunded
      BY <1>0, <1>5, Shape DEF ReadPartial, Resumes, Unfunded
    <3> QED BY <1>5, <2>1, <3>1 DEF ReadPartial, Carries
  <2>3. CASE UNCHANGED granted
    <3>1. \A k \in Job : UNCHANGED Looks(k)
      BY <2>2, <2>3 DEF Looks, Stage, Terms, Remains, Owed
    <3> QED BY <3>1, RestIsStutter
  <2>4. CASE granted' = [granted EXCEPT ![j] = granted[j] + r.row.promise]
    <3>1. r.row.promise = job[j].promise
      BY <2>1 DEF Fits
    <3>2. /\ granted'[j] = granted[j] + job[j].promise
          /\ \A k \in Job \ {j} : granted'[k] = granted[k]
      BY <1>0, <2>4, <3>1 DEF JobsInv, GrantInv
    <3> QED BY <1>0, <2>2, <3>2, ContractOfMoney
  <2> QED BY <1>0, <1>5, <2>1, <2>3, <2>4, PartialEffects
<1> QED BY <1>1, <1>2, <1>3, <1>4, <1>5, PaySteps

LEMMA ContractInit == Init => Contract!Init
BY DEF Init, NoJob, Contract!Init, Contract!NoTerms

(* The jobs implement their contract: what the contributors of a job can   *)
(* still receive was granted by a fulfilment, once, by an expiry without a *)
(* ministry, or by hand.                                                   *)
THEOREM KeepsContract == Spec => ImplementsContract
<1>1. Init => Base /\ MoneyInv
  BY BaseInit, MoneyInit
<1>2. Base /\ MoneyInv /\ [Next]_vars => (Base /\ MoneyInv)'
  BY BaseNext, MoneyNext
<1>3. Base /\ MoneyInv => PaidWithinGrants
  BY PaidFits DEF Base, PaidWithinGrants
<1>4. Base /\ MoneyInv /\ PaidWithinGrants' /\ [Next]_vars
        => [Contract!Next]_(Contract!contract)
  BY ContractNext
<1> QED BY <1>1, <1>2, <1>3, <1>4, ContractInit, PTL DEF Spec, ImplementsContract, Contract!Spec

-----------------------------------------------------------------------------
(* The ways in which a step moves a coroutine.                             *)
Moved(t) == DOMAIN task' = Task /\ \A u \in Task \ {t} : task'[u] = task[u]

Continues(t, G) ==
  /\ Moved(t) /\ Is(t, G) /\ On(task'[t]) \in G
  /\ task'[t].job = task[t].job /\ task'[t].todo = task[t].todo
  /\ On(task'[t]) \in Unsaved => Is(t, Unsaved)

Kind(t) ==
  \/ Rests(t) /\ (Is(t, Penalizing) => Crash(t))
  \/ \E j \in Job, q \in Size, n \in Bonus, f \in BOOLEAN : Posts(t, j, q, n, f)
  \/ /\ Moved(t) /\ ~Is(t, InCleanup)
     /\ On(task'[t]) \in {"deliver", "claim"} /\ task'[t].todo = {}
  \/ ClaimJob(t) /\ ~job[Mine(t)].claimed
  \/ \E j \in Job : FinishJob(t, j)
  \/ Continues(t, Unposted) \/ Continues(t, Settling)
  \/ /\ Continues(t, Penalizing)
     /\ On(task'[t]) = "decayUnfunded" => ~PenaltyEnabled \/ ZeroBonus(t)
  \/ BeginCleanup(t) \/ QueryUnfunded(t)
  \/ \E r \in task[t].todo : ExpireEscrow(t, r) \/ ReadPartial(t, r)
  \/ Is(t, Refunding) /\ Goes(t, On(task[t]))
  \/ ZeroEscrow(t) \/ DecayTemplate(t)

LEMMA ContinuesBy ==
  ASSUME NEW t \in Task, NEW G \in {Unposted, Settling, Penalizing}, Is(t, G), NEW on \in G,
         on \in Unsaved => Is(t, Unsaved),
         on = "decayUnfunded" => ~PenaltyEnabled \/ ZeroBonus(t),
         \E row, due : Turns(t, on, task[t].job, row, due, task[t].todo)
  PROVE  Kind(t)
BY DEF Continues, Kind, Turns, Moved

LEMMA TaskSteps ==
  ASSUME Base, [Next]_vars
  PROVE  task' = task \/ \E t \in Task : Kind(t)
<1>0. JobsInv
  BY DEF Base
<1>b. ASSUME NEW t \in Task, ReadBudget(t) \/ SaveTerm(t) PROVE Kind(t)
  <2>1. CASE Rests(t) /\ Is(t, Away)
    BY <2>1 DEF Kind, Is, Away, Penalizing
  <2>2. CASE Goes(t, On(task[t])) /\ ~Is(t, Away)
    <3>1. task[t].next \in AfterTerm /\ task[t].at \in Booking
      BY <1>0, <1>b, OnIs DEF ReadBudget, SaveTerm, Resumes, Booking
    <3>2. On(task[t]) \in {"saveEscrowed", "boost", "zeroEscrow"}
      BY <2>2, <3>1 DEF On, Is, Away, AfterTerm, Booking
    <3>3. PICK on \in {"saveEscrowed", "boost", "zeroEscrow"} : on = On(task[t])
      BY <3>2
    <3>4. Turns(t, on, task[t].job, task[t].row, task[t].due, task[t].todo)
      BY <2>2, <3>3 DEF Goes
    <3>5. CASE on = "saveEscrowed"
      BY <3>3, <3>4, <3>5, ContinuesBy DEF Is, Unposted, Unsaved
    <3>6. CASE on = "boost"
      BY <3>3, <3>4, <3>6, ContinuesBy DEF Is, Settling, Unsaved
    <3>7. CASE on = "zeroEscrow"
      BY <2>2, <3>3, <3>7 DEF Is, Refunding, Kind
    <3> QED BY <3>3, <3>5, <3>6, <3>7
  <2> QED BY <1>0, <1>b, <2>1, <2>2, QuietEffects
<1>1. CASE UNCHANGED vars
  BY <1>1 DEF vars
<1>2. ASSUME NEW t \in Task, Start(t) PROVE Kind(t)
  <2>1. CASE StartTerm(t) \/ BeginPosting(t) \/ \E n \in Bonus : SpendOnSubsidy(t, n)
    BY <1>0, <2>1, QuietEffects DEF Kind, Is, Away, Penalizing
  <2>2. CASE BeginCleanup(t) \/ \E j \in Job : FinishJob(t, j)
    BY <2>2 DEF Kind
  <2>3. ASSUME NEW j \in Job, NEW q \in Size, NEW n \in Bonus, PostByCommand(t, j, q, n)
        PROVE  Kind(t)
    BY <1>0, <2>3, PostEffects DEF Kind
  <2>4. ASSUME NEW j \in Job, NEW c \in Character, NEW q \in Quantity, FindJob(t, j, c, q)
        PROVE  Kind(t)
    <3>1. ~Is(t, InCleanup) /\ \E row : Turns(t, "deliver", {j}, row, NoShares, {})
      BY <1>0, <2>4, FindEffects DEF Is, Away, InCleanup
    <3> QED BY <3>1 DEF Turns, Moved, Kind
  <2> QED BY <1>2, <2>1, <2>2, <2>3, <2>4 DEF Start
<1>3. ASSUME NEW t \in Task, PostingStep(t) PROVE Kind(t)
  <2>1. CASE Allocate(t) \/ EndPosting(t)
    BY <1>0, <2>1, QuietEffects DEF Kind, Is, Away, Penalizing
  <2>2. ASSUME NEW j \in Job, NEW q \in Size, NEW n \in Bonus, PostJob(t, j, q, n)
        PROVE  Kind(t)
    BY <1>0, <2>2, PostEffects DEF Kind
  <2>3. CASE Publish(t)
    BY <1>0, <2>3, PostingEffects DEF Kind, Is, Penalizing
  <2>4. CASE CheckEscrow(t) \/ EscrowJournal(t) \/ SaveEscrowed(t)
    <3>1. PICK on \in {"publish", "escrowJournal", "saveEscrowed"} :
            Is(t, Unsaved) /\ Goes(t, on)
      BY <1>0, <2>4, PostingEffects DEF Is, Unsaved
    <3> QED BY <3>1, ContinuesBy DEF Is, Unposted, Unsaved, Goes
  <2> QED BY <1>3, <1>b, <2>1, <2>2, <2>3, <2>4 DEF PostingStep
<1>4. ASSUME NEW t \in Task, DeliveryStep(t) PROVE Kind(t)
  <2>1. ASSUME NEW i \in 0 .. MaxDeliveries, ProcessDelivery(t, i) PROVE Kind(t)
    <3>1. ~Is(t, InCleanup) /\ ~Is(t, Penalizing)
          /\ (Rests(t) \/ Turns(t, "claim", {Mine(t)}, NoJob, NoShares, {}))
      BY <1>0, <2>1, ProcessEffects DEF Is, InCleanup, Penalizing
    <3> QED BY <3>1 DEF Turns, Moved, Kind
  <2>2. CASE ClaimJob(t)
    BY <1>0, <2>2, ClaimEffects DEF Kind, Is, Penalizing
  <2>3. CASE RefreshJob(t) \/ ReadDeliveries(t) \/ SpendJobEscrow(t) \/ GrantRebate(t)
             \/ BoostTemplate(t)
    <3>1. \/ Rests(t) /\ ~Is(t, Penalizing)
          \/ Is(t, Settling) /\ \E on, row, due :
               on \in Settling /\ Turns(t, on, task[t].job, row, due, task[t].todo)
      BY <1>0, <2>3, SettleEffects DEF Is, Settling, Goes, Penalizing
    <3>2. \A on \in Settling : on \notin Unsaved /\ on # "decayUnfunded"
      BY DEF Settling, Unsaved
    <3> QED BY <3>1, <3>2, ContinuesBy DEF Kind
  <2>4. ASSUME NEW c \in Character, PayContributor(t, c) PROVE Kind(t)
    <3>1. PICK on, due :
            /\ on \in {"paying", "payingPartial"} /\ Is(t, {on})
            /\ Turns(t, on, task[t].job, task[t].row, due, task[t].todo)
      <4>1. /\ Is(t, {"paying", "payingPartial"})
            /\ \E due : Turns(t, On(task[t]), task[t].job, task[t].row, due, task[t].todo)
        BY <1>0, <2>4, SettleEffects
      <4> QED BY <4>1 DEF Is
    <3> QED BY <3>1, ContinuesBy DEF Is, Settling, Penalizing, Unsaved
  <2> QED BY <1>4, <2>1, <2>2, <2>3, <2>4 DEF DeliveryStep
<1>5. ASSUME NEW t \in Task, CleanupStep(t) PROVE Kind(t)
  <2>1. CASE \/ \E r \in task[t].todo : ExpireEscrow(t, r) \/ ReadPartial(t, r)
             \/ ZeroEscrow(t) \/ DecayTemplate(t) \/ QueryUnfunded(t)
    BY <2>1 DEF Kind
  <2>2. CASE BoostPartial(t) \/ Penalize(t) \/ ZeroBonus(t)
    <3>1. PICK on \in {"penalty", "zeroBonus", "decayUnfunded"} :
            /\ Is(t, Penalizing) /\ Goes(t, on)
            /\ on = "decayUnfunded" => ~PenaltyEnabled \/ ZeroBonus(t)
      BY <1>0, <2>2, CleanupEffects DEF Is, Penalizing
    <3> QED BY <3>1, ContinuesBy DEF Penalizing, Unsaved, Goes
  <2>3. CASE EndCleanup(t)
    BY <1>0, <2>3, QuietEffects DEF Kind, Is, Penalizing
  <2> QED BY <1>5, <2>1, <2>2, <2>3 DEF CleanupStep
<1>6. ASSUME NEW t \in Task, Crash(t) PROVE Kind(t)
  BY <1>0, <1>6, QuietEffects DEF Kind
<1>7. ASSUME NEW j \in Job, Expire(j) PROVE task' = task
  BY <1>7 DEF Expire
<1> QED BY <1>1, <1>2, <1>3, <1>4, <1>5, <1>6, <1>7 DEF Next, Step

-----------------------------------------------------------------------------
(* One cleanup at a time, and each row of its list is of another job.      *)
TodoOk(t) ==
  /\ ~Is(t, InCleanup) => task[t].todo = {}
  /\ \A r, q \in task[t].todo : r.job = q.job => r = q
  /\ \A r \in task[t].todo : r.job # task[t].job

SoloInv == /\ \A t, u \in Task : Is(t, InCleanup) /\ Is(u, InCleanup) => t = u
           /\ \A t \in Task : TodoOk(t)

LEMMA RowsAreOfJobs ==
  ASSUME NEW S \in SUBSET Job
  PROVE  /\ \A r, q \in Rows(S) : r.job = q.job => r = q
         /\ \A r \in Rows(S) : r.job # {}
         /\ \A r \in Rows(S) : \E j \in S : r = [job |-> {j}, row |-> job[j]]
<1>1. \A r \in Rows(S) : \E j \in S : r = [job |-> {j}, row |-> job[j]]
  BY DEF Rows
<1>2. ASSUME NEW r \in Rows(S), NEW q \in Rows(S), r.job = q.job PROVE r = q
  <2>1. PICK j \in S : r = [job |-> {j}, row |-> job[j]]
    BY <1>1
  <2>2. PICK k \in S : q = [job |-> {k}, row |-> job[k]]
    BY <1>1
  <2>3. {j} = {k}
    BY <1>2, <2>1, <2>2
  <2>4. j = k
    BY <2>3
  <2> QED BY <2>1, <2>2, <2>4
<1>3. ASSUME NEW r \in Rows(S) PROVE r.job # {}
  <2>1. PICK j \in S : r = [job |-> {j}, row |-> job[j]]
    BY <1>1
  <2> QED BY <2>1
<1> QED BY <1>1, <1>2, <1>3

(* What a step does to the list of the coroutine that takes it.            *)
Lists(t) ==
  \/ /\ On(task'[t]) \notin InCleanup
     /\ task'[t].todo = {} \/ (~Is(t, InCleanup) /\ task'[t].todo = task[t].todo)
  \/ /\ Is(t, InCleanup) /\ On(task'[t]) \in InCleanup /\ task'[t].todo = task[t].todo
     /\ task'[t].job \in {task[t].job, {}}
  \/ /\ Is(t, InCleanup) /\ On(task'[t]) \in InCleanup
     /\ \E r \in task[t].todo : task'[t].todo = task[t].todo \ {r} /\ task'[t].job = r.job
  \/ /\ Is(t, InCleanup) \/ \A u \in Task : ~Is(u, InCleanup)
     /\ On(task'[t]) \in InCleanup /\ task'[t].job = {}
     /\ \E S \in SUBSET Job : task'[t].todo = Rows(S)

LEMMA KindLists ==
  ASSUME Base, NEW t \in Task, Kind(t)
  PROVE  Moved(t) /\ Lists(t)
<1>0. JobsInv
  BY DEF Base
<1>a. ASSUME NEW on, NEW held, NEW row, NEW due, NEW todo, Turns(t, on, held, row, due, todo)
      PROVE  /\ Moved(t) /\ On(task'[t]) = on /\ task'[t].job = held
             /\ task'[t].todo = todo /\ task'[t].row = row
  BY <1>a DEF Turns, Moved
<1>1. CASE Rests(t)
  BY <1>1 DEF Rests, Moved, Lists, Away, InCleanup
<1>2. ASSUME NEW j \in Job, NEW q \in Size, NEW n \in Bonus, NEW f \in BOOLEAN,
             Posts(t, j, q, n, f)
      PROVE  Moved(t) /\ Lists(t)
  BY <1>2 DEF Posts, Moved, Lists, Is, Away, InCleanup
<1>3. CASE /\ Moved(t) /\ ~Is(t, InCleanup)
           /\ On(task'[t]) \in {"deliver", "claim"} /\ task'[t].todo = {}
  BY <1>3 DEF Lists, InCleanup
<1>4. CASE ClaimJob(t) /\ ~job[Mine(t)].claimed
  <2>1. Is(t, {"claim"}) /\ Turns(t, "refresh", task[t].job, task[t].row, task[t].due, task[t].todo)
    BY <1>0, <1>4, ClaimEffects DEF Goes
  <2>2. /\ Moved(t) /\ On(task'[t]) = "refresh" /\ task'[t].todo = task[t].todo
        /\ ~Is(t, InCleanup)
    BY <1>a, <2>1 DEF Is, InCleanup
  <2> QED BY <2>2 DEF Lists, InCleanup
<1>5. ASSUME NEW j \in Job, FinishJob(t, j) PROVE Moved(t) /\ Lists(t)
  <2>1. PICK row : Turns(t, "readLog", {j}, row, NoShares, {})
    BY <1>0, <1>5, FinishEffects
  <2>2. Moved(t) /\ On(task'[t]) = "readLog" /\ task'[t].todo = {}
    BY <1>a, <2>1
  <2> QED BY <2>2 DEF Lists, InCleanup
<1>6. CASE Continues(t, Unposted) \/ Continues(t, Settling)
  BY <1>6 DEF Continues, Lists, Is, Unposted, Unsaved, Settling, InCleanup
<1>7. CASE Continues(t, Penalizing)
  BY <1>7 DEF Continues, Lists, Is, Penalizing, InCleanup
<1>8. CASE BeginCleanup(t)
  <2>1. PICK S, todo :
          /\ S \in SUBSET Job /\ todo = Rows(S)
          /\ Turns(t, "expiredFunded", {}, NoJob, NoShares, todo)
        /\ \A u \in Task : ~Is(u, InCleanup)
    BY <1>0, <1>8, QueryEffects DEF Refundables
  <2>2. /\ Moved(t) /\ On(task'[t]) = "expiredFunded" /\ task'[t].job = {}
        /\ task'[t].todo = Rows(S)
    BY <1>a, <2>1
  <2> QED BY <2>1, <2>2 DEF Lists, InCleanup
<1>9. CASE QueryUnfunded(t)
  <2>1. PICK S, todo :
          /\ S \in SUBSET Job /\ todo = Rows(S)
          /\ Turns(t, "expiredUnfunded", {}, NoJob, NoShares, todo)
        /\ Is(t, {"expiredFunded"})
    BY <1>0, <1>9, QueryEffects DEF Penalizables
  <2>2. /\ Moved(t) /\ On(task'[t]) = "expiredUnfunded" /\ task'[t].job = {}
        /\ task'[t].todo = Rows(S)
    BY <1>a, <2>1
  <2> QED BY <2>1, <2>2 DEF Lists, Is, InCleanup
<1>10. ASSUME NEW r \in task[t].todo, ExpireEscrow(t, r) \/ ReadPartial(t, r)
       PROVE  Moved(t) /\ Lists(t)
  <2>1. PICK on, row, due :
          /\ on \in InCleanup /\ Is(t, InCleanup)
          /\ Turns(t, on, r.job, row, due, task[t].todo \ {r})
    <3>1. CASE ExpireEscrow(t, r)
      BY <1>0, <3>1, ExpireEscrowEffects DEF Is, InCleanup
    <3>2. CASE ReadPartial(t, r)
      <4>1. PICK j \in Job : r.job = {j}
        BY <1>0, Shape DEF Carries
      <4>2. PICK due : due = PartialDue(r, j)
        OBVIOUS
      <4>3. PICK on \in {"payingPartial", "penalty"} :
              /\ Is(t, {"expiredUnfunded"})
              /\ Turns(t, on, {j}, r.row, due, task[t].todo \ {r})
        BY <1>0, <3>2, <4>1, <4>2, PartialEffects
      <4> QED BY <4>1, <4>3 DEF Is, InCleanup
    <3> QED BY <1>10, <3>1, <3>2
  <2>2. /\ Moved(t) /\ On(task'[t]) = on /\ task'[t].job = r.job
        /\ task'[t].todo = task[t].todo \ {r}
    BY <1>a, <2>1
  <2> QED BY <2>1, <2>2 DEF Lists
<1>11. CASE \/ Is(t, Refunding) /\ Goes(t, On(task[t]))
            \/ ZeroEscrow(t) \/ DecayTemplate(t)
  <2>1. PICK on, held, row, due :
          /\ on \in InCleanup /\ held \in {task[t].job, {}} /\ Is(t, InCleanup)
          /\ Turns(t, on, held, row, due, task[t].todo)
    <3>1. CASE Is(t, Refunding) /\ Goes(t, On(task[t]))
      BY <3>1 DEF Goes, Is, Refunding, InCleanup
    <3>2. CASE ZeroEscrow(t)
      BY <1>0, <3>2, CleanupEffects DEF Goes, Is, InCleanup
    <3>3. CASE DecayTemplate(t)
      BY <1>0, <3>3, CleanupEffects DEF Is, InCleanup
    <3> QED BY <1>11, <3>1, <3>2, <3>3
  <2>2. /\ Moved(t) /\ On(task'[t]) = on /\ task'[t].job = held
        /\ task'[t].todo = task[t].todo
    BY <1>a, <2>1
  <2> QED BY <2>1, <2>2 DEF Lists
<1> QED BY <1>1, <1>2, <1>3, <1>4, <1>5, <1>6, <1>7, <1>8, <1>9, <1>10, <1>11 DEF Kind

LEMMA SoloKept ==
  ASSUME Base, SoloInv, NEW t \in Task, Kind(t)
  PROVE  SoloInv'
<1>1. Moved(t) /\ Lists(t)
  BY KindLists
<1>2. \A u \in Task \ {t} : task'[u] = task[u] /\ TodoOk(u)'
  BY <1>1 DEF Moved, SoloInv, TodoOk, Is
<1>3. TodoOk(t) /\ \A r \in task[t].todo : \E j \in Job : r.job = {j}
  BY Shape DEF Base, SoloInv, Carries
<1>4. CASE /\ On(task'[t]) \notin InCleanup
           /\ task'[t].todo = {} \/ (~Is(t, InCleanup) /\ task'[t].todo = task[t].todo)
  <2>1. task'[t].todo = {}
    BY <1>3, <1>4 DEF TodoOk
  <2> QED BY <1>2, <1>4, <2>1 DEF SoloInv, TodoOk, Is
<1>5. CASE /\ Is(t, InCleanup) /\ On(task'[t]) \in InCleanup /\ task'[t].todo = task[t].todo
           /\ task'[t].job \in {task[t].job, {}}
  <2>1. TodoOk(t)'
    BY <1>3, <1>5 DEF TodoOk, Is
  <2> QED BY <1>2, <1>5, <2>1 DEF SoloInv, Is
<1>6. ASSUME Is(t, InCleanup), On(task'[t]) \in InCleanup, NEW r \in task[t].todo,
             task'[t].todo = task[t].todo \ {r}, task'[t].job = r.job
      PROVE  SoloInv'
  <2>1. TodoOk(t)'
    BY <1>3, <1>6 DEF TodoOk, Is
  <2> QED BY <1>2, <1>6, <2>1 DEF SoloInv, Is
<1>7. ASSUME Is(t, InCleanup) \/ \A u \in Task : ~Is(u, InCleanup),
             On(task'[t]) \in InCleanup, task'[t].job = {}, NEW S \in SUBSET Job,
             task'[t].todo = Rows(S)
      PROVE  SoloInv'
  <2>1. TodoOk(t)'
    BY <1>7, RowsAreOfJobs DEF TodoOk, Is
  <2> QED BY <1>2, <1>7, <2>1 DEF SoloInv, Is
<1> QED BY <1>1, <1>4, <1>5, <1>6, <1>7 DEF Lists

-----------------------------------------------------------------------------
(* Where a step leads its coroutine, and with which job.                   *)
Leads(t, S, held) == On(task'[t]) \in S /\ task'[t].job = held

Arrives(t) ==
  \/ On(task'[t]) \in Away \cup {"deliver", "claim", "expiredFunded", "expiredUnfunded"}
  \/ \E j \in Job : ~Posted(j) /\ Leads(t, {"escrow", "publish"}, {j})
  \/ ClaimJob(t) /\ ~job[Mine(t)].claimed /\ Is(t, {"claim"}) /\ Leads(t, {"refresh"}, task[t].job)
  \/ \E j \in Job : FinishJob(t, j) /\ Leads(t, {"readLog"}, {j})
  \/ Continues(t, Unposted) \/ Continues(t, Settling) \/ Continues(t, Penalizing)
  \/ \E r \in task[t].todo : ExpireEscrow(t, r) /\ Leads(t, {"zeroEscrow"}, r.job)
  \/ \E r \in task[t].todo :
       ReadPartial(t, r) /\ Leads(t, {"payingPartial", "penalty"}, r.job)
  \/ Is(t, Refunding) /\ Goes(t, On(task[t])) /\ Leads(t, Refunding, task[t].job)
  \/ ZeroEscrow(t) /\ Is(t, {"zeroEscrow"}) /\ Leads(t, {"decayFunded"}, task[t].job)

LEMMA KindArrives ==
  ASSUME Base, NEW t \in Task, Kind(t)
  PROVE  Arrives(t)
<1>0. JobsInv
  BY DEF Base
<1>a. ASSUME NEW on, NEW held, NEW row, NEW due, NEW todo, Turns(t, on, held, row, due, todo)
      PROVE  On(task'[t]) = on /\ task'[t].job = held
  BY <1>a DEF Turns
<1>1. CASE Rests(t)
  BY <1>1 DEF Rests, Arrives
<1>2. ASSUME NEW j \in Job, NEW q \in Size, NEW n \in Bonus, NEW f \in BOOLEAN,
             Posts(t, j, q, n, f)
      PROVE  Arrives(t)
  BY <1>2 DEF Posts, Arrives, Leads
<1>3. CASE /\ Moved(t) /\ ~Is(t, InCleanup)
           /\ On(task'[t]) \in {"deliver", "claim"} /\ task'[t].todo = {}
  BY <1>3 DEF Arrives
<1>4. CASE ClaimJob(t) /\ ~job[Mine(t)].claimed
  <2>1. Is(t, {"claim"}) /\ Turns(t, "refresh", task[t].job, task[t].row, task[t].due, task[t].todo)
    BY <1>0, <1>4, ClaimEffects DEF Goes
  <2>2. Leads(t, {"refresh"}, task[t].job)
    BY <1>a, <2>1 DEF Leads
  <2> QED BY <1>4, <2>1, <2>2 DEF Arrives
<1>5. ASSUME NEW j \in Job, FinishJob(t, j) PROVE Arrives(t)
  <2>1. PICK row : Turns(t, "readLog", {j}, row, NoShares, {})
    BY <1>0, <1>5, FinishEffects
  <2>2. Leads(t, {"readLog"}, {j})
    BY <1>a, <2>1 DEF Leads
  <2> QED BY <1>5, <2>2 DEF Arrives
<1>6. CASE Continues(t, Unposted) \/ Continues(t, Settling) \/ Continues(t, Penalizing)
  BY <1>6 DEF Arrives
<1>7. CASE BeginCleanup(t)
  <2>1. PICK todo : Turns(t, "expiredFunded", {}, NoJob, NoShares, todo)
    BY <1>0, <1>7, QueryEffects
  <2>2. On(task'[t]) = "expiredFunded"
    BY <1>a, <2>1
  <2> QED BY <2>2 DEF Arrives
<1>8. CASE QueryUnfunded(t)
  <2>1. PICK todo : Turns(t, "expiredUnfunded", {}, NoJob, NoShares, todo)
    BY <1>0, <1>8, QueryEffects
  <2>2. On(task'[t]) = "expiredUnfunded"
    BY <1>a, <2>1
  <2> QED BY <2>2 DEF Arrives
<1>9. ASSUME NEW r \in task[t].todo, ExpireEscrow(t, r) PROVE Arrives(t)
  <2>1. PICK due, todo : Turns(t, "zeroEscrow", r.job, r.row, due, todo)
    BY <1>0, <1>9, ExpireEscrowEffects
  <2>2. Leads(t, {"zeroEscrow"}, r.job)
    BY <1>a, <2>1 DEF Leads
  <2> QED BY <1>9, <2>2 DEF Arrives
<1>10. ASSUME NEW r \in task[t].todo, ReadPartial(t, r) PROVE Arrives(t)
  <2>1. PICK j \in Job : r.job = {j}
    BY <1>0, Shape DEF Carries
  <2>2. PICK due : due = PartialDue(r, j)
    OBVIOUS
  <2>3. PICK on \in {"payingPartial", "penalty"} :
          \E todo : Turns(t, on, {j}, r.row, due, todo)
    BY <1>0, <1>10, <2>1, <2>2, PartialEffects
  <2>4. Leads(t, {"payingPartial", "penalty"}, r.job)
    BY <1>a, <2>1, <2>3 DEF Leads
  <2> QED BY <1>10, <2>4 DEF Arrives
<1>11. CASE Is(t, Refunding) /\ Goes(t, On(task[t]))
  <2>1. Leads(t, Refunding, task[t].job)
    BY <1>11 DEF Leads, Goes, Turns, Is
  <2> QED BY <1>11, <2>1 DEF Arrives
<1>12. CASE ZeroEscrow(t)
  <2>1. Is(t, {"zeroEscrow"})
        /\ Turns(t, "decayFunded", task[t].job, task[t].row, task[t].due, task[t].todo)
    BY <1>0, <1>12, CleanupEffects DEF Goes
  <2>2. Leads(t, {"decayFunded"}, task[t].job)
    BY <1>a, <2>1 DEF Leads
  <2> QED BY <1>12, <2>1, <2>2 DEF Arrives
<1>13. CASE DecayTemplate(t)
  <2>1. PICK on \in {"expiredFunded", "expiredUnfunded"} :
          Turns(t, on, {}, NoJob, NoShares, task[t].todo)
    BY <1>0, <1>13, CleanupEffects
  <2>2. On(task'[t]) = on
    BY <1>a, <2>1
  <2> QED BY <2>2 DEF Arrives
<1> QED BY <1>1, <1>2, <1>3, <1>4, <1>5, <1>6, <1>7, <1>8, <1>9, <1>10, <1>11, <1>12, <1>13
        DEF Kind

(* Who is settling a job, still posting it or paying out its expiry after  *)
(* a step, was before, or has just begun.                                  *)
LEMMA HoldsFrom ==
  ASSUME Base, [Next]_vars, NEW t \in Task, NEW j \in Job, task'[t].job = {j}
  PROVE  /\ On(task'[t]) \in Settling =>
              \/ Holds(t, j) /\ Is(t, Settling)
              \/ ClaimJob(t) /\ Holds(t, j) /\ Is(t, {"claim"}) /\ ~job[j].claimed
              \/ FinishJob(t, j)
         /\ On(task'[t]) \in Unsaved => (Holds(t, j) /\ Is(t, Unsaved)) \/ ~Posted(j)
         /\ On(task'[t]) \in Penalizing =>
              \/ Holds(t, j) /\ Is(t, Penalizing)
              \/ \E r \in task[t].todo : ReadPartial(t, r) /\ r.job = {j}
<1>1. CASE task'[t] = task[t]
  BY <1>1 DEF Holds, Is
<1>2. CASE task'[t] # task[t]
  <2>1. PICK u \in Task : Kind(u)
    BY <1>2, TaskSteps
  <2>2. u = t
    BY <1>2, <2>1, KindLists DEF Moved
  <2>3. Arrives(t)
    BY <2>1, <2>2, KindArrives
  <2>4. CASE On(task'[t]) \in Away \cup {"deliver", "claim", "expiredFunded", "expiredUnfunded"}
    BY <2>4 DEF Away, Settling, Unsaved, Penalizing
  <2>5. CASE \E k \in Job : ~Posted(k) /\ Leads(t, {"escrow", "publish"}, {k})
    BY <2>5 DEF Leads, Settling, Unsaved, Penalizing
  <2>6. CASE ClaimJob(t) /\ ~job[Mine(t)].claimed /\ Is(t, {"claim"})
             /\ Leads(t, {"refresh"}, task[t].job)
    <3>1. Is(t, Working) /\ Holds(t, j) /\ On(task'[t]) = "refresh"
      BY <2>6 DEF Is, Working, Leads, Holds
    <3>2. j = Mine(t)
      BY <3>1, HeldIsMine
    <3> QED BY <2>6, <3>1, <3>2 DEF Settling, Unsaved, Penalizing
  <2>7. CASE \E k \in Job : FinishJob(t, k) /\ Leads(t, {"readLog"}, {k})
    BY <2>7 DEF Leads, Settling, Unsaved, Penalizing
  <2>8. CASE Continues(t, Unposted)
    BY <2>8 DEF Continues, Unposted, Settling, Unsaved, Penalizing, Holds
  <2>9. CASE Continues(t, Settling) \/ Continues(t, Penalizing)
    BY <2>9 DEF Continues, Settling, Unsaved, Penalizing, Holds
  <2>10. CASE \E r \in task[t].todo : ExpireEscrow(t, r) /\ Leads(t, {"zeroEscrow"}, r.job)
    BY <2>10 DEF Leads, Settling, Unsaved, Penalizing
  <2>11. CASE \E r \in task[t].todo :
                ReadPartial(t, r) /\ Leads(t, {"payingPartial", "penalty"}, r.job)
    BY <2>11 DEF Leads, Settling, Unsaved, Penalizing
  <2>12. CASE Is(t, Refunding) /\ Goes(t, On(task[t])) /\ Leads(t, Refunding, task[t].job)
    BY <2>12 DEF Leads, Refunding, Settling, Unsaved, Penalizing
  <2>13. CASE ZeroEscrow(t) /\ Is(t, {"zeroEscrow"}) /\ Leads(t, {"decayFunded"}, task[t].job)
    BY <2>13 DEF Leads, Settling, Unsaved, Penalizing
  <2> QED BY <2>3, <2>4, <2>5, <2>6, <2>7, <2>8, <2>9, <2>10, <2>11, <2>12, <2>13 DEF Arrives
<1> QED BY <1>1, <1>2

-----------------------------------------------------------------------------
(* Who writes which field of a posted job.                                 *)
LEMMA FieldSteps ==
  ASSUME Base, [Next]_vars, NEW j \in Job, Posted(j)
  PROVE  /\ Posted(j)' /\ job'[j].funded = job[j].funded
         /\ job'[j].promise = job[j].promise /\ job'[j].requested = job[j].requested
         /\ (job[j].claimed => job'[j].claimed) /\ (job[j].expired => job'[j].expired)
         /\ \/ job'[j].claimed = job[j].claimed
            \/ \E t \in Task : Is(t, {"claim"}) /\ Holds(t, j) /\ ClaimJob(t)
         /\ \/ job'[j].escrowed = job[j].escrowed
            \/ \E t \in Task : Is(t, {"saveEscrowed"}) /\ Holds(t, j) /\ SaveEscrowed(t)
            \/ \E t \in Task : Is(t, {"zeroEscrow"}) /\ Holds(t, j) /\ ZeroEscrow(t)
         /\ \/ job'[j].bonus = job[j].bonus
            \/ \E t \in Task : Is(t, {"zeroBonus"}) /\ Holds(t, j) /\ ZeroBonus(t)
         /\ \/ job'[j].completions = job[j].completions
            \/ /\ job'[j].completions = job[j].completions + 1
               /\ \E t \in Task : Is(t, {"paying", "boost"}) /\ Holds(t, j) /\ BoostTemplate(t)
            \/ /\ job'[j].completions = job[j].completions + 1
               /\ \E t \in Task : Is(t, {"payingPartial"}) /\ Holds(t, j) /\ BoostPartial(t)
         /\ \/ job'[j].expirations = job[j].expirations
            \/ /\ job'[j].expirations = job[j].expirations + 1
               /\ \E t \in Task : /\ Is(t, {"decayFunded", "decayUnfunded"}) /\ Holds(t, j)
                                  /\ DecayTemplate(t)
<1>0. JobsInv
  BY DEF Base
<1>1. /\ Posted(j)' /\ job'[j].funded = job[j].funded
      /\ job'[j].promise = job[j].promise /\ job'[j].requested = job[j].requested
      /\ (job[j].claimed => job'[j].claimed) /\ (job[j].expired => job'[j].expired)
  BY Lasts DEF Lasting
<1> DEFINE Changed(f) ==
      CASE f = "claimed" ->
             \E t \in Task : Is(t, {"claim"}) /\ Holds(t, j) /\ ClaimJob(t)
        [] f = "escrowed" ->
             \/ \E t \in Task : Is(t, {"saveEscrowed"}) /\ Holds(t, j) /\ SaveEscrowed(t)
             \/ \E t \in Task : Is(t, {"zeroEscrow"}) /\ Holds(t, j) /\ ZeroEscrow(t)
        [] f = "bonus" ->
             \E t \in Task : Is(t, {"zeroBonus"}) /\ Holds(t, j) /\ ZeroBonus(t)
        [] f = "completions" ->
             \/ /\ job'[j].completions = job[j].completions + 1
                /\ \E t \in Task : Is(t, {"paying", "boost"}) /\ Holds(t, j) /\ BoostTemplate(t)
             \/ /\ job'[j].completions = job[j].completions + 1
                /\ \E t \in Task : Is(t, {"payingPartial"}) /\ Holds(t, j) /\ BoostPartial(t)
        [] f = "expirations" ->
             /\ job'[j].expirations = job[j].expirations + 1
             /\ \E t \in Task : /\ Is(t, {"decayFunded", "decayUnfunded"}) /\ Holds(t, j)
                                /\ DecayTemplate(t)
        [] OTHER -> TRUE
<1>2. job'[j] = job[j] \/ \E f \in Fields \cup {"fulfilled"} : Only(j, f) /\ Changed(f)
  <2>1. CASE UNCHANGED <<job, log>>
    BY <2>1
  <2>2. CASE Rewrites
    <3>1. PICK k \in Job, f \in Fields :
            /\ Only(k, f)
            /\ \/ f = "expired"
               \/ \E t \in Task : Is(t, Working) /\ k = Mine(t) /\ Writes(t, f)
      BY <2>2 DEF Rewrites
    <3>2. CASE k # j
      BY <3>1, <3>2 DEF Only
    <3>3. CASE k = j /\ f = "expired"
      BY <3>1, <3>3
    <3>4. CASE k = j /\ f # "expired"
      <4>1. PICK t \in Task : Is(t, Working) /\ j = Mine(t) /\ Writes(t, f)
        BY <3>1, <3>4
      <4>2. Holds(t, j)
        BY <4>1, HeldIsMine
      <4>3. Changed(f)
        BY <1>0, <4>1, <4>2, ClaimEffects, PostingEffects, SettleEffects, CleanupEffects
           DEF Writes, Is
      <4> QED BY <3>1, <3>4, <4>3
    <3> QED BY <3>2, <3>3, <3>4
  <2>3. ASSUME NEW t \in Task, NEW k \in Job, NEW q \in Size, NEW n \in Bonus,
               NEW f \in BOOLEAN, Posts(t, k, q, n, f)
        PROVE  job'[j] = job[j]
    BY <2>3 DEF Posts
  <2>4. ASSUME NEW t \in Task, NEW i, ProcessDelivery(t, i)
        PROVE  job'[j] = job[j] \/ Only(j, "fulfilled")
    <3>1. Is(t, Working) /\ Only(Mine(t), "fulfilled")
      BY <1>0, <2>4, ProcessEffects DEF Is, Working
    <3>2. PICK k \in Job : k = Mine(t)
      BY <3>1, HeldIsMine
    <3> QED BY <3>1, <3>2 DEF Only
  <2> QED BY <2>1, <2>2, <2>3, <2>4, RowSteps
<1>3. CASE job'[j] = job[j]
  BY <1>1, <1>3
<1>4. ASSUME NEW f \in Fields \cup {"fulfilled"}, Only(j, f), Changed(f)
      PROVE  /\ (job'[j].claimed = job[j].claimed \/ f = "claimed")
             /\ (job'[j].escrowed = job[j].escrowed \/ f = "escrowed")
             /\ (job'[j].bonus = job[j].bonus \/ f = "bonus")
             /\ (job'[j].completions = job[j].completions \/ f = "completions")
             /\ (job'[j].expirations = job[j].expirations \/ f = "expirations")
  BY <1>4 DEF Only
<1>5. /\ Changed("claimed") =>
           \E t \in Task : Is(t, {"claim"}) /\ Holds(t, j) /\ ClaimJob(t)
      /\ Changed("escrowed") =>
           \/ \E t \in Task : Is(t, {"saveEscrowed"}) /\ Holds(t, j) /\ SaveEscrowed(t)
           \/ \E t \in Task : Is(t, {"zeroEscrow"}) /\ Holds(t, j) /\ ZeroEscrow(t)
      /\ Changed("bonus") =>
           \E t \in Task : Is(t, {"zeroBonus"}) /\ Holds(t, j) /\ ZeroBonus(t)
      /\ Changed("completions") =>
           \/ /\ job'[j].completions = job[j].completions + 1
              /\ \E t \in Task : Is(t, {"paying", "boost"}) /\ Holds(t, j) /\ BoostTemplate(t)
           \/ /\ job'[j].completions = job[j].completions + 1
              /\ \E t \in Task : Is(t, {"payingPartial"}) /\ Holds(t, j) /\ BoostPartial(t)
      /\ Changed("expirations") =>
           /\ job'[j].expirations = job[j].expirations + 1
           /\ \E t \in Task : /\ Is(t, {"decayFunded", "decayUnfunded"}) /\ Holds(t, j)
                              /\ DecayTemplate(t)
  OBVIOUS
<1> HIDE DEF Changed
<1> QED BY <1>1, <1>2, <1>3, <1>4, <1>5

(* A job is late when it is claimed after its expiry.                      *)
LEMMA LateSteps ==
  ASSUME Base, [Next]_vars
  PROVE  /\ late \subseteq late' /\ forced \subseteq forced'
         /\ \A j \in Job : Posted(j) /\ ~job[j].claimed /\ job'[j].claimed /\ job[j].expired
                             => j \in late'
         /\ crashes' = 0 => crashes = 0
<1>0. JobsInv /\ crashes \in Nat
  BY DEF Base, JobsInv, CountInv
<1>c. ASSUME NEW t \in Task, ClaimJob(t)
      PROVE  /\ late \subseteq late' /\ UNCHANGED <<forced, crashes>>
             /\ \A j \in Job : Holds(t, j) /\ ~job[j].claimed /\ job[j].expired => j \in late'
  <2>1. Is(t, Working)
    BY <1>0, <1>c, ClaimEffects DEF Is, Working
  <2>2. \A j \in Job : Holds(t, j) => j = Mine(t)
    BY <2>1, HeldIsMine
  <2> QED BY <1>0, <1>c, <2>2, ClaimEffects DEF ClaimJob, counters
<1>1. late \subseteq late' /\ forced \subseteq forced' /\ (crashes' = 0 => crashes = 0)
  <2>1. CASE UNCHANGED vars
    BY <2>1 DEF vars, ghosts, counters
  <2>2. ASSUME NEW t \in Task, Start(t) \/ PostingStep(t)
        PROVE  UNCHANGED <<late, crashes>> /\ forced \subseteq forced'
    BY <2>2 DEF Start, StartTerm, BeginPosting, BeginCleanup, SpendOnSubsidy, PostByCommand,
                FindJob, FinishJob, PostingStep, Allocate, ReadBudget, SaveTerm, PostJob,
                CheckEscrow, EscrowJournal, SaveEscrowed, Publish, EndPosting, ghosts, counters
  <2>3. ASSUME NEW t \in Task, DeliveryStep(t), ~ClaimJob(t)
        PROVE  UNCHANGED <<late, forced, crashes>>
    BY <2>3 DEF DeliveryStep, ProcessDelivery, RefreshJob, ReadDeliveries, PayContributor,
                SpendJobEscrow, GrantRebate, BoostTemplate, ghosts, counters
  <2>4. ASSUME NEW t \in Task, CleanupStep(t) PROVE UNCHANGED <<late, forced, crashes>>
    BY <2>4 DEF CleanupStep, ExpireEscrow, ReadPartial, ZeroEscrow, DecayTemplate,
                QueryUnfunded, BoostPartial, Penalize, ZeroBonus, EndCleanup, ghosts, counters
  <2>5. ASSUME NEW t \in Task, Crash(t) PROVE UNCHANGED <<late, forced>> /\ crashes' = crashes + 1
    BY <2>5 DEF Crash, ghosts
  <2>6. ASSUME NEW j \in Job, Expire(j) PROVE UNCHANGED <<late, forced, crashes>>
    BY <2>6 DEF Expire, ghosts, counters
  <2> QED BY <1>0, <1>c, <2>1, <2>2, <2>3, <2>4, <2>5, <2>6 DEF Next, Step
<1>2. ASSUME NEW j \in Job, Posted(j), ~job[j].claimed, job'[j].claimed, job[j].expired
      PROVE  j \in late'
  <2>1. PICK t \in Task : Is(t, {"claim"}) /\ Holds(t, j) /\ ClaimJob(t)
    BY <1>2, FieldSteps
  <2> QED BY <1>2, <1>c, <2>1
<1> QED BY <1>1, <1>2

-----------------------------------------------------------------------------
(* What the completions and expirations of a job say of its settlement.    *)
Stale(j) == job[j].expired /\ (j \in late \/ ~job[j].claimed)

UnsavedInv == \A t \in Task, j \in Job :
                Holds(t, j) /\ Is(t, Unsaved) => job[j].expirations = 0

SettleInv ==
  \A j \in Job \ forced : \A t \in Task : Holds(t, j) /\ Is(t, Settling) =>
    /\ job[j].claimed
    /\ job[j].funded /\ j \notin late => job[j].completions = 0
    /\ \A u \in Task : Holds(u, j) /\ Is(u, Settling) => u = t

Refundable(j, row) == /\ job[j].funded /\ Stale(j) /\ job[j].expirations = 0
                      /\ job[j].escrowed = row.escrowed /\ row.escrowed > 0

Refunded(j) == /\ job[j].funded /\ Stale(j) /\ job[j].expirations = 0
               /\ job[j].escrowed = 0
               /\ \A u \in Task : ~(Holds(u, j) /\ Is(u, Unsaved))

RefundOk(t) ==
  \A j \in Job :
    /\ Is(t, Refunding) => \A r \in task[t].todo : r.job = {j} => Refundable(j, r.row)
    /\ Is(t, {"zeroEscrow"}) /\ Holds(t, j) => Refundable(j, task[t].row)
    /\ Is(t, {"decayFunded"}) /\ Holds(t, j) => Refunded(j)

RefundInv == \A t \in Task : RefundOk(t)

OutcomeOk(j) ==
  /\ job[j].expirations <= 1
  /\ job[j].expirations > 0 => job[j].expired /\ job[j].escrowed = 0
  /\ j \notin late \cup forced =>
       /\ job[j].completions <= 1
       /\ job[j].completions > 0 => job[j].claimed
       /\ job[j].claimed => job[j].expirations = 0

OutcomeInv == \A j \in Job : job[j].funded => OutcomeOk(j)

EndInv == SoloInv /\ UnsavedInv /\ SettleInv /\ RefundInv /\ OutcomeInv

LEMMA Counts ==
  ASSUME Base
  PROVE  \A j \in Job : /\ job[j].completions \in Nat /\ job[j].expirations \in Nat
                        /\ job[j].escrowed \in Nat
                        /\ (job[j].funded => Posted(j))
                        /\ (~Posted(j) => job[j] = NoJob)
BY DEF Base, JobsInv, JobInv, BookInv, Row, Posted, NoJob

(* A new row has no outcome; a row not posted yet stays as it is.          *)
LEMMA Blank ==
  ASSUME Base, [Next]_vars, NEW j \in Job, ~Posted(j)
  PROVE  job'[j].expirations = 0 /\ job'[j].completions = 0 /\ ~job'[j].claimed
<1>1. job[j].expirations = 0 /\ job[j].completions = 0 /\ ~job[j].claimed
  BY Counts DEF NoJob
<1>2. CASE UNCHANGED <<job, log>>
  BY <1>1, <1>2
<1>3. CASE Rewrites
  BY <1>1, <1>3 DEF Rewrites, Only
<1>4. ASSUME NEW t \in Task, NEW k \in Job, NEW q \in Size, NEW n \in Bonus,
             NEW f \in BOOLEAN, Posts(t, k, q, n, f)
      PROVE  job'[j] \in {job[j], NewJob(q, n, f)}
  BY <1>4 DEF Posts
<1>5. ASSUME NEW q, NEW n, NEW f
      PROVE  /\ NewJob(q, n, f).expirations = 0 /\ NewJob(q, n, f).completions = 0
             /\ ~NewJob(q, n, f).claimed
  BY DEF NewJob, NoJob
<1>6. ASSUME NEW t \in Task, NEW i, ProcessDelivery(t, i) PROVE job'[j] = job[j]
  <2>1. Is(t, Working) /\ Only(Mine(t), "fulfilled")
    BY <1>6, ProcessEffects DEF Base, Is, Working
  <2>2. PICK k \in Job : k = Mine(t) /\ Posted(k)
    BY <2>1, HeldIsMine
  <2> QED BY <2>1, <2>2 DEF Only
<1> QED BY <1>1, <1>2, <1>3, <1>4, <1>5, <1>6, RowSteps

LEMMA HeldPosted ==
  ASSUME Base, NEW t \in Task, NEW j \in Job, Holds(t, j), Is(t, Working)
  PROVE  Posted(j) /\ j = Mine(t)
BY HeldIsMine

LEMMA UnsavedKept ==
  ASSUME Base, EndInv, [Next]_vars
  PROVE  UnsavedInv'
<1> SUFFICES ASSUME NEW t \in Task, NEW j \in Job, Holds(t, j)', Is(t, Unsaved)'
             PROVE  job'[j].expirations = 0
  BY DEF UnsavedInv
<1>1. (Holds(t, j) /\ Is(t, Unsaved)) \/ ~Posted(j)
  BY HoldsFrom DEF Holds, Is
<1>2. CASE ~Posted(j)
  BY <1>2, Blank
<1>3. CASE Holds(t, j) /\ Is(t, Unsaved)
  <2>1. Posted(j) /\ job[j].funded /\ job[j].escrowed = 0
    BY <1>3, HeldPosted DEF Base, PlaceInv, PlaceOk, Is, Working, Unsaved
  <2>2. ASSUME NEW u \in Task, Is(u, {"decayFunded", "decayUnfunded"}), Holds(u, j)
        PROVE  FALSE
    <3>1. CASE Is(u, {"decayUnfunded"})
      BY <2>1, <2>2, <3>1 DEF Base, PlaceInv, PlaceOk, Is, Penalizing
    <3>2. CASE Is(u, {"decayFunded"})
      BY <1>3, <2>2, <3>2 DEF EndInv, RefundInv, RefundOk, Refunded
    <3> QED BY <2>2, <3>1, <3>2 DEF Is
  <2>3. job'[j].expirations = job[j].expirations
    BY <2>1, <2>2, FieldSteps
  <2> QED BY <1>3, <2>3 DEF EndInv, UnsavedInv
<1> QED BY <1>1, <1>2, <1>3

LEMMA SettleKept ==
  ASSUME Base, EndInv, [Next]_vars
  PROVE  SettleInv'
<1>0. JobsInv
  BY DEF Base
<1>1. ASSUME NEW t \in Task, NEW j \in Job \ forced', Holds(t, j)', Is(t, Settling)'
      PROVE  /\ Posted(j) /\ j \notin forced
             /\ \/ Holds(t, j) /\ Is(t, Settling)
                \/ /\ ClaimJob(t) /\ Holds(t, j) /\ Is(t, {"claim"}) /\ ~job[j].claimed
                   /\ \A u \in Task : ~(Holds(u, j) /\ Is(u, Settling))
  <2>1. j \notin forced
    BY <1>1, LateSteps
  <2>2. ~FinishJob(t, j)
    BY <1>1 DEF FinishJob
  <2>3. \/ Holds(t, j) /\ Is(t, Settling)
        \/ ClaimJob(t) /\ Holds(t, j) /\ Is(t, {"claim"}) /\ ~job[j].claimed
    BY <1>1, <2>2, HoldsFrom DEF Holds, Is
  <2>4. Posted(j)
    BY <2>3, HeldPosted DEF Is, Working, Settling
  <2>5. ~job[j].claimed => \A u \in Task : ~(Holds(u, j) /\ Is(u, Settling))
    BY <2>1 DEF EndInv, SettleInv
  <2> QED BY <2>1, <2>3, <2>4, <2>5
<1>2. ASSUME NEW t \in Task, NEW j \in Job \ forced', Holds(t, j)', Is(t, Settling)',
             NEW u \in Task, Holds(u, j)', Is(u, Settling)'
      PROVE  u = t
  <2>1. CASE Holds(t, j) /\ Is(t, Settling) /\ Holds(u, j) /\ Is(u, Settling)
    BY <1>1, <1>2, <2>1 DEF EndInv, SettleInv
  <2>2. CASE ClaimJob(t) /\ ClaimJob(u)
    <3>1. /\ Is(t, {"claim"}) /\ (Rests(t) \/ Goes(t, "refresh"))
          /\ Is(u, {"claim"}) /\ (Rests(u) \/ Goes(u, "refresh"))
      BY <1>0, <2>2, ClaimEffects
    <3>2. On(task'[t]) # "claim" /\ On(task'[u]) # "claim"
      BY <3>1 DEF Rests, Away, Goes, Turns
    <3>3. u # t => task'[u] = task[u]
      BY <3>1 DEF Rests, Goes, Turns
    <3> QED BY <3>1, <3>2, <3>3 DEF Is
  <2> QED BY <1>1, <1>2, <2>1, <2>2
<1>3. ASSUME NEW t \in Task, NEW j \in Job \ forced', Holds(t, j)', Is(t, Settling)'
      PROVE  job'[j].claimed
  <2>1. CASE Holds(t, j) /\ Is(t, Settling)
    BY <1>1, <1>3, <2>1, FieldSteps DEF EndInv, SettleInv
  <2>2. CASE ClaimJob(t) /\ Holds(t, j) /\ Is(t, {"claim"}) /\ ~job[j].claimed
    BY <1>0, <2>2, ClaimEffects, HeldPosted DEF Is, Working
  <2> QED BY <1>1, <1>3, <2>1, <2>2
<1>4. ASSUME NEW t \in Task, NEW j \in Job \ forced', Holds(t, j)', Is(t, Settling)',
             job'[j].funded, j \notin late'
      PROVE  job'[j].completions = 0
  <2>1. Posted(j) /\ job[j].funded /\ j \notin late \cup forced
    BY <1>1, <1>4, FieldSteps, LateSteps
  <2>2. job[j].completions = 0
    <3>1. CASE Holds(t, j) /\ Is(t, Settling)
      BY <2>1, <3>1 DEF EndInv, SettleInv
    <3>2. CASE ~job[j].claimed
      BY <2>1, <3>2, Counts DEF EndInv, OutcomeInv, OutcomeOk
    <3> QED BY <1>1, <1>4, <3>1, <3>2
  <2>3. ASSUME NEW u \in Task, Is(u, {"paying", "boost"}), Holds(u, j), BoostTemplate(u)
        PROVE  FALSE
    <3>1. Is(u, Settling) /\ Holds(u, j)
      BY <2>3 DEF Is, Settling
    <3>2. u = t
      BY <1>1, <1>4, <2>1, <3>1 DEF EndInv, SettleInv
    <3>3. Rests(t)
      BY <1>0, <2>3, <3>2, SettleEffects
    <3> QED BY <1>4, <3>3 DEF Rests, Is, Away, Settling
  <2>4. ASSUME NEW u \in Task, Is(u, {"payingPartial"}), Holds(u, j) PROVE FALSE
    BY <2>1, <2>4 DEF Base, PlaceInv, PlaceOk, Is, Penalizing
  <2> QED BY <2>1, <2>2, <2>3, <2>4, FieldSteps
<1> QED BY <1>2, <1>3, <1>4 DEF SettleInv

LEMMA StaleKept ==
  ASSUME Base, [Next]_vars, NEW j \in Job, Posted(j), Stale(j)
  PROVE  Stale(j)'
<1>1. job'[j].expired /\ (j \in late => j \in late')
  BY FieldSteps, LateSteps DEF Stale
<1>2. j \notin late' => ~job'[j].claimed
  <2>1. CASE job[j].claimed
    BY <1>1, <2>1 DEF Stale
  <2>2. CASE ~job[j].claimed
    BY <2>2, LateSteps DEF Stale
  <2> QED BY <2>1, <2>2
<1> QED BY <1>1, <1>2 DEF Stale

(* A row to refund stays one until its own coroutine refunds it.           *)
LEMMA RefundableKept ==
  ASSUME Base, EndInv, [Next]_vars, NEW j \in Job, NEW row, Refundable(j, row), row.escrowed \in Nat,
         \A w \in Task : Holds(w, j) => ~ZeroEscrow(w) /\ ~DecayTemplate(w)
  PROVE  Refundable(j, row)'
<1>1. Posted(j) /\ job[j].escrowed \in Nat
  BY Counts DEF Refundable
<1>2. Stale(j)' /\ job'[j].funded
  BY <1>1, StaleKept, FieldSteps DEF Refundable
<1>3. \A w \in Task : ~(Holds(w, j) /\ Is(w, Unsaved))
  BY <1>1 DEF Base, PlaceInv, PlaceOk, Refundable
<1>4. job'[j].escrowed = job[j].escrowed /\ job'[j].expirations = job[j].expirations
  BY <1>1, <1>3, FieldSteps DEF Is, Unsaved
<1> QED BY <1>2, <1>4 DEF Refundable

LEMMA RefundedKept ==
  ASSUME Base, EndInv, [Next]_vars, NEW j \in Job, Refunded(j),
         \A w \in Task : Holds(w, j) => ~DecayTemplate(w)
  PROVE  Refunded(j)'
<1>1. Posted(j)
  BY Counts DEF Refunded
<1>2. Stale(j)' /\ job'[j].funded
  BY <1>1, StaleKept, FieldSteps DEF Refunded
<1>3. \A w \in Task : ~(Holds(w, j) /\ Is(w, Unsaved))'
  BY <1>1, HoldsFrom DEF Refunded, Holds, Is
<1>4. /\ job'[j].escrowed = 0
      /\ job'[j].expirations = job[j].expirations
  <2>1. \A w \in Task : ZeroEscrow(w) /\ Holds(w, j) /\ Is(w, {"zeroEscrow"}) => job'[j].escrowed = 0
    BY CleanupEffects, HeldPosted DEF Base, Is, Working
  <2>2. \A w \in Task : Holds(w, j) => ~Is(w, {"saveEscrowed"})
    BY DEF Refunded, Is, Unsaved
  <2>3. job'[j].escrowed = 0
    BY <1>1, <2>1, <2>2, FieldSteps DEF Refunded
  <2>4. job'[j].expirations = job[j].expirations
    BY <1>1, FieldSteps
  <2> QED BY <2>3, <2>4
<1> QED BY <1>2, <1>3, <1>4 DEF Refunded

LEMMA TodoRows ==
  ASSUME Base, NEW t \in Task, NEW r \in task[t].todo
  PROVE  \E j \in Job : r.job = {j} /\ Posted(j) /\ Fits(r.row, j) /\ r.row.escrowed \in Nat
<1>1. PICK j \in Job : r.job = {j} /\ Posted(j)
  BY Shape DEF Base, Carries
<1>2. Fits(r.row, j)
  BY <1>1 DEF Base, CopyInv, CopyOk
<1> QED BY <1>1, <1>2 DEF Fits, Row

(* A coroutine that keeps its place, job, copy and list.                   *)
LEMMA RefundStays ==
  ASSUME Base, EndInv, [Next]_vars, NEW t \in Task, Is(t, Refunding),
         On(task'[t]) = On(task[t]), task'[t].job = task[t].job,
         task'[t].row = task[t].row, task'[t].todo = task[t].todo
  PROVE  RefundOk(t)'
<1>0. JobsInv /\ RefundOk(t)
  BY DEF Base, EndInv, RefundInv
<1>1. \A w \in Task : ~ZeroEscrow(w) /\ ~(DecayTemplate(w) /\ Is(w, {"decayFunded"}))
  <2> SUFFICES ASSUME NEW w \in Task,
                      ZeroEscrow(w) \/ (DecayTemplate(w) /\ Is(w, {"decayFunded"}))
               PROVE  FALSE
    OBVIOUS
  <2>1. Is(w, {"zeroEscrow", "decayFunded"}) /\ On(task'[w]) # On(task[w])
    BY <1>0, CleanupEffects DEF Goes, Turns, Is
  <2>2. w = t
    BY <2>1 DEF EndInv, SoloInv, Is, Refunding, InCleanup
  <2> QED BY <2>1, <2>2
<1>2. \A w \in Task : \A j \in Job : job[j].funded /\ Holds(w, j) => ~DecayTemplate(w)
  <2> SUFFICES ASSUME NEW w \in Task, NEW j \in Job, job[j].funded, Holds(w, j), DecayTemplate(w)
               PROVE  FALSE
    OBVIOUS
  <2>1. Is(w, {"decayUnfunded"})
    BY <1>0, <1>1, CleanupEffects
  <2> QED BY <2>1 DEF Base, PlaceInv, PlaceOk, Is, Penalizing
<1>3. ASSUME NEW j \in Job, NEW row, Refundable(j, row), row.escrowed \in Nat
      PROVE  Refundable(j, row)'
  <2>1. \A w \in Task : Holds(w, j) => ~ZeroEscrow(w) /\ ~DecayTemplate(w)
    BY <1>1, <1>2, <1>3 DEF Refundable
  <2> QED BY <1>3, <2>1, RefundableKept
<1>4. ASSUME NEW j \in Job, Refunded(j) PROVE Refunded(j)'
  <2>1. \A w \in Task : Holds(w, j) => ~DecayTemplate(w)
    BY <1>2, <1>4 DEF Refunded
  <2> QED BY <1>4, <2>1, RefundedKept
<1>5. \A r \in task[t].todo : r.row.escrowed \in Nat
  BY TodoRows
<1>6. task[t].row.escrowed \in Nat
  BY <1>0, Shape DEF Shaped, Row
<1> QED BY <1>0, <1>3, <1>4, <1>5, <1>6 DEF RefundOk, Holds, Is

LEMMA KindRefunds ==
  ASSUME Base, NEW t \in Task, Kind(t), On(task'[t]) \in Refunding
  PROVE  \/ BeginCleanup(t) \/ \E r \in task[t].todo : ExpireEscrow(t, r)
         \/ Is(t, Refunding) /\ Goes(t, On(task[t]))
         \/ ZeroEscrow(t) \/ DecayTemplate(t)
<1>0. JobsInv
  BY DEF Base
<1>1. ~Rests(t)
  BY DEF Rests, Away, Refunding
<1>2. \A j \in Job, q \in Size, n \in Bonus, f \in BOOLEAN : ~Posts(t, j, q, n, f)
  BY DEF Posts, Refunding
<1>3. ~ClaimJob(t)
  <2> SUFFICES ASSUME ClaimJob(t) PROVE FALSE
    OBVIOUS
  <2>1. Turns(t, "refresh", task[t].job, task[t].row, task[t].due, task[t].todo)
    BY <1>0, <1>1, ClaimEffects DEF Goes
  <2> QED BY <2>1 DEF Turns, Refunding
<1>4. \A j \in Job : ~FinishJob(t, j)
  <2> SUFFICES ASSUME NEW j \in Job, FinishJob(t, j) PROVE FALSE
    OBVIOUS
  <2>1. PICK row : Turns(t, "readLog", {j}, row, NoShares, {})
    BY <1>0, FinishEffects
  <2> QED BY <2>1 DEF Turns, Refunding
<1>5. ~Continues(t, Unposted) /\ ~Continues(t, Settling) /\ ~Continues(t, Penalizing)
  BY DEF Continues, Unposted, Unsaved, Settling, Penalizing, Refunding
<1>6. ~QueryUnfunded(t)
  <2> SUFFICES ASSUME QueryUnfunded(t) PROVE FALSE
    OBVIOUS
  <2>1. PICK todo : Turns(t, "expiredUnfunded", {}, NoJob, NoShares, todo)
    BY <1>0, QueryEffects
  <2> QED BY <2>1 DEF Turns, Refunding
<1>7. \A r \in task[t].todo : ~ReadPartial(t, r)
  <2> SUFFICES ASSUME NEW r \in task[t].todo, ReadPartial(t, r) PROVE FALSE
    OBVIOUS
  <2>1. PICK j \in Job : r.job = {j}
    BY <1>0, Shape DEF Carries
  <2>2. PICK due : due = PartialDue(r, j)
    OBVIOUS
  <2>3. PICK on \in {"payingPartial", "penalty"} :
          \E todo : Turns(t, on, {j}, r.row, due, todo)
    BY <1>0, <2>1, <2>2, PartialEffects
  <2> QED BY <2>3 DEF Turns, Refunding
<1> QED BY <1>1, <1>2, <1>3, <1>4, <1>5, <1>6, <1>7 DEF Kind, Refunding

LEMMA RefundMoves ==
  ASSUME Base, EndInv, [Next]_vars, NEW t \in Task, Kind(t)
  PROVE  RefundOk(t)'
<1>0. JobsInv /\ RefundOk(t)
  BY DEF Base, EndInv, RefundInv
<1>1. CASE On(task'[t]) \notin Refunding
  BY <1>1 DEF RefundOk, Is, Refunding
<1>2. CASE BeginCleanup(t)
  <2>1. /\ Turns(t, "expiredFunded", {}, NoJob, NoShares, Rows(Refundables))
        /\ UNCHANGED <<job, late>>
    BY <1>0, <1>2, QueryEffects DEF BeginCleanup, ghosts
  <2>2. On(task'[t]) = "expiredFunded" /\ task'[t].todo = Rows(Refundables)
    BY <2>1 DEF Turns
  <2>3. \A j \in Refundables : Refundable(j, job[j])'
    <3> SUFFICES ASSUME NEW j \in Refundables PROVE Refundable(j, job[j])'
      OBVIOUS
    <3>1. /\ j \in Job /\ job[j].funded /\ job[j].escrowed > 0 /\ job[j].expired
          /\ ~job[j].claimed
      BY DEF Refundables, Unsettled
    <3>2. job[j].expirations = 0
      BY <3>1, Counts DEF EndInv, OutcomeInv, OutcomeOk
    <3> QED BY <2>1, <3>1, <3>2 DEF Refundable, Stale
  <2>4. \A r \in Rows(Refundables) : \A j \in Job : r.job = {j} => Refundable(j, r.row)'
    <3> SUFFICES ASSUME NEW r \in Rows(Refundables), NEW j \in Job, r.job = {j}
                 PROVE  Refundable(j, r.row)'
      OBVIOUS
    <3>1. PICK k \in Refundables : r = [job |-> {k}, row |-> job[k]]
      BY RowsAreOfJobs DEF Refundables
    <3>2. k = j /\ r.row = job[j]
      BY <3>1
    <3> QED BY <2>1, <2>3, <3>1, <3>2 DEF Refundable
  <2> QED BY <2>2, <2>4 DEF RefundOk, Is
<1>3. ASSUME NEW r \in task[t].todo, ExpireEscrow(t, r) PROVE RefundOk(t)'
  <2>1. /\ Is(t, {"expiredFunded"}) /\ UNCHANGED <<job, late>>
        /\ Turns(t, "zeroEscrow", r.job, r.row, task[t].due, task[t].todo \ {r})
    BY <1>0, <1>3, ExpireEscrowEffects DEF ExpireEscrow, ghosts
  <2>2. /\ On(task'[t]) = "zeroEscrow" /\ task'[t].todo = task[t].todo \ {r}
        /\ task'[t].job = r.job /\ task'[t].row = r.row
    BY <2>1 DEF Turns
  <2>3. \A q \in task[t].todo : \A j \in Job : q.job = {j} => Refundable(j, q.row)'
    BY <1>0, <2>1 DEF RefundOk, Is, Refunding, Refundable, Stale
  <2> QED BY <2>2, <2>3 DEF RefundOk, Is, Holds
<1>4. CASE Is(t, Refunding) /\ Goes(t, On(task[t]))
  BY <1>4, RefundStays DEF Goes, Turns
<1>5. CASE ZeroEscrow(t)
  <2>1. /\ Is(t, {"zeroEscrow"}) /\ Goes(t, "decayFunded") /\ UNCHANGED late
        /\ Only(Mine(t), "escrowed") /\ job'[Mine(t)].escrowed = 0
    BY <1>0, <1>5, CleanupEffects DEF ZeroEscrow, ghosts
  <2>2. PICK k \in Job : k = Mine(t) /\ Holds(t, k) /\ Posted(k)
    BY <2>1, HeldIsMine DEF Is, Working
  <2>3. /\ On(task'[t]) = "decayFunded" /\ task'[t].todo = task[t].todo
        /\ task'[t].job = {k}
    BY <2>1, <2>2 DEF Goes, Turns, Holds
  <2>4. \A r \in task[t].todo : \A j \in Job : r.job = {j} => Refundable(j, r.row)'
    <3> SUFFICES ASSUME NEW r \in task[t].todo, NEW j \in Job, r.job = {j}
                 PROVE  Refundable(j, r.row)'
      OBVIOUS
    <3>1. j # k
      BY <2>2 DEF EndInv, SoloInv, TodoOk, Holds
    <3>2. Refundable(j, r.row)
      BY <1>0, <2>1 DEF RefundOk, Is, Refunding
    <3> QED BY <2>1, <2>2, <3>1, <3>2 DEF Only, Refundable, Stale
  <2>5. Refunded(k)'
    <3>1. Refundable(k, task[t].row) /\ task[t].row.escrowed \in Nat
      BY <1>0, <2>1, <2>2, Shape DEF RefundOk, Shaped, Row
    <3>2. \A w \in Task : ~(Holds(w, k) /\ Is(w, Unsaved))
      BY <3>1, Counts DEF Base, PlaceInv, PlaceOk, Refundable
    <3>3. \A w \in Task : ~(Holds(w, k) /\ Is(w, Unsaved))'
      BY <2>2, <3>2, HoldsFrom DEF Holds, Is
    <3> QED BY <2>1, <2>2, <3>1, <3>3 DEF Only, Refundable, Refunded, Stale
  <2> QED BY <2>3, <2>4, <2>5 DEF RefundOk, Is, Holds
<1>6. CASE DecayTemplate(t)
  <2>1. PICK on \in {"expiredFunded", "expiredUnfunded"} :
          /\ Turns(t, on, {}, NoJob, NoShares, task[t].todo)
          /\ on = "expiredFunded" => Is(t, {"decayFunded"})
          /\ Only(Mine(t), "expirations") /\ UNCHANGED late /\ Is(t, {"decayFunded", "decayUnfunded"})
    BY <1>0, <1>6, CleanupEffects DEF DecayTemplate, ghosts, Is
  <2>2. On(task'[t]) = on /\ task'[t].todo = task[t].todo /\ task'[t].job = {}
    BY <2>1 DEF Turns
  <2>3. PICK k \in Job : k = Mine(t) /\ Holds(t, k)
    BY <2>1, HeldIsMine DEF Is, Working
  <2>4. ASSUME on = "expiredFunded", NEW r \in task[t].todo, NEW j \in Job, r.job = {j}
        PROVE  Refundable(j, r.row)'
    <3>1. j # k
      BY <2>3, <2>4 DEF EndInv, SoloInv, TodoOk, Holds
    <3>2. Refundable(j, r.row)
      BY <1>0, <2>1, <2>4 DEF RefundOk, Is, Refunding
    <3> QED BY <2>1, <2>3, <3>1, <3>2 DEF Only, Refundable, Stale
  <2> QED BY <2>2, <2>4 DEF RefundOk, Is, Refunding
<1>7. ASSUME On(task'[t]) \in Refunding
      PROVE  \/ BeginCleanup(t) \/ \E r \in task[t].todo : ExpireEscrow(t, r)
             \/ Is(t, Refunding) /\ Goes(t, On(task[t]))
             \/ ZeroEscrow(t) \/ DecayTemplate(t)
  BY <1>7, KindRefunds
<1> QED BY <1>1, <1>2, <1>3, <1>4, <1>5, <1>6, <1>7

LEMMA RefundKept ==
  ASSUME Base, EndInv, [Next]_vars
  PROVE  RefundInv'
<1> SUFFICES ASSUME NEW t \in Task PROVE RefundOk(t)'
  BY DEF RefundInv
<1>1. CASE task'[t] = task[t]
  <2>1. CASE Is(t, Refunding)
    BY <1>1, <2>1, RefundStays
  <2>2. CASE ~Is(t, Refunding)
    BY <1>1, <2>2 DEF RefundOk, Is, Refunding
  <2> QED BY <2>1, <2>2
<1>2. CASE task'[t] # task[t]
  <2>1. PICK u \in Task : Kind(u)
    BY <1>2, TaskSteps
  <2>2. u = t
    BY <1>2, <2>1, KindLists DEF Moved
  <2> QED BY <2>1, <2>2, RefundMoves
<1> QED BY <1>1, <1>2

LEMMA OutcomeKept ==
  ASSUME Base, EndInv, [Next]_vars
  PROVE  OutcomeInv'
<1> SUFFICES ASSUME NEW j \in Job, job'[j].funded PROVE OutcomeOk(j)'
  BY DEF OutcomeInv
<1>0. JobsInv
  BY DEF Base
<1>1. CASE ~Posted(j)
  BY <1>1, Blank DEF OutcomeOk
<1>2. CASE Posted(j)
  <2>0. /\ job[j].funded /\ OutcomeOk(j)
        /\ job[j].completions \in Nat /\ job[j].expirations \in Nat
        /\ (j \in late => j \in late') /\ (j \in forced => j \in forced')
    BY <1>2, FieldSteps, LateSteps, Counts DEF EndInv, OutcomeInv
  <2>1. ASSUME NEW t \in Task, Holds(t, j), DecayTemplate(t)
        PROVE  Refunded(j)
    <3>1. Is(t, {"decayFunded", "decayUnfunded"})
      BY <1>0, <2>1, CleanupEffects DEF Is
    <3>2. ~Is(t, {"decayUnfunded"})
      BY <2>0, <2>1 DEF Base, PlaceInv, PlaceOk, Is, Penalizing
    <3> QED BY <2>1, <3>1, <3>2 DEF EndInv, RefundInv, RefundOk, Is
  <2>2. CASE job'[j].expirations = job[j].expirations
    <3>1. job'[j].expirations <= 1
      BY <2>0, <2>2 DEF OutcomeOk
    <3>2. ASSUME job[j].expirations > 0 PROVE job'[j].expired /\ job'[j].escrowed = 0
      <4>1. job[j].expired /\ job[j].escrowed = 0
        BY <2>0, <3>2 DEF OutcomeOk
      <4>2. \A t \in Task : ~(Holds(t, j) /\ Is(t, Unsaved))
        BY <3>2 DEF EndInv, UnsavedInv
      <4>3. \A t \in Task : Is(t, {"zeroEscrow"}) /\ Holds(t, j) /\ ZeroEscrow(t) => job'[j].escrowed = 0
        BY <1>0, CleanupEffects, HeldPosted DEF Is, Working
      <4> QED BY <1>2, <4>1, <4>2, <4>3, FieldSteps DEF Is, Unsaved
    <3>3. ASSUME j \notin late' \cup forced'
          PROVE  /\ job'[j].completions <= 1
                 /\ job'[j].completions > 0 => job'[j].claimed
                 /\ job'[j].claimed => job'[j].expirations = 0
      <4>0. j \notin late \cup forced
        BY <2>0, <3>3
      <4>1. \A t \in Task : ~(Is(t, {"payingPartial"}) /\ Holds(t, j))
        BY <2>0 DEF Base, PlaceInv, PlaceOk, Is, Penalizing
      <4>2. ASSUME NEW t \in Task, Is(t, {"paying", "boost"}), Holds(t, j)
            PROVE  job[j].claimed /\ job[j].completions = 0
        BY <2>0, <4>0, <4>2 DEF EndInv, SettleInv, Is, Settling
      <4>3. /\ job'[j].completions <= 1
            /\ job'[j].completions > 0 => job'[j].claimed
        BY <1>2, <2>0, <4>0, <4>1, <4>2, FieldSteps DEF OutcomeOk
      <4>4. job'[j].claimed => job'[j].expirations = 0
        <5>1. CASE job[j].claimed
          BY <2>0, <2>2, <4>0, <5>1 DEF OutcomeOk
        <5>2. CASE ~job[j].claimed /\ job'[j].claimed
          <6>1. ~job[j].expired
            BY <1>2, <3>3, <5>2, LateSteps
          <6> QED BY <2>0, <2>2, <6>1 DEF OutcomeOk
        <5> QED BY <5>1, <5>2
      <4> QED BY <4>3, <4>4
    <3> QED BY <2>2, <3>1, <3>2, <3>3 DEF OutcomeOk
  <2>3. ASSUME job'[j].expirations = job[j].expirations + 1, NEW t \in Task, Holds(t, j),
               DecayTemplate(t), Is(t, {"decayFunded", "decayUnfunded"})
        PROVE  OutcomeOk(j)'
    <3>1. Refunded(j)
      BY <2>1, <2>3
    <3>2. /\ Only(j, "expirations") /\ UNCHANGED <<late, forced>>
      <4>1. j = Mine(t)
        BY <2>3, HeldPosted DEF Is, Working
      <4> QED BY <1>0, <2>3, <4>1, CleanupEffects DEF DecayTemplate, ghosts
    <3>3. job'[j].expirations = 1
      BY <2>3, <3>1 DEF Refunded
    <3>4. job'[j].expired /\ job'[j].escrowed = 0
      BY <3>1, <3>2 DEF Refunded, Stale, Only
    <3>5. j \notin late => ~job'[j].claimed /\ (j \notin forced => job'[j].completions <= 1
                           /\ ~(job'[j].completions > 0))
      BY <2>0, <3>1, <3>2 DEF Refunded, Stale, Only, OutcomeOk
    <3> QED BY <3>2, <3>3, <3>4, <3>5 DEF OutcomeOk
  <2> QED BY <1>2, <2>2, <2>3, FieldSteps
<1> QED BY <1>1, <1>2

LEMMA EndInit == Init => EndInv
<1> SUFFICES ASSUME Init PROVE EndInv
  OBVIOUS
<1>1. \A t \in Task : On(task[t]) = "idle" /\ task[t].todo = {}
  BY DEF Init, Idle, On
<1>2. \A j \in Job : ~job[j].funded
  BY DEF Init, NoJob
<1> QED BY <1>1, <1>2 DEF EndInv, SoloInv, TodoOk, UnsavedInv, SettleInv, RefundInv, RefundOk,
                          OutcomeInv, Is, InCleanup, Unsaved, Settling, Refunding

LEMMA EndNext == Base /\ EndInv /\ [Next]_vars => EndInv'
<1> SUFFICES ASSUME Base, EndInv, [Next]_vars PROVE EndInv'
  OBVIOUS
<1>1. SoloInv'
  <2>1. CASE task' = task
    BY <2>1 DEF EndInv, SoloInv, TodoOk, Is
  <2>2. ASSUME NEW t \in Task, Kind(t) PROVE SoloInv'
    BY <2>2, SoloKept DEF EndInv
  <2> QED BY <2>1, <2>2, TaskSteps
<1> QED BY <1>1, UnsavedKept, SettleKept, RefundKept, OutcomeKept DEF EndInv

(* A funded job counts for its template as one completion or as one        *)
(* expiration, never as both, also when coroutines die.                    *)
THEOREM OutcomeIsOne == Spec => []OneOutcome
<1>1. Init => Base /\ EndInv
  BY BaseInit, EndInit
<1>2. Base /\ EndInv /\ [Next]_vars => (Base /\ EndInv)'
  BY BaseNext, EndNext
<1>3. Base /\ EndInv => OneOutcome
  <2> SUFFICES ASSUME Base, EndInv, NEW j \in Job \ (late \cup forced), job[j].funded
               PROVE  job[j].completions + job[j].expirations <= 1
    BY DEF OneOutcome
  <2>1. OutcomeOk(j) /\ job[j].completions \in Nat /\ job[j].expirations \in Nat
    BY Counts DEF EndInv, OutcomeInv
  <2> QED BY <2>1 DEF OutcomeOk
<1> QED BY <1>1, <1>2, <1>3, PTL DEF Spec

-----------------------------------------------------------------------------
(* A job without a ministry settles once: while its expiry is being paid   *)
(* or its bonus is zero, no query returns it again.                        *)
Expiring == {"payingPartial", "penalty", "zeroBonus"}

Penalized(j) == job[j].bonus = 0 \/ \E t \in Task : Holds(t, j) /\ Is(t, Expiring)

OnceOk(j) ==
  Posted(j) /\ ~job[j].funded /\ j \notin late \cup forced =>
    \/ job[j].claimed /\ granted[j] = job[j].promise
    \/ ~job[j].claimed /\ granted[j] = 0
    \/ /\ ~job[j].claimed /\ granted[j] = job[j].promise
       /\ job[j].expired /\ Penalized(j)

ExpiryOk(t) ==
  Is(t, Unfunded) => \A r \in task[t].todo, j \in Job : r.job = {j} =>
    ~job[j].funded /\ Stale(j) /\ (j \notin late \cup forced => granted[j] = 0)

OnceInv == PenaltyEnabled /\ crashes = 0 =>
             (\A j \in Job : OnceOk(j)) /\ (\A t \in Task : ExpiryOk(t))

(* Who grants what for a job.                                              *)
LEMMA GrantSteps ==
  ASSUME Base, [Next]_vars, NEW j \in Job
  PROVE  \/ granted'[j] = granted[j] /\ job'[j].claimed = job[j].claimed
         \/ /\ Posted(j) /\ ~job[j].claimed /\ job'[j].claimed
            /\ granted'[j] = granted[j] + job[j].promise
         \/ j \in forced'
         \/ \E t \in Task : \E r \in task[t].todo :
              /\ ReadPartial(t, r) /\ r.job = {j} /\ Posted(j)
              /\ task'[t].job = {j} /\ On(task'[t]) = "payingPartial"
              /\ granted'[j] = granted[j] + job[j].promise /\ UNCHANGED job
<1>0. JobsInv /\ granted \in [Job -> Nat]
  BY DEF Base, JobsInv, GrantInv
<1>1. ASSUME NEW t \in Task, Is(t, {"claim"}), Holds(t, j), ClaimJob(t)
      PROVE  \/ granted'[j] = granted[j] /\ job'[j].claimed = job[j].claimed
             \/ /\ Posted(j) /\ ~job[j].claimed /\ job'[j].claimed
                /\ granted'[j] = granted[j] + job[j].promise
  <2>1. PICK k \in Job : k = Mine(t) /\ k = j /\ Posted(j)
    BY <1>1, HeldPosted DEF Is, Working
  <2>2. CASE job[j].claimed
    BY <1>0, <1>1, <2>1, <2>2, ClaimEffects
  <2>3. CASE ~job[j].claimed
    <3>1. /\ job'[j].claimed
          /\ granted' = [granted EXCEPT ![j] = granted[j] + job[j].promise]
      BY <1>0, <1>1, <2>1, <2>3, ClaimEffects
    <3> QED BY <1>0, <2>1, <2>3, <3>1
  <2> QED BY <2>2, <2>3
<1>2. CASE ~(\E t \in Task : Is(t, {"claim"}) /\ Holds(t, j) /\ ClaimJob(t))
  <2>1. job'[j].claimed = job[j].claimed
    <3>1. CASE Posted(j)
      BY <1>2, <3>1, FieldSteps
    <3>2. CASE ~Posted(j)
      <4>1. job[j].claimed = FALSE
        BY <3>2, Counts DEF NoJob
      <4>2. job'[j].claimed = FALSE
        <5>1. JobsInv'
          BY <1>0, JobsNext
        <5>2. job'[j].claimed \in BOOLEAN
          BY <5>1 DEF JobsInv, JobInv, Row
        <5> QED BY <3>2, <5>2, Blank
      <4> QED BY <4>1, <4>2
    <3> QED BY <3>1, <3>2
  <2>2. CASE UNCHANGED granted
    BY <2>1, <2>2
  <2>3. ASSUME NEW t \in Task, ClaimJob(t) PROVE granted'[j] = granted[j]
    <3>1. Is(t, {"claim"})
      BY <1>0, <2>3, ClaimEffects
    <3>2. PICK k \in Job : k = Mine(t) /\ Holds(t, k)
      BY <3>1, HeldIsMine DEF Is, Working
    <3>3. k # j
      BY <1>2, <2>3, <3>1, <3>2
    <3> QED BY <1>0, <2>3, <3>2, <3>3, ClaimEffects
  <2>4. ASSUME NEW t \in Task, NEW c \in Character, PayContributor(t, c)
        PROVE  UNCHANGED granted
    BY <2>4 DEF PayContributor
  <2>5. ASSUME NEW t \in Task, NEW k \in Job, FinishJob(t, k)
        PROVE  granted'[j] = granted[j] \/ j \in forced'
    BY <1>0, <2>5 DEF FinishJob
  <2>6. ASSUME NEW t \in Task, NEW r \in task[t].todo, ReadPartial(t, r)
        PROVE  \/ granted'[j] = granted[j]
               \/ /\ r.job = {j} /\ Posted(j)
                  /\ task'[t].job = {j} /\ On(task'[t]) = "payingPartial"
                  /\ granted'[j] = granted[j] + job[j].promise /\ UNCHANGED job
    <3>1. PICK k \in Job : r.job = {k} /\ Posted(k) /\ Fits(r.row, k)
      BY TodoRows
    <3>2. PICK due : due = PartialDue(r, k)
      OBVIOUS
    <3>3. /\ Turns(t, IF due # NoShares THEN "payingPartial" ELSE "penalty",
                   {k}, r.row, due, task[t].todo \ {r})
          /\ granted' = IF due # NoShares
                        THEN [granted EXCEPT ![k] = granted[k] + r.row.promise] ELSE granted
      BY <1>0, <2>6, <3>1, <3>2, PartialEffects
    <3>4. CASE due = NoShares \/ k # j
      BY <1>0, <3>3, <3>4
    <3>5. CASE due # NoShares /\ k = j
      <4>1. task'[t].job = {j} /\ On(task'[t]) = "payingPartial"
        BY <3>3, <3>5 DEF Turns
      <4>2. granted'[j] = granted[j] + job[j].promise
        BY <1>0, <3>1, <3>3, <3>5 DEF Fits
      <4> QED BY <2>6, <3>1, <3>5, <4>1, <4>2 DEF ReadPartial
    <3> QED BY <3>4, <3>5
  <2> QED BY <2>1, <2>2, <2>3, <2>4, <2>5, <2>6, PaySteps
<1> QED BY <1>1, <1>2

(* Where the rows of the second query come from.                           *)
LEMMA UnfundedFrom ==
  ASSUME Base, [Next]_vars, NEW t \in Task, On(task'[t]) \in Unfunded
  PROVE  \/ Is(t, Unfunded) /\ task'[t].todo \subseteq task[t].todo
            /\ \A r \in task[t].todo : ReadPartial(t, r) => r \notin task'[t].todo
         \/ QueryUnfunded(t)
<1>0. JobsInv
  BY DEF Base
<1>a. \A r \in task[t].todo : ReadPartial(t, r) =>
        Is(t, {"expiredUnfunded"}) /\ task'[t].todo = task[t].todo \ {r}
  <2> SUFFICES ASSUME NEW r \in task[t].todo, ReadPartial(t, r)
               PROVE  Is(t, {"expiredUnfunded"}) /\ task'[t].todo = task[t].todo \ {r}
    OBVIOUS
  <2>1. PICK j \in Job : r.job = {j}
    BY TodoRows
  <2>2. PICK due : due = PartialDue(r, j)
    OBVIOUS
  <2>3. Is(t, {"expiredUnfunded"}) /\ \E on : Turns(t, on, {j}, r.row, due, task[t].todo \ {r})
    BY <1>0, <2>1, <2>2, PartialEffects
  <2> QED BY <2>3 DEF Turns
<1> SUFFICES ASSUME ~QueryUnfunded(t), \A r \in task[t].todo : ~ReadPartial(t, r)
             PROVE  Is(t, Unfunded) /\ task'[t].todo \subseteq task[t].todo
  BY <1>a DEF Is, Unfunded
<1>1. CASE task'[t] = task[t]
  BY <1>1 DEF Is
<1>2. CASE task'[t] # task[t]
  <2>1. PICK u \in Task : Kind(u)
    BY <1>2, TaskSteps
  <2>2. u = t
    BY <1>2, <2>1, KindLists DEF Moved
  <2>3. Arrives(t)
    BY <2>1, <2>2, KindArrives
  <2>4. CASE On(task'[t]) # "expiredUnfunded"
    <3>1. Continues(t, Penalizing)
      BY <2>3, <2>4 DEF Arrives, Leads, Continues, Unfunded, Away, Unposted, Unsaved, Settling,
                        Refunding
    <3> QED BY <3>1 DEF Continues, Is, Penalizing, Unfunded
  <2>5. CASE On(task'[t]) = "expiredUnfunded"
    <3>1. DecayTemplate(t)
      <4>1. ~Rests(t)
        BY <2>5 DEF Rests, Away
      <4>2. \A j \in Job, q \in Size, n \in Bonus, f \in BOOLEAN : ~Posts(t, j, q, n, f)
        BY <2>5 DEF Posts
      <4>3. ~ClaimJob(t)
        BY <1>0, <2>5, <4>1, ClaimEffects DEF Goes, Turns
      <4>4. \A j \in Job : ~FinishJob(t, j)
        BY <1>0, <2>5, FinishEffects DEF Turns
      <4>5. ~Continues(t, Unposted) /\ ~Continues(t, Settling) /\ ~Continues(t, Penalizing)
        BY <2>5 DEF Continues, Unposted, Unsaved, Settling, Penalizing
      <4>6. ~BeginCleanup(t)
        <5> SUFFICES ASSUME BeginCleanup(t) PROVE FALSE
          OBVIOUS
        <5>1. PICK todo : Turns(t, "expiredFunded", {}, NoJob, NoShares, todo)
          BY <1>0, QueryEffects
        <5> QED BY <2>5, <5>1 DEF Turns
      <4>7. \A r \in task[t].todo : ~ExpireEscrow(t, r)
        <5> SUFFICES ASSUME NEW r \in task[t].todo, ExpireEscrow(t, r) PROVE FALSE
          OBVIOUS
        <5>1. PICK due, todo : Turns(t, "zeroEscrow", r.job, r.row, due, todo)
          BY <1>0, ExpireEscrowEffects
        <5> QED BY <2>5, <5>1 DEF Turns
      <4>8. ~(Is(t, Refunding) /\ Goes(t, On(task[t])))
        BY <2>5 DEF Is, Refunding, Goes, Turns
      <4>9. ~ZeroEscrow(t)
        BY <1>0, <2>5, CleanupEffects DEF Goes, Turns
      <4> QED BY <2>1, <2>2, <2>5, <4>1, <4>2, <4>3, <4>4, <4>5, <4>6, <4>7, <4>8, <4>9 DEF Kind
    <3>2. /\ Is(t, {"decayFunded"}) \/ Is(t, {"decayUnfunded"})
          /\ task'[t].todo = task[t].todo
          /\ On(task'[t]) = "expiredUnfunded" => Is(t, {"decayUnfunded"})
      BY <1>0, <3>1, CleanupEffects DEF Turns
    <3> QED BY <2>5, <3>2 DEF Is, Unfunded
  <2> QED BY <2>4, <2>5
<1> QED BY <1>1, <1>2

LEMMA PenalizedKept ==
  ASSUME Base, [Next]_vars, PenaltyEnabled, crashes = 0, crashes' = 0,
         NEW j \in Job, Posted(j), Penalized(j)
  PROVE  Penalized(j)'
<1>0. JobsInv
  BY DEF Base
<1>a. \A t \in Task : Holds(t, j) /\ ZeroBonus(t) => job'[j].bonus = 0
  BY <1>0, CleanupEffects, HeldPosted DEF Is, Working
<1>1. CASE job[j].bonus = 0
  BY <1>1, <1>a, FieldSteps DEF Penalized
<1>2. ASSUME NEW t \in Task, Holds(t, j), Is(t, Expiring) PROVE Penalized(j)'
  <2>1. CASE task'[t] = task[t]
    BY <1>2, <2>1 DEF Penalized, Holds, Is
  <2>2. CASE task'[t] # task[t]
    <3>1. PICK u \in Task : Kind(u)
      BY <2>2, TaskSteps
    <3>2. u = t
      BY <2>2, <3>1, KindLists DEF Moved
    <3>3. ~Crash(t)
      BY DEF Crash
    <3>4. ~Rests(t) \/ ~(Is(t, Penalizing) => Crash(t))
      BY <1>2, <3>3 DEF Is, Expiring, Penalizing
    <3>5. \A k \in Job, q \in Size, n \in Bonus, f \in BOOLEAN : ~Posts(t, k, q, n, f)
      BY <1>2 DEF Posts, Is, Away, Expiring
    <3>6. ~(~Is(t, InCleanup)) /\ ~ClaimJob(t) /\ \A k \in Job : ~FinishJob(t, k)
      BY <1>0, <1>2, ClaimEffects, FinishEffects DEF Is, Expiring, InCleanup, Away
    <3>7. ~Continues(t, Unposted) /\ ~Continues(t, Settling)
      BY <1>2 DEF Continues, Is, Expiring, Unposted, Unsaved, Settling
    <3>8. ~BeginCleanup(t) /\ ~QueryUnfunded(t)
      BY <1>0, <1>2, QueryEffects DEF Is, Expiring, Away
    <3>9. \A r \in task[t].todo : ~ExpireEscrow(t, r) /\ ~ReadPartial(t, r)
      BY <1>0, <1>2, ExpireEscrowEffects, PartialEffects, TodoRows DEF Is, Expiring
    <3>10. ~Is(t, Refunding) /\ ~ZeroEscrow(t) /\ ~DecayTemplate(t)
      BY <1>0, <1>2, CleanupEffects DEF Is, Expiring, Refunding
    <3>11. /\ Continues(t, Penalizing)
           /\ On(task'[t]) = "decayUnfunded" => ~PenaltyEnabled \/ ZeroBonus(t)
      BY <3>1, <3>2, <3>4, <3>5, <3>6, <3>7, <3>8, <3>9, <3>10 DEF Kind
    <3>12. CASE On(task'[t]) = "decayUnfunded"
      BY <1>2, <1>a, <3>11, <3>12 DEF Penalized
    <3>13. CASE On(task'[t]) # "decayUnfunded"
      BY <1>2, <3>11, <3>13 DEF Penalized, Continues, Holds, Is, Penalizing, Expiring
    <3> QED BY <3>12, <3>13
  <2> QED BY <2>1, <2>2
<1> QED BY <1>1, <1>2 DEF Penalized

LEMMA OnceKept ==
  ASSUME Base, EndInv, OnceInv, [Next]_vars, PenaltyEnabled, crashes' = 0, NEW j \in Job
  PROVE  OnceOk(j)'
<1> SUFFICES ASSUME Posted(j)', ~job'[j].funded, j \notin late' \cup forced'
             PROVE  \/ job'[j].claimed /\ granted'[j] = job'[j].promise
                    \/ ~job'[j].claimed /\ granted'[j] = 0
                    \/ /\ ~job'[j].claimed /\ granted'[j] = job'[j].promise
                       /\ job'[j].expired /\ Penalized(j)'
  BY DEF OnceOk
<1>0. /\ JobsInv /\ crashes = 0 /\ j \notin late \cup forced /\ OnceOk(j)
      /\ granted[j] \in Nat
  BY LateSteps DEF Base, OnceInv, JobsInv, GrantInv
<1>1. CASE ~Posted(j)
  <2>1. granted[j] = 0 /\ ~job'[j].claimed
    BY <1>0, <1>1, Blank DEF JobsInv, GrantInv
  <2>2. granted'[j] = granted[j]
    BY <1>1, <2>1, GrantSteps
  <2> QED BY <2>1, <2>2
<1>2. CASE Posted(j)
  <2>0. /\ ~job[j].funded /\ job'[j].promise = job[j].promise /\ job[j].promise \in Nat
        /\ (job[j].expired => job'[j].expired)
        /\ ~job[j].claimed /\ job'[j].claimed => ~job[j].expired
    BY <1>0, <1>2, FieldSteps, LateSteps DEF JobsInv, JobInv, Row
  <2>1. CASE granted'[j] = granted[j] /\ job'[j].claimed = job[j].claimed
    BY <1>0, <1>2, <2>0, <2>1, PenalizedKept DEF OnceOk
  <2>2. CASE /\ ~job[j].claimed /\ job'[j].claimed
             /\ granted'[j] = granted[j] + job[j].promise
    BY <1>0, <1>2, <2>0, <2>2 DEF OnceOk
  <2>3. ASSUME NEW t \in Task, NEW r \in task[t].todo, ReadPartial(t, r), r.job = {j},
               task'[t].job = {j}, On(task'[t]) = "payingPartial",
               granted'[j] = granted[j] + job[j].promise, UNCHANGED job
        PROVE  \/ job'[j].claimed /\ granted'[j] = job'[j].promise
               \/ /\ ~job'[j].claimed /\ granted'[j] = job'[j].promise
                  /\ job'[j].expired /\ Penalized(j)'
    <3>1. Is(t, Unfunded)
      BY <1>0, <2>3, PartialEffects DEF Is, Unfunded
    <3>2. Stale(j) /\ granted[j] = 0
      BY <1>0, <2>3, <3>1 DEF OnceInv, ExpiryOk
    <3>3. Penalized(j)'
      BY <2>3 DEF Penalized, Holds, Is, Expiring
    <3> QED BY <1>0, <2>0, <2>3, <3>2, <3>3 DEF Stale
  <2> QED BY <2>1, <2>2, <2>3, GrantSteps
<1> QED BY <1>1, <1>2

LEMMA ExpiryKept ==
  ASSUME Base, EndInv, OnceInv, [Next]_vars, PenaltyEnabled, crashes' = 0, NEW t \in Task
  PROVE  ExpiryOk(t)'
<1> SUFFICES ASSUME On(task'[t]) \in Unfunded, NEW r \in task'[t].todo, NEW j \in Job,
                    r.job = {j}
             PROVE  /\ ~job'[j].funded /\ Stale(j)'
                    /\ (j \notin late' \cup forced' => granted'[j] = 0)
  BY DEF ExpiryOk, Is
<1>0. JobsInv /\ crashes = 0 /\ OnceOk(j) /\ ExpiryOk(t)
  BY LateSteps DEF Base, OnceInv
<1>1. CASE Is(t, Unfunded) /\ r \in task[t].todo /\ ~ReadPartial(t, r)
  <2>1. Posted(j) /\ ~job[j].funded /\ Stale(j) /\ (j \notin late \cup forced => granted[j] = 0)
    <3>1. \E k \in Job : r.job = {k} /\ Posted(k)
      BY <1>1, TodoRows
    <3> QED BY <1>0, <1>1, <3>1 DEF ExpiryOk
  <2>2. ~job'[j].funded /\ Stale(j)'
    BY <2>1, FieldSteps, StaleKept
  <2>3. ASSUME j \notin late' \cup forced' PROVE granted'[j] = 0
    <3>1. j \notin late \cup forced /\ granted[j] = 0
      BY <2>1, <2>3, LateSteps
    <3>2. ~(~job[j].claimed /\ job'[j].claimed)
      BY <2>1, <2>3, LateSteps DEF Stale
    <3>3. ASSUME NEW u \in Task, NEW q \in task[u].todo, ReadPartial(u, q), q.job = {j}
          PROVE  FALSE
      <4>1. Is(u, {"expiredUnfunded"})
        BY <1>0, <3>3, PartialEffects
      <4>2. u = t
        BY <1>1, <4>1 DEF EndInv, SoloInv, Is, Unfunded, InCleanup
      <4>3. q = r
        BY <1>1, <3>3, <4>2 DEF EndInv, SoloInv, TodoOk
      <4> QED BY <1>1, <3>3, <4>2, <4>3
    <3> QED BY <2>3, <3>1, <3>2, <3>3, GrantSteps
  <2> QED BY <2>2, <2>3
<1>2. CASE QueryUnfunded(t)
  <2>1. /\ Is(t, {"expiredFunded"}) /\ UNCHANGED <<job, late, forced, granted>>
        /\ Turns(t, "expiredUnfunded", {}, NoJob, NoShares, Rows(Penalizables))
    BY <1>0, <1>2, QueryEffects DEF QueryUnfunded, ghosts
  <2>2. r \in Rows(Penalizables)
    BY <2>1 DEF Turns
  <2>3. PICK k \in Penalizables : r = [job |-> {k}, row |-> job[k]]
    BY <2>2, RowsAreOfJobs DEF Penalizables
  <2>4. k = j
    BY <2>3
  <2>5. /\ Posted(j) /\ job[j].expired /\ ~job[j].claimed /\ ~job[j].funded /\ job[j].bonus > 0
    BY <2>3, <2>4 DEF Penalizables, Unsettled, Posted
  <2>6. ~Penalized(j)
    <3>1. \A u \in Task : ~Is(u, Expiring)
      BY <2>1 DEF EndInv, SoloInv, Is, Expiring, InCleanup
    <3> QED BY <2>5, <3>1 DEF Penalized
  <2>7. j \notin late \cup forced => granted[j] = 0
    BY <1>0, <2>5, <2>6 DEF OnceOk
  <2> QED BY <2>1, <2>5, <2>7 DEF Stale
<1> QED BY <1>1, <1>2, UnfundedFrom

LEMMA OnceInit == Init => OnceInv
<1> SUFFICES ASSUME Init PROVE OnceInv
  OBVIOUS
<1>1. \A t \in Task : On(task[t]) = "idle"
  BY DEF Init, Idle, On
<1>2. \A j \in Job : ~Posted(j)
  BY DEF Init, NoJob, Posted
<1> QED BY <1>1, <1>2 DEF OnceInv, OnceOk, ExpiryOk, Is, Unfunded

(* A job without a ministry is settled at most once when the penalty is    *)
(* on, until a coroutine dies.                                             *)
THEOREM UnfundedOnce == Spec => []UnfundedSettledOnce
<1>1. Init => Base /\ EndInv /\ OnceInv
  BY BaseInit, EndInit, OnceInit
<1>2. Base /\ EndInv /\ OnceInv /\ [Next]_vars => (Base /\ EndInv /\ OnceInv)'
  <2>1. ASSUME Base, EndInv, OnceInv, [Next]_vars PROVE OnceInv'
    BY <2>1, OnceKept, ExpiryKept DEF OnceInv
  <2> QED BY <2>1, BaseNext, EndNext
<1>3. Base /\ OnceInv => UnfundedSettledOnce
  <2> SUFFICES ASSUME Base, OnceInv, PenaltyEnabled, crashes = 0,
                      NEW j \in Job \ (late \cup forced), ~job[j].funded
               PROVE  granted[j] <= job[j].promise
    BY DEF UnfundedSettledOnce
  <2>1. /\ job[j].promise \in Nat /\ granted[j] \in Nat
        /\ (~Posted(j) => granted[j] = 0)
    BY DEF Base, JobsInv, JobInv, GrantInv, Row
  <2>2. OnceOk(j)
    BY DEF OnceInv
  <2> QED BY <2>1, <2>2 DEF OnceOk
<1> QED BY <1>1, <1>2, <1>3, PTL DEF Spec

-----------------------------------------------------------------------------
(* The escrow account.  What stands behind it for each job, and what each  *)
(* coroutine has moved and not yet written, or written and not yet moved.  *)
Backing(j) == IF job[j].claimed THEN 0 ELSE job[j].escrowed

Stakes == {"saveEscrowed", "refresh", "readLog", "paying", "zeroEscrow"}

Pending(s, held) ==
  CASE On(s) = "saveEscrowed"         -> s.row.bonus
    [] On(s) = "refresh"              -> held
    [] On(s) \in {"readLog", "paying"} -> s.row.escrowed
    [] On(s) = "zeroEscrow"           -> -s.row.escrowed
    [] OTHER                          -> 0

LEMMA PendingIs ==
  ASSUME NEW s, NEW held
  PROVE  /\ On(s) \notin Stakes => Pending(s, held) = 0
         /\ On(s) = "saveEscrowed" => Pending(s, held) = s.row.bonus
         /\ On(s) = "refresh" => Pending(s, held) = held
         /\ On(s) \in {"readLog", "paying"} => Pending(s, held) = s.row.escrowed
         /\ On(s) = "zeroEscrow" => Pending(s, held) = -s.row.escrowed
BY DEF Pending, Stakes

LEMMA InEscrowIs ==
  ASSUME JobsInv, NEW t \in Task
  PROVE  InEscrow(t) = Pending(task[t], job[Mine(t)].escrowed)
<1>1. Shaped(task[t])
  BY Shape
<1>2. CASE task[t].next = "idle"
  BY <1>1, <1>2 DEF Shaped, On, Pending, InEscrow
<1>3. CASE task[t].next # "idle"
  <2>1. task[t].at \in {"readTerm", "saveTerm"}
    BY <1>1, <1>3 DEF Shaped, Booking
  <2>2. task[t].next \in {"saveEscrowed", "boost", "zeroEscrow"} /\ On(task[t]) = task[t].next
    BY <1>1, <1>3 DEF Shaped, AfterTerm, On
  <2> QED BY <2>1, <2>2 DEF Pending, InEscrow
<1> QED BY <1>2, <1>3

LEMMA InEscrowThen ==
  ASSUME JobsInv', NEW t \in Task
  PROVE  InEscrow(t)' = Pending(task'[t], job'[Mine(t)'].escrowed)
<1>1. Shaped(task'[t])
  BY DEF JobsInv, TaskInv, Carries
<1>2. CASE task'[t].next = "idle"
  BY <1>1, <1>2 DEF Shaped, On, Pending, InEscrow
<1>3. CASE task'[t].next # "idle"
  <2>1. task'[t].at \in {"readTerm", "saveTerm"}
    BY <1>1, <1>3 DEF Shaped, Booking
  <2>2. task'[t].next \in {"saveEscrowed", "boost", "zeroEscrow"} /\ On(task'[t]) = task'[t].next
    BY <1>1, <1>3 DEF Shaped, AfterTerm, On
  <2> QED BY <2>1, <2>2 DEF Pending, InEscrow
<1> QED BY <1>2, <1>3

LEMMA InEscrowInt ==
  ASSUME Base, NEW t \in Task
  PROVE  InEscrow(t) \in Int
<1>0. JobsInv
  BY DEF Base
<1>1. task[t].row.bonus \in Int /\ task[t].row.escrowed \in Int
  BY <1>0, Shape
<1>2. CASE Is(t, {"refresh"})
  <2>1. job[Mine(t)].escrowed \in Nat
    BY <1>2, HeldIsMine DEF Is, Working, Row
  <2> QED BY <1>0, <1>2, <2>1, InEscrowIs, PendingIs DEF Is
<1>3. CASE ~Is(t, {"refresh"})
  BY <1>0, <1>1, <1>3, InEscrowIs, PendingIs DEF Is, Stakes
<1> QED BY <1>2, <1>3

Calmly == crashes = 0 /\ late = {} /\ forced = {}

(* A claimed job is a full one, so no coroutine is still posting it, and   *)
(* none is refunding it.                                                   *)
LEMMA ClaimedIs ==
  ASSUME Base, EndInv, late = {}, NEW j \in Job, job[j].claimed
  PROVE  /\ Posted(j) /\ Full(j) /\ job[j].fulfilled \in Nat \ {0}
         /\ \A t \in Task : Holds(t, j) => ~Is(t, Unposted) /\ ~Is(t, {"zeroEscrow"})
<1>1. Posted(j) /\ Full(j)
  BY DEF Base, JobsInv, JobInv, GrantInv
<1>2. Sound(job[j]) /\ job[j] \in Row
  BY <1>1 DEF Base, BookInv, JobsInv, JobInv
<1>3. job[j].fulfilled \in Nat \ {0}
  BY <1>1, <1>2, JobsAssumption DEF Sound, Full, Row
<1>4. \A t \in Task : Holds(t, j) => ~Is(t, Unposted)
  BY <1>2, <1>3 DEF Base, PlaceInv, PlaceOk, Sound
<1>5. \A t \in Task : Holds(t, j) => ~Is(t, {"zeroEscrow"})
  BY DEF EndInv, RefundInv, RefundOk, Refundable, Stale
<1> QED BY <1>1, <1>3, <1>4, <1>5

(* A coroutine that keeps its place, its job and its copy.                 *)
LEMMA PendingKept ==
  ASSUME Base, EndInv, [Next]_vars, late = {}, forced = {}, NEW t \in Task,
         On(task'[t]) = On(task[t]), task'[t].job = task[t].job,
         task'[t].row = task[t].row
  PROVE  InEscrow(t)' = InEscrow(t)
<1>0. JobsInv /\ JobsInv'
  BY JobsNext DEF Base
<1>1. CASE ~Is(t, {"refresh"})
  BY <1>0, <1>1, InEscrowIs, InEscrowThen DEF Pending, Is
<1>2. CASE Is(t, {"refresh"})
  <2>1. PICK j \in Job : j = Mine(t) /\ Holds(t, j) /\ Posted(j)
    BY <1>2, HeldIsMine DEF Is, Working
  <2>2. Mine(t)' = j
    BY <2>1 DEF Mine
  <2>3. job[j].claimed
    BY <1>2, <2>1 DEF EndInv, SettleInv, Is, Settling
  <2>4. job'[j].escrowed = job[j].escrowed
    <3>1. \A u \in Task : Holds(u, j) => ~Is(u, {"saveEscrowed"}) /\ ~Is(u, {"zeroEscrow"})
      BY <2>3, ClaimedIs DEF Is, Unposted, Unsaved
    <3> QED BY <2>1, <3>1, FieldSteps
  <2>5. /\ InEscrow(t) = job[j].escrowed
        /\ InEscrow(t)' = job'[j].escrowed
    BY <1>0, <1>2, <2>1, <2>2, InEscrowIs, InEscrowThen, PendingIs DEF Is
  <2> QED BY <2>4, <2>5
<1> QED BY <1>1, <1>2

LEMMA BackingOnly ==
  ASSUME Base,
         \/ UNCHANGED job
         \/ \E k \in Job, f \in {"stage", "fulfilled", "expired", "bonus", "completions",
                                 "expirations"} : Only(k, f)
  PROVE  \A j \in Job : Backing(j)' = Backing(j)
BY DEF Backing, Only

(* The account holds what stands behind it.                                *)
Balanced == escrow = SumFunction([j \in Job |-> Backing(j)])
                       + SumFunction([t \in Task |-> InEscrow(t)])

LEMMA BalancedRests ==
  ASSUME Balanced, UNCHANGED escrow, \A j \in Job : Backing(j)' = Backing(j),
         \A t \in Task : InEscrow(t)' = InEscrow(t)
  PROVE  Balanced'
<1>1. /\ [j \in Job |-> Backing(j)'] = [j \in Job |-> Backing(j)]
      /\ [t \in Task |-> InEscrow(t)'] = [t \in Task |-> InEscrow(t)]
  OBVIOUS
<1> QED BY <1>1 DEF Balanced

LEMMA BalancedMoves ==
  ASSUME Base, Base', Balanced, NEW t \in Task, NEW j \in Job, NEW b \in Int, NEW d \in Int,
         \A k \in Job \ {j} : Backing(k)' = Backing(k),
         \A u \in Task \ {t} : InEscrow(u)' = InEscrow(u),
         Backing(j)' = Backing(j) + b, InEscrow(t)' = InEscrow(t) + d,
         escrow' = escrow + b + d
  PROVE  Balanced'
<1> DEFINE B == [k \in Job |-> Backing(k)]
           C == [k \in Job |-> Backing(k)']
           P == [u \in Task |-> InEscrow(u)]
           Q == [u \in Task |-> InEscrow(u)']
<1>0. /\ IsFiniteSet(Job) /\ IsFiniteSet(Task) /\ escrow \in Int
      /\ \A k \in Job : B[k] \in Int
      /\ \A u \in Task : P[u] \in Int
      /\ DOMAIN B = Job /\ DOMAIN C = Job /\ DOMAIN P = Task /\ DOMAIN Q = Task
  <2>1. \A k \in Job : Backing(k) \in Int
    BY Counts DEF Backing
  <2>2. \A u \in Task : InEscrow(u) \in Int
    BY InEscrowInt
  <2>3. escrow \in Int
    BY DEF Base, JobsInv, MinistryType
  <2> QED BY <2>1, <2>2, <2>3, JobsAssumption
<1>1. /\ C[j] = B[j] + b /\ \A k \in Job \ {j} : C[k] = B[k]
      /\ Q[t] = P[t] + d /\ \A u \in Task \ {t} : Q[u] = P[u]
      /\ escrow = SumFunction(B) + SumFunction(P)
  BY DEF Balanced
<1>2. Balanced' <=> escrow' = SumFunction(C) + SumFunction(Q)
  BY DEF Balanced
<1> HIDE DEF B, C, P, Q
<1>3. SumFunctionOnSet(C, Job) = SumFunctionOnSet(B, Job) + C[j] - B[j]
  <2>1. C[j] \in Int
    BY <1>0, <1>1
  <2> QED BY <1>0, <1>1, <2>1, SumChanged
<1>4. SumFunctionOnSet(Q, Task) = SumFunctionOnSet(P, Task) + Q[t] - P[t]
  <2>1. Q[t] \in Int
    BY <1>0, <1>1
  <2> QED BY <1>0, <1>1, <2>1, SumChanged
<1>5. SumFunctionOnSet(B, Job) \in Int /\ SumFunctionOnSet(P, Task) \in Int
  BY <1>0, SumInt
<1>6. /\ SumFunction(B) = SumFunctionOnSet(B, Job) /\ SumFunction(C) = SumFunctionOnSet(C, Job)
      /\ SumFunction(P) = SumFunctionOnSet(P, Task) /\ SumFunction(Q) = SumFunctionOnSet(Q, Task)
  BY <1>0 DEF SumFunction
<1>7. B[j] \in Int /\ P[t] \in Int
  BY <1>0
<1> QED BY <1>0, <1>1, <1>2, <1>3, <1>4, <1>5, <1>6, <1>7

(* How a step books: nothing moves, or something moves between the account,*)
(* one row and the coroutine that takes the step.                          *)
Books(t, j, b, d) ==
  /\ \A k \in Job \ {j} : Backing(k)' = Backing(k)
  /\ Backing(j)' = Backing(j) + b /\ InEscrow(t)' = InEscrow(t) + d
  /\ escrow' = escrow + b + d

Booked(t) ==
  /\ Moved(t) /\ (On(task'[t]) = "readLog" => task'[t].row.fulfilled # 0)
  /\ \/ /\ UNCHANGED escrow /\ InEscrow(t)' = InEscrow(t)
        /\ \A j \in Job : Backing(j)' = Backing(j)
     \/ \E j \in Job, b \in Int, d \in Int : Books(t, j, b, d)

LEMMA BookedRests ==
  ASSUME Base, [Next]_vars, NEW t \in Task, Moved(t), ~Is(t, Stakes), On(task'[t]) \notin Stakes,
         UNCHANGED escrow, \A j \in Job : Backing(j)' = Backing(j)
  PROVE  Booked(t)
<1>1. JobsInv /\ JobsInv'
  BY JobsNext DEF Base
<1>2. InEscrow(t) = 0 /\ InEscrow(t)' = 0
  BY <1>1, InEscrowIs, InEscrowThen, PendingIs DEF Is
<1> QED BY <1>2 DEF Booked, Stakes

LEMMA BookedStays ==
  ASSUME Base, EndInv, [Next]_vars, late = {}, forced = {}, NEW t \in Task,
         \E due, todo : Turns(t, On(task[t]), task[t].job, task[t].row, due, todo),
         On(task[t]) # "readLog",
         UNCHANGED escrow, \A j \in Job : Backing(j)' = Backing(j)
  PROVE  Booked(t)
<1>1. /\ Moved(t) /\ On(task'[t]) = On(task[t]) /\ task'[t].job = task[t].job
      /\ task'[t].row = task[t].row
  BY DEF Turns, Moved
<1> QED BY <1>1, PendingKept DEF Booked

(* The steps of a coroutine outside Stakes that stays outside.             *)
LEMMA BookedPosting ==
  ASSUME Base, EndInv, [Next]_vars, late = {}, forced = {}, NEW t \in Task
  PROVE  /\ StartTerm(t) \/ BeginPosting(t) \/ BeginCleanup(t) => Booked(t)
         /\ \A n \in Bonus : SpendOnSubsidy(t, n) => Booked(t)
         /\ \A j \in Job, q \in Size, n \in Bonus :
              PostByCommand(t, j, q, n) \/ PostJob(t, j, q, n) => Booked(t)
         /\ \A j \in Job, c \in Character, q \in Quantity : FindJob(t, j, c, q) => Booked(t)
         /\ Allocate(t) \/ ReadBudget(t) \/ SaveTerm(t) \/ EndPosting(t) => Booked(t)
         /\ CheckEscrow(t) \/ Publish(t) => Booked(t)
<1>0. JobsInv
  BY DEF Base
<1>a. ASSUME Rests(t), Is(t, Away), UNCHANGED <<escrow, job>> PROVE Booked(t)
  <2>1. Moved(t) /\ ~Is(t, Stakes) /\ On(task'[t]) \notin Stakes
    BY <1>a DEF Rests, Moved, Is, Away, Stakes
  <2>2. \A j \in Job : Backing(j)' = Backing(j)
    BY <1>a, BackingOnly
  <2> QED BY <1>a, <2>1, <2>2, BookedRests
<1>1. ASSUME StartTerm(t) \/ BeginPosting(t) \/ Allocate(t) \/ EndPosting(t) PROVE Booked(t)
  <2>1. UNCHANGED <<escrow, job>>
    BY <1>1 DEF StartTerm, BeginPosting, Allocate, EndPosting, TakeOffice, AllocateBudget,
                accounts, ministry
  <2> QED BY <1>0, <1>1, <1>a, <2>1, QuietEffects
<1>2. ASSUME NEW n \in Bonus, SpendOnSubsidy(t, n) PROVE Booked(t)
  <2>1. UNCHANGED <<escrow, job>>
    BY <1>2 DEF SpendOnSubsidy, SpendSubsidy
  <2> QED BY <1>0, <1>2, <1>a, <2>1, QuietEffects
<1>3. ASSUME BeginCleanup(t) PROVE Booked(t)
  <2>1. PICK todo : Is(t, Away) /\ Turns(t, "expiredFunded", {}, NoJob, NoShares, todo)
    BY <1>0, <1>3, QueryEffects
  <2>2. Moved(t) /\ ~Is(t, Stakes) /\ On(task'[t]) \notin Stakes
    BY <2>1 DEF Turns, Moved, Is, Away, Stakes
  <2>3. UNCHANGED <<escrow, job>>
    BY <1>3 DEF BeginCleanup, ministry
  <2>4. \A j \in Job : Backing(j)' = Backing(j)
    BY <2>3, BackingOnly
  <2> QED BY <2>2, <2>3, <2>4, BookedRests
<1>4. ASSUME NEW j \in Job, NEW q \in Size, NEW n \in Bonus,
             PostByCommand(t, j, q, n) \/ PostJob(t, j, q, n)
      PROVE  Booked(t)
  <2>1. PICK f \in BOOLEAN : Posts(t, j, q, n, f)
    BY <1>0, <1>4, PostEffects
  <2>2. Moved(t) /\ ~Is(t, Stakes) /\ On(task'[t]) \notin Stakes
    BY <2>1 DEF Posts, Moved, Is, Away, Stakes
  <2>3. UNCHANGED escrow
    BY <1>4 DEF PostByCommand, PostJob, ministry
  <2>4. \A k \in Job : Backing(k)' = Backing(k)
    <3>1. job[j] = NoJob /\ job'[j] = NewJob(q, n, f)
      BY <2>1, Counts DEF Posts
    <3>2. Backing(j)' = 0 /\ Backing(j) = 0
      BY <3>1 DEF Backing, NewJob, NoJob
    <3>3. \A k \in Job \ {j} : Backing(k)' = Backing(k)
      BY <2>1 DEF Posts, Backing
    <3> QED BY <3>2, <3>3
  <2> QED BY <2>2, <2>3, <2>4, BookedRests
<1>5. ASSUME NEW j \in Job, NEW c \in Character, NEW q \in Quantity, FindJob(t, j, c, q)
      PROVE  Booked(t)
  <2>1. PICK row : Is(t, Away) /\ Turns(t, "deliver", {j}, row, NoShares, {})
    BY <1>0, <1>5, FindEffects
  <2>2. Moved(t) /\ ~Is(t, Stakes) /\ On(task'[t]) \notin Stakes
    BY <2>1 DEF Turns, Moved, Is, Away, Stakes
  <2>3. UNCHANGED <<escrow, job>>
    BY <1>5 DEF FindJob, ministry
  <2>4. \A k \in Job : Backing(k)' = Backing(k)
    BY <2>3, BackingOnly
  <2> QED BY <2>2, <2>3, <2>4, BookedRests
<1>6. ASSUME ReadBudget(t) \/ SaveTerm(t) PROVE Booked(t)
  <2>1. UNCHANGED <<escrow, job>>
    BY <1>6 DEF ReadBudget, SaveTerm, RecordBudget, accounts, ministry
  <2>2. CASE Rests(t) /\ Is(t, Away)
    BY <1>a, <2>1, <2>2
  <2>3. CASE Goes(t, On(task[t])) /\ ~Is(t, Away)
    <3>1. task[t].at \in Booking
      BY <1>6 DEF ReadBudget, SaveTerm, Resumes, Booking
    <3>2. On(task[t]) # "readLog"
      <4>1. task[t].next \in AfterTerm
        BY <1>0, OnIs
      <4> QED BY <3>1, <4>1 DEF On, Booking, AfterTerm
    <3>3. \A k \in Job : Backing(k)' = Backing(k)
      BY <2>1, BackingOnly
    <3> QED BY <2>1, <2>3, <3>2, <3>3, BookedStays DEF Goes
  <2> QED BY <1>0, <1>6, <2>2, <2>3, QuietEffects
<1>7. ASSUME CheckEscrow(t) PROVE Booked(t)
  <2>1. PICK on \in {"publish", "escrowJournal"} : Is(t, {"escrow"}) /\ Goes(t, on)
    BY <1>0, <1>7, PostingEffects
  <2>2. Moved(t) /\ ~Is(t, Stakes) /\ On(task'[t]) \notin Stakes
    BY <2>1 DEF Goes, Turns, Moved, Is, Stakes
  <2>3. UNCHANGED <<escrow, job>>
    BY <1>7 DEF CheckEscrow, ministry
  <2>4. \A k \in Job : Backing(k)' = Backing(k)
    BY <2>3, BackingOnly
  <2> QED BY <2>2, <2>3, <2>4, BookedRests
<1>8. ASSUME Publish(t) PROVE Booked(t)
  <2>1. Is(t, {"publish"}) /\ Rests(t) /\ Only(Mine(t), "stage")
    BY <1>0, <1>8, PostingEffects
  <2>2. Moved(t) /\ ~Is(t, Stakes) /\ On(task'[t]) \notin Stakes
    BY <2>1 DEF Rests, Away, Moved, Is, Stakes
  <2>3. UNCHANGED escrow
    BY <1>8 DEF Publish, ministry
  <2>4. Mine(t) \in Job
    BY <2>1, HeldIsMine DEF Is, Working
  <2>5. \A k \in Job : Backing(k)' = Backing(k)
    BY <2>1, <2>4, BackingOnly
  <2> QED BY <2>2, <2>3, <2>5, BookedRests
<1> QED BY <1>1, <1>2, <1>3, <1>4, <1>5, <1>6, <1>7, <1>8

(* A step that shifts an amount between a row, a coroutine and the account.*)
LEMMA BookedShift ==
  ASSUME NEW t \in Task, NEW j \in Job, NEW b \in Int, NEW d \in Int,
         Moved(t), On(task'[t]) # "readLog", \A k \in Job \ {j} : job'[k] = job[k],
         Backing(j)' = Backing(j) + b, InEscrow(t)' = InEscrow(t) + d, escrow' = escrow + b + d
  PROVE  Booked(t)
<1>1. \A k \in Job \ {j} : Backing(k)' = Backing(k)
  BY DEF Backing
<1>2. Books(t, j, b, d)
  BY <1>1 DEF Books
<1> QED BY <1>2 DEF Booked

LEMMA BookedEscrow ==
  ASSUME Base, EndInv, [Next]_vars, late = {}, NEW t \in Task
  PROVE  EscrowJournal(t) \/ SaveEscrowed(t) => Booked(t)
<1>0. JobsInv /\ JobsInv' /\ escrow \in Int
  BY JobsNext DEF Base, JobsInv, MinistryType
<1>a. ASSUME NEW on, Goes(t, on)
      PROVE  Moved(t) /\ On(task'[t]) = on /\ task'[t].row = task[t].row
  BY <1>a DEF Goes, Turns, Moved
<1>1. ASSUME EscrowJournal(t) PROVE Booked(t)
  <2>1. /\ Is(t, {"escrowJournal"}) /\ Goes(t, "saveEscrowed")
        /\ escrow' = escrow + task[t].row.bonus /\ UNCHANGED job
    BY <1>0, <1>1, PostingEffects DEF EscrowJournal
  <2>2. PICK j \in Job, n \in Nat : j = Mine(t) /\ n = task[t].row.bonus
    BY <1>0, <2>1, HeldIsMine, Shape DEF Is, Working
  <2>3. InEscrow(t) = 0 /\ InEscrow(t)' = n
    BY <1>0, <1>a, <2>1, <2>2, InEscrowIs, InEscrowThen, PendingIs DEF Is, Stakes
  <2>4. Backing(j)' = Backing(j) + 0
    <3>1. Backing(j) \in Int
      BY Counts DEF Backing
    <3> QED BY <2>1, <3>1 DEF Backing
  <2>5. InEscrow(t)' = InEscrow(t) + n /\ escrow' = escrow + 0 + n
    BY <1>0, <2>1, <2>2, <2>3
  <2>6. Moved(t) /\ On(task'[t]) # "readLog" /\ \A k \in Job \ {j} : job'[k] = job[k]
    BY <1>a, <2>1
  <2> QED BY <2>4, <2>5, <2>6, BookedShift
<1>2. ASSUME SaveEscrowed(t) PROVE Booked(t)
  <2>1. /\ Is(t, {"saveEscrowed"}) /\ Goes(t, "publish") /\ Only(Mine(t), "escrowed")
        /\ job'[Mine(t)].escrowed = task[t].row.bonus /\ UNCHANGED escrow
    BY <1>0, <1>2, PostingEffects DEF SaveEscrowed, ministry
  <2>2. PICK j \in Job, n \in Nat : j = Mine(t) /\ n = task[t].row.bonus /\ Holds(t, j)
    BY <1>0, <2>1, HeldIsMine, Shape DEF Is, Working
  <2>3. InEscrow(t) = n /\ InEscrow(t)' = 0
    BY <1>0, <1>a, <2>1, <2>2, InEscrowIs, InEscrowThen, PendingIs DEF Is, Stakes
  <2>4. ~job[j].claimed /\ job[j].escrowed = 0
    BY <2>1, <2>2, ClaimedIs DEF Base, PlaceInv, PlaceOk, Is, Unposted, Unsaved
  <2>5. Backing(j)' = Backing(j) + n
    BY <2>1, <2>2, <2>4 DEF Backing, Only
  <2>6. PICK d \in Int : InEscrow(t)' = InEscrow(t) + d /\ escrow' = escrow + n + d
    <3>1. -n \in Int /\ InEscrow(t)' = InEscrow(t) + (-n) /\ escrow' = escrow + n + (-n)
      BY <1>0, <2>1, <2>3
    <3> QED BY <3>1
  <2>7. Moved(t) /\ On(task'[t]) # "readLog" /\ \A k \in Job \ {j} : job'[k] = job[k]
    BY <1>a, <2>1, <2>2 DEF Only
  <2> QED BY <2>5, <2>6, <2>7, BookedShift
<1> QED BY <1>1, <1>2

LEMMA BookedClaim ==
  ASSUME Base, EndInv, [Next]_vars, NEW t \in Task, ClaimJob(t)
  PROVE  Booked(t)
<1>0. JobsInv /\ JobsInv' /\ escrow \in Int /\ UNCHANGED escrow
  BY JobsNext DEF Base, JobsInv, MinistryType, ClaimJob, ministry
<1>1. Is(t, {"claim"})
  BY <1>0, ClaimEffects
<1>2. PICK j \in Job : j = Mine(t) /\ Holds(t, j)
  BY <1>1, HeldIsMine DEF Is, Working
<1>3. CASE job[j].claimed
  <2>1. Rests(t) /\ UNCHANGED job
    BY <1>0, <1>2, <1>3, ClaimEffects
  <2>2. Moved(t) /\ ~Is(t, Stakes) /\ On(task'[t]) \notin Stakes
    BY <1>1, <2>1 DEF Rests, Away, Moved, Is, Stakes
  <2>3. \A k \in Job : Backing(k)' = Backing(k)
    BY <2>1, BackingOnly
  <2> QED BY <1>0, <2>2, <2>3, BookedRests
<1>4. CASE ~job[j].claimed
  <2>1. Goes(t, "refresh") /\ Only(j, "claimed") /\ job'[j].claimed
    BY <1>0, <1>2, <1>4, ClaimEffects
  <2>2. PICK n \in Nat : n = job[j].escrowed
    BY Counts
  <2>3. Moved(t) /\ On(task'[t]) = "refresh" /\ task'[t].job = {j}
    BY <1>2, <2>1 DEF Goes, Turns, Holds, Moved
  <2>4. Mine(t)' = j
    BY <2>3 DEF Mine
  <2>5. job'[j].escrowed = n
    BY <2>1, <2>2 DEF Only
  <2>6. InEscrow(t) = 0 /\ InEscrow(t)' = n
    BY <1>0, <1>1, <2>3, <2>4, <2>5, InEscrowIs, InEscrowThen, PendingIs DEF Is, Stakes
  <2>7. InEscrow(t)' = InEscrow(t) + n
    BY <2>6
  <2>8. PICK b \in Int : Backing(j)' = Backing(j) + b /\ escrow' = escrow + b + n
    <3>1. -n \in Int /\ Backing(j)' = Backing(j) + (-n) /\ escrow' = escrow + (-n) + n
      BY <1>0, <1>4, <2>1, <2>2 DEF Backing
    <3> QED BY <3>1
  <2>9. \A k \in Job \ {j} : job'[k] = job[k]
    BY <2>1 DEF Only
  <2> QED BY <2>3, <2>7, <2>8, <2>9, BookedShift
<1> QED BY <1>3, <1>4

LEMMA BookedProcess ==
  ASSUME Base, [Next]_vars, NEW t \in Task, NEW i, ProcessDelivery(t, i)
  PROVE  Booked(t)
<1>0. JobsInv /\ UNCHANGED escrow
  BY DEF Base, ProcessDelivery, ministry
<1>1. /\ Is(t, {"deliver"}) /\ Only(Mine(t), "fulfilled")
      /\ Rests(t) \/ Turns(t, "claim", {Mine(t)}, NoJob, NoShares, {})
  BY <1>0, ProcessEffects
<1>2. Moved(t) /\ ~Is(t, Stakes) /\ On(task'[t]) \notin Stakes
  BY <1>1 DEF Rests, Turns, Away, Moved, Is, Stakes
<1>3. Mine(t) \in Job
  BY <1>1, HeldIsMine DEF Is, Working
<1>4. \A k \in Job : Backing(k)' = Backing(k)
  BY <1>1, <1>3, BackingOnly
<1> QED BY <1>0, <1>2, <1>4, BookedRests

ReadsFull == \A t \in Task : Is(t, {"readLog"}) => task[t].row.fulfilled # 0

(* A job without an escrow of its own leaves none in the account.          *)
LEMMA NoEscrow ==
  ASSUME NEW row \in Row, Sound(row), row.bonus = 0 \/ ~row.funded
  PROVE  row.escrowed = 0
BY DEF Sound, Row

LEMMA BookedSettle ==
  ASSUME Base, EndInv, FulfilledInv, ReadsFull, [Next]_vars, late = {}, forced = {},
         NEW t \in Task
  PROVE  /\ RefreshJob(t) \/ ReadDeliveries(t) \/ SpendJobEscrow(t) => Booked(t)
         /\ GrantRebate(t) \/ BoostTemplate(t) => Booked(t)
         /\ \A c \in Character : PayContributor(t, c) => Booked(t)
<1>0. JobsInv /\ JobsInv' /\ escrow \in Int
  BY JobsNext DEF Base, JobsInv, MinistryType
<1>a. ASSUME Is(t, Settling)
      PROVE  \E j \in Job : /\ j = Mine(t) /\ Holds(t, j) /\ Posted(j) /\ Sound(job[j])
                            /\ job[j] \in Row /\ job[j].claimed
                            /\ job[j].fulfilled \in Nat \ {0}
                            /\ (~Is(t, {"refresh"}) => Fits(task[t].row, j))
  <2>1. PICK j \in Job : j = Mine(t) /\ Holds(t, j) /\ Posted(j) /\ Sound(job[j])
                         /\ job[j] \in Row
    BY <1>a, HeldIsMine DEF Is, Working, Settling
  <2>2. job[j].claimed
    BY <1>a, <2>1 DEF EndInv, SettleInv
  <2>3. job[j].fulfilled \in Nat \ {0}
    BY <2>2, ClaimedIs
  <2>4. ~Is(t, {"refresh"}) => Fits(task[t].row, j)
    BY <1>a, <2>1 DEF Base, CopyInv, CopyOk, Is, Settling, Copying
  <2> QED BY <2>1, <2>2, <2>3, <2>4
<1>b. ASSUME UNCHANGED job PROVE \A k \in Job : Backing(k)' = Backing(k)
  BY <1>b, BackingOnly
<1>1. ASSUME RefreshJob(t) PROVE Booked(t)
  <2>1. Is(t, {"refresh"}) /\ UNCHANGED <<escrow, job>>
    BY <1>0, <1>1, SettleEffects DEF RefreshJob, ministry
  <2>2. PICK j \in Job : /\ j = Mine(t) /\ Sound(job[j]) /\ job[j] \in Row
                         /\ job[j].fulfilled \in Nat \ {0}
    BY <1>a, <2>1 DEF Is, Settling
  <2>3. InEscrow(t) = job[j].escrowed
    BY <1>0, <2>1, <2>2, InEscrowIs, PendingIs DEF Is
  <2>4. CASE Rests(t) /\ job[j].bonus = 0
    <3>1. InEscrow(t) = 0
      BY <2>2, <2>3, <2>4, NoEscrow
    <3>2. Moved(t) /\ On(task'[t]) \notin Stakes
      BY <2>4 DEF Rests, Away, Moved, Stakes
    <3>3. InEscrow(t)' = 0
      BY <1>0, <3>2, InEscrowThen, PendingIs
    <3> QED BY <1>b, <2>1, <3>1, <3>2, <3>3 DEF Booked, Stakes
  <2>5. CASE Turns(t, "readLog", task[t].job, job[j], task[t].due, task[t].todo)
    <3>1. Moved(t) /\ On(task'[t]) = "readLog" /\ task'[t].row = job[j]
      BY <2>5 DEF Turns, Moved
    <3>2. InEscrow(t)' = job[j].escrowed
      BY <1>0, <3>1, InEscrowThen, PendingIs
    <3> QED BY <1>b, <2>1, <2>2, <2>3, <3>1, <3>2 DEF Booked
  <2> QED BY <1>0, <1>1, <2>2, <2>4, <2>5, SettleEffects
<1>2. ASSUME ReadDeliveries(t) PROVE Booked(t)
  <2>1. Is(t, {"readLog"}) /\ UNCHANGED <<escrow, job>>
    BY <1>0, <1>2, SettleEffects DEF ReadDeliveries, ministry
  <2>2. PICK j \in Job : j = Mine(t) /\ job[j].fulfilled \in Nat \ {0} /\ job[j] \in Row
    BY <1>a, <2>1 DEF Is, Settling
  <2>3. log[j] # <<>>
    BY <2>2, NothingDelivered DEF FulfilledInv, Delivered, Least, Row
  <2>4. task[t].row.fulfilled # 0
    BY <2>1 DEF ReadsFull
  <2>5. PICK due : Turns(t, "paying", task[t].job, task[t].row, due, task[t].todo)
    BY <1>0, <1>2, <2>2, <2>3, <2>4, SettleEffects
  <2>6. Moved(t) /\ On(task'[t]) = "paying" /\ task'[t].row = task[t].row
    BY <2>5 DEF Turns, Moved
  <2>7. InEscrow(t)' = InEscrow(t)
    BY <1>0, <2>1, <2>6, InEscrowIs, InEscrowThen, PendingIs DEF Is
  <2> QED BY <1>b, <2>1, <2>6, <2>7 DEF Booked
<1>3. ASSUME SpendJobEscrow(t) PROVE Booked(t)
  <2>1. /\ Is(t, {"paying"}) /\ escrow' = escrow - task[t].row.escrowed /\ UNCHANGED job
    BY <1>0, <1>3, SettleEffects DEF SpendJobEscrow
  <2>2. PICK j \in Job, n \in Nat : j = Mine(t) /\ n = task[t].row.escrowed
    BY <1>0, <1>a, <2>1, Shape DEF Is, Settling
  <2>3. PICK on \in {"rebate", "boost"} : Goes(t, on)
    BY <1>0, <1>3, SettleEffects
  <2>4. Moved(t) /\ On(task'[t]) = on
    BY <2>3 DEF Goes, Turns, Moved
  <2>5. InEscrow(t) = n /\ InEscrow(t)' = 0
    BY <1>0, <2>1, <2>2, <2>4, InEscrowIs, InEscrowThen, PendingIs DEF Is, Stakes
  <2>6. Backing(j)' = Backing(j) + 0
    <3>1. Backing(j) \in Int
      BY Counts DEF Backing
    <3> QED BY <2>1, <3>1 DEF Backing
  <2>7. PICK d \in Int : InEscrow(t)' = InEscrow(t) + d /\ escrow' = escrow + 0 + d
    <3>1. -n \in Int /\ InEscrow(t)' = InEscrow(t) + (-n) /\ escrow' = escrow + 0 + (-n)
      BY <1>0, <2>1, <2>2, <2>5
    <3> QED BY <3>1
  <2> QED BY <2>1, <2>4, <2>6, <2>7, BookedShift
<1>4. ASSUME GrantRebate(t) PROVE Booked(t)
  <2>1. Is(t, {"rebate"}) /\ Goes(t, "boost") /\ UNCHANGED <<escrow, job>>
    BY <1>0, <1>4, SettleEffects DEF GrantRebate
  <2>2. Moved(t) /\ ~Is(t, Stakes) /\ On(task'[t]) \notin Stakes
    BY <2>1 DEF Goes, Turns, Moved, Is, Stakes
  <2> QED BY <1>b, <2>1, <2>2, BookedRests
<1>5. ASSUME BoostTemplate(t) PROVE Booked(t)
  <2>1. /\ Is(t, {"boost"}) \/ (Is(t, {"paying"}) /\ ~task[t].row.funded)
        /\ Rests(t) /\ Only(Mine(t), "completions") /\ UNCHANGED escrow
    BY <1>0, <1>5, SettleEffects DEF BoostTemplate, ministry
  <2>2. PICK j \in Job : j = Mine(t) /\ Fits(task[t].row, j)
    BY <1>a, <2>1 DEF Is, Settling
  <2>3. \A k \in Job : Backing(k)' = Backing(k)
    BY <2>1, <2>2, BackingOnly
  <2>4. Moved(t) /\ On(task'[t]) \notin Stakes
    BY <2>1 DEF Rests, Away, Moved, Stakes
  <2>5. InEscrow(t) = 0
    <3>1. CASE Is(t, {"boost"})
      BY <1>0, <3>1, InEscrowIs, PendingIs DEF Is, Stakes
    <3>2. CASE Is(t, {"paying"}) /\ ~task[t].row.funded
      <4>1. task[t].row.escrowed = 0
        BY <2>2, <3>2, NoEscrow DEF Fits
      <4> QED BY <1>0, <3>2, <4>1, InEscrowIs, PendingIs DEF Is
    <3> QED BY <2>1, <3>1, <3>2
  <2>6. InEscrow(t)' = 0
    BY <1>0, <2>4, InEscrowThen, PendingIs
  <2> QED BY <2>1, <2>3, <2>4, <2>5, <2>6 DEF Booked, Stakes
<1>6. ASSUME NEW c \in Character, PayContributor(t, c) PROVE Booked(t)
  <2>1. /\ Is(t, {"paying", "payingPartial"})
        /\ \E due : Turns(t, On(task[t]), task[t].job, task[t].row, due, task[t].todo)
        /\ UNCHANGED <<escrow, job>>
    BY <1>0, <1>6, SettleEffects DEF PayContributor, ministry
  <2> QED BY <1>b, <2>1, BookedStays DEF Is
<1> QED BY <1>1, <1>2, <1>3, <1>4, <1>5, <1>6

LEMMA BookedCleanup ==
  ASSUME Base, EndInv, [Next]_vars, late = {}, NEW t \in Task, CleanupStep(t)
  PROVE  Booked(t)
<1>0. JobsInv /\ JobsInv' /\ escrow \in Int
  BY JobsNext DEF Base, JobsInv, MinistryType
<1>b. ASSUME UNCHANGED job PROVE \A k \in Job : Backing(k)' = Backing(k)
  BY <1>b, BackingOnly
<1>c. ASSUME NEW f \in {"bonus", "completions", "expirations"}, Only(Mine(t), f), Is(t, Working)
      PROVE  \A k \in Job : Backing(k)' = Backing(k)
  <2>1. Mine(t) \in Job
    BY <1>c, HeldIsMine
  <2> QED BY <1>c, <2>1, BackingOnly
<1>1. ASSUME NEW r \in task[t].todo, ExpireEscrow(t, r) PROVE Booked(t)
  <2>1. /\ Is(t, {"expiredFunded"}) /\ UNCHANGED job
        /\ Turns(t, "zeroEscrow", r.job, r.row, task[t].due, task[t].todo \ {r})
        /\ escrow' = escrow - r.row.escrowed
    BY <1>0, <1>1, ExpireEscrowEffects DEF ExpireEscrow
  <2>2. PICK j \in Job, n \in Nat : n = r.row.escrowed
    BY TodoRows
  <2>3. Moved(t) /\ On(task'[t]) = "zeroEscrow" /\ task'[t].row = r.row
    BY <2>1 DEF Turns, Moved
  <2>4. InEscrow(t) = 0 /\ InEscrow(t)' = -n
    BY <1>0, <2>1, <2>2, <2>3, InEscrowIs, InEscrowThen, PendingIs DEF Is, Stakes
  <2>5. Backing(j)' = Backing(j) + 0
    <3>1. Backing(j) \in Int
      BY Counts DEF Backing
    <3> QED BY <2>1, <3>1 DEF Backing
  <2>6. PICK d \in Int : InEscrow(t)' = InEscrow(t) + d /\ escrow' = escrow + 0 + d
    <3>1. -n \in Int /\ InEscrow(t)' = InEscrow(t) + (-n) /\ escrow' = escrow + 0 + (-n)
      BY <1>0, <2>1, <2>2, <2>4
    <3> QED BY <3>1
  <2>7. On(task'[t]) # "readLog" /\ \A k \in Job \ {j} : job'[k] = job[k]
    BY <2>1, <2>3
  <2> QED BY <2>3, <2>5, <2>6, <2>7, BookedShift
<1>2. ASSUME ZeroEscrow(t) PROVE Booked(t)
  <2>1. /\ Is(t, {"zeroEscrow"}) /\ Goes(t, "decayFunded") /\ Only(Mine(t), "escrowed")
        /\ job'[Mine(t)].escrowed = 0 /\ UNCHANGED escrow
    BY <1>0, <1>2, CleanupEffects DEF ZeroEscrow, ministry
  <2>2. PICK j \in Job, n \in Nat : j = Mine(t) /\ Holds(t, j) /\ n = job[j].escrowed
    BY <2>1, HeldIsMine, Counts DEF Is, Working
  <2>3. ~job[j].claimed /\ task[t].row.escrowed = n
    BY <2>1, <2>2 DEF EndInv, RefundInv, RefundOk, Refundable, Stale
  <2>4. Moved(t) /\ On(task'[t]) = "decayFunded"
    BY <2>1 DEF Goes, Turns, Moved
  <2>5. InEscrow(t) = -n /\ InEscrow(t)' = 0
    BY <1>0, <2>1, <2>3, <2>4, InEscrowIs, InEscrowThen, PendingIs DEF Is, Stakes
  <2>6. InEscrow(t)' = InEscrow(t) + n
    BY <2>5
  <2>7. PICK b \in Int : Backing(j)' = Backing(j) + b /\ escrow' = escrow + b + n
    <3>1. -n \in Int /\ Backing(j)' = Backing(j) + (-n) /\ escrow' = escrow + (-n) + n
      BY <1>0, <2>1, <2>2, <2>3 DEF Backing, Only
    <3> QED BY <3>1
  <2>8. On(task'[t]) # "readLog" /\ \A k \in Job \ {j} : job'[k] = job[k]
    BY <2>1, <2>2, <2>4 DEF Only
  <2> QED BY <2>4, <2>6, <2>7, <2>8, BookedShift
<1>3. ASSUME NEW r \in task[t].todo, ReadPartial(t, r) PROVE Booked(t)
  <2>1. PICK j \in Job : r.job = {j}
    BY TodoRows
  <2>2. PICK due : due = PartialDue(r, j)
    OBVIOUS
  <2>3. PICK on \in {"payingPartial", "penalty"} :
          Is(t, {"expiredUnfunded"}) /\ \E todo : Turns(t, on, {j}, r.row, due, todo)
    BY <1>0, <1>3, <2>1, <2>2, PartialEffects
  <2>4. Moved(t) /\ ~Is(t, Stakes) /\ On(task'[t]) \notin Stakes
    BY <2>3 DEF Turns, Moved, Is, Stakes
  <2>5. UNCHANGED <<escrow, job>>
    BY <1>3 DEF ReadPartial, ministry
  <2> QED BY <1>b, <2>4, <2>5, BookedRests
<1>4. ASSUME DecayTemplate(t) PROVE Booked(t)
  <2>1. /\ Is(t, {"decayFunded", "decayUnfunded"}) /\ Only(Mine(t), "expirations")
        /\ \E on \in {"expiredFunded", "expiredUnfunded"} : \E todo :
             Turns(t, on, {}, NoJob, NoShares, todo)
    BY <1>0, <1>4, CleanupEffects DEF Is
  <2>2. Moved(t) /\ ~Is(t, Stakes) /\ On(task'[t]) \notin Stakes
    BY <2>1 DEF Turns, Moved, Is, Stakes
  <2>3. UNCHANGED escrow
    BY <1>4 DEF DecayTemplate, ministry
  <2>4. Is(t, Working)
    BY <2>1 DEF Is, Working
  <2> QED BY <1>c, <2>1, <2>2, <2>3, <2>4, BookedRests
<1>5. ASSUME QueryUnfunded(t) PROVE Booked(t)
  <2>1. PICK todo : Is(t, {"expiredFunded"})
                    /\ Turns(t, "expiredUnfunded", {}, NoJob, NoShares, todo)
    BY <1>0, <1>5, QueryEffects
  <2>2. Moved(t) /\ ~Is(t, Stakes) /\ On(task'[t]) \notin Stakes
    BY <2>1 DEF Turns, Moved, Is, Stakes
  <2>3. UNCHANGED <<escrow, job>>
    BY <1>5 DEF QueryUnfunded, ministry
  <2> QED BY <1>b, <2>2, <2>3, BookedRests
<1>6. ASSUME BoostPartial(t) \/ ZeroBonus(t) PROVE Booked(t)
  <2>1. /\ Is(t, {"payingPartial", "zeroBonus"})
        /\ \E on \in {"penalty", "decayUnfunded"} : Goes(t, on)
        /\ \E f \in {"bonus", "completions"} : Only(Mine(t), f)
    BY <1>0, <1>6, CleanupEffects DEF Is
  <2>2. Moved(t) /\ ~Is(t, Stakes) /\ On(task'[t]) \notin Stakes
    BY <2>1 DEF Goes, Turns, Moved, Is, Stakes
  <2>3. UNCHANGED escrow
    BY <1>6 DEF BoostPartial, ZeroBonus, ministry
  <2>4. Is(t, Working)
    BY <2>1 DEF Is, Working
  <2> QED BY <1>c, <2>1, <2>2, <2>3, <2>4, BookedRests
<1>7. ASSUME Penalize(t) PROVE Booked(t)
  <2>1. Is(t, {"penalty"}) /\ \E on \in {"zeroBonus", "decayUnfunded"} : Goes(t, on)
    BY <1>0, <1>7, CleanupEffects
  <2>2. Moved(t) /\ ~Is(t, Stakes) /\ On(task'[t]) \notin Stakes
    BY <2>1 DEF Goes, Turns, Moved, Is, Stakes
  <2>3. UNCHANGED <<escrow, job>>
    BY <1>7 DEF Penalize, ministry
  <2> QED BY <1>b, <2>2, <2>3, BookedRests
<1>8. ASSUME EndCleanup(t) PROVE Booked(t)
  <2>1. Is(t, {"expiredUnfunded"}) /\ Rests(t)
    BY <1>0, <1>8, QuietEffects
  <2>2. Moved(t) /\ ~Is(t, Stakes) /\ On(task'[t]) \notin Stakes
    BY <2>1 DEF Rests, Away, Moved, Is, Stakes
  <2>3. UNCHANGED <<escrow, job>>
    BY <1>8 DEF EndCleanup, ministry
  <2> QED BY <1>b, <2>2, <2>3, BookedRests
<1> QED BY <1>1, <1>2, <1>3, <1>4, <1>5, <1>6, <1>7, <1>8 DEF CleanupStep

BooksInv == Calmly => Balanced /\ ReadsFull

LEMMA BookSteps ==
  ASSUME Base, EndInv, FulfilledInv, ReadsFull, [Next]_vars, late' = {}, forced' = {},
         crashes' = 0
  PROVE  \/ UNCHANGED <<escrow, task>> /\ \A j \in Job : Backing(j)' = Backing(j)
         \/ \E t \in Task : Booked(t)
<1>0. late = {} /\ forced = {} /\ crashes = 0
  BY LateSteps
<1>1. CASE UNCHANGED vars
  BY <1>1, BackingOnly DEF vars, ministry
<1>2. ASSUME NEW t \in Task, Start(t) PROVE Booked(t)
  <2>1. \A j \in Job : ~FinishJob(t, j)
    BY DEF FinishJob
  <2> QED BY <1>0, <1>2, <2>1, BookedPosting DEF Start
<1>3. ASSUME NEW t \in Task, PostingStep(t) PROVE Booked(t)
  BY <1>0, <1>3, BookedPosting, BookedEscrow DEF PostingStep
<1>4. ASSUME NEW t \in Task, DeliveryStep(t) PROVE Booked(t)
  BY <1>0, <1>4, BookedProcess, BookedClaim, BookedSettle DEF DeliveryStep
<1>5. ASSUME NEW t \in Task, CleanupStep(t) PROVE Booked(t)
  BY <1>0, <1>5, BookedCleanup
<1>6. ASSUME NEW t \in Task, Crash(t) PROVE FALSE
  BY <1>0, <1>6 DEF Crash
<1>7. ASSUME NEW j \in Job, Expire(j)
      PROVE  UNCHANGED <<escrow, task>> /\ \A k \in Job : Backing(k)' = Backing(k)
  <2>1. Only(j, "expired")
    BY <1>7, ExpireEffects DEF Base
  <2>2. \A k \in Job : Backing(k)' = Backing(k)
    BY <2>1, BackingOnly
  <2> QED BY <1>7, <2>2 DEF Expire, ministry
<1> QED BY <1>1, <1>2, <1>3, <1>4, <1>5, <1>6, <1>7 DEF Next, Step

LEMMA BooksKept ==
  ASSUME Base, Base', EndInv, FulfilledInv, BooksInv, [Next]_vars
  PROVE  BooksInv'
<1> SUFFICES ASSUME Calmly' PROVE Balanced' /\ ReadsFull'
  BY DEF BooksInv
<1>0. /\ late' = {} /\ forced' = {} /\ crashes' = 0
      /\ late = {} /\ forced = {} /\ crashes = 0 /\ Balanced /\ ReadsFull
  BY LateSteps DEF Calmly, BooksInv
<1>a. ASSUME NEW u \in Task, task'[u] = task[u] PROVE InEscrow(u)' = InEscrow(u)
  BY <1>0, <1>a, PendingKept
<1>1. CASE UNCHANGED <<escrow, task>> /\ \A j \in Job : Backing(j)' = Backing(j)
  <2>1. ReadsFull'
    BY <1>0, <1>1 DEF ReadsFull, Is
  <2>2. \A u \in Task : InEscrow(u)' = InEscrow(u)
    BY <1>1, <1>a
  <2> QED BY <1>0, <1>1, <2>1, <2>2, BalancedRests
<1>2. ASSUME NEW t \in Task, Booked(t) PROVE Balanced' /\ ReadsFull'
  <2>1. \A u \in Task \ {t} : task'[u] = task[u]
    BY <1>2 DEF Booked, Moved
  <2>2. ReadsFull'
    BY <1>0, <1>2, <2>1 DEF ReadsFull, Is, Booked
  <2>3. \A u \in Task \ {t} : InEscrow(u)' = InEscrow(u)
    BY <1>a, <2>1
  <2>4. CASE /\ UNCHANGED escrow /\ InEscrow(t)' = InEscrow(t)
             /\ \A j \in Job : Backing(j)' = Backing(j)
    <3>1. \A u \in Task : InEscrow(u)' = InEscrow(u)
      BY <2>3, <2>4
    <3> QED BY <1>0, <2>2, <2>4, <3>1, BalancedRests
  <2>5. ASSUME NEW j \in Job, NEW b \in Int, NEW d \in Int, Books(t, j, b, d) PROVE Balanced'
    BY <1>0, <2>3, <2>5, BalancedMoves DEF Books
  <2> QED BY <1>2, <2>2, <2>4, <2>5 DEF Booked
<1> QED BY <1>0, <1>1, <1>2, BookSteps

LEMMA BooksInit == Init => BooksInv
<1> SUFFICES ASSUME Init PROVE Balanced /\ ReadsFull
  BY DEF BooksInv
<1>1. \A t \in Task : On(task[t]) = "idle" /\ InEscrow(t) = 0
  <2> TAKE t \in Task
  <2>1. task[t].at = "idle" /\ task[t].next = "idle"
    BY DEF Init, Idle
  <2> QED BY <2>1 DEF On, InEscrow
<1>2. \A j \in Job : Backing(j) = 0
  BY DEF Init, NoJob, Backing
<1> DEFINE B == [j \in Job |-> Backing(j)]
           P == [t \in Task |-> InEscrow(t)]
<1>3. /\ DOMAIN B = Job /\ \A j \in Job : B[j] = 0
      /\ DOMAIN P = Task /\ \A t \in Task : P[t] = 0
      /\ IsFiniteSet(Job) /\ IsFiniteSet(Task)
      /\ (Balanced <=> escrow = SumFunction(B) + SumFunction(P))
  BY <1>1, <1>2, JobsAssumption DEF Balanced
<1> HIDE DEF B, P
<1>4. SumFunction(B) = 0 /\ SumFunction(P) = 0
  BY <1>3, SumZero DEF SumFunction
<1>5. escrow = 0
  BY DEF Init, MinistryInit
<1> QED BY <1>1, <1>3, <1>4, <1>5 DEF ReadsFull, Is

(* The escrow account holds exactly what stands behind the jobs still to   *)
(* be settled and what the coroutines are about to write or to move.       *)
THEOREM EscrowIsBacked == Spec => []EscrowBacksJobs
<1>1. Init => Base /\ EndInv /\ FulfilledInv /\ BooksInv
  BY BaseInit, EndInit, FulfilledInit, BooksInit
<1>2. Base /\ EndInv /\ FulfilledInv /\ BooksInv /\ [Next]_vars
        => (Base /\ EndInv /\ FulfilledInv /\ BooksInv)'
  <2>1. Base /\ EndInv /\ FulfilledInv /\ [Next]_vars => (Base /\ EndInv /\ FulfilledInv)'
    BY BaseNext, EndNext, FulfilledNext
  <2>2. Base /\ Base' /\ EndInv /\ FulfilledInv /\ BooksInv /\ [Next]_vars => BooksInv'
    BY BooksKept
  <2> QED BY <2>1, <2>2
<1>3. BooksInv => EscrowBacksJobs
  BY DEF BooksInv, Calmly, Balanced, Backing, EscrowBacksJobs
<1> QED BY <1>1, <1>2, <1>3, PTL DEF Spec
==============================================================================
