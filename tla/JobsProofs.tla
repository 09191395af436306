----------------------------- MODULE JobsProofs -----------------------------
(***************************************************************************)
(* Proofs about Jobs, for all jobs, contributors, coroutines and bounds:   *)
(* the state stays well typed, a funded job grants its bonus at most once, *)
(* the deliveries of a fulfilled job are in its log, and what is granted   *)
(* stays within what was promised, although the deliveries, the expiry and *)
(* the deaths of coroutines interleave freely.                             *)
(*                                                                         *)
(* The claim is the conditional update of one row, so the argument is not  *)
(* about that row but about what coroutines carry: whoever is about to     *)
(* write to a job was given a posted one, whoever is about to claim saw it *)
(* full (and full it stays), and the rows that the second cleanup query    *)
(* returned have no funding term, which never changes after posting.       *)
(*                                                                         *)
(* The second half looks at coroutines one step further: what is left of   *)
(* one that takes the detour through the ministry's term (On), and what a  *)
(* step does to the rows, to the log and to what a coroutine still owes.   *)
(***************************************************************************)
EXTENDS Jobs, SequenceTheorems, SumProofs

Held == {{}} \cup {{j} : j \in Job}

(* Where a coroutine works on the job it holds.                            *)
Working == {"escrow", "escrowJournal", "saveEscrowed", "publish", "deliver",
            "claim", "refresh", "readLog", "paying", "rebate", "boost",
            "zeroEscrow", "decayFunded", "payingPartial", "penalty",
            "zeroBonus", "decayUnfunded"}

AfterTerm == {"idle", "saveEscrowed", "boost", "zeroEscrow"}

Booking == {"readTerm", "saveTerm"}

Unfunded == {"expiredUnfunded", "payingPartial", "penalty", "zeroBonus",
             "decayUnfunded"}

Posted(j) == job[j].stage # "unposted"
Full(j)   == job[j].fulfilled = job[j].requested

Shaped(s) ==
  /\ s = [at |-> s.at, next |-> s.next, job |-> s.job, who |-> s.who,
          amt |-> s.amt, read |-> s.read, row |-> s.row, due |-> s.due,
          todo |-> s.todo, loop |-> s.loop]
  /\ s.at \in At /\ s.next \in AfterTerm /\ s.job \in Held
  /\ s.next # "idle" => s.at \in Booking
  /\ s.amt \in Int /\ s.read \in Int /\ s.row \in Row

Carries(s) ==
  /\ Shaped(s)
  /\ s.at \in Working \/ s.next # "idle"
       => \E j \in Job : s.job = {j} /\ Posted(j) /\ (s.at = "claim" => Full(j))
  /\ s.at = "deliver" => s.amt \in Quantity /\ \E c \in Character : s.who = {c}
  /\ \A r \in s.todo :
       /\ r.row \in Row
       /\ \E j \in Job : /\ r.job = {j} /\ Posted(j)
                         /\ s.at \in Unfunded => ~job[j].funded

TaskInv == DOMAIN task = Task /\ \A t \in Task : Carries(task[t])

JobInv ==
  /\ DOMAIN job = Job
  /\ \A j \in Job :
       /\ job[j] \in Row
       /\ job[j].fulfilled <= job[j].requested
       /\ job[j].claimed => Full(j)

LogInv == DOMAIN log = Job /\ \A j \in Job : log[j] \in Seq([who : Character, qty : Quantity])

GrantInv ==
  /\ granted \in [Job -> Nat] /\ late \subseteq Job /\ forced \subseteq Job
  /\ \A j \in Job \ forced :
       job[j].funded => granted[j] = IF job[j].claimed THEN job[j].promise ELSE 0
  /\ \A j \in Job : ~Posted(j) => granted[j] = 0 /\ ~job[j].claimed

CountInv == deliveries \in Nat /\ spends \in Nat /\ crashes \in Nat

JobsInv == MinistryType /\ JobInv /\ LogInv /\ TaskInv /\ GrantInv /\ CountInv

-----------------------------------------------------------------------------
(* What every step does to a posted job.                                   *)
Evolves ==
  \A j \in Job : Posted(j) =>
    Posted(j)' /\ job'[j].funded = job[j].funded /\ (Full(j) => Full(j)')

LEMMA NoJobIsRow == NoJob \in Row
BY DEF NoJob, Row

(* A coroutine keeps what it carries while others write.                   *)
LEMMA OthersCarry ==
  ASSUME TaskInv, Evolves, NEW t \in Task
  PROVE  Carries(task[t])'
         \/ task'[t] # task[t]
BY DEF TaskInv, Evolves, Carries, Shaped

LEMMA BecomesKeeps ==
  ASSUME TaskInv, Evolves, NEW t \in Task, NEW s, Becomes(t, s), Carries(task[t])'
  PROVE  TaskInv'
BY OthersCarry DEF TaskInv, Becomes

LEMMA DoneKeeps ==
  ASSUME TaskInv, Evolves, NEW t \in Task, Done(t)
  PROVE  TaskInv'
<1>1. task'[t] = Idle
  BY DEF TaskInv, Done, Becomes
<1>2. Carries(task[t])'
  BY <1>1, NoJobIsRow DEF Carries, Shaped, Idle, At, AfterTerm, Held, Working
<1> QED BY <1>2, BecomesKeeps DEF Done

(* The job a coroutine works on is a posted one.                           *)
LEMMA MineIsPosted ==
  ASSUME TaskInv, NEW t \in Task, task[t].at \in Working \/ task[t].next # "idle"
  PROVE  /\ Mine(t) \in Job /\ task[t].job = {Mine(t)} /\ Posted(Mine(t))
         /\ task[t].at = "claim" => Full(Mine(t))
<1>1. PICK j \in Job : /\ task[t].job = {j} /\ Posted(j)
                       /\ task[t].at = "claim" => Full(j)
  BY DEF TaskInv, Carries
<1>2. Mine(t) \in Job /\ task[t].job = {Mine(t)}
  BY <1>1 DEF Mine
<1>3. Mine(t) = j
  BY <1>1, <1>2
<1> QED BY <1>1, <1>2, <1>3

(* A coroutine that moves on keeps what it holds.                          *)
LEMMA MovesOn ==
  ASSUME TaskInv, Evolves, NEW t \in Task, NEW at \in At \ {"claim", "deliver"},
         task[t].at \in Working \/ task[t].next # "idle" \/ at \notin Working,
         at \in Unfunded => task[t].at \in Unfunded, task[t].at \notin Booking,
         Goto(t, at)
  PROVE  TaskInv'
<1> DEFINE s == [task[t] EXCEPT !.at = at]
<1>1. Carries(task[t])
  BY DEF TaskInv
<1>2. /\ s.at = at /\ s.next = task[t].next /\ s.job = task[t].job
      /\ s.amt = task[t].amt /\ s.read = task[t].read /\ s.row = task[t].row
      /\ s.todo = task[t].todo
      /\ s = [at |-> s.at, next |-> s.next, job |-> s.job, who |-> s.who,
              amt |-> s.amt, read |-> s.read, row |-> s.row, due |-> s.due,
              todo |-> s.todo, loop |-> s.loop]
  BY <1>1 DEF Carries, Shaped
<1>2b. task[t].next = "idle"
  BY <1>1 DEF Carries, Shaped
<1>3. task' = [task EXCEPT ![t] = s]
  BY DEF Goto, Becomes
<1> HIDE DEF s
<1>4. task'[t] = s /\ \A u \in Task \ {t} : task'[u] = task[u]
  BY <1>3 DEF TaskInv
<1>5. Carries(task[t])'
  BY <1>1, <1>2, <1>2b, <1>4 DEF Carries, Shaped, Evolves
<1>6. DOMAIN task' = Task /\ \A u \in Task \ {t} : Carries(task[u])'
  BY <1>3, <1>4, OthersCarry DEF TaskInv
<1> QED BY <1>5, <1>6 DEF TaskInv

(* A write that keeps a posted job posted, its funding and its fullness.   *)
LEMMA WriteKeeps ==
  ASSUME JobInv, NEW j \in Job, NEW row \in Row, Write(j, row),
         row.fulfilled <= row.requested,
         row.claimed => row.fulfilled = row.requested,
         Posted(j) => /\ row.stage # "unposted" /\ row.funded = job[j].funded
                      /\ Full(j) => row.fulfilled = row.requested
  PROVE  JobInv' /\ Evolves
<1>1. job'[j] = row /\ DOMAIN job' = Job /\ \A k \in Job \ {j} : job'[k] = job[k]
  BY DEF JobInv, Write
<1>2. JobInv'
  BY <1>1 DEF JobInv, Full
<1>3. Evolves
  BY <1>1 DEF Evolves, Posted, Full
<1> QED BY <1>2, <1>3

(* ... and that leaves alone what its grants depend on.                    *)
LEMMA GrantsKept ==
  ASSUME JobInv, GrantInv, NEW j \in Job, NEW row, Write(j, row), Posted(j),
         row.stage # "unposted", row.funded = job[j].funded,
         row.claimed = job[j].claimed, row.promise = job[j].promise,
         UNCHANGED <<granted, late, forced>>
  PROVE  GrantInv'
<1>1. job'[j] = row /\ \A k \in Job \ {j} : job'[k] = job[k]
  BY DEF JobInv, Write
<1> QED BY <1>1 DEF GrantInv, Posted

(* A step that leaves the jobs and the grants alone.                       *)
LEMMA QuietKeeps ==
  ASSUME JobsInv, UNCHANGED <<job, granted, late, forced>>
  PROVE  JobInv' /\ Evolves /\ GrantInv'
BY DEF JobsInv, JobInv, Evolves, GrantInv, Full, Posted

(* The same job, with one field of its row written.                        *)
Touched(row, old) ==
  /\ row \in Row
  /\ row.stage # "unposted" /\ row.funded = old.funded /\ row.claimed = old.claimed
  /\ row.promise = old.promise /\ row.requested = old.requested
  /\ row.fulfilled = old.fulfilled

LEMMA TouchKeeps ==
  ASSUME JobsInv, NEW j \in Job, NEW row, Write(j, row), Posted(j),
         Touched(row, job[j]), UNCHANGED <<granted, late, forced>>
  PROVE  JobInv' /\ Evolves /\ GrantInv'
<1>1. JobInv /\ GrantInv /\ row \in Row
  BY DEF JobsInv, Touched
<1>2. /\ row.fulfilled <= row.requested
      /\ row.claimed => row.fulfilled = row.requested
      /\ Full(j) => row.fulfilled = row.requested
  BY <1>1 DEF Touched, JobInv, Full
<1>3. JobInv' /\ Evolves
  BY <1>1, <1>2, WriteKeeps DEF Touched
<1>4. GrantInv'
  BY <1>1, GrantsKept DEF Touched
<1> QED BY <1>3, <1>4

LEMMA CutIsPart == \A n \in Nat : Rebate(n) \in Nat /\ Refund(n) \in Nat
BY DEF Rebate, Refund

(* The ministry's accounts stay integers.                                  *)
LEMMA MinistryKept ==
  ASSUME MinistryType
  PROVE  /\ \A n \in Nat : \/ MoveToEscrow(n) \/ SpendEscrow(n) \/ ReceiveRebate(n)
                           \/ RefundEscrow(n) \/ SpendSubsidy(n) => MinistryType'
         /\ \A n \in Int : RecordBudget(n) => MinistryType'
         /\ TakeOffice \/ AllocateBudget \/ UNCHANGED ministry => MinistryType'
<1>1. ASSUME NEW n \in Nat,
             MoveToEscrow(n) \/ SpendEscrow(n) \/ ReceiveRebate(n)
             \/ RefundEscrow(n) \/ SpendSubsidy(n)
      PROVE  MinistryType'
  <2>1. Rebate(n) \in Int /\ Refund(n) \in Int
    BY CutIsPart
  <2>2. CASE MoveToEscrow(n)  BY <2>2 DEF MinistryType, MoveToEscrow
  <2>3. CASE SpendEscrow(n)  BY <2>3 DEF MinistryType, SpendEscrow
  <2>4. CASE ReceiveRebate(n)  BY <2>1, <2>4 DEF MinistryType, ReceiveRebate
  <2>5. CASE RefundEscrow(n)  BY <2>1, <2>5 DEF MinistryType, RefundEscrow
  <2>6. CASE SpendSubsidy(n)  BY <2>6 DEF MinistryType, SpendSubsidy
  <2> QED BY <1>1, <2>2, <2>3, <2>4, <2>5, <2>6
<1>2. ASSUME NEW n \in Int, RecordBudget(n) PROVE MinistryType'
  BY <1>2 DEF MinistryType, RecordBudget, accounts
<1>3. ASSUME TakeOffice \/ AllocateBudget \/ UNCHANGED ministry PROVE MinistryType'
  <2>1. CASE TakeOffice
    BY <2>1, AllocationAssumption DEF MinistryType, TakeOffice, accounts
  <2>2. CASE AllocateBudget
    BY <2>2, AllocationAssumption DEF MinistryType, AllocateBudget
  <2>3. CASE UNCHANGED ministry
    BY <2>3 DEF MinistryType, ministry
  <2> QED BY <1>3, <2>1, <2>2, <2>3
<1> QED BY <1>1, <1>2, <1>3

-----------------------------------------------------------------------------
(* The steps, one by one.  The ones that only move a coroutine on, touch a *)
(* row or book something:                                                  *)
LEMMA PlainStep ==
  ASSUME JobsInv, NEW t \in Task, NEW at \in At \ {"claim", "deliver"},
         task[t].at \in Working \/ task[t].next # "idle" \/ at \notin Working,
         at \in Unfunded => task[t].at \in Unfunded, task[t].at \notin Booking,
         Goto(t, at), UNCHANGED <<log, granted, late, forced, counters>>,
         MinistryType',
         \/ UNCHANGED job
         \/ \E j \in Job : \E row : Posted(j) /\ Write(j, row) /\ Touched(row, job[j])
  PROVE  JobsInv'
<1>1. JobInv' /\ Evolves /\ GrantInv'
  BY QuietKeeps, TouchKeeps
<1>2. TaskInv'
  BY <1>1, MovesOn DEF JobsInv
<1>3. LogInv' /\ CountInv'
  BY DEF JobsInv, LogInv, CountInv, counters
<1> QED BY <1>1, <1>2, <1>3 DEF JobsInv

LEMMA CarryingStep ==
  ASSUME JobsInv, NEW t \in Task, NEW s, Becomes(t, s),
         UNCHANGED <<log, granted, late, forced, counters>>, MinistryType',
         Evolves => Carries(task[t])',
         \/ UNCHANGED job
         \/ \E j \in Job : \E row : Posted(j) /\ Write(j, row) /\ Touched(row, job[j])
  PROVE  JobsInv'
<1>1. JobInv' /\ Evolves /\ GrantInv'
  BY QuietKeeps, TouchKeeps
<1>2. TaskInv'
  BY <1>1, BecomesKeeps DEF JobsInv
<1>3. LogInv' /\ CountInv'
  BY DEF JobsInv, LogInv, CountInv, counters
<1> QED BY <1>1, <1>2, <1>3 DEF JobsInv

LEMMA IdleIs ==
  Idle = [at |-> "idle", next |-> "idle", job |-> {}, who |-> {}, amt |-> 0,
          read |-> 0, row |-> NoJob, due |-> NoShares, todo |-> {}, loop |-> FALSE]
BY DEF Idle, NoShares

LEMMA Shape ==
  ASSUME JobsInv, NEW t \in Task
  PROVE  /\ Carries(task[t]) /\ Shaped(task[t])
         /\ task[t].row \in Row /\ task[t].row.bonus \in Nat
         /\ task[t].row.escrowed \in Nat /\ task[t].read \in Int
<1>1. Carries(task[t])
  BY DEF JobsInv, TaskInv
<1>2. task[t].row \in Row /\ task[t].read \in Int
  BY <1>1 DEF Carries, Shaped
<1> QED BY <1>1, <1>2 DEF Carries, Row

LEMMA BecomesIs ==
  ASSUME JobsInv, NEW t \in Task, NEW s, Becomes(t, s)
  PROVE  task'[t] = s
BY DEF JobsInv, TaskInv, Becomes

LEMMA DoneStep ==
  ASSUME JobsInv, NEW t \in Task, Done(t),
         UNCHANGED <<log, granted, late, forced, counters>>, MinistryType',
         \/ UNCHANGED job
         \/ \E j \in Job : \E row : Posted(j) /\ Write(j, row) /\ Touched(row, job[j])
  PROVE  JobsInv'
<1>1. JobInv' /\ Evolves /\ GrantInv'
  BY QuietKeeps, TouchKeeps
<1>2. TaskInv'
  BY <1>1, DoneKeeps DEF JobsInv
<1>3. LogInv' /\ CountInv'
  BY DEF JobsInv, LogInv, CountInv, counters
<1> QED BY <1>1, <1>2, <1>3 DEF JobsInv

LEMMA TermSteps ==
  ASSUME JobsInv, NEW t \in Task
  PROVE  /\ StartTerm(t) \/ Allocate(t) \/ ReadBudget(t) \/ SaveTerm(t) => JobsInv'
         /\ \A n \in Bonus : SpendOnSubsidy(t, n) => JobsInv'
<1>0. /\ MinistryType /\ CountInv /\ Carries(task[t]) /\ Shaped(task[t])
      /\ task[t].read \in Int
  BY Shape DEF JobsInv
<1>1. ASSUME StartTerm(t) PROVE JobsInv'
  <2>1. MinistryType'
    BY <1>0, <1>1, MinistryKept DEF StartTerm
  <2> QED BY <1>1, <2>1, PlainStep DEF StartTerm, Begins, ghosts, At, Working, Unfunded, Booking
<1>2. ASSUME Allocate(t) PROVE JobsInv'
  <2>1. MinistryType'
    BY <1>0, <1>2, MinistryKept DEF Allocate
  <2> QED BY <1>2, <2>1, PlainStep DEF Allocate, Resumes, ghosts, At, Working, Unfunded, Booking
<1>3. ASSUME ReadBudget(t) PROVE JobsInv'
  <2>1. MinistryType'
    BY <1>0, <1>3, MinistryKept DEF ReadBudget
  <2>2. task'[t] = [task[t] EXCEPT !.at = "saveTerm", !.read = budget]
    BY <1>3, BecomesIs DEF ReadBudget
  <2>3. budget \in Int /\ task[t].at = "readTerm"
    BY <1>0, <1>3 DEF MinistryType, ReadBudget, Resumes
  <2>4. ASSUME Evolves PROVE Carries(task[t])'
    BY <1>0, <2>2, <2>3, <2>4 DEF Carries, Shaped, At, Working, Unfunded, Booking, Evolves
  <2> QED BY <1>3, <2>1, <2>4, CarryingStep DEF ReadBudget, ghosts
<1>4. ASSUME SaveTerm(t) PROVE JobsInv'
  <2>1. MinistryType'
    BY <1>0, <1>4, MinistryKept DEF SaveTerm
  <2>2. CASE task[t].next = "idle"
    BY <1>4, <2>1, <2>2, DoneStep DEF SaveTerm, ghosts
  <2>3. CASE task[t].next # "idle"
    <3>1. task'[t] = [task[t] EXCEPT !.at = task[t].next, !.next = "idle", !.read = 0]
      BY <1>4, <2>3, BecomesIs DEF SaveTerm
    <3>2. /\ task[t].next \in {"saveEscrowed", "boost", "zeroEscrow"}
          /\ task[t].next \in At /\ task[t].next \notin Unfunded
      BY <1>0, <2>3 DEF Shaped, AfterTerm, At, Unfunded
    <3>3. Shaped(task[t])'
      <4>1. task'[t] = [at |-> task[t].next, next |-> "idle", job |-> task[t].job,
                        who |-> task[t].who, amt |-> task[t].amt, read |-> 0,
                        row |-> task[t].row, due |-> task[t].due,
                        todo |-> task[t].todo, loop |-> task[t].loop]
        BY <1>0, <3>1 DEF Shaped
      <4> QED BY <1>0, <3>2, <4>1 DEF Shaped, AfterTerm
    <3>4. /\ task'[t].at = task[t].next /\ task'[t].next = "idle"
          /\ task'[t].job = task[t].job /\ task'[t].todo = task[t].todo
      BY <1>0, <3>1 DEF Shaped
    <3>5. ASSUME Evolves PROVE Carries(task[t])'
      BY <1>0, <2>3, <3>2, <3>3, <3>4, <3>5 DEF Carries, Evolves
    <3> QED BY <1>4, <2>1, <2>3, <3>5, CarryingStep DEF SaveTerm, ghosts
  <2> QED BY <2>2, <2>3
<1>5. ASSUME NEW n \in Bonus, SpendOnSubsidy(t, n) PROVE JobsInv'
  <2>1. n \in Nat
    BY JobsAssumption
  <2>2. MinistryType'
    BY <1>0, <1>5, <2>1 DEF SpendOnSubsidy, SpendSubsidy, MinistryType
  <2>3. Evolves /\ JobInv' /\ GrantInv'
    BY <1>5, QuietKeeps DEF SpendOnSubsidy, ghosts
  <2>4. TaskInv'
    BY <1>5, <2>3, MovesOn DEF JobsInv, SpendOnSubsidy, Begins, At, Working, Unfunded, Booking
  <2>5. CountInv'
    BY <1>0, <1>5 DEF CountInv, SpendOnSubsidy
  <2>6. LogInv'
    BY <1>5 DEF JobsInv, LogInv, SpendOnSubsidy
  <2> QED BY <2>2, <2>3, <2>4, <2>5, <2>6 DEF JobsInv
<1> QED BY <1>1, <1>2, <1>3, <1>4, <1>5

(* What a job's own fields bound: every field of a posted row is typed.    *)
LEMMA RowShape ==
  ASSUME JobsInv, NEW j \in Job
  PROVE  /\ job[j] \in Row
         /\ job[j] = [stage |-> job[j].stage, requested |-> job[j].requested,
                      fulfilled |-> job[j].fulfilled, claimed |-> job[j].claimed,
                      expired |-> job[j].expired, bonus |-> job[j].bonus,
                      promise |-> job[j].promise, escrowed |-> job[j].escrowed,
                      funded |-> job[j].funded, completions |-> job[j].completions,
                      expirations |-> job[j].expirations]
         /\ job[j].fulfilled <= job[j].requested
BY DEF JobsInv, JobInv, Row

LEMMA Touches ==
  ASSUME JobsInv, NEW j \in Job, Posted(j)
  PROVE  /\ \A n \in Nat : /\ Touched([job[j] EXCEPT !.escrowed = n], job[j])
                           /\ Touched([job[j] EXCEPT !.bonus = n], job[j])
         /\ Touched([job[j] EXCEPT !.stage = "visible"], job[j])
         /\ Touched([job[j] EXCEPT !.expired = TRUE], job[j])
         /\ Touched([job[j] EXCEPT !.completions = @ + 1], job[j])
         /\ Touched([job[j] EXCEPT !.expirations = @ + 1], job[j])
<1>0. /\ job[j] \in Row /\ job[j].stage # "unposted"
  BY RowShape DEF Posted
<1>1. ASSUME NEW n \in Nat PROVE Touched([job[j] EXCEPT !.escrowed = n], job[j])
  BY <1>0 DEF Touched, Row
<1>2. ASSUME NEW n \in Nat PROVE Touched([job[j] EXCEPT !.bonus = n], job[j])
  BY <1>0 DEF Touched, Row
<1>3. Touched([job[j] EXCEPT !.stage = "visible"], job[j])
  BY <1>0 DEF Touched, Row
<1>4. Touched([job[j] EXCEPT !.expired = TRUE], job[j])
  BY <1>0 DEF Touched, Row
<1>5. Touched([job[j] EXCEPT !.completions = @ + 1], job[j])
  BY <1>0 DEF Touched, Row
<1>6. Touched([job[j] EXCEPT !.expirations = @ + 1], job[j])
  BY <1>0 DEF Touched, Row
<1> QED BY <1>1, <1>2, <1>3, <1>4, <1>5, <1>6

LEMMA PostingSteps ==
  ASSUME JobsInv, NEW t \in Task
  PROVE  /\ BeginPosting(t) \/ CheckEscrow(t) \/ EscrowJournal(t) => JobsInv'
         /\ SaveEscrowed(t) \/ Publish(t) \/ EndPosting(t) => JobsInv'
<1>0. /\ MinistryType /\ TaskInv /\ Carries(task[t]) /\ Shaped(task[t])
      /\ task[t].row \in Row /\ task[t].row.bonus \in Nat
  BY Shape DEF JobsInv
<1>1. ASSUME BeginPosting(t) PROVE JobsInv'
  <2>1. MinistryType'
    BY <1>0, <1>1, MinistryKept DEF BeginPosting
  <2>2. task'[t] = [Idle EXCEPT !.at = "posting", !.loop = TRUE, !.amt = termBudget,
                                !.row = [NoJob EXCEPT !.funded = inOffice]]
    BY <1>1, BecomesIs DEF BeginPosting
  <2>3. termBudget \in Int /\ [NoJob EXCEPT !.funded = inOffice] \in Row
    BY <1>0 DEF MinistryType, NoJob, Row
  <2>4. Carries(task[t])'
    <3>1. /\ task'[t].at = "posting" /\ task'[t].next = "idle" /\ task'[t].todo = {}
          /\ Shaped(task[t])'
      <4>1. task'[t] = [at |-> "posting", next |-> "idle", job |-> {}, who |-> {},
                        amt |-> termBudget, read |-> 0,
                        row |-> [NoJob EXCEPT !.funded = inOffice],
                        due |-> NoShares, todo |-> {}, loop |-> TRUE]
        BY <2>2, IdleIs
      <4> QED BY <2>3, <4>1 DEF Shaped, At, Held, AfterTerm
    <3> QED BY <3>1 DEF Carries, Working
  <2> QED BY <1>1, <2>1, <2>4, CarryingStep DEF BeginPosting, ghosts
<1>2. ASSUME CheckEscrow(t) PROVE JobsInv'
  <2>1. MinistryType'
    BY <1>0, <1>2, MinistryKept DEF CheckEscrow
  <2>2. PICK at \in {"publish", "escrowJournal"} : Goto(t, at)
    BY <1>2 DEF CheckEscrow
  <2>3. task[t].at = "escrow"
    BY <1>2 DEF CheckEscrow, Resumes
  <2> QED BY <1>2, <2>1, <2>2, <2>3, PlainStep DEF CheckEscrow, ghosts, At, Working, Unfunded, Booking
<1>3. ASSUME EscrowJournal(t) PROVE JobsInv'
  <2>1. MinistryType'
    BY <1>0, <1>3 DEF EscrowJournal, MoveToEscrow, MinistryType
  <2>2. task'[t] = [task[t] EXCEPT !.at = "readTerm", !.next = "saveEscrowed"]
    BY <1>3, BecomesIs DEF EscrowJournal
  <2>3. task[t].at = "escrowJournal"
    BY <1>3 DEF EscrowJournal, Resumes
  <2>4. ASSUME Evolves PROVE Carries(task[t])'
    <3>1. /\ task'[t].job = task[t].job /\ task'[t].todo = task[t].todo
          /\ task'[t].at = "readTerm" /\ task'[t].next = "saveEscrowed" /\ Shaped(task[t])'
      BY <1>0, <2>2 DEF Shaped, At, AfterTerm, Booking
    <3> QED BY <1>0, <2>3, <2>4, <3>1 DEF Carries, Working, Unfunded, Evolves
  <2> QED BY <1>3, <2>1, <2>4, CarryingStep DEF EscrowJournal, ghosts
<1>4. ASSUME SaveEscrowed(t) PROVE JobsInv'
  <2>1. MinistryType'
    BY <1>0, <1>4, MinistryKept DEF SaveEscrowed
  <2>2. task[t].at = "saveEscrowed" /\ Mine(t) \in Job /\ Posted(Mine(t))
    BY <1>0, <1>4, MineIsPosted DEF SaveEscrowed, Resumes, Working
  <2>3. Touched([job[Mine(t)] EXCEPT !.escrowed = task[t].row.bonus], job[Mine(t)])
    BY <1>0, <2>2, Touches
  <2> QED BY <1>4, <2>1, <2>2, <2>3, PlainStep
          DEF SaveEscrowed, ghosts, At, Working, Unfunded, Booking
<1>5. ASSUME Publish(t) PROVE JobsInv'
  <2>1. MinistryType'
    BY <1>0, <1>5, MinistryKept DEF Publish
  <2>2. task[t].at = "publish" /\ Mine(t) \in Job /\ Posted(Mine(t))
    BY <1>0, <1>5, MineIsPosted DEF Publish, Resumes, Working
  <2>3. Touched([job[Mine(t)] EXCEPT !.stage = "visible"], job[Mine(t)])
    BY <2>2, Touches
  <2>4. CASE ~task[t].loop
    BY <1>5, <2>1, <2>2, <2>3, <2>4, DoneStep DEF Publish, ghosts
  <2>5. CASE task[t].loop
    <3>1. task'[t] = [task[t] EXCEPT !.at = "posting", !.job = {}, !.row.bonus = 0]
      BY <1>5, <2>5, BecomesIs DEF Publish
    <3>2. [task[t].row EXCEPT !.bonus = 0] \in Row
      BY <1>0 DEF Row
    <3>3. task[t].next = "idle"
      BY <1>0, <2>2 DEF Shaped, Booking
    <3>4. ASSUME Evolves PROVE Carries(task[t])'
      BY <1>0, <2>2, <3>1, <3>2, <3>3, <3>4
         DEF Carries, Shaped, At, Held, Working, Unfunded, Evolves
    <3> QED BY <1>5, <2>1, <2>2, <2>3, <2>5, <3>4, CarryingStep DEF Publish, ghosts
  <2> QED BY <2>4, <2>5
<1>6. ASSUME EndPosting(t) PROVE JobsInv'
  <2>1. MinistryType'
    BY <1>0, <1>6, MinistryKept DEF EndPosting
  <2> QED BY <1>6, <2>1, DoneStep DEF EndPosting, ghosts
<1> QED BY <1>1, <1>2, <1>3, <1>4, <1>5, <1>6

(* A step that posts a job.                                                *)
LEMMA PostKeeps ==
  ASSUME JobsInv, NEW j \in Job, NEW q \in Size, NEW n \in Bonus, NEW f \in BOOLEAN,
         ~Posted(j), Write(j, NewJob(q, n, f)), UNCHANGED <<granted, late, forced>>
  PROVE  JobInv' /\ Evolves /\ GrantInv' /\ Posted(j)' /\ n \in Nat
<1>1. q \in Nat /\ n \in Nat
  BY JobsAssumption
<1> DEFINE row == NewJob(q, n, f)
<1>2. /\ row \in Row /\ row.stage = "hidden" /\ row.fulfilled = 0 /\ ~row.claimed
      /\ row.requested = q
  BY <1>1 DEF NewJob, NoJob, Row
<1>3. Write(j, row)
  OBVIOUS
<1> HIDE DEF row
<1>4. job'[j] = row /\ \A k \in Job \ {j} : job'[k] = job[k]
  BY <1>3 DEF JobsInv, JobInv, Write
<1>5. JobInv' /\ Evolves
  BY <1>1, <1>2, <1>3, WriteKeeps DEF JobsInv
<1>6. GrantInv'
  BY <1>2, <1>4 DEF JobsInv, GrantInv, Posted
<1> QED BY <1>1, <1>2, <1>4, <1>5, <1>6 DEF Posted

LEMMA PostSteps ==
  ASSUME JobsInv, NEW t \in Task, NEW j \in Job, NEW q \in Size, NEW n \in Bonus,
         PostJob(t, j, q, n) \/ PostByCommand(t, j, q, n)
  PROVE  JobsInv'
<1>0. /\ MinistryType /\ TaskInv /\ Carries(task[t]) /\ Shaped(task[t])
      /\ task[t].row \in Row /\ task[t].row.funded \in BOOLEAN /\ inOffice \in BOOLEAN
      /\ ~Posted(j)
  BY Shape DEF JobsInv, MinistryType, Row, PostJob, PostByCommand, Posted
<1>1. MinistryType'
  BY <1>0, MinistryKept DEF PostJob, PostByCommand
<1>2. LogInv' /\ CountInv'
  BY DEF JobsInv, LogInv, CountInv, PostJob, PostByCommand, counters
<1>3. JobInv' /\ Evolves /\ GrantInv' /\ Posted(j)' /\ n \in Nat
  BY <1>0, PostKeeps DEF PostJob, PostByCommand, ghosts
<1>4. CASE PostJob(t, j, q, n)
  <2> DEFINE s == [task[t] EXCEPT !.job = {j}, !.row.bonus = n,
                     !.at = IF task[t].row.funded THEN "escrow" ELSE "publish"]
  <2>1. Becomes(t, s) /\ task'[t] = s /\ task[t].at = "posting"
    BY <1>4, BecomesIs DEF PostJob, Resumes
  <2>2. [task[t].row EXCEPT !.bonus = n] \in Row
    BY <1>0, <1>3 DEF Row
  <2>3. task[t].next = "idle"
    BY <1>0, <2>1 DEF Shaped, Booking
  <2>4. /\ task'[t].at \in {"escrow", "publish"} /\ task'[t].next = "idle"
        /\ task'[t].job = {j} /\ task'[t].todo = task[t].todo /\ Shaped(task[t])'
    BY <1>0, <2>1, <2>2, <2>3 DEF Shaped, At, Held
  <2>5. Carries(task[t])'
    BY <1>0, <1>3, <2>1, <2>4 DEF Carries, Evolves, Unfunded
  <2> QED BY <1>0, <1>1, <1>2, <1>3, <2>1, <2>5, BecomesKeeps DEF JobsInv
<1>5. CASE PostByCommand(t, j, q, n)
  <2> DEFINE s == [Idle EXCEPT !.job = {j},
                     !.row = [NoJob EXCEPT !.funded = inOffice, !.bonus = n],
                     !.at = IF inOffice THEN "escrow" ELSE "publish"]
  <2>1. Becomes(t, s) /\ task'[t] = s
    BY <1>5, BecomesIs DEF PostByCommand
  <2>2. [NoJob EXCEPT !.funded = inOffice, !.bonus = n] \in Row
    BY <1>0, <1>3 DEF NoJob, Row
  <2>3. /\ task'[t].at \in {"escrow", "publish"} /\ task'[t].next = "idle"
        /\ task'[t].job = {j} /\ task'[t].todo = {} /\ Shaped(task[t])'
    <3>1. task'[t] = [at |-> IF inOffice THEN "escrow" ELSE "publish",
                      next |-> "idle", job |-> {j}, who |-> {}, amt |-> 0, read |-> 0,
                      row |-> [NoJob EXCEPT !.funded = inOffice, !.bonus = n],
                      due |-> NoShares, todo |-> {}, loop |-> FALSE]
      BY <2>1, IdleIs
    <3> QED BY <2>2, <3>1 DEF Shaped, At, Held, AfterTerm
  <2>4. Carries(task[t])'
    BY <1>3, <2>3 DEF Carries
  <2> QED BY <1>0, <1>1, <1>2, <1>3, <2>1, <2>4, BecomesKeeps DEF JobsInv
<1> QED BY <1>4, <1>5

LEMMA ExpireStep ==
  ASSUME JobsInv, NEW j \in Job, Expire(j)
  PROVE  JobsInv'
<1>1. JobInv' /\ Evolves /\ GrantInv'
  BY TouchKeeps, Touches DEF Expire, Posted, ghosts
<1>2. MinistryType' /\ LogInv' /\ CountInv'
  BY MinistryKept DEF JobsInv, LogInv, CountInv, Expire, counters
<1>3. TaskInv'
  BY <1>1 DEF JobsInv, TaskInv, Expire, Carries, Shaped, Evolves
<1> QED BY <1>1, <1>2, <1>3 DEF JobsInv

(* A delivery that is logged leaves a log of deliveries.                   *)
LEMMA InsertIsSeq ==
  ASSUME NEW S, NEW s \in Seq(S), NEW i \in 0 .. Len(s), NEW e \in S
  PROVE  Insert(s, i, e) \in Seq(S)
<1>1. SubSeq(s, 1, i) \in Seq(S)
  BY SubSeqProperties
<1>2. SubSeq(s, i + 1, Len(s)) \in Seq(S)
  BY SubSeqProperties
<1>3. <<e>> \in Seq(S)
  OBVIOUS
<1> QED BY <1>1, <1>2, <1>3, ConcatProperties DEF Insert

LEMMA FindStep ==
  ASSUME JobsInv, NEW t \in Task, NEW j \in Job, NEW c \in Character,
         NEW q \in Quantity, FindJob(t, j, c, q)
  PROVE  JobsInv'
<1>0. MinistryType /\ TaskInv /\ Posted(j) /\ q \in Nat /\ CountInv
  BY JobsAssumption DEF JobsInv, FindJob, Active, Posted
<1>1. JobInv' /\ Evolves /\ GrantInv'
  BY QuietKeeps DEF FindJob, ghosts
<1>2. MinistryType' /\ LogInv' /\ CountInv'
  <2>1. MinistryType'
    BY <1>0, MinistryKept DEF FindJob
  <2>2. LogInv'
    BY DEF JobsInv, LogInv, FindJob
  <2>3. CountInv'
    BY <1>0 DEF CountInv, FindJob
  <2> QED BY <2>1, <2>2, <2>3
<1>3. job[j].fulfilled \in Nat
  BY RowShape DEF Row
<1>4. [NoJob EXCEPT !.fulfilled = job[j].fulfilled] \in Row
  BY <1>3 DEF NoJob, Row
<1>5. task'[t] = [at |-> "deliver", next |-> "idle", job |-> {j}, who |-> {c},
                  amt |-> q, read |-> 0,
                  row |-> [NoJob EXCEPT !.fulfilled = job[j].fulfilled],
                  due |-> NoShares, todo |-> {}, loop |-> FALSE]
  <2>1. task'[t] = [Idle EXCEPT !.at = "deliver", !.job = {j}, !.who = {c}, !.amt = q,
                                !.row.fulfilled = job[j].fulfilled]
    BY BecomesIs DEF FindJob
  <2> QED BY <2>1, IdleIs
<1>6. /\ task'[t].at = "deliver" /\ task'[t].next = "idle" /\ task'[t].job = {j}
      /\ task'[t].who = {c} /\ task'[t].amt = q /\ task'[t].todo = {} /\ Shaped(task[t])'
  BY <1>0, <1>4, <1>5 DEF Shaped, At, Held, AfterTerm
<1>7. Carries(task[t])'
  BY <1>0, <1>1, <1>6 DEF Carries, Evolves
<1> QED BY <1>0, <1>1, <1>2, <1>7, BecomesKeeps DEF JobsInv, FindJob

LEMMA ProcessStep ==
  ASSUME JobsInv, NEW t \in Task, NEW i, ProcessDelivery(t, i)
  PROVE  JobsInv'
<1>mine. PICK j \in Job : j = Mine(t)
  BY MineIsPosted DEF JobsInv, ProcessDelivery, Resumes, Working
<1> DEFINE n == task[t].amt
           took == Least(job[j].requested - job[j].fulfilled, n)
           row == [job[j] EXCEPT !.fulfilled = @ + took]
           c == CHOOSE c \in Character : task[t].who = {c}
           e == [who |-> c, qty |-> n]
<1>0. /\ MinistryType /\ TaskInv /\ task[t].at = "deliver" /\ Carries(task[t])
      /\ n \in Quantity /\ n \in Nat /\ c \in Character
  <2>1. /\ MinistryType /\ TaskInv /\ task[t].at = "deliver" /\ Carries(task[t])
    BY Shape DEF JobsInv, ProcessDelivery, Resumes
  <2>2. n \in Quantity /\ \E d \in Character : task[t].who = {d}
    BY <2>1 DEF Carries
  <2> QED BY <2>1, <2>2, JobsAssumption
<1>1. Posted(j)
  BY <1>0, <1>mine, MineIsPosted DEF Working
<1>2. /\ Write(j, row) /\ i \in 0 .. Len(log[j])
      /\ log' = [log EXCEPT ![j] = Insert(@, i, e)]
      /\ \/ Done(t)
         \/ /\ job'[j].fulfilled >= job'[j].requested
            /\ Becomes(t, [Idle EXCEPT !.at = "claim", !.job = {j}])
  BY <1>mine DEF ProcessDelivery, LogDelivery
<1> HIDE DEF n, c
<1>3. /\ took \in Nat /\ job[j].fulfilled + took <= job[j].requested
      /\ Full(j) => took = 0
  <2>1. /\ job[j].fulfilled \in Nat /\ job[j].requested \in Nat
        /\ job[j].fulfilled <= job[j].requested
    BY RowShape DEF Row
  <2> QED BY <1>0, <2>1 DEF Least, Full
<1> HIDE DEF took
<1>4. /\ row \in Row /\ row.fulfilled = job[j].fulfilled + took
      /\ row.stage = job[j].stage /\ row.funded = job[j].funded
      /\ row.requested = job[j].requested /\ row.claimed = job[j].claimed
      /\ row.promise = job[j].promise
  <2>1. job[j] \in Row /\ job[j].fulfilled + took \in Nat
    <3>1. job[j] \in Row /\ job[j].fulfilled \in Nat
      BY RowShape DEF Row
    <3> QED BY <1>3, <3>1
  <2> QED BY <2>1 DEF Row
<1> HIDE DEF row
<1>5. JobInv' /\ Evolves /\ GrantInv'
  <2>1. JobInv /\ (job[j].claimed => Full(j)) /\ job[j].fulfilled \in Nat
    BY <1>1, RowShape DEF JobsInv, JobInv, Row
  <2>2. Full(j) => row.fulfilled = row.requested
    BY <1>3, <1>4, <2>1 DEF Full
  <2>3. JobInv' /\ Evolves
    BY <1>1, <1>2, <1>3, <1>4, <2>1, <2>2, WriteKeeps DEF Posted
  <2>4. GrantInv'
    BY <1>1, <1>2, <1>4, <2>1, GrantsKept DEF JobsInv, ProcessDelivery, Posted, ghosts
  <2> QED BY <2>3, <2>4
<1>6. MinistryType' /\ LogInv' /\ CountInv'
  <2>1. MinistryType'
    BY <1>0, MinistryKept DEF ProcessDelivery
  <2>2. e \in [who : Character, qty : Quantity]
    BY <1>0
  <2>3. Insert(log[j], i, e) \in Seq([who : Character, qty : Quantity])
    BY <1>1, <1>2, <2>2, InsertIsSeq DEF JobsInv, LogInv
  <2>4. LogInv'
    BY <1>1, <1>2, <2>3 DEF JobsInv, LogInv
  <2>5. CountInv'
    BY DEF JobsInv, CountInv, ProcessDelivery, counters
  <2> QED BY <2>1, <2>4, <2>5
<1>7. CASE Done(t)
  BY <1>0, <1>5, <1>6, <1>7, DoneKeeps DEF JobsInv
<1>8. CASE /\ job'[j].fulfilled >= job'[j].requested
           /\ Becomes(t, [Idle EXCEPT !.at = "claim", !.job = {j}])
  <2>1. task'[t] = [at |-> "claim", next |-> "idle", job |-> {j}, who |-> {}, amt |-> 0,
                    read |-> 0, row |-> NoJob, due |-> NoShares, todo |-> {},
                    loop |-> FALSE]
    <3>1. task'[t] = [Idle EXCEPT !.at = "claim", !.job = {j}]
      BY <1>8, BecomesIs
    <3> QED BY <3>1, IdleIs
  <2>2. /\ task'[t].at = "claim" /\ task'[t].next = "idle" /\ task'[t].job = {j}
        /\ task'[t].todo = {} /\ Shaped(task[t])'
    BY <1>1, <2>1, NoJobIsRow DEF Shaped, At, Held, AfterTerm
  <2>3. Full(j)' /\ Posted(j)'
    <3>1. /\ job'[j].fulfilled <= job'[j].requested
          /\ job'[j].fulfilled \in Nat /\ job'[j].requested \in Nat
      BY <1>1, <1>5 DEF JobInv, Row
    <3>2. job'[j].fulfilled = job'[j].requested
      BY <1>8, <3>1
    <3> QED BY <1>1, <1>5, <3>2 DEF Full, Evolves
  <2>4. Carries(task[t])'
    BY <1>1, <2>2, <2>3 DEF Carries
  <2> QED BY <1>0, <1>5, <1>6, <1>8, <2>4, BecomesKeeps DEF JobsInv
<1> QED BY <1>2, <1>7, <1>8

LEMMA ClaimStep ==
  ASSUME JobsInv, NEW t \in Task, ClaimJob(t)
  PROVE  JobsInv'
<1>mine. PICK j \in Job : j = Mine(t)
  BY MineIsPosted DEF JobsInv, ClaimJob, Resumes, Working
<1>1. /\ MinistryType /\ TaskInv /\ JobInv /\ GrantInv /\ task[t].at = "claim"
      /\ Posted(j) /\ Full(j) /\ task[t].job = {j}
  BY <1>mine, MineIsPosted DEF JobsInv, ClaimJob, Resumes, Working
<1>2. MinistryType' /\ LogInv' /\ CountInv'
  <2>1. MinistryType'
    BY <1>1, MinistryKept DEF ClaimJob
  <2> QED BY <2>1 DEF JobsInv, LogInv, CountInv, ClaimJob, counters
<1>3. CASE job[j].claimed
  BY <1>mine, <1>2, <1>3, DoneStep DEF ClaimJob
<1>4. CASE ~job[j].claimed
  <2> DEFINE row == [job[j] EXCEPT !.claimed = TRUE]
  <2>1. /\ Write(j, row) /\ granted' = [granted EXCEPT ![j] = @ + job[j].promise]
        /\ late' \subseteq Job /\ UNCHANGED forced /\ Goto(t, "refresh")
    BY <1>mine, <1>1, <1>4 DEF ClaimJob, GrantInv
  <2>2. /\ row \in Row /\ row.fulfilled = row.requested /\ row.stage # "unposted"
        /\ row.funded = job[j].funded /\ row.claimed /\ row.promise = job[j].promise
        /\ job[j].promise \in Nat /\ row.fulfilled <= row.requested
    BY <1>1, RowShape DEF Row, Full, Posted
  <2> HIDE DEF row
  <2>3. JobInv' /\ Evolves
    BY <1>1, <2>1, <2>2, WriteKeeps
  <2>4. job'[j] = row /\ \A k \in Job \ {j} : job'[k] = job[k]
    BY <1>1, <2>1 DEF JobInv, Write
  <2>5. /\ granted' \in [Job -> Nat] /\ granted'[j] = granted[j] + job[j].promise
        /\ \A k \in Job \ {j} : granted'[k] = granted[k]
    BY <1>1, <2>1, <2>2 DEF GrantInv
  <2>6. GrantInv'
    BY <1>1, <1>4, <2>1, <2>2, <2>4, <2>5 DEF GrantInv, Posted
  <2>7. TaskInv'
    BY <1>1, <2>1, <2>3, MovesOn DEF At, Working, Unfunded, Booking
  <2> QED BY <1>2, <2>3, <2>6, <2>7 DEF JobsInv
<1> QED BY <1>3, <1>4

(* A coroutine that works out, or pays, what contributors are due.         *)
LEMMA DueStep ==
  ASSUME JobsInv, NEW t \in Task, task[t].at \in Working, Evolves,
         NEW at \in At \ {"claim", "deliver"},
         at \in Unfunded => task[t].at \in Unfunded,
         NEW due, task'[t] = [task[t] EXCEPT !.at = at, !.due = due]
  PROVE  Carries(task[t])'
<1>1. Carries(task[t]) /\ Shaped(task[t])
  BY Shape
<1>2. task[t].next = "idle"
  BY <1>1 DEF Shaped, Working, Booking
<1>3. /\ task'[t].at = at /\ task'[t].next = "idle" /\ task'[t].job = task[t].job
      /\ task'[t].todo = task[t].todo /\ Shaped(task[t])'
  <2>1. task'[t] = [at |-> at, next |-> task[t].next, job |-> task[t].job,
                    who |-> task[t].who, amt |-> task[t].amt, read |-> task[t].read,
                    row |-> task[t].row, due |-> due, todo |-> task[t].todo,
                    loop |-> task[t].loop]
    BY <1>1 DEF Shaped
  <2> QED BY <1>1, <1>2, <2>1 DEF Shaped
<1> QED BY <1>1, <1>3 DEF Carries, Evolves

LEMMA SettleSteps ==
  ASSUME JobsInv, NEW t \in Task
  PROVE  /\ RefreshJob(t) \/ ReadDeliveries(t) => JobsInv'
         /\ \A c \in Character : PayContributor(t, c) => JobsInv'
         /\ SpendJobEscrow(t) \/ GrantRebate(t) \/ BoostTemplate(t) => JobsInv'
<1>0. /\ MinistryType /\ TaskInv /\ Carries(task[t]) /\ Shaped(task[t])
      /\ task[t].row \in Row /\ task[t].row.escrowed \in Nat
  BY Shape DEF JobsInv
<1>1. ASSUME RefreshJob(t) PROVE JobsInv'
  <2>mine. PICK j \in Job : j = Mine(t)
    BY <1>0, <1>1, MineIsPosted DEF RefreshJob, Resumes, Working
  <2>1. MinistryType' /\ task[t].at = "refresh" /\ job[j] \in Row
    BY <1>0, <1>1, MinistryKept, RowShape DEF RefreshJob, Resumes
  <2>2. CASE Done(t)
    BY <1>1, <2>1, <2>2, DoneStep DEF RefreshJob, ghosts
  <2>3. CASE Becomes(t, [task[t] EXCEPT !.at = "readLog", !.row = job[j]])
    <3>1. task'[t] = [task[t] EXCEPT !.at = "readLog", !.row = job[j]]
      BY <2>3, BecomesIs
    <3>2. /\ task'[t].at = "readLog" /\ task'[t].next = task[t].next
          /\ task'[t].job = task[t].job /\ task'[t].todo = task[t].todo
          /\ Shaped(task[t])'
      <4>1. task'[t] = [at |-> "readLog", next |-> task[t].next, job |-> task[t].job,
                        who |-> task[t].who, amt |-> task[t].amt,
                        read |-> task[t].read, row |-> job[j], due |-> task[t].due,
                        todo |-> task[t].todo, loop |-> task[t].loop]
        BY <1>0, <3>1 DEF Shaped
      <4> QED BY <1>0, <2>1, <4>1 DEF Shaped, At, Booking
    <3>3. ASSUME Evolves PROVE Carries(task[t])'
      BY <1>0, <2>1, <3>2, <3>3 DEF Carries, Evolves, Working, Unfunded
    <3> QED BY <1>1, <2>1, <2>3, <3>3, CarryingStep DEF RefreshJob, ghosts
  <2> QED BY <1>1, <2>mine, <2>2, <2>3 DEF RefreshJob
<1>2. ASSUME ReadDeliveries(t) PROVE JobsInv'
  <2>1. MinistryType' /\ task[t].at = "readLog" /\ Evolves
    BY <1>0, <1>2, MinistryKept, QuietKeeps DEF ReadDeliveries, Resumes, ghosts
  <2>2. CASE Done(t)
    BY <1>2, <2>1, <2>2, DoneStep DEF ReadDeliveries, ghosts
  <2>3. ASSUME NEW due, Becomes(t, [task[t] EXCEPT !.at = "paying", !.due = due])
        PROVE  JobsInv'
    <3>1. task'[t] = [task[t] EXCEPT !.at = "paying", !.due = due]
      BY <2>3, BecomesIs
    <3>2. Carries(task[t])'
      BY <2>1, <3>1, DueStep DEF At, Working, Unfunded
    <3> QED BY <1>2, <2>1, <2>3, <3>2, CarryingStep DEF ReadDeliveries, ghosts
  <2> QED BY <1>2, <2>2, <2>3 DEF ReadDeliveries
<1>3. ASSUME NEW c \in Character, PayContributor(t, c) PROVE JobsInv'
  <2>1. MinistryType' /\ task[t].at \in {"paying", "payingPartial"} /\ Evolves
    BY <1>0, <1>3, MinistryKept, QuietKeeps DEF PayContributor
  <2>2. Becomes(t, [task[t] EXCEPT !.due[c] = 0])
    BY <1>3 DEF PayContributor
  <2>3. task'[t] = [task[t] EXCEPT !.at = task[t].at, !.due = [task[t].due EXCEPT ![c] = 0]]
    BY <1>0, <2>2, BecomesIs DEF Shaped
  <2>4. Carries(task[t])'
    BY <2>1, <2>3, DueStep DEF At, Working, Unfunded
  <2> QED BY <1>3, <2>1, <2>2, <2>4, CarryingStep DEF PayContributor
<1>4. ASSUME SpendJobEscrow(t) PROVE JobsInv'
  <2>1. MinistryType' /\ task[t].at = "paying"
    BY <1>0, <1>4 DEF SpendJobEscrow, SpendEscrow, MinistryType, AllPaid, Resumes
  <2>2. PICK at \in {"rebate", "boost"} : Goto(t, at)
    BY <1>4 DEF SpendJobEscrow
  <2> QED BY <1>4, <2>1, <2>2, PlainStep
          DEF SpendJobEscrow, ghosts, At, Working, Unfunded, Booking
<1>5. ASSUME GrantRebate(t) PROVE JobsInv'
  <2>1. MinistryType' /\ task[t].at = "rebate"
    BY <1>0, <1>5, CutIsPart DEF GrantRebate, ReceiveRebate, MinistryType, Resumes
  <2>2. task'[t] = [task[t] EXCEPT !.at = "readTerm", !.next = "boost"]
    BY <1>5, BecomesIs DEF GrantRebate
  <2>3. /\ task'[t].at = "readTerm" /\ task'[t].next = "boost"
        /\ task'[t].job = task[t].job /\ task'[t].todo = task[t].todo
        /\ Shaped(task[t])'
    BY <1>0, <2>2 DEF Shaped, At, AfterTerm, Booking
  <2>4. ASSUME Evolves PROVE Carries(task[t])'
    BY <1>0, <2>1, <2>3, <2>4 DEF Carries, Evolves, Working, Unfunded
  <2> QED BY <1>5, <2>1, <2>4, CarryingStep DEF GrantRebate, ghosts
<1>6. ASSUME BoostTemplate(t) PROVE JobsInv'
  <2>1. MinistryType' /\ task[t].at \in {"boost", "paying"}
    BY <1>0, <1>6, MinistryKept DEF BoostTemplate, AllPaid, Resumes
  <2>2. Mine(t) \in Job /\ Posted(Mine(t))
    BY <1>0, <2>1, MineIsPosted DEF Working
  <2>3. Touched([job[Mine(t)] EXCEPT !.completions = @ + 1], job[Mine(t)])
    BY <2>2, Touches
  <2> QED BY <1>6, <2>1, <2>2, <2>3, DoneStep DEF BoostTemplate, ghosts
<1> QED BY <1>1, <1>2, <1>3, <1>4, <1>5, <1>6

LEMMA FinishStep ==
  ASSUME JobsInv, NEW t \in Task, NEW j \in Job, FinishJob(t, j)
  PROVE  JobsInv'
<1>0. /\ MinistryType /\ TaskInv /\ GrantInv /\ Posted(j) /\ job[j] \in Row
      /\ job[j].promise \in Nat /\ job[j].requested \in Nat
  BY RowShape DEF JobsInv, FinishJob, Posted, Row
<1>1. JobInv' /\ Evolves
  BY DEF JobsInv, JobInv, Evolves, FinishJob, Posted, Full
<1>2. MinistryType' /\ LogInv' /\ CountInv'
  <2>1. MinistryType'
    BY <1>0, MinistryKept DEF FinishJob
  <2> QED BY <2>1 DEF JobsInv, LogInv, CountInv, FinishJob, counters
<1>3. GrantInv'
  <2> DEFINE n == job[j].promise * job[j].requested
  <2>1. n \in Nat
    BY <1>0
  <2>2. /\ granted' = [granted EXCEPT ![j] = @ + n] /\ forced' = forced \cup {j}
        /\ UNCHANGED <<job, late>>
    BY DEF FinishJob
  <2> HIDE DEF n
  <2>3. /\ granted' \in [Job -> Nat]
        /\ \A k \in Job \ {j} : granted'[k] = granted[k]
    BY <1>0, <2>1, <2>2 DEF GrantInv
  <2> QED BY <1>0, <2>2, <2>3 DEF GrantInv, Posted
<1>4. Becomes(t, [Idle EXCEPT !.at = "readLog", !.job = {j}, !.row = job[j]])
  BY DEF FinishJob
<1>5. task'[t] = [at |-> "readLog", next |-> "idle", job |-> {j}, who |-> {},
                  amt |-> 0, read |-> 0, row |-> job[j], due |-> NoShares,
                  todo |-> {}, loop |-> FALSE]
  <2>1. task'[t] = [Idle EXCEPT !.at = "readLog", !.job = {j}, !.row = job[j]]
    BY <1>4, BecomesIs
  <2> QED BY <2>1, IdleIs
<1>6. /\ task'[t].at = "readLog" /\ task'[t].next = "idle" /\ task'[t].job = {j}
      /\ task'[t].todo = {} /\ Shaped(task[t])'
  BY <1>0, <1>5 DEF Shaped, At, Held, AfterTerm
<1>7. Carries(task[t])'
  BY <1>0, <1>1, <1>6 DEF Carries, Evolves
<1> QED BY <1>0, <1>1, <1>2, <1>3, <1>4, <1>7, BecomesKeeps DEF JobsInv

LEMMA CleanupQueries ==
  ASSUME JobsInv, NEW t \in Task
  PROVE  BeginCleanup(t) \/ QueryUnfunded(t) => JobsInv'
<1> SUFFICES ASSUME BeginCleanup(t) \/ QueryUnfunded(t) PROVE JobsInv'
  OBVIOUS
<1>0. MinistryType' /\ UNCHANGED <<job, log, granted, late, forced, counters>>
  BY MinistryKept DEF JobsInv, BeginCleanup, QueryUnfunded, ghosts
<1>1. PICK S \in SUBSET Job, at \in {"expiredFunded", "expiredUnfunded"} :
        /\ Becomes(t, [Idle EXCEPT !.at = at, !.todo = Rows(S)])
        /\ \A j \in S : Posted(j) /\ (at = "expiredUnfunded" => ~job[j].funded)
  <2>1. CASE BeginCleanup(t)
    <3> DEFINE S == {j \in Job : Unsettled(j) /\ job[j].funded /\ job[j].escrowed > 0}
    <3>1. Becomes(t, [Idle EXCEPT !.at = "expiredFunded", !.todo = Rows(S)])
      BY <2>1 DEF BeginCleanup
    <3>2. \A j \in S : Posted(j)
      BY DEF Unsettled, Posted
    <3> QED BY <3>1, <3>2
  <2>2. CASE QueryUnfunded(t)
    <3> DEFINE S == {j \in Job : /\ Unsettled(j) /\ ~job[j].funded /\ job[j].bonus > 0
                                 /\ granted[j] < MaxGrants * job[j].promise}
    <3>1. Becomes(t, [Idle EXCEPT !.at = "expiredUnfunded", !.todo = Rows(S)])
      BY <2>2 DEF QueryUnfunded
    <3>2. \A j \in S : Posted(j) /\ ~job[j].funded
      BY DEF Unsettled, Posted
    <3> QED BY <3>1, <3>2
  <2> QED BY <2>1, <2>2
<1>2. task'[t] = [at |-> at, next |-> "idle", job |-> {}, who |-> {}, amt |-> 0,
                  read |-> 0, row |-> NoJob, due |-> NoShares, todo |-> Rows(S),
                  loop |-> FALSE]
  <2>1. task'[t] = [Idle EXCEPT !.at = at, !.todo = Rows(S)]
    BY <1>1, BecomesIs
  <2> QED BY <2>1, IdleIs
<1>3. /\ task'[t].at = at /\ task'[t].next = "idle" /\ task'[t].todo = Rows(S)
      /\ Shaped(task[t])'
  BY <1>2, NoJobIsRow DEF Shaped, At, Held, AfterTerm
<1>4. \A r \in Rows(S) : /\ r.row \in Row
                         /\ \E j \in Job : /\ r.job = {j} /\ Posted(j)'
                                           /\ at \in Unfunded => ~job'[j].funded
  <2> SUFFICES ASSUME NEW r \in Rows(S)
               PROVE  /\ r.row \in Row
                      /\ \E j \in Job : /\ r.job = {j} /\ Posted(j)'
                                        /\ at \in Unfunded => ~job'[j].funded
    OBVIOUS
  <2>1. PICK j \in S : r = [job |-> {j}, row |-> job[j]]
    BY DEF Rows
  <2>2. r.job = {j} /\ r.row \in Row /\ j \in Job
    BY <2>1, RowShape
  <2>3. Posted(j)' /\ (at \in Unfunded => ~job'[j].funded)
    BY <1>0, <1>1 DEF Unfunded, Posted
  <2> QED BY <2>2, <2>3
<1>5. Carries(task[t])'
  BY <1>3, <1>4 DEF Carries, Working
<1> QED BY <1>0, <1>1, <1>5, CarryingStep

LEMMA ExpireEscrowStep ==
  ASSUME JobsInv, NEW t \in Task, NEW r \in task[t].todo, ExpireEscrow(t, r)
  PROVE  JobsInv'
<1>0. /\ MinistryType /\ TaskInv /\ Carries(task[t]) /\ Shaped(task[t])
      /\ task[t].at = "expiredFunded"
  BY Shape DEF JobsInv, ExpireEscrow, Resumes
<1>1. PICK j \in Job : r.job = {j} /\ Posted(j) /\ r.row \in Row
  BY <1>0 DEF Carries
<1>2. r.row.escrowed \in Nat
  BY <1>1 DEF Row
<1>3. MinistryType'
  <2>1. /\ escrow' = escrow - r.row.escrowed
        /\ budget' = budget + Refund(r.row.escrowed)
        /\ expenses' = expenses + r.row.escrowed - Refund(r.row.escrowed)
        /\ UNCHANGED <<inOffice, termBudget>>
    BY DEF ExpireEscrow, RefundEscrow
  <2> QED BY <1>0, <1>2, <2>1, CutIsPart DEF MinistryType
<1>4. Becomes(t, [task[t] EXCEPT !.at = "readTerm", !.next = "zeroEscrow",
                    !.job = r.job, !.row = r.row, !.todo = @ \ {r}])
  BY DEF ExpireEscrow
<1>5. task'[t] = [at |-> "readTerm", next |-> "zeroEscrow", job |-> {j},
                  who |-> task[t].who, amt |-> task[t].amt, read |-> task[t].read,
                  row |-> r.row, due |-> task[t].due, todo |-> task[t].todo \ {r},
                  loop |-> task[t].loop]
  <2>1. task'[t] = [task[t] EXCEPT !.at = "readTerm", !.next = "zeroEscrow",
                    !.job = r.job, !.row = r.row, !.todo = @ \ {r}]
    BY <1>4, BecomesIs
  <2> QED BY <1>0, <1>1, <2>1 DEF Shaped
<1>6. /\ task'[t].at = "readTerm" /\ task'[t].next = "zeroEscrow" /\ task'[t].job = {j}
      /\ task'[t].todo = task[t].todo \ {r} /\ Shaped(task[t])'
  BY <1>0, <1>1, <1>5 DEF Shaped, At, Held, AfterTerm, Booking
<1>7. ASSUME Evolves PROVE Carries(task[t])'
  BY <1>0, <1>1, <1>6, <1>7 DEF Carries, Evolves, Unfunded
<1> QED BY <1>3, <1>4, <1>7, CarryingStep DEF ExpireEscrow, ghosts

LEMMA PartialStep ==
  ASSUME JobsInv, NEW t \in Task, NEW r \in task[t].todo, ReadPartial(t, r)
  PROVE  JobsInv'
<1>0. /\ MinistryType /\ TaskInv /\ GrantInv /\ Carries(task[t]) /\ Shaped(task[t])
      /\ task[t].at = "expiredUnfunded"
  BY Shape DEF JobsInv, ReadPartial, Resumes
<1>1. PICK j \in Job : r.job = {j} /\ Posted(j) /\ r.row \in Row /\ ~job[j].funded
  BY <1>0 DEF Carries, Unfunded
<1>2. j = CHOOSE k \in Job : r.job = {k}
  BY <1>1
<1>3. r.row.promise \in Nat
  BY <1>1 DEF Row
<1>4. /\ granted' \in {granted, [granted EXCEPT ![j] = @ + r.row.promise]}
      /\ \E at \in {"payingPartial", "penalty"} : \E due :
           Becomes(t, [task[t] EXCEPT !.job = r.job, !.row = r.row, !.due = due,
                                      !.at = at, !.todo = @ \ {r}])
  <2> DEFINE partial == (r.row.bonus * r.row.fulfilled) \div r.row.requested
             due == IF partial = 0 THEN NoShares
                    ELSE Shares(log[j], r.row.requested, r.row.fulfilled, partial)
             at == IF due # NoShares THEN "payingPartial" ELSE "penalty"
  <2>1. /\ granted' = IF due # NoShares
                       THEN [granted EXCEPT ![j] = @ + r.row.promise] ELSE granted
        /\ Becomes(t, [task[t] EXCEPT !.job = r.job, !.row = r.row, !.due = due,
                                      !.at = at, !.todo = @ \ {r}])
    BY <1>2 DEF ReadPartial
  <2>2. at \in {"payingPartial", "penalty"}
    OBVIOUS
  <2> HIDE DEF due, at
  <2> QED BY <2>1, <2>2
<1>5. PICK at \in {"payingPartial", "penalty"} : \E due :
           Becomes(t, [task[t] EXCEPT !.job = r.job, !.row = r.row, !.due = due,
                                      !.at = at, !.todo = @ \ {r}])
  BY <1>4
<1>6. PICK due : Becomes(t, [task[t] EXCEPT !.job = r.job, !.row = r.row, !.due = due,
                                             !.at = at, !.todo = @ \ {r}])
  BY <1>5
<1>7. UNCHANGED <<ministry, job, log, paid, late, forced, counters>>
  BY DEF ReadPartial
<1>8. JobInv' /\ Evolves /\ MinistryType' /\ LogInv' /\ CountInv'
  <2>1. MinistryType'
    BY <1>0, <1>7, MinistryKept
  <2>2. JobInv' /\ Evolves
    BY <1>7 DEF JobsInv, JobInv, Evolves, Posted, Full
  <2> QED BY <1>7, <2>1, <2>2 DEF JobsInv, LogInv, CountInv, counters
<1>9. GrantInv'
  <2>1. /\ granted' \in [Job -> Nat]
        /\ \A k \in Job \ {j} : granted'[k] = granted[k]
    BY <1>0, <1>3, <1>4 DEF GrantInv
  <2> QED BY <1>0, <1>1, <1>7, <2>1 DEF GrantInv, Posted
<1>10. task'[t] = [at |-> at, next |-> task[t].next, job |-> {j},
                  who |-> task[t].who, amt |-> task[t].amt, read |-> task[t].read,
                  row |-> r.row, due |-> due, todo |-> task[t].todo \ {r},
                  loop |-> task[t].loop]
  <2>1. task'[t] = [task[t] EXCEPT !.job = r.job, !.row = r.row, !.due = due,
                                   !.at = at, !.todo = @ \ {r}]
    BY <1>6, BecomesIs
  <2> QED BY <1>0, <1>1, <2>1 DEF Shaped
<1>11. task[t].next = "idle"
  BY <1>0 DEF Shaped, Booking
<1>12. /\ task'[t].at = at /\ task'[t].next = "idle" /\ task'[t].job = {j}
       /\ task'[t].todo = task[t].todo \ {r} /\ Shaped(task[t])'
  BY <1>0, <1>1, <1>10, <1>11 DEF Shaped, At, Held, AfterTerm
<1>13. Carries(task[t])'
  BY <1>0, <1>1, <1>8, <1>12 DEF Carries, Evolves, Unfunded
<1> QED BY <1>0, <1>6, <1>8, <1>9, <1>13, BecomesKeeps DEF JobsInv

LEMMA CleanupSteps ==
  ASSUME JobsInv, NEW t \in Task
  PROVE  /\ ZeroEscrow(t) \/ DecayTemplate(t) \/ BoostPartial(t) => JobsInv'
         /\ Penalize(t) \/ ZeroBonus(t) \/ EndCleanup(t) => JobsInv'
<1>0. MinistryType /\ TaskInv /\ Carries(task[t]) /\ Shaped(task[t])
  BY Shape DEF JobsInv
<1>1. ASSUME ZeroEscrow(t) PROVE JobsInv'
  <2>1. MinistryType' /\ task[t].at = "zeroEscrow"
    BY <1>0, <1>1, MinistryKept DEF ZeroEscrow, Resumes
  <2>2. Mine(t) \in Job /\ Posted(Mine(t))
    BY <1>0, <2>1, MineIsPosted DEF Working
  <2>3. Touched([job[Mine(t)] EXCEPT !.escrowed = 0], job[Mine(t)])
    BY <2>2, Touches
  <2> QED BY <1>1, <2>1, <2>2, <2>3, PlainStep
          DEF ZeroEscrow, ghosts, At, Working, Unfunded, Booking
<1>2. ASSUME DecayTemplate(t) PROVE JobsInv'
  <2>1. MinistryType' /\ task[t].at \in {"decayFunded", "decayUnfunded"}
    BY <1>0, <1>2, MinistryKept DEF DecayTemplate
  <2>2. Mine(t) \in Job /\ Posted(Mine(t))
    BY <1>0, <2>1, MineIsPosted DEF Working
  <2>3. Touched([job[Mine(t)] EXCEPT !.expirations = @ + 1], job[Mine(t)])
    BY <2>2, Touches
  <2>4. PICK at \in {"expiredFunded", "expiredUnfunded"} :
          /\ Becomes(t, [Idle EXCEPT !.todo = task[t].todo, !.at = at])
          /\ at = "expiredUnfunded" => task[t].at \in Unfunded
    BY <1>2, <2>1 DEF DecayTemplate, Unfunded
  <2>5. task'[t] = [at |-> at, next |-> "idle", job |-> {}, who |-> {}, amt |-> 0,
                    read |-> 0, row |-> NoJob, due |-> NoShares,
                    todo |-> task[t].todo, loop |-> FALSE]
    <3>1. task'[t] = [Idle EXCEPT !.todo = task[t].todo, !.at = at]
      BY <2>4, BecomesIs
    <3> QED BY <3>1, IdleIs
  <2>6. /\ task'[t].at = at /\ task'[t].next = "idle" /\ task'[t].todo = task[t].todo
        /\ Shaped(task[t])'
    BY <2>5, NoJobIsRow DEF Shaped, At, Held, AfterTerm
  <2>7. ASSUME Evolves PROVE Carries(task[t])'
    BY <1>0, <2>4, <2>6, <2>7 DEF Carries, Evolves, Working, Unfunded
  <2> QED BY <1>2, <2>1, <2>2, <2>3, <2>4, <2>7, CarryingStep DEF DecayTemplate, ghosts
<1>3. ASSUME BoostPartial(t) PROVE JobsInv'
  <2>1. MinistryType' /\ task[t].at = "payingPartial"
    BY <1>0, <1>3, MinistryKept DEF BoostPartial, AllPaid, Resumes
  <2>2. Mine(t) \in Job /\ Posted(Mine(t))
    BY <1>0, <2>1, MineIsPosted DEF Working
  <2>3. Touched([job[Mine(t)] EXCEPT !.completions = @ + 1], job[Mine(t)])
    BY <2>2, Touches
  <2> QED BY <1>3, <2>1, <2>2, <2>3, PlainStep
          DEF BoostPartial, ghosts, At, Working, Unfunded, Booking
<1>4. ASSUME Penalize(t) PROVE JobsInv'
  <2>1. MinistryType' /\ task[t].at = "penalty"
    BY <1>0, <1>4, MinistryKept DEF Penalize, Resumes
  <2>2. PICK at \in {"zeroBonus", "decayUnfunded"} : Goto(t, at)
    BY <1>4 DEF Penalize
  <2> QED BY <1>4, <2>1, <2>2, PlainStep
          DEF Penalize, ghosts, At, Working, Unfunded, Booking
<1>5. ASSUME ZeroBonus(t) PROVE JobsInv'
  <2>1. MinistryType' /\ task[t].at = "zeroBonus"
    BY <1>0, <1>5, MinistryKept DEF ZeroBonus, Resumes
  <2>2. Mine(t) \in Job /\ Posted(Mine(t))
    BY <1>0, <2>1, MineIsPosted DEF Working
  <2>3. Touched([job[Mine(t)] EXCEPT !.bonus = 0], job[Mine(t)])
    BY <2>2, Touches
  <2> QED BY <1>5, <2>1, <2>2, <2>3, PlainStep
          DEF ZeroBonus, ghosts, At, Working, Unfunded, Booking
<1>6. ASSUME EndCleanup(t) PROVE JobsInv'
  <2>1. MinistryType'
    BY <1>0, <1>6, MinistryKept DEF EndCleanup
  <2> QED BY <1>6, <2>1, DoneStep DEF EndCleanup, ghosts
<1> QED BY <1>1, <1>2, <1>3, <1>4, <1>5, <1>6

(* A coroutine may die anywhere: what it carried is lost, what it wrote    *)
(* stays.                                                                  *)
LEMMA CrashStep ==
  ASSUME JobsInv, NEW t \in Task, Crash(t)
  PROVE  JobsInv'
<1>1. JobInv' /\ Evolves /\ GrantInv'
  BY QuietKeeps DEF Crash, ghosts
<1>2. TaskInv'
  BY <1>1, DoneKeeps DEF JobsInv, Crash
<1>3. MinistryType'
  BY MinistryKept DEF JobsInv, Crash
<1>4. LogInv'
  BY DEF JobsInv, LogInv, Crash
<1>5. CountInv'
  <2>1. crashes' = crashes + 1 /\ UNCHANGED <<deliveries, spends>>
    BY DEF Crash
  <2> QED BY <2>1 DEF JobsInv, CountInv
<1> QED BY <1>1, <1>2, <1>3, <1>4, <1>5 DEF JobsInv

-----------------------------------------------------------------------------
LEMMA JobsInit == Init => JobsInv
<1> SUFFICES ASSUME Init PROVE JobsInv
  OBVIOUS
<1>1. MinistryType
  <2>1. /\ inOffice = FALSE /\ budget = 0 /\ escrow = 0 /\ expenses = 0
        /\ termBudget = 0
    BY DEF Init, MinistryInit
  <2>2. inOffice \in BOOLEAN
    BY <2>1
  <2>3. budget \in Int /\ escrow \in Int /\ expenses \in Int /\ termBudget \in Int
    BY <2>1
  <2> QED BY <2>2, <2>3 DEF MinistryType
<1>2. JobInv /\ LogInv /\ GrantInv /\ CountInv
  BY NoJobIsRow DEF Init, JobInv, LogInv, GrantInv, CountInv, NoJob, Full, Posted
<1>3. ASSUME NEW t \in Task PROVE Carries(task[t])
  <2>1. task[t] = Idle
    BY DEF Init
  <2> QED BY <2>1, IdleIs, NoJobIsRow DEF Carries, Shaped, At, AfterTerm, Held, Working
<1> QED BY <1>1, <1>2, <1>3 DEF JobsInv, TaskInv, Init

LEMMA JobsNext == JobsInv /\ [Next]_vars => JobsInv'
<1> SUFFICES ASSUME JobsInv, [Next]_vars PROVE JobsInv'
  OBVIOUS
<1>1. CASE UNCHANGED vars
  <2>1. MinistryType' /\ JobInv' /\ GrantInv' /\ Evolves
    BY <1>1, QuietKeeps, MinistryKept DEF JobsInv, vars, ghosts
  <2>2. TaskInv'
    BY <1>1, <2>1, OthersCarry DEF JobsInv, TaskInv, vars
  <2> QED BY <1>1, <2>1, <2>2 DEF JobsInv, LogInv, CountInv, vars, counters
<1>2. ASSUME NEW t \in Task, Start(t) PROVE JobsInv'
  BY <1>2, TermSteps, PostingSteps, PostSteps, FindStep, FinishStep, CleanupQueries
     DEF Start
<1>3. ASSUME NEW t \in Task, PostingStep(t) PROVE JobsInv'
  BY <1>3, TermSteps, PostingSteps, PostSteps DEF PostingStep
<1>4. ASSUME NEW t \in Task, DeliveryStep(t) PROVE JobsInv'
  BY <1>4, ProcessStep, ClaimStep, SettleSteps DEF DeliveryStep
<1>5. ASSUME NEW t \in Task, CleanupStep(t) PROVE JobsInv'
  BY <1>5, ExpireEscrowStep, PartialStep, CleanupQueries, CleanupSteps DEF CleanupStep
<1> QED BY <1>1, <1>2, <1>3, <1>4, <1>5, CrashStep, ExpireStep DEF Next, Step

(* The state of the jobs and of the ministry is always well typed: a job is*)
(* never over-filled, and only a full one is claimed.                      *)
THEOREM JobsTypeCorrect == Spec => []TypeOK
<1>1. JobsInv => TypeOK
  <2> SUFFICES ASSUME JobsInv PROVE TypeOK
    OBVIOUS
  <2>1. ASSUME NEW t \in Task PROVE task[t].at \in At /\ task[t].next \in At
    BY Shape DEF Shaped, AfterTerm, At
  <2> QED BY <2>1 DEF JobsInv, TypeOK, JobInv, LogInv, GrantInv, CountInv, Full
<1> QED BY <1>1, JobsInit, JobsNext, PTL DEF Spec

(* A funded job grants its bonus at most once, for any number of jobs,     *)
(* contributors and coroutines, however deliveries, expiry, cleanups and   *)
(* the deaths of coroutines interleave.                                    *)
THEOREM FundedOnce == Spec => []FundedSettledOnce
<1>1. JobsInv => FundedSettledOnce
  <2> SUFFICES ASSUME JobsInv, NEW j \in Job \ forced, job[j].funded
               PROVE  granted[j] <= job[j].promise
    BY DEF FundedSettledOnce
  <2>1. job[j].promise \in Nat
    BY RowShape DEF Row
  <2> QED BY <2>1 DEF JobsInv, GrantInv
<1> QED BY <1>1, JobsInit, JobsNext, PTL DEF Spec

-----------------------------------------------------------------------------
(* What is left of a coroutine once the detour through the ministry's term *)
(* is taken away: where it is, or will be when the detour ends.            *)
On(s) == IF s.next # "idle" THEN s.next ELSE s.at

Is(t, S)    == On(task[t]) \in S
Holds(t, j) == task[t].job = {j}

Away       == {"idle", "allocate", "readTerm", "saveTerm", "posting"}
Unsaved    == {"escrow", "escrowJournal", "saveEscrowed"}
Unposted   == Unsaved \cup {"publish"}
Settling   == {"refresh", "readLog", "paying", "rebate", "boost"}
Refunding  == {"expiredFunded", "zeroEscrow", "decayFunded"}
Penalizing == {"payingPartial", "penalty", "zeroBonus", "decayUnfunded"}

(* One coroutine takes a step to a new place, with what it now carries.    *)
Turns(t, on, held, row, due, todo) ==
  /\ DOMAIN task' = Task /\ \A u \in Task \ {t} : task'[u] = task[u]
  /\ On(task'[t]) = on /\ task'[t].job = held /\ task'[t].row = row
  /\ task'[t].due = due /\ task'[t].todo = todo

Goes(t, on) == Turns(t, on, task[t].job, task[t].row, task[t].due, task[t].todo)

Rests(t) == /\ DOMAIN task' = Task /\ \A u \in Task \ {t} : task'[u] = task[u]
            /\ On(task'[t]) \in Away /\ task'[t].due \in {task[t].due, NoShares}
            /\ \/ task'[t].todo = {}
               \/ ~Is(t, InCleanup) /\ task'[t].todo = task[t].todo

(* One field of one row is written.                                        *)
Only(j, f) ==
  /\ DOMAIN job' = Job /\ \A k \in Job \ {j} : job'[k] = job[k]
  /\ f # "stage" => job'[j].stage = job[j].stage
  /\ f # "requested" => job'[j].requested = job[j].requested
  /\ f # "fulfilled" => job'[j].fulfilled = job[j].fulfilled
  /\ f # "claimed" => job'[j].claimed = job[j].claimed
  /\ f # "expired" => job'[j].expired = job[j].expired
  /\ f # "bonus" => job'[j].bonus = job[j].bonus
  /\ f # "promise" => job'[j].promise = job[j].promise
  /\ f # "escrowed" => job'[j].escrowed = job[j].escrowed
  /\ f # "funded" => job'[j].funded = job[j].funded
  /\ f # "completions" => job'[j].completions = job[j].completions
  /\ f # "expirations" => job'[j].expirations = job[j].expirations

LEMMA OnlyField ==
  ASSUME JobsInv, NEW j \in Job, NEW v
  PROVE  /\ Write(j, [job[j] EXCEPT !.stage = v]) => Only(j, "stage") /\ job'[j].stage = v
         /\ Write(j, [job[j] EXCEPT !.fulfilled = v])
              => Only(j, "fulfilled") /\ job'[j].fulfilled = v
         /\ Write(j, [job[j] EXCEPT !.claimed = v])
              => Only(j, "claimed") /\ job'[j].claimed = v
         /\ Write(j, [job[j] EXCEPT !.expired = v])
              => Only(j, "expired") /\ job'[j].expired = v
         /\ Write(j, [job[j] EXCEPT !.bonus = v]) => Only(j, "bonus") /\ job'[j].bonus = v
         /\ Write(j, [job[j] EXCEPT !.escrowed = v])
              => Only(j, "escrowed") /\ job'[j].escrowed = v
         /\ Write(j, [job[j] EXCEPT !.completions = v])
              => Only(j, "completions") /\ job'[j].completions = v
         /\ Write(j, [job[j] EXCEPT !.expirations = v])
              => Only(j, "expirations") /\ job'[j].expirations = v
<1>1. DOMAIN job = Job /\ job[j] \in Row
  BY DEF JobsInv, JobInv
<1>2. ASSUME NEW row, Write(j, row)
      PROVE  DOMAIN job' = Job /\ job'[j] = row /\ \A k \in Job \ {j} : job'[k] = job[k]
  BY <1>1, <1>2 DEF Write
<1>3. Write(j, [job[j] EXCEPT !.stage = v]) => Only(j, "stage") /\ job'[j].stage = v
  BY <1>1, <1>2 DEF Only, Row
<1>4. Write(j, [job[j] EXCEPT !.fulfilled = v])
        => Only(j, "fulfilled") /\ job'[j].fulfilled = v
  BY <1>1, <1>2 DEF Only, Row
<1>5. Write(j, [job[j] EXCEPT !.claimed = v]) => Only(j, "claimed") /\ job'[j].claimed = v
  BY <1>1, <1>2 DEF Only, Row
<1>6. Write(j, [job[j] EXCEPT !.expired = v]) => Only(j, "expired") /\ job'[j].expired = v
  BY <1>1, <1>2 DEF Only, Row
<1>7. Write(j, [job[j] EXCEPT !.bonus = v]) => Only(j, "bonus") /\ job'[j].bonus = v
  BY <1>1, <1>2 DEF Only, Row
<1>8. Write(j, [job[j] EXCEPT !.escrowed = v])
        => Only(j, "escrowed") /\ job'[j].escrowed = v
  BY <1>1, <1>2 DEF Only, Row
<1>9. Write(j, [job[j] EXCEPT !.completions = v])
        => Only(j, "completions") /\ job'[j].completions = v
  BY <1>1, <1>2 DEF Only, Row
<1>10. Write(j, [job[j] EXCEPT !.expirations = v])
         => Only(j, "expirations") /\ job'[j].expirations = v
  BY <1>1, <1>2 DEF Only, Row
<1> QED BY <1>3, <1>4, <1>5, <1>6, <1>7, <1>8, <1>9, <1>10

(* The same with the parts of the record spelled out.                      *)
LEMMA Turned ==
  ASSUME JobsInv, NEW t \in Task, NEW at, NEW next, NEW held, NEW who, NEW amt,
         NEW read, NEW row, NEW due, NEW todo, NEW loop, NEW s, Becomes(t, s),
         task'[t] = [at |-> at, next |-> next, job |-> held, who |-> who, amt |-> amt,
                     read |-> read, row |-> row, due |-> due, todo |-> todo,
                     loop |-> loop]
  PROVE  Turns(t, IF next # "idle" THEN next ELSE at, held, row, due, todo)
<1>1. DOMAIN task = Task
  BY DEF JobsInv, TaskInv
<1>2. DOMAIN task' = Task /\ \A u \in Task \ {t} : task'[u] = task[u]
  BY <1>1 DEF Becomes
<1> QED BY <1>2 DEF Turns, On

LEMMA OnIs ==
  ASSUME JobsInv, NEW t \in Task
  PROVE  /\ task[t].at \notin Booking => On(task[t]) = task[t].at /\ task[t].next = "idle"
         /\ task[t].next = "idle" => On(task[t]) = task[t].at
         /\ task[t].next # "idle" => On(task[t]) = task[t].next
         /\ task[t].next \in AfterTerm
         /\ On(task[t]) \in InCleanup <=> task[t].at \in InCleanup \/ task[t].next \in InCleanup
BY Shape DEF Shaped, On, Booking, AfterTerm, InCleanup

LEMMA GoesBy ==
  ASSUME JobsInv, NEW t \in Task, NEW at, Goto(t, at), task[t].next = "idle"
  PROVE  Goes(t, at)
<1>1. Shaped(task[t])
  BY Shape
<1>2. task'[t] =
        [at |-> at, next |-> task[t].next, job |-> task[t].job, who |-> task[t].who,
         amt |-> task[t].amt, read |-> task[t].read, row |-> task[t].row,
         due |-> task[t].due, todo |-> task[t].todo, loop |-> task[t].loop]
  <2>1. task'[t] = [task[t] EXCEPT !.at = at]
    BY BecomesIs DEF Goto
  <2> QED BY <1>1, <2>1 DEF Shaped
<1>3. Turns(t, IF task[t].next # "idle" THEN task[t].next ELSE at, task[t].job,
            task[t].row, task[t].due, task[t].todo)
  BY <1>2, Turned DEF Goto
<1> QED BY <1>3 DEF Goes

LEMMA DoneRests ==
  ASSUME JobsInv, NEW t \in Task, Done(t)
  PROVE  Rests(t) /\ Turns(t, "idle", {}, NoJob, NoShares, {})
<1>1. Turns(t, "idle", {}, NoJob, NoShares, {})
  <2>1. task'[t] = [at |-> "idle", next |-> "idle", job |-> {}, who |-> {}, amt |-> 0,
                    read |-> 0, row |-> NoJob, due |-> NoShares, todo |-> {},
                    loop |-> FALSE]
    <3>1. task'[t] = Idle
      BY BecomesIs DEF Done
    <3> QED BY <3>1, IdleIs
  <2>2. Turns(t, IF "idle" # "idle" THEN "idle" ELSE "idle", {}, NoJob, NoShares, {})
    BY <2>1, Turned DEF Done
  <2> QED BY <2>2
<1> QED BY <1>1 DEF Turns, Rests, Away, InCleanup

(* The steps that only move money, time or a coroutine's bookkeeping.      *)
LEMMA QuietEffects ==
  ASSUME JobsInv, NEW t \in Task
  PROVE  /\ StartTerm(t) \/ Allocate(t) \/ BeginPosting(t) \/ EndPosting(t) =>
              Rests(t) /\ Is(t, Away)
         /\ \A n \in Bonus : SpendOnSubsidy(t, n) => Rests(t) /\ Is(t, Away)
         /\ Crash(t) => Rests(t)
         /\ EndCleanup(t) => Rests(t) /\ Is(t, {"expiredUnfunded"}) /\ task[t].todo = {}
         /\ ReadBudget(t) \/ SaveTerm(t) =>
              \/ Rests(t) /\ Is(t, Away)
              \/ Goes(t, On(task[t])) /\ ~Is(t, Away)
<1>0. Shaped(task[t])
  BY Shape
<1>1. ASSUME task[t].at = "idle" \/ task[t].at = "allocate", task[t].next = "idle",
             NEW at \in Away, Goto(t, at)
      PROVE  Rests(t) /\ Is(t, Away)
  <2>1. Goes(t, at)
    BY <1>1, GoesBy
  <2> QED BY <1>1, <2>1, OnIs DEF Goes, Turns, Rests, Is, InCleanup, Away
<1>2. StartTerm(t) \/ Allocate(t) => Rests(t) /\ Is(t, Away)
  BY <1>1, OnIs DEF StartTerm, Allocate, Begins, Resumes, Booking, Away
<1>3. \A n \in Bonus : SpendOnSubsidy(t, n) => Rests(t) /\ Is(t, Away)
  BY <1>1, OnIs DEF SpendOnSubsidy, Begins, Booking, Away
<1>4. BeginPosting(t) => Rests(t) /\ Is(t, Away)
  <2> SUFFICES ASSUME BeginPosting(t) PROVE Rests(t) /\ Is(t, Away)
    OBVIOUS
  <2> DEFINE row == [NoJob EXCEPT !.funded = inOffice]
  <2>1. Becomes(t, [Idle EXCEPT !.at = "posting", !.loop = TRUE, !.amt = termBudget,
                                !.row = row]) /\ task[t].at = "idle"
    BY DEF BeginPosting, Begins
  <2> HIDE DEF row
  <2>2. task'[t] = [at |-> "posting", next |-> "idle", job |-> {}, who |-> {},
                    amt |-> termBudget, read |-> 0, row |-> row, due |-> NoShares,
                    todo |-> {}, loop |-> TRUE]
    <3>1. task'[t] = [Idle EXCEPT !.at = "posting", !.loop = TRUE, !.amt = termBudget,
                                  !.row = row]
      BY <2>1, BecomesIs
    <3> QED BY <3>1, IdleIs
  <2>3. Turns(t, IF "idle" # "idle" THEN "idle" ELSE "posting", {}, row, NoShares, {})
    BY <2>1, <2>2, Turned
  <2>4. Is(t, Away)
    BY <2>1, OnIs DEF Is, Booking, Away
  <2> QED BY <2>3, <2>4 DEF Turns, Rests, Away, InCleanup
<1>5. EndPosting(t) => Rests(t) /\ Is(t, Away)
  BY DoneRests, OnIs DEF EndPosting, Resumes, Is, Booking, Away
<1>6. Crash(t) => Rests(t)
  BY DoneRests DEF Crash
<1>7. EndCleanup(t) => Rests(t) /\ Is(t, {"expiredUnfunded"}) /\ task[t].todo = {}
  BY DoneRests, OnIs DEF EndCleanup, Resumes, Is, Booking
<1>8. ReadBudget(t) =>
        \/ Rests(t) /\ Is(t, Away)
        \/ Goes(t, On(task[t])) /\ ~Is(t, Away)
  <2> SUFFICES ASSUME ReadBudget(t)
               PROVE  \/ Rests(t) /\ Is(t, Away)
                      \/ Goes(t, On(task[t])) /\ ~Is(t, Away)
    OBVIOUS
  <2>1. /\ task[t].at = "readTerm"
        /\ Becomes(t, [task[t] EXCEPT !.at = "saveTerm", !.read = budget])
    BY DEF ReadBudget, Resumes
  <2>2. task'[t] = [at |-> "saveTerm", next |-> task[t].next, job |-> task[t].job,
                    who |-> task[t].who, amt |-> task[t].amt, read |-> budget,
                    row |-> task[t].row, due |-> task[t].due, todo |-> task[t].todo,
                    loop |-> task[t].loop]
    <3>1. task'[t] = [task[t] EXCEPT !.at = "saveTerm", !.read = budget]
      BY <2>1, BecomesIs
    <3> QED BY <1>0, <3>1 DEF Shaped
  <2>3. Turns(t, IF task[t].next # "idle" THEN task[t].next ELSE "saveTerm", task[t].job,
              task[t].row, task[t].due, task[t].todo)
    BY <2>1, <2>2, Turned
  <2> QED BY <2>1, <2>3, OnIs DEF Goes, Turns, Rests, Is, Away, AfterTerm, InCleanup
<1>9. SaveTerm(t) =>
        \/ Rests(t) /\ Is(t, Away)
        \/ Goes(t, On(task[t])) /\ ~Is(t, Away)
  <2> SUFFICES ASSUME SaveTerm(t)
               PROVE  \/ Rests(t) /\ Is(t, Away)
                      \/ Goes(t, On(task[t])) /\ ~Is(t, Away)
    OBVIOUS
  <2>1. task[t].at = "saveTerm"
    BY DEF SaveTerm, Resumes
  <2>2. CASE task[t].next = "idle"
    BY <2>1, <2>2, DoneRests, OnIs DEF SaveTerm, Is, Away
  <2>3. CASE task[t].next # "idle"
    <3>1. Becomes(t, [task[t] EXCEPT !.at = task[t].next, !.next = "idle", !.read = 0])
      BY <2>3 DEF SaveTerm
    <3>2. task'[t] = [at |-> task[t].next, next |-> "idle", job |-> task[t].job,
                      who |-> task[t].who, amt |-> task[t].amt, read |-> 0,
                      row |-> task[t].row, due |-> task[t].due, todo |-> task[t].todo,
                      loop |-> task[t].loop]
      <4>1. task'[t] = [task[t] EXCEPT !.at = task[t].next, !.next = "idle", !.read = 0]
        BY <3>1, BecomesIs
      <4> QED BY <1>0, <4>1 DEF Shaped
    <3>3. Turns(t, IF "idle" # "idle" THEN "idle" ELSE task[t].next, task[t].job,
                task[t].row, task[t].due, task[t].todo)
      BY <3>1, <3>2, Turned
    <3> QED BY <2>3, <3>3, OnIs DEF Goes, Is, Away, AfterTerm
  <2> QED BY <2>2, <2>3
<1> QED BY <1>2, <1>3, <1>4, <1>5, <1>6, <1>7, <1>8, <1>9

(* A job is posted: its row, and the coroutine that posts it.              *)
Posts(t, j, q, n, f) ==
  /\ Is(t, Away) /\ ~Posted(j)
  /\ DOMAIN job' = Job /\ job'[j] = NewJob(q, n, f)
  /\ \A k \in Job \ {j} : job'[k] = job[k]
  /\ DOMAIN task' = Task /\ \A u \in Task \ {t} : task'[u] = task[u]
  /\ On(task'[t]) = (IF f THEN "escrow" ELSE "publish")
  /\ task'[t].job = {j} /\ task'[t].row.bonus = n
  /\ task'[t].due \in {task[t].due, NoShares}
  /\ task'[t].todo \in {{}, task[t].todo}

LEMMA PostEffects ==
  ASSUME JobsInv, NEW t \in Task, NEW j \in Job, NEW q \in Size, NEW n \in Bonus
  PROVE  PostJob(t, j, q, n) \/ PostByCommand(t, j, q, n)
           => \E f \in BOOLEAN : Posts(t, j, q, n, f)
<1>0. Shaped(task[t]) /\ task[t].row \in Row /\ DOMAIN job = Job /\ inOffice \in BOOLEAN
  BY Shape DEF JobsInv, JobInv, MinistryType
<1>1. ASSUME PostJob(t, j, q, n) PROVE \E f \in BOOLEAN : Posts(t, j, q, n, f)
  <2> DEFINE f == task[t].row.funded
             at == IF f THEN "escrow" ELSE "publish"
             row == [task[t].row EXCEPT !.bonus = n]
  <2>1. /\ task[t].at = "posting" /\ ~Posted(j) /\ Write(j, NewJob(q, n, f))
        /\ Becomes(t, [task[t] EXCEPT !.job = {j}, !.row.bonus = n, !.at = at])
    BY <1>1 DEF PostJob, Resumes, Posted
  <2>2. f \in BOOLEAN /\ row.bonus = n
    BY <1>0 DEF Row
  <2>3. /\ DOMAIN job' = Job /\ job'[j] = NewJob(q, n, f)
        /\ \A k \in Job \ {j} : job'[k] = job[k]
    BY <1>0, <2>1 DEF Write
  <2>4. task'[t] = [at |-> at, next |-> "idle", job |-> {j},
                    who |-> task[t].who, amt |-> task[t].amt, read |-> task[t].read,
                    row |-> row, due |-> task[t].due,
                    todo |-> task[t].todo, loop |-> task[t].loop]
    <3>1. task'[t] = [task[t] EXCEPT !.job = {j}, !.row.bonus = n, !.at = at]
      BY <2>1, BecomesIs
    <3>2. task[t].next = "idle"
      BY <2>1, OnIs DEF Booking
    <3> QED BY <1>0, <3>1, <3>2 DEF Shaped
  <2>5. Is(t, Away)
    BY <2>1, OnIs DEF Is, Away, Booking
  <2> HIDE DEF f, at, row
  <2>6. Turns(t, IF "idle" # "idle" THEN "idle" ELSE at, {j}, row, task[t].due,
              task[t].todo)
    BY <2>1, <2>4, Turned
  <2>7. at = IF f THEN "escrow" ELSE "publish"
    BY DEF at
  <2> QED BY <2>1, <2>2, <2>3, <2>5, <2>6, <2>7 DEF Posts, Turns
<1>2. ASSUME PostByCommand(t, j, q, n) PROVE \E f \in BOOLEAN : Posts(t, j, q, n, f)
  <2> DEFINE at == IF inOffice THEN "escrow" ELSE "publish"
             row == [NoJob EXCEPT !.funded = inOffice, !.bonus = n]
  <2>1. /\ task[t].at = "idle" /\ ~Posted(j) /\ Write(j, NewJob(q, n, inOffice))
        /\ Becomes(t, [Idle EXCEPT !.job = {j}, !.row = row, !.at = at])
    BY <1>2 DEF PostByCommand, Begins, Posted
  <2>2. row.bonus = n
    BY DEF NoJob
  <2>3. /\ DOMAIN job' = Job /\ job'[j] = NewJob(q, n, inOffice)
        /\ \A k \in Job \ {j} : job'[k] = job[k]
    BY <1>0, <2>1 DEF Write
  <2> HIDE DEF row
  <2>4. task'[t] = [at |-> at, next |-> "idle", job |-> {j}, who |-> {}, amt |-> 0,
                    read |-> 0, row |-> row, due |-> NoShares, todo |-> {},
                    loop |-> FALSE]
    <3>1. task'[t] = [Idle EXCEPT !.job = {j}, !.row = row, !.at = at]
      BY <2>1, BecomesIs
    <3> QED BY <3>1, IdleIs
  <2>5. Is(t, Away)
    BY <2>1, OnIs DEF Is, Away, Booking
  <2> HIDE DEF at
  <2>6. Turns(t, IF "idle" # "idle" THEN "idle" ELSE at, {j}, row, NoShares, {})
    BY <2>1, <2>4, Turned
  <2>7. at = IF inOffice THEN "escrow" ELSE "publish"
    BY DEF at
  <2> QED BY <1>0, <2>1, <2>2, <2>3, <2>5, <2>6, <2>7 DEF Posts, Turns
<1> QED BY <1>1, <1>2

(* The coroutine's own job.                                                *)
LEMMA MineIs ==
  ASSUME JobsInv, NEW t \in Task, Is(t, Working)
  PROVE  Mine(t) \in Job /\ task[t].job = {Mine(t)} /\ Posted(Mine(t))
<1>1. task[t].at \in Working \/ task[t].next # "idle"
  BY DEF Is, On
<1> QED BY <1>1, MineIsPosted DEF JobsInv

LEMMA GoesFrom ==
  ASSUME JobsInv, NEW t \in Task, NEW at, NEW on, task[t].at = on, on \notin Booking,
         Goto(t, at)
  PROVE  Is(t, {on}) /\ Goes(t, at)
BY OnIs, GoesBy DEF Is

LEMMA PostingEffects ==
  ASSUME JobsInv, NEW t \in Task
  PROVE  /\ CheckEscrow(t) => /\ Is(t, {"escrow"})
                              /\ Goes(t, "publish") \/ Goes(t, "escrowJournal")
         /\ EscrowJournal(t) => /\ Is(t, {"escrowJournal"}) /\ Goes(t, "saveEscrowed")
                                /\ escrow' = escrow + task[t].row.bonus
         /\ SaveEscrowed(t) => /\ Is(t, {"saveEscrowed"}) /\ Goes(t, "publish")
                               /\ Only(Mine(t), "escrowed")
                               /\ job'[Mine(t)].escrowed = task[t].row.bonus
         /\ Publish(t) => /\ Is(t, {"publish"}) /\ Rests(t)
                          /\ Only(Mine(t), "stage")
                          /\ job'[Mine(t)].stage = "visible"
<1>0. Shaped(task[t])
  BY Shape
<1>1. CheckEscrow(t) => /\ Is(t, {"escrow"})
                        /\ Goes(t, "publish") \/ Goes(t, "escrowJournal")
  BY GoesFrom DEF CheckEscrow, Resumes, Booking
<1>2. ASSUME EscrowJournal(t)
      PROVE  /\ Is(t, {"escrowJournal"}) /\ Goes(t, "saveEscrowed")
             /\ escrow' = escrow + task[t].row.bonus
  <2>1. /\ task[t].at = "escrowJournal"
        /\ Becomes(t, [task[t] EXCEPT !.at = "readTerm", !.next = "saveEscrowed"])
        /\ escrow' = escrow + task[t].row.bonus
    BY <1>2 DEF EscrowJournal, Resumes, MoveToEscrow
  <2>2. task'[t] = [at |-> "readTerm", next |-> "saveEscrowed", job |-> task[t].job,
                    who |-> task[t].who, amt |-> task[t].amt, read |-> task[t].read,
                    row |-> task[t].row, due |-> task[t].due, todo |-> task[t].todo,
                    loop |-> task[t].loop]
    <3>1. task'[t] = [task[t] EXCEPT !.at = "readTerm", !.next = "saveEscrowed"]
      BY <2>1, BecomesIs
    <3> QED BY <1>0, <3>1 DEF Shaped
  <2>3. Turns(t, IF "saveEscrowed" # "idle" THEN "saveEscrowed" ELSE "readTerm",
              task[t].job, task[t].row, task[t].due, task[t].todo)
    BY <2>1, <2>2, Turned
  <2> QED BY <2>1, <2>3, OnIs DEF Goes, Is, Booking
<1>3. ASSUME SaveEscrowed(t)
      PROVE  /\ Is(t, {"saveEscrowed"}) /\ Goes(t, "publish")
             /\ Only(Mine(t), "escrowed")
             /\ job'[Mine(t)].escrowed = task[t].row.bonus
  <2>1. Is(t, {"saveEscrowed"}) /\ Goes(t, "publish")
    BY <1>3, GoesFrom DEF SaveEscrowed, Resumes, Booking
  <2>2. Mine(t) \in Job
    BY <2>1, MineIs DEF Is, Working
  <2> QED BY <1>3, <2>1, <2>2, OnlyField DEF SaveEscrowed
<1>4. ASSUME Publish(t)
      PROVE  /\ Is(t, {"publish"}) /\ Rests(t)
             /\ Only(Mine(t), "stage") /\ job'[Mine(t)].stage = "visible"
  <2>1. task[t].at = "publish" /\ Is(t, {"publish"}) /\ task[t].next = "idle"
    BY <1>4, OnIs DEF Publish, Resumes, Booking, Is
  <2>2. Mine(t) \in Job
    BY <2>1, MineIs DEF Is, Working
  <2>3. Only(Mine(t), "stage") /\ job'[Mine(t)].stage = "visible"
    BY <1>4, <2>2, OnlyField DEF Publish
  <2>4. CASE ~task[t].loop
    BY <1>4, <2>1, <2>3, <2>4, DoneRests DEF Publish
  <2>5. CASE task[t].loop
    <3> DEFINE row == [task[t].row EXCEPT !.bonus = 0]
    <3>1. Becomes(t, [task[t] EXCEPT !.at = "posting", !.job = {}, !.row.bonus = 0])
      BY <1>4, <2>5 DEF Publish
    <3>2. task'[t] = [at |-> "posting", next |-> "idle", job |-> {},
                      who |-> task[t].who, amt |-> task[t].amt, read |-> task[t].read,
                      row |-> row, due |-> task[t].due, todo |-> task[t].todo,
                      loop |-> task[t].loop]
      <4>1. task'[t] = [task[t] EXCEPT !.at = "posting", !.job = {}, !.row.bonus = 0]
        BY <3>1, BecomesIs
      <4> QED BY <1>0, <2>1, <4>1 DEF Shaped
    <3> HIDE DEF row
    <3>3. Turns(t, IF "idle" # "idle" THEN "idle" ELSE "posting", {}, row, task[t].due,
                task[t].todo)
      BY <3>1, <3>2, Turned
    <3>4. ~Is(t, InCleanup)
      BY <2>1 DEF Is, InCleanup
    <3> QED BY <2>1, <2>3, <3>3, <3>4 DEF Turns, Rests, Away
  <2> QED BY <2>4, <2>5
<1> QED BY <1>1, <1>2, <1>3, <1>4

LEMMA ExpireEffects ==
  ASSUME JobsInv, NEW j \in Job, Expire(j)
  PROVE  Only(j, "expired") /\ job'[j].expired /\ Posted(j)
BY OnlyField DEF Expire, Posted

LEMMA FindEffects ==
  ASSUME JobsInv, NEW t \in Task, NEW j \in Job, NEW c \in Character, NEW q \in Quantity,
         FindJob(t, j, c, q)
  PROVE  /\ Is(t, Away) /\ Active(j)
         /\ \E row : Turns(t, "deliver", {j}, row, NoShares, {})
<1> DEFINE row == [NoJob EXCEPT !.fulfilled = job[j].fulfilled]
<1>1. /\ task[t].at = "idle" /\ Active(j)
      /\ Becomes(t, [Idle EXCEPT !.at = "deliver", !.job = {j}, !.who = {c}, !.amt = q,
                                 !.row.fulfilled = job[j].fulfilled])
  BY DEF FindJob, Begins
<1>2. task'[t] = [at |-> "deliver", next |-> "idle", job |-> {j}, who |-> {c},
                  amt |-> q, read |-> 0, row |-> row, due |-> NoShares, todo |-> {},
                  loop |-> FALSE]
  <2>1. task'[t] = [Idle EXCEPT !.at = "deliver", !.job = {j}, !.who = {c}, !.amt = q,
                                !.row.fulfilled = job[j].fulfilled]
    BY <1>1, BecomesIs
  <2> QED BY <2>1, IdleIs
<1> HIDE DEF row
<1>3. Turns(t, IF "idle" # "idle" THEN "idle" ELSE "deliver", {j}, row, NoShares, {})
  BY <1>1, <1>2, Turned
<1> QED BY <1>1, <1>3, OnIs DEF Is, Away, Booking

LEMMA ProcessEffects ==
  ASSUME JobsInv, NEW t \in Task, NEW i, ProcessDelivery(t, i)
  PROVE  /\ Is(t, {"deliver"}) /\ Only(Mine(t), "fulfilled")
         /\ task[t].amt \in Quantity
         /\ job'[Mine(t)].fulfilled = job[Mine(t)].fulfilled
              + Least(job[Mine(t)].requested - job[Mine(t)].fulfilled, task[t].amt)
         /\ i \in 0 .. Len(log[Mine(t)])
         /\ \E c \in Character :
              log' = [log EXCEPT ![Mine(t)] =
                        Insert(log[Mine(t)], i, [who |-> c, qty |-> task[t].amt])]
         /\ \/ Rests(t)
            \/ /\ Turns(t, "claim", {Mine(t)}, NoJob, NoShares, {})
               /\ job'[Mine(t)].fulfilled >= job'[Mine(t)].requested
<1> DEFINE c == CHOOSE c \in Character : task[t].who = {c}
           e == [who |-> c, qty |-> task[t].amt]
<1>1. task[t].at = "deliver" /\ Is(t, {"deliver"})
  BY OnIs DEF ProcessDelivery, Resumes, Booking, Is
<1>2. Carries(task[t])
  BY Shape
<1>3. c \in Character /\ task[t].amt \in Quantity
  <2>1. task[t].amt \in Quantity /\ \E d \in Character : task[t].who = {d}
    BY <1>1, <1>2 DEF Carries
  <2> QED BY <2>1
<1> HIDE DEF c
<1>m. PICK j \in Job : j = Mine(t)
  BY <1>1, MineIs DEF Is, Working
<1>4. /\ Write(j, [job[j] EXCEPT !.fulfilled = job[j].fulfilled
                                   + Least(job[j].requested - job[j].fulfilled, task[t].amt)])
      /\ i \in 0 .. Len(log[j])
      /\ log' = [log EXCEPT ![j] = Insert(log[j], i, e)]
      /\ \/ Done(t)
         \/ /\ job'[j].fulfilled >= job'[j].requested
            /\ Becomes(t, [Idle EXCEPT !.at = "claim", !.job = {j}])
  BY <1>m DEF ProcessDelivery, LogDelivery, c
<1>5. /\ Only(j, "fulfilled")
      /\ job'[j].fulfilled = job[j].fulfilled
              + Least(job[j].requested - job[j].fulfilled, task[t].amt)
  BY <1>4, OnlyField
<1>6. \/ Rests(t)
      \/ /\ Turns(t, "claim", {j}, NoJob, NoShares, {})
         /\ job'[j].fulfilled >= job'[j].requested
  <2>1. CASE Done(t)
    BY <2>1, DoneRests
  <2>2. CASE /\ job'[j].fulfilled >= job'[j].requested
             /\ Becomes(t, [Idle EXCEPT !.at = "claim", !.job = {j}])
    <3>1. task'[t] = [at |-> "claim", next |-> "idle", job |-> {j}, who |-> {},
                      amt |-> 0, read |-> 0, row |-> NoJob, due |-> NoShares,
                      todo |-> {}, loop |-> FALSE]
      <4>1. task'[t] = [Idle EXCEPT !.at = "claim", !.job = {j}]
        BY <2>2, BecomesIs
      <4> QED BY <4>1, IdleIs
    <3>2. Turns(t, IF "idle" # "idle" THEN "idle" ELSE "claim", {j}, NoJob, NoShares, {})
      BY <2>2, <3>1, Turned
    <3> QED BY <2>2, <3>2
  <2> QED BY <1>4, <2>1, <2>2
<1> QED BY <1>1, <1>3, <1>m, <1>4, <1>5, <1>6

LEMMA ClaimEffects ==
  ASSUME JobsInv, NEW t \in Task, ClaimJob(t)
  PROVE  /\ Is(t, {"claim"})
         /\ \/ job[Mine(t)].claimed /\ Rests(t) /\ UNCHANGED <<job, granted, late>>
            \/ /\ ~job[Mine(t)].claimed /\ Goes(t, "refresh")
               /\ Only(Mine(t), "claimed") /\ job'[Mine(t)].claimed
               /\ granted' = [granted EXCEPT ![Mine(t)] = granted[Mine(t)]
                                                          + job[Mine(t)].promise]
               /\ late' = IF job[Mine(t)].expired THEN late \cup {Mine(t)} ELSE late
<1>1. task[t].at = "claim" /\ Is(t, {"claim"}) /\ task[t].next = "idle"
  BY OnIs DEF ClaimJob, Resumes, Booking, Is
<1>m. PICK j \in Job : j = Mine(t)
  BY <1>1, MineIs DEF Is, Working
<1>2. CASE job[j].claimed
  BY <1>1, <1>m, <1>2, DoneRests DEF ClaimJob
<1>3. CASE ~job[j].claimed
  <2>1. /\ Write(j, [job[j] EXCEPT !.claimed = TRUE]) /\ Goto(t, "refresh")
        /\ granted' = [granted EXCEPT ![j] = granted[j] + job[j].promise]
        /\ late' = IF job[j].expired THEN late \cup {j} ELSE late
    BY <1>m, <1>3 DEF ClaimJob
  <2>2. Only(j, "claimed") /\ job'[j].claimed = TRUE
    BY <2>1, OnlyField
  <2> QED BY <1>1, <1>m, <1>3, <2>1, <2>2, GoesBy
<1> QED BY <1>2, <1>3

LEMMA SettleEffects ==
  ASSUME JobsInv, NEW t \in Task
  PROVE  /\ RefreshJob(t) =>
              /\ Is(t, {"refresh"})
              /\ \/ Rests(t) /\ job[Mine(t)].bonus = 0
                 \/ Turns(t, "readLog", task[t].job, job[Mine(t)], task[t].due, task[t].todo)
         /\ ReadDeliveries(t) =>
              /\ Is(t, {"readLog"})
              /\ \/ Rests(t) /\ (task[t].row.fulfilled = 0 \/ log[Mine(t)] = <<>>)
                 \/ /\ task[t].row.fulfilled # 0
                    /\ Turns(t, "paying", task[t].job, task[t].row,
                             Shares(log[Mine(t)], task[t].row.requested,
                                    task[t].row.fulfilled, task[t].row.bonus),
                             task[t].todo)
         /\ \A c \in Character : PayContributor(t, c) =>
              /\ Is(t, {"paying", "payingPartial"})
              /\ Turns(t, On(task[t]), task[t].job, task[t].row,
                       [task[t].due EXCEPT ![c] = 0], task[t].todo)
         /\ SpendJobEscrow(t) =>
              /\ Is(t, {"paying"}) /\ (Goes(t, "rebate") \/ Goes(t, "boost"))
              /\ escrow' = escrow - task[t].row.escrowed
         /\ GrantRebate(t) => Is(t, {"rebate"}) /\ Goes(t, "boost") /\ UNCHANGED escrow
         /\ BoostTemplate(t) =>
              /\ Is(t, {"boost"}) \/ (Is(t, {"paying"}) /\ ~task[t].row.funded)
              /\ Rests(t) /\ Only(Mine(t), "completions")
              /\ job'[Mine(t)].completions = job[Mine(t)].completions + 1
<1>0. Shaped(task[t])
  BY Shape
<1>1. ASSUME RefreshJob(t)
      PROVE  /\ Is(t, {"refresh"})
             /\ \/ Rests(t) /\ job[Mine(t)].bonus = 0
                \/ Turns(t, "readLog", task[t].job, job[Mine(t)], task[t].due, task[t].todo)
  <2>1. task[t].at = "refresh" /\ Is(t, {"refresh"}) /\ task[t].next = "idle"
    BY <1>1, OnIs DEF RefreshJob, Resumes, Booking, Is
  <2> DEFINE row == job[Mine(t)]
  <2>2. \/ Done(t) /\ row.bonus = 0
        \/ Becomes(t, [task[t] EXCEPT !.at = "readLog", !.row = row])
    BY <1>1 DEF RefreshJob
  <2>3. ASSUME Becomes(t, [task[t] EXCEPT !.at = "readLog", !.row = row])
        PROVE  Turns(t, "readLog", task[t].job, row, task[t].due, task[t].todo)
    <3> HIDE DEF row
    <3>1. task'[t] = [at |-> "readLog", next |-> "idle", job |-> task[t].job,
                      who |-> task[t].who, amt |-> task[t].amt, read |-> task[t].read,
                      row |-> row, due |-> task[t].due, todo |-> task[t].todo,
                      loop |-> task[t].loop]
      <4>1. task'[t] = [task[t] EXCEPT !.at = "readLog", !.row = row]
        BY <2>3, BecomesIs
      <4> QED BY <1>0, <2>1, <4>1 DEF Shaped
    <3>2. Turns(t, IF "idle" # "idle" THEN "idle" ELSE "readLog", task[t].job, row,
                task[t].due, task[t].todo)
      BY <2>3, <3>1, Turned
    <3> QED BY <3>2
  <2> QED BY <2>1, <2>2, <2>3, DoneRests
<1>2. ASSUME ReadDeliveries(t)
      PROVE  /\ Is(t, {"readLog"})
             /\ \/ Rests(t) /\ (task[t].row.fulfilled = 0 \/ log[Mine(t)] = <<>>)
                \/ /\ task[t].row.fulfilled # 0
                   /\ Turns(t, "paying", task[t].job, task[t].row,
                            Shares(log[Mine(t)], task[t].row.requested,
                                   task[t].row.fulfilled, task[t].row.bonus),
                            task[t].todo)
  <2>1. task[t].at = "readLog" /\ Is(t, {"readLog"}) /\ task[t].next = "idle"
    BY <1>2, OnIs DEF ReadDeliveries, Resumes, Booking, Is
  <2> DEFINE due == Shares(log[Mine(t)], task[t].row.requested,
                           task[t].row.fulfilled, task[t].row.bonus)
  <2>2. \/ Done(t) /\ (task[t].row.fulfilled = 0 \/ log[Mine(t)] = <<>>)
        \/ /\ task[t].row.fulfilled # 0
           /\ Becomes(t, [task[t] EXCEPT !.at = "paying", !.due = due])
    BY <1>2 DEF ReadDeliveries
  <2>3. ASSUME Becomes(t, [task[t] EXCEPT !.at = "paying", !.due = due])
        PROVE  Turns(t, "paying", task[t].job, task[t].row, due, task[t].todo)
    <3> HIDE DEF due
    <3>1. task'[t] = [at |-> "paying", next |-> "idle", job |-> task[t].job,
                      who |-> task[t].who, amt |-> task[t].amt, read |-> task[t].read,
                      row |-> task[t].row, due |-> due, todo |-> task[t].todo,
                      loop |-> task[t].loop]
      <4>1. task'[t] = [task[t] EXCEPT !.at = "paying", !.due = due]
        BY <2>3, BecomesIs
      <4> QED BY <1>0, <2>1, <4>1 DEF Shaped
    <3>2. Turns(t, IF "idle" # "idle" THEN "idle" ELSE "paying", task[t].job, task[t].row,
                due, task[t].todo)
      BY <2>3, <3>1, Turned
    <3> QED BY <3>2
  <2> QED BY <2>1, <2>2, <2>3, DoneRests
<1>3. ASSUME NEW c \in Character, PayContributor(t, c)
      PROVE  /\ Is(t, {"paying", "payingPartial"})
             /\ Turns(t, On(task[t]), task[t].job, task[t].row,
                      [task[t].due EXCEPT ![c] = 0], task[t].todo)
  <2>1. /\ task[t].at \in {"paying", "payingPartial"} /\ task[t].next = "idle"
        /\ Is(t, {"paying", "payingPartial"}) /\ On(task[t]) = task[t].at
    BY <1>3, OnIs DEF PayContributor, Booking, Is
  <2> DEFINE due == [task[t].due EXCEPT ![c] = 0]
  <2>2. Becomes(t, [task[t] EXCEPT !.due[c] = 0])
    BY <1>3 DEF PayContributor
  <2>3. task'[t] = [at |-> task[t].at, next |-> "idle", job |-> task[t].job,
                    who |-> task[t].who, amt |-> task[t].amt, read |-> task[t].read,
                    row |-> task[t].row, due |-> due, todo |-> task[t].todo,
                    loop |-> task[t].loop]
    <3>1. task'[t] = [task[t] EXCEPT !.due[c] = 0]
      BY <2>2, BecomesIs
    <3> QED BY <1>0, <2>1, <3>1 DEF Shaped
  <2> HIDE DEF due
  <2>4. Turns(t, IF "idle" # "idle" THEN "idle" ELSE task[t].at, task[t].job,
              task[t].row, due, task[t].todo)
    BY <2>2, <2>3, Turned
  <2>5. Turns(t, On(task[t]), task[t].job, task[t].row, due, task[t].todo)
    BY <2>1, <2>4
  <2> QED BY <2>1, <2>5 DEF due
<1>4. ASSUME SpendJobEscrow(t)
      PROVE  /\ Is(t, {"paying"}) /\ (Goes(t, "rebate") \/ Goes(t, "boost"))
             /\ escrow' = escrow - task[t].row.escrowed
  BY <1>4, GoesFrom DEF SpendJobEscrow, AllPaid, Resumes, Booking, SpendEscrow
<1>5. ASSUME GrantRebate(t)
      PROVE  Is(t, {"rebate"}) /\ Goes(t, "boost") /\ UNCHANGED escrow
  <2>1. /\ task[t].at = "rebate" /\ UNCHANGED escrow
        /\ Becomes(t, [task[t] EXCEPT !.at = "readTerm", !.next = "boost"])
    BY <1>5 DEF GrantRebate, Resumes, ReceiveRebate
  <2>2. task'[t] = [at |-> "readTerm", next |-> "boost", job |-> task[t].job,
                    who |-> task[t].who, amt |-> task[t].amt, read |-> task[t].read,
                    row |-> task[t].row, due |-> task[t].due, todo |-> task[t].todo,
                    loop |-> task[t].loop]
    <3>1. task'[t] = [task[t] EXCEPT !.at = "readTerm", !.next = "boost"]
      BY <2>1, BecomesIs
    <3> QED BY <1>0, <3>1 DEF Shaped
  <2>3. Turns(t, IF "boost" # "idle" THEN "boost" ELSE "readTerm", task[t].job,
              task[t].row, task[t].due, task[t].todo)
    BY <2>1, <2>2, Turned
  <2> QED BY <2>1, <2>3, OnIs DEF Goes, Is, Booking
<1>6. ASSUME BoostTemplate(t)
      PROVE  /\ Is(t, {"boost"}) \/ (Is(t, {"paying"}) /\ ~task[t].row.funded)
             /\ Rests(t) /\ Only(Mine(t), "completions")
             /\ job'[Mine(t)].completions = job[Mine(t)].completions + 1
  <2>1. Is(t, {"boost"}) \/ (Is(t, {"paying"}) /\ ~task[t].row.funded)
    BY <1>6, OnIs DEF BoostTemplate, AllPaid, Resumes, Booking, Is
  <2>2. Mine(t) \in Job
    BY <2>1, MineIs DEF Is, Working
  <2>3. /\ Write(Mine(t), [job[Mine(t)] EXCEPT !.completions = job[Mine(t)].completions + 1])
        /\ Done(t)
    BY <1>6 DEF BoostTemplate
  <2> QED BY <2>1, <2>2, <2>3, OnlyField, DoneRests
<1> QED BY <1>1, <1>2, <1>3, <1>4, <1>5, <1>6

LEMMA FinishEffects ==
  ASSUME JobsInv, NEW t \in Task, NEW j \in Job, FinishJob(t, j)
  PROVE  /\ Is(t, Away) /\ job[j].stage = "visible"
         /\ Turns(t, "readLog", {j}, job[j], NoShares, {})
<1>1. /\ task[t].at = "idle" /\ job[j].stage = "visible"
      /\ Becomes(t, [Idle EXCEPT !.at = "readLog", !.job = {j}, !.row = job[j]])
  BY DEF FinishJob, Begins
<1>2. task'[t] = [at |-> "readLog", next |-> "idle", job |-> {j}, who |-> {}, amt |-> 0,
                  read |-> 0, row |-> job[j], due |-> NoShares, todo |-> {},
                  loop |-> FALSE]
  <2>1. task'[t] = [Idle EXCEPT !.at = "readLog", !.job = {j}, !.row = job[j]]
    BY <1>1, BecomesIs
  <2> QED BY <2>1, IdleIs
<1>3. Turns(t, IF "idle" # "idle" THEN "idle" ELSE "readLog", {j}, job[j], NoShares, {})
  BY <1>1, <1>2, Turned
<1> QED BY <1>1, <1>3, OnIs DEF Is, Away, Booking

Refundables   == {j \in Job : Unsettled(j) /\ job[j].funded /\ job[j].escrowed > 0}
Penalizables == {j \in Job : /\ Unsettled(j) /\ ~job[j].funded /\ job[j].bonus > 0
                             /\ granted[j] < MaxGrants * job[j].promise}

LEMMA QueryEffects ==
  ASSUME JobsInv, NEW t \in Task
  PROVE  /\ BeginCleanup(t) =>
              /\ Is(t, Away) /\ \A u \in Task : ~Is(u, InCleanup)
              /\ Turns(t, "expiredFunded", {}, NoJob, NoShares, Rows(Refundables))
         /\ QueryUnfunded(t) =>
              /\ Is(t, {"expiredFunded"}) /\ task[t].todo = {}
              /\ Turns(t, "expiredUnfunded", {}, NoJob, NoShares, Rows(Penalizables))
<1>1. ASSUME NEW at, NEW S, Becomes(t, [Idle EXCEPT !.at = at, !.todo = S])
      PROVE  Turns(t, at, {}, NoJob, NoShares, S)
  <2>1. task'[t] = [at |-> at, next |-> "idle", job |-> {}, who |-> {}, amt |-> 0,
                    read |-> 0, row |-> NoJob, due |-> NoShares, todo |-> S,
                    loop |-> FALSE]
    <3>1. task'[t] = [Idle EXCEPT !.at = at, !.todo = S]
      BY <1>1, BecomesIs
    <3> QED BY <3>1, IdleIs
  <2>2. Turns(t, IF "idle" # "idle" THEN "idle" ELSE at, {}, NoJob, NoShares, S)
    BY <1>1, <2>1, Turned
  <2> QED BY <2>2
<1>2. ASSUME BeginCleanup(t)
      PROVE  /\ Is(t, Away) /\ \A u \in Task : ~Is(u, InCleanup)
             /\ Turns(t, "expiredFunded", {}, NoJob, NoShares, Rows(Refundables))
  <2>1. /\ Becomes(t, [Idle EXCEPT !.at = "expiredFunded", !.todo = Rows(Refundables)])
        /\ task[t].at = "idle"
    BY <1>2 DEF BeginCleanup, Refundables, Begins
  <2>2. \A u \in Task : task[u].at \notin InCleanup /\ task[u].next \notin InCleanup
    BY <1>2 DEF BeginCleanup
  <2> QED BY <1>1, <2>1, <2>2, OnIs DEF Is, Away, Booking
<1>3. ASSUME QueryUnfunded(t)
      PROVE  /\ Is(t, {"expiredFunded"}) /\ task[t].todo = {}
             /\ Turns(t, "expiredUnfunded", {}, NoJob, NoShares, Rows(Penalizables))
  <2>1. /\ Becomes(t, [Idle EXCEPT !.at = "expiredUnfunded", !.todo = Rows(Penalizables)])
        /\ task[t].at = "expiredFunded" /\ task[t].todo = {}
    BY <1>3 DEF QueryUnfunded, Penalizables, Resumes
  <2> QED BY <1>1, <2>1, OnIs DEF Is, Booking
<1> QED BY <1>2, <1>3

LEMMA ExpireEscrowEffects ==
  ASSUME JobsInv, NEW t \in Task, NEW r \in task[t].todo, ExpireEscrow(t, r)
  PROVE  /\ Is(t, {"expiredFunded"})
         /\ Turns(t, "zeroEscrow", r.job, r.row, task[t].due, task[t].todo \ {r})
         /\ escrow' = escrow - r.row.escrowed
<1>0. Shaped(task[t])
  BY Shape
<1>1. /\ task[t].at = "expiredFunded" /\ escrow' = escrow - r.row.escrowed
      /\ Becomes(t, [task[t] EXCEPT !.at = "readTerm", !.next = "zeroEscrow",
                    !.job = r.job, !.row = r.row, !.todo = @ \ {r}])
  BY DEF ExpireEscrow, Resumes, RefundEscrow
<1>2. task'[t] = [at |-> "readTerm", next |-> "zeroEscrow", job |-> r.job,
                  who |-> task[t].who, amt |-> task[t].amt, read |-> task[t].read,
                  row |-> r.row, due |-> task[t].due, todo |-> task[t].todo \ {r},
                  loop |-> task[t].loop]
  <2>1. task'[t] = [task[t] EXCEPT !.at = "readTerm", !.next = "zeroEscrow",
                    !.job = r.job, !.row = r.row, !.todo = @ \ {r}]
    BY <1>1, BecomesIs
  <2> QED BY <1>0, <2>1 DEF Shaped
<1>3. Turns(t, IF "zeroEscrow" # "idle" THEN "zeroEscrow" ELSE "readTerm",
            r.job, r.row, task[t].due, task[t].todo \ {r})
  BY <1>1, <1>2, Turned
<1> QED BY <1>1, <1>3, OnIs DEF Is, Booking

Partial(row) == (row.bonus * row.fulfilled) \div row.requested

PartialDue(r, j) ==
  IF Partial(r.row) = 0 THEN NoShares
  ELSE Shares(log[j], r.row.requested, r.row.fulfilled, Partial(r.row))

LEMMA PartialEffects ==
  ASSUME JobsInv, NEW t \in Task, NEW r \in task[t].todo, ReadPartial(t, r),
         NEW j \in Job, r.job = {j}
  PROVE  /\ Is(t, {"expiredUnfunded"})
         /\ Turns(t, IF PartialDue(r, j) # NoShares THEN "payingPartial" ELSE "penalty",
                  {j}, r.row, PartialDue(r, j), task[t].todo \ {r})
         /\ granted' = IF PartialDue(r, j) # NoShares
                       THEN [granted EXCEPT ![j] = granted[j] + r.row.promise]
                       ELSE granted
<1>0. Shaped(task[t]) /\ j = CHOOSE k \in Job : r.job = {k}
  BY Shape
<1> DEFINE due == PartialDue(r, j)
           at == IF due # NoShares THEN "payingPartial" ELSE "penalty"
<1>1. /\ task[t].at = "expiredUnfunded"
      /\ granted' = IF due # NoShares THEN [granted EXCEPT ![j] = granted[j] + r.row.promise]
                    ELSE granted
      /\ Becomes(t, [task[t] EXCEPT !.job = r.job, !.row = r.row, !.due = due,
                                    !.at = at, !.todo = @ \ {r}])
  BY <1>0 DEF ReadPartial, Resumes, PartialDue, Partial
<1> HIDE DEF due, at
<1>2. task[t].next = "idle" /\ Is(t, {"expiredUnfunded"})
  BY <1>1, OnIs DEF Is, Booking
<1>3. task'[t] = [at |-> at, next |-> "idle", job |-> {j},
                  who |-> task[t].who, amt |-> task[t].amt, read |-> task[t].read,
                  row |-> r.row, due |-> due, todo |-> task[t].todo \ {r},
                  loop |-> task[t].loop]
  <2>1. task'[t] = [task[t] EXCEPT !.job = r.job, !.row = r.row, !.due = due,
                                   !.at = at, !.todo = @ \ {r}]
    BY <1>1, BecomesIs
  <2> QED BY <1>0, <1>2, <2>1 DEF Shaped
<1>4. Turns(t, IF "idle" # "idle" THEN "idle" ELSE at, {j}, r.row, due,
            task[t].todo \ {r})
  BY <1>1, <1>3, Turned
<1> QED BY <1>1, <1>2, <1>4 DEF due, at

LEMMA CleanupEffects ==
  ASSUME JobsInv, NEW t \in Task
  PROVE  /\ ZeroEscrow(t) => /\ Is(t, {"zeroEscrow"}) /\ Goes(t, "decayFunded")
                             /\ Only(Mine(t), "escrowed") /\ job'[Mine(t)].escrowed = 0
         /\ DecayTemplate(t) =>
              /\ Only(Mine(t), "expirations")
              /\ job'[Mine(t)].expirations = job[Mine(t)].expirations + 1
              /\ \/ /\ Is(t, {"decayFunded"})
                    /\ Turns(t, "expiredFunded", {}, NoJob, NoShares, task[t].todo)
                 \/ /\ Is(t, {"decayUnfunded"})
                    /\ Turns(t, "expiredUnfunded", {}, NoJob, NoShares, task[t].todo)
         /\ BoostPartial(t) =>
              /\ Is(t, {"payingPartial"}) /\ Goes(t, "penalty")
              /\ Only(Mine(t), "completions")
              /\ job'[Mine(t)].completions = job[Mine(t)].completions + 1
         /\ Penalize(t) => /\ Is(t, {"penalty"})
                           /\ \/ PenaltyEnabled /\ Goes(t, "zeroBonus")
                              \/ ~PenaltyEnabled /\ Goes(t, "decayUnfunded")
         /\ ZeroBonus(t) => /\ Is(t, {"zeroBonus"}) /\ Goes(t, "decayUnfunded")
                            /\ Only(Mine(t), "bonus") /\ job'[Mine(t)].bonus = 0
<1>0. PenaltyEnabled \in BOOLEAN
  BY JobsAssumption
<1>1. ASSUME ZeroEscrow(t)
      PROVE  /\ Is(t, {"zeroEscrow"}) /\ Goes(t, "decayFunded")
             /\ Only(Mine(t), "escrowed") /\ job'[Mine(t)].escrowed = 0
  <2>1. Is(t, {"zeroEscrow"}) /\ Goes(t, "decayFunded")
    BY <1>1, GoesFrom DEF ZeroEscrow, Resumes, Booking
  <2>2. Mine(t) \in Job
    BY <2>1, MineIs DEF Is, Working
  <2> QED BY <1>1, <2>1, <2>2, OnlyField DEF ZeroEscrow
<1>2. ASSUME DecayTemplate(t)
      PROVE  /\ Only(Mine(t), "expirations")
             /\ job'[Mine(t)].expirations = job[Mine(t)].expirations + 1
             /\ \/ /\ Is(t, {"decayFunded"})
                   /\ Turns(t, "expiredFunded", {}, NoJob, NoShares, task[t].todo)
                \/ /\ Is(t, {"decayUnfunded"})
                   /\ Turns(t, "expiredUnfunded", {}, NoJob, NoShares, task[t].todo)
  <2> DEFINE at == IF task[t].at = "decayFunded" THEN "expiredFunded" ELSE "expiredUnfunded"
  <2>1. /\ task[t].at \in {"decayFunded", "decayUnfunded"} /\ Is(t, {task[t].at})
        /\ Becomes(t, [Idle EXCEPT !.todo = task[t].todo, !.at = at])
        /\ Write(Mine(t), [job[Mine(t)] EXCEPT !.expirations = job[Mine(t)].expirations + 1])
    BY <1>2, OnIs DEF DecayTemplate, Booking, Is
  <2>2. Mine(t) \in Job
    BY <2>1, MineIs DEF Is, Working
  <2>3. task'[t] = [at |-> at, next |-> "idle", job |-> {}, who |-> {}, amt |-> 0,
                    read |-> 0, row |-> NoJob, due |-> NoShares,
                    todo |-> task[t].todo, loop |-> FALSE]
    <3>1. task'[t] = [Idle EXCEPT !.todo = task[t].todo, !.at = at]
      BY <2>1, BecomesIs
    <3> QED BY <3>1, IdleIs
  <2>4. Turns(t, IF "idle" # "idle" THEN "idle" ELSE at, {}, NoJob, NoShares, task[t].todo)
    <3> HIDE DEF at
    <3> QED BY <2>1, <2>3, Turned
  <2> QED BY <2>1, <2>2, <2>4, OnlyField
<1>3. ASSUME BoostPartial(t)
      PROVE  /\ Is(t, {"payingPartial"}) /\ Goes(t, "penalty")
             /\ Only(Mine(t), "completions")
             /\ job'[Mine(t)].completions = job[Mine(t)].completions + 1
  <2>1. Is(t, {"payingPartial"}) /\ Goes(t, "penalty")
    BY <1>3, GoesFrom DEF BoostPartial, AllPaid, Resumes, Booking
  <2>2. Mine(t) \in Job
    BY <2>1, MineIs DEF Is, Working
  <2>3. Write(Mine(t), [job[Mine(t)] EXCEPT !.completions = job[Mine(t)].completions + 1])
    BY <1>3 DEF BoostPartial
  <2> QED BY <2>1, <2>2, <2>3, OnlyField
<1>4. ASSUME Penalize(t)
      PROVE  /\ Is(t, {"penalty"})
             /\ \/ PenaltyEnabled /\ Goes(t, "zeroBonus")
                \/ ~PenaltyEnabled /\ Goes(t, "decayUnfunded")
  BY <1>0, <1>4, GoesFrom DEF Penalize, Resumes, Booking
<1>5. ASSUME ZeroBonus(t)
      PROVE  /\ Is(t, {"zeroBonus"}) /\ Goes(t, "decayUnfunded")
             /\ Only(Mine(t), "bonus") /\ job'[Mine(t)].bonus = 0
  <2>1. Is(t, {"zeroBonus"}) /\ Goes(t, "decayUnfunded")
    BY <1>5, GoesFrom DEF ZeroBonus, Resumes, Booking
  <2>2. Mine(t) \in Job
    BY <2>1, MineIs DEF Is, Working
  <2> QED BY <1>5, <2>1, <2>2, OnlyField DEF ZeroBonus
<1> QED BY <1>1, <1>2, <1>3, <1>4, <1>5

-----------------------------------------------------------------------------
(* What rows and their copies are worth.  A copy of a row may be stale in  *)
(* what it says of deliveries and settlement, never in the job's terms.    *)
Sound(row) ==
  /\ row.requested \in Size /\ row.promise \in Bonus
  /\ row.bonus <= row.promise /\ (row.funded => row.bonus = row.promise)
  /\ row.escrowed \in {0, row.promise} /\ (~row.funded => row.escrowed = 0)
  /\ row.fulfilled <= row.requested
  /\ row.stage = "hidden" => row.fulfilled = 0

Fits(row, j) ==
  /\ row \in Row /\ Sound(row)
  /\ row.promise = job[j].promise /\ row.requested = job[j].requested
  /\ row.funded = job[j].funded

BookInv == \A j \in Job : IF Posted(j) THEN Sound(job[j]) ELSE job[j] = NoJob

(* Who works from a copy of the row.                                       *)
Copying == {"readLog", "paying", "rebate", "boost", "zeroEscrow"}

CopyOk(t) ==
  \A j \in Job :
    /\ Holds(t, j) /\ Is(t, Copying) => Fits(task[t].row, j)
    /\ \A r \in task[t].todo : r.job = {j} => Fits(r.row, j)

CopyInv == \A t \in Task : CopyOk(t)

(* Where a coroutine is says what stage its job is in; one coroutine posts *)
(* a job.                                                                  *)
PlaceOk(t) ==
  \A j \in Job : Holds(t, j) =>
    /\ Is(t, Unposted) =>
         /\ job[j].stage = "hidden" /\ task[t].row.bonus = job[j].promise
         /\ \A u \in Task : Holds(u, j) /\ Is(u, Unposted) => u = t
    /\ Is(t, Unsaved) => job[j].funded /\ job[j].escrowed = 0
    /\ Is(t, {"deliver"}) => job[j].stage = "visible"
    /\ Is(t, Penalizing) => ~job[j].funded

PlaceInv == \A t \in Task : PlaceOk(t)

Base == JobsInv /\ BookInv /\ CopyInv /\ PlaceInv

(* What most steps leave of a row: terms, stage, and an escrow of zero.    *)
Calm ==
  \A j \in Job :
    /\ job'[j].stage = job[j].stage /\ job'[j].funded = job[j].funded
    /\ job'[j].promise = job[j].promise /\ job'[j].requested = job[j].requested
    /\ job[j].escrowed = 0 => job'[j].escrowed = 0
    /\ job[j] = NoJob => job'[j] = NoJob

LEMMA CalmOnly ==
  ASSUME JobsInv, NEW j \in Job, Posted(j),
         NEW f \in {"fulfilled", "claimed", "expired", "bonus", "completions",
                    "expirations"}, Only(j, f)
  PROVE  Calm
BY DEF Calm, Only, Posted, NoJob

LEMMA BookKept ==
  ASSUME Base, NEW j \in Job, Posted(j),
         NEW f \in {"claimed", "expired", "completions", "expirations"}, Only(j, f)
  PROVE  BookInv' /\ Calm
<1>1. Calm
  BY CalmOnly DEF Base
<1>2. BookInv'
  BY DEF Base, BookInv, Sound, Only, Posted
<1> QED BY <1>1, <1>2

LEMMA BookWritten ==
  ASSUME Base, NEW j \in Job, \A k \in Job \ {j} : job'[k] = job[k],
         Sound(job'[j]), Posted(j)'
  PROVE  BookInv'
BY DEF Base, BookInv, Posted

LEMMA Untouched ==
  ASSUME Base, UNCHANGED job
  PROVE  BookInv' /\ Calm
BY DEF Base, BookInv, Sound, Posted, Calm

(* Copies stay as good as they were.                                       *)
LEMMA CopyKept ==
  ASSUME Base, NEW t \in Task, \A u \in Task \ {t} : task'[u] = task[u],
         \A j \in Job : Posted(j) => /\ job'[j].funded = job[j].funded
                                     /\ job'[j].promise = job[j].promise
                                     /\ job'[j].requested = job[j].requested,
         On(task'[t]) \in Copying => /\ On(task[t]) \in Copying
                                     /\ task'[t].job = task[t].job
                                     /\ task'[t].row = task[t].row,
         task'[t].todo \subseteq task[t].todo
  PROVE  CopyInv'
<1>1. ASSUME NEW u \in Task, NEW j \in Job,
             task'[u].job = {j}, On(task'[u]) \in Copying
      PROVE  Fits(task[u].row, j)'
  <2>1. Holds(u, j) /\ Is(u, Copying) /\ task'[u].row = task[u].row
    BY <1>1 DEF Holds, Is
  <2>2. Fits(task[u].row, j)
    BY <2>1 DEF Base, CopyInv, CopyOk
  <2>3. Posted(j)
    <3>1. Is(u, Working)
      BY <2>1 DEF Is, Copying, Working
    <3> QED BY <2>1, <3>1, MineIs DEF Base, Holds
  <2>4. /\ job'[j].funded = job[j].funded /\ job'[j].promise = job[j].promise
        /\ job'[j].requested = job[j].requested
    BY <2>3
  <2> QED BY <2>1, <2>2, <2>4 DEF Fits, Sound
<1>2. ASSUME NEW u \in Task, NEW j \in Job, NEW r \in task'[u].todo, r.job = {j}
      PROVE  Fits(r.row, j)'
  <2>1. r \in task[u].todo
    BY <1>2
  <2>2. Fits(r.row, j)
    BY <1>2, <2>1 DEF Base, CopyInv, CopyOk
  <2>3. Posted(j)
    <3>1. Carries(task[u])
      BY Shape DEF Base
    <3> QED BY <1>2, <2>1, <3>1 DEF Carries
  <2>4. /\ job'[j].funded = job[j].funded /\ job'[j].promise = job[j].promise
        /\ job'[j].requested = job[j].requested
    BY <2>3
  <2> QED BY <2>2, <2>4 DEF Fits, Sound
<1> QED BY <1>1, <1>2 DEF CopyInv, CopyOk, Holds, Is

(* Nobody takes a place he did not have.                                   *)
LEMMA PlaceKept ==
  ASSUME Base, NEW t \in Task, \A u \in Task \ {t} : task'[u] = task[u], Calm,
         \A X \in {Unposted, Unsaved, {"deliver"}, Penalizing} :
           On(task'[t]) \in X => /\ On(task[t]) \in X /\ task'[t].job = task[t].job
                                 /\ task'[t].row = task[t].row
  PROVE  PlaceInv'
<1>1. \A u \in Task, X \in {Unposted, Unsaved, {"deliver"}, Penalizing} :
        Is(u, X)' => Is(u, X) /\ task'[u].job = task[u].job /\ task'[u].row = task[u].row
  BY DEF Is
<1>2. ASSUME NEW u \in Task, NEW j \in Job, Holds(u, j)'
      PROVE  /\ Is(u, Unposted)' =>
                  /\ job'[j].stage = "hidden" /\ task'[u].row.bonus = job'[j].promise
                  /\ \A w \in Task : Holds(w, j)' /\ Is(w, Unposted)' => w = u
             /\ Is(u, Unsaved)' => job'[j].funded /\ job'[j].escrowed = 0
             /\ Is(u, {"deliver"})' => job'[j].stage = "visible"
             /\ Is(u, Penalizing)' => ~job'[j].funded
  BY <1>1, <1>2 DEF Base, PlaceInv, PlaceOk, Holds, Calm
<1> QED BY <1>2 DEF PlaceInv, PlaceOk

LEMMA RestKeeps ==
  ASSUME Base, NEW t \in Task, Rests(t), Calm, BookInv'
  PROVE  BookInv' /\ CopyInv' /\ PlaceInv'
<1>1. /\ \A u \in Task \ {t} : task'[u] = task[u]
      /\ task'[t].todo \subseteq task[t].todo /\ On(task'[t]) \in Away
  BY DEF Rests
<1>2. CopyInv'
  <2>1. On(task'[t]) \notin Copying
    BY <1>1 DEF Away, Copying
  <2>2. \A j \in Job : Posted(j) => /\ job'[j].funded = job[j].funded
                                    /\ job'[j].promise = job[j].promise
                                    /\ job'[j].requested = job[j].requested
    BY DEF Calm
  <2> QED BY <1>1, <2>1, <2>2, CopyKept
<1>3. PlaceInv'
  <2>1. \A X \in {Unposted, Unsaved, {"deliver"}, Penalizing} : On(task'[t]) \notin X
    BY <1>1 DEF Away, Unposted, Unsaved, Penalizing
  <2> QED BY <1>1, <2>1, PlaceKept
<1> QED BY <1>2, <1>3

(* A coroutine goes on with the copy it has.                               *)
LEMMA GoKeeps ==
  ASSUME Base, NEW t \in Task, NEW on, NEW due, Calm, BookInv',
         Turns(t, on, task[t].job, task[t].row, due, task[t].todo),
         \A X \in {Copying, Unposted, Unsaved, {"deliver"}, Penalizing} :
           on \in X => Is(t, X)
  PROVE  BookInv' /\ CopyInv' /\ PlaceInv'
<1>1. /\ \A u \in Task \ {t} : task'[u] = task[u]
      /\ task'[t].todo \subseteq task[t].todo /\ On(task'[t]) = on
      /\ task'[t].job = task[t].job /\ task'[t].row = task[t].row
  BY DEF Turns
<1>2. CopyInv'
  <2>1. on \in Copying => On(task[t]) \in Copying
    BY DEF Is
  <2>2. \A j \in Job : Posted(j) => /\ job'[j].funded = job[j].funded
                                    /\ job'[j].promise = job[j].promise
                                    /\ job'[j].requested = job[j].requested
    BY DEF Calm
  <2> QED BY <1>1, <2>1, <2>2, CopyKept
<1>3. PlaceInv'
  <2>1. \A X \in {Unposted, Unsaved, {"deliver"}, Penalizing} :
          On(task'[t]) \in X => /\ On(task[t]) \in X /\ task'[t].job = task[t].job
                                /\ task'[t].row = task[t].row
    BY <1>1 DEF Is
  <2> QED BY <1>1, <2>1, PlaceKept
<1> QED BY <1>2, <1>3

(* A coroutine goes where no copy is used and no job is posted.            *)
LEMMA LeaveKeeps ==
  ASSUME Base, NEW t \in Task, NEW on, NEW held, NEW row, NEW due, NEW todo, Calm, BookInv',
         Turns(t, on, held, row, due, todo), todo \subseteq task[t].todo,
         on \notin Copying \cup Unposted \cup {"deliver"} \cup Penalizing
  PROVE  BookInv' /\ CopyInv' /\ PlaceInv'
<1>1. /\ \A u \in Task \ {t} : task'[u] = task[u]
      /\ task'[t].todo \subseteq task[t].todo /\ On(task'[t]) = on
  BY DEF Turns
<1>2. CopyInv'
  <2>2. \A j \in Job : Posted(j) => /\ job'[j].funded = job[j].funded
                                    /\ job'[j].promise = job[j].promise
                                    /\ job'[j].requested = job[j].requested
    BY DEF Calm
  <2> QED BY <1>1, <2>2, CopyKept
<1>3. PlaceInv'
  <2>1. \A X \in {Unposted, Unsaved, {"deliver"}, Penalizing} : On(task'[t]) \notin X
    BY <1>1 DEF Unposted
  <2> QED BY <1>1, <2>1, PlaceKept
<1> QED BY <1>2, <1>3

LEMMA BaseQuiet ==
  ASSUME Base, NEW t \in Task, UNCHANGED job, Rests(t) \/ Goes(t, On(task[t]))
  PROVE  BookInv' /\ CopyInv' /\ PlaceInv'
<1>1. Calm /\ BookInv'
  BY Untouched
<1>2. CASE Rests(t)
  BY <1>1, <1>2, RestKeeps
<1>3. CASE Goes(t, On(task[t]))
  <2>1. Turns(t, On(task[t]), task[t].job, task[t].row, task[t].due, task[t].todo)
    BY <1>3 DEF Goes
  <2>2. \A X \in {Copying, Unposted, Unsaved, {"deliver"}, Penalizing} :
          On(task[t]) \in X => Is(t, X)
    BY DEF Is
  <2> QED BY <1>1, <2>1, <2>2, GoKeeps
<1> QED BY <1>2, <1>3

(* Held jobs are the coroutine's own.                                      *)
LEMMA HeldIsMine ==
  ASSUME Base, NEW t \in Task, Is(t, Working)
  PROVE  /\ Mine(t) \in Job /\ Holds(t, Mine(t)) /\ Posted(Mine(t))
         /\ \A j \in Job : Holds(t, j) => j = Mine(t)
         /\ Sound(job[Mine(t)]) /\ job[Mine(t)] \in Row
<1>1. Mine(t) \in Job /\ Holds(t, Mine(t)) /\ Posted(Mine(t))
  BY MineIs DEF Base, Holds
<1> QED BY <1>1, RowShape DEF Holds, Base, BookInv

LEMMA BasePost ==
  ASSUME Base, NEW t \in Task, NEW j \in Job, NEW q \in Size, NEW n \in Bonus,
         NEW f \in BOOLEAN, Posts(t, j, q, n, f)
  PROVE  BookInv' /\ CopyInv' /\ PlaceInv'
<1> DEFINE row == NewJob(q, n, f)
<1>1. q \in Nat /\ n \in Nat
  BY JobsAssumption
<1>2. /\ row.requested = q /\ row.promise = n /\ row.bonus = n /\ row.funded = f
      /\ row.escrowed = 0 /\ row.fulfilled = 0 /\ row.stage = "hidden"
  BY DEF NewJob, NoJob
<1> HIDE DEF row
<1>3. /\ job'[j] = row /\ \A k \in Job \ {j} : job'[k] = job[k]
      /\ \A u \in Task \ {t} : task'[u] = task[u]
      /\ On(task'[t]) \in Unposted /\ (On(task'[t]) \in Unsaved => f)
      /\ On(task'[t]) \notin Copying \cup {"deliver"} \cup Penalizing
      /\ task'[t].job = {j} /\ task'[t].row.bonus = n
      /\ task'[t].todo \subseteq task[t].todo /\ ~Posted(j)
  BY DEF Posts, row, Unposted, Unsaved, Copying, Penalizing
<1>4. BookInv'
  <2>1. Sound(row)
    BY <1>1, <1>2 DEF Sound
  <2> QED BY <1>2, <1>3, <2>1 DEF Base, BookInv, Posted
<1>5. CopyInv'
  <2>1. \A k \in Job : Posted(k) => /\ job'[k].funded = job[k].funded
                                    /\ job'[k].promise = job[k].promise
                                    /\ job'[k].requested = job[k].requested
    BY <1>3
  <2> QED BY <1>3, <2>1, CopyKept
<1>6. PlaceInv'
  <2>1. \A u \in Task : task[u].job = {j} => On(task[u]) \notin Working
    BY MineIs, <1>3 DEF Base, Is
  <2>2. PlaceOk(t)'
    <3>1. \A u \in Task : task'[u].job = {j} /\ On(task'[u]) \in Unposted => u = t
      BY <1>3, <2>1 DEF Unposted, Unsaved, Working
    <3> QED BY <1>2, <1>3, <3>1 DEF PlaceOk, Holds, Is
  <2>3. ASSUME NEW u \in Task \ {t} PROVE PlaceOk(u)'
    <3>1. ASSUME NEW k \in Job, task[u].job = {k},
                 On(task[u]) \in Unposted \cup {"deliver"} \cup Penalizing
          PROVE  k # j
      BY <2>1, <3>1 DEF Unposted, Unsaved, Penalizing, Working
    <3>2. PlaceOk(u)
      BY DEF Base, PlaceInv
    <3>3. Unsaved \subseteq Unposted
      BY DEF Unposted
    <3>4. ASSUME NEW k \in Job, task[u].job = {k}
          PROVE  /\ On(task[u]) \in Unposted =>
                      /\ job'[k].stage = "hidden" /\ task[u].row.bonus = job'[k].promise
                      /\ \A w \in Task : task'[w].job = {k} /\ On(task'[w]) \in Unposted
                                           => w = u
                 /\ On(task[u]) \in Unsaved => job'[k].funded /\ job'[k].escrowed = 0
                 /\ On(task[u]) \in {"deliver"} => job'[k].stage = "visible"
                 /\ On(task[u]) \in Penalizing => ~job'[k].funded
      <4>1. CASE On(task[u]) \in Unposted \cup {"deliver"} \cup Penalizing
        <5>1. k # j /\ job'[k] = job[k]
          BY <1>3, <3>1, <3>4, <4>1
        <5> QED BY <1>3, <3>2, <3>4, <5>1 DEF PlaceOk, Holds, Is
      <4> QED BY <3>3, <4>1
    <3> QED BY <1>3, <3>4 DEF PlaceOk, Holds, Is
  <2> QED BY <2>2, <2>3 DEF PlaceInv
<1> QED BY <1>4, <1>5, <1>6

LEMMA BasePosting ==
  ASSUME Base, NEW t \in Task
  PROVE  /\ CheckEscrow(t) \/ EscrowJournal(t) => BookInv' /\ CopyInv' /\ PlaceInv'
         /\ SaveEscrowed(t) \/ Publish(t) => BookInv' /\ CopyInv' /\ PlaceInv'
<1>0. JobsInv
  BY DEF Base
<1>1. ASSUME NEW on \in {"escrowJournal", "saveEscrowed", "publish"}, Goes(t, on),
             Is(t, {"escrow", "escrowJournal"}), UNCHANGED job
      PROVE  BookInv' /\ CopyInv' /\ PlaceInv'
  <2>1. Turns(t, on, task[t].job, task[t].row, task[t].due, task[t].todo)
    BY <1>1 DEF Goes
  <2>2. \A X \in {Copying, Unposted, Unsaved, {"deliver"}, Penalizing} :
          on \in X => Is(t, X)
    BY <1>1 DEF Is, Copying, Unposted, Unsaved, Penalizing
  <2> QED BY <1>1, <2>1, <2>2, Untouched, GoKeeps
<1>2. CheckEscrow(t) \/ EscrowJournal(t) => BookInv' /\ CopyInv' /\ PlaceInv'
  <2>1. CheckEscrow(t) \/ EscrowJournal(t) => UNCHANGED job
    BY DEF CheckEscrow, EscrowJournal
  <2>2. CheckEscrow(t) \/ EscrowJournal(t) =>
          \E on \in {"escrowJournal", "saveEscrowed", "publish"} : Goes(t, on)
    BY <1>0, PostingEffects
  <2>3. CheckEscrow(t) \/ EscrowJournal(t) => Is(t, {"escrow", "escrowJournal"})
    BY <1>0, PostingEffects DEF Is
  <2> QED BY <1>1, <2>1, <2>2, <2>3
<1>m. Is(t, Unposted) =>
        /\ Mine(t) \in Job /\ Holds(t, Mine(t)) /\ Posted(Mine(t)) /\ Sound(job[Mine(t)])
        /\ job[Mine(t)].stage = "hidden" /\ task[t].row.bonus = job[Mine(t)].promise
        /\ \A u \in Task : Holds(u, Mine(t)) /\ Is(u, Unposted) => u = t
        /\ Is(t, Unsaved) => job[Mine(t)].funded
  <2>1. Is(t, Unposted) => Is(t, Working)
    BY DEF Is, Unposted, Unsaved, Working
  <2>2. PlaceOk(t)
    BY DEF Base, PlaceInv
  <2> QED BY <2>1, <2>2, HeldIsMine DEF PlaceOk
<1>3. ASSUME SaveEscrowed(t) PROVE BookInv' /\ CopyInv' /\ PlaceInv'
  <2>1. /\ Is(t, Unsaved) /\ Is(t, Unposted) /\ Goes(t, "publish")
        /\ Only(Mine(t), "escrowed") /\ job'[Mine(t)].escrowed = task[t].row.bonus
    BY <1>0, <1>3, PostingEffects DEF Is, Unposted, Unsaved
  <2>2. PICK j \in Job :
        /\ Posted(j) /\ Sound(job[j]) /\ Holds(t, j)
        /\ job[j].stage = "hidden" /\ task[t].row.bonus = job[j].promise /\ job[j].funded
        /\ \A u \in Task : Holds(u, j) /\ Is(u, Unposted) => u = t
        /\ Only(j, "escrowed") /\ job'[j].escrowed = job[j].promise
    BY <1>m, <2>1
  <2>3. BookInv'
    <3>1. Sound(job'[j]) /\ Posted(j)'
      BY <2>2 DEF Only, Sound, Posted
    <3>2. \A k \in Job \ {j} : job'[k] = job[k]
      BY <2>2 DEF Only
    <3> QED BY <2>2, <3>1, <3>2, BookWritten
  <2>4. /\ \A u \in Task \ {t} : task'[u] = task[u]
        /\ On(task'[t]) = "publish" /\ task'[t].job = task[t].job
        /\ task'[t].row = task[t].row /\ task'[t].todo = task[t].todo
    BY <2>1 DEF Goes, Turns
  <2>5. CopyInv'
    <3>1. \A k \in Job : /\ job'[k].funded = job[k].funded
                         /\ job'[k].promise = job[k].promise
                         /\ job'[k].requested = job[k].requested
      BY <2>2 DEF Only
    <3>2. On(task'[t]) \notin Copying
      BY <2>4 DEF Copying
    <3> QED BY <2>4, <3>1, <3>2, CopyKept
  <2>6. PlaceInv'
    <3>1. \A k \in Job : /\ job'[k].funded = job[k].funded
                         /\ job'[k].promise = job[k].promise
                         /\ job'[k].stage = job[k].stage
                         /\ k # j => job'[k].escrowed = job[k].escrowed
      BY <2>2 DEF Only
    <3>2. ASSUME NEW u \in Task, NEW k \in Job, task'[u].job = {k}
          PROVE  /\ On(task'[u]) \in Unposted =>
                      /\ job'[k].stage = "hidden" /\ task'[u].row.bonus = job'[k].promise
                      /\ \A w \in Task : task'[w].job = {k} /\ On(task'[w]) \in Unposted
                                           => w = u
                 /\ On(task'[u]) \in Unsaved => job'[k].funded /\ job'[k].escrowed = 0
                 /\ On(task'[u]) \in {"deliver"} => job'[k].stage = "visible"
                 /\ On(task'[u]) \in Penalizing => ~job'[k].funded
      <4>1. \A w \in Task : task'[w].job = {k} /\ On(task'[w]) \in Unposted
                              => task[w].job = {k} /\ On(task[w]) \in Unposted
        BY <2>1, <2>4 DEF Is
      <4>2. PlaceOk(u) /\ task[u].job = {k}
        BY <2>4, <3>2 DEF Base, PlaceInv
      <4>3. CASE u = t
        <5>1. k = j /\ On(task'[u]) = "publish"
          BY <2>2, <2>4, <4>2, <4>3 DEF Holds
        <5> QED BY <2>2, <2>4, <3>1, <4>1, <4>3, <5>1
                DEF Holds, Is, Unsaved, Unposted, Penalizing
      <4>4. CASE u # t
        <5>1. task'[u] = task[u]
          BY <2>4, <4>4
        <5>2. On(task[u]) \in Unsaved => k # j
          BY <2>2, <4>2, <4>4 DEF Holds, Is, Unposted
        <5> QED BY <3>1, <4>1, <4>2, <5>1, <5>2 DEF PlaceOk, Holds, Is
      <4> QED BY <4>3, <4>4
    <3> QED BY <3>2 DEF PlaceInv, PlaceOk, Holds, Is
  <2> QED BY <2>3, <2>5, <2>6
<1>4. ASSUME Publish(t) PROVE BookInv' /\ CopyInv' /\ PlaceInv'
  <2>1. /\ Is(t, Unposted) /\ Rests(t)
        /\ Only(Mine(t), "stage") /\ job'[Mine(t)].stage = "visible"
    BY <1>0, <1>4, PostingEffects DEF Is, Unposted, Unsaved
  <2>2. PICK j \in Job :
        /\ Posted(j) /\ Sound(job[j]) /\ Holds(t, j)
        /\ job[j].stage = "hidden"
        /\ \A u \in Task : Holds(u, j) /\ Is(u, Unposted) => u = t
        /\ Only(j, "stage") /\ job'[j].stage = "visible"
    BY <1>m, <2>1
  <2>3. BookInv'
    <3>1. Sound(job'[j]) /\ Posted(j)'
      BY <2>2 DEF Only, Sound, Posted
    <3>2. \A k \in Job \ {j} : job'[k] = job[k]
      BY <2>2 DEF Only
    <3> QED BY <2>2, <3>1, <3>2, BookWritten
  <2>4. /\ \A u \in Task \ {t} : task'[u] = task[u]
        /\ On(task'[t]) \in Away /\ task'[t].todo \subseteq task[t].todo
    BY <2>1 DEF Rests
  <2>5. CopyInv'
    <3>1. \A k \in Job : /\ job'[k].funded = job[k].funded
                         /\ job'[k].promise = job[k].promise
                         /\ job'[k].requested = job[k].requested
      BY <2>2 DEF Only
    <3>2. On(task'[t]) \notin Copying
      BY <2>4 DEF Copying, Away
    <3> QED BY <2>4, <3>1, <3>2, CopyKept
  <2>6. PlaceInv'
    <3>1. \A k \in Job : /\ job'[k].funded = job[k].funded
                         /\ job'[k].promise = job[k].promise
                         /\ job'[k].escrowed = job[k].escrowed
                         /\ k # j => job'[k].stage = job[k].stage
      BY <2>2 DEF Only
    <3>2. PlaceOk(t)'
      BY <2>4 DEF PlaceOk, Is, Away, Unposted, Unsaved, Penalizing
    <3>3. ASSUME NEW u \in Task \ {t} PROVE PlaceOk(u)'
      <4>1. task'[u] = task[u] /\ PlaceOk(u)
        BY <2>4 DEF Base, PlaceInv
      <4>2. \A k \in Job : Holds(u, k) /\ Is(u, Unposted) => k # j
        BY <2>2
      <4>3. On(task'[t]) \notin Unposted
        BY <2>4 DEF Away, Unposted, Unsaved
      <4>4. ASSUME NEW k \in Job, task[u].job = {k}
            PROVE  /\ On(task[u]) \in Unposted =>
                        /\ job'[k].stage = "hidden" /\ task[u].row.bonus = job'[k].promise
                        /\ \A w \in Task : task'[w].job = {k} /\ On(task'[w]) \in Unposted
                                           => w = u
                   /\ On(task[u]) \in Unsaved => job'[k].funded /\ job'[k].escrowed = 0
                   /\ On(task[u]) \in {"deliver"} => job'[k].stage = "visible"
                   /\ On(task[u]) \in Penalizing => ~job'[k].funded
        <5>1. CASE k = j
          BY <2>2, <3>1, <4>1, <4>2, <4>4, <5>1 DEF PlaceOk, Holds, Is, Unposted
        <5>2. CASE k # j
          BY <2>4, <3>1, <4>1, <4>3, <4>4, <5>2 DEF PlaceOk, Holds, Is
        <5> QED BY <5>1, <5>2
      <4> QED BY <4>1, <4>4 DEF PlaceOk, Holds, Is
    <3> QED BY <3>2, <3>3 DEF PlaceInv
  <2> QED BY <2>3, <2>5, <2>6
<1> QED BY <1>2, <1>3, <1>4

(* A coroutine takes a fresh copy, or copies.                              *)
LEMMA CopyTaken ==
  ASSUME Base, NEW t \in Task, \A u \in Task \ {t} : task'[u] = task[u], UNCHANGED job,
         On(task'[t]) \in Copying =>
           \E j \in Job : task'[t].job = {j} /\ Fits(task'[t].row, j),
         \A r \in task'[t].todo : r \in task[t].todo
                                  \/ \E j \in Job : r.job = {j} /\ Fits(r.row, j)
  PROVE  CopyInv'
<1>1. \A row, j : Fits(row, j)' <=> Fits(row, j)
  BY DEF Fits, Sound
<1>2. ASSUME NEW u \in Task, NEW j \in Job, task'[u].job = {j}, On(task'[u]) \in Copying
      PROVE  Fits(task'[u].row, j)
  BY <1>2 DEF Base, CopyInv, CopyOk, Holds, Is
<1>3. ASSUME NEW u \in Task, NEW j \in Job, NEW r \in task'[u].todo, r.job = {j}
      PROVE  Fits(r.row, j)
  BY <1>3 DEF Base, CopyInv, CopyOk
<1>4. \A u \in Task, j \in Job : task'[u].job = {j} /\ On(task'[u]) \in Copying
        => Fits(task[u].row, j)'
  BY <1>2 DEF Fits, Sound
<1> QED BY <1>1, <1>3, <1>4 DEF CopyInv, CopyOk, Holds, Is

LEMMA BaseFind ==
  ASSUME Base, NEW t \in Task, NEW j \in Job, NEW c \in Character, NEW q \in Quantity,
         FindJob(t, j, c, q)
  PROVE  BookInv' /\ CopyInv' /\ PlaceInv'
<1>1. PICK row : Turns(t, "deliver", {j}, row, NoShares, {})
  BY FindEffects DEF Base
<1>2. UNCHANGED job /\ job[j].stage = "visible"
  BY DEF FindJob, Active
<1>3. /\ \A u \in Task \ {t} : task'[u] = task[u]
      /\ On(task'[t]) = "deliver" /\ task'[t].job = {j} /\ task'[t].todo = {}
  BY <1>1 DEF Turns
<1>4. BookInv'
  BY <1>2, Untouched
<1>5. CopyInv'
  BY <1>2, <1>3, CopyTaken DEF Copying
<1>6. PlaceInv'
  <2>1. PlaceOk(t)'
    BY <1>2, <1>3 DEF PlaceOk, Holds, Is, Unposted, Unsaved, Penalizing
  <2>2. On(task'[t]) \notin Unposted
    BY <1>3 DEF Unposted, Unsaved
  <2>3. ASSUME NEW u \in Task \ {t} PROVE PlaceOk(u)'
    BY <1>2, <1>3, <2>2 DEF Base, PlaceInv, PlaceOk, Holds, Is
  <2> QED BY <2>1, <2>3 DEF PlaceInv
<1> QED BY <1>4, <1>5, <1>6

LEMMA BaseProcess ==
  ASSUME Base, JobsInv', NEW t \in Task, NEW i, ProcessDelivery(t, i)
  PROVE  BookInv' /\ CopyInv' /\ PlaceInv'
<1>1. Is(t, {"deliver"}) /\ Is(t, Working) /\ PlaceOk(t) /\ JobsInv
  BY ProcessEffects DEF Base, Is, Working, PlaceInv
<1>2. PICK j \in Job : j = Mine(t) /\ Holds(t, j) /\ Posted(j) /\ Sound(job[j])
  BY <1>1, HeldIsMine
<1>3. /\ job[j].stage = "visible" /\ Only(j, "fulfilled")
      /\ \/ Rests(t)
         \/ Turns(t, "claim", {j}, NoJob, NoShares, {})
  BY <1>1, <1>2, ProcessEffects DEF PlaceOk
<1>4. Calm
  BY <1>1, <1>2, <1>3, CalmOnly
<1>5. BookInv'
  <2>1. job'[j].fulfilled <= job'[j].requested
    BY DEF JobsInv, JobInv
  <2>2. Sound(job'[j]) /\ Posted(j)'
    BY <1>2, <1>3, <2>1 DEF Only, Sound, Posted
  <2>3. \A k \in Job \ {j} : job'[k] = job[k]
    BY <1>3 DEF Only
  <2> QED BY <2>2, <2>3, BookWritten
<1>6. CASE Rests(t)
  BY <1>4, <1>5, <1>6, RestKeeps
<1>7. CASE Turns(t, "claim", {j}, NoJob, NoShares, {})
  BY <1>4, <1>5, <1>7, LeaveKeeps DEF Copying, Unposted, Unsaved, Penalizing
<1> QED BY <1>3, <1>6, <1>7

LEMMA BaseClaim ==
  ASSUME Base, NEW t \in Task, ClaimJob(t)
  PROVE  BookInv' /\ CopyInv' /\ PlaceInv'
<1>1. Is(t, Working) /\ JobsInv
  BY ClaimEffects DEF Base, Is, Working
<1>2. PICK j \in Job : j = Mine(t) /\ Posted(j)
  BY <1>1, HeldIsMine
<1>3. CASE Rests(t) /\ UNCHANGED job
  BY <1>3, Untouched, RestKeeps
<1>4. CASE Goes(t, "refresh") /\ Only(j, "claimed")
  <2>1. Calm /\ BookInv'
    BY <1>2, <1>4, BookKept
  <2>2. Turns(t, "refresh", task[t].job, task[t].row, task[t].due, task[t].todo)
    BY <1>4 DEF Goes
  <2> QED BY <2>1, <2>2, LeaveKeeps DEF Copying, Unposted, Unsaved, Penalizing
<1> QED BY <1>1, <1>2, <1>3, <1>4, ClaimEffects

LEMMA FitsRow ==
  ASSUME Base, NEW j \in Job, Posted(j)
  PROVE  Fits(job[j], j)
BY RowShape DEF Base, BookInv, Fits

LEMMA PlaceFresh ==
  ASSUME Base, NEW t \in Task, UNCHANGED job, NEW on, NEW held, NEW row, NEW due, NEW todo,
         Turns(t, on, held, row, due, todo),
         on \notin Unposted \cup {"deliver"} \cup Penalizing
  PROVE  PlaceInv'
<1>1. Calm
  BY Untouched
<1>2. /\ \A u \in Task \ {t} : task'[u] = task[u]
      /\ \A X \in {Unposted, Unsaved, {"deliver"}, Penalizing} : On(task'[t]) \notin X
  BY DEF Turns, Unposted
<1> QED BY <1>1, <1>2, PlaceKept

LEMMA BaseSettle ==
  ASSUME Base, NEW t \in Task
  PROVE  /\ RefreshJob(t) \/ ReadDeliveries(t) => BookInv' /\ CopyInv' /\ PlaceInv'
         /\ \A c \in Character : PayContributor(t, c) => BookInv' /\ CopyInv' /\ PlaceInv'
         /\ SpendJobEscrow(t) \/ GrantRebate(t) => BookInv' /\ CopyInv' /\ PlaceInv'
         /\ BoostTemplate(t) => BookInv' /\ CopyInv' /\ PlaceInv'
         /\ \A j \in Job : FinishJob(t, j) => BookInv' /\ CopyInv' /\ PlaceInv'
<1>0. JobsInv
  BY DEF Base
<1>fresh. ASSUME UNCHANGED job, NEW j \in Job, Posted(j), NEW due, NEW todo,
                 todo \subseteq task[t].todo,
                 Turns(t, "readLog", {j}, job[j], due, todo)
          PROVE  BookInv' /\ CopyInv' /\ PlaceInv'
  <2>1. BookInv'
    BY <1>fresh, Untouched
  <2>2. PlaceInv'
    <3>1. "readLog" \notin Unposted \cup {"deliver"} \cup Penalizing
      BY DEF Unposted, Unsaved, Penalizing
    <3> QED BY <1>fresh, <3>1, PlaceFresh
  <2>3. CopyInv'
    <3>1. Fits(job[j], j)
      BY <1>fresh, FitsRow
    <3>2. /\ \A u \in Task \ {t} : task'[u] = task[u]
          /\ task'[t].job = {j} /\ task'[t].row = job[j]
          /\ \A r \in task'[t].todo : r \in task[t].todo
      BY <1>fresh DEF Turns
    <3> QED BY <1>fresh, <3>1, <3>2, CopyTaken
  <2> QED BY <2>1, <2>2, <2>3
<1>1. ASSUME RefreshJob(t) PROVE BookInv' /\ CopyInv' /\ PlaceInv'
  <2>1. UNCHANGED job /\ Is(t, Working)
    BY <1>0, <1>1, SettleEffects DEF RefreshJob, Is, Working
  <2>2. PICK j \in Job : j = Mine(t) /\ task[t].job = {j} /\ Posted(j)
    BY <2>1, HeldIsMine DEF Holds
  <2>3. Rests(t) \/ Turns(t, "readLog", {j}, job[j], task[t].due, task[t].todo)
    BY <1>0, <1>1, <2>2, SettleEffects
  <2> QED BY <1>fresh, <2>1, <2>2, <2>3, BaseQuiet
<1>2. ASSUME NEW j \in Job, FinishJob(t, j) PROVE BookInv' /\ CopyInv' /\ PlaceInv'
  <2>1. UNCHANGED job /\ Posted(j) /\ Turns(t, "readLog", {j}, job[j], NoShares, {})
    BY <1>0, <1>2, FinishEffects DEF FinishJob, Posted
  <2> QED BY <1>fresh, <2>1
<1>3. ASSUME ReadDeliveries(t) PROVE BookInv' /\ CopyInv' /\ PlaceInv'
  <2>1. UNCHANGED job /\ Is(t, {"readLog"})
    BY <1>0, <1>3, SettleEffects DEF ReadDeliveries
  <2>2. CASE Rests(t)
    BY <2>1, <2>2, BaseQuiet
  <2>3. ASSUME NEW due, Turns(t, "paying", task[t].job, task[t].row, due, task[t].todo)
        PROVE  BookInv' /\ CopyInv' /\ PlaceInv'
    <3>1. \A X \in {Copying, Unposted, Unsaved, {"deliver"}, Penalizing} :
            "paying" \in X => Is(t, X)
      BY <2>1 DEF Is, Copying, Unposted, Unsaved, Penalizing
    <3> QED BY <2>1, <2>3, <3>1, Untouched, GoKeeps
  <2> QED BY <1>0, <1>3, <2>2, <2>3, SettleEffects
<1>4. ASSUME NEW c \in Character, PayContributor(t, c)
      PROVE  BookInv' /\ CopyInv' /\ PlaceInv'
  <2>1. UNCHANGED job
    BY <1>4 DEF PayContributor
  <2>2. PICK due : Turns(t, On(task[t]), task[t].job, task[t].row, due, task[t].todo)
    BY <1>0, <1>4, SettleEffects
  <2>3. \A X \in {Copying, Unposted, Unsaved, {"deliver"}, Penalizing} :
          On(task[t]) \in X => Is(t, X)
    BY DEF Is
  <2> QED BY <2>1, <2>2, <2>3, Untouched, GoKeeps
<1>5. ASSUME SpendJobEscrow(t) \/ GrantRebate(t) PROVE BookInv' /\ CopyInv' /\ PlaceInv'
  <2>1. UNCHANGED job
    BY <1>5 DEF SpendJobEscrow, GrantRebate
  <2>2. Is(t, {"paying", "rebate"}) /\ \E on \in {"rebate", "boost"} : Goes(t, on)
    BY <1>0, <1>5, SettleEffects DEF Is
  <2>3. PICK on \in {"rebate", "boost"} :
          Turns(t, on, task[t].job, task[t].row, task[t].due, task[t].todo)
    BY <2>2 DEF Goes
  <2>4. \A X \in {Copying, Unposted, Unsaved, {"deliver"}, Penalizing} :
          on \in X => Is(t, X)
    BY <2>2 DEF Is, Copying, Unposted, Unsaved, Penalizing
  <2> QED BY <2>1, <2>3, <2>4, Untouched, GoKeeps
<1>6. ASSUME BoostTemplate(t) PROVE BookInv' /\ CopyInv' /\ PlaceInv'
  <2>1. Is(t, Working) /\ Rests(t) /\ Only(Mine(t), "completions")
    BY <1>0, <1>6, SettleEffects DEF Is, Working
  <2>2. Mine(t) \in Job /\ Posted(Mine(t))
    BY <2>1, HeldIsMine
  <2> QED BY <2>1, <2>2, BookKept, RestKeeps
<1> QED BY <1>1, <1>2, <1>3, <1>4, <1>5, <1>6

LEMMA BaseQueries ==
  ASSUME Base, NEW t \in Task
  PROVE  BeginCleanup(t) \/ QueryUnfunded(t) => BookInv' /\ CopyInv' /\ PlaceInv'
<1> SUFFICES ASSUME BeginCleanup(t) \/ QueryUnfunded(t)
             PROVE  BookInv' /\ CopyInv' /\ PlaceInv'
  OBVIOUS
<1>1. PICK on \in {"expiredFunded", "expiredUnfunded"}, S \in SUBSET Job :
        /\ Turns(t, on, {}, NoJob, NoShares, Rows(S))
        /\ \A j \in S : Posted(j)
  <2>1. JobsInv
    BY DEF Base
  <2>2. \A j \in Refundables \cup Penalizables : Posted(j)
    BY DEF Refundables, Penalizables, Unsettled, Posted
  <2>3. Refundables \in SUBSET Job /\ Penalizables \in SUBSET Job
    BY DEF Refundables, Penalizables
  <2> QED BY <2>1, <2>2, <2>3, QueryEffects
<1>2. UNCHANGED job
  BY DEF BeginCleanup, QueryUnfunded
<1>3. BookInv'
  BY <1>2, Untouched
<1>4. PlaceInv'
  <2>1. on \notin Unposted \cup {"deliver"} \cup Penalizing
    BY DEF Unposted, Unsaved, Penalizing
  <2> QED BY <1>1, <1>2, <2>1, PlaceFresh
<1>5. CopyInv'
  <2>1. ASSUME NEW r \in Rows(S)
        PROVE  \E j \in Job : r.job = {j} /\ Fits(r.row, j)
    <3>1. PICK j \in S : r = [job |-> {j}, row |-> job[j]]
      BY DEF Rows
    <3>2. r.job = {j} /\ r.row = job[j] /\ j \in Job /\ Posted(j)
      BY <1>1, <3>1
    <3> QED BY <3>2, FitsRow
  <2>2. /\ \A u \in Task \ {t} : task'[u] = task[u]
        /\ On(task'[t]) = on /\ task'[t].todo = Rows(S)
    BY <1>1 DEF Turns
  <2>3. On(task'[t]) \notin Copying
    BY <2>2 DEF Copying
  <2> QED BY <1>2, <2>1, <2>2, <2>3, CopyTaken
<1> QED BY <1>3, <1>4, <1>5

LEMMA BaseRefund ==
  ASSUME Base, NEW t \in Task, NEW r \in task[t].todo, ExpireEscrow(t, r)
  PROVE  BookInv' /\ CopyInv' /\ PlaceInv'
<1>1. /\ Turns(t, "zeroEscrow", r.job, r.row, task[t].due, task[t].todo \ {r})
      /\ UNCHANGED job /\ Carries(task[t]) /\ CopyOk(t)
  BY ExpireEscrowEffects, Shape DEF Base, ExpireEscrow, CopyInv
<1>2. PICK j \in Job : r.job = {j} /\ Fits(r.row, j)
  BY <1>1 DEF Carries, CopyOk
<1>3. BookInv'
  BY <1>1, Untouched
<1>4. PlaceInv'
  <2>1. "zeroEscrow" \notin Unposted \cup {"deliver"} \cup Penalizing
    BY DEF Unposted, Unsaved, Penalizing
  <2> QED BY <1>1, <2>1, PlaceFresh
<1>5. CopyInv'
  <2>1. /\ \A u \in Task \ {t} : task'[u] = task[u]
        /\ task'[t].job = r.job /\ task'[t].row = r.row
        /\ \A s \in task'[t].todo : s \in task[t].todo
    BY <1>1 DEF Turns
  <2> QED BY <1>1, <1>2, <2>1, CopyTaken
<1> QED BY <1>3, <1>4, <1>5

LEMMA BasePartial ==
  ASSUME Base, NEW t \in Task, NEW r \in task[t].todo, ReadPartial(t, r)
  PROVE  BookInv' /\ CopyInv' /\ PlaceInv'
<1>1. Is(t, {"expiredUnfunded"}) /\ task[t].at = "expiredUnfunded" /\ UNCHANGED job
  BY OnIs DEF Base, ReadPartial, Resumes, Is, Booking
<1>2. PICK j \in Job : r.job = {j} /\ ~job[j].funded
  <2>1. Carries(task[t])
    BY Shape DEF Base
  <2> QED BY <1>1, <2>1 DEF Carries, Unfunded
<1>3. PICK on \in {"payingPartial", "penalty"} :
        \E due : Turns(t, on, {j}, r.row, due, task[t].todo \ {r})
  BY <1>2, PartialEffects DEF Base
<1>4. /\ \A u \in Task \ {t} : task'[u] = task[u]
      /\ On(task'[t]) = on /\ task'[t].job = {j}
      /\ \A s \in task'[t].todo : s \in task[t].todo
  BY <1>3 DEF Turns
<1>5. BookInv'
  BY <1>1, Untouched
<1>6. CopyInv'
  BY <1>1, <1>4, CopyTaken DEF Copying
<1>7. PlaceInv'
  <2>1. PlaceOk(t)'
    BY <1>1, <1>2, <1>4 DEF PlaceOk, Holds, Is, Unposted, Unsaved, Penalizing
  <2>2. On(task'[t]) \notin Unposted
    BY <1>4 DEF Unposted, Unsaved
  <2>3. ASSUME NEW u \in Task \ {t} PROVE PlaceOk(u)'
    BY <1>1, <1>4, <2>2 DEF Base, PlaceInv, PlaceOk, Holds, Is
  <2> QED BY <2>1, <2>3 DEF PlaceInv
<1> QED BY <1>5, <1>6, <1>7

LEMMA BaseCleanup ==
  ASSUME Base, NEW t \in Task
  PROVE  /\ ZeroEscrow(t) \/ DecayTemplate(t) => BookInv' /\ CopyInv' /\ PlaceInv'
         /\ BoostPartial(t) \/ Penalize(t) \/ ZeroBonus(t) => BookInv' /\ CopyInv' /\ PlaceInv'
<1>0. JobsInv
  BY DEF Base
<1>go. ASSUME NEW on \in {"decayFunded", "decayUnfunded", "zeroBonus", "penalty"},
              Goes(t, on), Calm, BookInv', on \in Penalizing => Is(t, Penalizing)
       PROVE  BookInv' /\ CopyInv' /\ PlaceInv'
  <2>1. Turns(t, on, task[t].job, task[t].row, task[t].due, task[t].todo)
    BY <1>go DEF Goes
  <2>2. \A X \in {Copying, Unposted, Unsaved, {"deliver"}, Penalizing} :
          on \in X => Is(t, X)
    BY <1>go DEF Copying, Unposted, Unsaved, Penalizing
  <2> QED BY <1>go, <2>1, <2>2, GoKeeps
<1>1. ASSUME ZeroEscrow(t) PROVE BookInv' /\ CopyInv' /\ PlaceInv'
  <2>1. Is(t, Working) /\ Goes(t, "decayFunded")
    BY <1>0, <1>1, CleanupEffects DEF Is, Working
  <2>2. PICK j \in Job : j = Mine(t) /\ Posted(j) /\ Sound(job[j])
    BY <2>1, HeldIsMine
  <2>3. Only(j, "escrowed") /\ job'[j].escrowed = 0
    BY <1>0, <1>1, <2>2, CleanupEffects
  <2>4. Calm
    BY <2>2, <2>3 DEF Calm, Only, Posted, NoJob
  <2>5. BookInv'
    <3>1. Sound(job'[j]) /\ Posted(j)'
      BY <2>2, <2>3 DEF Only, Sound, Posted
    <3>2. \A k \in Job \ {j} : job'[k] = job[k]
      BY <2>3 DEF Only
    <3> QED BY <3>1, <3>2, BookWritten
  <2> QED BY <1>go, <2>1, <2>4, <2>5 DEF Penalizing
<1>2. ASSUME DecayTemplate(t) PROVE BookInv' /\ CopyInv' /\ PlaceInv'
  <2>1. /\ Is(t, Working) /\ Only(Mine(t), "expirations")
        /\ \E on \in {"expiredFunded", "expiredUnfunded"} :
             Turns(t, on, {}, NoJob, NoShares, task[t].todo)
    BY <1>0, <1>2, CleanupEffects DEF Is, Working
  <2>2. Mine(t) \in Job /\ Posted(Mine(t))
    BY <2>1, HeldIsMine
  <2>3. BookInv' /\ Calm
    BY <2>1, <2>2, BookKept
  <2>4. "expiredFunded" \notin Copying \cup Unposted \cup {"deliver"} \cup Penalizing
    BY DEF Copying, Unposted, Unsaved, Penalizing
  <2>5. "expiredUnfunded" \notin Copying \cup Unposted \cup {"deliver"} \cup Penalizing
    BY DEF Copying, Unposted, Unsaved, Penalizing
  <2> QED BY <2>1, <2>3, <2>4, <2>5, LeaveKeeps
<1>3. ASSUME BoostPartial(t) PROVE BookInv' /\ CopyInv' /\ PlaceInv'
  <2>1. /\ Is(t, Working) /\ Only(Mine(t), "completions")
        /\ Goes(t, "penalty") /\ Is(t, Penalizing)
    BY <1>0, <1>3, CleanupEffects DEF Is, Working, Penalizing
  <2>2. Mine(t) \in Job /\ Posted(Mine(t))
    BY <2>1, HeldIsMine
  <2>3. BookInv' /\ Calm
    BY <2>1, <2>2, BookKept
  <2> QED BY <1>go, <2>1, <2>3
<1>4. ASSUME Penalize(t) PROVE BookInv' /\ CopyInv' /\ PlaceInv'
  <2>1. /\ \E on \in {"zeroBonus", "decayUnfunded"} : Goes(t, on)
        /\ Is(t, Penalizing)
    BY <1>0, <1>4, CleanupEffects DEF Is, Penalizing
  <2>2. BookInv' /\ Calm
    BY <1>4, Untouched DEF Penalize
  <2> QED BY <1>go, <2>1, <2>2
<1>5. ASSUME ZeroBonus(t) PROVE BookInv' /\ CopyInv' /\ PlaceInv'
  <2>1. Is(t, Working) /\ Is(t, Penalizing) /\ Goes(t, "decayUnfunded") /\ PlaceOk(t)
    BY <1>0, <1>5, CleanupEffects DEF Is, Working, Penalizing, Base, PlaceInv
  <2>2. PICK j \in Job : j = Mine(t) /\ Posted(j) /\ Sound(job[j]) /\ Holds(t, j)
                         /\ job[j] \in Row
    BY <2>1, HeldIsMine
  <2>3. Only(j, "bonus") /\ job'[j].bonus = 0 /\ ~job[j].funded
    BY <1>0, <1>5, <2>1, <2>2, CleanupEffects DEF PlaceOk
  <2>4. Calm
    BY <1>0, <2>2, <2>3, CalmOnly
  <2>5. BookInv'
    <3>1. Sound(job'[j]) /\ Posted(j)'
      <4>1. job[j].promise \in Nat
        BY <2>2 DEF Row
      <4> QED BY <2>2, <2>3, <4>1 DEF Only, Sound, Posted
    <3>2. \A k \in Job \ {j} : job'[k] = job[k]
      BY <2>3 DEF Only
    <3> QED BY <3>1, <3>2, BookWritten
  <2> QED BY <1>go, <2>1, <2>4, <2>5
<1> QED BY <1>1, <1>2, <1>3, <1>4, <1>5

LEMMA BaseInit == Init => Base
<1> SUFFICES ASSUME Init PROVE Base
  OBVIOUS
<1>1. JobsInv
  BY JobsInit
<1>2. \A j \in Job : job[j] = NoJob
  BY DEF Init
<1>3. BookInv
  BY <1>2 DEF BookInv, Posted, NoJob
<1>4. \A t \in Task : On(task[t]) = "idle" /\ task[t].todo = {}
  BY DEF Init, Idle, On
<1>5. CopyInv /\ PlaceInv
  BY <1>4 DEF CopyInv, CopyOk, PlaceInv, PlaceOk, Is, Copying, Unposted, Unsaved, Penalizing
<1> QED BY <1>1, <1>3, <1>5 DEF Base

LEMMA BaseNext == Base /\ [Next]_vars => Base'
<1> SUFFICES ASSUME Base, [Next]_vars PROVE Base'
  OBVIOUS
<1>0. JobsInv /\ JobsInv'
  BY JobsNext DEF Base
<1>1. ASSUME UNCHANGED vars PROVE BookInv' /\ CopyInv' /\ PlaceInv'
  BY <1>1 DEF Base, BookInv, CopyInv, CopyOk, PlaceInv, PlaceOk, Posted, Sound, Fits,
              Holds, Is, vars
<1>2. ASSUME NEW t \in Task, Start(t) PROVE BookInv' /\ CopyInv' /\ PlaceInv'
  <2>1. CASE StartTerm(t) \/ BeginPosting(t) \/ \E n \in Bonus : SpendOnSubsidy(t, n)
    <3>1. Rests(t)
      BY <1>0, <2>1, QuietEffects
    <3>2. UNCHANGED job
      BY <2>1 DEF StartTerm, BeginPosting, SpendOnSubsidy
    <3> QED BY <3>1, <3>2, BaseQuiet
  <2>2. ASSUME NEW j \in Job, NEW q \in Size, NEW n \in Bonus, PostByCommand(t, j, q, n)
        PROVE  BookInv' /\ CopyInv' /\ PlaceInv'
    BY <1>0, <2>2, PostEffects, BasePost
  <2> QED BY <1>2, <2>1, <2>2, BaseQueries, BaseFind, BaseSettle DEF Start
<1>3. ASSUME NEW t \in Task, PostingStep(t) PROVE BookInv' /\ CopyInv' /\ PlaceInv'
  <2>1. CASE Allocate(t) \/ ReadBudget(t) \/ SaveTerm(t) \/ EndPosting(t)
    <3>1. Rests(t) \/ Goes(t, On(task[t]))
      BY <1>0, <2>1, QuietEffects
    <3>2. UNCHANGED job
      BY <2>1 DEF Allocate, ReadBudget, SaveTerm, EndPosting
    <3> QED BY <3>1, <3>2, BaseQuiet
  <2>2. ASSUME NEW j \in Job, NEW q \in Size, NEW n \in Bonus, PostJob(t, j, q, n)
        PROVE  BookInv' /\ CopyInv' /\ PlaceInv'
    BY <1>0, <2>2, PostEffects, BasePost
  <2> QED BY <1>3, <2>1, <2>2, BasePosting DEF PostingStep
<1>4. ASSUME NEW t \in Task, DeliveryStep(t) PROVE BookInv' /\ CopyInv' /\ PlaceInv'
  BY <1>0, <1>4, BaseProcess, BaseClaim, BaseSettle DEF DeliveryStep
<1>5. ASSUME NEW t \in Task, CleanupStep(t) PROVE BookInv' /\ CopyInv' /\ PlaceInv'
  <2>1. CASE EndCleanup(t)
    <3>1. Rests(t)
      BY <1>0, <2>1, QuietEffects
    <3>2. UNCHANGED job
      BY <2>1 DEF EndCleanup
    <3> QED BY <3>1, <3>2, BaseQuiet
  <2> QED BY <1>5, <2>1, BaseRefund, BasePartial, BaseQueries, BaseCleanup DEF CleanupStep
<1>6. ASSUME NEW t \in Task, Crash(t) PROVE BookInv' /\ CopyInv' /\ PlaceInv'
  <2>1. Rests(t)
    BY <1>0, <1>6, QuietEffects
  <2>2. UNCHANGED job
    BY <1>6 DEF Crash
  <2> QED BY <2>1, <2>2, BaseQuiet
<1>7. ASSUME NEW j \in Job, Expire(j) PROVE BookInv' /\ CopyInv' /\ PlaceInv'
  <2>1. Only(j, "expired") /\ Posted(j) /\ UNCHANGED task
    BY <1>0, <1>7, ExpireEffects DEF Expire
  <2>2. BookInv' /\ Calm
    BY <2>1, BookKept
  <2>3. \A k \in Job : /\ job'[k].funded = job[k].funded
                       /\ job'[k].promise = job[k].promise
                       /\ job'[k].requested = job[k].requested
                       /\ job'[k].stage = job[k].stage
                       /\ job'[k].escrowed = job[k].escrowed
    BY <2>1 DEF Only
  <2> QED BY <2>1, <2>2, <2>3 DEF Base, CopyInv, CopyOk, PlaceInv, PlaceOk, Fits, Sound,
                                  Holds, Is
<1> QED BY <1>0, <1>1, <1>2, <1>3, <1>4, <1>5, <1>6, <1>7 DEF Base, Next, Step

-----------------------------------------------------------------------------
(* What a step does to the rows and to the log.                            *)
Fields == {"stage", "claimed", "expired", "bonus", "escrowed", "completions",
           "expirations"}

Writes(t, f) ==
  \/ f = "stage" /\ Publish(t)
  \/ f = "claimed" /\ ClaimJob(t)
  \/ f = "bonus" /\ ZeroBonus(t)
  \/ f = "escrowed" /\ (SaveEscrowed(t) \/ ZeroEscrow(t))
  \/ f = "completions" /\ (BoostTemplate(t) \/ BoostPartial(t))
  \/ f = "expirations" /\ DecayTemplate(t)

Rewrites ==
  \E j \in Job, f \in Fields :
    /\ Posted(j) /\ Posted(j)' /\ Only(j, f) /\ UNCHANGED log
    /\ (f = "claimed" => job'[j].claimed) /\ (f = "expired" => job'[j].expired)
    /\ \/ f = "expired" /\ Expire(j)
       \/ \E t \in Task : Is(t, Working) /\ j = Mine(t) /\ Writes(t, f)

LEMMA RowSteps ==
  ASSUME Base, [Next]_vars
  PROVE  \/ UNCHANGED <<job, log>>
         \/ Rewrites
         \/ \E t \in Task, j \in Job, q \in Size, n \in Bonus, f \in BOOLEAN :
              Posts(t, j, q, n, f) /\ UNCHANGED log
         \/ \E t \in Task : \E i \in 0 .. MaxDeliveries : ProcessDelivery(t, i)
<1> DEFINE Goal == \/ UNCHANGED <<job, log>>
                   \/ Rewrites
                   \/ \E t \in Task, j \in Job, q \in Size, n \in Bonus, f \in BOOLEAN :
                        Posts(t, j, q, n, f) /\ UNCHANGED log
                   \/ \E t \in Task : \E i \in 0 .. MaxDeliveries : ProcessDelivery(t, i)
<1>0. JobsInv
  BY DEF Base
<1>m. ASSUME NEW t \in Task, NEW f \in Fields, Is(t, Working), Only(Mine(t), f),
             f = "stage" => job'[Mine(t)].stage = "visible", f # "expired",
             f = "claimed" => job'[Mine(t)].claimed, Writes(t, f), UNCHANGED log
      PROVE  Rewrites
  <2>1. PICK j \in Job : j = Mine(t) /\ Posted(j)
    BY <1>0, <1>m, MineIs
  <2>2. Posted(j)'
    BY <1>m, <2>1 DEF Only, Posted
  <2> QED BY <1>m, <2>1, <2>2 DEF Rewrites
<1>1. CASE UNCHANGED vars
  BY <1>1 DEF vars
<1>2. ASSUME NEW t \in Task, Start(t) PROVE Goal
  <2>1. ASSUME NEW j \in Job, NEW q \in Size, NEW n \in Bonus, PostByCommand(t, j, q, n)
        PROVE  Goal
    BY <1>0, <2>1, PostEffects DEF PostByCommand
  <2> QED BY <1>2, <2>1 DEF Start, StartTerm, BeginPosting, BeginCleanup, SpendOnSubsidy,
                            FindJob, FinishJob
<1>3. ASSUME NEW t \in Task, PostingStep(t) PROVE Goal
  <2>1. ASSUME NEW j \in Job, NEW q \in Size, NEW n \in Bonus, PostJob(t, j, q, n)
        PROVE  Goal
    BY <1>0, <2>1, PostEffects DEF PostJob
  <2>2. ASSUME SaveEscrowed(t) PROVE Goal
    BY <1>0, <1>m, <2>2, PostingEffects DEF SaveEscrowed, Is, Working, Fields, Writes
  <2>3. ASSUME Publish(t) PROVE Goal
    BY <1>0, <1>m, <2>3, PostingEffects DEF Publish, Is, Working, Fields, Writes
  <2> QED BY <1>3, <2>1, <2>2, <2>3
          DEF PostingStep, Allocate, ReadBudget, SaveTerm, CheckEscrow, EscrowJournal,
              EndPosting
<1>4. ASSUME NEW t \in Task, DeliveryStep(t) PROVE Goal
  <2>1. ASSUME ClaimJob(t) PROVE Goal
    <3>1. UNCHANGED log /\ Is(t, Working)
      BY <1>0, <2>1, ClaimEffects DEF ClaimJob, Is, Working
    <3> QED BY <1>0, <1>m, <2>1, <3>1, ClaimEffects DEF Fields, Writes
  <2>2. ASSUME BoostTemplate(t) PROVE Goal
    <3>1. UNCHANGED log /\ Is(t, Working) /\ Only(Mine(t), "completions")
      BY <1>0, <2>2, SettleEffects DEF BoostTemplate, Is, Working
    <3> QED BY <1>m, <2>2, <3>1 DEF Fields, Writes
  <2> QED BY <1>4, <2>1, <2>2 DEF DeliveryStep, RefreshJob, ReadDeliveries, PayContributor,
                                  SpendJobEscrow, GrantRebate
<1>5. ASSUME NEW t \in Task, CleanupStep(t) PROVE Goal
  <2>1. ASSUME ZeroEscrow(t) PROVE Goal
    BY <1>0, <1>m, <2>1, CleanupEffects DEF ZeroEscrow, Is, Working, Fields, Writes
  <2>2. ASSUME DecayTemplate(t) PROVE Goal
    <3>1. UNCHANGED log /\ Is(t, Working) /\ Only(Mine(t), "expirations")
      BY <1>0, <2>2, CleanupEffects DEF DecayTemplate, Is, Working
    <3> QED BY <1>m, <2>2, <3>1 DEF Fields, Writes
  <2>3. ASSUME BoostPartial(t) PROVE Goal
    BY <1>0, <1>m, <2>3, CleanupEffects DEF BoostPartial, Is, Working, Fields, Writes
  <2>4. ASSUME ZeroBonus(t) PROVE Goal
    BY <1>0, <1>m, <2>4, CleanupEffects DEF ZeroBonus, Is, Working, Fields, Writes
  <2> QED BY <1>5, <2>1, <2>2, <2>3, <2>4
          DEF CleanupStep, ExpireEscrow, ReadPartial, QueryUnfunded, Penalize, EndCleanup
<1>6. ASSUME NEW t \in Task, Crash(t) PROVE Goal
  BY <1>6 DEF Crash
<1>7. ASSUME NEW j \in Job, Expire(j) PROVE Goal
  <2>1. Only(j, "expired") /\ job'[j].expired /\ Posted(j) /\ UNCHANGED log
    BY <1>0, <1>7, ExpireEffects DEF Expire
  <2>2. Posted(j)'
    BY <2>1 DEF Only, Posted
  <2> QED BY <1>7, <2>1, <2>2 DEF Rewrites, Fields
<1> QED BY <1>1, <1>2, <1>3, <1>4, <1>5, <1>6, <1>7 DEF Next, Step

(* What a posted job keeps for good.                                       *)
Lasting ==
  \A j \in Job : Posted(j) =>
    /\ Posted(j)' /\ job'[j].promise = job[j].promise
    /\ job'[j].requested = job[j].requested /\ job'[j].funded = job[j].funded
    /\ job[j].claimed => job'[j].claimed
    /\ job[j].expired => job'[j].expired

LEMMA Lasts == Base /\ [Next]_vars => Lasting
<1> SUFFICES ASSUME Base, [Next]_vars PROVE Lasting
  OBVIOUS
<1>1. CASE UNCHANGED <<job, log>>
  BY <1>1 DEF Lasting, Posted
<1>2. CASE Rewrites
  <2>1. PICK j \in Job, f \in Fields :
          /\ Posted(j)' /\ Only(j, f)
          /\ (f = "claimed" => job'[j].claimed) /\ (f = "expired" => job'[j].expired)
    BY <1>2 DEF Rewrites
  <2>2. \A k \in Job : /\ job'[k].promise = job[k].promise
                       /\ job'[k].requested = job[k].requested
                       /\ job'[k].funded = job[k].funded
                       /\ k # j => job'[k] = job[k]
    BY <2>1 DEF Only, Fields
  <2>3. (job[j].claimed => job'[j].claimed) /\ (job[j].expired => job'[j].expired)
    BY <2>1 DEF Only
  <2> QED BY <2>1, <2>2, <2>3 DEF Lasting, Posted
<1>3. ASSUME NEW t \in Task, NEW j \in Job, NEW q \in Size, NEW n \in Bonus,
             NEW f \in BOOLEAN, Posts(t, j, q, n, f)
      PROVE  Lasting
  BY <1>3 DEF Posts, Lasting, Posted
<1>4. ASSUME NEW t \in Task, NEW i, ProcessDelivery(t, i) PROVE Lasting
  <2>1. Is(t, Working) /\ Only(Mine(t), "fulfilled")
    BY <1>4, ProcessEffects DEF Base, Is, Working
  <2>2. PICK j \in Job : j = Mine(t)
    BY <2>1, HeldIsMine
  <2> QED BY <2>1, <2>2 DEF Lasting, Only, Posted
<1> QED BY <1>1, <1>2, <1>3, <1>4, RowSteps

-----------------------------------------------------------------------------
(* A delivery that enters the log adds its size to what it adds up to.     *)
LEMMA Prefix ==
  ASSUME NEW S, NEW s \in Seq(S), NEW i \in 0 .. Len(s), NEW e \in S
  PROVE  /\ Len(Insert(s, i, e)) = Len(s) + 1
         /\ Insert(s, i, e)[i + 1] = e
         /\ \A k \in 1 .. i : Insert(s, i, e)[k] = s[k]
         /\ \A k \in i + 1 .. Len(s) : Insert(s, i, e)[k + 1] = s[k]
<1> DEFINE a == SubSeq(s, 1, i)
           b == SubSeq(s, i + 1, Len(s))
<1>1. a \in Seq(S) /\ Len(a) = i /\ \A k \in 1 .. i : a[k] = s[k]
  BY SubSeqProperties
<1>2. b \in Seq(S) /\ Len(b) = Len(s) - i /\ \A k \in 1 .. Len(s) - i : b[k] = s[i + k]
  BY SubSeqProperties
<1> HIDE DEF a, b
<1>3. <<e>> \in Seq(S) /\ Len(<<e>>) = 1 /\ <<e>>[1] = e
  OBVIOUS
<1> DEFINE c == a \o <<e>>
<1>4. /\ c \in Seq(S) /\ Len(c) = i + 1 /\ c[i + 1] = e
      /\ \A k \in 1 .. i : c[k] = s[k]
  BY <1>1, <1>3, ConcatProperties
<1> HIDE DEF c
<1>5. /\ Len(c \o b) = Len(s) + 1 /\ (c \o b)[i + 1] = e
      /\ \A k \in 1 .. i : (c \o b)[k] = s[k]
      /\ \A k \in i + 1 .. Len(s) : (c \o b)[k + 1] = s[k]
  <2>1. /\ Len(c \o b) = Len(c) + Len(b)
        /\ \A k \in 1 .. Len(c) + Len(b) :
             (c \o b)[k] = IF k <= Len(c) THEN c[k] ELSE b[k - Len(c)]
    BY <1>2, <1>4, ConcatProperties
  <2>2. Len(s) \in Nat
    BY LenProperties
  <2>3. ASSUME NEW k \in i + 1 .. Len(s) PROVE (c \o b)[k + 1] = s[k]
    <3>1. k - i \in 1 .. Len(s) - i /\ i + (k - i) = k /\ (k + 1) - (i + 1) = k - i
      BY <2>2
    <3>2. (c \o b)[k + 1] = b[k - i]
      BY <1>2, <1>4, <2>1, <2>2, <3>1
    <3> QED BY <1>2, <3>1, <3>2
  <2> QED BY <1>2, <1>4, <2>1, <2>2, <2>3
<1> QED BY <1>5 DEF Insert, a, b, c

Entry == [who : Character, qty : Quantity]

LEMMA LogShape ==
  ASSUME NEW s \in Seq(Entry)
  PROVE  /\ DOMAIN s = 1 .. Len(s) /\ Len(s) \in Nat /\ IsFiniteSet(1 .. Len(s))
         /\ \A k \in 1 .. Len(s) : /\ s[k].who \in Character /\ s[k].qty \in Nat
                                   /\ Quantities(s)[k] = s[k].qty
         /\ DOMAIN Quantities(s) = 1 .. Len(s)
         /\ SumFunction(Quantities(s)) \in Nat
<1>1. DOMAIN s = 1 .. Len(s) /\ Len(s) \in Nat /\ \A k \in 1 .. Len(s) : s[k] \in Entry
  BY LenProperties, ElementOfSeq
<1>2. \A k \in 1 .. Len(s) : s[k].who \in Character /\ s[k].qty \in Nat
  BY <1>1, JobsAssumption DEF Entry
<1>3. IsFiniteSet(1 .. Len(s))
  BY <1>1, FS_Interval
<1>4. Quantities(s) \in [1 .. Len(s) -> Nat]
      /\ \A k \in 1 .. Len(s) : Quantities(s)[k] = s[k].qty
  BY <1>1, <1>2 DEF Quantities
<1>5. SumFunction(Quantities(s)) \in Nat
  <2> DEFINE f == Quantities(s)
             D == 1 .. Len(s)
  <2>1. f \in [D -> Nat] /\ IsFiniteSet(D)
    BY <1>3, <1>4
  <2> HIDE DEF f, D
  <2> QED BY <2>1, TotalNat DEF f
<1> QED BY <1>1, <1>2, <1>3, <1>4, <1>5

LEMMA InsertSums ==
  ASSUME NEW s \in Seq(Entry), NEW i \in 0 .. Len(s), NEW e \in Entry
  PROVE  SumFunction(Quantities(Insert(s, i, e))) = SumFunction(Quantities(s)) + e.qty
<1> DEFINE new == Insert(s, i, e)
           f == Quantities(new)
           g == Quantities(s)
           n == Len(s)
<1>1. new \in Seq(Entry)
  BY InsertIsSeq
<1>2. /\ Len(new) = n + 1 /\ new[i + 1] = e
      /\ \A k \in 1 .. i : new[k] = s[k]
      /\ \A k \in i + 1 .. n : new[k + 1] = s[k]
  BY Prefix
<1>3. /\ n \in Nat /\ DOMAIN f = 1 .. n + 1 /\ DOMAIN g = 1 .. n
      /\ \A k \in 1 .. n + 1 : f[k] = new[k].qty /\ f[k] \in Nat
      /\ \A k \in 1 .. n : g[k] = s[k].qty /\ g[k] \in Nat
  <2> HIDE DEF new
  <2>1. DOMAIN f = 1 .. n + 1 /\ \A k \in 1 .. n + 1 : f[k] = new[k].qty /\ f[k] \in Nat
    BY <1>1, <1>2, LogShape
  <2>2. /\ n \in Nat /\ DOMAIN g = 1 .. n
        /\ \A k \in 1 .. n : g[k] = s[k].qty /\ g[k] \in Nat
    BY LogShape
  <2> QED BY <2>1, <2>2
<1>4. IsFiniteSet(1 .. n) /\ IsFiniteSet(1 .. n + 1)
  BY <1>3, FS_Interval
<1> HIDE DEF new, f, g, n
<1> DEFINE m == [k \in 1 .. n |-> IF k <= i THEN k ELSE k + 1]
<1>5. i \in 0 .. n /\ i + 1 \in 1 .. n + 1
  BY <1>3 DEF n
<1>6. SumFunctionOnSet(g, 1 .. n) = SumFunctionOnSet(f, {m[k] : k \in 1 .. n})
  <2>1. \A x, y \in 1 .. n : m[x] = m[y] => x = y
    BY <1>3, <1>5
  <2>2. ASSUME NEW k \in 1 .. n PROVE f[m[k]] \in Int /\ g[k] = f[m[k]]
    <3>1. m[k] \in 1 .. n + 1 /\ new[m[k]] = s[k]
      BY <1>2, <1>3, <1>5 DEF n
    <3> HIDE DEF m
    <3>2. PICK x \in 1 .. n + 1 : x = m[k] /\ new[x] = s[k]
      BY <3>1
    <3>3. f[x] = new[x].qty /\ f[x] \in Nat /\ g[k] = s[k].qty
      BY <1>3
    <3> QED BY <3>2, <3>3
  <2> DEFINE D == 1 .. n
  <2>3. IsFiniteSet(D)
    BY <1>4
  <2>4. \A x, y \in D : m[x] = m[y] => x = y
    BY <2>1
  <2>5. \A k \in D : f[m[k]] \in Int /\ g[k] = f[m[k]]
    BY <2>2
  <2> HIDE DEF m, D
  <2>6. SumFunctionOnSet(g, D) = SumFunctionOnSet(f, {m[k] : k \in D})
    BY <2>3, <2>4, <2>5, SumMoved
  <2> QED BY <2>6 DEF D
<1>7. {m[k] : k \in 1 .. n} = (1 .. n + 1) \ {i + 1}
  <2>1. \A k \in 1 .. n : m[k] \in (1 .. n + 1) \ {i + 1}
    BY <1>3, <1>5
  <2>2. ASSUME NEW x \in (1 .. n + 1) \ {i + 1} PROVE \E k \in 1 .. n : m[k] = x
    <3>1. CASE x <= i
      <4>1. x \in 1 .. n
        BY <1>3, <1>5, <3>1
      <4>2. m[x] = x
        BY <3>1, <4>1
      <4> QED BY <4>1, <4>2
    <3>2. CASE ~(x <= i)
      <4>1. x - 1 \in 1 .. n /\ ~(x - 1 <= i) /\ (x - 1) + 1 = x
        BY <1>3, <1>5, <3>2
      <4>2. m[x - 1] = x
        BY <4>1
      <4> QED BY <4>1, <4>2
    <3> QED BY <3>1, <3>2
  <2> HIDE DEF m
  <2> QED BY <2>1, <2>2
<1>8. SumFunctionOnSet(f, 1 .. n + 1)
        = f[i + 1] + SumFunctionOnSet(f, (1 .. n + 1) \ {i + 1})
  <2>1. \A k \in 1 .. n + 1 : f[k] \in Int
    BY <1>3
  <2> QED BY <1>4, <1>5, <2>1, SumTake
<1>9. f[i + 1] = e.qty
  BY <1>2, <1>3, <1>5
<1>10. SumFunctionOnSet(g, 1 .. n) \in Int /\ e.qty \in Int
  BY <1>3, <1>4, <1>5, <1>9, SumInt
<1>11. SumFunctionOnSet(g, 1 .. n) = SumFunctionOnSet(f, (1 .. n + 1) \ {i + 1})
  <2> HIDE DEF m
  <2> QED BY <1>6, <1>7
<1>12. SumFunction(f) = SumFunction(g) + e.qty
  <2>1. SumFunction(f) = SumFunctionOnSet(f, 1 .. n + 1)
    BY <1>3 DEF SumFunction
  <2>2. SumFunction(g) = SumFunctionOnSet(g, 1 .. n)
    BY <1>3 DEF SumFunction
  <2> QED BY <1>8, <1>9, <1>10, <1>11, <2>1, <2>2
<1> QED BY <1>12 DEF f, g, new

(* What a job has taken is what its log says.                              *)
FulfilledInv ==
  \A j \in Job : /\ job[j].fulfilled = Least(job[j].requested, Delivered(j))
                 /\ ~Posted(j) => log[j] = <<>>

LEMMA NothingDelivered == SumFunction(Quantities(<< >>)) = 0
<1>1. DOMAIN Quantities(<< >>) = {}
  BY DEF Quantities
<1> QED BY <1>1, SumEmpty DEF SumFunction

LEMMA FulfilledInit == Init => FulfilledInv
<1> SUFFICES ASSUME Init PROVE FulfilledInv
  OBVIOUS
<1>1. ASSUME NEW j \in Job
      PROVE  job[j].fulfilled = 0 /\ job[j].requested = 0 /\ log[j] = << >>
  BY DEF Init, NoJob
<1> QED BY <1>1, NothingDelivered DEF FulfilledInv, Delivered, Least

LEMMA FulfilledNext ==
  ASSUME Base, FulfilledInv, [Next]_vars
  PROVE  FulfilledInv'
<1>1. CASE UNCHANGED <<job, log>>
  BY <1>1 DEF FulfilledInv, Delivered, Posted
<1>2. CASE Rewrites
  <2>1. UNCHANGED log /\ \A j \in Job : /\ job'[j].fulfilled = job[j].fulfilled
                                        /\ job'[j].requested = job[j].requested
                                        /\ ~Posted(j)' => ~Posted(j)
    <3>1. PICK j \in Job, f \in Fields :
            /\ Posted(j) /\ Posted(j)' /\ Only(j, f) /\ UNCHANGED log
    /\ (f = "claimed" => job'[j].claimed) /\ (f = "expired" => job'[j].expired)
      BY <1>2 DEF Rewrites
    <3>2. f # "fulfilled" /\ f # "requested"
      BY DEF Fields
    <3>3. \A k \in Job : /\ job'[k].fulfilled = job[k].fulfilled
                         /\ job'[k].requested = job[k].requested
                         /\ k # j => job'[k] = job[k]
      BY <3>1, <3>2 DEF Only
    <3> QED BY <3>1, <3>3 DEF Posted
  <2> QED BY <2>1 DEF FulfilledInv, Delivered
<1>3. ASSUME NEW t \in Task, NEW j \in Job, NEW q \in Size, NEW n \in Bonus,
             NEW f \in BOOLEAN, Posts(t, j, q, n, f), UNCHANGED log
      PROVE  FulfilledInv'
  <2>1. /\ job'[j].fulfilled = 0 /\ job'[j].requested = q /\ log[j] = << >>
        /\ \A k \in Job \ {j} : job'[k] = job[k]
        /\ Posted(j)' /\ q \in Nat
    BY <1>3, JobsAssumption DEF Posts, FulfilledInv, NewJob, NoJob, Posted
  <2>2. job'[j].fulfilled = Least(job'[j].requested, SumFunction(Quantities(log[j])))
    BY <2>1, NothingDelivered DEF Least
  <2> QED BY <1>3, <2>1, <2>2 DEF FulfilledInv, Delivered, Posted
<1>4. ASSUME NEW t \in Task, NEW i, ProcessDelivery(t, i) PROVE FulfilledInv'
  <2>0. JobsInv
    BY DEF Base
  <2>1. Is(t, Working)
    BY <1>4, <2>0, ProcessEffects DEF Is, Working
  <2>2. PICK j \in Job : j = Mine(t) /\ Posted(j) /\ job[j] \in Row
    BY <2>1, HeldIsMine
  <2> DEFINE amt == task[t].amt
  <2>3. PICK c \in Character :
          log' = [log EXCEPT ![j] = Insert(log[j], i, [who |-> c, qty |-> amt])]
    BY <1>4, <2>0, <2>2, ProcessEffects
  <2>4. /\ Only(j, "fulfilled") /\ amt \in Quantity /\ i \in 0 .. Len(log[j])
        /\ job'[j].fulfilled = job[j].fulfilled
                                + Least(job[j].requested - job[j].fulfilled, amt)
    BY <1>4, <2>0, <2>2, ProcessEffects
  <2>5. /\ log[j] \in Seq(Entry) /\ DOMAIN log = Job
        /\ [who |-> c, qty |-> amt] \in Entry /\ amt \in Nat
    BY <2>0, <2>4, JobsAssumption DEF JobsInv, LogInv, Entry
  <2> HIDE DEF amt
  <2>6. /\ log'[j] = Insert(log[j], i, [who |-> c, qty |-> amt])
        /\ \A k \in Job \ {j} : log'[k] = log[k] /\ job'[k] = job[k]
        /\ job'[j].requested = job[j].requested /\ Posted(j)'
    BY <2>2, <2>3, <2>4, <2>5 DEF Only, Posted
  <2>7. SumFunction(Quantities(log'[j])) = SumFunction(Quantities(log[j])) + amt
    BY <2>4, <2>5, <2>6, InsertSums
  <2>8. job'[j].fulfilled = Least(job'[j].requested, SumFunction(Quantities(log'[j])))
    <3> DEFINE d == SumFunction(Quantities(log[j]))
               q == job[j].requested
    <3>1. d \in Nat /\ q \in Nat /\ job[j].fulfilled = Least(q, d)
      BY <2>2, <2>5, LogShape DEF FulfilledInv, Delivered, Row
    <3> HIDE DEF d, q
    <3>2. Least(q, d) + Least(q - Least(q, d), amt) = Least(q, d + amt)
      BY <2>5, <3>1 DEF Least
    <3> QED BY <2>4, <2>6, <2>7, <3>1, <3>2 DEF d, q
  <2> QED BY <2>2, <2>6, <2>8 DEF FulfilledInv, Delivered, Posted
<1> QED BY <1>1, <1>2, <1>3, <1>4, RowSteps

(* No concurrent delivery is lost: what a job has taken is always what its *)
(* logged deliveries add up to, cut at its size.                           *)
THEOREM DeliveriesAreKept == Spec => []FulfilledIsLogged
<1>1. Init => Base /\ FulfilledInv
  BY BaseInit, FulfilledInit
<1>2. Base /\ FulfilledInv /\ [Next]_vars => (Base /\ FulfilledInv)'
  BY BaseNext, FulfilledNext
<1>3. FulfilledInv => FulfilledIsLogged
  BY DEF FulfilledInv, FulfilledIsLogged
<1> QED BY <1>1, <1>2, <1>3, PTL DEF Spec

-----------------------------------------------------------------------------
(* What the shares of a job come to.  Only the first deliveries, up to the *)
(* size of the job, count ...                                              *)
LEMMA CountedWithinCap ==
  ASSUME NEW s \in Seq(Entry), NEW cap \in Nat
  PROVE  /\ \A i \in 1 .. Len(s) : Counted(s, cap, i) \in Nat
         /\ SumFunctionOnSet([i \in 1 .. Len(s) |-> Counted(s, cap, i)], 1 .. Len(s)) <= cap
<1> DEFINE n == Len(s)
           q == Quantities(s)
           C == [i \in 1 .. n |-> Counted(s, cap, i)]
<1>1. n \in Nat /\ DOMAIN q = 1 .. n /\ \A i \in 1 .. n : q[i] = s[i].qty /\ q[i] \in Nat
  BY LogShape
<1> HIDE DEF n, q
<1>2. ASSUME NEW k \in 0 .. n
      PROVE  IsFiniteSet(1 .. k) /\ SumFunctionOnSet(q, 1 .. k) \in Nat
  <2>1. IsFiniteSet(1 .. k)
    BY <1>1, FS_Interval
  <2>2. \A i \in 1 .. k : q[i] \in Nat
    BY <1>1
  <2> QED BY <2>1, <2>2, SumNat
<1>3. ASSUME NEW i \in 1 .. n
      PROVE  /\ C[i] \in Nat /\ C[i] = Counted(s, cap, i)
             /\ C[i] = IF SumFunctionOnSet(q, 1 .. i - 1) >= cap THEN 0
                       ELSE Least(q[i], cap - SumFunctionOnSet(q, 1 .. i - 1))
  <2>1. i - 1 \in 0 .. n
    BY <1>1
  <2>2. SumFunctionOnSet(q, 1 .. i - 1) \in Nat
    BY <1>2, <2>1
  <2>3. C[i] = IF SumFunctionOnSet(q, 1 .. i - 1) >= cap THEN 0
               ELSE Least(q[i], cap - SumFunctionOnSet(q, 1 .. i - 1))
    BY <1>1 DEF Counted, q, n
  <2> QED BY <1>1, <2>2, <2>3 DEF Least
<1> HIDE DEF C
<1> DEFINE Good(k) == SumFunctionOnSet(C, 1 .. k) = Least(cap, SumFunctionOnSet(q, 1 .. k))
           Bad == {1 .. k : k \in {l \in 0 .. n : ~Good(l)}}
<1>4. Bad = {}
  <2> SUFFICES ASSUME Bad # {} PROVE FALSE
    OBVIOUS
  <2>1. PICK b \in Bad : \A t \in SUBSET b : t # b => t \notin Bad
    <3>1. Bad \in SUBSET (SUBSET (1 .. n))
      BY <1>1
    <3>2. IsFiniteSet(1 .. n)
      BY <1>1, <1>2
    <3> HIDE DEF Bad
    <3> QED BY <3>1, <3>2, SmallestSubset
  <2>2. PICK k \in 0 .. n : b = 1 .. k /\ ~Good(k)
    OBVIOUS
  <2>3. k # 0
    <3>1. 1 .. 0 = {}
      OBVIOUS
    <3> QED BY <2>2, <3>1, SumEmpty DEF Least
  <2> DEFINE a == SumFunctionOnSet(q, 1 .. k - 1)
  <2>4. k - 1 \in 0 .. n /\ k \in 1 .. n /\ a \in Nat
    BY <1>1, <1>2, <2>3
  <2>5. SumFunctionOnSet(C, 1 .. k - 1) = Least(cap, a)
    <3>1. 1 .. k - 1 \in SUBSET b /\ 1 .. k - 1 # b
      <4>1. k \in 1 .. k /\ k \notin 1 .. k - 1 /\ 1 .. k - 1 \subseteq 1 .. k
        BY <2>4
      <4> QED BY <2>2, <4>1
    <3>2. 1 .. k - 1 \notin Bad
      BY <2>1, <3>1
    <3>3. Good(k - 1)
      BY <2>4, <3>2
    <3> QED BY <3>3
  <2>6. 1 .. k = (1 .. k - 1) \cup {k} /\ k \notin 1 .. k - 1
    BY <2>4
  <2>7. IsFiniteSet(1 .. k - 1) /\ \A i \in (1 .. k - 1) \cup {k} : i \in 1 .. n
    BY <1>1, <1>2, <2>4
  <2>8. SumFunctionOnSet(C, 1 .. k) = C[k] + SumFunctionOnSet(C, 1 .. k - 1)
    <3>1. \A i \in (1 .. k - 1) \cup {k} : C[i] \in Int
      BY <1>3, <2>7
    <3> QED BY <2>6, <2>7, <3>1, SumAdded
  <2>9. SumFunctionOnSet(q, 1 .. k) = q[k] + a
    <3>1. \A i \in (1 .. k - 1) \cup {k} : q[i] \in Int
      BY <1>1, <2>7
    <3> QED BY <2>6, <2>7, <3>1, SumAdded
  <2>10. C[k] = (IF a >= cap THEN 0 ELSE Least(q[k], cap - a)) /\ q[k] \in Nat
    BY <1>1, <1>3, <2>4
  <2> HIDE DEF a
  <2> QED BY <2>2, <2>4, <2>5, <2>8, <2>9, <2>10 DEF Least
<1>5. SumFunctionOnSet(C, 1 .. n) <= cap
  <2>1. n \in 0 .. n
    BY <1>1
  <2>2. Good(n)
    BY <1>4, <2>1
  <2>3. SumFunctionOnSet(q, 1 .. n) \in Nat
    BY <1>2, <2>1
  <2> QED BY <2>2, <2>3 DEF Least
<1> QED BY <1>3, <1>5 DEF C, n

(* ... so all shares together are worth what that size is worth.           *)
LEMMA SharesWithinAmount ==
  ASSUME NEW s \in Seq(Entry), NEW cap \in Nat, NEW total \in Nat \ {0}, NEW amount \in Nat
  PROVE  /\ Shares(s, cap, total, amount) \in [Character -> Nat]
         /\ total * SumFunction(Shares(s, cap, total, amount)) <= amount * cap
<1> DEFINE n == Len(s)
           D == 1 .. n
           C == [i \in D |-> Counted(s, cap, i)]
           share == [i \in D |-> (Counted(s, cap, i) * amount) \div total]
           who == [i \in D |-> s[i].who]
           part == [c \in Character |-> SumFunctionOnSet(share, {i \in D : who[i] = c})]
<1>1. DOMAIN s = D /\ IsFiniteSet(D) /\ \A i \in D : who[i] \in Character
  BY LogShape
<1>2. (\A i \in D : C[i] \in Nat) /\ SumFunctionOnSet(C, D) <= cap
  BY CountedWithinCap
<1>3. \A x \in Nat : (x * amount) \div total \in Nat
                     /\ total * ((x * amount) \div total) <= amount * x
  <2>1. \A x \in Nat : x * amount \in Nat /\ x * amount = amount * x
    OBVIOUS
  <2>2. \A y \in Nat : y \div total \in Nat /\ total * (y \div total) <= y
    OBVIOUS
  <2> QED BY <2>1, <2>2
<1>4. \A i \in D : share[i] \in Nat /\ total * share[i] <= amount * C[i]
  BY <1>2, <1>3
<1>5. Shares(s, cap, total, amount) = part
  <2>1. \A c \in Character : {i \in D : s[i].who = c} = {i \in D : who[i] = c}
    OBVIOUS
  <2> QED BY <1>1, <2>1 DEF Shares
<1>c. IsFiniteSet(Character)
  BY JobsAssumption
<1> HIDE DEF D, share, who, C
<1>6. part \in [Character -> Nat]
  <2>1. ASSUME NEW c \in Character
        PROVE  SumFunctionOnSet(share, {i \in D : who[i] = c}) \in Nat
    <3> DEFINE E == {i \in D : who[i] = c}
    <3>1. IsFiniteSet(E) /\ \A i \in E : share[i] \in Nat
      BY <1>1, <1>4, FS_Subset
    <3> HIDE DEF E
    <3>2. SumFunctionOnSet(share, E) \in Nat
      BY <3>1, SumNat
    <3> QED BY <3>2 DEF E
  <2> QED BY <2>1
<1>7. SumFunction(part) = SumFunctionOnSet(share, D)
  <2>1. \A i \in D : share[i] \in Int /\ who[i] \in Character
    BY <1>1, <1>4
  <2> QED BY <1>1, <1>c, <2>1, SumByClass
<1> DEFINE h == [i \in D |-> total * share[i]]
           e == [i \in D |-> amount * C[i]]
<1>8. /\ \A i \in D : /\ h[i] = total * share[i] /\ e[i] = amount * C[i]
                      /\ h[i] \in Int /\ e[i] \in Int /\ h[i] <= e[i]
                      /\ share[i] \in Int /\ C[i] \in Int
  <2>1. \A x \in Nat : total * x \in Int /\ amount * x \in Int
    OBVIOUS
  <2> QED BY <1>2, <1>4, <2>1
<1> HIDE DEF h, e
<1>9. SumFunctionOnSet(h, D) = total * SumFunctionOnSet(share, D)
  <2>1. total \in Int
    OBVIOUS
  <2> QED BY <1>1, <1>8, <2>1, SumTimes
<1>10. SumFunctionOnSet(e, D) = amount * SumFunctionOnSet(C, D)
  <2>1. amount \in Int
    OBVIOUS
  <2> QED BY <1>1, <1>8, <2>1, SumTimes
<1>11. SumFunctionOnSet(h, D) <= SumFunctionOnSet(e, D)
  BY <1>1, <1>8, SumLeq
<1>12. amount * SumFunctionOnSet(C, D) <= amount * cap
  <2>1. SumFunctionOnSet(C, D) \in Int
    BY <1>1, <1>8, SumInt
  <2>2. \A x \in Int : x <= cap => amount * x <= amount * cap
    OBVIOUS
  <2> QED BY <1>2, <2>1, <2>2
<1>13. total * SumFunctionOnSet(share, D) <= amount * cap
  <2>1. SumFunctionOnSet(C, D) \in Int /\ SumFunctionOnSet(share, D) \in Int
    BY <1>1, <1>8, SumInt
  <2>2. /\ amount * SumFunctionOnSet(C, D) \in Int /\ amount * cap \in Int
        /\ total * SumFunctionOnSet(share, D) \in Int
    BY <2>1
  <2> QED BY <1>9, <1>10, <1>11, <1>12, <2>2
<1> QED BY <1>5, <1>6, <1>7, <1>13

-----------------------------------------------------------------------------
(* What a coroutine may still pay the contributors of a job, at most.      *)
Receiving == {"refresh", "readLog", "paying", "payingPartial"}

Due(s, j) ==
  CASE s.job # {j}                            -> 0
    [] s.job = {j} /\ On(s) = "refresh"       -> job[j].promise
    [] s.job = {j} /\ On(s) = "readLog"       ->
         IF s.row.fulfilled = s.row.requested THEN s.row.promise
                                              ELSE s.row.promise * s.row.requested
    [] s.job = {j} /\ On(s) \in {"paying", "payingPartial"} -> SumFunction(s.due)
    [] OTHER                                  -> 0

DueInv     == \A t \in Task : task[t].due \in [Character -> Nat]
RefreshInv == \A t \in Task, j \in Job :
                Holds(t, j) /\ Is(t, {"refresh"}) => job[j].claimed
PayInv     == /\ paid \in [Job -> Nat]
              /\ \A j \in Job :
                   paid[j] + SumFunction([t \in Task |-> Due(task[t], j)]) <= granted[j]

MoneyInv == DueInv /\ RefreshInv /\ PayInv

LEMMA DueIs ==
  ASSUME NEW s, NEW j
  PROVE  /\ s.job # {j} \/ On(s) \notin Receiving => Due(s, j) = 0
         /\ s.job = {j} /\ On(s) = "refresh" => Due(s, j) = job[j].promise
         /\ s.job = {j} /\ On(s) = "readLog" =>
              Due(s, j) = IF s.row.fulfilled = s.row.requested THEN s.row.promise
                          ELSE s.row.promise * s.row.requested
         /\ s.job = {j} /\ On(s) \in {"paying", "payingPartial"} =>
              Due(s, j) = SumFunction(s.due)
BY DEF Due, Receiving

LEMMA DueNat ==
  ASSUME JobsInv, DueInv, NEW t \in Task, NEW j \in Job
  PROVE  Due(task[t], j) \in Nat
<1>1. job[j].promise \in Nat /\ task[t].row.promise \in Nat /\ task[t].row.requested \in Nat
  BY RowShape, Shape DEF Row
<1>2. SumFunction(task[t].due) \in Nat
  BY JobsAssumption, TotalNat DEF DueInv
<1>3. task[t].row.promise * task[t].row.requested \in Nat
  BY <1>1
<1> QED BY <1>1, <1>2, <1>3, DueIs DEF Receiving

(* A step of one coroutine that pays, takes on or drops dues.              *)
LEMMA PayKept ==
  ASSUME Base, MoneyInv, Lasting, JobsInv', NEW t \in Task,
         \A u \in Task \ {t} : task'[u] = task[u],
         task'[t].due \in [Character -> Nat], paid' \in [Job -> Nat],
         \A j \in Job : task'[t].job = {j} /\ On(task'[t]) = "refresh" => job'[j].claimed,
         \A j \in Job :
           /\ Due(task[t], j)' \in Nat
           /\ paid'[j] + Due(task[t], j)' - Due(task[t], j)
                <= paid[j] + granted'[j] - granted[j]
  PROVE  MoneyInv'
<1>0. JobsInv /\ DueInv /\ RefreshInv /\ PayInv
  BY DEF Base, MoneyInv
<1>1. DueInv'
  BY <1>0 DEF DueInv
<1>2. ASSUME NEW u \in Task \ {t}, NEW j \in Job, task[u].job = {j}, On(task[u]) = "refresh"
      PROVE  /\ job'[j].promise = job[j].promise
             /\ job[j].claimed /\ job'[j].claimed
  <2>1. Posted(j)
    BY <1>0, <1>2, MineIs DEF Is, Working
  <2>2. job[j].claimed
    BY <1>0, <1>2 DEF RefreshInv, Holds, Is
  <2> QED BY <2>1, <2>2 DEF Lasting
<1>3. RefreshInv'
  BY <1>2 DEF RefreshInv, Holds, Is
<1>4. ASSUME NEW j \in Job
      PROVE  paid'[j] + SumFunction([u \in Task |-> Due(task[u], j)])' <= granted'[j]
  <2> DEFINE f == [u \in Task |-> Due(task[u], j)]
             g == f'
  <2>1. \A u \in Task : f[u] \in Int
    BY <1>0, DueNat
  <2>2. ASSUME NEW u \in Task \ {t} PROVE g[u] = f[u]
    <3>1. task'[u] = task[u]
      OBVIOUS
    <3>2. On(task[u]) = "refresh" /\ task[u].job = {j} => job'[j].promise = job[j].promise
      BY <1>2
    <3>3. Due(task[u], j)' = Due(task[u], j)
      BY <3>1, <3>2 DEF Due
    <3> QED BY <3>3
  <2>3. g[t] \in Int /\ g[t] = Due(task[t], j)' /\ f[t] = Due(task[t], j)
    OBVIOUS
  <2>4. DOMAIN f = Task /\ DOMAIN g = Task /\ IsFiniteSet(Task)
    BY JobsAssumption
  <2>5. paid[j] + SumFunction(f) <= granted[j]
    BY <1>0 DEF PayInv
  <2>6. /\ paid[j] \in Nat /\ granted[j] \in Nat /\ paid'[j] \in Nat
        /\ granted'[j] \in Nat
    BY <1>0 DEF PayInv, JobsInv, GrantInv
  <2>7. paid'[j] + g[t] - f[t] <= paid[j] + granted'[j] - granted[j]
    BY <2>3
  <2> HIDE DEF f, g
  <2>8. SumFunctionOnSet(g, Task) = SumFunctionOnSet(f, Task) + g[t] - f[t]
    BY <2>1, <2>2, <2>3, <2>4, SumChanged
  <2>9. SumFunction(g) = SumFunctionOnSet(g, Task)
        /\ SumFunction(f) = SumFunctionOnSet(f, Task)
    BY <2>4 DEF SumFunction
  <2>10. SumFunctionOnSet(f, Task) \in Int /\ f[t] \in Int
    BY <2>1, <2>4, SumInt
  <2>11. paid'[j] + SumFunction(g) <= granted'[j]
    BY <2>3, <2>5, <2>6, <2>7, <2>8, <2>9, <2>10
  <2> QED BY <2>11 DEF f, g
<1> QED BY <1>1, <1>3, <1>4 DEF MoneyInv, PayInv

(* A coroutine drops its dues, or has none and takes none on.              *)
LEMMA DuesDropped ==
  ASSUME Base, MoneyInv, Lasting, JobsInv', NEW t \in Task,
         \A u \in Task \ {t} : task'[u] = task[u],
         task'[t].due \in {task[t].due, NoShares}, On(task'[t]) \notin Receiving,
         UNCHANGED <<paid, granted>>
  PROVE  MoneyInv'
<1>0. JobsInv /\ DueInv /\ PayInv
  BY DEF Base, MoneyInv
<1>1. task'[t].due \in [Character -> Nat] /\ paid' \in [Job -> Nat]
  BY <1>0 DEF DueInv, PayInv, NoShares
<1>2. \A j \in Job : ~(task'[t].job = {j} /\ On(task'[t]) = "refresh")
  BY DEF Receiving
<1>3. ASSUME NEW j \in Job
      PROVE  /\ Due(task[t], j)' \in Nat
             /\ paid'[j] + Due(task[t], j)' - Due(task[t], j)
                  <= paid[j] + granted'[j] - granted[j]
  <2>1. Due(task[t], j)' = 0
    BY DEF Due, Receiving
  <2>2. Due(task[t], j) \in Nat
    BY <1>0, DueNat
  <2>3. paid[j] \in Nat /\ granted[j] \in Nat
    BY <1>0 DEF PayInv, JobsInv, GrantInv
  <2> QED BY <2>1, <2>2, <2>3
<1> QED BY <1>1, <1>2, <1>3, PayKept

(* Nobody touches coroutines or money.                                     *)
LEMMA DuesStay ==
  ASSUME Base, MoneyInv, Lasting, UNCHANGED <<task, paid, granted>>
  PROVE  MoneyInv'
<1>0. JobsInv /\ DueInv /\ RefreshInv /\ PayInv
  BY DEF Base, MoneyInv
<1>1. ASSUME NEW u \in Task, NEW j \in Job, task[u].job = {j}, On(task[u]) = "refresh"
      PROVE  job'[j].promise = job[j].promise /\ job'[j].claimed
  <2>1. Posted(j)
    BY <1>0, <1>1, MineIs DEF Is, Working
  <2>2. job[j].claimed
    BY <1>0, <1>1 DEF RefreshInv, Holds, Is
  <2> QED BY <2>1, <2>2 DEF Lasting
<1>2. RefreshInv' /\ DueInv'
  BY <1>0, <1>1 DEF RefreshInv, DueInv, Holds, Is
<1>3. ASSUME NEW j \in Job
      PROVE  SumFunction([u \in Task |-> Due(task[u], j)])'
               = SumFunction([u \in Task |-> Due(task[u], j)])
  <2>1. ASSUME NEW u \in Task PROVE Due(task[u], j)' = Due(task[u], j)
    <3>1. On(task[u]) = "refresh" /\ task[u].job = {j} => job'[j].promise = job[j].promise
      BY <1>1
    <3> QED BY <3>1 DEF Due
  <2>2. [u \in Task |-> Due(task[u], j)]' = [u \in Task |-> Due(task[u], j)]
    BY <2>1
  <2> QED BY <2>2
<1>4. PayInv'
  BY <1>0, <1>3 DEF PayInv
<1> QED BY <1>2, <1>4 DEF MoneyInv

LEMMA DuesRest ==
  ASSUME Base, MoneyInv, Lasting, JobsInv', NEW t \in Task, Rests(t),
         UNCHANGED <<paid, granted>>
  PROVE  MoneyInv'
BY DuesDropped DEF Rests, Away, Receiving

LEMMA DuesLeft ==
  ASSUME Base, MoneyInv, Lasting, JobsInv', NEW t \in Task, UNCHANGED <<paid, granted>>,
         NEW on, NEW held, NEW row, NEW due \in {task[t].due, NoShares}, NEW todo,
         Turns(t, on, held, row, due, todo), on \notin Receiving
  PROVE  MoneyInv'
BY DuesDropped DEF Turns

LEMMA DuesGo ==
  ASSUME Base, MoneyInv, Lasting, JobsInv', NEW t \in Task, UNCHANGED <<paid, granted>>,
         NEW on, Goes(t, on), on \notin Receiving
  PROVE  MoneyInv'
BY DuesLeft DEF Goes

LEMMA Cancel ==
  /\ \A a \in Nat \ {0} : \A x, b \in Int : a * x <= a * b => x <= b
  /\ \A a \in Nat \ {0} : \A x \in Nat : x <= a * x
<1>1. ASSUME NEW a \in Nat \ {0}, NEW x \in Int, NEW b \in Int, ~(x <= b)
      PROVE  ~(a * x <= a * b)
  <2>1. PICK d \in Nat \ {0} : x = b + d
    <3>1. x - b \in Nat \ {0} /\ x = b + (x - b)
      BY <1>1
    <3> QED BY <3>1
  <2>2. a * x = a * b + a * d
    BY <2>1
  <2>3. a * d > 0
    OBVIOUS
  <2>4. a * b \in Int /\ a * d \in Int
    OBVIOUS
  <2> QED BY <2>2, <2>3, <2>4
<1>2. \A a \in Nat \ {0} : \A x \in Nat : x <= a * x
  OBVIOUS
<1> QED BY <1>1, <1>2

(* A coroutine goes on with a job, with no more dues than were granted.    *)
LEMMA DuesGranted ==
  ASSUME Base, MoneyInv, Lasting, JobsInv', NEW t \in Task, UNCHANGED paid,
         NEW j \in Job, NEW on, NEW row, NEW due \in [Character -> Nat], NEW todo,
         Turns(t, on, {j}, row, due, todo), on = "refresh" => job'[j].claimed,
         \A k \in Job \ {j} : granted'[k] = granted[k],
         Due(task[t], j)' \in Nat,
         Due(task[t], j)' <= Due(task[t], j) + granted'[j] - granted[j]
  PROVE  MoneyInv'
<1>0. JobsInv /\ DueInv /\ PayInv
  BY DEF Base, MoneyInv
<1>1. /\ \A u \in Task \ {t} : task'[u] = task[u]
      /\ task'[t].due \in [Character -> Nat] /\ task'[t].job = {j} /\ On(task'[t]) = on
  BY DEF Turns
<1>2. paid' \in [Job -> Nat]
  BY <1>0 DEF PayInv
<1>3. ASSUME NEW k \in Job
      PROVE  /\ Due(task[t], k)' \in Nat
             /\ paid'[k] + Due(task[t], k)' - Due(task[t], k)
                  <= paid[k] + granted'[k] - granted[k]
  <2>1. /\ paid[k] \in Nat /\ granted[k] \in Nat /\ Due(task[t], k) \in Nat
        /\ granted'[k] \in Nat /\ paid'[k] = paid[k]
    BY <1>0, DueNat DEF PayInv, JobsInv, GrantInv
  <2>2. CASE k = j
    BY <2>1, <2>2
  <2>3. CASE k # j
    <3>1. Due(task[t], k)' = 0
      BY <1>1, <2>3 DEF Due
    <3> QED BY <2>1, <2>3, <3>1
  <2> QED BY <2>2, <2>3
<1>4. \A k \in Job : task'[t].job = {k} /\ On(task'[t]) = "refresh" => job'[k].claimed
  BY <1>1
<1> QED BY <1>1, <1>2, <1>3, <1>4, PayKept

LEMMA MoneyClaim ==
  ASSUME Base, MoneyInv, Lasting, JobsInv', NEW t \in Task, ClaimJob(t)
  PROVE  MoneyInv'
<1>0. JobsInv /\ DueInv /\ PayInv /\ UNCHANGED paid
  BY DEF Base, MoneyInv, ClaimJob
<1>1. Is(t, {"claim"}) /\ Is(t, Working)
  BY <1>0, ClaimEffects DEF Is, Working
<1>2. PICK j \in Job : j = Mine(t) /\ task[t].job = {j} /\ Posted(j) /\ job[j] \in Row
  BY <1>1, HeldIsMine DEF Holds
<1>3. CASE Rests(t) /\ UNCHANGED granted
  BY <1>0, <1>3, DuesRest
<1>4. CASE /\ Goes(t, "refresh") /\ job'[j].claimed
           /\ granted' = [granted EXCEPT ![j] = granted[j] + job[j].promise]
  <2>1. /\ Turns(t, "refresh", {j}, task[t].row, task[t].due, task[t].todo)
        /\ task[t].due \in [Character -> Nat]
    BY <1>0, <1>2, <1>4 DEF Goes, DueInv
  <2>2. Due(task[t], j) = 0
    BY <1>1, DueIs DEF Is, Receiving
  <2>3. Due(task[t], j)' = job[j].promise /\ job[j].promise \in Nat
    BY <1>2, <2>1 DEF Due, Turns, Lasting, Row
  <2>4. /\ \A k \in Job \ {j} : granted'[k] = granted[k]
        /\ granted'[j] = granted[j] + job[j].promise /\ granted[j] \in Nat
    BY <1>0, <1>4 DEF JobsInv, GrantInv
  <2> QED BY <1>0, <1>4, <2>1, <2>2, <2>3, <2>4, DuesGranted
<1> QED BY <1>0, <1>2, <1>3, <1>4, ClaimEffects

(* What a copy of a row promises its contributors, as the code computes it.*)
LEMMA SettledWithinPromise ==
  ASSUME NEW s \in Seq(Entry), NEW row \in Row, Sound(row), row.fulfilled # 0
  PROVE  LET due == Shares(s, row.requested, row.fulfilled, row.bonus) IN
         /\ due \in [Character -> Nat] /\ SumFunction(due) \in Nat
         /\ SumFunction(due) <= IF row.fulfilled = row.requested THEN row.promise
                                ELSE row.promise * row.requested
<1> DEFINE due == Shares(s, row.requested, row.fulfilled, row.bonus)
           r == row.requested
           f == row.fulfilled
           b == row.bonus
           p == row.promise
           x == SumFunction(due)
<1>1. r \in Nat /\ f \in Nat \ {0} /\ b \in Nat /\ p \in Nat /\ b <= p
  BY DEF Row, Sound
<1>2. due \in [Character -> Nat] /\ f * x <= b * r
  BY <1>1, SharesWithinAmount
<1>3. x \in Nat
  BY <1>2, JobsAssumption, TotalNat
<1> HIDE DEF due, r, f, b, p, x
<1>4. f = r => x <= p
  <2>1. f = r => f * x <= f * b
    BY <1>1, <1>2
  <2>2. f = r => x <= b
    BY <1>1, <1>3, <2>1, Cancel
  <2> QED BY <1>1, <1>3, <2>2
<1>5. x <= p * r
  <2>1. x <= f * x
    BY <1>1, <1>3, Cancel
  <2>2. b * r <= p * r
    BY <1>1
  <2>3. f * x \in Int /\ b * r \in Int /\ p * r \in Int
    BY <1>1, <1>3
  <2> QED BY <1>2, <1>3, <2>1, <2>2, <2>3
<1> QED BY <1>2, <1>3, <1>4, <1>5 DEF due, r, f, b, p, x

LEMMA PartWithinPromise ==
  ASSUME NEW s \in Seq(Entry), NEW row \in Row, Sound(row), Partial(row) # 0
  PROVE  LET due == Shares(s, row.requested, row.fulfilled, Partial(row)) IN
         due \in [Character -> Nat] /\ SumFunction(due) \in Nat
         /\ SumFunction(due) <= row.promise
<1> DEFINE a == Partial(row)
           due == Shares(s, row.requested, row.fulfilled, a)
           r == row.requested
           f == row.fulfilled
           b == row.bonus
           p == row.promise
           x == SumFunction(due)
<1>1. r \in Nat \ {0} /\ f \in Nat /\ b \in Nat /\ p \in Nat /\ b <= p
  BY JobsAssumption DEF Row, Sound
<1>2. a \in Nat /\ r * a <= b * f /\ (f = 0 => a = 0)
  <2>1. b * f \in Nat /\ (f = 0 => b * f = 0)
    BY <1>1
  <2>2. \A y \in Nat : y \div r \in Nat /\ r * (y \div r) <= y
    BY <1>1
  <2>3. a = (b * f) \div r /\ 0 \div r = 0
    BY <1>1 DEF Partial
  <2> QED BY <2>1, <2>2, <2>3
<1>3. f \in Nat \ {0}
  BY <1>1, <1>2
<1> HIDE DEF a
<1>4. due \in [Character -> Nat] /\ f * x <= a * r
  BY <1>1, <1>2, <1>3, SharesWithinAmount
<1>5. x \in Nat
  BY <1>4, JobsAssumption, TotalNat
<1> HIDE DEF due, r, f, b, p, x
<1>6. x <= b
  <2>1. a * r = r * a /\ b * f = f * b
    BY <1>1, <1>2
  <2>2. f * x <= f * b
    <3>1. f * x \in Int /\ r * a \in Int /\ f * b \in Int
      BY <1>1, <1>2, <1>5
    <3> QED BY <1>2, <1>4, <2>1, <3>1
  <2> QED BY <1>1, <1>3, <1>5, <2>2, Cancel
<1>7. x <= p
  BY <1>1, <1>5, <1>6
<1> QED BY <1>4, <1>5, <1>7 DEF due, r, f, b, p, x, a

LEMMA MoneyRefresh ==
  ASSUME Base, MoneyInv, Lasting, JobsInv', NEW t \in Task, RefreshJob(t)
  PROVE  MoneyInv'
<1>0. JobsInv /\ DueInv /\ PayInv /\ UNCHANGED <<paid, granted, job>>
  BY DEF Base, MoneyInv, RefreshJob, ghosts
<1>1. Is(t, {"refresh"}) /\ Is(t, Working)
  BY <1>0, SettleEffects DEF Is, Working
<1>2. PICK j \in Job : j = Mine(t) /\ task[t].job = {j} /\ job[j] \in Row
  BY <1>1, HeldIsMine DEF Holds
<1>3. CASE Rests(t)
  BY <1>0, <1>3, DuesRest
<1>4. CASE Turns(t, "readLog", task[t].job, job[j], task[t].due, task[t].todo)
  <2>1. Turns(t, "readLog", {j}, job[j], task[t].due, task[t].todo)
        /\ task[t].due \in [Character -> Nat]
    BY <1>0, <1>2, <1>4 DEF DueInv
  <2>2. job[j].claimed /\ job[j].fulfilled = job[j].requested
    BY <1>0, <1>1, <1>2 DEF MoneyInv, RefreshInv, Holds, JobsInv, JobInv, Full
  <2>3. Due(task[t], j) = job[j].promise /\ job[j].promise \in Nat
    BY <1>1, <1>2, DueIs DEF Is, Row
  <2>4. Due(task[t], j)' = job[j].promise
    BY <2>1, <2>2 DEF Due, Turns
  <2>5. granted[j] \in Nat
    BY <1>0 DEF JobsInv, GrantInv
  <2> QED BY <1>0, <2>1, <2>3, <2>4, <2>5, DuesGranted
<1> QED BY <1>0, <1>2, <1>3, <1>4, SettleEffects

LEMMA MoneyFinish ==
  ASSUME Base, MoneyInv, Lasting, JobsInv', NEW t \in Task, NEW j \in Job, FinishJob(t, j)
  PROVE  MoneyInv'
<1> DEFINE p == job[j].promise
           r == job[j].requested
<1>0. /\ JobsInv /\ UNCHANGED paid
      /\ granted' = [granted EXCEPT ![j] = granted[j] + p * r]
  BY DEF Base, FinishJob
<1>1. /\ Is(t, Away) /\ Posted(j)
      /\ Turns(t, "readLog", {j}, job[j], NoShares, {})
  BY <1>0, FinishEffects DEF Posted
<1>2. NoShares \in [Character -> Nat]
  BY DEF NoShares
<1>3. Due(task[t], j) = 0
  BY <1>1, DueIs DEF Is, Away, Receiving
<1>4. p \in Nat /\ r \in Nat \ {0}
  <2>1. Sound(job[j]) /\ job[j] \in Row
    BY <1>0, <1>1, RowShape DEF Base, BookInv
  <2> QED BY <2>1, JobsAssumption DEF Sound, Row
<1>5. Due(task[t], j)' = IF job[j].fulfilled = r THEN p ELSE p * r
  BY <1>1 DEF Due, Turns
<1>6. /\ \A k \in Job \ {j} : granted'[k] = granted[k]
      /\ granted'[j] = granted[j] + p * r /\ granted[j] \in Nat
  BY <1>0 DEF JobsInv, GrantInv
<1> HIDE DEF p, r
<1>7. p * r \in Nat /\ p <= p * r
  <2>1. p * r = r * p
    BY <1>4
  <2> QED BY <1>4, <2>1, Cancel
<1> QED BY <1>0, <1>1, <1>2, <1>3, <1>4, <1>5, <1>6, <1>7, DuesGranted

LEMMA MoneyRead ==
  ASSUME Base, MoneyInv, Lasting, JobsInv', NEW t \in Task, ReadDeliveries(t)
  PROVE  MoneyInv'
<1>0. JobsInv /\ UNCHANGED <<paid, granted>>
  BY DEF Base, ReadDeliveries, ghosts
<1>1. Is(t, {"readLog"}) /\ Is(t, Working)
  BY <1>0, SettleEffects DEF Is, Working
<1>2. PICK j \in Job : j = Mine(t) /\ task[t].job = {j} /\ Holds(t, j)
  BY <1>1, HeldIsMine DEF Holds
<1> DEFINE row == task[t].row
           due == Shares(log[j], row.requested, row.fulfilled, row.bonus)
<1>3. CASE Rests(t)
  BY <1>0, <1>3, DuesRest
<1>4. CASE row.fulfilled # 0 /\ Turns(t, "paying", task[t].job, row, due, task[t].todo)
  <2>1. Fits(row, j)
    BY <1>1, <1>2 DEF Base, CopyInv, CopyOk, Is, Copying
  <2>2. log[j] \in Seq(Entry)
    BY <1>0 DEF JobsInv, LogInv, Entry
  <2>3. /\ due \in [Character -> Nat] /\ SumFunction(due) \in Nat
        /\ SumFunction(due) <= IF row.fulfilled = row.requested THEN row.promise
                               ELSE row.promise * row.requested
    BY <1>4, <2>1, <2>2, SettledWithinPromise DEF Fits
  <2>4. Due(task[t], j) = IF row.fulfilled = row.requested THEN row.promise
                          ELSE row.promise * row.requested
    BY <1>1, <1>2, DueIs DEF Is
  <2> HIDE DEF due, row
  <2>5. Turns(t, "paying", {j}, row, due, task[t].todo)
    BY <1>2, <1>4
  <2>6. Due(task[t], j)' = SumFunction(due)
    BY <2>5 DEF Due, Turns
  <2>7. granted[j] \in Nat
    BY <1>0 DEF JobsInv, GrantInv
  <2>8. Due(task[t], j) \in Nat
    BY <1>0, DueNat DEF MoneyInv
  <2> QED BY <1>0, <2>3, <2>4, <2>5, <2>6, <2>7, <2>8, DuesGranted
<1> QED BY <1>0, <1>2, <1>3, <1>4, SettleEffects

LEMMA MoneyPay ==
  ASSUME Base, MoneyInv, Lasting, JobsInv', NEW t \in Task, NEW c \in Character,
         PayContributor(t, c)
  PROVE  MoneyInv'
<1>0. JobsInv /\ DueInv /\ PayInv /\ UNCHANGED granted
  BY DEF Base, MoneyInv, PayContributor
<1>1. Is(t, {"paying", "payingPartial"}) /\ Is(t, Working)
  BY <1>0, SettleEffects DEF Is, Working
<1>2. PICK j \in Job : j = Mine(t) /\ task[t].job = {j} /\ Holds(t, j)
  BY <1>1, HeldIsMine DEF Holds
<1> DEFINE due == task[t].due
           left == [due EXCEPT ![c] = 0]
<1>3. Turns(t, On(task[t]), {j}, task[t].row, left, task[t].todo)
  BY <1>0, <1>2, SettleEffects
<1>4. due \in [Character -> Nat] /\ due[c] \in Nat /\ left \in [Character -> Nat]
  BY <1>0 DEF DueInv
<1>5. \/ paid' = [paid EXCEPT ![j] = paid[j] + due[c]]
      \/ UNCHANGED paid
  BY <1>2 DEF PayContributor
<1> HIDE DEF due
<1>6. SumFunction(left) = SumFunction(due) + 0 - due[c]
  <2>1. due \in [Character -> Int] /\ IsFiniteSet(Character) /\ 0 \in Int
    BY <1>4, JobsAssumption
  <2> QED BY <2>1, TotalChanged
<1>7. SumFunction(left) \in Nat /\ SumFunction(due) \in Nat
  <2> HIDE DEF left
  <2> QED BY <1>4, JobsAssumption, TotalNat
<1>8. Due(task[t], j) = SumFunction(due)
  BY <1>1, <1>2, DueIs DEF Is, due
<1> HIDE DEF left
<1>9. Due(task[t], j)' = SumFunction(left)
  BY <1>1, <1>3 DEF Due, Turns, Is
<1>10. /\ \A u \in Task \ {t} : task'[u] = task[u]
       /\ task'[t].due = left /\ task'[t].job = {j} /\ On(task'[t]) = On(task[t])
  BY <1>3 DEF Turns
<1>11. paid \in [Job -> Nat] /\ paid' \in [Job -> Nat]
  BY <1>0, <1>4, <1>5 DEF PayInv
<1>12. ASSUME NEW k \in Job
       PROVE  /\ Due(task[t], k)' \in Nat
              /\ paid'[k] + Due(task[t], k)' - Due(task[t], k)
                   <= paid[k] + granted'[k] - granted[k]
  <2>1. paid[k] \in Nat /\ granted[k] \in Nat /\ granted'[k] = granted[k]
        /\ Due(task[t], k) \in Nat
    BY <1>0, <1>11, DueNat DEF JobsInv, GrantInv
  <2>2. CASE k = j
    <3>1. paid'[k] = paid[k] + due[c] \/ paid'[k] = paid[k]
      BY <1>5, <1>11, <2>2
    <3> QED BY <1>4, <1>6, <1>7, <1>8, <1>9, <2>1, <2>2, <3>1
  <2>3. CASE k # j
    <3>1. Due(task[t], k)' = 0 /\ paid'[k] = paid[k]
      BY <1>5, <1>10, <1>11, <2>3 DEF Due
    <3> QED BY <2>1, <3>1
  <2> QED BY <2>2, <2>3
<1>13. \A k \in Job : ~(task'[t].job = {k} /\ On(task'[t]) = "refresh")
  BY <1>1, <1>10 DEF Is
<1> QED BY <1>4, <1>10, <1>11, <1>12, <1>13, PayKept

LEMMA MoneyPartial ==
  ASSUME Base, MoneyInv, Lasting, JobsInv', NEW t \in Task, NEW r \in task[t].todo,
         ReadPartial(t, r)
  PROVE  MoneyInv'
<1>0. JobsInv /\ UNCHANGED paid
  BY DEF Base, ReadPartial
<1>1. PICK j \in Job : r.job = {j} /\ Fits(r.row, j)
  <2>1. Carries(task[t]) /\ CopyOk(t)
    BY <1>0, Shape DEF Base, CopyInv
  <2> QED BY <2>1 DEF Carries, CopyOk
<1> DEFINE due == PartialDue(r, j)
<1>2. /\ Is(t, {"expiredUnfunded"})
      /\ Turns(t, IF due # NoShares THEN "payingPartial" ELSE "penalty",
               {j}, r.row, due, task[t].todo \ {r})
      /\ granted' = IF due # NoShares THEN [granted EXCEPT ![j] = granted[j] + r.row.promise]
                    ELSE granted
  BY <1>0, <1>1, PartialEffects
<1>3. CASE due = NoShares
  <2>1. PICK row, todo : Turns(t, "penalty", {j}, row, NoShares, todo)
    BY <1>2, <1>3
  <2>2. UNCHANGED <<paid, granted>> /\ "penalty" \notin Receiving
    BY <1>0, <1>2, <1>3 DEF Receiving
  <2> QED BY <1>0, <2>1, <2>2, DuesLeft
<1>4. CASE due # NoShares
  <2>1. due = Shares(log[j], r.row.requested, r.row.fulfilled, Partial(r.row))
        /\ Partial(r.row) # 0
    BY <1>4 DEF PartialDue
  <2>2. log[j] \in Seq(Entry)
    BY <1>0 DEF JobsInv, LogInv, Entry
  <2>3. /\ due \in [Character -> Nat] /\ SumFunction(due) \in Nat
        /\ SumFunction(due) <= r.row.promise
    BY <1>1, <2>1, <2>2, PartWithinPromise DEF Fits
  <2> HIDE DEF due
  <2>4. Turns(t, "payingPartial", {j}, r.row, due, task[t].todo \ {r})
    BY <1>2, <1>4
  <2>5. Due(task[t], j) = 0
    BY <1>2, DueIs DEF Is, Receiving
  <2>6. Due(task[t], j)' = SumFunction(due)
    BY <2>4 DEF Due, Turns
  <2>7. /\ \A k \in Job \ {j} : granted'[k] = granted[k]
        /\ granted'[j] = granted[j] + r.row.promise /\ granted[j] \in Nat
        /\ r.row.promise \in Nat
    BY <1>0, <1>1, <1>2, <1>4 DEF JobsInv, GrantInv, Fits, Row
  <2> QED BY <1>0, <2>3, <2>4, <2>5, <2>6, <2>7, DuesGranted
<1> QED BY <1>3, <1>4

LEMMA MoneyInit == Init => MoneyInv
<1> SUFFICES ASSUME Init PROVE MoneyInv
  OBVIOUS
<1>1. \A t \in Task : On(task[t]) = "idle" /\ task[t].due = NoShares
  BY DEF Init, Idle, On, NoShares
<1>2. DueInv /\ RefreshInv
  BY <1>1 DEF DueInv, RefreshInv, Is, NoShares
<1>3. ASSUME NEW j \in Job
      PROVE  paid[j] + SumFunction([t \in Task |-> Due(task[t], j)]) <= granted[j]
  <2> DEFINE f == [t \in Task |-> Due(task[t], j)]
  <2>1. \A t \in Task : f[t] = 0
    BY <1>1, DueIs DEF Receiving
  <2>2. f \in [Task -> Int] /\ IsFiniteSet(Task)
    BY <2>1, JobsAssumption
  <2> HIDE DEF f
  <2>3. SumFunction(f) = 0
    BY <2>1, <2>2, TotalZero
  <2>4. paid[j] = 0 /\ granted[j] = 0
    BY DEF Init
  <2> QED BY <2>3, <2>4 DEF f
<1>4. PayInv
  BY <1>3 DEF Init, PayInv
<1> QED BY <1>2, <1>4 DEF MoneyInv

LEMMA MoneyNext == Base /\ MoneyInv /\ [Next]_vars => MoneyInv'
<1> SUFFICES ASSUME Base, MoneyInv, [Next]_vars PROVE MoneyInv'
  OBVIOUS
<1>0. JobsInv /\ JobsInv' /\ Lasting
  BY JobsNext, Lasts DEF Base
<1>1. CASE UNCHANGED vars
  BY <1>0, <1>1, DuesStay DEF vars, ghosts
<1>2. ASSUME NEW t \in Task, Start(t) PROVE MoneyInv'
  <2>1. CASE StartTerm(t) \/ BeginPosting(t) \/ \E n \in Bonus : SpendOnSubsidy(t, n)
    <3>1. Rests(t)
      BY <1>0, <2>1, QuietEffects
    <3>2. UNCHANGED <<paid, granted>>
      BY <2>1 DEF StartTerm, BeginPosting, SpendOnSubsidy, ghosts
    <3> QED BY <1>0, <3>1, <3>2, DuesRest
  <2>2. CASE BeginCleanup(t)
    <3>1. UNCHANGED <<paid, granted>>
      BY <2>2 DEF BeginCleanup, ghosts
    <3>2. PICK todo : Turns(t, "expiredFunded", {}, NoJob, NoShares, todo)
      BY <1>0, <2>2, QueryEffects
    <3>3. "expiredFunded" \notin Receiving
      BY DEF Receiving
    <3> QED BY <1>0, <3>1, <3>2, <3>3, DuesLeft
  <2>3. ASSUME NEW j \in Job, NEW q \in Size, NEW n \in Bonus, PostByCommand(t, j, q, n)
        PROVE  MoneyInv'
    <3>1. UNCHANGED <<paid, granted>>
      BY <2>3 DEF PostByCommand, ghosts
    <3>2. PICK f \in BOOLEAN : Posts(t, j, q, n, f)
      BY <1>0, <2>3, PostEffects
    <3> QED BY <1>0, <3>1, <3>2, DuesDropped DEF Posts, Receiving
  <2>4. ASSUME NEW j \in Job, NEW c \in Character, NEW q \in Quantity, FindJob(t, j, c, q)
        PROVE  MoneyInv'
    <3>1. UNCHANGED <<paid, granted>>
      BY <2>4 DEF FindJob, ghosts
    <3> QED BY <1>0, <2>4, <3>1, FindEffects, DuesLeft DEF Receiving
  <2> QED BY <1>0, <1>2, <2>1, <2>2, <2>3, <2>4, MoneyFinish DEF Start
<1>3. ASSUME NEW t \in Task, PostingStep(t) PROVE MoneyInv'
  <2>0. UNCHANGED <<paid, granted>>
    BY <1>3 DEF PostingStep, Allocate, ReadBudget, SaveTerm, PostJob, CheckEscrow,
                EscrowJournal, SaveEscrowed, Publish, EndPosting, ghosts
  <2>1. CASE ReadBudget(t) \/ SaveTerm(t)
    <3>1. On(task[t]) \notin Receiving
      BY <1>0, <2>1, OnIs DEF ReadBudget, SaveTerm, Resumes, AfterTerm, Receiving
    <3> QED BY <1>0, <2>0, <2>1, <3>1, QuietEffects, DuesRest, DuesGo
  <2>2. CASE Allocate(t) \/ EndPosting(t)
    BY <1>0, <2>0, <2>2, QuietEffects, DuesRest
  <2>3. CASE CheckEscrow(t) \/ EscrowJournal(t) \/ SaveEscrowed(t) \/ Publish(t)
    <3>1. \A on \in {"publish", "escrowJournal", "saveEscrowed"} : on \notin Receiving
      BY DEF Receiving
    <3> QED BY <1>0, <2>0, <2>3, <3>1, PostingEffects, DuesRest, DuesGo
  <2>4. ASSUME NEW j \in Job, NEW q \in Size, NEW n \in Bonus, PostJob(t, j, q, n)
        PROVE  MoneyInv'
    <3>1. PICK f \in BOOLEAN : Posts(t, j, q, n, f)
      BY <1>0, <2>4, PostEffects
    <3> QED BY <1>0, <2>0, <3>1, DuesDropped DEF Posts, Receiving
  <2> QED BY <1>3, <2>1, <2>2, <2>3, <2>4 DEF PostingStep
<1>4. ASSUME NEW t \in Task, DeliveryStep(t) PROVE MoneyInv'
  <2>1. ASSUME NEW i \in 0 .. MaxDeliveries, ProcessDelivery(t, i) PROVE MoneyInv'
    <3>1. UNCHANGED <<paid, granted>>
      BY <2>1 DEF ProcessDelivery, ghosts
    <3>2. Rests(t) \/ Turns(t, "claim", {Mine(t)}, NoJob, NoShares, {})
      BY <1>0, <2>1, ProcessEffects
    <3>3. "claim" \notin Receiving
      BY DEF Receiving
    <3>4. CASE Turns(t, "claim", {Mine(t)}, NoJob, NoShares, {})
      BY <1>0, <3>1, <3>3, <3>4, DuesLeft
    <3> QED BY <1>0, <3>1, <3>2, <3>4, DuesRest
  <2>2. CASE SpendJobEscrow(t) \/ GrantRebate(t)
    <3>1. UNCHANGED <<paid, granted>>
      BY <2>2 DEF SpendJobEscrow, GrantRebate, ghosts
    <3>2. "rebate" \notin Receiving /\ "boost" \notin Receiving
      BY DEF Receiving
    <3> QED BY <1>0, <2>2, <3>1, <3>2, SettleEffects, DuesGo
  <2>3. CASE BoostTemplate(t)
    <3>1. UNCHANGED <<paid, granted>>
      BY <2>3 DEF BoostTemplate, ghosts
    <3> QED BY <1>0, <2>3, <3>1, SettleEffects, DuesRest
  <2> QED BY <1>0, <1>4, <2>1, <2>2, <2>3, MoneyClaim, MoneyRefresh, MoneyRead, MoneyPay
          DEF DeliveryStep
<1>5. ASSUME NEW t \in Task, CleanupStep(t) PROVE MoneyInv'
  <2>1. ASSUME NEW r \in task[t].todo, ExpireEscrow(t, r) PROVE MoneyInv'
    <3>1. UNCHANGED <<paid, granted>>
      BY <2>1 DEF ExpireEscrow, ghosts
    <3>2. Turns(t, "zeroEscrow", r.job, r.row, task[t].due, task[t].todo \ {r})
      BY <1>0, <2>1, ExpireEscrowEffects
    <3>3. "zeroEscrow" \notin Receiving
      BY DEF Receiving
    <3> QED BY <1>0, <3>1, <3>2, <3>3, DuesLeft
  <2>2. CASE \/ ZeroEscrow(t) \/ DecayTemplate(t) \/ QueryUnfunded(t)
             \/ BoostPartial(t) \/ Penalize(t) \/ ZeroBonus(t) \/ EndCleanup(t)
    <3>1. UNCHANGED <<paid, granted>>
      BY <2>2 DEF ZeroEscrow, DecayTemplate, QueryUnfunded, BoostPartial, Penalize,
                  ZeroBonus, EndCleanup, ghosts
    <3>2. \A on \in {"decayFunded", "decayUnfunded", "expiredFunded", "expiredUnfunded",
                     "penalty", "zeroBonus"} : on \notin Receiving
      BY DEF Receiving
    <3>3. CASE ZeroEscrow(t) \/ BoostPartial(t) \/ Penalize(t) \/ ZeroBonus(t)
      BY <1>0, <3>1, <3>2, <3>3, CleanupEffects, DuesGo
    <3>4. CASE DecayTemplate(t)
      BY <1>0, <3>1, <3>2, <3>4, CleanupEffects, DuesLeft
    <3>5. CASE QueryUnfunded(t)
      BY <1>0, <3>1, <3>2, <3>5, QueryEffects, DuesLeft
    <3>6. CASE EndCleanup(t)
      BY <1>0, <3>1, <3>6, QuietEffects, DuesRest
    <3> QED BY <2>2, <3>3, <3>4, <3>5, <3>6
  <2> QED BY <1>0, <1>5, <2>1, <2>2, MoneyPartial DEF CleanupStep
<1>6. ASSUME NEW t \in Task, Crash(t) PROVE MoneyInv'
  <2>1. UNCHANGED <<paid, granted>>
    BY <1>6 DEF Crash, ghosts
  <2> QED BY <1>0, <1>6, <2>1, QuietEffects, DuesRest
<1>7. ASSUME NEW j \in Job, Expire(j) PROVE MoneyInv'
  BY <1>0, <1>7, DuesStay DEF Expire, ghosts
<1> QED BY <1>1, <1>2, <1>3, <1>4, <1>5, <1>6, <1>7 DEF Next, Step

LEMMA PaidFits ==
  ASSUME JobsInv, MoneyInv, NEW j \in Job
  PROVE  paid[j] <= granted[j]
<1> DEFINE f == [t \in Task |-> Due(task[t], j)]
<1>1. f \in [Task -> Nat] /\ IsFiniteSet(Task)
  BY DueNat, JobsAssumption DEF MoneyInv
<1>2. paid[j] + SumFunction(f) <= granted[j]
  BY DEF MoneyInv, PayInv
<1> HIDE DEF f
<1>3. SumFunction(f) \in Nat
  BY <1>1, TotalNat
<1>4. paid[j] \in Nat /\ granted[j] \in Nat
  BY DEF MoneyInv, PayInv, JobsInv, GrantInv
<1> QED BY <1>2, <1>3, <1>4

(* The contributors of a job never receive more than its settlements were  *)
(* worth, whatever is delivered while it is being settled.                 *)
THEOREM PaidWithin == Spec => []PaidWithinGrants
<1>1. Init => Base /\ MoneyInv
  BY BaseInit, MoneyInit
<1>2. Base /\ MoneyInv /\ [Next]_vars => (Base /\ MoneyInv)'
  BY BaseNext, MoneyNext
<1>3. Base /\ MoneyInv => PaidWithinGrants
  BY PaidFits DEF Base, PaidWithinGrants
<1> QED BY <1>1, <1>2, <1>3, PTL DEF Spec
=============================================================================
