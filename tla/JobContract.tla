---------------------------- MODULE JobContract ----------------------------
(***************************************************************************)
(* What delivery jobs promise, without coroutines or snapshots: a job that *)
(* was posted collects cargo until nothing remains, is fulfilled once, and *)
(* what its contributors receive was granted to them before.  A fulfilment *)
(* grants the promised bonus once; a job that no ministry funded may grant *)
(* it again at its expiry; a funded job never does.                        *)
(***************************************************************************)
EXTENDS Integers

CONSTANTS Job, Size, Promise   \* jobs, sizes, completion bonuses

VARIABLES stage,      \* "unposted", "open" or "fulfilled"
          terms,      \* what was promised when the job was posted
          remaining,  \* cargo still wanted
          allowance   \* granted and not yet paid

contract == <<stage, terms, remaining, allowance>>

NoTerms == [bonus |-> 0, funded |-> FALSE]

Init ==
  /\ stage = [j \in Job |-> "unposted"]
  /\ terms = [j \in Job |-> NoTerms]
  /\ remaining = [j \in Job |-> 0]
  /\ allowance = [j \in Job |-> 0]

Post(j, q, n, funded) ==
  /\ stage[j] = "unposted"
  /\ stage' = [stage EXCEPT ![j] = "open"]
  /\ terms' = [terms EXCEPT ![j] = [bonus |-> n, funded |-> funded]]
  /\ remaining' = [remaining EXCEPT ![j] = q]
  /\ UNCHANGED allowance

Deliver(j, n) ==
  /\ stage[j] = "open" /\ n <= remaining[j]
  /\ remaining' = [remaining EXCEPT ![j] = @ - n]
  /\ UNCHANGED <<stage, terms, allowance>>

Fulfil(j) ==
  /\ stage[j] = "open" /\ remaining[j] = 0
  /\ stage' = [stage EXCEPT ![j] = "fulfilled"]
  /\ allowance' = [allowance EXCEPT ![j] = @ + terms[j].bonus]
  /\ UNCHANGED <<terms, remaining>>

GrantAtExpiry(j) ==
  /\ stage[j] # "unposted" /\ ~terms[j].funded
  /\ allowance' = [allowance EXCEPT ![j] = @ + terms[j].bonus]
  /\ UNCHANGED <<stage, terms, remaining>>

(* An administrator may finish a job by hand, also when it is not full: the*)
(* shares are then parts of what was delivered, up to the size of the job. *)
Override(j, q) ==
  /\ stage[j] # "unposted"
  /\ allowance' = [allowance EXCEPT ![j] = @ + q * terms[j].bonus]
  /\ UNCHANGED <<stage, terms, remaining>>

Pay(j, n) ==
  /\ n <= allowance[j]
  /\ allowance' = [allowance EXCEPT ![j] = @ - n]
  /\ UNCHANGED <<stage, terms, remaining>>

Next ==
  \E j \in Job :
    \/ \E q \in Size, n \in Promise, funded \in BOOLEAN : Post(j, q, n, funded)
    \/ \E n \in 1 .. remaining[j] : Deliver(j, n)
    \/ Fulfil(j)
    \/ GrantAtExpiry(j)
    \/ \E q \in Size : Override(j, q)
    \/ \E n \in 1 .. allowance[j] : Pay(j, n)

Spec == Init /\ [][Next]_contract
=============================================================================
