------------------------------- MODULE Voucher ------------------------------
(***************************************************************************)
(* /claim_voucher, commands/finance.py, and send_fund_to_player under it:  *)
(* one voucher that several claims reach, each of them a coroutine.        *)
(***************************************************************************)
EXTENDS Integers, FiniteSetsExt

CONSTANTS Player,      \* each with one character
          Nobody,      \* no player: anyone with the code may claim
          Claim,       \* claims that may be in progress at once
          Amount,      \* of the voucher
          Budget,      \* what the treasury may pay before it is at its floor
          Restarts     \* bound

ASSUME VoucherAssumption ==
  /\ IsFiniteSet(Player) /\ IsFiniteSet(Claim) /\ Nobody \notin Player
  /\ Amount \in Nat \ {0} /\ {Budget, Restarts} \subseteq Nat

VARIABLES owner,       \* Voucher.player
          claimedBy,   \* Voucher.claimed_by, with claimed_at
          treasury,    \* the Treasury Fund above its floor
          banked,      \* deposits into the checking accounts
          claim        \* cmd_claim_voucher

VARIABLES overlaps,    \* ghost: claims that began while another was going on
          refusals,    \* ghost: payments below the floor
          restarts

voucherVars == <<owner, claimedBy, treasury, banked, claim, overlaps, refusals, restarts>>

NoClaim == [at |-> "idle", who |-> Nobody]

VoucherInit ==
  /\ owner \in Player \cup {Nobody} /\ claimedBy = Nobody
  /\ treasury \in {Budget, Amount - 1}
  /\ banked = [p \in Player |-> 0]
  /\ claim = [k \in Claim |-> NoClaim]
  /\ overlaps = 0 /\ refusals = 0 /\ restarts = 0

ClaimedOrNot == TRUE   \* planted mistake: is_claimed is not asked

Claimable == claimedBy = Nobody

Read(k) ==
  /\ claim[k].at = "idle" /\ Claimable
  /\ \E p \in Player :
       /\ owner \in {p, Nobody}
       /\ claim' = [claim EXCEPT ![k] = [at |-> "floor", who |-> p]]
  /\ overlaps' = overlaps + (IF \E j \in Claim : claim[j].at # "idle" THEN 1 ELSE 0)
  /\ UNCHANGED <<owner, claimedBy, treasury, banked, refusals, restarts>>

(* check_treasury_floor: below it nothing is paid and nothing is said.     *)
CheckFloor(k) ==
  /\ claim[k].at = "floor"
  /\ claim' = [claim EXCEPT ![k].at = IF Amount <= treasury THEN "fund" ELSE "mark"]
  /\ refusals' = IF Amount <= treasury THEN refusals ELSE refusals + 1
  /\ UNCHANGED <<owner, claimedBy, treasury, banked, overlaps, restarts>>

(* The two journal entries of send_fund_to_player.                         *)
FromTreasury(k) ==
  /\ claim[k].at = "fund"
  /\ treasury' = treasury - Amount
  /\ claim' = [claim EXCEPT ![k].at = "bank"]
  /\ UNCHANGED <<owner, claimedBy, banked, overlaps, refusals, restarts>>

ToChecking(k) ==
  /\ claim[k].at = "bank"
  /\ banked' = [banked EXCEPT ![claim[k].who] = @ + Amount]
  /\ claim' = [claim EXCEPT ![k].at = "mark"]
  /\ UNCHANGED <<owner, claimedBy, treasury, overlaps, refusals, restarts>>

(* The voucher read before the payment is saved after it.                  *)
MarkClaimed(k) ==
  /\ claim[k].at = "mark"
  /\ claimedBy' = claim[k].who /\ owner' = claim[k].who
  /\ claim' = [claim EXCEPT ![k] = NoClaim]
  /\ UNCHANGED <<treasury, banked, overlaps, refusals, restarts>>

Restarted ==
  /\ restarts < Restarts
  /\ restarts' = restarts + 1
  /\ claim' = [k \in Claim |-> NoClaim]
  /\ UNCHANGED <<owner, claimedBy, treasury, banked, overlaps, refusals>>

VoucherNext ==
  \/ Restarted
  \/ \E k \in Claim : Read(k) \/ CheckFloor(k) \/ FromTreasury(k)
                      \/ ToChecking(k) \/ MarkClaimed(k)

VoucherSpec == VoucherInit /\ [][VoucherNext]_voucherVars

-----------------------------------------------------------------------------
Banked == SumFunction(banked)

(* A voucher marked claimed was paid unless the treasury was at its floor, *)
(* and it is paid once, save once more for each claim that overlapped      *)
(* another and for each restart before the mark.                           *)
VoucherPaidOnce ==
  /\ Banked <= Amount * (1 + overlaps + restarts)
  /\ claimedBy # Nobody => Banked >= Amount * (1 - refusals)
=============================================================================
