------------------------------- MODULE Auction ------------------------------
(***************************************************************************)
(* The internal auction API, api/auction_routes.py: bids are moved from a  *)
(* checking account into one pooled escrow account, refunded from it to    *)
(* the outbid, and settled from it to the seller.                          *)
(*                                                                         *)
(* Each endpoint checks a balance, awaits, and posts a journal entry.      *)
(* The auction bot that calls it is outside the repository: it asks one    *)
(* thing at a time for an auction, and asks again when no answer came.     *)
(***************************************************************************)
EXTENDS Integers, FiniteSetsExt

CONSTANTS Bidder,
          Lot,         \* the auctions that are open at once
          Seller,      \* who sells: bidders, Treasury or Unknown
          Treasury,    \* seller_type = "treasury"
          Unknown,     \* a seller without a character: 404
          Funds,       \* what a bidder's checking account opens with
          MaxBid,      \* bound on a bid
          Losses       \* bound: answers that never reach the bot

ASSUME AuctionAssumption ==
  /\ IsFiniteSet(Bidder) /\ IsFiniteSet(Lot)
  /\ {Treasury, Unknown} \cap Bidder = {} /\ Treasury # Unknown
  /\ Seller \subseteq Bidder \cup {Treasury, Unknown}
  /\ Funds \in Nat /\ MaxBid \in Nat /\ Losses \in Nat

VARIABLES checking,    \* Checking Account of each bidder
          escrow,      \* Auction Escrow
          revenue,     \* Auction Revenue, in the government book
          call,        \* the request of each auction, in the API
          lead,        \* the bot: highest bid of each auction
          lost         \* answers lost so far

auctionVars == <<checking, escrow, revenue, call, lead, lost>>

NoBid  == [who |-> Unknown, amt |-> 0]
NoCall == [op |-> "none", who |-> Unknown, amt |-> 0, at |-> "idle"]
\* who: the bidder of a bid or a refund, the seller of a settlement

AuctionInit ==
  /\ checking = [c \in Bidder |-> Funds]
  /\ escrow = 0 /\ revenue = 0
  /\ call = [l \in Lot |-> NoCall]
  /\ lead = [l \in Lot |-> NoBid]
  /\ lost = 0

Request(op, bid) == [op |-> op, who |-> bid.who, amt |-> bid.amt, at |-> "sent"]

-----------------------------------------------------------------------------
(* The bot.                                                                *)

Bid(l) == \E c \in Bidder : \E x \in (lead[l].amt + 1)..MaxBid :
  /\ call[l].at = "idle"
  /\ call' = [call EXCEPT ![l] = Request("escrow", [who |-> c, amt |-> x])]
  /\ UNCHANGED <<checking, escrow, revenue, lead, lost>>

Hammer(l) == \E s \in Seller :
  /\ call[l].at = "idle" /\ lead[l].amt > 0
  /\ call' = [call EXCEPT ![l] = Request("settle", [lead[l] EXCEPT !.who = s])]
  /\ UNCHANGED <<checking, escrow, revenue, lead, lost>>

(* A bid that is in escrow outbids the last one, which is then refunded.   *)
Answered(l) ==
  /\ call[l].at = "posted"
  /\ lead' = [lead EXCEPT ![l] =
       CASE call[l].op = "escrow" -> [who |-> call[l].who, amt |-> call[l].amt]
         [] call[l].op = "settle" -> NoBid
         [] OTHER -> @]
  /\ call' = [call EXCEPT ![l] = IF call[l].op = "escrow" /\ lead[l].amt > 0
                                 THEN Request("refund", lead[l]) ELSE NoCall]
  /\ UNCHANGED <<checking, escrow, revenue, lost>>

(* A refused bid is dropped.  A refund or settlement is asked for again.   *)
Refused(l) ==
  /\ call[l].at = "refused"
  /\ call' = [call EXCEPT ![l] = IF call[l].op = "escrow" THEN NoCall
                                 ELSE [@ EXCEPT !.at = "sent"]]
  /\ UNCHANGED <<checking, escrow, revenue, lead, lost>>

AnswerLost(l) ==
  /\ call[l].at = "posted" /\ lost < Losses
  /\ lost' = lost + 1
  /\ call' = [call EXCEPT ![l].at = "sent"]
  /\ UNCHANGED <<checking, escrow, revenue, lead>>

-----------------------------------------------------------------------------
(* The endpoints.                                                          *)

(* escrow_funds asks the checking account, the other two the pool.         *)
Sufficient(l) == IF call[l].op = "escrow" THEN checking[call[l].who] >= call[l].amt
                 ELSE escrow >= call[l].amt

(* The seller is looked up after the escrow balance was checked.           *)
SellerFound(l) == call[l].op = "settle" => call[l].who # Unknown

EagerSettle(l) ==   \* planted mistake: debited before the seller is looked up
  /\ call[l].at = "sent"
  /\ escrow' = IF Sufficient(l) /\ ~SellerFound(l) THEN escrow - call[l].amt ELSE escrow
  /\ call' = [call EXCEPT ![l].at = IF Sufficient(l) /\ SellerFound(l)
                                    THEN "checked" ELSE "refused"]
  /\ UNCHANGED <<checking, revenue, lead, lost>>

CheckBalance(l) ==
  /\ call[l].at = "sent"
  /\ call' = [call EXCEPT ![l].at = IF Sufficient(l) /\ SellerFound(l)
                                    THEN "checked" ELSE "refused"]
  /\ UNCHANGED <<checking, escrow, revenue, lead, lost>>

PostEscrow(l) ==
  /\ call[l].op = "escrow"
  /\ escrow' = escrow + call[l].amt
  /\ checking' = [checking EXCEPT ![call[l].who] = @ - call[l].amt]
  /\ UNCHANGED revenue

PostRefund(l) ==
  /\ call[l].op = "refund"
  /\ escrow' = escrow - call[l].amt
  /\ checking' = [checking EXCEPT ![call[l].who] = @ + call[l].amt]
  /\ UNCHANGED revenue

(* The treasury's sale debits the bank book and credits the government's:  *)
(* neither the Bank Vault nor the Treasury Fund sees the money.            *)
PostSettle(l) ==
  /\ call[l].op = "settle"
  /\ escrow' = escrow - call[l].amt
  /\ IF call[l].who = Treasury
     THEN revenue' = revenue + call[l].amt /\ UNCHANGED checking
     ELSE /\ checking' = [checking EXCEPT ![call[l].who] = @ + call[l].amt]
          /\ UNCHANGED revenue

Post(l) ==
  /\ call[l].at = "checked"
  /\ PostEscrow(l) \/ PostRefund(l) \/ PostSettle(l)
  /\ call' = [call EXCEPT ![l].at = "posted"]
  /\ UNCHANGED <<lead, lost>>

AuctionNext == \E l \in Lot :
  Bid(l) \/ Hammer(l) \/ Answered(l) \/ Refused(l) \/ AnswerLost(l)
  \/ CheckBalance(l) \/ Post(l)

AuctionSpec == AuctionInit /\ [][AuctionNext]_auctionVars

-----------------------------------------------------------------------------
(* What an auction has in the pool: its highest bid, a bid just taken, and *)
(* the old bid until it is refunded; nothing once it is settled.           *)
Stake(l) ==
  IF call[l].op = "settle" /\ call[l].at = "posted" THEN 0
  ELSE lead[l].amt +
    IF \/ call[l].op = "escrow" /\ call[l].at = "posted"
       \/ call[l].op = "refund" /\ call[l].at # "posted"
    THEN call[l].amt ELSE 0

(* The pool is short of the bids that it holds by at most one bid for each *)
(* lost answer: while every answer arrives, no auction can be refused, or  *)
(* paid out of, the money of another, though the API checks only the pool. *)
EscrowBacksBids ==
  escrow >= SumFunction([l \in Lot |-> Stake(l)]) - lost * MaxBid
=============================================================================
