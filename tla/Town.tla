-------------------------------- MODULE Town --------------------------------
(***************************************************************************)
(* The smaller parts of the backend side by side.  They share no state but *)
(* the ledger, which Treasury is about, so that a behaviour of one says    *)
(* nothing of another: the initial state picks a part, and the others rest.*)
(***************************************************************************)
EXTENDS Auction, SupplyChain, Voucher, Guilds, Suspects, Presence, Race, Polling,
        Service

CONSTANT Parts         \* the parts that are looked at

ASSUME TownAssumption ==
  Parts \subseteq {"auction", "chain", "voucher", "guild", "suspect",
                   "presence", "race", "polling", "service"}

VARIABLE part

townVars == <<part, auctionVars, chainVars, voucherVars, guildVars, suspectVars,
              presenceVars, raceVars, pollingVars, serviceVars>>

TownInit == /\ part \in Parts
            /\ AuctionInit /\ ChainInit /\ VoucherInit /\ GuildInit /\ SuspectInit
            /\ PresenceInit /\ RaceInit /\ PollingInit /\ ServiceInit
            /\ part # "voucher" => owner = Nobody /\ treasury = Budget
            /\ part # "presence" => first = "login"

OthersRest ==
  /\ UNCHANGED part
  /\ part # "auction"  => UNCHANGED auctionVars
  /\ part # "chain"    => UNCHANGED chainVars
  /\ part # "voucher"  => UNCHANGED voucherVars
  /\ part # "guild"    => UNCHANGED guildVars
  /\ part # "suspect"  => UNCHANGED suspectVars
  /\ part # "presence" => UNCHANGED presenceVars
  /\ part # "race"     => UNCHANGED raceVars
  /\ part # "polling"  => UNCHANGED pollingVars
  /\ part # "service"  => UNCHANGED serviceVars

TownNext ==
  /\ \/ part = "auction"  /\ AuctionNext
     \/ part = "chain"    /\ ChainNext
     \/ part = "voucher"  /\ VoucherNext
     \/ part = "guild"    /\ GuildNext
     \/ part = "suspect"  /\ SuspectNext
     \/ part = "presence" /\ PresenceNext
     \/ part = "race"     /\ RaceNext
     \/ part = "polling"  /\ PollingNext
     \/ part = "service"  /\ ServiceNext
  /\ OthersRest

(* Only in one part must something happen.                                 *)
TownSpec == TownInit /\ [][TownNext]_townVars /\ ChainFairness
=============================================================================
