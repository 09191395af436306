CONSTANTS
  Parts = {"auction", "chain", "voucher", "guild", "suspect",
           "presence", "race", "polling", "service"}

  Bidder = {b1, b2}
  Lot = {l1, l2}
  Seller = {b1, Treasury, Unknown}
  Treasury = Treasury
  Unknown = Unknown
  Funds = 2
  MaxBid = 2
  Losses = 1

  goods = goods
  extra = extra
  Character = {c1, c2}
  GovEmployee = {c2}
  Objective = {goods, extra}
  Primary = goods
  Weight <- Weights
  Ceiling <- Ceilings
  Rate = 4
  MaxQuantity = 1
  Deliveries = 2
  Task = {t1, t2}
  Pass = {p1, p2}
  Treasure = 3
  Faults = 1

  Player = {q1, q2}
  Nobody = Nobody
  Claim = {k1, k2}
  Amount = 2
  Budget = 9
  Restarts = 1

  Guild = {g1, g2}
  NoGuild = NoGuild
  Handler = {h1, h2}
  Moves = 4

  Lifetime = 2
  Events = 3
  Mishaps = 1

  Lines = 5
  Slips = 1

  Racers = 2
  Owner = 1
  Goal = 1
  Races = 2
  Deaths = 1

  Poller = {r1, r2}
  Emits = 3
  Ticks = 2
  RingLength = 2
  Breaks = 2

  Earner = {e1, e2}
  Incomes <- Pays
  LevelStep = 2
  Boom = 0
  Works = 2
  Terms = 2
  Hitches = 1

SPECIFICATION TownSpec
INVARIANTS
  EscrowBacksBids
  RewardsWithinPool
  FulfilledCountsContributions
  VoucherPaidOnce
  SessionFollowsSeat
  SuspectsStayFlagged
  SessionsMatchLines
  RacesAreKept
  PolledOnce
  ServiceIsHonoured
PROPERTY EventDistributed
CHECK_DEADLOCK FALSE
